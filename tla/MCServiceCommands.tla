------------------------- MODULE MCServiceCommands -------------------------
(* Small instances of ServiceCommands: a `web` that depends on a `db`.     *)
EXTENDS ServiceCommands

CONSTANTS db, web, stop1, kill1, start1, restart1, restart2

Order == <<db, web>>
Needs == [s \in Services |-> IF s = web THEN {db} ELSE {}]
DbAlways ==
  [s \in Services |-> [mode |-> IF s = db THEN "always" ELSE "no", max |-> 0]]
NoPolicies == [s \in Services |-> [mode |-> "no", max |-> 0]]
AtOnce == <<0>>

Asked(verb, names) == [verb |-> verb, names |-> names]

Asks ==
  [c \in Cmds |->
     CASE c = stop1  -> Asked("stop", <<db>>)
       [] c = kill1  -> Asked("kill", <<web>>)
       [] c = start1 -> Asked("start", <<web, db>>)
       [] c = restart1 -> Asked("restart", <<db, web>>)
       [] OTHER      -> Asked("restart", <<web, db>>)]

ASSUME KillsApart
=============================================================================
