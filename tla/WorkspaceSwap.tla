---------------------------- MODULE WorkspaceSwap ----------------------------
(***************************************************************************)
(* `ws snapshot`, `ws rollback`, `ws rm` and `ws prune` of one workspace   *)
(* directory (internal/workspace/workspace.go).  A rollback saves the      *)
(* workspace, stages the snapshot beside it and swaps the two by renames;  *)
(* any step may fail, and the command may die between any two.             *)
(***************************************************************************)
EXTENDS Naturals, Sequences, FiniteSets

CONSTANTS
  SnapNames,        \* names a user gives
  MaxVersion,   \* edits
  MaxRollbacks, \* each with a fresh autosave name (nanoseconds): 1, 2, ...
  MaxTroubles   \* failed steps and crashes

\* What a directory holds: a version, whole; or a part of one: "cut" where a
\* snapshot's own copy was, "half" where the staging of a restore was.
NoTree == [v |-> 0, kind |-> "none"]
Whole(n) == [v |-> n, kind |-> "whole"]
Autosaves == 1..MaxRollbacks
Stored == SnapNames \cup Autosaves

\* The names of autosaves are refused to users (IsAutosave, in Snapshot).
ASSUME SwapAssumption == MaxRollbacks \in Nat /\ 0 \notin SnapNames /\ SnapNames \cap Autosaves = {}

VARIABLES
  root, tmp, old,   \* the workspace and its two siblings
  snaps,            \* name -> what is stored under it
  cmd,              \* the rollback under way
  prior,            \* what the workspace held when it began
  edits, rollbacks, troubles,
  replaced          \* what rollbacks moved aside, less what the user removed

wsVars == <<root, tmp, old, snaps, cmd, prior, edits, rollbacks, troubles, replaced>>
dirs   == <<root, tmp, old, snaps>>
tally  == <<prior, edits, rollbacks>>

Idle0 == [at |-> "idle", name |-> 0, said |-> "none"]
Resting == cmd.at = "idle"
Goes0(p) == cmd' = [cmd EXCEPT !.at = p]
Tells(w)  == cmd' = [cmd EXCEPT !.at = "idle", !.said = w]
Autosave == rollbacks
Trouble == troubles < MaxTroubles /\ troubles' = troubles + 1

-----------------------------------------------------------------------------
\* The user edits the workspace, or makes it anew where it is gone.
Edits ==
  /\ Resting /\ edits < MaxVersion
  /\ edits' = edits + 1 /\ root' = Whole(edits + 1)
  /\ UNCHANGED <<tmp, old, snaps, cmd, prior, rollbacks, troubles, replaced>>

\* snapshot: a name not taken, a workspace that is there; a clone or copy that
\* fails part way leaves what it had copied under the name.
Saves(n) ==
  \/ snaps' = [snaps EXCEPT ![n] = root] /\ UNCHANGED troubles
  \/ Trouble /\ snaps' \in {[snaps EXCEPT ![n] = [root EXCEPT !.kind = "cut"]], snaps}

TakesSnapshot(n) ==
  /\ Resting /\ snaps[n] = NoTree /\ root # NoTree
  /\ Saves(n)
  /\ UNCHANGED <<root, tmp, old, cmd, tally, replaced>>

\* Remove, and Prune (which keeps the named ones, unless told --all).
Forgets(S) ==
  /\ snaps' = [n \in Stored |-> IF n \in S THEN NoTree ELSE snaps[n]]
  /\ replaced' = replaced \ {snaps[n] : n \in S}
  /\ UNCHANGED <<root, tmp, old, cmd, tally, troubles>>
RemovesSnapshot(n) == Resting /\ snaps[n] # NoTree /\ Forgets({n})
\* The `keep` newest stay; autosaves are numbered in the order they were made.
Prunes(keep) ==
  LET made == {n \in Autosaves : snaps[n] # NoTree}
      drop == {n \in made : Cardinality({m \in made : m > n}) >= keep}
  IN Resting /\ drop # {} /\ Forgets(drop)

-----------------------------------------------------------------------------
\* Rollback(name): the snapshot is there; then the workspace is saved.
StartsRollback(n) ==
  /\ Resting /\ rollbacks < MaxRollbacks /\ snaps[n] # NoTree
  /\ cmd' = [at |-> "save", name |-> n, said |-> "none"]
  /\ rollbacks' = rollbacks + 1 /\ prior' = root
  /\ UNCHANGED <<dirs, edits, troubles, replaced>>

\* Mutation: a failed autosave does not stop the rollback.
SavesFirstOrNot ==
  /\ cmd.at = "save" /\ root # NoTree
  /\ Saves(Autosave) /\ Goes0("stage")
  /\ UNCHANGED <<root, tmp, old, tally, replaced>>

SavesFirst ==
  /\ cmd.at = "save"
  /\ \/ root = NoTree /\ Tells("not saved") /\ UNCHANGED <<snaps, troubles>>
     \/ /\ root # NoTree /\ Saves(Autosave)
        /\ IF troubles' = troubles THEN Goes0("stage") ELSE Tells("not saved")
  /\ UNCHANGED <<root, tmp, old, tally, replaced>>

\* RemoveAll(tmp), clone or copy into it; a failed one is removed again.
Stages ==
  /\ cmd.at = "stage"
  /\ \/ tmp' = snaps[cmd.name] /\ Goes0("clearOld") /\ UNCHANGED troubles
     \/ Trouble /\ tmp' \in {NoTree, [snaps[cmd.name] EXCEPT !.kind = "half"]} /\ Tells("not staged")
  /\ UNCHANGED <<root, old, snaps, tally, replaced>>

\* RemoveAll(old), whose failure is not asked: the rename onto it fails then.
ClearsOld ==
  /\ cmd.at = "clearOld" /\ Goes0("aside")
  /\ \/ old' = NoTree /\ UNCHANGED troubles
     \/ Trouble /\ old # NoTree /\ UNCHANGED old
  /\ UNCHANGED <<root, tmp, snaps, tally, replaced>>

MovesAside ==
  /\ cmd.at = "aside"
  /\ \/ /\ old = NoTree /\ old' = root /\ root' = NoTree
        /\ replaced' = replaced \cup {root} /\ Goes0("in") /\ UNCHANGED <<tmp, troubles>>
     \/ /\ IF old = NoTree THEN Trouble ELSE UNCHANGED troubles
        /\ tmp' = NoTree /\ Tells("nothing changed") /\ UNCHANGED <<root, old, replaced>>
  /\ UNCHANGED <<snaps, tally>>

MovesIn ==
  /\ cmd.at = "in"
  /\ \/ root' = tmp /\ tmp' = NoTree /\ Goes0("tidy") /\ UNCHANGED troubles
     \/ Trouble /\ Goes0("back") /\ UNCHANGED <<root, tmp>>
  /\ UNCHANGED <<old, snaps, tally, replaced>>

PutsBack ==
  /\ cmd.at = "back"
  /\ \/ root' = old /\ old' = NoTree /\ Tells("not restored") /\ UNCHANGED troubles
     \/ Trouble /\ Tells("safe aside and saved") /\ UNCHANGED <<root, old>>
  /\ UNCHANGED <<tmp, snaps, tally, replaced>>

Tidies ==
  /\ cmd.at = "tidy" /\ Tells("restored")
  /\ \/ old' = NoTree /\ UNCHANGED troubles
     \/ Trouble /\ UNCHANGED old
  /\ UNCHANGED <<root, tmp, snaps, tally, replaced>>

\* The command dies; a copy under way is left as far as it came.
Dies ==
  /\ ~Resting /\ Trouble /\ cmd' = Idle0
  /\ CASE cmd.at = "save" /\ root # NoTree ->
            snaps' = [snaps EXCEPT ![Autosave] = [root EXCEPT !.kind = "cut"]] /\ UNCHANGED tmp
       [] cmd.at = "stage" ->
            tmp' = [snaps[cmd.name] EXCEPT !.kind = "half"] /\ UNCHANGED snaps
       [] OTHER -> UNCHANGED <<snaps, tmp>>
  /\ UNCHANGED <<root, old, tally, replaced>>

-----------------------------------------------------------------------------
SwapInit ==
  /\ root = Whole(1) /\ tmp = NoTree /\ old = NoTree
  /\ snaps = [n \in Stored |-> NoTree]
  /\ cmd = Idle0 /\ prior = NoTree /\ edits = 1 /\ rollbacks = 0 /\ troubles = 0
  /\ replaced = {}

SwapNext ==
  \/ Edits
  \/ \E n \in SnapNames : TakesSnapshot(n)
  \/ \E n \in Stored : RemovesSnapshot(n) \/ StartsRollback(n)
  \/ \E keep \in 0..1 : Prunes(keep)
  \/ SavesFirst \/ Stages \/ ClearsOld \/ MovesAside \/ MovesIn \/ PutsBack \/ Tidies \/ Dies

SwapSpec == SwapInit /\ [][SwapNext]_wsVars

-----------------------------------------------------------------------------
\* "Rolling back must be reversible": what a rollback moved aside is as it
\* was somewhere (the workspace, beside it, a snapshot) until the user removes it,
\* whatever failed and wherever a command died.
NothingIsLost ==
  \A c \in replaced : c \in {root, old} \/ \E n \in Stored : snaps[n] = c

\* "A mid-restore failure never leaves the workspace half-overwritten."
NeverHalfRestored == root.kind # "half"

\* What a rollback says is so: "restored" is the snapshot, with what was there
\* saved; "nothing changed", "not restored" left it as it was; and where it
\* could not be put back it is both aside and saved.
RollbackTellsTheTruth ==
  [][cmd.at # "idle" /\ cmd'.at = "idle" =>
       CASE cmd'.said = "restored" -> root' = snaps'[cmd.name] /\ snaps'[Autosave] = prior
         [] cmd'.said \in {"not saved", "not staged", "nothing changed", "not restored"} -> root' = prior
         [] cmd'.said = "safe aside and saved" -> old' = prior /\ snaps'[Autosave] = prior
         [] OTHER -> TRUE]_wsVars

\* A rollback keeps what it replaces, never leaves a half of anything, and says so.
RollbackIsReversible == []NothingIsLost /\ []NeverHalfRestored /\ RollbackTellsTheTruth
=============================================================================
