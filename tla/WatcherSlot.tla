----------------------------- MODULE WatcherSlot -----------------------------
(***************************************************************************)
(* What the pid file promises, with no lock, no `ps` and no steps inside a *)
(* claim: one slot that names a project's restart supervisor.  A watcher   *)
(* takes the slot only when nobody that still lives is named in it, may    *)
(* die at any time and leave its name behind, and a name is wiped only     *)
(* once its watcher is dead.  So every live watcher is the one the slot    *)
(* names: `down` can find it, and there are never two.                     *)
(***************************************************************************)
CONSTANTS
  Sups,     \* the processes that may become the project's supervisor
  NoSup     \* an empty slot

VARIABLES
  slot,     \* whom the pid file names
  live      \* the watchers that have claimed the project and still run

SlotInit == slot = NoSup /\ live = {}

Take(s) ==
  /\ slot \notin live
  /\ slot' = s
  /\ live' = live \cup {s}

Leave(s) ==
  /\ s \in live
  /\ live' = live \ {s}
  /\ UNCHANGED slot

Vacate ==
  /\ slot \notin live
  /\ slot' = NoSup
  /\ UNCHANGED live

SlotNext == Vacate \/ \E s \in Sups : Take(s) \/ Leave(s)

SlotSpec == SlotInit /\ [][SlotNext]_<<slot, live>>

\* Every live watcher is the one the slot names.
LiveIsNamed == live \subseteq {slot}
=============================================================================
