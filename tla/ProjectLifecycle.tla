-------------------------- MODULE ProjectLifecycle --------------------------
(***************************************************************************)
(* `up`, `down` and `destroy` of one project, run by any number of         *)
(* processes at once, and the restart supervisors they start and stop      *)
(* (cmd/opossum/main.go, internal/orchestrator/lock.go, destroy.go).       *)
(*                                                                         *)
(* Composes the claim protocol (SupervisorClaim) with the project lock (a  *)
(* second FlockFile).  What `up` does to containers is one step here (its  *)
(* own module has the detail): it decides which supervised services are    *)
(* there when the supervisor is chosen.  The compose file does not change. *)
(***************************************************************************)
EXTENDS SupervisorClaim

CONSTANTS
  Ups, Downs, Destroys,   \* which command each process is
  FirstUse,               \* TRUE: the project has no state directory yet
  MayCrash                \* TRUE: a command may be killed at any moment

ASSUME LifecycleAssumption ==
  /\ Cmds = Ups \cup Downs \cup Destroys
  /\ Ups \cap Downs = {} /\ Ups \cap Destroys = {} /\ Downs \cap Destroys = {}
  /\ FirstUse \in BOOLEAN
  /\ MayCrash \in BOOLEAN

VARIABLES
  lockPath, lockFd, lockHeld,   \* the project lock (FlockFile)
  pc,        \* where each command stands
  chosen,    \* what an `up` would have watched
  failed,    \* the `up`s whose bring-up returned an error
  child,     \* the supervisor an `up` spawned
  plan,      \* what a `destroy` planned before it asked for confirmation
  left,      \* the commands that could not confirm a supervisor gone
  present,   \* the services with a container
  lone       \* supervisors whose `up` let go before it saw them claim

projectVars == <<lockPath, lockFd, lockHeld>>
cmdVars     == <<chosen, failed, child, plan, left>>
vars        == <<claimVars, projectVars, pc, cmdVars, present, lone>>

Project == INSTANCE FlockFile WITH
             Procs <- Cmds,
             path <- lockPath, fd <- lockFd, held <- lockHeld

Finished == {"done", "refused", "crashed"}
PcStates == Finished \cup
  {"start", "locking", "bringUp", "plan", "compare", "replace", "replacing",
   "unchecked", "spawn", "await", "early", "earlyStop", "forget", "relock",
   "stop", "stopping", "clear", "remove", "confirm", "unlink", "release"}

TypeOK ==
  /\ ClaimTypeOK
  /\ Project!FlockTypeOK
  /\ pc \in [Cmds -> PcStates]
  /\ chosen \in [Cmds -> SUBSET Services]
  /\ failed \in SUBSET Ups
  /\ child \in [Cmds -> Sups \cup {NoSup}]
  /\ plan \in [Destroys -> [running : BOOLEAN, dir : BOOLEAN]]
  /\ left \in SUBSET Cmds
  /\ present \in SUBSET Services
  /\ lone \in SUBSET Sups

Init ==
  /\ ClaimInit
  /\ stateDir = ~FirstUse
  /\ Project!FlockInit
  /\ pc = [c \in Cmds |-> "start"]
  /\ chosen = [c \in Cmds |-> {}]
  /\ failed = {}
  /\ child = [c \in Cmds |-> NoSup]
  /\ plan = [c \in Destroys |-> [running |-> FALSE, dir |-> FALSE]]
  /\ left = {}
  /\ present = {}
  /\ lone = {}

-----------------------------------------------------------------------------
\* A command moves on; `At` is its guard, `Goto` its effect.
At(c, state)   == pc[c] = state
Goto(c, state) == pc' = [pc EXCEPT ![c] = state]

\* The supervisor c spawned runs and has not claimed: a command that ends now
\* leaves it to claim when it likes.
Unclaimed(c) == {child[c]} \cap (Alive \ Live)

-----------------------------------------------------------------------------
(* The project lock (lock.go).  lockProject does not wait: busy is refused *)

\* The state directory is made, the lock file opened or made.
LockOpen(c, from, to) ==
  /\ At(c, from)
  /\ MakeStateDir
  /\ Project!Open(c)
  /\ Goto(c, to)
  /\ UNCHANGED <<cmdVars, present, lone>>

\* Mutation: the project lock is shared.
LockGrantedShared(c, from, to) ==
  /\ At(c, from)
  /\ lockHeld' = lockHeld \cup {c}
  /\ Goto(c, to)
  /\ UNCHANGED <<lockPath, lockFd, claimVars, cmdVars, present, lone>>

LockGranted(c, from, to) ==
  /\ At(c, from)
  /\ Project!Grant(c)
  /\ Goto(c, to)
  /\ UNCHANGED <<claimVars, cmdVars, present, lone>>

LockBusy(c, from) ==
  /\ At(c, from)
  /\ Project!Busy(c)
  /\ Project!Close(c)
  /\ Goto(c, "refused")
  /\ UNCHANGED <<claimVars, cmdVars, present, lone>>

Release(c) ==
  /\ At(c, "release")
  /\ Project!Close(c)
  /\ Goto(c, "done")
  /\ UNCHANGED <<claimVars, cmdVars, present, lone>>

\* The process is killed: both locks go with it, nothing else is undone.
Crash(c) ==
  /\ MayCrash
  /\ pc[c] \notin Finished
  /\ Goto(c, "crashed")
  /\ Project!Close(c)
  /\ Abandon(c)
  /\ lone' = lone \cup Unclaimed(c)
  /\ UNCHANGED <<cmdVars, present>>

-----------------------------------------------------------------------------
(* StopSupervisor from a command: it is called, its steps follow, and the  *)
(* command goes on when it has returned.                                   *)

CallStop(c, from, to) ==
  /\ At(c, from)
  /\ StopBegin(c)
  /\ Goto(c, to)
  /\ UNCHANGED <<projectVars, cmdVars, present, lone>>

Stopping(c) ==
  /\ StopAction(c)
  /\ UNCHANGED <<projectVars, pc, cmdVars, present, lone>>

Returned(c, from) == At(c, from) /\ stop[c] = "idle"

Unconfirmed(c) == IF result[c] = "unconfirmed" THEN {c} ELSE {}

-----------------------------------------------------------------------------
(* `up`, detached.                                                         *)

\* The bring-up, in one step: the services there were stay, those it started
\* and left (all of them on success, what a rollback kept on failure) are
\* there.  With no supervisor wanted, or nothing started, it is over.
BringUp(c) ==
  /\ At(c, "bringUp")
  /\ \E started \in SUBSET Services, ok \in BOOLEAN :
       /\ present' = present \cup started
       /\ chosen' = [chosen EXCEPT ![c] = started]
       /\ failed' = IF ok THEN failed ELSE failed \cup {c}
       /\ Goto(c, "plan") \/ Goto(c, "release")
  /\ UNCHANGED <<claimVars, projectVars, child, plan, left, lone>>

\* What it started, and what is on record as watched and still has a
\* container (or the runtime could not be asked about).
PlanWatch(c) ==
  /\ At(c, "plan")
  /\ \E still \in {watched, watched \cap present} :
       LET all == chosen[c] \cup still IN
         /\ chosen' = [chosen EXCEPT ![c] = all]
         /\ Goto(c, IF all = {} THEN "release" ELSE "compare")
  /\ UNCHANGED <<claimVars, projectVars, failed, child, plan, left, present, lone>>

\* WatchedMatches: a record, and exactly this set.
WatchedMatches(set) == watched # {} /\ watched = set

\* A supervisor is running over another set: a failed `up` leaves it.
Compare(c) ==
  /\ At(c, "compare")
  /\ \/ /\ SeesWatcher /\ ~WatchedMatches(chosen[c])
        /\ Goto(c, IF c \in failed THEN "release" ELSE "replace")
     \/ /\ SeesNobody \/ SeesUnknown \/ WatchedMatches(chosen[c])
        /\ Goto(c, "unchecked")
  /\ UNCHANGED <<claimVars, projectVars, cmdVars, present, lone>>

\* A stop that is not confirmed is not started over.
Replaced(c) ==
  /\ Returned(c, "replacing")
  /\ left' = left \cup Unconfirmed(c)
  /\ Goto(c, IF result[c] = "unconfirmed" THEN "release" ELSE "unchecked")
  /\ UNCHANGED <<claimVars, projectVars, chosen, failed, child, plan, present, lone>>

Unchecked(c) ==
  /\ At(c, "unchecked")
  /\ \/ SeesUnknown /\ Goto(c, "release")
     \/ (SeesNobody \/ SeesWatcher) /\ Goto(c, "spawn")
  /\ UNCHANGED <<claimVars, projectVars, cmdVars, present, lone>>

\* StartSupervisor: nothing to do where one is running.
AlreadyWatching(c) ==
  /\ At(c, "spawn")
  /\ SeesWatcher
  /\ Goto(c, "release")
  /\ UNCHANGED <<claimVars, projectVars, cmdVars, present, lone>>

\* Mutation: `up` lets go of the lock with its child still to claim.
SpawnChildNoWait(c) ==
  /\ At(c, "spawn")
  /\ SeesNobody \/ SeesUnknown
  /\ \E s \in Sups :
       /\ Spawn(s, chosen[c])
       /\ child' = [child EXCEPT ![c] = s]
  /\ Goto(c, "release")
  /\ UNCHANGED <<projectVars, chosen, failed, plan, left, present, lone>>

\* Mutation: the parent writes the pid file for its child, with no lock.
SpawnChildClaimed(c) ==
  /\ At(c, "spawn")
  /\ SeesNobody \/ SeesUnknown
  /\ \E s \in Sups :
       /\ SupStep(s, "unborn", "recording")
       /\ want' = [want EXCEPT ![s] = chosen[c]]
       /\ child' = [child EXCEPT ![c] = s]
       /\ pidFile' = s
  /\ Goto(c, "await")
  /\ UNCHANGED <<stateDir, watched, lockVars, asked, recycled, stopVars, projectVars,
                 chosen, failed, plan, left, present, lone>>

SpawnChild(c) ==
  /\ At(c, "spawn")
  /\ SeesNobody \/ SeesUnknown
  /\ \E s \in Sups :
       /\ Spawn(s, chosen[c])
       /\ child' = [child EXCEPT ![c] = s]
  /\ Goto(c, "await")
  /\ UNCHANGED <<projectVars, chosen, failed, plan, left, present, lone>>

\* awaitSupervisorClaim: the claim is seen, the child has exited, or a second
\* and a half is over.
Awaited(c) ==
  /\ At(c, "await")
  /\ Goto(c, "release")
  /\ UNCHANGED <<claimVars, projectVars, cmdVars, present>>

AwaitClaim(c)   == SeesWatcher /\ pidFile = child[c] /\ Awaited(c) /\ UNCHANGED lone
AwaitExit(c)    == child[c] \notin Alive /\ Awaited(c) /\ UNCHANGED lone
AwaitTimeout(c) == child[c] \in Alive /\ Awaited(c) /\ lone' = lone \cup Unclaimed(c)

Up(c) ==
  \/ LockOpen(c, "start", "locking")
  \/ LockGranted(c, "locking", "bringUp")
  \/ LockBusy(c, "locking")
  \/ BringUp(c)
  \/ PlanWatch(c)
  \/ Compare(c)
  \/ CallStop(c, "replace", "replacing")
  \/ Replaced(c)
  \/ Unchecked(c)
  \/ AlreadyWatching(c)
  \/ SpawnChild(c)
  \/ AwaitClaim(c)
  \/ AwaitExit(c)
  \/ AwaitTimeout(c)

-----------------------------------------------------------------------------
(* `down`.                                                                 *)

\* Mutation: the supervisor is always looked for before the lock is taken.
HoldNothingYet(c) ==
  /\ At(c, "start")
  /\ Goto(c, "early")
  /\ UNCHANGED <<claimVars, projectVars, cmdVars, present, lone>>

\* HoldProjectLock: with no state directory there is nothing to hold, and the
\* supervisor is looked for without the lock.
HoldNothing(c) ==
  /\ At(c, "start")
  /\ ~stateDir
  /\ Goto(c, "early")
  /\ UNCHANGED <<claimVars, projectVars, cmdVars, present, lone>>

\* The name worked out without the file is none, or another project's (the
\* file names this one): what comes before the file is read passes this by.
GuessedAnother(c) ==
  /\ At(c, "start")
  /\ Goto(c, "relock")
  /\ UNCHANGED <<claimVars, projectVars, cmdVars, present, lone>>

\* The record is forgotten; the command ends here where the file cannot be
\* read and nobody named the project, or where it names another.
EarlyStopped(c) ==
  /\ Returned(c, "earlyStop")
  /\ ClearWatched
  /\ left' = left \cup Unconfirmed(c)
  /\ Goto(c, IF c \in lockHeld THEN "stop" ELSE "relock") \/ Goto(c, "release")
  /\ UNCHANGED <<projectVars, chosen, failed, child, plan, present, lone>>

\* Down asks again under the lock, unless the first ask was not confirmed.
DownSkipsStop(c) ==
  /\ At(c, "stop")
  /\ c \in left
  /\ Goto(c, "clear")
  /\ UNCHANGED <<claimVars, projectVars, cmdVars, present, lone>>

DownStops(c) == c \notin left /\ CallStop(c, "stop", "stopping")

DownStopped(c) ==
  /\ Returned(c, "stopping")
  /\ left' = left \cup Unconfirmed(c)
  /\ Goto(c, "clear")
  /\ UNCHANGED <<claimVars, projectVars, chosen, failed, child, plan, present, lone>>

Forget(c) ==
  /\ At(c, "clear")
  /\ ClearWatched
  /\ Goto(c, "remove")
  /\ UNCHANGED <<projectVars, cmdVars, present, lone>>

\* Every removal is best-effort.
RemoveContainers(c, to) ==
  /\ At(c, "remove")
  /\ present' \in SUBSET present
  /\ Goto(c, to)
  /\ UNCHANGED <<claimVars, projectVars, cmdVars, lone>>

Down(c) ==
  \/ HoldNothing(c)
  \/ GuessedAnother(c)
  \/ stateDir /\ LockOpen(c, "start", "locking")
  \/ LockGranted(c, "locking", "early")
  \/ LockBusy(c, "locking")
  \/ CallStop(c, "early", "earlyStop")
  \/ EarlyStopped(c)
  \/ LockOpen(c, "relock", "forget")
  \/ LockGranted(c, "forget", "stop")
  \/ LockBusy(c, "forget")
  \/ DownSkipsStop(c)
  \/ DownStops(c)
  \/ DownStopped(c)
  \/ Forget(c)
  \/ RemoveContainers(c, "release")

-----------------------------------------------------------------------------
(* `destroy`: the plan is made, shown and confirmed with no lock held.     *)

Plan(c) ==
  /\ At(c, "start")
  /\ \E running \in BOOLEAN :
       /\ IF running THEN SeesWatcher \/ SeesUnknown ELSE SeesNobody
       /\ plan' = [plan EXCEPT ![c] = [running |-> running, dir |-> stateDir]]
  /\ Goto(c, "confirm")
  /\ UNCHANGED <<claimVars, projectVars, chosen, failed, child, left, present, lone>>

\* The supervisor is stopped only where the plan saw one.
DestroyBegins(c) ==
  /\ LockGranted(c, "locking", IF plan[c].running THEN "stop" ELSE "remove")

\* Mutation: a supervisor that could not be stopped is not remembered.
DestroyStoppedForgets(c) ==
  /\ Returned(c, "stopping")
  /\ Goto(c, "remove")
  /\ UNCHANGED <<claimVars, projectVars, cmdVars, present, lone>>

DestroyStopped(c) ==
  /\ Returned(c, "stopping")
  /\ left' = left \cup Unconfirmed(c)
  /\ Goto(c, "remove")
  /\ UNCHANGED <<claimVars, projectVars, chosen, failed, child, plan, present, lone>>

\* The state directory goes with all that is in it, the lock this command
\* holds included, unless a supervisor is left.
RemoveStateDir(c) ==
  /\ At(c, "unlink")
  /\ plan[c].dir /\ c \notin left
  /\ stateDir' = FALSE
  /\ pidFile' = NoSup
  /\ watched' = {}
  /\ Lock!Unlink
  /\ Project!Unlink
  /\ Goto(c, "release")
  /\ UNCHANGED <<sup, want, asked, recycled, stopVars, cmdVars, present, lone>>

KeepStateDir(c) ==
  /\ At(c, "unlink")
  /\ ~plan[c].dir \/ c \in left
  /\ Goto(c, "release")
  /\ UNCHANGED <<claimVars, projectVars, cmdVars, present, lone>>

Destroy(c) ==
  \/ Plan(c)
  \/ LockOpen(c, "confirm", "locking")
  \/ DestroyBegins(c)
  \/ LockBusy(c, "locking")
  \/ CallStop(c, "stop", "stopping")
  \/ DestroyStopped(c)
  \/ RemoveContainers(c, "unlink")
  \/ RemoveStateDir(c)
  \/ KeepStateDir(c)

-----------------------------------------------------------------------------
Command(c) ==
  \/ c \in Ups /\ Up(c)
  \/ c \in Downs /\ Down(c)
  \/ c \in Destroys /\ Destroy(c)
  \/ Stopping(c)
  \/ Release(c)

Supervisor(s) ==
  /\ SupervisorAction(s)
  /\ UNCHANGED <<projectVars, pc, cmdVars, present, lone>>

\* A supervisor ends, or its pid is given away.
Fate(s) ==
  /\ Die(s) \/ Recycle(s)
  /\ UNCHANGED <<projectVars, pc, cmdVars, present, lone>>

Next ==
  \/ \E c \in Cmds : Command(c) \/ Crash(c)
  \/ \E s \in Sups : Supervisor(s) \/ Fate(s)

Spec == Init /\ [][Next]_vars

\* A command and a supervisor that can go on does: they are processes whose
\* waits are bounded, but for the claim lock, which flock grants in turn.
Fairness ==
  /\ \A c \in Cmds : WF_vars(Command(c))
  /\ \A s \in Sups : WF_vars(Supervisor(s))

FairSpec == Spec /\ Fairness

-----------------------------------------------------------------------------
(* Properties.                                                             *)

\* "The two never overlap" (lock.go): one command at a time changes the
\* project.
OneCommandAtATime == Project!Exclusive

\* Why: while nothing unlinks the lock file, all who have it open have the
\* same inode.
ProjectLockUnbroken ==
  /\ \A p \in Cmds : lockFd[p] \in {NoInode, lockPath}
  /\ \A p \in lockHeld : lockFd[p] # NoInode
  /\ OneCommandAtATime

\* The case lock.go was written for: two `up`s under way at once.
UpsNeverOverlap == \A p, q \in lockHeld \cap Ups : p = q

\* Every step a command or a supervisor takes here is one the claim protocol
\* allows, so that what is proved of the protocol holds of the whole.
UsesClaimProtocol == [][ClaimNext]_claimVars

\* A `down` that said nothing of a supervisor it could not stop leaves none
\* behind, claimed or still starting, but for one whose `up` stopped waiting
\* for the claim or was killed (#1740).
QuietDownLeavesNobody ==
  [][\A d \in Downs :
       At(d, "remove") /\ pc'[d] = "release" /\ d \notin left
         => Alive' \subseteq lone]_vars

\* A `destroy` whose plan saw a supervisor removes the state directory only
\* when nobody is left who has claimed the project or is about to (#1755).
DestroyThatLookedLosesNobody ==
  [][\A x \in Destroys :
       At(x, "unlink") /\ stateDir /\ ~stateDir' /\ plan[x].running
         => Alive \subseteq lone]_vars

\* The same of every `destroy`: "left out, a destroy would remove the pid
\* file of one that runs on, and nothing could find it" (destroy.go).
DestroyLosesNobody ==
  [][\A x \in Destroys :
       At(x, "unlink") /\ stateDir /\ ~stateDir' => Live \subseteq lone]_vars

\* No command signals a supervisor whose `up` still holds the project lock
\* and waits for its claim (#1822).
AwaitedChildNotSignalled ==
  [][\A u \in Ups : At(u, "await") => child[u] \notin asked' \ asked]_vars

\* No command waits forever, on a lock or on another process.
CommandsEnd == \A c \in Cmds : <>(pc[c] \in Finished)

\* A supervisor that was spawned comes to watch, or exits.
SupervisorsSettle ==
  \A s \in Sups : sup[s] = "starting" ~> sup[s] \in {"watching", "gone"}
=============================================================================
