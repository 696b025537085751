--------------------------- MODULE SupervisorClaim ---------------------------
(***************************************************************************)
(* How a project's restart supervisor is claimed, looked for and stopped   *)
(* (internal/orchestrator/supervisor.go).  Supervisors are processes a     *)
(* command spawned; each claims the project for itself, under the claim    *)
(* lock <state dir>/supervisor.pid.lock, by renaming a whole pid file into *)
(* place.  Commands call StopSupervisor, which looks at the pid file       *)
(* WITHOUT the lock, signals whom it names, waits, and clears the file     *)
(* under the lock after a second look.                                     *)
(*                                                                         *)
(* A supervisor stands for a (pid, start time) pair, which is what the pid *)
(* file records; that its NUMBER may later belong to another process is    *)
(* `recycled`.  Reading the file and asking about the process behind it is *)
(* one step: a claim needs a dead predecessor, so every answer is true of  *)
(* some moment of the look.                                                *)
(***************************************************************************)
CONSTANTS
  Sups,       \* supervisor processes
  Cmds,       \* command processes that may call StopSupervisor
  Services,   \* services with a `restart:` the project would supervise
  Inodes,     \* inode numbers for the claim lock
  NoInode, NoSup,
  PsMayFail   \* TRUE where `ps` may give no start time for a live process

ASSUME ClaimAssumption ==
  /\ NoInode \notin Inodes
  /\ NoSup \notin Sups
  /\ Sups \cap Cmds = {}
  /\ PsMayFail \in BOOLEAN

VARIABLES
  stateDir,   \* the project's state directory exists
  pidFile,    \* whom supervisor.pid names
  watched,    \* the record `supervised`; empty where there is none
  claimPath, claimFd, claimHeld,   \* the claim lock (FlockFile)
  sup,        \* where each supervisor process stands
  want,       \* the services it was spawned to watch
  asked,      \* the supervisors that were sent SIGTERM or SIGKILL
  recycled,   \* dead supervisors whose pid is another process now
  stop,       \* where each command stands in StopSupervisor
  target,     \* the supervisor it signals
  result      \* what its last StopSupervisor answered

lockVars  == <<claimPath, claimFd, claimHeld>>
stopVars  == <<stop, target, result>>
claimVars == <<stateDir, pidFile, watched, lockVars, sup, want, asked, recycled,
               stopVars>>

Lock == INSTANCE FlockFile WITH
          Procs <- Sups \cup Cmds,
          path <- claimPath, fd <- claimFd, held <- claimHeld

SupStates  == {"unborn", "starting", "waiting", "looking", "writing",
               "claimed", "recording", "watching", "gone"}
StopStates == {"idle", "term", "termWait", "killWait",
               "clear", "clearWait", "clearLook", "clearRemove", "clearClose"}
Results    == {"none", "absent", "stopped", "unconfirmed"}

ClaimTypeOK ==
  /\ stateDir \in BOOLEAN
  /\ pidFile \in Sups \cup {NoSup}
  /\ watched \in SUBSET Services
  /\ Lock!FlockTypeOK
  /\ sup \in [Sups -> SupStates]
  /\ want \in [Sups -> SUBSET Services]
  /\ asked \in SUBSET Sups
  /\ recycled \in SUBSET Sups
  /\ stop \in [Cmds -> StopStates]
  /\ target \in [Cmds -> Sups \cup {NoSup}]
  /\ result \in [Cmds -> Results]
  /\ \A c \in Cmds : stop[c] = "term" => target[c] \in Sups

ClaimInit ==
  /\ stateDir \in BOOLEAN
  /\ pidFile = NoSup
  /\ watched = {}
  /\ Lock!FlockInit
  /\ sup = [s \in Sups |-> "unborn"]
  /\ want = [s \in Sups |-> {}]
  /\ asked = {}
  /\ recycled = {}
  /\ stop = [c \in Cmds |-> "idle"]
  /\ target = [c \in Cmds |-> NoSup]
  /\ result = [c \in Cmds |-> "none"]

Alive == {s \in Sups : sup[s] \notin {"unborn", "gone"}}

\* The supervisors that have claimed the project and still run.
Live == {s \in Sups : sup[s] \in {"claimed", "recording", "watching"}}

-----------------------------------------------------------------------------
(* lookSupervisor: one of these holds, or two where `ps` may fail.         *)

\* A live process with the recorded start time is behind the file.
SeesWatcher == pidFile \in Alive

\* No file, nothing behind it, or a pid that is another process now.
SeesNobody == pidFile \notin Alive

\* Something lives under that pid and `ps` will not say since when.
SeesUnknown == PsMayFail /\ pidFile \in Alive \cup recycled

\* processAlive asks about the bare number.
PidInUse(s) == s \in Alive \cup recycled

-----------------------------------------------------------------------------
(* The supervisor process.                                                 *)

SupStep(s, from, to) == sup[s] = from /\ sup' = [sup EXCEPT ![s] = to]

\* StartSupervisor, once it has looked: the state directory is made for the
\* log, and the child runs on its own from here.
Spawn(s, services) ==
  /\ SupStep(s, "unborn", "starting")
  /\ want' = [want EXCEPT ![s] = services]
  /\ stateDir' = TRUE
  /\ UNCHANGED <<pidFile, watched, lockVars, asked, recycled, stopVars>>

\* ClaimSupervisor up to the lock: the start time is read first (a failure
\* is an exit, see Die), the lock file is opened, or made.
ClaimOpen(s) ==
  /\ SupStep(s, "starting", "waiting")
  /\ Lock!Open(s)
  /\ stateDir' = TRUE
  /\ UNCHANGED <<pidFile, watched, want, asked, recycled, stopVars>>

ClaimGrant(s) ==
  /\ SupStep(s, "waiting", "looking")
  /\ Lock!Grant(s)
  /\ UNCHANGED <<stateDir, pidFile, watched, want, asked, recycled, stopVars>>

\* Somebody, or a process that cannot be checked, is behind the file: exit.
ClaimRefused(s) ==
  /\ SeesWatcher \/ SeesUnknown
  /\ SupStep(s, "looking", "gone")
  /\ Lock!Close(s)
  /\ UNCHANGED <<stateDir, pidFile, watched, want, asked, recycled, stopVars>>

\* Mutation: the claim goes over whatever the file names.
ClaimLookless(s) ==
  /\ SupStep(s, "looking", "writing")
  /\ UNCHANGED <<stateDir, pidFile, watched, lockVars, want, asked, recycled, stopVars>>

ClaimLook(s) ==
  /\ SeesNobody
  /\ SupStep(s, "looking", "writing")
  /\ UNCHANGED <<stateDir, pidFile, watched, lockVars, want, asked, recycled, stopVars>>

\* The temporary file, written whole, is renamed over the pid file.
ClaimWrite(s) ==
  /\ stateDir
  /\ SupStep(s, "writing", "claimed")
  /\ pidFile' = s
  /\ UNCHANGED <<stateDir, watched, lockVars, want, asked, recycled, stopVars>>

\* It cannot be made: the directory is gone.
ClaimNoDir(s) ==
  /\ ~stateDir
  /\ SupStep(s, "writing", "gone")
  /\ Lock!Close(s)
  /\ UNCHANGED <<stateDir, pidFile, watched, want, asked, recycled, stopVars>>

\* Mutation: the claim lock is held for as long as the supervisor runs.
ClaimKeepsLock(s) ==
  /\ SupStep(s, "claimed", "recording")
  /\ UNCHANGED <<stateDir, pidFile, watched, lockVars, want, asked, recycled, stopVars>>

ClaimClose(s) ==
  /\ SupStep(s, "claimed", "recording")
  /\ Lock!Close(s)
  /\ UNCHANGED <<stateDir, pidFile, watched, want, asked, recycled, stopVars>>

\* RecordWatched; its error is ignored, and watching begins all the same.
RecordWatched(s) ==
  /\ SupStep(s, "recording", "watching")
  /\ \/ stateDir /\ watched' = want[s]
     \/ UNCHANGED watched
  /\ UNCHANGED <<stateDir, pidFile, lockVars, want, asked, recycled, stopVars>>

\* The process ends: a signal, a crash, an error on the way, or twenty polls
\* with nothing left to watch.  The pid file stays; the lock does not.
Die(s) ==
  /\ s \in Alive
  /\ sup' = [sup EXCEPT ![s] = "gone"]
  /\ Lock!Close(s)
  /\ UNCHANGED <<stateDir, pidFile, watched, want, asked, recycled, stopVars>>

\* A dead supervisor's pid is given to another process.
Recycle(s) ==
  /\ sup[s] = "gone"
  /\ recycled' = recycled \cup {s}
  /\ UNCHANGED <<stateDir, pidFile, watched, lockVars, sup, want, asked, stopVars>>

-----------------------------------------------------------------------------
(* StopSupervisor, called by a command.                                    *)

StopStep(c, from, to) == stop[c] = from /\ stop' = [stop EXCEPT ![c] = to]

Answer(c, r) == result' = [result EXCEPT ![c] = r]

\* The first look, with no lock held.
StopBegin(c) ==
  /\ \/ /\ SeesUnknown
        /\ StopStep(c, "idle", "idle")
        /\ Answer(c, "unconfirmed")
        /\ UNCHANGED target
     \/ /\ SeesNobody
        /\ StopStep(c, "idle", "clear")
        /\ Answer(c, "absent")
        /\ UNCHANGED target
     \/ /\ SeesWatcher
        /\ StopStep(c, "idle", "term")
        /\ target' = [target EXCEPT ![c] = pidFile]
        /\ Answer(c, "none")
  /\ UNCHANGED <<stateDir, pidFile, watched, lockVars, sup, want, asked, recycled>>

StopTerm(c) ==
  /\ StopStep(c, "term", "termWait")
  /\ asked' = asked \cup {target[c]}
  /\ UNCHANGED <<stateDir, pidFile, watched, lockVars, sup, want, recycled, target, result>>

\* waitForDeath sees the pid free.
StopSeenGone(c) ==
  /\ StopStep(c, "termWait", "clear") \/ StopStep(c, "killWait", "clear")
  /\ ~PidInUse(target[c])
  /\ Answer(c, "stopped")
  /\ UNCHANGED <<stateDir, pidFile, watched, lockVars, sup, want, asked, recycled, target>>

\* The first budget runs out: SIGKILL, and a second one.
StopKill(c) ==
  /\ StopStep(c, "termWait", "killWait")
  /\ UNCHANGED <<stateDir, pidFile, watched, lockVars, sup, want, asked, recycled, target, result>>

\* Still there after both: the pid file is kept.
StopGiveUp(c) ==
  /\ StopStep(c, "killWait", "idle")
  /\ Answer(c, "unconfirmed")
  /\ UNCHANGED <<stateDir, pidFile, watched, lockVars, sup, want, asked, recycled, target>>

\* clearPidFile: where its lock file cannot be opened nothing is removed.
ClearNoDir(c) ==
  /\ ~stateDir
  /\ StopStep(c, "clear", "idle")
  /\ UNCHANGED <<stateDir, pidFile, watched, lockVars, sup, want, asked, recycled, target, result>>

ClearOpen(c) ==
  /\ stateDir
  /\ StopStep(c, "clear", "clearWait")
  /\ Lock!Open(c)
  /\ UNCHANGED <<stateDir, pidFile, watched, sup, want, asked, recycled, target, result>>

ClearGrant(c) ==
  /\ StopStep(c, "clearWait", "clearLook")
  /\ Lock!Grant(c)
  /\ UNCHANGED <<stateDir, pidFile, watched, sup, want, asked, recycled, target, result>>

\* Mutation: the file goes on the strength of the first look.
ClearLookless(c) ==
  /\ StopStep(c, "clearLook", "clearRemove")
  /\ UNCHANGED <<stateDir, pidFile, watched, lockVars, sup, want, asked, recycled, target, result>>

\* The second look, under the lock: a claim made since then keeps its file,
\* and so does a process that cannot be checked.
ClearLook(c) ==
  /\ \/ SeesNobody /\ StopStep(c, "clearLook", "clearRemove")
     \/ (SeesWatcher \/ SeesUnknown) /\ StopStep(c, "clearLook", "clearClose")
  /\ UNCHANGED <<stateDir, pidFile, watched, lockVars, sup, want, asked, recycled, target, result>>

ClearRemove(c) ==
  /\ StopStep(c, "clearRemove", "clearClose")
  /\ pidFile' = NoSup
  /\ UNCHANGED <<stateDir, watched, lockVars, sup, want, asked, recycled, target, result>>

\* Mutation: the clear leaks the descriptor that holds the claim lock.
ClearLeaks(c) ==
  /\ StopStep(c, "clearClose", "idle")
  /\ UNCHANGED <<stateDir, pidFile, watched, lockVars, sup, want, asked, recycled, target, result>>

ClearClose(c) ==
  /\ StopStep(c, "clearClose", "idle")
  /\ Lock!Close(c)
  /\ UNCHANGED <<stateDir, pidFile, watched, sup, want, asked, recycled, target, result>>

\* The command is killed on the way: its descriptor is closed for it.
Abandon(c) ==
  /\ stop' = [stop EXCEPT ![c] = "idle"]
  /\ Lock!Close(c)
  /\ UNCHANGED <<stateDir, pidFile, watched, sup, want, asked, recycled, target, result>>

\* ClearWatched, which `down` calls.
ClearWatched ==
  /\ watched' = {}
  /\ UNCHANGED <<stateDir, pidFile, lockVars, sup, want, asked, recycled, stopVars>>

\* A command that takes the project lock makes the directory it lies in.
MakeStateDir ==
  /\ stateDir' = TRUE
  /\ UNCHANGED <<pidFile, watched, lockVars, sup, want, asked, recycled, stopVars>>

-----------------------------------------------------------------------------
(* The protocol by itself: supervisors spawned at any time, commands that  *)
(* stop at any time, in any number, whatever lock they hold or do not.     *)

SupervisorAction(s) ==
  \/ ClaimOpen(s)
  \/ ClaimGrant(s)
  \/ ClaimRefused(s)
  \/ ClaimLook(s)
  \/ ClaimWrite(s)
  \/ ClaimNoDir(s)
  \/ ClaimClose(s)
  \/ RecordWatched(s)

StopAction(c) ==
  \/ StopTerm(c)
  \/ StopSeenGone(c)
  \/ StopKill(c)
  \/ StopGiveUp(c)
  \/ ClearNoDir(c)
  \/ ClearOpen(c)
  \/ ClearGrant(c)
  \/ ClearLook(c)
  \/ ClearRemove(c)
  \/ ClearClose(c)

ClaimNext ==
  \/ \E s \in Sups :
       \/ \E services \in SUBSET Services : Spawn(s, services)
       \/ SupervisorAction(s)
       \/ Die(s)
       \/ Recycle(s)
  \/ \E c \in Cmds : StopBegin(c) \/ StopAction(c) \/ Abandon(c)
  \/ ClearWatched
  \/ MakeStateDir

ClaimSpec == ClaimInit /\ [][ClaimNext]_claimVars

-----------------------------------------------------------------------------
(* Properties.                                                             *)

Slot == INSTANCE WatcherSlot WITH slot <- pidFile, live <- Live

\* A supervisor that watches the project is the one the pid file names, so
\* that `down` can find it (supervisor.go, #1550, #1755); in particular two
\* never watch one project (#1500).
WatcherFindable == Live \subseteq {pidFile}

\* The pid file, with its lock, its looks and its races, does what the one
\* slot of WatcherSlot promises.
ImplementsWatcherSlot == Slot!SlotSpec

\* Why WatcherFindable holds.  The lock file is never unlinked by a claim or
\* a clear, so everyone who has it open has the same inode and one process at
\* a time holds it ...
LockUnbroken ==
  /\ \A p \in Sups \cup Cmds : claimFd[p] \in {NoInode, claimPath}
  /\ \A p \in claimHeld : claimFd[p] # NoInode
  /\ \A p, q \in claimHeld : p = q

\* ... from its look to its write or removal ...
LookingLocked ==
  /\ \A s \in Sups :
       sup[s] \in {"looking", "writing", "claimed"} => s \in claimHeld
  /\ \A c \in Cmds :
       stop[c] \in {"clearLook", "clearRemove", "clearClose"} => c \in claimHeld

\* ... so that what it saw (nobody live is named) is true when it acts.
LookStillTrue ==
  /\ \A s \in Sups : sup[s] = "writing" => pidFile \notin Live
  /\ \A c \in Cmds : stop[c] = "clearRemove" => pidFile \notin Live

ClaimInv ==
  /\ ClaimTypeOK
  /\ LockUnbroken
  /\ LookingLocked
  /\ LookStillTrue
  /\ WatcherFindable
=============================================================================
