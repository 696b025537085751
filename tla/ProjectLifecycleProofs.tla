----------------------- MODULE ProjectLifecycleProofs -----------------------
(***************************************************************************)
(* First, the claim protocol is safe for any number of supervisors and     *)
(* commands, whether or not `ps` answers: every supervisor that has        *)
(* claimed the project is the one the pid file names.  ClaimInv is the     *)
(* inductive invariant; its parts are proved one after another, each from  *)
(* the parts before it.                                                    *)
(*                                                                         *)
(* Then, what holds of any number of `up`s, `down`s and `destroy`s at      *)
(* once.  Where no command is a `destroy` (which removes the lock files;   *)
(* the runs show what then breaks) their steps are steps of the claim      *)
(* protocol, so what is proved of it holds here, one command at a time     *)
(* holds the project lock, and a `down` that says nothing has left nobody. *)
(* Where one is, that lasts until it is through with the state directory.  *)
(***************************************************************************)
EXTENDS ProjectLifecycle, TLAPS


Procs == Sups \cup Cmds

(* What the lock file's operations keep of LockUnbroken. *)

LEMMA OpenKeepsLock ==
  ASSUME NEW p \in Procs, ClaimTypeOK, LockUnbroken, Lock!Open(p)
  PROVE  LockUnbroken'
BY ClaimAssumption
   DEF Procs, ClaimTypeOK, LockUnbroken, Lock!Open, Lock!FlockTypeOK, Lock!FreeInodes

LEMMA GrantKeepsLock ==
  ASSUME NEW p \in Procs, ClaimTypeOK, LockUnbroken, Lock!Grant(p)
  PROVE  LockUnbroken'
BY ClaimAssumption
   DEF Procs, ClaimTypeOK, LockUnbroken, Lock!Grant, Lock!Busy, Lock!FlockTypeOK

LEMMA CloseKeepsLock ==
  ASSUME NEW p \in Procs, ClaimTypeOK, LockUnbroken, Lock!Close(p)
  PROVE  LockUnbroken'
BY ClaimAssumption
   DEF Procs, ClaimTypeOK, LockUnbroken, Lock!Close, Lock!FlockTypeOK

LEMMA SameLock ==
  ASSUME LockUnbroken, UNCHANGED lockVars
  PROVE  LockUnbroken'
BY DEF LockUnbroken, lockVars

(* The types of what the lock's operations leave. *)

LockTypeOK ==
  /\ claimPath \in Inodes \cup {NoInode}
  /\ claimFd \in [Procs -> Inodes \cup {NoInode}]
  /\ claimHeld \subseteq Procs

LEMMA LockTypes ==
  ASSUME NEW p \in Procs, LockTypeOK, Lock!Open(p) \/ Lock!Grant(p) \/ Lock!Close(p)
  PROVE  LockTypeOK'
BY DEF LockTypeOK, Procs, Lock!Open, Lock!Grant, Lock!Close, Lock!FreeInodes

LEMMA ClaimTypes == ClaimTypeOK => LockTypeOK
BY DEF ClaimTypeOK, LockTypeOK, Procs, Lock!FlockTypeOK

(* Every step is one of these; the proofs below go through them in turn. *)

LEMMA TypeStep == ClaimTypeOK /\ [ClaimNext]_claimVars => ClaimTypeOK'
<1> SUFFICES ASSUME ClaimTypeOK, [ClaimNext]_claimVars
             PROVE  ClaimTypeOK'
  OBVIOUS
<1> USE DEF ClaimTypeOK, Lock!FlockTypeOK, SupStates, StopStates, Results
<1>1. ASSUME NEW s \in Sups, NEW services \in SUBSET Services, Spawn(s, services)
      PROVE  ClaimTypeOK'
  BY <1>1 DEF Spawn, SupStep, lockVars, stopVars
<1>2. ASSUME NEW s \in Sups, SupervisorAction(s)
      PROVE  ClaimTypeOK'
  <2>0. s \in Procs BY DEF Procs
  <2>1. CASE ClaimOpen(s)
    BY <2>0, <2>1, LockTypes, ClaimTypes DEF ClaimOpen, SupStep, stopVars, LockTypeOK, Procs
  <2>2. CASE ClaimGrant(s)
    BY <2>0, <2>2, LockTypes, ClaimTypes DEF ClaimGrant, SupStep, stopVars, LockTypeOK, Procs
  <2>3. CASE ClaimRefused(s)
    BY <2>0, <2>3, LockTypes, ClaimTypes DEF ClaimRefused, SupStep, stopVars, LockTypeOK, Procs
  <2>4. CASE ClaimLook(s)
    BY <2>4 DEF ClaimLook, SupStep, lockVars, stopVars
  <2>5. CASE ClaimWrite(s)
    BY <2>5 DEF ClaimWrite, SupStep, lockVars, stopVars
  <2>6. CASE ClaimNoDir(s)
    BY <2>0, <2>6, LockTypes, ClaimTypes DEF ClaimNoDir, SupStep, stopVars, LockTypeOK, Procs
  <2>7. CASE ClaimClose(s)
    BY <2>0, <2>7, LockTypes, ClaimTypes DEF ClaimClose, SupStep, stopVars, LockTypeOK, Procs
  <2>8. CASE RecordWatched(s)
    BY <2>8 DEF RecordWatched, SupStep, lockVars, stopVars
  <2>9. QED
    BY <1>2, <2>1, <2>2, <2>3, <2>4, <2>5, <2>6, <2>7, <2>8, Zenon DEF SupervisorAction
<1>3. ASSUME NEW s \in Sups, Die(s) \/ Recycle(s)
      PROVE  ClaimTypeOK'
  <2>0. s \in Procs BY DEF Procs
  <2>1. CASE Die(s)
    BY <2>0, <2>1, LockTypes, ClaimTypes DEF Die, stopVars, LockTypeOK, Procs
  <2>2. CASE Recycle(s)
    BY <2>2 DEF Recycle, lockVars, stopVars
  <2>3. QED BY <1>3, <2>1, <2>2
<1>4. ASSUME NEW c \in Cmds, StopBegin(c)
      PROVE  ClaimTypeOK'
  BY <1>4 DEF StopBegin, StopStep, Answer, SeesWatcher, Alive, lockVars
<1>5. ASSUME NEW c \in Cmds, StopAction(c)
      PROVE  ClaimTypeOK'
  <2>0. c \in Procs BY DEF Procs
  <2>1. CASE StopTerm(c)
    BY <2>1 DEF StopTerm, StopStep, lockVars
  <2>2. CASE StopSeenGone(c)
    BY <2>2 DEF StopSeenGone, StopStep, Answer, lockVars
  <2>3. CASE StopKill(c)
    BY <2>3 DEF StopKill, StopStep, lockVars
  <2>4. CASE StopGiveUp(c)
    BY <2>4 DEF StopGiveUp, StopStep, Answer, lockVars
  <2>5. CASE ClearNoDir(c)
    BY <2>5 DEF ClearNoDir, StopStep, lockVars
  <2>6. CASE ClearOpen(c)
    BY <2>0, <2>6, LockTypes, ClaimTypes DEF ClearOpen, StopStep, LockTypeOK, Procs
  <2>7. CASE ClearGrant(c)
    BY <2>0, <2>7, LockTypes, ClaimTypes DEF ClearGrant, StopStep, LockTypeOK, Procs
  <2>8. CASE ClearLook(c)
    BY <2>8 DEF ClearLook, StopStep, lockVars
  <2>9. CASE ClearRemove(c)
    BY <2>9 DEF ClearRemove, StopStep, lockVars
  <2>10. CASE ClearClose(c)
    BY <2>0, <2>10, LockTypes, ClaimTypes DEF ClearClose, StopStep, LockTypeOK, Procs
  <2>11. QED
    BY <1>5, <2>1, <2>2, <2>3, <2>4, <2>5, <2>6, <2>7, <2>8, <2>9, <2>10, Zenon DEF StopAction
<1>6. ASSUME NEW c \in Cmds, Abandon(c)
      PROVE  ClaimTypeOK'
  <2>0. c \in Procs BY DEF Procs
  <2>1. QED BY <1>6, <2>0, LockTypes, ClaimTypes DEF Abandon, LockTypeOK, Procs
<1>7. CASE ClearWatched \/ MakeStateDir
  BY <1>7 DEF ClearWatched, MakeStateDir, lockVars, stopVars
<1>8. CASE UNCHANGED claimVars
  BY <1>8 DEF claimVars, lockVars, stopVars
<1>9. QED
  BY <1>1, <1>2, <1>3, <1>4, <1>5, <1>6, <1>7, <1>8, Zenon DEF ClaimNext

(* The lock file stays whole: nothing but its own operations touches it. *)

LEMMA LockMoves ==
  ASSUME [ClaimNext]_claimVars
  PROVE  \/ UNCHANGED lockVars
         \/ \E p \in Procs : Lock!Open(p) \/ Lock!Grant(p) \/ Lock!Close(p)
<1>1. ASSUME NEW s \in Sups, SupervisorAction(s) \/ Die(s)
      PROVE  UNCHANGED lockVars \/ Lock!Open(s) \/ Lock!Grant(s) \/ Lock!Close(s)
  BY <1>1 DEF SupervisorAction, ClaimOpen, ClaimGrant, ClaimRefused, ClaimLook,
     ClaimWrite, ClaimNoDir, ClaimClose, RecordWatched, Die
<1>2. ASSUME NEW c \in Cmds, StopBegin(c) \/ StopAction(c) \/ Abandon(c)
      PROVE  UNCHANGED lockVars \/ Lock!Open(c) \/ Lock!Grant(c) \/ Lock!Close(c)
  BY <1>2 DEF StopBegin, StopAction, Abandon, StopTerm, StopSeenGone, StopKill,
     StopGiveUp, ClearNoDir, ClearOpen, ClearGrant, ClearLook, ClearRemove, ClearClose
<1>3. ASSUME NEW s \in Sups, NEW services \in SUBSET Services,
             Spawn(s, services) \/ Recycle(s)
      PROVE  UNCHANGED lockVars
  BY <1>3 DEF Spawn, Recycle
<1>4. QED
  BY <1>1, <1>2, <1>3 DEF ClaimNext, ClearWatched, MakeStateDir, claimVars, Procs

LEMMA LockStep ==
  ClaimTypeOK /\ LockUnbroken /\ [ClaimNext]_claimVars => LockUnbroken'
BY LockMoves, SameLock, OpenKeepsLock, GrantKeepsLock, CloseKeepsLock

(* Who stands between a look and what it leads to holds the lock: it is    *)
(* taken on the way in, and let go of only on the way out.                 *)

LEMMA LookingStep ==
  ClaimTypeOK /\ LookingLocked /\ [ClaimNext]_claimVars => LookingLocked'
<1> SUFFICES ASSUME ClaimTypeOK, LookingLocked, [ClaimNext]_claimVars
             PROVE  LookingLocked'
  OBVIOUS
<1> USE ClaimAssumption DEF LookingLocked, ClaimTypeOK
<1>1. ASSUME NEW s \in Sups, SupervisorAction(s)
      PROVE  LookingLocked'
  <2>1. CASE ClaimOpen(s)
    BY <2>1 DEF ClaimOpen, SupStep, Lock!Open, stopVars
  <2>2. CASE ClaimGrant(s)
    BY <2>2 DEF ClaimGrant, SupStep, Lock!Grant, stopVars
  <2>3. CASE ClaimRefused(s)
    BY <2>3 DEF ClaimRefused, SupStep, Lock!Close, stopVars
  <2>4. CASE ClaimLook(s)
    BY <2>4 DEF ClaimLook, SupStep, lockVars, stopVars
  <2>5. CASE ClaimWrite(s)
    BY <2>5 DEF ClaimWrite, SupStep, lockVars, stopVars
  <2>6. CASE ClaimNoDir(s)
    BY <2>6 DEF ClaimNoDir, SupStep, Lock!Close, stopVars
  <2>7. CASE ClaimClose(s)
    BY <2>7 DEF ClaimClose, SupStep, Lock!Close, stopVars
  <2>8. CASE RecordWatched(s)
    BY <2>8 DEF RecordWatched, SupStep, lockVars, stopVars
  <2>9. QED
    BY <1>1, <2>1, <2>2, <2>3, <2>4, <2>5, <2>6, <2>7, <2>8 DEF SupervisorAction
<1>2. ASSUME NEW c \in Cmds, StopAction(c)
      PROVE  LookingLocked'
  <2>1. CASE StopTerm(c)
    BY <2>1 DEF StopTerm, StopStep, lockVars
  <2>2. CASE StopSeenGone(c)
    BY <2>2 DEF StopSeenGone, StopStep, lockVars
  <2>3. CASE StopKill(c)
    BY <2>3 DEF StopKill, StopStep, lockVars
  <2>4. CASE StopGiveUp(c)
    BY <2>4 DEF StopGiveUp, StopStep, lockVars
  <2>5. CASE ClearNoDir(c)
    BY <2>5 DEF ClearNoDir, StopStep, lockVars
  <2>6. CASE ClearOpen(c)
    BY <2>6 DEF ClearOpen, StopStep, Lock!Open
  <2>7. CASE ClearGrant(c)
    BY <2>7 DEF ClearGrant, StopStep, Lock!Grant
  <2>8. CASE ClearLook(c)
    BY <2>8 DEF ClearLook, StopStep, lockVars
  <2>9. CASE ClearRemove(c)
    BY <2>9 DEF ClearRemove, StopStep, lockVars
  <2>10. CASE ClearClose(c)
    BY <2>10 DEF ClearClose, StopStep, Lock!Close
  <2>11. QED
    BY <1>2, <2>1, <2>2, <2>3, <2>4, <2>5, <2>6, <2>7, <2>8, <2>9, <2>10 DEF StopAction
<1>3. ASSUME NEW s \in Sups, Die(s)
      PROVE  LookingLocked'
  BY <1>3 DEF Die, Lock!Close, stopVars
<1>4. ASSUME NEW c \in Cmds, Abandon(c)
      PROVE  LookingLocked'
  BY <1>4 DEF Abandon, Lock!Close
<1>5. ASSUME NEW s \in Sups, NEW services \in SUBSET Services, Spawn(s, services)
      PROVE  LookingLocked'
  BY <1>5 DEF Spawn, SupStep, lockVars, stopVars
<1>6. ASSUME NEW c \in Cmds, StopBegin(c)
      PROVE  LookingLocked'
  BY <1>6 DEF StopBegin, StopStep, lockVars
<1>7. ASSUME NEW s \in Sups, Recycle(s)
      PROVE  LookingLocked'
  BY <1>7 DEF Recycle, lockVars, stopVars
<1>8. CASE ClearWatched \/ MakeStateDir \/ UNCHANGED claimVars
  BY <1>8 DEF ClearWatched, MakeStateDir, claimVars, lockVars, stopVars
<1>9. QED
  BY <1>1, <1>2, <1>3, <1>4, <1>5, <1>6, <1>7, <1>8 DEF ClaimNext

(* Who is live, and whom the file names.  Only three steps matter: a claim *)
(* written, a file removed, a watcher dead; every other leaves both alone. *)

LEMMA OtherSteps ==
  ASSUME ClaimTypeOK, [ClaimNext]_claimVars,
         \A s \in Sups : ~ClaimWrite(s) /\ ~Die(s),
         \A c \in Cmds : ~ClearRemove(c)
  PROVE  UNCHANGED <<pidFile, Live>>
<1> USE DEF ClaimTypeOK, Live
<1>1. ASSUME NEW s \in Sups, SupervisorAction(s)
      PROVE  UNCHANGED <<pidFile, Live>>
  BY <1>1 DEF SupervisorAction, ClaimOpen, ClaimGrant, ClaimRefused, ClaimLook,
     ClaimNoDir, ClaimClose, RecordWatched, SupStep
<1>2. ASSUME NEW c \in Cmds, StopBegin(c) \/ StopAction(c) \/ Abandon(c)
      PROVE  UNCHANGED <<pidFile, Live>>
  BY <1>2 DEF StopBegin, StopAction, Abandon, StopTerm, StopSeenGone, StopKill,
     StopGiveUp, ClearNoDir, ClearOpen, ClearGrant, ClearLook, ClearClose
<1>3. ASSUME NEW s \in Sups, NEW services \in SUBSET Services,
             Spawn(s, services) \/ Recycle(s)
      PROVE  UNCHANGED <<pidFile, Live>>
  BY <1>3 DEF Spawn, Recycle, SupStep
<1>4. QED
  BY <1>1, <1>2, <1>3 DEF ClaimNext, ClearWatched, MakeStateDir, claimVars

LEMMA LiveAreAlive == ClaimTypeOK => Live \subseteq Alive
BY DEF Live, Alive

LEMMA WriteStep ==
  ASSUME NEW s \in Sups, ClaimTypeOK, ClaimWrite(s)
  PROVE  pidFile' = s /\ Live' = Live \cup {s}
BY DEF ClaimTypeOK, ClaimWrite, SupStep, Live

LEMMA DieStep ==
  ASSUME NEW s \in Sups, ClaimTypeOK, Die(s)
  PROVE  pidFile' = pidFile /\ Live' = Live \ {s}
BY DEF ClaimTypeOK, Die, Live

LEMMA RemoveStep ==
  ASSUME NEW c \in Cmds, ClaimTypeOK, ClearRemove(c)
  PROVE  pidFile' = NoSup /\ Live' = Live
BY DEF ClaimTypeOK, ClearRemove, Live

(* A step of the protocol is a step of the slot, or none. *)

LEMMA SlotStep ==
  ClaimTypeOK /\ LookStillTrue /\ [ClaimNext]_claimVars
    => [Slot!SlotNext]_<<pidFile, Live>>
<1> SUFFICES ASSUME ClaimTypeOK, LookStillTrue, [ClaimNext]_claimVars
             PROVE  [Slot!SlotNext]_<<pidFile, Live>>
  OBVIOUS
<1>1. ASSUME NEW s \in Sups, ClaimWrite(s)
      PROVE  Slot!Take(s)
  BY <1>1, WriteStep DEF Slot!Take, LookStillTrue, ClaimWrite, SupStep
<1>2. ASSUME NEW s \in Sups, Die(s)
      PROVE  Slot!Leave(s) \/ UNCHANGED <<pidFile, Live>>
  BY <1>2, DieStep DEF Slot!Leave
<1>3. ASSUME NEW c \in Cmds, ClearRemove(c)
      PROVE  Slot!Vacate
  BY <1>3, RemoveStep DEF Slot!Vacate, LookStillTrue, ClearRemove, StopStep
<1>4. QED
  BY <1>1, <1>2, <1>3, OtherSteps DEF Slot!SlotNext

(* The slot's own invariant: a watcher enters where no live one is named.  *)

LEMMA FindableStep ==
  WatcherFindable /\ [Slot!SlotNext]_<<pidFile, Live>> => WatcherFindable'
BY DEF WatcherFindable, Slot!SlotNext, Slot!Take, Slot!Leave, Slot!Vacate

(* What a process saw under the lock stays true while it holds it: whoever *)
(* would write over it holds the lock too.                                 *)

LEMMA LookStep ==
  ASSUME ClaimTypeOK, LockUnbroken, LookingLocked, LookStillTrue,
         [ClaimNext]_claimVars
  PROVE  LookStillTrue'
<1> USE ClaimAssumption DEF ClaimTypeOK
<1>1. ASSUME NEW s \in Sups, ClaimWrite(s)
      PROVE  LookStillTrue'
  <2>1. s \in claimHeld
    BY <1>1 DEF LookingLocked, ClaimWrite, SupStep
  <2>2. \A t \in Sups : sup'[t] # "writing"
    BY <1>1, <2>1 DEF LookingLocked, LockUnbroken, ClaimWrite, SupStep
  <2>3. \A c \in Cmds : stop'[c] # "clearRemove"
    BY <1>1, <2>1 DEF LookingLocked, LockUnbroken, ClaimWrite, SupStep, stopVars
  <2>4. QED BY <2>2, <2>3 DEF LookStillTrue
<1>2. ASSUME NEW s \in Sups, Die(s)
      PROVE  LookStillTrue'
  BY <1>2, DieStep DEF LookStillTrue, Die, stopVars
<1>3. ASSUME NEW c \in Cmds, ClearRemove(c)
      PROVE  LookStillTrue'
  <2>1. NoSup \notin Live'
    BY <1>3, RemoveStep DEF Live
  <2>2. QED BY <1>3, <2>1, RemoveStep DEF LookStillTrue
<1>4. ASSUME NEW s \in Sups, ClaimLook(s)
      PROVE  LookStillTrue'
  BY <1>4, LiveAreAlive DEF LookStillTrue, ClaimLook, SupStep, SeesNobody, stopVars, Live
<1>5. ASSUME NEW c \in Cmds, ClearLook(c)
      PROVE  LookStillTrue'
  BY <1>5, LiveAreAlive DEF LookStillTrue, ClearLook, StopStep, SeesNobody, Live
<1>6. CASE /\ \A s \in Sups : ~ClaimWrite(s) /\ ~Die(s) /\ ~ClaimLook(s)
           /\ \A c \in Cmds : ~ClearRemove(c) /\ ~ClearLook(c)
  <2>1. UNCHANGED <<pidFile, Live>>
    BY <1>6, OtherSteps
  <2>2. \A s \in Sups : sup'[s] = "writing" => sup[s] = "writing"
    BY <1>6 DEF ClaimNext, SupervisorAction, StopAction, Spawn, ClaimOpen, ClaimGrant,
       ClaimRefused, ClaimNoDir, ClaimClose, RecordWatched, Recycle, SupStep, StopBegin,
       StopTerm, StopSeenGone, StopKill, StopGiveUp, ClearNoDir, ClearOpen, ClearGrant,
       ClearClose, Abandon, ClearWatched, MakeStateDir, claimVars
  <2>3. \A c \in Cmds : stop'[c] = "clearRemove" => stop[c] = "clearRemove"
    BY <1>6 DEF ClaimNext, SupervisorAction, StopAction, Spawn, ClaimOpen, ClaimGrant,
       ClaimRefused, ClaimNoDir, ClaimClose, RecordWatched, Recycle, StopStep, StopBegin,
       StopTerm, StopSeenGone, StopKill, StopGiveUp, ClearNoDir, ClearOpen, ClearGrant,
       ClearClose, Abandon, ClearWatched, MakeStateDir, claimVars, stopVars
  <2>4. QED BY <2>1, <2>2, <2>3 DEF LookStillTrue
<1>7. QED BY <1>1, <1>2, <1>3, <1>4, <1>5, <1>6

-----------------------------------------------------------------------------
(* The theorems.                                                           *)

LEMMA InvInit == ClaimInit => ClaimInv
BY ClaimAssumption
   DEF ClaimInit, ClaimInv, ClaimTypeOK, LockUnbroken, LookingLocked, LookStillTrue,
       WatcherFindable, Live, Lock!FlockInit, Lock!FlockTypeOK, SupStates, StopStates,
       Results

LEMMA InvStep == ClaimInv /\ [ClaimNext]_claimVars => ClaimInv'
BY TypeStep, LockStep, LookingStep, LookStep, SlotStep, FindableStep DEF ClaimInv

\* ClaimInv is an invariant of the protocol, for any processes.
THEOREM ClaimInvariant == ClaimSpec => []ClaimInv
<1>1. ClaimInit => ClaimInv
  BY InvInit
<1>2. ClaimInv /\ [ClaimNext]_claimVars => ClaimInv'
  BY InvStep
<1>3. QED
  BY <1>1, <1>2, PTL DEF ClaimSpec

\* Types, and that a command signals only somebody it saw.
THEOREM ClaimTypeCorrect == ClaimSpec => []ClaimTypeOK
<1>1. ClaimInv => ClaimTypeOK
  BY DEF ClaimInv
<1>2. QED
  BY <1>1, ClaimInvariant, PTL

\* No supervisor watches a project unless the pid file names it, so no two do
\* and none is out of the reach of `down`: with no lock of the project's, for
\* claims and stops in any number and any order.
THEOREM WatcherIsFindable == ClaimSpec => []WatcherFindable
<1>1. ClaimInv => WatcherFindable
  BY DEF ClaimInv
<1>2. QED
  BY <1>1, ClaimInvariant, PTL

\* The claim protocol implements the slot.
THEOREM ClaimImplementsSlot == ClaimSpec => ImplementsWatcherSlot
<1>1. ClaimInit => Slot!SlotInit
  BY DEF ClaimInit, Slot!SlotInit, Live
<1>2. ClaimInv /\ [ClaimNext]_claimVars => [Slot!SlotNext]_<<pidFile, Live>>
  BY SlotStep DEF ClaimInv
<1>3. QED
  BY <1>1, <1>2, ClaimInvariant, PTL
     DEF ClaimSpec, ImplementsWatcherSlot, Slot!SlotSpec

-----------------------------------------------------------------------------
(* Commands over the claim protocol.                                       *)


LEMMA InitIsClaimInit == Init => ClaimInit
BY DEF Init

(* A step of a command is a step of the protocol, or leaves its state      *)
(* alone, unless it is the one that removes the state directory.           *)

LEMMA UpIsClaimStep ==
  ASSUME NEW c \in Cmds, TypeOK, Up(c)
  PROVE  [ClaimNext]_claimVars
<1>1. CASE LockOpen(c, "start", "locking")
  BY <1>1 DEF LockOpen, ClaimNext
<1>2. CASE CallStop(c, "replace", "replacing")
  BY <1>2 DEF CallStop, ClaimNext
<1>3. CASE SpawnChild(c)
  <2>1. chosen[c] \in SUBSET Services
    BY DEF TypeOK
  <2>2. QED BY <1>3, <2>1 DEF SpawnChild, ClaimNext
<1>4. CASE ~LockOpen(c, "start", "locking") /\ ~CallStop(c, "replace", "replacing")
           /\ ~SpawnChild(c)
  BY <1>4 DEF Up, LockGranted, LockBusy, BringUp, PlanWatch, Compare, Replaced,
     Unchecked, AlreadyWatching, AwaitClaim, AwaitExit, AwaitTimeout, Awaited
<1>5. QED BY <1>1, <1>2, <1>3, <1>4

LEMMA DownIsClaimStep ==
  ASSUME NEW c \in Cmds, Down(c)
  PROVE  [ClaimNext]_claimVars
<1>1. CASE \/ LockOpen(c, "start", "locking")
           \/ LockOpen(c, "relock", "forget")
  BY <1>1 DEF LockOpen, ClaimNext
<1>2. CASE CallStop(c, "early", "earlyStop") \/ DownStops(c)
  BY <1>2 DEF CallStop, DownStops, ClaimNext
<1>3. CASE EarlyStopped(c) \/ Forget(c)
  BY <1>3 DEF EarlyStopped, Forget, ClaimNext
<1>4. CASE HoldNothing(c) \/ GuessedAnother(c)
           \/ LockGranted(c, "locking", "early") \/ LockBusy(c, "locking")
           \/ LockGranted(c, "forget", "stop") \/ LockBusy(c, "forget")
           \/ DownSkipsStop(c) \/ DownStopped(c) \/ RemoveContainers(c, "release")
  BY <1>4 DEF HoldNothing, GuessedAnother, LockGranted, LockBusy, DownSkipsStop, DownStopped,
     RemoveContainers
<1>5. QED BY <1>1, <1>2, <1>3, <1>4 DEF Down

LEMMA DestroyIsClaimStep ==
  ASSUME NEW c \in Cmds, Destroy(c), ~RemoveStateDir(c)
  PROVE  [ClaimNext]_claimVars
<1>1. CASE LockOpen(c, "confirm", "locking")
  BY <1>1 DEF LockOpen, ClaimNext
<1>2. CASE CallStop(c, "stop", "stopping")
  BY <1>2 DEF CallStop, ClaimNext
<1>3. CASE Plan(c) \/ DestroyBegins(c) \/ LockBusy(c, "locking") \/ DestroyStopped(c)
           \/ RemoveContainers(c, "unlink") \/ KeepStateDir(c)
  BY <1>3 DEF Plan, DestroyBegins, LockGranted, LockBusy, DestroyStopped,
     RemoveContainers, KeepStateDir
<1>4. QED BY <1>1, <1>2, <1>3 DEF Destroy

LEMMA StepIsClaimStep ==
  ASSUME TypeOK, [Next]_vars, \A x \in Destroys : ~RemoveStateDir(x)
  PROVE  [ClaimNext]_claimVars
<1>1. ASSUME NEW c \in Cmds, Command(c)
      PROVE  [ClaimNext]_claimVars
  <2>1. CASE c \in Destroys /\ Destroy(c)
    BY <2>1, DestroyIsClaimStep
  <2>2. CASE Stopping(c)
    BY <2>2 DEF Stopping, ClaimNext
  <2>3. CASE Release(c)
    BY <2>3 DEF Release
  <2>4. QED
    BY <1>1, <2>1, <2>2, <2>3, UpIsClaimStep, DownIsClaimStep DEF Command
<1>2. ASSUME NEW c \in Cmds, Crash(c)
      PROVE  [ClaimNext]_claimVars
  BY <1>2 DEF Crash, ClaimNext
<1>3. ASSUME NEW s \in Sups, Supervisor(s) \/ Fate(s)
      PROVE  [ClaimNext]_claimVars
  BY <1>3 DEF Supervisor, Fate, ClaimNext
<1>4. CASE UNCHANGED vars
  BY <1>4 DEF vars
<1>5. QED BY <1>1, <1>2, <1>3, <1>4 DEF Next

(* What a command keeps of its own state, action by action. *)

CmdTypeOK ==
  /\ Project!FlockTypeOK
  /\ pc \in [Cmds -> PcStates]
  /\ chosen \in [Cmds -> SUBSET Services]
  /\ failed \in SUBSET Ups
  /\ child \in [Cmds -> Sups \cup {NoSup}]
  /\ plan \in [Destroys -> [running : BOOLEAN, dir : BOOLEAN]]
  /\ left \in SUBSET Cmds
  /\ present \in SUBSET Services
  /\ lone \in SUBSET Sups

LEMMA TypeParts == TypeOK <=> ClaimTypeOK /\ CmdTypeOK
BY DEF TypeOK, CmdTypeOK

LEMMA LockingTypes ==
  ASSUME NEW c \in Cmds, CmdTypeOK,
         NEW from \in PcStates, NEW to \in PcStates,
         LockOpen(c, from, to) \/ LockGranted(c, from, to) \/ LockBusy(c, from)
  PROVE  CmdTypeOK'
BY DEF CmdTypeOK, PcStates, Finished, LockOpen, LockGranted, LockBusy, At, Goto, cmdVars,
   Project!FlockTypeOK, Project!Open, Project!Grant, Project!Close, Project!FreeInodes

LEMMA StoppingTypes ==
  ASSUME NEW c \in Cmds, CmdTypeOK, NEW from \in PcStates, NEW to \in PcStates,
         Stopping(c) \/ CallStop(c, from, to)
  PROVE  CmdTypeOK'
BY DEF CmdTypeOK, Stopping, CallStop, Goto, cmdVars, projectVars, Project!FlockTypeOK

LEMMA UpTypes ==
  ASSUME NEW c \in Ups, TypeOK, Up(c)
  PROVE  CmdTypeOK'
<1> USE DEF CmdTypeOK, Project!FlockTypeOK, At, Goto, cmdVars, projectVars, PcStates, Finished
<1>0. c \in Cmds /\ CmdTypeOK /\ watched \in SUBSET Services
  BY LifecycleAssumption DEF TypeOK, ClaimTypeOK
<1>1. CASE \/ LockOpen(c, "start", "locking")
           \/ LockGranted(c, "locking", "bringUp") \/ LockBusy(c, "locking")
  BY <1>0, <1>1, LockingTypes
<1>2. CASE CallStop(c, "replace", "replacing")
  BY <1>0, <1>2, StoppingTypes
<1>3. CASE BringUp(c)
  BY <1>0, <1>3 DEF BringUp
<1>4. CASE PlanWatch(c)
  BY <1>0, <1>4 DEF PlanWatch
<1>5. CASE Compare(c) \/ Unchecked(c) \/ AlreadyWatching(c)
  BY <1>0, <1>5 DEF Compare, Unchecked, AlreadyWatching
<1>6. CASE Replaced(c)
  BY <1>0, <1>6 DEF Replaced, Unconfirmed
<1>7. CASE SpawnChild(c)
  BY <1>0, <1>7 DEF SpawnChild
<1>8. CASE AwaitClaim(c) \/ AwaitExit(c) \/ AwaitTimeout(c)
  BY <1>0, <1>8 DEF AwaitClaim, AwaitExit, AwaitTimeout, Awaited, Unclaimed, Alive
<1>9. QED BY <1>1, <1>2, <1>3, <1>4, <1>5, <1>6, <1>7, <1>8, Zenon DEF Up

LEMMA DownTypes ==
  ASSUME NEW c \in Downs, TypeOK, Down(c)
  PROVE  CmdTypeOK'
<1> USE DEF CmdTypeOK, Project!FlockTypeOK, At, Goto, cmdVars, projectVars, PcStates, Finished
<1>0. c \in Cmds /\ CmdTypeOK
  BY LifecycleAssumption DEF TypeOK
<1>1. CASE \/ LockOpen(c, "start", "locking") \/ LockGranted(c, "locking", "early")
           \/ LockBusy(c, "locking") \/ LockOpen(c, "relock", "forget")
           \/ LockGranted(c, "forget", "stop") \/ LockBusy(c, "forget")
  BY <1>0, <1>1, LockingTypes
<1>2. CASE CallStop(c, "early", "earlyStop") \/ DownStops(c)
  BY <1>0, <1>2, StoppingTypes DEF DownStops
<1>3. CASE HoldNothing(c) \/ GuessedAnother(c) \/ DownSkipsStop(c)
  BY <1>0, <1>3 DEF HoldNothing, GuessedAnother, DownSkipsStop
<1>4. CASE EarlyStopped(c) \/ DownStopped(c)
  BY <1>0, <1>4 DEF EarlyStopped, DownStopped, Unconfirmed, ClearWatched
<1>5. CASE Forget(c)
  BY <1>0, <1>5 DEF Forget
<1>6. CASE RemoveContainers(c, "release")
  BY <1>0, <1>6 DEF RemoveContainers
<1>7. QED BY <1>1, <1>2, <1>3, <1>4, <1>5, <1>6, Zenon DEF Down

LEMMA DestroyTypes ==
  ASSUME NEW c \in Destroys, TypeOK, Destroy(c)
  PROVE  CmdTypeOK'
<1> USE DEF CmdTypeOK, Project!FlockTypeOK, At, Goto, cmdVars, projectVars, PcStates, Finished
<1>0. c \in Cmds /\ CmdTypeOK /\ stateDir \in BOOLEAN
  BY LifecycleAssumption DEF TypeOK, ClaimTypeOK
<1>1. CASE \/ LockOpen(c, "confirm", "locking") \/ DestroyBegins(c)
           \/ LockBusy(c, "locking")
  BY <1>0, <1>1, LockingTypes DEF DestroyBegins
<1>2. CASE CallStop(c, "stop", "stopping")
  BY <1>0, <1>2, StoppingTypes
<1>3. CASE Plan(c)
  BY <1>0, <1>3 DEF Plan
<1>4. CASE DestroyStopped(c)
  BY <1>0, <1>4 DEF DestroyStopped, Unconfirmed
<1>5. CASE RemoveContainers(c, "unlink") \/ KeepStateDir(c)
  BY <1>0, <1>5 DEF RemoveContainers, KeepStateDir
<1>6. CASE RemoveStateDir(c)
  BY <1>0, <1>6 DEF RemoveStateDir, Project!Unlink
<1>7. QED BY <1>1, <1>2, <1>3, <1>4, <1>5, <1>6 DEF Destroy

LEMMA RemovalTypes ==
  ASSUME NEW x \in Destroys, TypeOK, RemoveStateDir(x)
  PROVE  ClaimTypeOK'
BY DEF TypeOK, ClaimTypeOK, RemoveStateDir, Lock!Unlink, Lock!FlockTypeOK, stopVars

LEMMA LifecycleTypeStep == TypeOK /\ [Next]_vars => TypeOK'
<1> SUFFICES ASSUME TypeOK, [Next]_vars PROVE TypeOK'
  OBVIOUS
<1>1. ClaimTypeOK'
  BY StepIsClaimStep, TypeStep, RemovalTypes, TypeParts
<1>2. CmdTypeOK'
  <2> USE DEF CmdTypeOK, Project!FlockTypeOK, cmdVars, projectVars
  <2>1. ASSUME NEW c \in Cmds, Command(c)
        PROVE  CmdTypeOK'
    <3>1. CASE Stopping(c)
      BY <3>1, StoppingTypes, TypeParts DEF Stopping
    <3>2. CASE Release(c)
      BY <3>2, TypeParts DEF Release, Goto, Project!Close, PcStates, Finished
    <3>3. QED
      BY <2>1, <3>1, <3>2, UpTypes, DownTypes, DestroyTypes DEF Command
  <2>2. ASSUME NEW c \in Cmds, Crash(c)
        PROVE  CmdTypeOK'
    BY <2>2, TypeParts DEF Crash, Goto, Project!Close, PcStates, Finished, Unclaimed, Alive
  <2>3. ASSUME NEW s \in Sups, Supervisor(s) \/ Fate(s)
        PROVE  CmdTypeOK'
    BY <2>3, TypeParts DEF Supervisor, Fate
  <2>4. CASE UNCHANGED vars
    BY <2>4, TypeParts DEF vars
  <2>5. QED BY <2>1, <2>2, <2>3, <2>4 DEF Next
<1>3. QED BY <1>1, <1>2 DEF TypeOK, CmdTypeOK

(* The project lock: the argument of LockUnbroken, for the other file.     *)

LEMMA ProjectLockStep ==
  ASSUME TypeOK, ProjectLockUnbroken, [Next]_vars, \A x \in Destroys : ~RemoveStateDir(x)
  PROVE  ProjectLockUnbroken'
<1>1. \/ UNCHANGED projectVars
      \/ \E c \in Cmds : Project!Open(c) \/ Project!Grant(c) \/ Project!Close(c)
  <2>1. ASSUME NEW c \in Ups, Up(c)
        PROVE  UNCHANGED projectVars \/ Project!Open(c) \/ Project!Grant(c)
               \/ Project!Close(c)
    BY <2>1 DEF Up, LockOpen, LockGranted, LockBusy, CallStop, BringUp, PlanWatch,
       Compare, Replaced, Unchecked, AlreadyWatching, SpawnChild, AwaitClaim, AwaitExit,
       AwaitTimeout, Awaited
  <2>2. ASSUME NEW c \in Downs, Down(c)
        PROVE  UNCHANGED projectVars \/ Project!Open(c) \/ Project!Grant(c)
               \/ Project!Close(c)
    BY <2>2 DEF Down, LockOpen, LockGranted, LockBusy, CallStop, HoldNothing,
       GuessedAnother, EarlyStopped, DownSkipsStop, DownStops, DownStopped, Forget, RemoveContainers
  <2>7. ASSUME NEW c \in Destroys, Destroy(c)
        PROVE  UNCHANGED projectVars \/ Project!Open(c) \/ Project!Grant(c)
               \/ Project!Close(c)
    BY <2>7 DEF Destroy, Plan, LockOpen, DestroyBegins, LockGranted, LockBusy, CallStop,
       DestroyStopped, RemoveContainers, KeepStateDir
  <2>3. ASSUME NEW c \in Cmds, Stopping(c) \/ Release(c) \/ Crash(c)
        PROVE  UNCHANGED projectVars \/ Project!Close(c)
    BY <2>3 DEF Stopping, Release, Crash
  <2>4. ASSUME NEW s \in Sups, Supervisor(s) \/ Fate(s)
        PROVE  UNCHANGED projectVars
    BY <2>4 DEF Supervisor, Fate
  <2>5. CASE UNCHANGED vars
    BY <2>5 DEF vars
  <2>6. QED
    BY <2>1, <2>2, <2>3, <2>4, <2>5, <2>7, LifecycleAssumption DEF Next, Command
<1> USE ClaimAssumption
    DEF TypeOK, Project!FlockTypeOK, ProjectLockUnbroken, OneCommandAtATime,
        Project!Exclusive
<1>2. CASE UNCHANGED projectVars
  BY <1>2 DEF projectVars
<1>3. ASSUME NEW c \in Cmds, Project!Open(c)
      PROVE  ProjectLockUnbroken'
  BY <1>3 DEF Project!Open, Project!FreeInodes
<1>4. ASSUME NEW c \in Cmds, Project!Grant(c)
      PROVE  ProjectLockUnbroken'
  BY <1>4 DEF Project!Grant, Project!Busy
<1>5. ASSUME NEW c \in Cmds, Project!Close(c)
      PROVE  ProjectLockUnbroken'
  BY <1>5 DEF Project!Close
<1>6. QED BY <1>1, <1>2, <1>3, <1>4, <1>5

-----------------------------------------------------------------------------
(* Whom a command that has asked for the supervisor may have missed.  The  *)
(* invariant is one of the time before a state directory is removed:       *)
(* nobody works on the project without its lock, every supervisor that     *)
(* runs is named by the pid file, awaited by its `up` or let go of by it,  *)
(* and so whoever stops the supervisor under the lock misses nobody.       *)

\* Where a command changes the project.
Locking == {"bringUp", "plan", "compare", "replace", "replacing", "unchecked", "spawn",
            "await", "stop", "stopping", "clear", "remove", "unlink"}

WorksLocked == \A c \in Cmds : pc[c] \in Locking => c \in lockHeld

\* StopSupervisor runs inside the call to it.
Called ==
  \A c \in Cmds : stop[c] # "idle" => pc[c] \in {"replacing", "earlyStop", "stopping"}

\* Whom the pid file names has claimed the project.
NamedHasClaimed ==
  pidFile \in Sups => sup[pidFile] \in {"claimed", "recording", "watching", "gone"}

\* Who runs and has not claimed is awaited, or was let go of.
UnclaimedIsAwaited ==
  \A s \in Alive \ (Live \cup lone) : \E u \in Ups : pc[u] = "await" /\ child[u] = s

\* Whom a `down` or a `destroy` may leave behind, while its StopSupervisor
\* waits for the one it signalled, when that has answered, and afterwards.
Waits == {"term", "termWait", "killWait"}

MissesNobody(c) ==
  /\ pc[c] = "stopping" /\ stop[c] \in Waits => Alive \subseteq lone \cup {target[c]}
  /\ pc[c] = "stopping" /\ stop[c] \notin Waits /\ result[c] # "unconfirmed"
       => Alive \subseteq lone
  /\ pc[c] \in {"clear", "remove", "unlink"} /\ c \notin left
       /\ (c \in Destroys => plan[c].running)
       => Alive \subseteq lone

Stoppers == Downs \cup Destroys

(* A command moves only itself.  Of supervisors it can start one, when it  *)
(* is an `up` that has the lock, and let go of some.                       *)

LEMMA OwnMoves ==
  ASSUME NEW c \in Cmds, TypeOK, Command(c) \/ Crash(c)
  PROVE  /\ \A d \in Cmds \ {c} :
              /\ pc'[d] = pc[d] /\ stop'[d] = stop[d] /\ target'[d] = target[d]
              /\ result'[d] = result[d] /\ (d \in left' <=> d \in left)
              /\ child'[d] = child[d] /\ (d \in lockHeld' <=> d \in lockHeld)
         /\ \A d \in Destroys \ {c} : plan'[d] = plan[d]
         /\ lone \subseteq lone'
         /\ (SpawnChild(c) /\ c \in Ups) \/ UNCHANGED <<sup, child>>
<1> DEFINE Others ==
      /\ \A d \in Cmds \ {c} :
           /\ pc'[d] = pc[d] /\ stop'[d] = stop[d] /\ target'[d] = target[d]
           /\ result'[d] = result[d] /\ (d \in left' <=> d \in left)
           /\ child'[d] = child[d] /\ (d \in lockHeld' <=> d \in lockHeld)
      /\ \A d \in Destroys \ {c} : plan'[d] = plan[d]
      /\ lone \subseteq lone'
<1>0. /\ pc \in [Cmds -> PcStates] /\ stop \in [Cmds -> StopStates]
      /\ target \in [Cmds -> Sups \cup {NoSup}] /\ result \in [Cmds -> Results]
      /\ child \in [Cmds -> Sups \cup {NoSup}]
      /\ plan \in [Destroys -> [running : BOOLEAN, dir : BOOLEAN]]
  BY DEF TypeOK, ClaimTypeOK
<1> USE DEF At, Goto, cmdVars, projectVars, claimVars, lockVars, stopVars
<1>1. ASSUME NEW from, NEW to,
             LockOpen(c, from, to) \/ LockGranted(c, from, to) \/ LockBusy(c, from)
      PROVE  Others /\ UNCHANGED <<sup, child>>
  BY <1>0, <1>1 DEF LockOpen, LockGranted, LockBusy, MakeStateDir, Project!Open,
     Project!Grant, Project!Close
<1>2. ASSUME NEW from, NEW to, CallStop(c, from, to)
      PROVE  Others /\ UNCHANGED <<sup, child>>
  BY <1>0, <1>2 DEF CallStop, StopBegin, StopStep, Answer
<1>3. ASSUME NEW to, RemoveContainers(c, to)
      PROVE  Others /\ UNCHANGED <<sup, child>>
  BY <1>0, <1>3 DEF RemoveContainers
<1>4. CASE c \in Ups /\ Up(c)
  <2>1. CASE BringUp(c) \/ PlanWatch(c) \/ Compare(c) \/ Unchecked(c) \/ AlreadyWatching(c)
    BY <1>0, <2>1 DEF BringUp, PlanWatch, Compare, Unchecked, AlreadyWatching
  <2>2. CASE Replaced(c)
    BY <1>0, <2>2 DEF Replaced, Unconfirmed
  <2>3. CASE SpawnChild(c)
    BY <1>0, <1>4, <2>3 DEF SpawnChild, Spawn
  <2>4. CASE AwaitClaim(c) \/ AwaitExit(c) \/ AwaitTimeout(c)
    BY <1>0, <2>4 DEF AwaitClaim, AwaitExit, AwaitTimeout, Awaited
  <2>5. QED BY <1>1, <1>2, <1>4, <2>1, <2>2, <2>3, <2>4 DEF Up
<1>5. CASE c \in Downs /\ Down(c)
  <2>1. CASE HoldNothing(c) \/ GuessedAnother(c) \/ DownSkipsStop(c)
    BY <1>0, <2>1 DEF HoldNothing, GuessedAnother, DownSkipsStop
  <2>2. CASE EarlyStopped(c) \/ DownStopped(c) \/ Forget(c)
    BY <1>0, <2>2 DEF EarlyStopped, DownStopped, Forget, ClearWatched, Unconfirmed
  <2>3. QED BY <1>1, <1>2, <1>3, <1>5, <2>1, <2>2 DEF Down, DownStops
<1>6. CASE c \in Destroys /\ Destroy(c)
  <2>1. CASE Plan(c)
    BY <1>0, <2>1 DEF Plan
  <2>2. CASE DestroyStopped(c) \/ RemoveStateDir(c) \/ KeepStateDir(c)
    BY <1>0, <2>2 DEF DestroyStopped, RemoveStateDir, KeepStateDir, Unconfirmed,
       Project!Unlink
  <2>3. QED BY <1>1, <1>2, <1>3, <1>6, <2>1, <2>2 DEF Destroy, DestroyBegins
<1>7. CASE Stopping(c)
  BY <1>0, <1>7 DEF Stopping, StopAction, StopTerm, StopSeenGone, StopKill, StopGiveUp,
     ClearNoDir, ClearOpen, ClearGrant, ClearLook, ClearRemove, ClearClose, StopStep, Answer
<1>8. CASE Release(c) \/ Crash(c)
  BY <1>0, <1>8 DEF Release, Crash, Abandon, Project!Close
<1>9. QED BY <1>4, <1>5, <1>6, <1>7, <1>8 DEF Command

\* A supervisor leaves the commands alone.
LEMMA SupervisorMoves ==
  ASSUME NEW s \in Sups, Supervisor(s) \/ Fate(s)
  PROVE  UNCHANGED <<projectVars, pc, cmdVars, lone, stopVars>>
BY DEF Supervisor, Fate, SupervisorAction, ClaimOpen, ClaimGrant, ClaimRefused, ClaimLook,
   ClaimWrite, ClaimNoDir, ClaimClose, RecordWatched, Die, Recycle

(* Nobody works on the project without its lock.                           *)

LEMMA WorksLockedStep ==
  ASSUME TypeOK, WorksLocked, [Next]_vars
  PROVE  WorksLocked'
<1>0. pc \in [Cmds -> PcStates] /\ lockHeld \subseteq Cmds
  BY DEF TypeOK, Project!FlockTypeOK
<1>1. ASSUME NEW c \in Cmds, Command(c) \/ Crash(c)
      PROVE  pc'[c] \in Locking => c \in lockHeld'
  <2> USE <1>0 DEF WorksLocked, Locking, At, Goto, cmdVars, projectVars
  <2>1. CASE c \in Ups /\ Up(c)
    BY <2>1 DEF Up, LockOpen, LockGranted, LockBusy, Project!Open, Project!Grant, CallStop,
       BringUp, PlanWatch, Compare, Replaced, Unchecked, AlreadyWatching, SpawnChild,
       AwaitClaim, AwaitExit, AwaitTimeout, Awaited, Returned
  <2>2. CASE c \in Downs /\ Down(c)
    BY <2>2 DEF Down, LockOpen, LockGranted, LockBusy, Project!Open, Project!Grant, CallStop,
       HoldNothing, GuessedAnother, EarlyStopped, DownSkipsStop, DownStops, DownStopped,
       Forget, RemoveContainers, Returned
  <2>3. CASE c \in Destroys /\ Destroy(c)
    BY <2>3 DEF Destroy, Plan, LockOpen, DestroyBegins, LockGranted, LockBusy, Project!Open,
       Project!Grant, CallStop, DestroyStopped, RemoveContainers, RemoveStateDir,
       KeepStateDir, Project!Unlink, Returned
  <2>4. CASE Stopping(c) \/ Release(c) \/ Crash(c)
    BY <2>4 DEF Stopping, Release, Crash
  <2>5. QED BY <1>1, <2>1, <2>2, <2>3, <2>4 DEF Command
<1>2. ASSUME NEW c \in Cmds, Command(c) \/ Crash(c)
      PROVE  WorksLocked'
  BY <1>1, <1>2, OwnMoves DEF WorksLocked
<1>3. ASSUME NEW s \in Sups, Supervisor(s) \/ Fate(s)
      PROVE  WorksLocked'
  BY <1>3, SupervisorMoves DEF WorksLocked, projectVars
<1>4. CASE UNCHANGED vars
  BY <1>4 DEF vars, projectVars, WorksLocked
<1>5. QED BY <1>2, <1>3, <1>4 DEF Next

LEMMA CalledStep ==
  ASSUME TypeOK, Called, [Next]_vars
  PROVE  Called'
<1>0. pc \in [Cmds -> PcStates] /\ stop \in [Cmds -> StopStates]
  BY DEF TypeOK, ClaimTypeOK
<1>1. ASSUME NEW c \in Cmds, Command(c) \/ Crash(c)
      PROVE  stop'[c] # "idle" => pc'[c] \in {"replacing", "earlyStop", "stopping"}
  <2> USE <1>0 DEF Called, At, Goto, claimVars, stopVars
  <2>1. CASE c \in Ups /\ Up(c)
    BY <2>1 DEF Up, LockOpen, MakeStateDir, LockGranted, LockBusy, CallStop, BringUp, PlanWatch,
       Compare, Replaced, Unchecked, AlreadyWatching, SpawnChild, Spawn, AwaitClaim,
       AwaitExit, AwaitTimeout, Awaited, Returned
  <2>2. CASE c \in Downs /\ Down(c)
    BY <2>2 DEF Down, LockOpen, MakeStateDir, LockGranted, LockBusy, CallStop, HoldNothing,
       GuessedAnother, EarlyStopped, ClearWatched, DownSkipsStop, DownStops, DownStopped,
       Forget, RemoveContainers, Returned
  <2>3. CASE c \in Destroys /\ Destroy(c)
    BY <2>3 DEF Destroy, Plan, LockOpen, MakeStateDir, DestroyBegins, LockGranted, LockBusy,
       CallStop, DestroyStopped, RemoveContainers, RemoveStateDir, KeepStateDir, Returned
  <2>4. CASE Stopping(c)
    BY <2>4 DEF Stopping, StopAction, StopTerm, StopSeenGone, StopKill, StopGiveUp,
       ClearNoDir, ClearOpen, ClearGrant, ClearLook, ClearRemove, ClearClose, StopStep
  <2>5. CASE Release(c) \/ Crash(c)
    BY <2>5 DEF Release, Crash, Abandon
  <2>6. QED BY <1>1, <2>1, <2>2, <2>3, <2>4, <2>5 DEF Command
<1>2. ASSUME NEW c \in Cmds, Command(c) \/ Crash(c)
      PROVE  Called'
  BY <1>1, <1>2, OwnMoves DEF Called
<1>3. ASSUME NEW s \in Sups, Supervisor(s) \/ Fate(s)
      PROVE  Called'
  BY <1>3, SupervisorMoves DEF Called, stopVars
<1>4. CASE UNCHANGED vars
  BY <1>4 DEF vars, claimVars, stopVars, Called
<1>5. QED BY <1>2, <1>3, <1>4 DEF Next

(* The supervisors: whom the file names has claimed, and who has not is    *)
(* waited for.                                                             *)

LEMMA NamedStep ==
  ASSUME ClaimTypeOK, NamedHasClaimed, [ClaimNext]_claimVars
  PROVE  NamedHasClaimed'
<1> USE ClaimAssumption DEF NamedHasClaimed, ClaimTypeOK
<1>1. ASSUME NEW s \in Sups, SupervisorAction(s)
      PROVE  NamedHasClaimed'
  BY <1>1 DEF SupervisorAction, ClaimOpen, ClaimGrant, ClaimRefused, ClaimLook, ClaimWrite,
     ClaimNoDir, ClaimClose, RecordWatched, SupStep
<1>2. ASSUME NEW s \in Sups, NEW services \in SUBSET Services,
             Spawn(s, services) \/ Die(s) \/ Recycle(s)
      PROVE  NamedHasClaimed'
  BY <1>2 DEF Spawn, Die, Recycle, SupStep
<1>3. ASSUME NEW c \in Cmds, StopBegin(c) \/ StopAction(c) \/ Abandon(c)
      PROVE  NamedHasClaimed'
  BY <1>3 DEF StopBegin, StopAction, Abandon, StopTerm, StopSeenGone, StopKill, StopGiveUp,
     ClearNoDir, ClearOpen, ClearGrant, ClearLook, ClearRemove, ClearClose
<1>4. CASE ClearWatched \/ MakeStateDir \/ UNCHANGED claimVars
  BY <1>4 DEF ClearWatched, MakeStateDir, claimVars
<1>5. QED
  <2>1. ASSUME NEW s \in Sups, Die(s) \/ Recycle(s)
        PROVE  NamedHasClaimed'
    <3>1. {} \in SUBSET Services OBVIOUS
    <3>2. QED BY <1>2, <2>1, <3>1
  <2>2. QED BY <1>1, <1>2, <1>3, <1>4, <2>1 DEF ClaimNext

\* The supervisors that run, and those that have claimed, move one way.
LEMMA SupervisorsMove ==
  ASSUME NEW s \in Sups, ClaimTypeOK, Supervisor(s) \/ Fate(s)
  PROVE  Alive' \subseteq Alive /\ Alive' \cap Live \subseteq Live'
BY DEF ClaimTypeOK, Alive, Live, SupStates, Supervisor, Fate, SupervisorAction, ClaimOpen,
   ClaimGrant, ClaimRefused, ClaimLook, ClaimWrite, ClaimNoDir, ClaimClose, RecordWatched,
   SupStep, Die, Recycle

\* An `up` that stops waiting knows its child claimed or gone, or lets go of it.
LEMMA AwaitEnds ==
  ASSUME NEW u \in Ups, TypeOK, NamedHasClaimed, Command(u) \/ Crash(u),
         pc[u] = "await", pc'[u] # "await", child[u] \in Alive
  PROVE  child[u] \in Live \cup lone'
<1>0. u \in Cmds /\ u \notin Downs /\ u \notin Destroys /\ pc \in [Cmds -> PcStates]
  BY LifecycleAssumption DEF TypeOK
<1>1. CASE Up(u)
  <2>1. AwaitClaim(u) \/ AwaitExit(u) \/ AwaitTimeout(u)
    BY <1>1 DEF Up, LockOpen, LockGranted, LockBusy, CallStop, BringUp, PlanWatch, Compare,
       Replaced, Unchecked, AlreadyWatching, SpawnChild, Returned, At
  <2>2. CASE AwaitClaim(u)
    BY <2>2 DEF AwaitClaim, NamedHasClaimed, Alive, Live
  <2>3. CASE AwaitExit(u)
    BY <2>3 DEF AwaitExit
  <2>4. CASE AwaitTimeout(u)
    BY <2>4 DEF AwaitTimeout, Unclaimed
  <2>5. QED BY <2>1, <2>2, <2>3, <2>4
<1>2. CASE Crash(u)
  BY <1>2 DEF Crash, Unclaimed
<1>3. CASE Stopping(u)
  BY <1>3 DEF Stopping
<1>4. CASE Release(u)
  BY <1>4 DEF Release, At
<1>5. QED BY <1>0, <1>1, <1>2, <1>3, <1>4 DEF Command

LEMMA UnclaimedStep ==
  ASSUME TypeOK, NamedHasClaimed, UnclaimedIsAwaited, [Next]_vars
  PROVE  UnclaimedIsAwaited'
<1>0. /\ ClaimTypeOK /\ sup \in [Sups -> SupStates] /\ Ups \subseteq Cmds
      /\ child \in [Cmds -> Sups \cup {NoSup}] /\ pc \in [Cmds -> PcStates]
  BY LifecycleAssumption DEF TypeOK, ClaimTypeOK
<1>1. ASSUME NEW c \in Cmds, Command(c) \/ Crash(c)
      PROVE  UnclaimedIsAwaited'
  <2> SUFFICES ASSUME NEW s \in Alive', s \notin Live', s \notin lone'
               PROVE  \E u \in Ups : pc'[u] = "await" /\ child'[u] = s
    BY DEF UnclaimedIsAwaited
  <2>0. s \in Sups
    BY DEF Alive
  <2>1. CASE c \in Ups /\ SpawnChild(c) /\ child'[c] = s
    BY <1>0, <2>1 DEF SpawnChild, Goto
  <2>2. CASE c \in Ups /\ SpawnChild(c) /\ child'[c] # s
    <3>1. s \in Alive /\ s \notin Live /\ s \notin lone
      BY <1>0, <2>0, <2>2 DEF SpawnChild, Spawn, SupStep, Alive, Live
    <3>2. PICK u \in Ups : pc[u] = "await" /\ child[u] = s
      BY <3>1 DEF UnclaimedIsAwaited
    <3>3. u # c
      BY <2>2, <3>2 DEF SpawnChild, At
    <3>4. pc'[u] = "await" /\ child'[u] = s
      BY <1>0, <1>1, <3>2, <3>3, OwnMoves
    <3>5. QED BY <3>4
  <2>3. CASE UNCHANGED <<sup, child>>
    <3>1. s \in Alive /\ s \notin Live /\ s \notin lone
      BY <1>1, <2>3, OwnMoves DEF Alive, Live
    <3>2. PICK u \in Ups : pc[u] = "await" /\ child[u] = s
      BY <3>1 DEF UnclaimedIsAwaited
    <3>3. CASE u = c /\ pc'[u] # "await"
      <4>1. s \in Live \cup lone'
        BY <1>1, <3>1, <3>2, <3>3, AwaitEnds
      <4>2. QED BY <3>1, <4>1
    <3>4. CASE u = c /\ pc'[u] = "await"
      BY <2>3, <3>2, <3>4
    <3>5. CASE u # c
      BY <1>0, <1>1, <3>2, <3>5, OwnMoves
    <3>6. QED BY <3>3, <3>4, <3>5
  <2>4. QED BY <1>1, <2>1, <2>2, <2>3, OwnMoves
<1>2. ASSUME NEW s \in Sups, Supervisor(s) \/ Fate(s)
      PROVE  UnclaimedIsAwaited'
  <2>1. Alive' \ (Live' \cup lone') \subseteq Alive \ (Live \cup lone)
    BY <1>0, <1>2, SupervisorsMove, SupervisorMoves
  <2>2. UNCHANGED <<pc, child>>
    BY <1>2, SupervisorMoves DEF cmdVars
  <2>3. QED BY <2>1, <2>2 DEF UnclaimedIsAwaited
<1>3. CASE UNCHANGED vars
  BY <1>3 DEF vars, claimVars, cmdVars, UnclaimedIsAwaited, Alive, Live
<1>4. QED BY <1>1, <1>2, <1>3 DEF Next

(* Under the lock, a command finds nobody but whom the file names: no `up` *)
(* is waiting for a child then, nor about to spawn one.                    *)

LEMMA AloneUnderLock ==
  ASSUME NEW c \in Stoppers, TypeOK, ProjectLockUnbroken, WorksLocked, WatcherFindable,
         UnclaimedIsAwaited, pc[c] \in Locking
  PROVE  /\ Alive \subseteq lone \cup {pidFile}
         /\ \A u \in Ups : pc[u] # "spawn"
<1>1. c \in lockHeld /\ c \notin Ups /\ Ups \subseteq Cmds
  BY LifecycleAssumption DEF WorksLocked, Stoppers
<1>2. \A u \in Ups : pc[u] # "spawn" /\ pc[u] # "await"
  BY <1>1 DEF WorksLocked, Locking, ProjectLockUnbroken, OneCommandAtATime,
     Project!Exclusive
<1>3. QED
  BY <1>2 DEF UnclaimedIsAwaited, WatcherFindable

LEMMA MissesNobodyElsewhere ==
  ASSUME NEW c \in Stoppers, MissesNobody(c),
         pc'[c] = pc[c], stop'[c] = stop[c], target'[c] = target[c], result'[c] = result[c],
         c \in left' <=> c \in left, c \in Destroys => plan'[c] = plan[c],
         pc[c] \in Locking => Alive' \subseteq Alive, lone \subseteq lone'
  PROVE  MissesNobody(c)'
BY DEF MissesNobody, Locking

LEMMA MissesNobodyItself ==
  ASSUME NEW c \in Stoppers, TypeOK, ProjectLockUnbroken, WorksLocked, WatcherFindable,
         UnclaimedIsAwaited, MissesNobody(c), Command(c) \/ Crash(c)
  PROVE  MissesNobody(c)'
<1>0. /\ c \in Cmds /\ c \notin Ups
      /\ pc \in [Cmds -> PcStates] /\ stop \in [Cmds -> StopStates]
      /\ target \in [Cmds -> Sups \cup {NoSup}] /\ result \in [Cmds -> Results]
      /\ plan \in [Destroys -> [running : BOOLEAN, dir : BOOLEAN]]
  BY LifecycleAssumption DEF TypeOK, ClaimTypeOK, Stoppers
<1>1. UNCHANGED sup /\ lone \subseteq lone'
  BY <1>0, OwnMoves
<1>2. Alive' = Alive
  BY <1>1 DEF Alive
<1> USE <1>0 DEF MissesNobody, Waits, At, Goto, cmdVars, claimVars, stopVars
<1>3. CASE c \in Downs /\ Down(c)
  <2>0. c \notin Destroys
    BY <1>3, LifecycleAssumption
  <2>1. ASSUME CallStop(c, "stop", "stopping")
        PROVE  MissesNobody(c)'
    <3>1. Alive \subseteq lone \cup {pidFile}
      BY <2>1, AloneUnderLock DEF CallStop, Locking
    <3>2. QED
      BY <1>2, <2>1, <3>1 DEF CallStop, StopBegin, StopStep, Answer, SeesNobody
  <2>2. CASE CallStop(c, "early", "earlyStop")
    BY <2>2 DEF CallStop
  <2>3. CASE DownStopped(c)
    BY <1>2, <2>3 DEF DownStopped, Returned, Unconfirmed
  <2>4. CASE DownSkipsStop(c)
    BY <2>4 DEF DownSkipsStop
  <2>5. CASE Forget(c)
    BY <1>2, <2>0, <2>5 DEF Forget
  <2>6. CASE HoldNothing(c) \/ GuessedAnother(c) \/ LockOpen(c, "start", "locking")
             \/ LockGranted(c, "locking", "early") \/ LockBusy(c, "locking")
             \/ EarlyStopped(c) \/ LockOpen(c, "relock", "forget")
             \/ LockGranted(c, "forget", "stop") \/ LockBusy(c, "forget")
             \/ RemoveContainers(c, "release")
    BY <2>6 DEF HoldNothing, GuessedAnother, LockOpen, LockGranted, LockBusy, EarlyStopped,
       RemoveContainers
  <2>7. QED BY <1>3, <2>1, <2>2, <2>3, <2>4, <2>5, <2>6, Zenon DEF Down, DownStops
<1>4. CASE c \in Destroys /\ Destroy(c)
  <2>1. ASSUME CallStop(c, "stop", "stopping")
        PROVE  MissesNobody(c)'
    <3>1. Alive \subseteq lone \cup {pidFile}
      BY <2>1, AloneUnderLock DEF CallStop, Locking
    <3>2. QED
      BY <1>2, <2>1, <3>1 DEF CallStop, StopBegin, StopStep, Answer, SeesNobody
  <2>2. CASE DestroyBegins(c)
    BY <1>4, <2>2 DEF DestroyBegins, LockGranted
  <2>3. CASE DestroyStopped(c)
    BY <1>2, <2>3 DEF DestroyStopped, Returned, Unconfirmed
  <2>4. CASE RemoveContainers(c, "unlink")
    BY <1>2, <1>4, <2>4 DEF RemoveContainers
  <2>5. CASE Plan(c) \/ LockOpen(c, "confirm", "locking") \/ LockBusy(c, "locking")
             \/ RemoveStateDir(c) \/ KeepStateDir(c)
    BY <2>5 DEF Plan, LockOpen, LockBusy, RemoveStateDir, KeepStateDir
  <2>6. QED BY <1>4, <2>1, <2>2, <2>3, <2>4, <2>5 DEF Destroy
<1>5. CASE Stopping(c)
  <2>1. StopAction(c) /\ UNCHANGED <<pc, left, plan, lone>>
    BY <1>5 DEF Stopping
  <2>2. CASE StopSeenGone(c)
    BY <1>2, <2>1, <2>2 DEF StopSeenGone, StopStep, Answer, PidInUse
  <2>3. CASE StopGiveUp(c)
    BY <1>2, <2>1, <2>3 DEF StopGiveUp, StopStep, Answer
  <2>4. CASE StopTerm(c) \/ StopKill(c)
    BY <1>2, <2>1, <2>4 DEF StopTerm, StopKill, StopStep
  <2>5. CASE ClearNoDir(c) \/ ClearOpen(c) \/ ClearGrant(c) \/ ClearLook(c)
             \/ ClearRemove(c) \/ ClearClose(c)
    BY <1>2, <2>1, <2>5 DEF ClearNoDir, ClearOpen, ClearGrant, ClearLook, ClearRemove,
       ClearClose, StopStep
  <2>6. QED BY <2>1, <2>2, <2>3, <2>4, <2>5 DEF StopAction
<1>6. CASE Release(c) \/ Crash(c)
  BY <1>6 DEF Release, Crash
<1>7. QED BY <1>3, <1>4, <1>5, <1>6 DEF Command

LEMMA MissesNobodyStep ==
  ASSUME NEW c \in Stoppers, TypeOK, ProjectLockUnbroken, WorksLocked, WatcherFindable,
         UnclaimedIsAwaited, MissesNobody(c), [Next]_vars
  PROVE  MissesNobody(c)'
<1>0. c \in Cmds /\ ClaimTypeOK
  BY LifecycleAssumption DEF Stoppers, TypeOK
<1>1. CASE Command(c) \/ Crash(c)
  BY <1>1, MissesNobodyItself
<1>2. ASSUME NEW d \in Cmds, d # c, Command(d) \/ Crash(d)
      PROVE  MissesNobody(c)'
  <2>1. /\ pc'[c] = pc[c] /\ stop'[c] = stop[c] /\ target'[c] = target[c]
        /\ result'[c] = result[c] /\ (c \in left' <=> c \in left)
        /\ (c \in Destroys => plan'[c] = plan[c]) /\ lone \subseteq lone'
    BY <1>0, <1>2, OwnMoves
  <2>2. ASSUME pc[c] \in Locking
        PROVE  Alive' \subseteq Alive
    <3>1. ~(SpawnChild(d) /\ d \in Ups)
      BY <2>2, AloneUnderLock DEF SpawnChild, At
    <3>2. UNCHANGED sup
      BY <1>2, <3>1, OwnMoves
    <3>3. QED BY <3>2 DEF Alive
  <2>3. QED BY <2>1, <2>2, MissesNobodyElsewhere
<1>3. ASSUME NEW s \in Sups, Supervisor(s) \/ Fate(s)
      PROVE  MissesNobody(c)'
  BY <1>0, <1>3, SupervisorsMove, SupervisorMoves, MissesNobodyElsewhere DEF cmdVars, stopVars
<1>4. CASE UNCHANGED vars
  BY <1>4, MissesNobodyElsewhere DEF vars, claimVars, cmdVars, stopVars, Alive
<1>5. QED BY <1>1, <1>2, <1>3, <1>4 DEF Next

(* All of it, for the time before a `destroy` is through with the state    *)
(* directory.  What the lock files are for is over when one removes them.  *)

Untouched == \A x \in Destroys : pc[x] \notin {"release"} \cup Finished

Orderly ==
  /\ ClaimInv /\ ProjectLockUnbroken /\ WorksLocked /\ Called
  /\ NamedHasClaimed /\ UnclaimedIsAwaited
  /\ \A c \in Stoppers : MissesNobody(c)

LEMMA UntouchedBefore ==
  ASSUME TypeOK, [Next]_vars, Untouched'
  PROVE  Untouched /\ \A x \in Destroys : ~RemoveStateDir(x)
<1>0. pc \in [Cmds -> PcStates] /\ Destroys \subseteq Cmds
  BY LifecycleAssumption DEF TypeOK
<1>1. ASSUME NEW x \in Destroys, RemoveStateDir(x)
      PROVE  FALSE
  BY <1>0, <1>1 DEF RemoveStateDir, Goto, Untouched
<1>2. ASSUME NEW x \in Destroys, pc[x] \in {"release"} \cup Finished
      PROVE  FALSE
  <2>0. x \in Cmds /\ x \notin Ups /\ x \notin Downs
    BY LifecycleAssumption
  <2>1. ASSUME Command(x) \/ Crash(x)
        PROVE  pc'[x] \in {"release"} \cup Finished
    <3>1. CASE Destroy(x)
      BY <1>2, <3>1 DEF Destroy, Plan, LockOpen, DestroyBegins, LockGranted, LockBusy, CallStop,
         DestroyStopped, RemoveContainers, RemoveStateDir, KeepStateDir, Returned, At, Finished
    <3>2. CASE Stopping(x)
      BY <1>2, <3>2 DEF Stopping
    <3>3. CASE Release(x) \/ Crash(x)
      BY <1>0, <3>3 DEF Release, Crash, Goto, Finished
    <3>4. QED BY <2>0, <2>1, <3>1, <3>2, <3>3 DEF Command
  <2>2. ASSUME NEW d \in Cmds, d # x, Command(d) \/ Crash(d)
        PROVE  pc'[x] = pc[x]
    BY <2>0, <2>2, OwnMoves
  <2>3. ASSUME NEW s \in Sups, Supervisor(s) \/ Fate(s)
        PROVE  pc'[x] = pc[x]
    BY <2>3, SupervisorMoves
  <2>4. CASE UNCHANGED vars
    BY <1>2, <2>4 DEF vars, Untouched
  <2>5. pc'[x] \in {"release"} \cup Finished
    BY <1>2, <2>1, <2>2, <2>3, <2>4 DEF Next, vars
  <2>6. QED BY <2>5 DEF Untouched
<1>3. QED BY <1>1, <1>2 DEF Untouched

LEMMA OrderlyInit == Init => Orderly
<1> SUFFICES ASSUME Init PROVE Orderly
  OBVIOUS
<1>1. ClaimInv
  BY InvInit, InitIsClaimInit
<1>2. ProjectLockUnbroken
  BY DEF Init, ProjectLockUnbroken, OneCommandAtATime, Project!FlockInit, Project!Exclusive
<1>3. WorksLocked /\ Called /\ NamedHasClaimed
  BY ClaimAssumption DEF Init, ClaimInit, WorksLocked, Locking, Called, NamedHasClaimed
<1>4. Alive = {}
  BY DEF Init, ClaimInit, Alive
<1>5. UnclaimedIsAwaited /\ \A c \in Stoppers : MissesNobody(c)
  BY <1>4 DEF UnclaimedIsAwaited, MissesNobody
<1>6. QED BY <1>1, <1>2, <1>3, <1>5 DEF Orderly

LEMMA OrderlyStep ==
  ASSUME TypeOK, Untouched => Orderly, [Next]_vars
  PROVE  (Untouched => Orderly)'
<1> SUFFICES ASSUME Untouched' PROVE Orderly'
  OBVIOUS
<1>1. Orderly /\ \A x \in Destroys : ~RemoveStateDir(x)
  BY UntouchedBefore
<1>2. [ClaimNext]_claimVars
  BY <1>1, StepIsClaimStep
<1>3. ClaimInv' /\ NamedHasClaimed'
  BY <1>1, <1>2, InvStep, NamedStep DEF Orderly, ClaimInv
<1>4. ProjectLockUnbroken' /\ WorksLocked' /\ Called' /\ UnclaimedIsAwaited'
  BY <1>1, ProjectLockStep, WorksLockedStep, CalledStep, UnclaimedStep DEF Orderly
<1>5. \A c \in Stoppers : MissesNobody(c)'
  BY <1>1, MissesNobodyStep DEF Orderly, ClaimInv
<1>6. QED BY <1>3, <1>4, <1>5 DEF Orderly, Stoppers

-----------------------------------------------------------------------------
(* The theorems.                                                           *)

\* The types of every variable hold whatever the commands are.
THEOREM LifecycleTypeCorrect == Spec => []TypeOK
<1>1. Init => TypeOK
  BY ClaimAssumption, LifecycleAssumption, InvInit
     DEF Init, ClaimInv, TypeOK, PcStates, Finished, Project!FlockInit,
         Project!FlockTypeOK
<1>2. QED
  BY <1>1, LifecycleTypeStep, PTL DEF Spec

\* With no `destroy`, commands and supervisors only take steps of the claim
\* protocol.
THEOREM LifecycleUsesClaim ==
  ASSUME Destroys = {}
  PROVE  Spec => UsesClaimProtocol
<1>1. TypeOK /\ [Next]_vars => [ClaimNext]_claimVars
  BY StepIsClaimStep
<1>2. QED
  BY <1>1, LifecycleTypeCorrect, PTL DEF Spec, UsesClaimProtocol

\* With no `destroy`, every supervisor that has claimed the project is the one
\* the pid file names, whatever `up`s and `down`s run at once, are refused
\* the lock, time out or are killed.
THEOREM LifecycleWatcherFindable ==
  ASSUME Destroys = {}
  PROVE  Spec => []WatcherFindable
<1>1. Spec => ClaimSpec
  BY InitIsClaimInit, LifecycleUsesClaim, PTL DEF Spec, ClaimSpec, UsesClaimProtocol
<1>2. QED
  BY <1>1, WatcherIsFindable, PTL

\* With no `destroy`, one command at a time holds the project lock.
THEOREM LifecycleExclusive ==
  ASSUME Destroys = {}
  PROVE  Spec => []OneCommandAtATime
<1>1. Init => ProjectLockUnbroken
  BY DEF Init, ProjectLockUnbroken, OneCommandAtATime, Project!FlockInit,
     Project!Exclusive
<1>2. TypeOK /\ ProjectLockUnbroken /\ [Next]_vars => ProjectLockUnbroken'
  BY ProjectLockStep
<1>3. ProjectLockUnbroken => OneCommandAtATime
  BY DEF ProjectLockUnbroken
<1>4. QED
  BY <1>1, <1>2, <1>3, LifecycleTypeCorrect, PTL DEF Spec

\* Until a `destroy` is through with the state directory: the claim protocol's
\* invariant and the project lock's, work under the lock only, and nobody
\* missed by whoever stops the supervisor.  For any commands.
THEOREM OrderlyUntilRemoved == Spec => [](Untouched => Orderly)
<1>1. Init => (Untouched => Orderly)
  BY OrderlyInit
<1>2. TypeOK /\ (Untouched => Orderly) /\ [Next]_vars => (Untouched => Orderly)'
  BY OrderlyStep
<1>3. QED
  BY <1>1, <1>2, LifecycleTypeCorrect, PTL DEF Spec

\* With no `destroy`, a `down` that ends without a word of a supervisor leaves
\* none, but for one whose `up` had let go of it: whatever other `up`s and
\* `down`s run, whether or not the state directory was there, however often
\* `ps` fails or commands are killed.
THEOREM QuietDownAlwaysLeavesNobody ==
  ASSUME Destroys = {}
  PROVE  Spec => QuietDownLeavesNobody
<1> DEFINE Quiet(d) ==
      At(d, "remove") /\ pc'[d] = "release" /\ d \notin left => Alive' \subseteq lone
<1>1. ASSUME TypeOK, Untouched => Orderly, [Next]_vars, NEW d \in Downs
      PROVE  Quiet(d)
  <2> SUFFICES ASSUME At(d, "remove"), pc'[d] = "release", d \notin left
               PROVE  Alive' \subseteq lone
    OBVIOUS
  <2>0. d \in Cmds /\ d \notin Ups /\ d \notin Destroys /\ Untouched
    BY LifecycleAssumption DEF Untouched
  <2>1. Alive \subseteq lone
    <3>1. MissesNobody(d)
      BY <1>1, <2>0 DEF Orderly, Stoppers
    <3>2. QED BY <2>0, <3>1 DEF MissesNobody, At
  <2>2. UNCHANGED sup
    <3>1. CASE Command(d) \/ Crash(d)
      BY <1>1, <2>0, <3>1, OwnMoves
    <3>2. ASSUME NEW c \in Cmds, c # d, Command(c) \/ Crash(c)
          PROVE  FALSE
      BY <1>1, <2>0, <3>2, OwnMoves DEF At
    <3>3. ASSUME NEW s \in Sups, Supervisor(s) \/ Fate(s)
          PROVE  FALSE
      BY <3>3, SupervisorMoves DEF At
    <3>4. CASE UNCHANGED vars
      BY <3>4 DEF vars, At
    <3>5. QED BY <1>1, <3>1, <3>2, <3>3, <3>4 DEF Next
  <2>3. QED BY <2>1, <2>2 DEF Alive
<1>2. TypeOK /\ (Untouched => Orderly) /\ [Next]_vars => \A d \in Downs : Quiet(d)
  BY <1>1
<1>3. Spec => [][\A d \in Downs : Quiet(d)]_vars
  BY <1>2, OrderlyUntilRemoved, LifecycleTypeCorrect, PTL DEF Spec
<1>4. QED
  BY <1>3 DEF QuietDownLeavesNobody

\* A `destroy` that saw a supervisor when it made its plan, and is the only one,
\* removes the state directory only when nobody is left, whatever `up`s and
\* `down`s run beside it.  (Two of them may: the first removes the lock file the
\* second would have to wait on.)
THEOREM LoneDestroyLosesNobody ==
  ASSUME \A x, y \in Destroys : x = y
  PROVE  Spec => DestroyThatLookedLosesNobody
<1> DEFINE Looked(x) ==
      At(x, "unlink") /\ stateDir /\ ~stateDir' /\ plan[x].running => Alive \subseteq lone
<1>1. ASSUME TypeOK, Untouched => Orderly, [Next]_vars, NEW x \in Destroys
      PROVE  Looked(x)
  <2> SUFFICES ASSUME At(x, "unlink"), stateDir, ~stateDir', plan[x].running
               PROVE  Alive \subseteq lone
    OBVIOUS
  <2>0. x \in Cmds /\ Untouched
    BY LifecycleAssumption DEF Untouched, At, Finished
  <2>1. RemoveStateDir(x)
    <3>1. \E y \in Destroys : RemoveStateDir(y)
      <4>1. SUFFICES ASSUME \A y \in Destroys : ~RemoveStateDir(y)
                     PROVE  FALSE
        OBVIOUS
      <4>2. [ClaimNext]_claimVars
        BY <1>1, <4>1, StepIsClaimStep
      <4>3. stateDir'
        BY <4>2 DEF ClaimNext, SupervisorAction, StopAction, Spawn, ClaimOpen, ClaimGrant,
           ClaimRefused, ClaimLook, ClaimWrite, ClaimNoDir, ClaimClose, RecordWatched, Die,
           Recycle, StopBegin, StopTerm, StopSeenGone, StopKill, StopGiveUp, ClearNoDir,
           ClearOpen, ClearGrant, ClearLook, ClearRemove, ClearClose, Abandon,
           ClearWatched, MakeStateDir, claimVars
      <4>4. QED BY <4>3
    <3>2. QED BY <3>1
  <2>2. x \notin left
    BY <2>1 DEF RemoveStateDir
  <2>3. MissesNobody(x)
    BY <1>1, <2>0 DEF Orderly, Stoppers
  <2>4. QED BY <2>2, <2>3 DEF MissesNobody, At
<1>2. TypeOK /\ (Untouched => Orderly) /\ [Next]_vars => \A x \in Destroys : Looked(x)
  BY <1>1
<1>3. Spec => [][\A x \in Destroys : Looked(x)]_vars
  BY <1>2, OrderlyUntilRemoved, LifecycleTypeCorrect, PTL DEF Spec
<1>4. QED
  BY <1>3 DEF DestroyThatLookedLosesNobody

\* Where the state directory is there from the start and nothing removes it,
\* even the first look for a supervisor is made under the lock ...
LooksLocked ==
  stateDir /\ \A c \in Cmds : pc[c] \in {"early", "earlyStop"} => c \in lockHeld

LEMMA LooksLockedStep ==
  ASSUME Destroys = {}, TypeOK, LooksLocked, [Next]_vars
  PROVE  LooksLocked'
<1>0. pc \in [Cmds -> PcStates] /\ lockHeld \subseteq Cmds
  BY DEF TypeOK, Project!FlockTypeOK
<1>1. stateDir'
  <2>1. [ClaimNext]_claimVars
    BY StepIsClaimStep
  <2>2. QED
    BY <2>1 DEF LooksLocked, ClaimNext, SupervisorAction, StopAction, Spawn, ClaimOpen,
       ClaimGrant, ClaimRefused, ClaimLook, ClaimWrite, ClaimNoDir, ClaimClose,
       RecordWatched, Die, Recycle, StopBegin, StopTerm, StopSeenGone, StopKill,
       StopGiveUp, ClearNoDir, ClearOpen, ClearGrant, ClearLook, ClearRemove, ClearClose,
       Abandon, ClearWatched, MakeStateDir, claimVars
<1>2. ASSUME NEW c \in Cmds, Command(c) \/ Crash(c)
      PROVE  pc'[c] \in {"early", "earlyStop"} => c \in lockHeld'
  <2> USE <1>0 DEF LooksLocked, At, Goto, cmdVars, projectVars
  <2>1. CASE c \in Ups /\ Up(c)
    BY <2>1 DEF Up, LockOpen, LockGranted, LockBusy, CallStop, BringUp, PlanWatch, Compare,
       Replaced, Unchecked, AlreadyWatching, SpawnChild, AwaitClaim, AwaitExit,
       AwaitTimeout, Awaited, Returned
  <2>2. CASE c \in Downs /\ Down(c)
    BY <2>2 DEF Down, LockOpen, LockGranted, LockBusy, Project!Open, Project!Grant, CallStop,
       HoldNothing, GuessedAnother, EarlyStopped, DownSkipsStop, DownStops, DownStopped,
       Forget, RemoveContainers, Returned
  <2>3. CASE Stopping(c) \/ Release(c) \/ Crash(c)
    BY <2>3 DEF Stopping, Release, Crash
  <2>4. QED BY <1>2, <2>1, <2>2, <2>3 DEF Command
<1>3. \A c \in Cmds : pc'[c] \in {"early", "earlyStop"} => c \in lockHeld'
  <2>1. ASSUME NEW d \in Cmds, Command(d) \/ Crash(d), NEW c \in Cmds, c # d
        PROVE  pc'[c] = pc[c] /\ (c \in lockHeld' <=> c \in lockHeld)
    BY <2>1, OwnMoves
  <2>2. ASSUME NEW s \in Sups, Supervisor(s) \/ Fate(s)
        PROVE  UNCHANGED <<pc, lockHeld>>
    BY <2>2, SupervisorMoves DEF projectVars
  <2>3. CASE UNCHANGED vars
    BY <2>3 DEF vars, projectVars, LooksLocked
  <2>4. QED BY <1>2, <2>1, <2>2, <2>3 DEF Next, LooksLocked
<1>4. QED BY <1>1, <1>3 DEF LooksLocked

\* ... so that no command signals a supervisor whose `up` holds the project lock
\* and waits for its claim, however many `up`s and `down`s there are.
THEOREM AwaitedChildNeverSignalled ==
  ASSUME Destroys = {}, FirstUse = FALSE
  PROVE  Spec => AwaitedChildNotSignalled
<1> DEFINE Unasked(u) == At(u, "await") => child[u] \notin asked' \ asked
<1>1. ASSUME TypeOK, Untouched => Orderly, LooksLocked, [Next]_vars, NEW u \in Ups
      PROVE  Unasked(u)
  <2> SUFFICES ASSUME At(u, "await")
               PROVE  UNCHANGED asked
    OBVIOUS
  <2>0. Orderly /\ u \in Cmds
    BY <1>1, LifecycleAssumption DEF Untouched
  <2>1. ASSUME NEW c \in Cmds, stop[c] = "term"
        PROVE  FALSE
    <3>1. c \in lockHeld
      BY <1>1, <2>0, <2>1 DEF Orderly, Called, WorksLocked, Locking, LooksLocked
    <3>2. u \in lockHeld /\ u # c
      BY <2>0, <2>1 DEF Orderly, Called, WorksLocked, Locking, At
    <3>3. QED
      BY <2>0, <3>1, <3>2 DEF Orderly, ProjectLockUnbroken, OneCommandAtATime,
         Project!Exclusive
  <2>2. [ClaimNext]_claimVars
    BY <1>1, StepIsClaimStep
  <2>3. QED
    BY <2>1, <2>2, Zenon DEF ClaimNext, SupervisorAction, StopAction, Spawn, ClaimOpen, ClaimGrant,
       ClaimRefused, ClaimLook, ClaimWrite, ClaimNoDir, ClaimClose, RecordWatched, Die,
       Recycle, StopBegin, StopTerm, StopStep, StopSeenGone, StopKill, StopGiveUp,
       ClearNoDir, ClearOpen, ClearGrant, ClearLook, ClearRemove, ClearClose, Abandon,
       ClearWatched, MakeStateDir, claimVars
<1>2. TypeOK /\ (Untouched => Orderly) /\ LooksLocked /\ [Next]_vars
        => \A u \in Ups : Unasked(u)
  BY <1>1
<1>3. Spec => []LooksLocked
  <2>1. Init => LooksLocked
    BY DEF Init, LooksLocked
  <2>2. TypeOK /\ LooksLocked /\ [Next]_vars => LooksLocked'
    BY LooksLockedStep
  <2>3. QED BY <2>1, <2>2, LifecycleTypeCorrect, PTL DEF Spec
<1>4. Spec => [][\A u \in Ups : Unasked(u)]_vars
  BY <1>2, <1>3, OrderlyUntilRemoved, LifecycleTypeCorrect, PTL DEF Spec
<1>5. QED
  BY <1>4 DEF AwaitedChildNotSignalled
=============================================================================
