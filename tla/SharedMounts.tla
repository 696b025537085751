---------------------------- MODULE SharedMounts ----------------------------
(* `volumes_from`: what a service mounts of another's, worked out once for the *)
(* whole file, and the faults of a service behind a profile, which are put off *)
(* until a command reads it (expandVolumesFrom of internal/compose/load.go and *)
(* checkVolumesFromRefs of internal/orchestrator/orchestrator.go).  The code   *)
(* goes down recursively; here its stack is in the open.                       *)
(* A service is [own, tmpfs, nocopy, part, from, gated]: own is what it writes *)
(* at each path, the later over the earlier (Anonymous is a bare target);      *)
(* tmpfs are paths; nocopy and part those of its own mounts that are not       *)
(* filled from the image, or are a part of a volume only; from is a sequence   *)
(* of [to, outside].                                                           *)
EXTENDS Naturals, Sequences, SequencesExt, FiniteSets, FiniteSetsExt

CONSTANTS
  Paths,          \* in the containers
  Sources,        \* of a mount, Anonymous with them
  ShareQuestions  \* [services, names]: a file, and its services in the order they are read

Anonymous == "anonymous"

\* A file as it is loaded: each service is named, what is said of a mount is of one it has.
IsLending(q) ==
  /\ q.names \in Seq(DOMAIN q.services) /\ ToSet(q.names) = DOMAIN q.services
  /\ \A n \in DOMAIN q.services :
       LET svc == q.services[n] IN
       /\ svc.own \in [Paths -> Seq(Sources)] /\ svc.from \in Seq(ToSet(svc.from))
       /\ svc.nocopy \cup svc.part \subseteq {t \in Paths : svc.own[t] # <<>>}
ASSUME ShareQuestionsAssumption == \A q \in ShareQuestions : IsLending(q)

VARIABLES
  lending,   \* the question
  shared,      \* [stack, state, volumes, nocopy, part, deps]: where the walk is, and what each service has
  refusal    \* why the file is refused, "" when it is not
lendVars == <<lending, shared, refusal>>

\* Every service some other borrows of, whatever its profiles.
Lends(q, ref) == ~ref.outside /\ ref.to \in DOMAIN q.services
IsHolder(q, name) ==
  \E n \in DOMAIN q.services : \E ref \in ToSet(q.services[n].from) : Lends(q, ref) /\ ref.to = name

\* Mutation: whoever is behind a profile has its fault put off, a holder as well.
PutsOffAlways(q, name) == q.services[name].gated
PutsOff(q, name) == q.services[name].gated /\ ~IsHolder(q, name)

\* The paths where a service takes what it borrows: it mounts nothing there itself.
OpenPaths(q, name) == {t \in Paths : q.services[name].own[t] = <<>> /\ t \notin q.services[name].tmpfs}
\* Of what is written for one path: the last mount that is not anonymous.
LastNamed(mounts) ==
  LET named == {i \in DOMAIN mounts : mounts[i] # Anonymous}
  IN IF named = {} THEN <<>> ELSE <<mounts[Max(named)]>>

\* One holder's mounts, over what an earlier holder gave; got: [mounts, nocopy, part].
NothingYet == [mounts |-> [t \in Paths |-> <<>>], nocopy |-> {}, part |-> {}]
BorrowFrom(q, w, name, holder, got) ==
  LET at == {t \in OpenPaths(q, name) : LastNamed(w.volumes[holder][t]) # <<>>}
  IN [mounts |-> [t \in Paths |-> IF t \in at THEN LastNamed(w.volumes[holder][t]) ELSE got.mounts[t]],
      nocopy |-> (got.nocopy \ at) \cup (w.nocopy[holder] \cap at),
      part |-> (got.part \ at) \cup (w.part[holder] \cap at)]
SharesAnonymous(q, w, name, holder) ==
  \E t \in OpenPaths(q, name) : Anonymous \in ToSet(w.volumes[holder][t])

\* What a service has in the end: one mount a path, its own over what it borrowed.
FoldedMounts(svc, got) ==
  IF svc.from = <<>> THEN svc.own
  ELSE [t \in Paths |-> IF svc.own[t] # <<>> THEN <<Last(svc.own[t])>> ELSE got.mounts[t]]

-----------------------------------------------------------------------------
(* expand: the service walked is the last of the stack, [name, at, got], and  *)
(* has gone through the first `at` of what it borrows from.                   *)

Borrower(frame) == lending.services[frame.name]
Enter(name) ==
  /\ shared' = [shared EXCEPT !.stack = Append(@, [name |-> name, at |-> 0, got |-> NothingYet]),
                          !.state[name] = "visiting"]
  /\ UNCHANGED <<lending, refusal>>
\* What a service with something left to borrow goes on to.
AtRef == refusal = "" /\ shared.stack # <<>> /\ Last(shared.stack).at < Len(Borrower(Last(shared.stack)).from)
NextRef == Borrower(Last(shared.stack)).from[Last(shared.stack).at + 1]
PastRef(got) == [shared.stack EXCEPT ![Len(shared.stack)] = [name |-> @.name, at |-> @.at + 1, got |-> got]]

\* The next service of the file that no other has led to.
ExpandsNext ==
  /\ refusal = "" /\ shared.stack = <<>>
  /\ \E i \in DOMAIN lending.names :
       /\ shared.state[lending.names[i]] = "new"
       /\ \A j \in 1 .. i - 1 : shared.state[lending.names[j]] # "new"
       /\ Enter(lending.names[i])
\* A mount of a container outside, or of no service, is refused where the service is always read.
PassesRef ==
  /\ AtRef /\ ~Lends(lending, NextRef)
  /\ IF Borrower(Last(shared.stack)).gated
     THEN shared' = [shared EXCEPT !.stack = PastRef(Last(shared.stack).got)] /\ UNCHANGED refusal
     ELSE refusal' = (IF NextRef.outside THEN "outside" ELSE "undefined") /\ UNCHANGED shared
  /\ UNCHANGED lending
\* The holder is expanded first, a cycle apart.
ExpandsHolder ==
  AtRef /\ Lends(lending, NextRef) /\ shared.state[NextRef.to] = "new" /\ Enter(NextRef.to)
Borrows ==
  /\ AtRef /\ Lends(lending, NextRef) /\ shared.state[NextRef.to] # "new"
  /\ LET top == Last(shared.stack) IN
     IF SharesAnonymous(lending, shared, top.name, NextRef.to) /\ ~PutsOff(lending, top.name)
     THEN refusal' = "anonymous" /\ UNCHANGED shared
     ELSE /\ shared' = [shared EXCEPT !.stack = PastRef(BorrowFrom(lending, shared, top.name, NextRef.to, top.got)),
                                  !.deps[top.name] = @ \cup {NextRef.to}]
          /\ UNCHANGED refusal
  /\ UNCHANGED lending
Folds ==
  /\ refusal = "" /\ shared.stack # <<>> /\ Last(shared.stack).at = Len(Borrower(Last(shared.stack)).from)
  /\ LET top == Last(shared.stack) IN
       shared' = [shared EXCEPT !.stack = Front(@), !.state[top.name] = "done",
                            !.volumes[top.name] = FoldedMounts(Borrower(top), top.got),
                            !.nocopy[top.name] = @ \cup top.got.nocopy, !.part[top.name] = @ \cup top.got.part]
  /\ UNCHANGED <<lending, refusal>>

AsLoaded(q) ==
  [stack |-> <<>>, state |-> [n \in DOMAIN q.services |-> "new"],
   volumes |-> [n \in DOMAIN q.services |-> q.services[n].own],
   nocopy |-> [n \in DOMAIN q.services |-> q.services[n].nocopy],
   part |-> [n \in DOMAIN q.services |-> q.services[n].part], deps |-> [n \in DOMAIN q.services |-> {}]]
SharesInit == lending \in ShareQuestions /\ shared = AsLoaded(lending) /\ refusal = ""
SharesNext == ExpandsNext \/ PassesRef \/ ExpandsHolder \/ Borrows \/ Folds
SharesSpec == SharesInit /\ [][SharesNext]_lendVars

\* checkVolumesFromRefs: of a service a command reads, the fault that was put off.
VolumesFromFault(q, w, name) ==
  \E ref \in ToSet(q.services[name].from) : ~Lends(q, ref) \/ SharesAnonymous(q, w, name, ref.to)

-----------------------------------------------------------------------------
(* Reference: what is at a path, of a service no cycle runs through.           *)

Lenders(q, n) == {ref.to : ref \in {ref \in ToSet(q.services[n].from) : Lends(q, ref)}}
\* Some services and all they borrow of, and so on.
LendersOf(q, S) ==
  {n \in DOMAIN q.services :
     \A T \in SUBSET DOMAIN q.services : S \subseteq T /\ (\A m \in T : Lenders(q, m) \subseteq T) => n \in T}
InACycle(q, n) == n \in LendersOf(q, Lenders(q, n))
MeetsNoCycle(q, n) == \A m \in LendersOf(q, {n}) : ~InACycle(q, m)

\* At a path: a service's own mount, or none under its own `tmpfs`, or what the last holder
\* has there of those that have something, filled and whole as there.
HasAsWritten(q, w, n, t) ==
  LET svc == q.services[n]
      lent == {i \in DOMAIN svc.from : Lends(q, svc.from[i]) /\ w.volumes[svc.from[i].to][t] # <<>>}
      holder == svc.from[Max(lent)].to
  IN CASE svc.own[t] # <<>> ->
            /\ w.volumes[n][t] # <<>> /\ Last(w.volumes[n][t]) = Last(svc.own[t])
            /\ t \in w.nocopy[n] <=> t \in svc.nocopy
            /\ t \in w.part[n] <=> t \in svc.part
       [] svc.own[t] = <<>> /\ (t \in svc.tmpfs \/ lent = {}) -> w.volumes[n][t] = <<>>
       [] OTHER ->
            /\ w.volumes[n][t] # <<>> /\ Last(w.volumes[n][t]) = Last(w.volumes[holder][t])
            /\ t \in w.nocopy[n] <=> t \in w.nocopy[holder]
            /\ t \in w.part[n] <=> t \in w.part[holder]

\* A service has at each path what it writes there or borrows, as it is written, and
\* comes after those it borrows of; nothing of that is lost to the order of the file, to a
\* cycle elsewhere, or to a profile: unless a command that reads the service is told.
BorrowsAsWritten ==
  refusal = "" /\ shared.stack = <<>> =>
    \A n \in DOMAIN lending.services :
      /\ shared.state[n] = "done" /\ MeetsNoCycle(lending, n)
      /\ IsHolder(lending, n) \/ ~VolumesFromFault(lending, shared, n)
      => /\ Lenders(lending, n) \subseteq shared.deps[n]
         /\ \A t \in Paths : HasAsWritten(lending, shared, n, t)
=============================================================================
