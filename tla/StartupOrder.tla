---------------------------- MODULE StartupOrder ----------------------------
(***************************************************************************)
(* Which services a command reads, what it refuses of their dependencies,  *)
(* and the order it walks them in: profiles, optional dependencies, cycles *)
(* (internal/compose/graph.go and, in                                      *)
(* internal/orchestrator/orchestrator.go, activeServices,                  *)
(* checkProjectLoads, checkNamedDeps, startupOrder and selectServices).    *)
(* A project is a record: deps, service -> set of [to, optional] (one      *)
(* element per target), profiles, service -> set of names, and on, the     *)
(* profiles turned on.  A command is one of                                *)
(*   up     and those that read as it does;                                *)
(*   start  and those that need the strict order (config, import, watch);  *)
(*   stop   and those that do with the tolerant one (down, kill, logs).    *)
(***************************************************************************)
EXTENDS Naturals, Sequences, SequencesExt, FiniteSets, Refusals

CONSTANTS
  Alphabet,        \* every service name there could be, in order
  OrderQuestions   \* [project, by, named]: a command and the services it is given

Defined(p) == DOMAIN p.deps
DepNames(p, n) == {d.to : d \in p.deps[n]}

ASSUME OrderQuestionsAssumption ==
  /\ Alphabet \in Seq(ToSet(Alphabet))
  /\ \A k \in OrderQuestions :
       /\ k.by \in {"up", "start", "stop"}
       /\ Defined(k.project) \subseteq ToSet(Alphabet) /\ k.named \subseteq Defined(k.project)

VARIABLES
  reading,   \* the question
  walk,      \* the walk under way: its stage, the services it is in, those it has placed
  reply       \* what the command is told, once it is
orderVars == <<reading, walk, reply>>

NoReply == [waits |-> TRUE]

-----------------------------------------------------------------------------
(* What is read.                                                           *)

\* The services among some that are come to from others, along dependencies.
ClosedIn(p, among, S) == \A n \in S : DepNames(p, n) \cap among \subseteq S
ReachedFrom(p, among, from) ==
  {n \in among : \A S \in SUBSET among : from \cap among \subseteq S /\ ClosedIn(p, among, S) => n \in S}

Enabled(p, n, named) ==
  p.profiles[n] = {} \/ n \in named \/ "*" \in p.on \/ p.profiles[n] \cap p.on # {}

\* What one named service carries: along dependencies that share a profile
\* with it, as far as they go.
CarriedFrom(p, a) ==
  ReachedFrom(p, {d \in Defined(p) : p.profiles[d] \cap p.profiles[a] # {}}, DepNames(p, a))

ActiveServices(p, named) ==
  {n \in Defined(p) : Enabled(p, n, named)} \cup UNION {CarriedFrom(p, a) : a \in named}

\* `required: false` on what is not read this time, or, of a service only its
\* name enables, on what the file does not define.
DropOptionalGatedDeps(p, active) ==
  [deps |-> [n \in Defined(p) |->
     {d \in p.deps[n] : ~(d.optional /\ IF d.to \in Defined(p) THEN d.to \notin active
                                        ELSE ~Enabled(p, n, {}))}],
   profiles |-> p.profiles, on |-> p.on]
Unnamed(k) == ActiveServices(k.project, {})
Active(k) == ActiveServices(k.project, k.named)
\* The project as the command reads it.
ProjectRead(k) == IF k.by = "up" THEN DropOptionalGatedDeps(k.project, Active(k)) ELSE k.project

-----------------------------------------------------------------------------
(* What is refused without a walk.                                         *)

UnknownDep(p, reads) == \E n \in reads : ~(DepNames(p, n) \subseteq Defined(p))

\* A required dependency of what is read without a name must be read without one.
GatedDep(p, active) ==
  \E n \in active : \E d \in p.deps[n] :
    /\ d.to \in Defined(p)
    /\ \/ d.to \notin active
       \/ Enabled(p, n, {}) /\ ~d.optional /\ d.to \notin ActiveServices(p, {})
\* checkProjectLoads, but for its cycles.
LoadFaults(q, active) ==
  {f \in {"unknown", "gated"} : IF f = "unknown" THEN UnknownDep(q, active) ELSE GatedDep(q, active)}

\* checkNamedDeps' queue: from the named ones along the dependencies that are
\* active; those read without a name are judged by what is read without one.
FollowedFrom(k) == ReachedFrom(k.project, Active(k), k.named)
FaultsOf(p, n, active) ==
  {IF d.to \in Defined(p) THEN "gated" ELSE "unknown" :
     d \in {d \in p.deps[n] : IF d.to \in Defined(p) THEN ~d.optional /\ d.to \notin active
                              ELSE ~d.optional \/ Enabled(p, n, {})}}
NamedFaults(k) ==
  LET unnamed == {n \in Defined(k.project) : Enabled(k.project, n, {})}
  IN (UNION {FaultsOf(k.project, n, Active(k)) : n \in FollowedFrom(k)})
       \cup (UNION {FaultsOf(k.project, n, Unnamed(k)) : n \in unnamed})

-----------------------------------------------------------------------------
(* The walks of a command, each over some services: "loads" and "named" of  *)
(* the checks, "reads" of the strict order, "places" which settles it, and  *)
(* "tolerates" of the tolerant one.                                        *)

StagesOf(k) ==
  CASE k.by = "up" -> <<"loads", "reads", "places">>
    [] k.by = "start" /\ k.named = {} -> <<"reads", "places">>
    [] k.by = "start" /\ k.named # {} -> <<"named", "reads", "places">>
    [] k.by = "stop" /\ k.named = {} -> <<"tolerates">>
    [] k.by = "stop" /\ k.named # {} -> <<"named">>
Places(stage) == stage \in {"places", "tolerates"}
ReadIn(k, stage) ==
  CASE stage = "loads" -> Active(k)
    [] stage \in {"named", "reads"} -> Unnamed(k)
    [] Places(stage) -> Defined(k.project)
StageFaults(k, stage) ==
  CASE stage = "loads" -> LoadFaults(ProjectRead(k), Active(k))
    [] stage = "named" -> NamedFaults(k)
    [] stage \in {"reads", "tolerates"} -> IF UnknownDep(ProjectRead(k), Unnamed(k)) THEN {"unknown"} ELSE {}
    [] stage = "places" -> {}

\* Mutation: the order goes back, as a cycle check does.
AheadInBack(k, w) ==
  (IF w.stack = <<>> THEN ReadIn(k, w.stage) ELSE DepNames(ProjectRead(k), Last(w.stack)) \cap ReadIn(k, w.stage))
    \ ToSet(w.order)
\* What the walk goes on to: from the service it is in to a dependency it is not
\* through with, from none to any it has not met.  A cycle check goes back to one it
\* is in, and so finds the cycle; the order does not follow that edge.
AheadIn(k, w) ==
  IF w.stack = <<>> THEN ReadIn(k, w.stage) \ ToSet(w.order)
  ELSE ((DepNames(ProjectRead(k), Last(w.stack)) \cap ReadIn(k, w.stage)) \ ToSet(w.order))
         \ (IF Places(w.stage) THEN ToSet(w.stack) ELSE {})
FirstNamed(S) ==
  Alphabet[CHOOSE i \in DOMAIN Alphabet : Alphabet[i] \in S /\ \A j \in DOMAIN Alphabet : Alphabet[j] \in S => i <= j]

Wanted(k) == ReachedFrom(ProjectRead(k), Defined(k.project), k.named)
\* Told of no service, `up` starts those the profiles leave active, the others all.
TakenBy(k) ==
  CASE k.named # {} -> IF k.by = "up" THEN Wanted(k) ELSE k.named
    [] k.named = {} /\ k.by = "up" -> {n \in Defined(k.project) : Enabled(k.project, n, {})}
    [] OTHER -> Defined(k.project)

\* On to the nth walk, unless what is asked before it is a fault, or it was the last.
GoesOn(n) ==
  IF n > Len(StagesOf(reading))
  THEN /\ reply' = [order |-> walk.order, taken |-> TakenBy(reading)]
       /\ UNCHANGED <<reading, walk>>
  ELSE LET faults == StageFaults(reading, StagesOf(reading)[n]) IN
       /\ \/ \E f \in faults : reply' = Refused(f) /\ UNCHANGED walk
          \/ /\ faults = {} /\ UNCHANGED reply
             /\ walk' = [nth |-> n, stage |-> StagesOf(reading)[n], stack |-> <<>>, order |-> <<>>]
       /\ UNCHANGED reading

BeginsToRead == reply = NoReply /\ walk.nth = 0 /\ GoesOn(1)
\* visit, of cycleAmong and of order.
Visits ==
  /\ reply = NoReply /\ walk.nth > 0 /\ AheadIn(reading, walk) # {}
  /\ LET n == FirstNamed(AheadIn(reading, walk)) IN
       IF n \in ToSet(walk.stack) THEN reply' = Refused("cycle") /\ UNCHANGED walk
       ELSE walk' = [walk EXCEPT !.stack = Append(@, n)] /\ UNCHANGED reply
  /\ UNCHANGED reading
\* A service is placed once all it depends on has been visited.
PlacesOne ==
  /\ reply = NoReply /\ walk.nth > 0 /\ AheadIn(reading, walk) = {} /\ walk.stack # <<>>
  /\ walk' = [walk EXCEPT !.stack = Front(@), !.order = Append(@, Last(walk.stack))]
  /\ UNCHANGED <<reading, reply>>
EndsWalk ==
  /\ reply = NoReply /\ walk.nth > 0 /\ AheadIn(reading, walk) = {} /\ walk.stack = <<>>
  /\ GoesOn(walk.nth + 1)

NoWalk == [nth |-> 0, stage |-> "none", stack |-> <<>>, order |-> <<>>]
OrderInit == reading \in OrderQuestions /\ walk = NoWalk /\ reply = NoReply
OrderNext == BeginsToRead \/ Visits \/ PlacesOne \/ EndsWalk
OrderSpec == OrderInit /\ [][OrderNext]_orderVars

-----------------------------------------------------------------------------
(* Properties, of a command and what it was told.                          *)

Below(p, reads, n) == ReachedFrom(p, reads, DepNames(p, n))
HasCycle(p, reads) == \E n \in reads : n \in Below(p, reads, n)
InPlace(order, n, d) == \E i, j \in DOMAIN order : order[i] = d /\ order[j] = n /\ i < j

\* `up` is refused over a dependency that is not there or not read, or a cycle
\* among what is read, and over nothing else.
UpRefuses(k) ==
  LET q == DropOptionalGatedDeps(k.project, Active(k))
  IN UnknownDep(q, Active(k)) \/ GatedDep(q, Active(k)) \/ HasCycle(q, Active(k))
UpRefusedForCauseOf(k, a) == k.by = "up" => (IsRefused(a) <=> UpRefuses(k))

\* What `up` starts is started after all it depends on, and each once: whatever
\* cycle runs through what it does not read ("each still lands after what it
\* needs").
UpStartsInOrderOf(k, a) ==
  k.by = "up" /\ ~IsRefused(a) =>
    /\ IsInjective(a.order) /\ k.named \subseteq a.taken
    /\ \A n \in a.taken : \A d \in DepNames(ProjectRead(k), n) : d \in a.taken /\ InPlace(a.order, n, d)

\* The order the rest walk, whatever cycles there are: every service once, and
\* after what it depends on wherever that is possible; `down` and `stop` of the
\* whole project are refused over no cycle.
OrderHoldsOf(k, a) ==
  /\ ~IsRefused(a) /\ Places(Last(StagesOf(k))) =>
       /\ IsInjective(a.order) /\ ToSet(a.order) = Defined(k.project)
       /\ \A n \in Defined(k.project) : \A d \in DepNames(ProjectRead(k), n) \cap Defined(k.project) :
            n \notin Below(ProjectRead(k), Defined(k.project), d) => InPlace(a.order, n, d)
  /\ k.by = "stop" /\ k.named = {} => (IsRefused(a) <=> UnknownDep(k.project, Unnamed(k)))

\* What `up` was given and took, `stop`, `kill`, `logs` and `start` take as well
\* ("`up web` ... starts db, but `stop web` afterwards refused").
OthersFollowUpOf(k, a) == IsRefused(a) => UpRefuses(k)

\* The order of every command is one it can act in, and refused for cause (the four
\* definitions above).
WalksAreInOrder ==
  reply # NoReply => /\ UpRefusedForCauseOf(reading, reply) /\ UpStartsInOrderOf(reading, reply)
                    /\ OrderHoldsOf(reading, reply) /\ OthersFollowUpOf(reading, reply)
=============================================================================
