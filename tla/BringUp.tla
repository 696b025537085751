------------------------------- MODULE BringUp -------------------------------
(***************************************************************************)
(* `up` and its rollback (Up in internal/orchestrator/orchestrator.go),    *)
(* one call to the runtime at a time.  The project lock keeps the other    *)
(* commands away (ProjectLifecycle); containers still exit, a supervisor   *)
(* still starts them, and another hand may take a name or free it.         *)
(***************************************************************************)
EXTENDS Integers, Sequences, FiniteSets, SequencesExt

CONSTANTS
  Services,
  Order,        \* the services this `up` takes, dependencies first
  DependsOn,    \* the services each depends on
  Healthy,      \* of those, the ones it requires to be healthy first
  Completed,    \* and the ones it requires to have run to their end
  OneShot,      \* completedTargets: run to their end rather than started
  Supervised,   \* services whose `restart:` policy asks for anything
  Builds,       \* services with an image to build
  NetOrder,     \* the networks, in the order they are made
  NetsOf,       \* those each service joins
  Asks,         \* how `up` may be asked
  MayFail,      \* builds, preparations and runs may fail
  MayGoQuiet,   \* an inspect may go unanswered
  MayStick,     \* a delete may leave the container, or the network
  MayInterrupt, \* Ctrl-C
  Others,       \* names whose containers other hands make and remove
  Marked,       \* services with a stop on record
  NetsThere,    \* the networks there may be from before, a set of sets
  BoxesThere    \* and the containers under a service's name

Networks == ToSet(NetOrder)
Taken    == ToSet(Order)

\* startupOrder: each service once, and after what it depends on.
ASSUME OrderAssumption ==
  /\ Order \in Seq(Services)
  /\ \A i, j \in DOMAIN Order :
       i <= j => /\ Order[j] \notin DependsOn[Order[i]]
                 /\ Order[i] = Order[j] => i = j

ASSUME BringUpAssumption ==
  /\ NetOrder \in Seq(Networks)
  /\ DependsOn \in [Services -> SUBSET Services]
  /\ Healthy \in [Services -> SUBSET Services]
  /\ Completed \in [Services -> SUBSET OneShot]
  /\ \A s \in Services : Completed[s] \subseteq DependsOn[s]
  /\ OneShot \subseteq Services /\ Supervised \subseteq Services
  /\ Builds \subseteq Services
  /\ NetsOf \in [Services -> SUBSET Networks]
  /\ Asks \subseteq [detach : BOOLEAN, named : SUBSET Services, force : BOOLEAN]
  /\ {MayFail, MayGoQuiet, MayStick, MayInterrupt} \subseteq BOOLEAN
  /\ Others \subseteq Services /\ Marked \subseteq Services
  /\ NetsThere \subseteq SUBSET Networks
  /\ \A s \in Services :
       BoxesThere[s] \subseteq [by : {"before"}, runs : BOOLEAN, fits : BOOLEAN]

VARIABLES
  ask,
  box,          \* the container under each service's name
  nets, marks,  \* the networks there are; the stop markers on disk
  pc,           \* the next step
  todo,         \* the services the pass under way has yet to visit
  netsTodo,     \* the networks it has yet to make, or to remove
  waits,        \* dependencies it waits for to be healthy
  leftRunning,  \* foreground: dependencies found running
  existed,      \* existedBefore
  madeNets,     \* createdNets
  rebuilt, replaced,   \* of the service under way
  started,      \* the containers the rollback is to remove
  made,         \* createdSvc
  stays, kept,
  interrupted,  \* before the rollback began
  reported,     \* o.started: what is supervised from here
  \* History, read by the properties alone:
  netsBefore,   \* the networks there were
  well, ended,  \* dependencies found healthy; one-shots that ran to their end
  refused,      \* services whose name `up` was told is another's
  torn, stuck,  \* what the rollback removed, and tried to in vain
  netsStuck     \* the networks it tried to remove in vain

worldVars == <<box, nets, marks>>
loopVars  == <<waits, rebuilt, replaced, started, made, stays>>
preVars   == <<ask, leftRunning, existed, madeNets, netsBefore>>
backVars  == <<kept, reported, torn, stuck, netsStuck>>
seenVars  == <<well, ended, refused>>
vars == <<worldVars, pc, todo, netsTodo, loopVars, preVars, backVars, seenVars, interrupted>>

Box(by, runs, fits) == [by |-> by, runs |-> runs, fits |-> fits]
Nothing == Box("nobody", FALSE, FALSE)

\* Who made the container; whether it runs; and whether it is the one the file
\* describes, by the hash on its label.
Boxes ==
  {Nothing} \cup [by : {"before", "up", "other"}, runs : BOOLEAN, fits : BOOLEAN]

\* Of this project, by its label: the hash covers the label.
Ours(b) == b.by \in {"before", "up"} \/ b.fits

RollingBack == pc \in {"keep", "tear", "unmakeNets", "survive"}
Over        == pc \in {"up", "failed", "refused"}
InLoop      == pc \in {"head", "await", "build", "compare", "prepare", "before",
                       "delete", "run", "taken", "failedRun"}

TypeOK ==
  /\ ask \in Asks
  /\ box \in [Services -> Boxes]
  /\ nets \subseteq Networks /\ marks \subseteq Services
  /\ pc \in {"left", "owner", "nets", "clear", "keep", "tear", "unmakeNets", "survive"}
       \/ InLoop \/ Over
  /\ todo \in Seq(Taken) /\ netsTodo \in Seq(Networks)
  /\ pc \in {"await", "build", "compare", "prepare", "before", "delete", "run",
             "taken", "failedRun"} => todo # <<>>
  /\ waits \subseteq Services
  /\ leftRunning \subseteq Services /\ existed \subseteq Services
  /\ madeNets \subseteq Networks
  /\ rebuilt \in BOOLEAN /\ replaced \in BOOLEAN
  /\ started \subseteq Taken /\ made \subseteq started
  /\ stays \subseteq Services /\ kept \subseteq Services
  /\ interrupted \in BOOLEAN
  /\ reported \subseteq Services
  /\ netsBefore \subseteq Networks
  /\ well \subseteq Services /\ ended \subseteq OneShot /\ refused \subseteq Services
  /\ torn \subseteq Services /\ stuck \subseteq torn /\ netsStuck \subseteq madeNets

Init ==
  /\ ask \in Asks
  /\ box \in [Services -> Boxes] /\ \A s \in Services : box[s] \in {Nothing} \cup BoxesThere[s]
  /\ nets \in NetsThere /\ netsBefore = nets
  /\ marks = Marked
  /\ pc = "left" /\ todo = Order /\ netsTodo = <<>>
  /\ waits = {} /\ leftRunning = {} /\ existed = {} /\ madeNets = {}
  /\ rebuilt = FALSE /\ replaced = FALSE
  /\ started = {} /\ made = {} /\ stays = {} /\ kept = {}
  /\ interrupted = FALSE /\ reported = {}
  /\ well = {} /\ ended = {} /\ refused = {} /\ torn = {} /\ stuck = {}
  /\ netsStuck = {}

-----------------------------------------------------------------------------

On == Head(todo)
At(p) == pc = p /\ todo # <<>>
Passed(p) == pc = p /\ todo = <<>>

Goes(p)   == pc' = p /\ UNCHANGED todo
Visited   == pc' = pc /\ todo' = Tail(todo)
Begins(p) == pc' = p /\ todo' = Order
NextOne   == pc' = "head" /\ todo' = Tail(todo)

\* The error that runs the deferred rollback.
Fails == Begins("keep")

\* A call under a context that Ctrl-C cancelled does not come back with an
\* answer; the rollback has a context of its own.
Cancelled == interrupted /\ ~RollingBack

\* What an inspect may say of s.
Unknown == Box("unknown", FALSE, FALSE)
Looks(s) == {box[s]} \cup (IF MayGoQuiet \/ Cancelled THEN {Unknown} ELSE {})

There(look) == look \notin {Nothing, Unknown}
IsUp(look)  == There(look) /\ look.runs

-----------------------------------------------------------------------------
(* Before anything is touched.                                             *)

\* With services named, a foreground `up` asks which dependencies are running.
LeftRunning ==
  /\ At("left")
  /\ \E look \in Looks(On) :
       leftRunning' =
         IF ~ask.detach /\ ask.named # {} /\ ~ask.force /\ On \notin ask.named /\ IsUp(look)
         THEN leftRunning \cup {On} ELSE leftRunning
  /\ Visited
  /\ UNCHANGED <<worldVars, netsTodo, loopVars, ask, existed, madeNets, netsBefore, backVars,
                 seenVars, interrupted>>

\* A foreground `up` can attach to one service.
OneInFront ==
  ask.detach \/ Cardinality(Taken \ (OneShot \cup leftRunning)) <= 1

Counted ==
  /\ Passed("left")
  /\ IF OneInFront THEN Begins("owner") ELSE Goes("refused")
  /\ UNCHANGED <<worldVars, netsTodo, loopVars, preVars, backVars, seenVars, interrupted>>

\* ensureNotForeignInfo: every name is asked about, and refused where it is
\* another's or there is no answer.
AsksOwner ==
  /\ At("owner")
  /\ \E look \in Looks(On) :
       /\ existed' = IF There(look) THEN existed \cup {On} ELSE existed
       /\ IF look = Unknown \/ (There(look) /\ ~Ours(look)) THEN Goes("refused") ELSE Visited
  /\ UNCHANGED <<worldVars, netsTodo, loopVars, ask, leftRunning, madeNets, netsBefore, backVars,
                 seenVars, interrupted>>

TurnsToNets ==
  /\ Passed("owner")
  /\ Goes("nets") /\ netsTodo' = NetOrder
  /\ UNCHANGED <<worldVars, loopVars, preVars, backVars, seenVars, interrupted>>

\* ensureNetwork: made, or there already.
MakesNet ==
  /\ pc = "nets" /\ netsTodo # <<>> /\ ~Cancelled
  /\ LET n == Head(netsTodo) IN
       /\ nets' = nets \cup {n}
       /\ madeNets' = IF n \in nets THEN madeNets ELSE madeNets \cup {n}
  /\ netsTodo' = Tail(netsTodo)
  /\ UNCHANGED <<box, marks, pc, todo, loopVars, ask, leftRunning, existed, netsBefore, backVars,
                 seenVars, interrupted>>

\* It cannot be made, or is there and not as the file declares it: `up` returns,
\* and the rollback is not registered yet.
NetRefused ==
  /\ pc = "nets" /\ netsTodo # <<>> /\ (MayFail \/ Cancelled)
  /\ Goes("refused")
  /\ UNCHANGED <<worldVars, netsTodo, loopVars, preVars, backVars, seenVars, interrupted>>

EntersLoop ==
  /\ pc = "nets" /\ netsTodo = <<>>
  /\ Begins("head")
  /\ UNCHANGED <<worldVars, netsTodo, loopVars, preVars, backVars, seenVars, interrupted>>

-----------------------------------------------------------------------------
(* One service at a time.                                                  *)

Turn ==
  /\ At("head")
  /\ IF interrupted THEN Fails /\ UNCHANGED waits
                    ELSE Goes("await") /\ waits' = Healthy[On]
  /\ UNCHANGED <<worldVars, netsTodo, rebuilt, replaced, started, made, stays, preVars, backVars,
                 seenVars, interrupted>>

\* waitHealthy: a probe passes, or the retries are used up, or the container is
\* not running, or Ctrl-C.
FoundHealthy ==
  /\ pc = "await" /\ ~interrupted
  /\ \E d \in waits : box[d].runs /\ waits' = waits \ {d} /\ well' = well \cup {d}
  /\ UNCHANGED <<worldVars, pc, todo, netsTodo, rebuilt, replaced, started, made, stays, preVars,
                 backVars, ended, refused, interrupted>>

NotHealthy ==
  /\ pc = "await" /\ \E d \in waits : MayFail \/ interrupted \/ ~box[d].runs
  /\ Fails /\ waits' = {}
  /\ UNCHANGED <<worldVars, netsTodo, rebuilt, replaced, started, made, stays, preVars, backVars,
                 seenVars, interrupted>>

\* A step of the service under way that changes nothing but `pc`.
Onwards(from, to) ==
  /\ pc = from /\ Goes(to)
  /\ UNCHANGED <<worldVars, netsTodo, loopVars, preVars, backVars, seenVars, interrupted>>

Stumbles(from) ==
  /\ pc = from /\ (MayFail \/ interrupted) /\ Fails
  /\ UNCHANGED <<worldVars, netsTodo, loopVars, preVars, backVars, seenVars, interrupted>>

AllHealthy == waits = {} /\ Onwards("await", "build")

\* An image is built where it is missing or asked for.
BuildsImage ==
  /\ pc = "build"
  /\ rebuilt' \in (IF On \in Builds THEN BOOLEAN ELSE {FALSE})
  /\ Goes("compare")
  /\ UNCHANGED <<worldVars, netsTodo, waits, replaced, started, made, stays, preVars, backVars,
                 seenVars, interrupted>>
BuildFails == Stumbles("build") /\ On \in Builds

\* Foreground runs attach; the rest, and dependencies left running, do not.
Detached(s) == ask.detach \/ s \in leftRunning

\* Running as the file describes it, it is left alone.
IsUpToDate(s, look) ==
  Detached(s) /\ s \notin OneShot /\ ~ask.force /\ ~rebuilt /\ IsUp(look) /\ look.fits

Compares ==
  /\ pc = "compare"
  /\ \E look \in Looks(On) : IF IsUpToDate(On, look) THEN NextOne ELSE Goes("prepare")
  /\ UNCHANGED <<worldVars, netsTodo, loopVars, preVars, backVars, seenVars, interrupted>>

\* Bind directories, volumes to seed.
Prepares     == Onwards("prepare", "before")
PrepareFails == Stumbles("prepare")

LooksBefore ==
  /\ pc = "before"
  /\ \E look \in Looks(On) : replaced' = (look # Nothing)
  /\ Goes("delete")
  /\ UNCHANGED <<worldVars, netsTodo, waits, rebuilt, started, made, stays, preVars, backVars,
                 seenVars, interrupted>>

\* What is under the name goes, and the name goes on the rollback's lists before
\* the run, which may make a container and fail.
Replaces ==
  /\ pc = "delete"
  /\ box' \in {[box EXCEPT ![On] = Nothing]} \cup (IF MayStick \/ Cancelled THEN {box} ELSE {})
  /\ started' = started \cup {On} /\ made' = made \cup {On}
  /\ Goes("run")
  /\ UNCHANGED <<nets, marks, netsTodo, waits, rebuilt, replaced, stays, preVars, backVars,
                 seenVars, interrupted>>

\* The run comes back well: a one-shot or a foreground service has run to its
\* end, any other is up.
RunsWell ==
  /\ pc = "run" /\ ~interrupted /\ box[On] = Nothing
  /\ box' = [box EXCEPT ![On] = Box("up", Detached(On) /\ On \notin OneShot, TRUE)]
  /\ IF On \in OneShot
     THEN ended' = ended \cup {On} /\ UNCHANGED stays
     ELSE stays' = (IF On \in leftRunning THEN stays \cup {On} ELSE stays) /\ UNCHANGED ended
  /\ NextOne
  /\ UNCHANGED <<nets, marks, netsTodo, waits, rebuilt, replaced, started, made, preVars, backVars,
                 well, refused, interrupted>>

\* It fails, with a container made or without; Ctrl-C kills the client, whatever
\* the runtime had made of it.
RunFails ==
  /\ pc = "run" /\ (MayFail \/ interrupted) /\ box[On] = Nothing
  /\ box' \in {[box EXCEPT ![On] = b] :
                 b \in {Nothing, Box("up", FALSE, TRUE)}
                         \cup (IF interrupted THEN {Box("up", TRUE, TRUE)} ELSE {})}
  /\ IF interrupted THEN Fails ELSE Goes("failedRun")
  /\ UNCHANGED <<nets, marks, netsTodo, loopVars, preVars, backVars, seenVars, interrupted>>

\* Mutation: the container in the way stays on the rollback's list.
NameTakenListed ==
  /\ pc = "run" /\ ~interrupted /\ box[On] # Nothing
  /\ made' = made \ {On} /\ refused' = refused \cup {On}
  /\ IF On \in OneShot THEN Fails ELSE Goes("taken")
  /\ UNCHANGED <<worldVars, netsTodo, waits, rebuilt, replaced, started, stays, preVars, backVars,
                 well, ended, interrupted>>

\* RunRefusedNameTaken, and disownLast.
NameTaken ==
  /\ pc = "run" /\ ~interrupted /\ box[On] # Nothing
  /\ started' = started \ {On} /\ made' = made \ {On} /\ refused' = refused \cup {On}
  /\ IF On \in OneShot THEN Fails ELSE Goes("taken")
  /\ UNCHANGED <<worldVars, netsTodo, waits, rebuilt, replaced, stays, preVars, backVars,
                 well, ended, interrupted>>

\* The interruption is asked about first, and the refusal is not read.
NameTakenUnread ==
  /\ pc = "run" /\ interrupted /\ box[On] # Nothing
  /\ Fails
  /\ UNCHANGED <<worldVars, netsTodo, loopVars, preVars, backVars, seenVars, interrupted>>

\* It will do where it is the one the file describes, and up.
AcceptsTaken ==
  /\ pc = "taken"
  /\ \E look \in Looks(On) : IF IsUp(look) /\ look.fits THEN NextOne ELSE Fails
  /\ UNCHANGED <<worldVars, netsTodo, loopVars, preVars, backVars, seenVars, interrupted>>

\* Mutation: the one-shot's waiters are looked for among those already started.
AwaitedSoFar(s) == \E w \in made : s \in Completed[w]

\* completionWaiters: a service this `up` takes requires the one-shot.
Awaited(s) == \E w \in Taken : s \in Completed[w]

\* Mutation: a run that failed is taken to have made nothing.
AfterFailedRunForgets ==
  /\ pc = "failedRun"
  /\ made' = made \ {On} /\ started' = started \ {On}
  /\ IF On \in OneShot /\ ~Awaited(On) THEN NextOne ELSE Fails
  /\ UNCHANGED <<worldVars, netsTodo, waits, rebuilt, replaced, stays, preVars, backVars,
                 seenVars, interrupted>>

\* runMadeNothing; and a one-shot nobody this `up` takes requires is passed over.
AfterFailedRun ==
  /\ pc = "failedRun"
  /\ \E look \in Looks(On) :
       made' = IF look = Nothing /\ ~replaced THEN made \ {On} ELSE made
  /\ IF On \in OneShot /\ ~Awaited(On) THEN NextOne ELSE Fails
  /\ UNCHANGED <<worldVars, netsTodo, waits, rebuilt, replaced, started, stays, preVars, backVars,
                 seenVars, interrupted>>

-----------------------------------------------------------------------------
(* Every service is up.                                                    *)

BroughtUp ==
  /\ Passed("head")
  /\ reported' = Taken
  /\ Begins("clear")
  /\ UNCHANGED <<worldVars, netsTodo, loopVars, preVars, kept, torn, stuck, netsStuck, seenVars,
                 interrupted>>

\* ClearStopped; verifyStarted, which follows, only reports.
Clears ==
  /\ pc = "clear"
  /\ IF todo = <<>> THEN Goes("up") /\ UNCHANGED marks
                    ELSE Visited /\ marks' = marks \ {On}
  /\ UNCHANGED <<box, nets, netsTodo, loopVars, preVars, backVars, seenVars, interrupted>>

-----------------------------------------------------------------------------
(* The deferred rollback.                                                  *)

\* Mutation: what a service stands on is not asked about.
StandsOnAnything(s) == TRUE

\* None of its dependencies is about to be removed; a one-shot leaves nothing
\* to stand on.
StandsFirm(s) == \A d \in DependsOn[s] : d \notin made \/ d \in kept \/ d \in OneShot

\* What was there before, is to be kept up, and is up again.
MayKeep(s) ==
  ~interrupted /\ s \in made /\ s \in existed /\ s \notin stays /\ s \in Supervised /\ StandsFirm(s)

Keeps ==
  /\ At("keep")
  /\ \E look \in Looks(On) :
       IF MayKeep(On) /\ IsUp(look)
       THEN kept' = kept \cup {On} /\ marks' = marks \ {On}
       ELSE UNCHANGED <<kept, marks>>
  /\ Visited
  /\ UNCHANGED <<box, nets, netsTodo, loopVars, preVars, reported, torn, stuck, netsStuck,
                 seenVars, interrupted>>

TurnsToTear ==
  /\ Passed("keep")
  /\ pc' = "tear" /\ todo' = Reverse(Order)
  /\ UNCHANGED <<worldVars, netsTodo, loopVars, preVars, backVars, seenVars, interrupted>>

\* Stop and Delete, which say nothing of what came of them; last first.
Tears ==
  /\ At("tear") /\ Visited
  /\ IF On \in started \ (kept \cup stays)
     THEN /\ torn' = torn \cup {On}
          /\ \/ box' = [box EXCEPT ![On] = Nothing] /\ UNCHANGED stuck
             \/ /\ MayStick /\ box[On] # Nothing
                /\ box' \in {box, [box EXCEPT ![On].runs = FALSE]} /\ stuck' = stuck \cup {On}
     ELSE UNCHANGED <<box, torn, stuck>>
  /\ UNCHANGED <<nets, marks, netsTodo, loopVars, preVars, kept, reported, netsStuck, seenVars,
                 interrupted>>

TurnsToUnmakeNets ==
  /\ Passed("tear") /\ Goes("unmakeNets")
  /\ netsTodo' = NetOrder
  /\ UNCHANGED <<worldVars, loopVars, preVars, backVars, seenVars, interrupted>>

\* keptNets: the networks of what is left running.
KeptNets == UNION {NetsOf[s] : s \in kept \cup stays}

\* A container that may be attached, its service's or one in the way of it.
MayBeOn(n) == \E s \in Services : box[s] # Nothing /\ n \in NetsOf[s]

\* DeleteNetwork: the network goes, or the runtime will not remove it, with a
\* container on it or for reasons of its own.  A warning at most comes of that.
DeleteNetwork(n) ==
  \/ nets' = nets \ {n} /\ UNCHANGED netsStuck
  \/ (MayStick \/ MayBeOn(n)) /\ netsStuck' = netsStuck \cup {n} /\ UNCHANGED nets

UnmakesNet ==
  /\ pc = "unmakeNets" /\ netsTodo # <<>>
  /\ IF Head(netsTodo) \in madeNets \ KeptNets
     THEN DeleteNetwork(Head(netsTodo))
     ELSE UNCHANGED <<nets, netsStuck>>
  /\ netsTodo' = Tail(netsTodo)
  /\ UNCHANGED <<box, marks, pc, todo, loopVars, preVars, kept, reported, torn, stuck, seenVars,
                 interrupted>>

TurnsToSurvivors ==
  /\ pc = "unmakeNets" /\ netsTodo = <<>>
  /\ Begins("survive")
  /\ UNCHANGED <<worldVars, netsTodo, loopVars, preVars, backVars, seenVars, interrupted>>

\* Mutation: an unanswered look is no container.
SurvivesSeen(s, look) ==
  ~(s \in made /\ s \notin kept \cup stays) /\ There(look)

\* What is still there and was not to be removed; unanswered, what was there
\* at the start is taken to be.
Survives(s, look) ==
  /\ ~(s \in made /\ s \notin kept \cup stays)
  /\ There(look) \/ (look = Unknown /\ s \in existed)

FindsSurvivors ==
  /\ pc = "survive"
  /\ IF todo = <<>>
     THEN Goes("failed") /\ UNCHANGED reported
     ELSE /\ \E look \in Looks(On) :
               reported' = IF Survives(On, look) THEN reported \cup {On} ELSE reported
          /\ Visited
  /\ UNCHANGED <<worldVars, netsTodo, loopVars, preVars, kept, torn, stuck, netsStuck, seenVars,
                 interrupted>>

-----------------------------------------------------------------------------

Up ==
  \/ LeftRunning \/ Counted \/ AsksOwner \/ TurnsToNets \/ MakesNet \/ NetRefused \/ EntersLoop
  \/ Turn \/ FoundHealthy \/ NotHealthy \/ AllHealthy
  \/ BuildsImage \/ BuildFails \/ Compares \/ Prepares \/ PrepareFails
  \/ LooksBefore \/ Replaces \/ RunsWell \/ RunFails
  \/ NameTaken \/ NameTakenUnread \/ AcceptsTaken \/ AfterFailedRun
  \/ BroughtUp \/ Clears
  \/ Keeps \/ TurnsToTear \/ Tears \/ TurnsToUnmakeNets \/ UnmakesNet
  \/ TurnsToSurvivors \/ FindsSurvivors

\* Ctrl-C; once the rollback has begun a second one ends the process, which
\* nothing here speaks of.
CtrlC ==
  /\ MayInterrupt /\ ~interrupted /\ ~RollingBack /\ ~Over
  /\ interrupted' = TRUE
  /\ UNCHANGED <<worldVars, pc, todo, netsTodo, loopVars, preVars, backVars, seenVars>>

\* What becomes of containers meanwhile.
Becomes(s, b) ==
  /\ box' = [box EXCEPT ![s] = b]
  /\ UNCHANGED <<nets, marks, pc, todo, netsTodo, loopVars, preVars, backVars, seenVars, interrupted>>

Exits(s)    == box[s].runs /\ Becomes(s, [box[s] EXCEPT !.runs = FALSE])
Revives(s)  == s \in Supervised /\ box[s] # Nothing /\ ~box[s].runs
                 /\ Becomes(s, [box[s] EXCEPT !.runs = TRUE])
Intrudes(s) == s \in Others /\ box[s] = Nothing /\ \E fits \in BOOLEAN : Becomes(s, Box("other", TRUE, fits))
Removed(s)  == s \in Others /\ box[s] # Nothing /\ Becomes(s, Nothing)

World == ~Over /\ \E s \in Taken : Exits(s) \/ Revives(s) \/ Intrudes(s) \/ Removed(s)

Next == Up \/ CtrlC \/ World

Spec == Init /\ [][Next]_vars

-----------------------------------------------------------------------------
(* Properties.                                                             *)

\* "A failed up leaves no residue behind": after the rollback, a container this
\* `up` made is one it keeps on purpose or could not remove, and a network it
\* made is one of theirs or could not be removed either.  Those from before are
\* all there.
RollbackLeavesNothing ==
  pc = "failed" =>
    /\ \A s \in Services : box[s].by = "up" => s \in kept \cup stays \cup stuck
    /\ nets \ (netsBefore \cup KeptNets) \subseteq netsStuck
    /\ netsBefore \subseteq nets

\* What the rollback leaves running has what it needs: the networks it is on,
\* and no dependency taken from under it.
KeptIsWhole ==
  /\ RollingBack \/ Over => \A s \in kept \cup stays : NetsOf[s] \subseteq nets
  /\ \A s \in kept : DependsOn[s] \cap torn \subseteq OneShot

\* A container `up` was told is another's is not the rollback's to remove
\* (disownLast).
DisownedIsLeft == refused \cap torn = {}

\* What Up reports after a failure is what a supervisor may take over: nothing
\* it made that the rollback tried to remove, and everything of before that is still there,
\* whether the runtime answers or not; a stop on record stands unless its
\* service was brought back.
SupervisionHandedOn ==
  pc = "failed" =>
    /\ marks = Marked \ kept
    /\ \A s \in reported \cap torn : box[s].by # "up"
    /\ \A s \in (existed \cap Taken) \ torn : box[s].by \in {"before", "up"} => s \in reported

\* No service is run before what it requires: the dependencies it wants healthy
\* have passed a probe, the ones it wants completed, where this `up` takes them,
\* have run to their end.
DependenciesFirst ==
  [][RunsWell \/ RunFails =>
       Healthy[On] \subseteq well /\ Completed[On] \cap Taken \subseteq ended]_vars
=============================================================================
