--------------------------- MODULE ServiceCommands ---------------------------
(***************************************************************************)
(* `stop`, `start`, `kill` and `restart` beside a restart supervisor       *)
(* (internal/orchestrator/orchestrator.go, supervise_run.go).  None of     *)
(* them takes the project's lock: what keeps them and the supervisor apart *)
(* is the stop marker of each service, a file, and the restart marker, a   *)
(* lock held on another.  Every call to the runtime and every touch of a   *)
(* marker is a step.                                                       *)
(***************************************************************************)
EXTENDS RestartSupervision, SequencesExt

CONSTANTS
  Cmds, NoCmd,
  Ask,           \* what each was asked: a verb and services, as resolved
  StartupOrder,  \* every service, dependencies first
  NameOrder,     \* every service, in the order of their names
  DependsOn,     \* the services each depends on
  MayFail,       \* markers that cannot be written, starts and stops that fail
  MayCrash       \* commands may be interrupted

Verbs == {"stop", "start", "kill", "restart"}

ASSUME CommandAssumption ==
  /\ NoCmd \notin Cmds
  /\ Ask \in [Cmds -> [verb : Verbs, names : Seq(Services)]]
  /\ StartupOrder \in Seq(Services) /\ ToSet(StartupOrder) = Services
  /\ NameOrder \in Seq(Services) /\ ToSet(NameOrder) = Services
  /\ DependsOn \in [Services -> SUBSET Services]
  /\ MayFail \in BOOLEAN /\ MayCrash \in BOOLEAN

VARIABLES
  step,        \* the next step of each command
  left,        \* the services it has yet to take that step for
  mine,        \* restart: the project's own, as looked at
  notStarted,  \* start: what failed or was held back
  recorded,    \* kill: a stop was on record already
  holds,       \* who holds the restart marker of each service
  \* History:
  undone,      \* a stop or kill whose record was not written, or was cleared
               \* by a bring-back, before it had acted
  cut          \* services left with the record of a stop or kill that did not act:
               \* interrupted past it, or refused having found one before it

cmdVars == <<step, left, mine, notStarted, recorded, holds, undone, cut>>
allVars == <<watchVars, cmdVars>>

Steps == {"begin", "look", "note", "mark", "clear", "act", "undo",
          "lock", "clearAll", "stopAll", "startAll", "done"}

CommandTypeOK ==
  /\ WatchTypeOK
  /\ step \in [Cmds -> Steps]
  /\ left \in [Cmds -> Seq(Services)]
  /\ mine \in [Cmds -> Seq(Services)]
  /\ notStarted \in [Cmds -> SUBSET Services]
  /\ recorded \in [Cmds -> BOOLEAN]
  /\ holds \in [Services -> Cmds \cup {NoCmd}]
  /\ undone \subseteq Cmds /\ cut \subseteq Services

Init ==
  /\ WatchInit
  /\ step = [c \in Cmds |-> "begin"]
  /\ left = [c \in Cmds |-> <<>>] /\ mine = left
  /\ notStarted = [c \in Cmds |-> {}]
  /\ recorded = [c \in Cmds |-> FALSE]
  /\ holds = [s \in Services |-> NoCmd]
  /\ undone = {} /\ cut = {}

-----------------------------------------------------------------------------

On(c) == Head(left[c])

\* The services of a sequence, each once, in the order another has them in.
Place(order, s) == CHOOSE i \in DOMAIN order : order[i] = s
Sorted(order, q) ==
  \A i, j \in DOMAIN q : i < j => Place(order, q[i]) < Place(order, q[j])
InOrder(order, names) ==
  {q \in UNION {[1..n -> ToSet(names)] : n \in 0..Len(names)} :
     ToSet(q) = ToSet(names) /\ Sorted(order, q)}

\* worksOn: the container is there and this project's, by one look.
WorksOn(s) == s \in answers /\ box[s] \in Ours

Goes(c, at_) == step' = [step EXCEPT ![c] = at_]
Moves(c)     == left' = [left EXCEPT ![c] = Tail(@)]
At(c, at_)   == step[c] = at_ /\ left[c] # <<>>
Passed(c, at_) == step[c] = at_ /\ left[c] = <<>>

\* A stop or kill of s that is past its record and not done with s.
Recorded(c, s) ==
  /\ Ask[c].verb \in {"stop", "kill"}
  /\ step[c] \in {"act", "undo"} /\ On(c) = s

\* Those that have not acted.
Midway(s) == {c \in Cmds : Recorded(c, s) /\ step[c] = "act"}

\* What becomes of s's container; the supervisor's own state is not touched.
Turns(s, outcomes) ==
  /\ \E b \in outcomes : box' = [box EXCEPT ![s] = b]
  /\ UNCHANGED <<runtimeUp, answers>>

BoxStill == UNCHANGED worldVars
Supervising == UNCHANGED <<pollVars, countVars, tries, lasting>>
MarksStill == UNCHANGED <<marks, stood, stoodSeen, undone, cut>>

\* ClearStopped by a command that brings s back.
ClearStopped(s) ==
  /\ marks' = marks \ {s}
  /\ stood' = stood \ {s} /\ stoodSeen' = (stoodSeen /\ cur # s)
  /\ undone' = undone \cup Midway(s)
  /\ cut' = cut \ {s}

\* MarkStopped, and the step after it.
MarkStopped(c) ==
  /\ At(c, "mark")
  /\ \E ok \in (IF MayFail THEN BOOLEAN ELSE {TRUE}) :
       /\ marks' = IF ok THEN marks \cup {On(c)} ELSE marks
       /\ undone' = IF ok THEN undone ELSE undone \cup {c}
  /\ Goes(c, "act")
  /\ BoxStill /\ Supervising
  /\ UNCHANGED <<stood, stoodSeen, cut, left, mine, notStarted, recorded, holds>>

Begins(c) ==
  /\ step[c] = "begin"
  /\ Goes(c, "look")
  /\ \E q \in CASE Ask[c].verb \in {"stop", "kill"} -> {Reverse(Ask[c].names)}
               [] Ask[c].verb = "start" -> InOrder(StartupOrder, Ask[c].names)
               [] OTHER -> {Ask[c].names} :
       left' = [left EXCEPT ![c] = q]
  /\ BoxStill /\ MarksStill /\ Supervising
  /\ UNCHANGED <<mine, notStarted, recorded, holds>>

\* The look stop and kill take at each service in turn.
LooksAt(c, verb, next) ==
  /\ Ask[c].verb = verb /\ At(c, "look")
  /\ IF WorksOn(On(c)) THEN Goes(c, next) /\ UNCHANGED left
                       ELSE Moves(c) /\ UNCHANGED step
  /\ BoxStill /\ MarksStill /\ Supervising
  /\ UNCHANGED <<mine, notStarted, recorded, holds>>

\* The service is dealt with: a stop or kill of it stands from here on, unless
\* it was undone on the way.
Stands(c) ==
  /\ stood' = IF c \in undone THEN stood ELSE stood \cup {On(c)}
  /\ undone' = undone \ {c}

HasStopped(b) == IF b = "running" THEN "stopped" ELSE b
HasStarted(b) == IF b = "stopped" THEN "running" ELSE b

\* The outcomes of a stop or start by name: it may fail, which `stop` and the
\* stops of `restart` do not ask about.
Outcomes(before, after) == IF MayFail THEN {before, after} ELSE {after}

-----------------------------------------------------------------------------
(* stop                                                                    *)

StopLooks(c) == LooksAt(c, "stop", "mark")

StopActs(c) ==
  /\ Ask[c].verb = "stop" /\ At(c, "act")
  /\ Turns(On(c), Outcomes(box[On(c)], HasStopped(box[On(c)])))
  /\ Stands(c)
  /\ Goes(c, "look") /\ Moves(c)
  /\ UNCHANGED <<marks, stoodSeen, cut>> /\ Supervising
  /\ UNCHANGED <<mine, notStarted, recorded, holds>>

(* kill                                                                    *)

KillLooks(c) == LooksAt(c, "kill", "note")

KillNotes(c) ==
  /\ At(c, "note")
  /\ recorded' = [recorded EXCEPT ![c] = On(c) \in marks]
  /\ Goes(c, "mark")
  /\ BoxStill /\ MarksStill /\ Supervising
  /\ UNCHANGED <<left, mine, notStarted, holds>>

\* The signal is taken, and ends the container or does not.
KillActs(c) ==
  /\ Ask[c].verb = "kill" /\ At(c, "act")
  /\ box[On(c)] = "running"
  /\ Turns(On(c), {"running", "stopped"})
  /\ Stands(c)
  /\ Goes(c, "look") /\ Moves(c)
  /\ UNCHANGED <<marks, stoodSeen, cut>> /\ Supervising
  /\ UNCHANGED <<mine, notStarted, recorded, holds>>

\* Mutation: a refused kill leaves its record.
KillRefusedKeeps(c) ==
  /\ Ask[c].verb = "kill" /\ At(c, "act")
  /\ undone' = undone \ {c}
  /\ Goes(c, "look") /\ Moves(c)
  /\ BoxStill /\ Supervising
  /\ UNCHANGED <<marks, stood, stoodSeen, cut, mine, notStarted, recorded, holds>>

\* A signal the runtime refuses, or a container that is not running.
KillRefused(c) ==
  /\ Ask[c].verb = "kill" /\ At(c, "act")
  /\ undone' = undone \ {c}
  /\ IF recorded[c] THEN Goes(c, "look") /\ Moves(c) /\ cut' = cut \cup {On(c)}
                    ELSE Goes(c, "undo") /\ UNCHANGED <<left, cut>>
  /\ BoxStill /\ Supervising
  /\ UNCHANGED <<marks, stood, stoodSeen, mine, notStarted, recorded, holds>>

\* The record this kill wrote is taken back.
KillUndoes(c) ==
  /\ At(c, "undo")
  /\ marks' = marks \ {On(c)}
  /\ Goes(c, "look") /\ Moves(c)
  /\ BoxStill /\ Supervising
  /\ UNCHANGED <<stood, stoodSeen, undone, cut, mine, notStarted, recorded, holds>>

-----------------------------------------------------------------------------
(* start                                                                   *)

HeldBack(c) == DependsOn[On(c)] \cap notStarted[c] # {}

StartHoldsBack(c) ==
  /\ Ask[c].verb = "start" /\ At(c, "look") /\ HeldBack(c)
  /\ notStarted' = [notStarted EXCEPT ![c] = @ \cup {On(c)}]
  /\ Moves(c)
  /\ BoxStill /\ MarksStill /\ Supervising
  /\ UNCHANGED <<step, mine, recorded, holds>>

StartLooks(c) == LooksAt(c, "start", "clear") /\ ~HeldBack(c)

StartClears(c) ==
  /\ At(c, "clear")
  /\ ClearStopped(On(c))
  /\ Goes(c, "act")
  /\ BoxStill /\ Supervising
  /\ UNCHANGED <<left, mine, notStarted, recorded, holds>>

\* A container that is gone by now cannot be started.
StartActs(c) ==
  /\ Ask[c].verb = "start" /\ At(c, "act")
  /\ \E failed \in (IF box[On(c)] = "absent" THEN {TRUE}
                    ELSE IF MayFail THEN BOOLEAN ELSE {FALSE}) :
       /\ Turns(On(c), {IF failed THEN box[On(c)] ELSE HasStarted(box[On(c)])})
       /\ notStarted' = IF failed THEN [notStarted EXCEPT ![c] = @ \cup {On(c)}]
                                  ELSE notStarted
  /\ Goes(c, "look") /\ Moves(c)
  /\ MarksStill /\ Supervising
  /\ UNCHANGED <<mine, recorded, holds>>

-----------------------------------------------------------------------------
(* restart: one look at all, then the marks, and only then the work.       *)

RestartLooks(c) ==
  /\ Ask[c].verb = "restart" /\ At(c, "look")
  /\ mine' = IF WorksOn(On(c)) THEN [mine EXCEPT ![c] = Append(@, On(c))] ELSE mine
  /\ Moves(c)
  /\ BoxStill /\ MarksStill /\ Supervising
  /\ UNCHANGED <<step, notStarted, recorded, holds>>

\* The next pass over a restart's services, in the order that pass takes them.
Pass(c, from, to, order) ==
  /\ Passed(c, from)
  /\ Goes(c, to) /\ left' = [left EXCEPT ![c] = order]
  /\ BoxStill /\ MarksStill /\ Supervising
  /\ UNCHANGED <<mine, notStarted, recorded, holds>>

\* Mutation: the marks are taken in the order the services were asked for.
RestartTakesMarksAsAsked(c) ==
  Ask[c].verb = "restart" /\ Pass(c, "look", "lock", mine[c])

\* markRestartingAll: in the order of their names.
RestartTakesMarks(c) ==
  /\ Ask[c].verb = "restart"
  /\ \E q \in InOrder(NameOrder, mine[c]) : Pass(c, "look", "lock", q)

\* markRestarting waits for the lock.
RestartLocks(c) ==
  /\ At(c, "lock")
  /\ holds[On(c)] = NoCmd /\ holds' = [holds EXCEPT ![On(c)] = c]
  /\ Moves(c)
  /\ BoxStill /\ MarksStill /\ Supervising
  /\ UNCHANGED <<step, mine, notStarted, recorded>>

\* A mark whose file cannot be opened is gone without; waiting never fails.
RestartGoesWithout(c) ==
  /\ MayFail /\ At(c, "lock")
  /\ Moves(c)
  /\ BoxStill /\ MarksStill /\ Supervising
  /\ UNCHANGED <<step, mine, notStarted, recorded, holds>>

RestartTurnsToClear(c) == Pass(c, "lock", "clearAll", mine[c])

RestartClears(c) ==
  /\ At(c, "clearAll")
  /\ ClearStopped(On(c))
  /\ Moves(c)
  /\ BoxStill /\ Supervising
  /\ UNCHANGED <<step, mine, notStarted, recorded, holds>>

RestartTurnsToStop(c) == Pass(c, "clearAll", "stopAll", Reverse(mine[c]))

RestartStops(c) ==
  /\ At(c, "stopAll")
  /\ Turns(On(c), Outcomes(box[On(c)], HasStopped(box[On(c)])))
  /\ Moves(c)
  /\ MarksStill /\ Supervising
  /\ UNCHANGED <<step, mine, notStarted, recorded, holds>>

RestartTurnsToStart(c) == Pass(c, "stopAll", "startAll", mine[c])

RestartStarts(c) ==
  /\ At(c, "startAll")
  /\ Turns(On(c), Outcomes(box[On(c)], HasStarted(box[On(c)])))
  /\ Moves(c)
  /\ MarksStill /\ Supervising
  /\ UNCHANGED <<step, mine, notStarted, recorded, holds>>

-----------------------------------------------------------------------------

Released(c) == [s \in Services |-> IF holds[s] = c THEN NoCmd ELSE holds[s]]

\* A command that is over keeps nothing of its process.
Over(c) ==
  /\ Goes(c, "done")
  /\ left' = [left EXCEPT ![c] = <<>>]
  /\ mine' = [mine EXCEPT ![c] = <<>>]
  /\ notStarted' = [notStarted EXCEPT ![c] = {}]
  /\ recorded' = [recorded EXCEPT ![c] = FALSE]
  /\ holds' = Released(c)
  /\ undone' = undone \ {c}
  /\ UNCHANGED <<marks, stood, stoodSeen>> /\ BoxStill /\ Supervising

Ends(c) ==
  /\ Passed(c, IF Ask[c].verb = "restart" THEN "startAll" ELSE "look")
  /\ Over(c)
  /\ UNCHANGED cut

\* Mutation: an interrupted restart leaves its marks held.
CrashesHolding(c) ==
  /\ MayCrash /\ step[c] \notin {"begin", "done"}
  /\ Goes(c, "done") /\ left' = [left EXCEPT ![c] = <<>>]
  /\ cut' = cut \cup {s \in Services : Recorded(c, s)}
  /\ BoxStill /\ Supervising
  /\ UNCHANGED <<marks, stood, stoodSeen, mine, notStarted, recorded, holds, undone>>

\* Interrupted anywhere; the locks go with the process, the markers stay.
Crashes(c) ==
  /\ MayCrash /\ step[c] \notin {"begin", "done"}
  /\ Over(c)
  /\ cut' = cut \cup {s \in Services : Recorded(c, s)}

Command(c) ==
  \/ Begins(c) \/ MarkStopped(c) \/ Ends(c)
  \/ StopLooks(c) \/ StopActs(c)
  \/ KillLooks(c) \/ KillNotes(c) \/ KillActs(c) \/ KillRefused(c) \/ KillUndoes(c)
  \/ StartHoldsBack(c) \/ StartLooks(c) \/ StartClears(c) \/ StartActs(c)
  \/ RestartLooks(c) \/ RestartTakesMarks(c) \/ RestartLocks(c)
  \/ RestartTurnsToClear(c) \/ RestartClears(c) \/ RestartTurnsToStop(c)
  \/ RestartStops(c) \/ RestartTurnsToStart(c) \/ RestartStarts(c)

\* An `up` that clears a marker undoes the stops under way, as `start` does.
Around ==
  \/ \E s \in Services :
       BroughtUp(s) /\ undone' = undone \cup Midway(s) /\ cut' = cut \ {s}
  \/ (\E s \in Services : Exits(s) \/ Vanishes(s)) /\ UNCHANGED <<undone, cut>>
  \/ Weather /\ UNCHANGED <<undone, cut>>

Next ==
  \/ \E c \in Cmds : Command(c) \/ RestartGoesWithout(c) \/ Crashes(c)
  \/ (Supervisor \/ (MayCrash /\ Killed)) /\ UNCHANGED cmdVars
  \/ Around /\ UNCHANGED <<step, left, mine, notStarted, recorded, holds>>

Spec == Init /\ [][Next]_allVars

\* A restart that was asked for takes its next step: the runtime's calls return,
\* and a mark that is free is taken.  It owes nobody the failure that would let
\* it go without a mark that is held.
Restarts == {c \in Cmds : Ask[c].verb = "restart"}
FairSpec == Spec /\ \A c \in Restarts : WF_allVars(Command(c))

-----------------------------------------------------------------------------
(* Properties.                                                             *)

\* No kill shares a service with a stop or another kill.
KillsApart ==
  \A c, d \in Cmds :
    c # d /\ Ask[c].verb = "kill" /\ Ask[d].verb \in {"stop", "kill"} =>
      ToSet(Ask[c].names) \cap ToSet(Ask[d].names) = {}

\* A service a user stopped before the supervisor looked at it is not started
\* by the supervisor, whatever was asked since, until a command brings it back
\* (decide: "A stop the user asked for wins"), provided KillsApart: a kill that
\* is refused takes away a record it may not have written.
StopStands == [][StartIt => ~(stoodSeen /\ cur \in stood)]_allVars

\* A marker silences the supervisor for good: one is on disk only for a stop
\* or kill that stands, that is under way, or that was cut short or refused
\* past a record it had found (Kill: a refused kill "leaves no record it did
\* not find").
MarksAreMeant ==
  \A s \in marks : s \in stood \cup cut \/ \E c \in Cmds : Recorded(c, s)

\* Restarts wait for one another's marks, never in a circle (and never for
\* their own): markRestartingAll takes them in one order.
Waits(c, d) == At(c, "lock") /\ holds[On(c)] = d
NoCircle ==
  \A group \in (SUBSET Restarts) \ {{}} :
    \E c \in group : \A d \in group : ~Waits(c, d)

\* Every restart ends, whoever asked for what and whoever was interrupted
\* holding marks: the locks go with the process (markRestarting).
RestartsEnd == \A c \in Restarts : <>(step[c] = "done")
=============================================================================
