------------------------- MODULE RestartSupervision -------------------------
(***************************************************************************)
(* The life of one restart supervisor: it polls the runtime and starts     *)
(* what its policy says to start (internal/orchestrator/supervise_run.go). *)
(* A poll visits the watched services one after another; a visit looks at  *)
(* the container, reads the stop marker and starts the container in three  *)
(* steps, between which anything may happen.                               *)
(*                                                                         *)
(* Containers, the runtime and `up` are the environment here; stop, start, *)
(* kill and restart are in ServiceCommands.                                *)
(***************************************************************************)
EXTENDS RestartPolicy

CONSTANTS
  Services, NoService,
  Policy,          \* the services' `restart:` policies
  OneShot,         \* services another waits on to run to their end
  EarlierStops,    \* services that may have a stop on record from before
  IdlePolls,       \* idlePollsBeforeExit
  MayVanish,       \* containers are removed, and their names taken, by others
  MayGoQuiet,      \* the runtime, or its answer about a container, may fail
  Elapsed,         \* how much time may pass from one poll to the next
  MaxSince,        \* times beyond this are not told apart
  MaxRestarts      \* nor are longer runs of restarts

ASSUME SupervisionAssumption ==
  /\ NoService \notin Services
  /\ Policy \in [Services -> Policies]
  /\ EarlierStops \subseteq Services
  /\ IdlePolls \in Nat \ {0}
  /\ MayVanish \in BOOLEAN /\ MayGoQuiet \in BOOLEAN
  /\ Elapsed \subseteq Nat
  /\ MaxSince \in Nat /\ MaxSince >= StableRun
  /\ \A i \in 1..Len(Backoff) : Backoff[i] <= MaxSince
  /\ MaxRestarts \in Nat /\ MaxRestarts >= Len(Backoff) - 1
  /\ \A s \in Services : Limit(Policy[s]) <= MaxRestarts

VARIABLES
  box,         \* the container under each service's name
  runtimeUp,   \* the runtime answers at all
  answers,     \* the services it would give a readable answer about
  marks,       \* stop markers on disk
  life,        \* asleep between polls, polling, or ended
  todo,        \* services this poll has yet to visit
  cur, at,     \* the visit under way and its next step
  memory,      \* what is remembered of each service
  found, unsure,      \* this poll: a container was there; one was not answered
  idle, unanswered,   \* watch: the two counts (unanswered modulo IdlePolls)
  \* History, read by the properties alone:
  stood,       \* services a user stopped, with nobody bringing them back since
  stoodSeen,   \* that of this visit was one at the look, and ever since
  tries,       \* starts tried in this supervisor's life
  lasting      \* services that had their container ever since the last poll

worldVars   == <<box, runtimeUp, answers>>
pollVars    == <<life, todo, cur, at, memory, found, unsure>>
countVars   == <<idle, unanswered>>
historyVars == <<stood, stoodSeen, tries, lasting>>
watchVars   == <<worldVars, marks, pollVars, countVars, historyVars>>

\* SupervisedServices: the policies that ask for anything, jobs left out.
Watched == {s \in Services \ OneShot : Wants(Policy[s])}

Boxes == {"absent", "running", "stopped", "foreign"}
Ours  == {"running", "stopped"}

WatchTypeOK ==
  /\ box \in [Services -> Boxes]
  /\ runtimeUp \in BOOLEAN
  /\ answers \subseteq Services
  /\ marks \subseteq Services
  /\ life \in {"asleep", "polling", "ended"}
  /\ todo \subseteq Watched
  /\ at \in {"look", "marker", "start"}
  /\ cur \in (IF at = "look" THEN {NoService} ELSE Watched)
  /\ memory \in [Services -> Memories]
  /\ \A s \in Services : memory[s].since <= MaxSince /\ memory[s].restarts <= MaxRestarts
  /\ found \in BOOLEAN /\ unsure \in BOOLEAN
  /\ idle \in 0..IdlePolls /\ unanswered \in 0..(IdlePolls - 1)
  /\ life # "ended" => idle < IdlePolls
  /\ stood \subseteq Services /\ stoodSeen \in BOOLEAN
  /\ tries \in [Services -> 0..(MaxRestarts + 1)]
  /\ lasting \subseteq Services

WatchInit ==
  /\ box \in [Services -> {"absent", "running"}]
  /\ runtimeUp = TRUE /\ answers = Services
  /\ marks \in SUBSET EarlierStops /\ stood = marks
  /\ life = "asleep" /\ todo = {} /\ cur = NoService /\ at = "look"
  /\ memory = [s \in Services |-> Fresh]
  /\ found = FALSE /\ unsure = FALSE /\ idle = 0 /\ unanswered = 0
  /\ stoodSeen = FALSE
  /\ tries = [s \in Services |-> 0]
  /\ lasting = {}

Min2(m, n) == IF m < n THEN m ELSE n
Capped(m) ==
  [restarts |-> Min2(m.restarts, MaxRestarts), since |-> Min2(m.since, MaxSince),
   gaveUp |-> m.gaveUp]

-----------------------------------------------------------------------------
(* A poll (superviseAt).                                                   *)

PollBegins ==
  /\ life = "asleep"
  /\ life' = "polling"
  /\ todo' = Watched
  /\ \E d \in Elapsed : memory' = [s \in Services |-> Capped(Aged(memory[s], d))]
  /\ UNCHANGED <<worldVars, marks, cur, at, found, unsure, countVars, historyVars>>

\* Inspect is asked about the next service, in no particular order.
Looks(s) ==
  /\ life = "polling" /\ at = "look" /\ s \in todo
  /\ todo' = todo \ {s}
  /\ UNCHANGED <<worldVars, marks, life, countVars, stood, tries, lasting>>

\* Mutation: no answer is taken for no container.
LookUnansweredAbsent(s) ==
  /\ Looks(s) /\ s \notin answers
  /\ UNCHANGED <<cur, at, memory, found, unsure, stoodSeen>>

LookUnanswered(s) ==
  /\ Looks(s) /\ s \notin answers
  /\ unsure' = TRUE
  /\ UNCHANGED <<cur, at, memory, found, stoodSeen>>

\* Mutation: another project's container keeps the watch going.
LookElsewhereFound(s) ==
  /\ Looks(s) /\ s \in answers /\ box[s] \notin Ours
  /\ found' = (found \/ box[s] = "foreign")
  /\ UNCHANGED <<cur, at, memory, unsure, stoodSeen>>

\* Nothing is there, or a container of another project, or of none.
LookElsewhere(s) ==
  /\ Looks(s) /\ s \in answers /\ box[s] \notin Ours
  /\ UNCHANGED <<cur, at, memory, found, unsure, stoodSeen>>

LookRunning(s) ==
  /\ Looks(s) /\ s \in answers /\ box[s] = "running"
  /\ found' = TRUE
  /\ memory' = [memory EXCEPT ![s] = ObserveRunning(Policy[s], @)]
  /\ UNCHANGED <<cur, at, unsure, stoodSeen>>

LookStopped(s) ==
  /\ Looks(s) /\ s \in answers /\ box[s] = "stopped"
  /\ found' = TRUE
  /\ cur' = s /\ at' = "marker"
  /\ stoodSeen' = (s \in stood)
  /\ UNCHANGED <<memory, unsure>>

\* The marker on disk is read, and the policy decides.
ReadMarker ==
  LET what == Decide(Policy[cur], memory[cur], cur \in marks)
      go   == what = "restartIt" /\ ~BackingOff(memory[cur])
  IN
  /\ life = "polling" /\ at = "marker"
  /\ at' = IF go THEN "start" ELSE "look"
  /\ cur' = IF go THEN cur ELSE NoService
  /\ memory' = IF what = "gaveUp" THEN [memory EXCEPT ![cur].gaveUp = TRUE] ELSE memory
  /\ UNCHANGED <<worldVars, marks, life, todo, found, unsure, countVars, historyVars>>

\* rt.Start, by name; it may fail, and is counted either way.
StartIt ==
  /\ life = "polling" /\ at = "start"
  /\ box' \in {box, IF box[cur] = "stopped" THEN [box EXCEPT ![cur] = "running"] ELSE box}
  /\ memory' = [memory EXCEPT ![cur] = Capped(Restarted(@))]
  /\ tries' = [tries EXCEPT ![cur] = Min2(@ + 1, MaxRestarts + 1)]
  /\ at' = "look" /\ cur' = NoService
  /\ UNCHANGED <<runtimeUp, answers, marks, life, todo, found, unsure, countVars,
                 stood, stoodSeen, lasting>>

IdleForLong(n) == n >= IdlePolls

\* watch.after: a poll that found a container resets the counts; one that
\* found none and was not answered about some asks, at every IdlePolls-th,
\* whether the runtime is up at all; one that found nothing is idle.
PollEnds ==
  /\ life = "polling" /\ at = "look" /\ todo = {}
  /\ \/ /\ found
        /\ idle' = 0 /\ unanswered' = 0
        /\ life' = "asleep"
     \/ /\ ~found /\ unsure
        /\ unanswered' = IF unanswered + 1 = IdlePolls THEN 0 ELSE unanswered + 1
        /\ life' = IF unanswered' = 0 /\ ~runtimeUp THEN "ended" ELSE "asleep"
        /\ UNCHANGED idle
     \/ /\ ~found /\ ~unsure
        /\ unanswered' = 0
        /\ idle' = idle + 1
        /\ life' = IF IdleForLong(idle') THEN "ended" ELSE "asleep"
  /\ found' = FALSE /\ unsure' = FALSE
  /\ lasting' = {s \in Services : life' = "asleep" /\ box[s] \in Ours}
  /\ memory' = [s \in Services |-> IF life' = "ended" THEN Fresh ELSE memory[s]]
  /\ UNCHANGED <<worldVars, marks, todo, cur, at, stood, stoodSeen, tries>>

\* SIGTERM is seen between polls; SIGKILL and a crash end it anywhere.  What it
\* remembers is its process's, and goes with it.
Killed ==
  /\ life # "ended"
  /\ life' = "ended"
  /\ todo' = {} /\ cur' = NoService /\ at' = "look"
  /\ found' = FALSE /\ unsure' = FALSE
  /\ memory' = [s \in Services |-> Fresh]
  /\ idle' = 0 /\ unanswered' = 0
  /\ lasting' = {} /\ stoodSeen' = FALSE
  /\ UNCHANGED <<worldVars, marks, stood, tries>>

Supervisor ==
  \/ PollBegins
  \/ \E s \in Watched :
       LookUnanswered(s) \/ LookElsewhere(s) \/ LookRunning(s) \/ LookStopped(s)
  \/ ReadMarker
  \/ StartIt
  \/ PollEnds

-----------------------------------------------------------------------------
(* The world around it.                                                    *)

Becomes(s, b) ==
  /\ box' = [box EXCEPT ![s] = b]
  /\ lasting' = IF b \in Ours THEN lasting ELSE lasting \ {s}
  /\ UNCHANGED <<runtimeUp, answers, pollVars, countVars, tries>>

\* A container exits, is removed by other means, or its name is another's.
Exits(s)   == box[s] = "running" /\ Becomes(s, "stopped") /\ UNCHANGED <<marks, stood, stoodSeen>>
Removed(s) == box[s] \in Ours /\ Becomes(s, "absent") /\ UNCHANGED <<marks, stood, stoodSeen>>
Taken(s)   == box[s] = "absent" /\ Becomes(s, "foreign") /\ UNCHANGED <<marks, stood, stoodSeen>>
LetGo(s)   == box[s] = "foreign" /\ Becomes(s, "absent") /\ UNCHANGED <<marks, stood, stoodSeen>>

\* `up` starts the service and, at its end, clears its stop marker.
BroughtUp(s) ==
  /\ box[s] # "foreign"
  /\ Becomes(s, "running")
  /\ marks' = marks \ {s}
  /\ stood' = stood \ {s} /\ stoodSeen' = (stoodSeen /\ cur # s)

\* The runtime stops or starts answering, wholly or about some containers.
Weather ==
  /\ MayGoQuiet
  /\ runtimeUp' \in BOOLEAN
  /\ answers' \in IF runtimeUp' THEN SUBSET Services ELSE {{}}
  /\ <<runtimeUp, answers>>' # <<runtimeUp, answers>>
  /\ UNCHANGED <<box, marks, pollVars, countVars, historyVars>>

Vanishes(s) == MayVanish /\ (Removed(s) \/ Taken(s) \/ LetGo(s))

World ==
  \/ \E s \in Services : Exits(s) \/ BroughtUp(s) \/ Vanishes(s)
  \/ Weather

WatchNext == Supervisor \/ Killed \/ World

WatchSpec == WatchInit /\ [][WatchNext]_watchVars

\* A poll is always taken to its end and another follows: the ticker ticks,
\* and every call to the runtime returns.
WatchFairSpec == WatchSpec /\ WF_watchVars(Supervisor)

-----------------------------------------------------------------------------
(* Properties.                                                             *)

\* The watch never ends of itself on a project that is there: an outage, or
\* containers the runtime would not answer about, are not "nothing left",
\* unless the runtime itself was found down (watch.after).
OutageIsNotAbsence ==
  [][PollEnds /\ life' = "ended" /\ runtimeUp => lasting \cap Watched = {}]_watchVars

\* A resident process with nothing to watch is what the idle bound exists to
\* prevent: where no container of the project is left, or the runtime stays
\* down, the watch ends.
WatchEnds ==
  \/ <>[](answers = Services /\ \A s \in Watched : box[s] \notin Ours)
  \/ <>[](~runtimeUp)
  => <>(life = "ended")

\* A service with `always` or `unless-stopped` that exits, with no stop on
\* record, is tried again, however often it has been before.
ExitIsRetried ==
  \A s \in Watched :
    Policy[s].mode # "on-failure" =>
      (box[s] = "stopped" ~>
         \/ at = "start" /\ cur = s
         \/ box[s] # "stopped" \/ s \in marks \/ s \notin answers \/ life = "ended")

\* No exit code tells a finished job from a failed one, so an `on-failure`
\* service is started no more than its limit in a supervisor's life, however
\* long each of its runs was.
OnFailureBounded ==
  \A s \in Watched : Policy[s].mode = "on-failure" => tries[s] <= Limit(Policy[s])
=============================================================================
