----------------------- MODULE ServiceCommandsProofs -----------------------
(***************************************************************************)
(* What holds of a restart supervisor, for any services, policies, waits   *)
(* and bounds: the limit of `on-failure`, and that an outage never ends    *)
(* the watch of a project that is there; and of `stop`, `start`, `kill`    *)
(* and `restart` beside one, for any commands and services, whatever fails *)
(* and whoever is interrupted.                                             *)
(***************************************************************************)
EXTENDS ServiceCommands, WellFoundedInduction, TLAPS

-----------------------------------------------------------------------------
(* The pure decisions keep what is remembered well formed.                 *)

Remembered == {m \in Memories : m.since <= MaxSince /\ m.restarts <= MaxRestarts}

LEMMA Bounds ==
  /\ IdlePolls \in Nat \ {0} /\ MaxRestarts \in Nat /\ MaxSince \in Nat
  /\ NoService \notin Services /\ EarlierStops \subseteq Services
  /\ Policy \in [Services -> Policies]
BY SupervisionAssumption

LEMMA FreshRemembered == Fresh \in Remembered
BY Bounds DEF Fresh, Remembered, Memories

LEMMA AgedRemembered ==
  ASSUME NEW m \in Memories, NEW d \in Nat
  PROVE  /\ Capped(Aged(m, d)) \in Remembered
         /\ Capped(Aged(m, d)).restarts <= m.restarts
         /\ m.restarts <= MaxRestarts => Capped(Aged(m, d)).restarts = m.restarts
BY Bounds DEF Capped, Aged, Min2, Remembered, Memories

LEMMA RestartedRemembered ==
  ASSUME NEW m \in Memories
  PROVE  /\ Capped(Restarted(m)) \in Remembered
         /\ m.restarts < MaxRestarts => Capped(Restarted(m)).restarts = m.restarts + 1
BY Bounds DEF Capped, Restarted, Min2, Remembered, Memories

LEMMA ObservedRemembered ==
  ASSUME NEW m \in Remembered, NEW p \in Policies
  PROVE  /\ ObserveRunning(p, m) \in Remembered
         /\ p.mode = "on-failure" => ObserveRunning(p, m) = m
BY Bounds DEF ObserveRunning, Remembered, Memories, Policies

LEMMA LimitIsNumber ==
  ASSUME NEW p \in Policies
  PROVE  Limit(p) \in Nat
BY PolicyAssumption DEF Limit, Policies

(* Types, restated with Remembered.                                        *)

Typed ==
  /\ WatchTypeOK
  /\ memory \in [Services -> Remembered]

LEMMA TypedIsTypeOK == WatchTypeOK => Typed
BY DEF WatchTypeOK, Typed, Remembered

LEMMA WatchTypeInit == WatchInit => WatchTypeOK
<1> SUFFICES ASSUME WatchInit PROVE WatchTypeOK
  OBVIOUS
<1>1. memory \in [Services -> Remembered]
  BY FreshRemembered DEF WatchInit
<1>2. /\ idle \in 0..IdlePolls /\ idle < IdlePolls /\ unanswered \in 0..(IdlePolls - 1)
      /\ tries \in [Services -> 0..(MaxRestarts + 1)]
  BY Bounds DEF WatchInit
<1>3. box \in [Services -> Boxes]
  BY DEF WatchInit, Boxes
<1> QED
  BY <1>1, <1>2, <1>3, Bounds DEF WatchInit, WatchTypeOK, Remembered

LEMMA WatchTypeStep == WatchTypeOK /\ [WatchNext]_watchVars => WatchTypeOK'
<1> SUFFICES ASSUME WatchTypeOK, [WatchNext]_watchVars PROVE WatchTypeOK'
  OBVIOUS
<1>0. memory \in [Services -> Remembered]
  BY TypedIsTypeOK DEF Typed
<1>m. ASSUME memory' \in [Services -> Remembered]
      PROVE  /\ memory' \in [Services -> Memories]
             /\ \A s \in Services : memory'[s].since <= MaxSince /\ memory'[s].restarts <= MaxRestarts
  BY <1>m DEF Remembered
<1>w. Watched \subseteq Services /\ NoService \notin Services
  BY Bounds DEF Watched
<1>1. CASE PollBegins
  <2>1. memory' \in [Services -> Remembered]
    BY <1>1, <1>0, AgedRemembered, SupervisionAssumption DEF PollBegins, Remembered
  <2> QED
    BY <2>1, <1>1, <1>m DEF PollBegins, WatchTypeOK, worldVars, countVars, historyVars
<1>2. ASSUME NEW s \in Watched, LookUnanswered(s) PROVE WatchTypeOK'
  BY <1>2 DEF LookUnanswered, Looks, WatchTypeOK, worldVars, countVars
<1>3. ASSUME NEW s \in Watched, LookElsewhere(s) PROVE WatchTypeOK'
  BY <1>3 DEF LookElsewhere, Looks, WatchTypeOK, worldVars, countVars
<1>4. ASSUME NEW s \in Watched, LookRunning(s) PROVE WatchTypeOK'
  <2>1. memory' \in [Services -> Remembered]
    BY <1>4, <1>0, <1>w, ObservedRemembered, Bounds DEF LookRunning
  <2> QED
    BY <2>1, <1>4, <1>m DEF LookRunning, Looks, WatchTypeOK, worldVars, countVars
<1>5. ASSUME NEW s \in Watched, LookStopped(s) PROVE WatchTypeOK'
  BY <1>5 DEF LookStopped, Looks, WatchTypeOK, worldVars, countVars
<1>6. CASE ReadMarker
  <2>1. cur \in Watched
    BY <1>6 DEF ReadMarker, WatchTypeOK
  <2>2. [memory[cur] EXCEPT !.gaveUp = TRUE] \in Remembered
    BY <2>1, <1>0, <1>w DEF Remembered, Memories
  <2>3. memory' \in [Services -> Remembered]
    BY <2>2, <2>1, <1>0, <1>w, <1>6 DEF ReadMarker
  <2> QED
    BY <2>1, <2>3, <1>6, <1>m DEF ReadMarker, WatchTypeOK, worldVars, countVars, historyVars
<1>7. CASE StartIt
  <2>1. cur \in Watched
    BY <1>7 DEF StartIt, WatchTypeOK
  <2>2. memory' \in [Services -> Remembered]
    BY <2>1, <1>0, <1>w, <1>7, RestartedRemembered DEF StartIt, Remembered
  <2>3. tries' \in [Services -> 0..(MaxRestarts + 1)]
    BY <2>1, <1>w, <1>7, Bounds DEF StartIt, WatchTypeOK, Min2
  <2>4. box' \in [Services -> Boxes]
    BY <2>1, <1>w, <1>7 DEF StartIt, WatchTypeOK, Boxes
  <2> QED
    BY <2>2, <2>3, <2>4, <1>7, <1>m DEF StartIt, WatchTypeOK, countVars
<1>8. CASE PollEnds
  <2>1. memory' \in [Services -> Remembered]
    BY <1>8, <1>0, FreshRemembered DEF PollEnds
  <2>2. /\ idle' \in 0..IdlePolls /\ unanswered' \in 0..(IdlePolls - 1)
        /\ life' # "ended" => idle' < IdlePolls
    BY <1>8, Bounds DEF PollEnds, WatchTypeOK, IdleForLong
  <2> QED
    BY <2>1, <2>2, <1>8, <1>m DEF PollEnds, WatchTypeOK, worldVars
<1>9. CASE Killed
  <2>1. memory' \in [Services -> Remembered]
    BY <1>9, FreshRemembered DEF Killed
  <2>2. idle' \in 0..IdlePolls /\ unanswered' \in 0..(IdlePolls - 1)
    BY <1>9, Bounds DEF Killed
  <2> QED
    BY <2>1, <2>2, <1>9, <1>m DEF Killed, WatchTypeOK, worldVars
<1>10. ASSUME NEW s \in Services, Exits(s) \/ Removed(s) \/ Taken(s) \/ LetGo(s) \/ BroughtUp(s)
       PROVE  WatchTypeOK'
  BY <1>10, ZenonT(60) DEF Exits, Removed, Taken, LetGo, BroughtUp, Becomes, WatchTypeOK, Boxes,
               pollVars, countVars
<1>11. CASE Weather
  BY <1>11 DEF Weather, WatchTypeOK, pollVars, countVars, historyVars
<1>12. CASE UNCHANGED watchVars
  BY <1>12 DEF WatchTypeOK, watchVars, worldVars, pollVars, countVars, historyVars
<1> QED
  BY <1>1, <1>2, <1>3, <1>4, <1>5, <1>6, <1>7, <1>8, <1>9, <1>10, <1>11, <1>12
     DEF WatchNext, Supervisor, World, Vanishes

\* Type correctness of a supervisor and what it watches.
THEOREM WatchTypeCorrect == WatchSpec => []WatchTypeOK
BY WatchTypeInit, WatchTypeStep, PTL DEF WatchSpec

-----------------------------------------------------------------------------
(* The limit of `on-failure`.                                              *)

\* While the supervisor lives it remembers at least as many restarts as it has
\* tried, because nothing it does to an `on-failure` service lowers the count;
\* and it starts one only below the limit.
Counted(s) ==
  Policy[s].mode = "on-failure" =>
    /\ tries[s] <= Limit(Policy[s])
    /\ life # "ended" =>
         /\ tries[s] <= memory[s].restarts
         /\ memory[s].restarts <= Limit(Policy[s])
         /\ at = "start" /\ cur = s => memory[s].restarts < Limit(Policy[s])

RetriesCounted == \A s \in Watched : Counted(s)

LEMMA WatchedServices == Watched \subseteq Services
BY DEF Watched

LEMMA LimitBounded ==
  ASSUME NEW s \in Services
  PROVE  Limit(Policy[s]) \in Nat /\ Limit(Policy[s]) <= MaxRestarts
BY LimitIsNumber, Bounds, SupervisionAssumption

LEMMA RetriesInit == WatchInit => RetriesCounted
BY LimitBounded, WatchedServices DEF WatchInit, RetriesCounted, Counted, Fresh

\* A step after which every count, and the service being started if any, is as
\* before keeps the counts right.
LEMMA SameCounts ==
  ASSUME RetriesCounted, UNCHANGED tries, life' # "ended" => life # "ended",
         \A s \in Watched : Policy[s].mode = "on-failure" /\ life' # "ended" =>
            memory'[s].restarts = memory[s].restarts,
         at' = "start" => at = "start" /\ cur' = cur
  PROVE  RetriesCounted'
BY DEF RetriesCounted, Counted

LEMMA RetriesStep ==
  WatchTypeOK /\ RetriesCounted /\ [WatchNext]_watchVars => RetriesCounted'
<1> SUFFICES ASSUME WatchTypeOK, RetriesCounted, [WatchNext]_watchVars
             PROVE  RetriesCounted'
  OBVIOUS
<1>0. memory \in [Services -> Remembered] /\ memory \in [Services -> Memories]
  BY TypedIsTypeOK DEF Typed, WatchTypeOK
<1>1. CASE PollBegins
  <2>1. \A s \in Watched : memory'[s].restarts = memory[s].restarts
    BY <1>1, <1>0, AgedRemembered, SupervisionAssumption, WatchedServices
       DEF PollBegins, Remembered
  <2> QED
    BY <2>1, <1>1, SameCounts DEF PollBegins, historyVars
<1>2. ASSUME NEW s \in Watched, LookUnanswered(s) \/ LookElsewhere(s) PROVE RetriesCounted'
  BY <1>2, SameCounts DEF LookUnanswered, LookElsewhere, Looks
<1>3. ASSUME NEW s \in Watched, LookRunning(s) PROVE RetriesCounted'
  <2>1. \A t \in Watched : Policy[t].mode = "on-failure" =>
            memory'[t].restarts = memory[t].restarts
    BY <1>3, <1>0, ObservedRemembered, Bounds, WatchedServices DEF LookRunning
  <2> QED
    BY <2>1, <1>3, SameCounts DEF LookRunning, Looks
<1>4. ASSUME NEW s \in Watched, LookStopped(s) PROVE RetriesCounted'
  BY <1>4, SameCounts DEF LookStopped, Looks
<1>5. CASE ReadMarker
  <2>1. cur \in Watched /\ life = "polling" /\ life' = "polling" /\ UNCHANGED tries
    BY <1>5 DEF ReadMarker, WatchTypeOK, historyVars
  <2>2. \A s \in Watched : memory'[s].restarts = memory[s].restarts
    <3>1. \A s \in Watched : memory'[s] = memory[s] \/
             memory'[s] = [memory[s] EXCEPT !.gaveUp = TRUE]
      BY <1>5, <1>0, <2>1, WatchedServices DEF ReadMarker
    <3> QED
      BY <3>1, <1>0, WatchedServices DEF Memories
  <2>3. ASSUME at' = "start"
        PROVE  cur' = cur /\ ~OutOfRetries(Policy[cur], memory[cur])
    BY <2>3, <1>5 DEF ReadMarker, Decide
  <2>4. ASSUME NEW s \in Watched PROVE Counted(s)'
    <3>1. ASSUME at' = "start", cur' = s, Policy[s].mode = "on-failure"
          PROVE  memory[s].restarts < Limit(Policy[s])
      BY <3>1, <2>3, <1>0, LimitBounded, WatchedServices DEF OutOfRetries, Memories
    <3> QED
      BY <3>1, <2>1, <2>2, RetriesCounted DEF RetriesCounted, Counted
  <2> QED
    BY <2>4 DEF RetriesCounted
<1>6. CASE StartIt
  <2>1. cur \in Watched /\ life = "polling" /\ life' = "polling" /\ at = "start" /\ at' = "look"
    BY <1>6 DEF StartIt, WatchTypeOK
  <2>2. ASSUME NEW s \in Watched PROVE Counted(s)'
    <3>1. CASE s # cur
      <4>1. memory'[s] = memory[s] /\ tries'[s] = tries[s]
        BY <3>1, <1>6, <1>0, WatchedServices DEF StartIt, WatchTypeOK
      <4> QED
        BY <4>1, <2>1 DEF RetriesCounted, Counted
    <3>2. CASE s = cur /\ Policy[s].mode = "on-failure"
      <4>1. /\ memory[s].restarts < Limit(Policy[s]) /\ tries[s] <= memory[s].restarts
            /\ Limit(Policy[s]) \in Nat /\ Limit(Policy[s]) <= MaxRestarts
        BY <3>2, <2>1, LimitBounded, WatchedServices DEF RetriesCounted, Counted
      <4>2. memory'[s] = Capped(Restarted(memory[s]))
        BY <3>2, <1>6, <1>0, WatchedServices DEF StartIt
      <4>3. memory'[s].restarts = memory[s].restarts + 1
        BY <4>1, <4>2, <1>0, RestartedRemembered, Bounds, WatchedServices DEF Memories
      <4>4. tries'[s] <= tries[s] + 1 /\ tries[s] \in Nat /\ tries'[s] \in Nat
        BY <3>2, <1>6, Bounds, WatchedServices DEF StartIt, WatchTypeOK, Min2
      <4> QED
        BY <4>1, <4>3, <4>4, <2>1, <1>0, WatchedServices DEF Counted, Memories
    <3> QED
      BY <3>1, <3>2 DEF Counted
  <2> QED
    BY <2>2 DEF RetriesCounted
<1>7. CASE PollEnds
  <2>1. \A s \in Watched : life' # "ended" => memory'[s] = memory[s]
    BY <1>7, WatchedServices DEF PollEnds
  <2> QED
    BY <2>1, <1>7, SameCounts DEF PollEnds
<1>8. CASE Killed
  BY <1>8, SameCounts DEF Killed
<1>9. ASSUME NEW s \in Services, Exits(s) \/ Removed(s) \/ Taken(s) \/ LetGo(s) \/ BroughtUp(s)
      PROVE  RetriesCounted'
  BY <1>9, SameCounts DEF Exits, Removed, Taken, LetGo, BroughtUp, Becomes, pollVars
<1>10. CASE Weather
  BY <1>10, SameCounts DEF Weather, pollVars, historyVars
<1>11. CASE UNCHANGED watchVars
  BY <1>11, SameCounts DEF watchVars, pollVars, historyVars
<1> QED
  BY <1>1, <1>2, <1>3, <1>4, <1>5, <1>6, <1>7, <1>8, <1>9, <1>10, <1>11
     DEF WatchNext, Supervisor, World, Vanishes

\* An `on-failure` service is started no more often than its limit, however
\* long its runs, for any policies and waits (decide, observeRunning).
THEOREM OnFailureIsBounded == WatchSpec => []OnFailureBounded
<1>1. RetriesCounted => OnFailureBounded
  BY DEF RetriesCounted, Counted, OnFailureBounded
<1> QED
  BY <1>1, RetriesInit, RetriesStep, WatchTypeCorrect, PTL DEF WatchSpec

-----------------------------------------------------------------------------
(* An outage is not an absence.                                            *)

\* A service that has had its container ever since the last poll still has it,
\* and a poll that has visited it found it or was not answered about it.
Accounted ==
  /\ \A s \in lasting : box[s] \in Ours
  /\ life = "polling" => \A s \in lasting \cap Watched : s \in todo \/ found \/ unsure

LEMMA AccountedInit == WatchInit => Accounted
BY DEF WatchInit, Accounted

LEMMA AccountedStep == WatchTypeOK /\ Accounted /\ [WatchNext]_watchVars => Accounted'
<1> SUFFICES ASSUME WatchTypeOK, Accounted, [WatchNext]_watchVars PROVE Accounted'
  OBVIOUS
<1>1. CASE PollBegins
  BY <1>1 DEF PollBegins, Accounted, worldVars, historyVars
<1>2. ASSUME NEW s \in Watched, LookUnanswered(s) PROVE Accounted'
  BY <1>2 DEF LookUnanswered, Looks, Accounted, worldVars
<1>3. ASSUME NEW s \in Watched, LookElsewhere(s) PROVE Accounted'
  BY <1>3 DEF LookElsewhere, Looks, Accounted, worldVars
<1>4. ASSUME NEW s \in Watched, LookRunning(s) \/ LookStopped(s) PROVE Accounted'
  BY <1>4 DEF LookRunning, LookStopped, Looks, Accounted, worldVars
<1>5. CASE ReadMarker
  BY <1>5 DEF ReadMarker, Accounted, worldVars, historyVars
<1>6. CASE StartIt
  <2>1. cur \in Watched
    BY <1>6 DEF StartIt, WatchTypeOK
  <2>2. \A s \in Services : box[s] \in Ours => box'[s] \in Ours
    BY <2>1, <1>6, WatchedServices DEF StartIt, Ours, WatchTypeOK
  <2> QED
    BY <2>2, <1>6 DEF StartIt, Accounted, WatchTypeOK
<1>7. CASE PollEnds
  BY <1>7 DEF PollEnds, Accounted, worldVars
<1>8. CASE Killed
  BY <1>8 DEF Killed, Accounted
<1>9. ASSUME NEW s \in Services, Exits(s) \/ Removed(s) \/ Taken(s) \/ LetGo(s) \/ BroughtUp(s)
      PROVE  Accounted'
  BY <1>9 DEF Exits, Removed, Taken, LetGo, BroughtUp, Becomes, Accounted, Ours,
              WatchTypeOK, pollVars
<1>10. CASE Weather
  BY <1>10 DEF Weather, Accounted, pollVars, historyVars
<1>11. CASE UNCHANGED watchVars
  BY <1>11 DEF Accounted, watchVars, worldVars, pollVars, historyVars
<1> QED
  BY <1>1, <1>2, <1>3, <1>4, <1>5, <1>6, <1>7, <1>8, <1>9, <1>10, <1>11
     DEF WatchNext, Supervisor, World, Vanishes

\* The watch never ends of itself while the runtime is up and a watched service
\* has had its container since the last poll (watch.after).
THEOREM OutageKeepsWatch == WatchSpec => OutageIsNotAbsence
<1>1. Accounted /\ [WatchNext]_watchVars =>
        [PollEnds /\ life' = "ended" /\ runtimeUp => lasting \cap Watched = {}]_watchVars
  <2> SUFFICES ASSUME Accounted, PollEnds, life' = "ended", runtimeUp
               PROVE  lasting \cap Watched = {}
    OBVIOUS
  <2> QED
    BY DEF Accounted, PollEnds
<1> QED
  BY <1>1, AccountedInit, AccountedStep, WatchTypeCorrect, PTL DEF WatchSpec, OutageIsNotAbsence

-----------------------------------------------------------------------------
(* Sequences of services.                                                  *)

LEMMA HeadAndTail ==
  ASSUME NEW q \in Seq(Services), q # <<>>
  PROVE  /\ Head(q) \in Services /\ Tail(q) \in Seq(Services)
         /\ 1 \in DOMAIN q /\ Head(q) = q[1]
         /\ \A i \in DOMAIN Tail(q) : i + 1 \in DOMAIN q /\ Tail(q)[i] = q[i + 1]
OBVIOUS

LEMMA ReverseTyped ==
  ASSUME NEW q \in Seq(Services)
  PROVE  Reverse(q) \in Seq(Services)
BY DEF Reverse

LEMMA InOrderTyped ==
  ASSUME NEW order, NEW names \in Seq(Services), NEW q \in InOrder(order, names)
  PROVE  q \in Seq(Services) /\ Sorted(order, q)
<1>1. PICK n \in 0..Len(names) : q \in [1..n -> ToSet(names)]
  BY DEF InOrder
<1>2. ToSet(names) \subseteq Services
  BY DEF ToSet
<1>3. n \in Nat
  OBVIOUS
<1> QED
  BY <1>1, <1>2, <1>3 DEF InOrder

\* A service's place in an order that has it is one of that order's.
LEMMA PlaceIsThere ==
  ASSUME NEW order \in Seq(Services), ToSet(order) = Services, NEW s \in Services
  PROVE  Place(order, s) \in 1..Len(order) /\ order[Place(order, s)] = s
BY DEF Place, ToSet

-----------------------------------------------------------------------------
(* Types.                                                                  *)

LEMMA CommandConstants ==
  /\ NoCmd \notin Cmds
  /\ Ask \in [Cmds -> [verb : Verbs, names : Seq(Services)]]
BY CommandAssumption

\* The part of the types that the commands add.
CommandsTyped ==
  /\ step \in [Cmds -> Steps]
  /\ left \in [Cmds -> Seq(Services)]
  /\ mine \in [Cmds -> Seq(Services)]
  /\ notStarted \in [Cmds -> SUBSET Services]
  /\ recorded \in [Cmds -> BOOLEAN]
  /\ holds \in [Services -> Cmds \cup {NoCmd}]
  /\ undone \subseteq Cmds /\ cut \subseteq Services

\* What the commands touch of the supervisor's world.
LEMMA WatchTypeKept ==
  ASSUME WatchTypeOK, Supervising, UNCHANGED <<runtimeUp, answers>>,
         box' \in [Services -> Boxes], marks' \subseteq Services,
         stood' \subseteq Services, stoodSeen' \in BOOLEAN
  PROVE  WatchTypeOK'
BY DEF WatchTypeOK, Supervising, pollVars, countVars

LEMMA OnIsAService ==
  ASSUME CommandsTyped, NEW c \in Cmds, left[c] # <<>>
  PROVE  On(c) \in Services
BY HeadAndTail DEF On, CommandsTyped

\* A command goes from one step to another, and on to its next service.
LEMMA GoesTyped ==
  ASSUME CommandsTyped, NEW c \in Cmds, NEW to \in Steps, Goes(c, to)
  PROVE  step' \in [Cmds -> Steps]
BY DEF Goes, CommandsTyped

LEMMA MovesTyped ==
  ASSUME CommandsTyped, NEW c \in Cmds, left[c] # <<>>, Moves(c)
  PROVE  left' \in [Cmds -> Seq(Services)]
BY HeadAndTail DEF Moves, CommandsTyped

LEMMA TurnsTyped ==
  ASSUME WatchTypeOK, NEW s \in Services, NEW outcomes, outcomes \subseteq Boxes,
         Turns(s, outcomes)
  PROVE  box' \in [Services -> Boxes] /\ UNCHANGED <<runtimeUp, answers>>
BY DEF Turns, WatchTypeOK

LEMMA OutcomesAreBoxes ==
  ASSUME NEW b \in Boxes
  PROVE  /\ Outcomes(b, HasStopped(b)) \subseteq Boxes
         /\ Outcomes(b, HasStarted(b)) \subseteq Boxes
         /\ HasStarted(b) \in Boxes
BY DEF Outcomes, HasStopped, HasStarted, Boxes

LEMMA StillTyped ==
  ASSUME WatchTypeOK, BoxStill, MarksStill, Supervising
  PROVE  WatchTypeOK'
BY WatchTypeKept DEF BoxStill, MarksStill, worldVars, WatchTypeOK

LEMMA ClearTyped ==
  ASSUME WatchTypeOK, CommandsTyped, NEW s \in Services, ClearStopped(s), BoxStill, Supervising
  PROVE  WatchTypeOK' /\ undone' \subseteq Cmds /\ cut' \subseteq Services
<1>1. box' \in [Services -> Boxes] /\ UNCHANGED <<runtimeUp, answers>>
  BY DEF BoxStill, worldVars, WatchTypeOK
<1>2. marks' \subseteq Services /\ stood' \subseteq Services /\ stoodSeen' \in BOOLEAN
  BY DEF ClearStopped, WatchTypeOK
<1> QED
  BY <1>1, <1>2, WatchTypeKept DEF ClearStopped, CommandsTyped, Midway

LEMMA StandsTyped ==
  ASSUME WatchTypeOK, CommandsTyped, NEW c \in Cmds, left[c] # <<>>, Stands(c)
  PROVE  stood' \subseteq Services /\ undone' \subseteq Cmds
BY OnIsAService DEF Stands, CommandsTyped, WatchTypeOK

LEMMA CommandTypeInit == Init => CommandTypeOK
BY WatchTypeInit DEF Init, CommandTypeOK, Steps

LEMMA BeginsTypes ==
  ASSUME CommandTypeOK, NEW c \in Cmds, Begins(c)
  PROVE  CommandTypeOK'
<1>1. Ask[c].names \in Seq(Services)
  BY CommandConstants
<1>2. left' \in [Cmds -> Seq(Services)]
  BY <1>1, ReverseTyped, InOrderTyped DEF Begins, CommandTypeOK
<1> QED
  BY <1>2, GoesTyped, StillTyped
     DEF Begins, CommandTypeOK, CommandsTyped, Steps, MarksStill

LEMMA LooksTypes ==
  ASSUME CommandTypeOK, NEW c \in Cmds, NEW verb, NEW to \in Steps, LooksAt(c, verb, to)
  PROVE  CommandTypeOK'
<1>1. step' \in [Cmds -> Steps] /\ left' \in [Cmds -> Seq(Services)]
  BY GoesTyped, MovesTyped DEF LooksAt, At, CommandTypeOK, CommandsTyped
<1> QED
  BY <1>1, StillTyped DEF LooksAt, CommandTypeOK, CommandsTyped, MarksStill

LEMMA StopAndKillTypes ==
  ASSUME CommandTypeOK, NEW c \in Cmds,
         MarkStopped(c) \/ StopActs(c) \/ KillNotes(c) \/ KillActs(c) \/ KillRefused(c)
         \/ KillUndoes(c)
  PROVE  CommandTypeOK'
<1> USE DEF At, CommandTypeOK, CommandsTyped
<1>1. CASE MarkStopped(c)
  <2>1. On(c) \in Services
    BY <1>1, OnIsAService DEF MarkStopped
  <2>2. marks' \subseteq Services /\ undone' \subseteq Cmds
    BY <1>1, <2>1 DEF MarkStopped, WatchTypeOK
  <2>3. WatchTypeOK'
    BY <1>1, <2>2, WatchTypeKept DEF MarkStopped, BoxStill, worldVars, WatchTypeOK
  <2> QED
    BY <1>1, <2>2, <2>3, GoesTyped DEF MarkStopped, Steps
<1>2. CASE StopActs(c)
  <2>1. On(c) \in Services /\ box[On(c)] \in Boxes
    BY <1>2, OnIsAService DEF StopActs, WatchTypeOK
  <2>2. box' \in [Services -> Boxes] /\ UNCHANGED <<runtimeUp, answers>>
    BY <1>2, <2>1, TurnsTyped, OutcomesAreBoxes DEF StopActs
  <2>3. stood' \subseteq Services /\ undone' \subseteq Cmds
    BY <1>2, StandsTyped DEF StopActs
  <2>4. WatchTypeOK'
    BY <1>2, <2>2, <2>3, WatchTypeKept DEF StopActs, WatchTypeOK
  <2> QED
    BY <1>2, <2>3, <2>4, GoesTyped, MovesTyped DEF StopActs, Steps
<1>3. CASE KillNotes(c)
  <2>1. recorded' \in [Cmds -> BOOLEAN]
    BY <1>3 DEF KillNotes, CommandsTyped
  <2> QED
    BY <1>3, <2>1, StillTyped, GoesTyped DEF KillNotes, Steps, MarksStill
<1>4. CASE KillActs(c)
  <2>1. On(c) \in Services
    BY <1>4, OnIsAService DEF KillActs
  <2>2. box' \in [Services -> Boxes] /\ UNCHANGED <<runtimeUp, answers>>
    BY <1>4, <2>1, TurnsTyped DEF KillActs, Boxes
  <2>3. stood' \subseteq Services /\ undone' \subseteq Cmds
    BY <1>4, StandsTyped DEF KillActs
  <2>4. WatchTypeOK'
    BY <1>4, <2>2, <2>3, WatchTypeKept DEF KillActs, WatchTypeOK
  <2> QED
    BY <1>4, <2>3, <2>4, GoesTyped, MovesTyped, Zenon DEF KillActs, Steps
<1>5. CASE KillRefused(c)
  <2>1. On(c) \in Services
    BY <1>5, OnIsAService DEF KillRefused
  <2>2. /\ step' \in [Cmds -> Steps] /\ left' \in [Cmds -> Seq(Services)]
        /\ cut' \subseteq Services /\ undone' \subseteq Cmds
    BY <1>5, <2>1, GoesTyped, MovesTyped DEF KillRefused, Steps
  <2>3. WatchTypeOK'
    BY <1>5, WatchTypeKept DEF KillRefused, BoxStill, worldVars, WatchTypeOK
  <2> QED
    BY <1>5, <2>2, <2>3 DEF KillRefused
<1>6. CASE KillUndoes(c)
  <2>1. WatchTypeOK'
    BY <1>6, WatchTypeKept DEF KillUndoes, BoxStill, worldVars, WatchTypeOK
  <2> QED
    BY <1>6, <2>1, GoesTyped, MovesTyped DEF KillUndoes, Steps
<1> QED
  BY <1>1, <1>2, <1>3, <1>4, <1>5, <1>6

LEMMA StartTypes ==
  ASSUME CommandTypeOK, NEW c \in Cmds,
         StartHoldsBack(c) \/ StartClears(c) \/ StartActs(c)
  PROVE  CommandTypeOK'
<1> USE DEF At, CommandTypeOK, CommandsTyped
<1>1. CASE StartHoldsBack(c)
  <2>1. On(c) \in Services
    BY <1>1, OnIsAService DEF StartHoldsBack
  <2>2. notStarted' \in [Cmds -> SUBSET Services]
    BY <1>1, <2>1 DEF StartHoldsBack
  <2> QED
    BY <1>1, <2>2, StillTyped, MovesTyped DEF StartHoldsBack, MarksStill
<1>2. CASE StartClears(c)
  <2>1. On(c) \in Services
    BY <1>2, OnIsAService DEF StartClears
  <2>2. WatchTypeOK' /\ undone' \subseteq Cmds /\ cut' \subseteq Services
    BY <1>2, <2>1, ClearTyped DEF StartClears
  <2> QED
    BY <1>2, <2>2, GoesTyped DEF StartClears, Steps
<1>3. CASE StartActs(c)
  <2>1. On(c) \in Services /\ box[On(c)] \in Boxes
    BY <1>3, OnIsAService DEF StartActs, WatchTypeOK
  <2>2. PICK failed \in BOOLEAN :
          /\ Turns(On(c), {IF failed THEN box[On(c)] ELSE HasStarted(box[On(c)])})
          /\ notStarted' = IF failed THEN [notStarted EXCEPT ![c] = @ \cup {On(c)}]
                                     ELSE notStarted
    BY <1>3 DEF StartActs
  <2>3. box' \in [Services -> Boxes] /\ UNCHANGED <<runtimeUp, answers>>
    BY <2>1, <2>2, TurnsTyped, OutcomesAreBoxes
  <2>4. notStarted' \in [Cmds -> SUBSET Services]
    BY <2>1, <2>2
  <2>5. WatchTypeOK'
    BY <1>3, <2>3, WatchTypeKept DEF StartActs, MarksStill, WatchTypeOK
  <2> QED
    BY <1>3, <2>4, <2>5, GoesTyped, MovesTyped, Zenon DEF StartActs, MarksStill, Steps
<1> QED
  BY <1>1, <1>2, <1>3

LEMMA PassTypes ==
  ASSUME CommandTypeOK, NEW c \in Cmds, NEW from, NEW to \in Steps,
         NEW q \in Seq(Services), Pass(c, from, to, q)
  PROVE  CommandTypeOK'
<1> USE DEF CommandTypeOK, CommandsTyped
<1>1. left' \in [Cmds -> Seq(Services)]
  BY DEF Pass
<1> QED
  BY <1>1, GoesTyped, StillTyped DEF Pass, MarksStill

LEMMA RestartTypes ==
  ASSUME CommandTypeOK, NEW c \in Cmds,
         \/ RestartLooks(c) \/ RestartTakesMarks(c) \/ RestartLocks(c) \/ RestartGoesWithout(c)
         \/ RestartTurnsToClear(c) \/ RestartClears(c) \/ RestartTurnsToStop(c)
         \/ RestartStops(c) \/ RestartTurnsToStart(c) \/ RestartStarts(c)
  PROVE  CommandTypeOK'
<1>0. mine[c] \in Seq(Services)
  BY DEF CommandTypeOK
<1>1. CASE RestartTakesMarks(c)
  BY <1>0, <1>1, InOrderTyped, PassTypes DEF RestartTakesMarks, Steps
<1>2. CASE RestartTurnsToClear(c) \/ RestartTurnsToStop(c) \/ RestartTurnsToStart(c)
  BY <1>0, <1>2, ReverseTyped, PassTypes
     DEF RestartTurnsToClear, RestartTurnsToStop, RestartTurnsToStart, Steps
<1> USE DEF At, CommandTypeOK, CommandsTyped
<1>3. CASE RestartLooks(c)
  <2>1. mine' \in [Cmds -> Seq(Services)]
    BY <1>3, OnIsAService DEF RestartLooks
  <2> QED
    BY <1>3, <2>1, StillTyped, MovesTyped DEF RestartLooks, MarksStill
<1>4. CASE RestartLocks(c)
  <2>1. holds' \in [Services -> Cmds \cup {NoCmd}]
    BY <1>4 DEF RestartLocks
  <2> QED
    BY <1>4, <2>1, StillTyped, MovesTyped DEF RestartLocks, MarksStill
<1>5. CASE RestartGoesWithout(c)
  BY <1>5, StillTyped, MovesTyped DEF RestartGoesWithout, MarksStill
<1>6. CASE RestartClears(c)
  <2>1. WatchTypeOK' /\ undone' \subseteq Cmds /\ cut' \subseteq Services
    BY <1>6, OnIsAService, ClearTyped DEF RestartClears
  <2> QED
    BY <1>6, <2>1, MovesTyped DEF RestartClears
<1>7. CASE RestartStops(c) \/ RestartStarts(c)
  <2>1. On(c) \in Services /\ box[On(c)] \in Boxes
    BY <1>7, OnIsAService DEF RestartStops, RestartStarts, WatchTypeOK
  <2>2. box' \in [Services -> Boxes] /\ UNCHANGED <<runtimeUp, answers>>
    BY <1>7, <2>1, TurnsTyped, OutcomesAreBoxes DEF RestartStops, RestartStarts
  <2>3. WatchTypeOK'
    BY <1>7, <2>2, WatchTypeKept DEF RestartStops, RestartStarts, MarksStill, WatchTypeOK
  <2> QED
    BY <1>7, <2>3, MovesTyped DEF RestartStops, RestartStarts, MarksStill
<1> QED
  BY <1>1, <1>2, <1>3, <1>4, <1>5, <1>6, <1>7

LEMMA OverTypes ==
  ASSUME CommandTypeOK, NEW c \in Cmds, Over(c), cut' \subseteq Services
  PROVE  CommandTypeOK'
<1> USE DEF CommandTypeOK, CommandsTyped
<1>1. /\ left' \in [Cmds -> Seq(Services)] /\ mine' \in [Cmds -> Seq(Services)]
      /\ notStarted' \in [Cmds -> SUBSET Services] /\ recorded' \in [Cmds -> BOOLEAN]
  BY DEF Over
<1>2. holds' \in [Services -> Cmds \cup {NoCmd}]
  BY DEF Over, Released
<1>3. WatchTypeOK'
  BY WatchTypeKept DEF Over, BoxStill, worldVars, WatchTypeOK
<1> QED
  BY <1>1, <1>2, <1>3, GoesTyped DEF Over, Steps

\* The supervisor's own steps, and those of the world around it, are steps of a
\* supervisor on its own.
LEMMA SupervisorSteps ==
  /\ Supervisor \/ Killed => WatchNext
  /\ Around => WatchNext /\ undone' \subseteq undone \cup Cmds /\ cut' \subseteq cut
BY DEF WatchNext, Around, World, Midway

LEMMA CommandTypeStep == CommandTypeOK /\ [Next]_allVars => CommandTypeOK'
<1> SUFFICES ASSUME CommandTypeOK, [Next]_allVars PROVE CommandTypeOK'
  OBVIOUS
<1>1. ASSUME NEW c \in Cmds, Command(c) \/ RestartGoesWithout(c) \/ Crashes(c)
      PROVE  CommandTypeOK'
  <2>1. CASE Begins(c)
    BY <2>1, BeginsTypes
  <2>2. CASE StopLooks(c) \/ KillLooks(c) \/ StartLooks(c)
    BY <2>2, LooksTypes DEF StopLooks, KillLooks, StartLooks, Steps
  <2>3. CASE Ends(c) \/ Crashes(c)
    BY <2>3, OverTypes DEF Ends, Crashes, CommandTypeOK
  <2> QED
    BY <1>1, <2>1, <2>2, <2>3, StopAndKillTypes, StartTypes, RestartTypes DEF Command
<1>2. CASE (Supervisor \/ (MayCrash /\ Killed)) /\ UNCHANGED cmdVars
  BY <1>2, SupervisorSteps, WatchTypeStep DEF CommandTypeOK, cmdVars
<1>3. CASE Around /\ UNCHANGED <<step, left, mine, notStarted, recorded, holds>>
  BY <1>3, SupervisorSteps, WatchTypeStep DEF CommandTypeOK
<1>4. CASE UNCHANGED allVars
  BY <1>4, WatchTypeStep DEF CommandTypeOK, allVars, cmdVars
<1> QED
  BY <1>1, <1>2, <1>3, <1>4 DEF Next

\* Type correctness of the four commands beside a supervisor.
THEOREM CommandTypeCorrect == Spec => []CommandTypeOK
BY CommandTypeInit, CommandTypeStep, PTL DEF Spec

-----------------------------------------------------------------------------
(* Which command is at which step, and which stops are undone.             *)

Orderly ==
  \A c \in Cmds :
    /\ step[c] = "mark" => Ask[c].verb \in {"stop", "kill"}
    /\ step[c] \in {"note", "undo"} => Ask[c].verb = "kill"
    /\ step[c] = "clear" => Ask[c].verb = "start"
    /\ step[c] \in {"lock", "clearAll", "stopAll", "startAll"} => Ask[c].verb = "restart"
    /\ c \in undone => step[c] = "act" /\ Ask[c].verb \in {"stop", "kill"}

LEMMA OrderlyInit == Init => Orderly
BY DEF Init, Orderly

\* One command's step keeps the others where they were.
LEMMA OthersStay ==
  ASSUME CommandsTyped, NEW c \in Cmds, NEW d \in Cmds, d # c,
         Command(c) \/ RestartGoesWithout(c) \/ Crashes(c)
  PROVE  /\ step'[d] = step[d] /\ left'[d] = left[d]
         /\ recorded'[d] = recorded[d]
<1>1. /\ step' = [step EXCEPT ![c] = step'[c]]
      /\ left' = [left EXCEPT ![c] = left'[c]]
      /\ recorded' = [recorded EXCEPT ![c] = recorded'[c]]
  BY Zenon DEF Command, Crashes, RestartGoesWithout, CommandsTyped, Goes, Moves, Begins,
         MarkStopped, Ends, Over, StopLooks, KillLooks, StartLooks, LooksAt, StopActs,
         KillNotes, KillActs, KillRefused, KillUndoes, StartHoldsBack, StartClears,
         StartActs, RestartLooks, RestartTakesMarks, RestartLocks, RestartTurnsToClear,
         RestartClears, RestartTurnsToStop, RestartStops, RestartTurnsToStart,
         RestartStarts, Pass
<1> QED
  BY <1>1 DEF CommandsTyped

\* Nobody is undone but a stop or kill between its record and its act, and
\* itself.
LEMMA UndoneFrom ==
  ASSUME CommandTypeOK, Orderly, NEW c \in Cmds,
         Command(c) \/ RestartGoesWithout(c) \/ Crashes(c)
  PROVE  /\ \A d \in undone' \ {c} : step[d] = "act" /\ Ask[d].verb \in {"stop", "kill"}
         /\ c \in undone' => step'[c] = "act" /\ Ask[c].verb \in {"stop", "kill"}
<1>0. /\ \A d \in undone : step[d] = "act" /\ Ask[d].verb \in {"stop", "kill"}
      /\ step[c] = "mark" => Ask[c].verb \in {"stop", "kill"}
      /\ step \in [Cmds -> Steps]
  BY DEF CommandTypeOK, Orderly
<1>1. CASE MarkStopped(c)
  BY <1>0, <1>1 DEF MarkStopped, Goes, At
<1>2. CASE StopActs(c) \/ KillActs(c) \/ KillRefused(c) \/ Ends(c) \/ Crashes(c)
  BY <1>0, <1>2 DEF StopActs, KillActs, KillRefused, Ends, Crashes, Over, Stands
<1>3. CASE StartClears(c) \/ RestartClears(c)
  BY <1>0, <1>3 DEF StartClears, RestartClears, ClearStopped, Midway, Recorded, At
<1>4. CASE /\ UNCHANGED undone
           /\ step[c] # "act" \/ Ask[c].verb \notin {"stop", "kill"}
  BY <1>0, <1>4
<1>5. CASE KillUndoes(c) \/ StartActs(c)
  BY <1>4, <1>5 DEF KillUndoes, StartActs, MarksStill, At
<1>6. CASE \/ Begins(c) \/ StopLooks(c) \/ KillLooks(c) \/ StartLooks(c) \/ KillNotes(c)
           \/ StartHoldsBack(c) \/ RestartLooks(c)
  BY <1>4, <1>6
     DEF Begins, StopLooks, KillLooks, StartLooks, LooksAt, KillNotes, StartHoldsBack,
         RestartLooks, At, MarksStill
<1>7. CASE \/ RestartTakesMarks(c) \/ RestartLocks(c) \/ RestartGoesWithout(c)
           \/ RestartTurnsToClear(c) \/ RestartTurnsToStop(c) \/ RestartStops(c)
           \/ RestartTurnsToStart(c) \/ RestartStarts(c)
  BY <1>4, <1>7
     DEF RestartTakesMarks, RestartLocks, RestartGoesWithout, RestartTurnsToClear,
         RestartTurnsToStop, RestartStops, RestartTurnsToStart, RestartStarts,
         Pass, Passed, At, MarksStill
<1> QED
  BY <1>1, <1>2, <1>3, <1>5, <1>6, <1>7 DEF Command

LEMMA OrderlySteps ==
  ASSUME CommandTypeOK, Orderly, NEW c \in Cmds,
         Command(c) \/ RestartGoesWithout(c) \/ Crashes(c)
  PROVE  /\ step'[c] = "mark" => Ask[c].verb \in {"stop", "kill"}
         /\ step'[c] \in {"note", "undo"} => Ask[c].verb = "kill"
         /\ step'[c] = "clear" => Ask[c].verb = "start"
         /\ step'[c] \in {"lock", "clearAll", "stopAll", "startAll"} => Ask[c].verb = "restart"
<1>0. /\ step \in [Cmds -> Steps]
      /\ step[c] = "mark" => Ask[c].verb \in {"stop", "kill"}
      /\ step[c] \in {"note", "undo"} => Ask[c].verb = "kill"
      /\ step[c] = "clear" => Ask[c].verb = "start"
      /\ step[c] \in {"lock", "clearAll", "stopAll", "startAll"} => Ask[c].verb = "restart"
  BY DEF CommandTypeOK, Orderly
<1>1. CASE \/ Begins(c) \/ MarkStopped(c) \/ Ends(c) \/ Crashes(c) \/ StopLooks(c)
           \/ KillLooks(c) \/ StartLooks(c)
  BY <1>0, <1>1, Zenon
     DEF Begins, MarkStopped, Ends, Crashes, Over, StopLooks, KillLooks, StartLooks, LooksAt,
         At, Goes
<1>2. CASE \/ StopActs(c) \/ KillNotes(c) \/ KillActs(c) \/ KillRefused(c) \/ KillUndoes(c)
           \/ StartHoldsBack(c) \/ StartClears(c) \/ StartActs(c)
  BY <1>0, <1>2
     DEF StopActs, KillNotes, KillActs, KillRefused, KillUndoes, StartHoldsBack, StartClears,
         StartActs, At, Goes
<1>3. CASE \/ RestartLooks(c) \/ RestartTakesMarks(c) \/ RestartLocks(c) \/ RestartGoesWithout(c)
           \/ RestartTurnsToClear(c) \/ RestartClears(c) \/ RestartTurnsToStop(c)
           \/ RestartStops(c) \/ RestartTurnsToStart(c) \/ RestartStarts(c)
  BY <1>0, <1>3
     DEF RestartLooks, RestartTakesMarks, RestartLocks, RestartGoesWithout,
         RestartTurnsToClear, RestartClears, RestartTurnsToStop, RestartStops,
         RestartTurnsToStart, RestartStarts, Pass, Passed, At, Goes
<1> QED
  BY <1>1, <1>2, <1>3 DEF Command

LEMMA OrderlyStep == CommandTypeOK /\ Orderly /\ [Next]_allVars => Orderly'
<1> SUFFICES ASSUME CommandTypeOK, Orderly, [Next]_allVars PROVE Orderly'
  OBVIOUS
<1>1. ASSUME NEW c \in Cmds, Command(c) \/ RestartGoesWithout(c) \/ Crashes(c)
      PROVE  Orderly'
  <2>1. \A d \in Cmds \ {c} : step'[d] = step[d]
    BY <1>1, OthersStay DEF CommandTypeOK, CommandsTyped
  <2> QED
    BY <1>1, <2>1, OrderlySteps, UndoneFrom, ZenonT(60) DEF Orderly
<1>2. CASE Around /\ UNCHANGED <<step, left, mine, notStarted, recorded, holds>>
  BY <1>2 DEF Around, Midway, Recorded, Orderly
<1>3. CASE (Supervisor \/ (MayCrash /\ Killed)) /\ UNCHANGED cmdVars
  BY <1>3 DEF Orderly, cmdVars
<1>4. CASE UNCHANGED allVars
  BY <1>4 DEF Orderly, allVars, cmdVars
<1> QED
  BY <1>1, <1>2, <1>3, <1>4 DEF Next

-----------------------------------------------------------------------------
(* A marker means something.                                               *)

\* A stop or kill that accounts for a marker has not been undone: it will
\* stand, be taken back or be cut short.
Accountable(s) ==
  s \in stood \cup cut \/ \E c \in Cmds : Recorded(c, s) /\ c \notin undone

MarksAccounted == \A s \in marks : Accountable(s)

\* Markers stay accounted for over a step of c in which those of `gone` are
\* cleared, and with them the stops of them under way.
LEMMA AccountsKept ==
  ASSUME MarksAccounted, CommandTypeOK, NEW c \in Cmds, NEW gone,
         \A d \in Cmds \ {c} : step'[d] = step[d] /\ left'[d] = left[d],
         stood \ gone \subseteq stood', cut \ gone \subseteq cut',
         \A s \in marks' : s \in marks \ gone \/ Accountable(s)',
         \A s \in marks' : Recorded(c, s) /\ c \notin undone => Accountable(s)',
         \A d \in undone' \ undone : d = c \/ \E s \in gone : d \in Midway(s)
  PROVE  MarksAccounted'
<1> SUFFICES ASSUME NEW s \in marks', s \in marks \ gone PROVE Accountable(s)'
  BY DEF MarksAccounted
<1>1. CASE s \in stood \cup cut
  BY <1>1 DEF Accountable
<1>2. ASSUME NEW d \in Cmds, Recorded(d, s), d \notin undone, d # c PROVE Accountable(s)'
  <2>1. Recorded(d, s)'
    BY <1>2 DEF Recorded, On
  <2>2. d \notin undone'
    BY <1>2 DEF Midway, Recorded, On
  <2> QED
    BY <2>1, <2>2 DEF Accountable
<1> QED
  BY <1>1, <1>2 DEF MarksAccounted, Accountable

\* A command that is no stop or kill past its record, and clears nothing.
LEMMA Bystander ==
  ASSUME MarksAccounted, CommandTypeOK, NEW c \in Cmds, MarksStill,
         \A d \in Cmds \ {c} : step'[d] = step[d] /\ left'[d] = left[d],
         step[c] \notin {"act", "undo"} \/ Ask[c].verb \notin {"stop", "kill"}
  PROVE  MarksAccounted'
BY AccountsKept DEF MarksStill, Recorded

LEMMA MarksSteps ==
  ASSUME MarksAccounted, CommandTypeOK, Orderly, NEW c \in Cmds,
         Command(c) \/ RestartGoesWithout(c) \/ Crashes(c)
  PROVE  MarksAccounted'
<1>0. \A d \in Cmds \ {c} : step'[d] = step[d] /\ left'[d] = left[d]
  BY OthersStay DEF CommandTypeOK, CommandsTyped
<1>b. ASSUME MarksStill, step[c] \notin {"act", "undo"} \/ Ask[c].verb \notin {"stop", "kill"}
      PROVE  MarksAccounted'
  BY <1>0, <1>b, Bystander
<1>1. CASE MarkStopped(c)
  <2>1. step'[c] = "act" /\ left' = left /\ Ask[c].verb \in {"stop", "kill"} /\ step[c] = "mark"
    BY <1>1 DEF MarkStopped, Goes, At, Orderly, CommandTypeOK
  <2>2. c \notin undone
    BY <2>1 DEF Orderly
  <2>3. Recorded(c, On(c))'
    BY <2>1 DEF Recorded, On
  <2>4. \A s \in marks' : s \in marks \ {} \/ Accountable(s)'
    BY <1>1, <2>1, <2>2, <2>3 DEF MarkStopped, Accountable, On
  <2>5. \A s : ~Recorded(c, s)
    BY <2>1 DEF Recorded
  <2> QED
    BY <1>0, <1>1, <2>4, <2>5, AccountsKept DEF MarkStopped
<1>2. CASE StopActs(c) \/ KillActs(c)
  <2>1. \A s : Recorded(c, s) /\ c \notin undone => Accountable(s)'
    BY <1>2 DEF StopActs, KillActs, Stands, Recorded, Accountable
  <2> QED
    BY <1>0, <1>2, <2>1, AccountsKept DEF StopActs, KillActs, Stands
<1>3. CASE KillRefused(c)
  <2>1. ASSUME NEW s, Recorded(c, s), c \notin undone PROVE Accountable(s)'
    <3>1. CASE recorded[c]
      BY <1>3, <2>1, <3>1 DEF KillRefused, Recorded, Accountable
    <3>2. CASE ~recorded[c]
      <4>1. Recorded(c, s)' /\ c \notin undone'
        BY <1>3, <2>1, <3>2 DEF KillRefused, Recorded, Goes, On, CommandTypeOK
      <4> QED
        BY <4>1 DEF Accountable
    <3> QED
      BY <3>1, <3>2
  <2> QED
    BY <1>0, <1>3, <2>1, AccountsKept DEF KillRefused
<1>4. CASE KillUndoes(c)
  <2>1. \A s \in marks' : ~Recorded(c, s)
    BY <1>4 DEF KillUndoes, Recorded
  <2> QED
    BY <1>0, <1>4, <2>1, AccountsKept DEF KillUndoes
<1>5. CASE StartClears(c) \/ RestartClears(c)
  <2>1. \A s : ~Recorded(c, s)
    BY <1>5 DEF StartClears, RestartClears, At, Recorded
  <2> QED
    BY <1>0, <1>5, <2>1, AccountsKept DEF StartClears, RestartClears, ClearStopped
<1>6. CASE Ends(c)
  <2>1. \A s : ~Recorded(c, s)
    BY <1>6 DEF Ends, Passed, Recorded
  <2> QED
    BY <1>0, <1>6, <2>1, AccountsKept DEF Ends, Over
<1>7. CASE Crashes(c)
  <2>1. \A s \in marks' : Recorded(c, s) => Accountable(s)'
    BY <1>7 DEF Crashes, Over, Accountable, CommandTypeOK, WatchTypeOK
  <2> QED
    BY <1>0, <1>7, <2>1, AccountsKept DEF Crashes, Over
<1>8. CASE \/ Begins(c) \/ StopLooks(c) \/ KillLooks(c) \/ StartLooks(c) \/ KillNotes(c)
           \/ StartHoldsBack(c) \/ StartActs(c) \/ RestartLooks(c)
  BY <1>b, <1>8
     DEF Begins, StopLooks, KillLooks, StartLooks, LooksAt, KillNotes, StartHoldsBack,
         StartActs, RestartLooks, At
<1>9. CASE \/ RestartTakesMarks(c) \/ RestartLocks(c) \/ RestartGoesWithout(c)
           \/ RestartTurnsToClear(c) \/ RestartTurnsToStop(c) \/ RestartStops(c)
           \/ RestartTurnsToStart(c) \/ RestartStarts(c)
  BY <1>b, <1>9
     DEF RestartTakesMarks, RestartLocks, RestartGoesWithout, RestartTurnsToClear,
         RestartTurnsToStop, RestartStops, RestartTurnsToStart, RestartStarts,
         Pass, Passed, At
<1> QED
  BY <1>1, <1>2, <1>3, <1>4, <1>5, <1>6, <1>7, <1>8, <1>9 DEF Command

\* The supervisor reads markers and never writes one.
LEMMA SupervisorReads ==
  Supervisor \/ Killed => UNCHANGED <<marks, stood>>
BY DEF Supervisor, PollBegins, LookUnanswered, LookElsewhere, LookRunning, LookStopped, Looks,
       ReadMarker, StartIt, PollEnds, Killed, historyVars

LEMMA MarksStep ==
  CommandTypeOK /\ Orderly /\ MarksAccounted /\ [Next]_allVars => MarksAccounted'
<1> SUFFICES ASSUME CommandTypeOK, Orderly, MarksAccounted, [Next]_allVars
             PROVE  MarksAccounted'
  OBVIOUS
<1> USE DEF MarksAccounted, Accountable, Recorded, On
<1>1. ASSUME NEW s \in Services, BroughtUp(s), undone' = undone \cup Midway(s), cut' = cut \ {s},
             UNCHANGED <<step, left>>
      PROVE  MarksAccounted'
  BY <1>1 DEF BroughtUp, Midway
<1>2. CASE UNCHANGED <<marks, stood, undone, cut, step, left>>
  BY <1>2
<1>3. CASE (Supervisor \/ (MayCrash /\ Killed)) /\ UNCHANGED cmdVars
  BY <1>2, <1>3, SupervisorReads DEF cmdVars
<1>4. CASE Around /\ UNCHANGED <<step, left, mine, notStarted, recorded, holds>>
  BY <1>1, <1>2, <1>4
     DEF Around, Exits, Vanishes, Removed, Taken, LetGo, Weather, historyVars
<1>5. CASE UNCHANGED allVars
  BY <1>2, <1>5 DEF allVars, cmdVars, watchVars, historyVars
<1> QED
  BY <1>3, <1>4, <1>5, MarksSteps DEF Next

LEMMA MarksInit == Init => MarksAccounted
BY DEF Init, WatchInit, MarksAccounted, Accountable

\* A marker is on disk only for a stop or kill that stands, is under way or was
\* cut short, whatever is asked of the same service at once (Kill, MarkStopped,
\* ClearStopped).
THEOREM MarksAlwaysMeant == Spec => []MarksAreMeant
<1>1. MarksAccounted => MarksAreMeant
  BY DEF MarksAccounted, Accountable, MarksAreMeant
<1> QED
  BY <1>1, MarksInit, MarksStep, OrderlyInit, OrderlyStep, CommandTypeCorrect, PTL DEF Spec

-----------------------------------------------------------------------------
(* A stop stands.                                                          *)

\* What a stop or kill still has to go through is what it was asked for, and
\* until it has acted its marker is there; a kill that would take a marker back
\* has nobody's stop under it.
Held(c) ==
  /\ Ask[c].verb \in {"stop", "kill"} => ToSet(left[c]) \subseteq ToSet(Ask[c].names)
  /\ step[c] \in {"note", "mark", "act", "undo"} => left[c] # <<>>
  /\ step[c] = "act" /\ Ask[c].verb \in {"stop", "kill"} /\ c \notin undone => On(c) \in marks
  /\ Ask[c].verb = "kill" /\ step[c] \in {"mark", "act", "undo"} /\ ~recorded[c] =>
       On(c) \notin stood
  /\ step[c] = "undo" => ~recorded[c]

\* A stop that stands has its marker, so a visit that began with one does not
\* come to the start.
Silenced ==
  /\ stood \subseteq marks
  /\ at # "look" /\ stoodSeen => cur \in stood
  /\ at = "start" => ~stoodSeen

StopsHeld == Silenced /\ \A c \in Cmds : Held(c)

LEMMA StopsHeldInit == Init => StopsHeld
BY DEF Init, WatchInit, StopsHeld, Silenced, Held, ToSet

LEMMA HeadOfLeft ==
  ASSUME CommandTypeOK, NEW c \in Cmds, left[c] # <<>>
  PROVE  /\ On(c) \in ToSet(left[c]) /\ On(c) \in Services
         /\ ToSet(Tail(left[c])) \subseteq ToSet(left[c])
BY HeadAndTail DEF CommandTypeOK, ToSet, On

LEMMA ReverseSame ==
  ASSUME NEW q \in Seq(Services)
  PROVE  ToSet(Reverse(q)) \subseteq ToSet(q)
BY DEF Reverse, ToSet

\* A kill works on no service another stop or kill works on.
LEMMA WorkedOnApart ==
  ASSUME KillsApart, CommandTypeOK, NEW c \in Cmds, NEW d \in Cmds, c # d,
         Ask[c].verb = "kill", Ask[d].verb \in {"stop", "kill"}, Held(c), Held(d),
         left[c] # <<>>, left[d] # <<>>
  PROVE  On(c) # On(d)
BY HeadOfLeft DEF KillsApart, Held

\* The others' part of it over a step of c.
LEMMA OthersHeld ==
  ASSUME CommandTypeOK, NEW c \in Cmds, NEW d \in Cmds \ {c}, Held(d),
         step'[d] = step[d], left'[d] = left[d], recorded'[d] = recorded[d],
         undone \ {c} \subseteq undone',
         left[d] # <<>> /\ Recorded(d, On(d)) /\ step[d] = "act" /\ On(d) \in marks =>
           On(d) \in marks' \/ d \in undone',
         left[d] # <<>> /\ Ask[d].verb = "kill" /\ On(d) \notin stood => On(d) \notin stood'
  PROVE  Held(d)'
BY DEF Held, Recorded, On

\* What c's step does to itself and to the records of stops.
HeldStep(c) ==
  /\ Held(c)' /\ stood' \subseteq marks'
  /\ UNCHANGED <<at, cur>>
  /\ stoodSeen' => stoodSeen /\ (cur \in stood => cur \in stood')

LEMMA ClearedTogether ==
  ASSUME stood \subseteq marks, NEW s, MarksStill \/ ClearStopped(s)
  PROVE  /\ stood' \subseteq marks'
         /\ stoodSeen' => stoodSeen /\ (cur \in stood => cur \in stood')
<1>1. CASE MarksStill
  BY <1>1 DEF MarksStill
<1>2. CASE ClearStopped(s)
  <2>1. stood' \subseteq marks'
    BY <1>2 DEF ClearStopped
  <2>2. stoodSeen' => stoodSeen /\ cur # s
    BY <1>2 DEF ClearStopped
  <2>3. stood' = stood \ {s}
    BY <1>2 DEF ClearStopped
  <2> QED
    BY <2>1, <2>2, <2>3
<1> QED
  BY <1>1, <1>2

LEMMA HeldSteps ==
  ASSUME StopsHeld, CommandTypeOK, Orderly, NEW c \in Cmds,
         Command(c) \/ RestartGoesWithout(c) \/ Crashes(c)
  PROVE  HeldStep(c)
<1>0. /\ Held(c) /\ stood \subseteq marks
      /\ step \in [Cmds -> Steps] /\ left \in [Cmds -> Seq(Services)]
      /\ recorded \in [Cmds -> BOOLEAN]
  BY DEF StopsHeld, Silenced, CommandTypeOK
<1>t. left[c] # <<>> => ToSet(Tail(left[c])) \subseteq ToSet(left[c])
  BY HeadOfLeft
<1>1. CASE Begins(c)
  <2>1. Ask[c].verb \in {"stop", "kill"} => left'[c] = Reverse(Ask[c].names)
    BY <1>0, <1>1 DEF Begins
  <2>2. Ask[c].names \in Seq(Services)
    BY CommandConstants
  <2> QED
    BY <1>0, <1>1, <2>1, <2>2, ReverseSame
       DEF Begins, HeldStep, Held, Goes, MarksStill, Supervising, pollVars
<1>2. CASE StopLooks(c) \/ KillLooks(c) \/ StartLooks(c)
  <2>1. /\ left[c] # <<>> /\ recorded' = recorded /\ MarksStill /\ Supervising
        /\ step'[c] \in {"look", "mark", "note", "clear"}
        /\ step'[c] = "mark" => Ask[c].verb = "stop"
        /\ \/ left' = left
           \/ left'[c] = Tail(left[c]) /\ step'[c] = "look"
    BY <1>0, <1>2 DEF StopLooks, KillLooks, StartLooks, LooksAt, At, Goes, Moves
  <2> QED
    BY <1>0, <1>t, <2>1 DEF HeldStep, Held, MarksStill, Supervising, pollVars
<1>3. CASE KillNotes(c)
  BY <1>0, <1>3 DEF KillNotes, At, On, HeldStep, Held, Goes, MarksStill, Supervising, pollVars
<1>4. CASE MarkStopped(c)
  BY <1>0, <1>4 DEF MarkStopped, At, On, HeldStep, Held, Goes, Supervising, pollVars
<1>5. CASE StopActs(c) \/ KillActs(c)
  <2>1. /\ left[c] # <<>> /\ left'[c] = Tail(left[c]) /\ step'[c] = "look" /\ Supervising
        /\ UNCHANGED <<marks, stoodSeen>> /\ Stands(c)
        /\ step[c] = "act" /\ Ask[c].verb \in {"stop", "kill"}
    BY <1>0, <1>5 DEF StopActs, KillActs, At, Goes, Moves
  <2>2. stood' \subseteq marks' /\ stood \subseteq stood'
    BY <1>0, <2>1 DEF Stands, Held
  <2> QED
    BY <1>0, <1>t, <2>1, <2>2 DEF HeldStep, Held, Supervising, pollVars
<1>6. CASE KillRefused(c)
  BY <1>0, <1>6, HeadOfLeft
     DEF KillRefused, At, HeldStep, Held, Goes, Moves, Supervising, pollVars, On
<1>7. CASE KillUndoes(c)
  BY <1>0, <1>7, HeadOfLeft
     DEF KillUndoes, At, HeldStep, Held, Goes, Moves, Supervising, pollVars, Orderly
<1>8. CASE StartHoldsBack(c) \/ StartClears(c) \/ StartActs(c)
  <2>1. /\ Ask[c].verb = "start" /\ step'[c] \notin {"note", "mark", "undo"} /\ Supervising
        /\ step'[c] = "act" => left'[c] # <<>>
        /\ MarksStill \/ ClearStopped(On(c))
    BY <1>0, <1>8
       DEF StartHoldsBack, StartClears, StartActs, At, Goes, Orderly
  <2> QED
    BY <1>0, <2>1, ClearedTogether DEF HeldStep, Held, Supervising, pollVars
<1>9. CASE Ends(c) \/ Crashes(c)
  BY <1>0, <1>9 DEF Ends, Crashes, Over, HeldStep, Held, Goes, ToSet, Supervising, pollVars
<1>10. CASE RestartLooks(c) \/ RestartClears(c) \/ RestartStops(c) \/ RestartStarts(c)
  <2>1. /\ Ask[c].verb = "restart" /\ step'[c] \notin {"note", "mark", "act", "undo"}
        /\ MarksStill \/ ClearStopped(On(c))
        /\ Supervising
    BY <1>0, <1>10
       DEF RestartLooks, RestartClears, RestartStops, RestartStarts, At, Orderly
  <2> QED
    BY <1>0, <2>1, ClearedTogether DEF HeldStep, Held, Supervising, pollVars
<1>11. CASE \/ RestartTakesMarks(c) \/ RestartLocks(c) \/ RestartGoesWithout(c)
            \/ RestartTurnsToClear(c) \/ RestartTurnsToStop(c) \/ RestartTurnsToStart(c)
  BY <1>0, <1>11
     DEF RestartTakesMarks, RestartLocks, RestartGoesWithout, RestartTurnsToClear,
         RestartTurnsToStop, RestartTurnsToStart, Pass, Passed, At, HeldStep, Held, Goes,
         MarksStill, Supervising, pollVars, Orderly
<1> QED
  BY <1>1, <1>2, <1>3, <1>4, <1>5, <1>6, <1>7, <1>8, <1>9, <1>10, <1>11 DEF Command

LEMMA OthersHeldSteps ==
  ASSUME KillsApart, StopsHeld, CommandTypeOK, Orderly, NEW c \in Cmds, NEW d \in Cmds \ {c},
         Command(c) \/ RestartGoesWithout(c) \/ Crashes(c)
  PROVE  Held(d)'
<1>0. /\ step'[d] = step[d] /\ left'[d] = left[d] /\ recorded'[d] = recorded[d]
      /\ Held(c) /\ Held(d)
  BY OthersStay DEF CommandTypeOK, CommandsTyped, StopsHeld
<1>k. ASSUME UNCHANGED <<marks, stood>>, undone \ {c} \subseteq undone' PROVE Held(d)'
  BY <1>0, <1>k, OthersHeld
<1>1. CASE MarkStopped(c)
  <2>1. marks \subseteq marks' /\ UNCHANGED stood /\ undone \subseteq undone'
    BY <1>1 DEF MarkStopped
  <2> QED
    BY <1>0, <2>1, OthersHeld
<1>2. CASE StopActs(c) \/ KillActs(c)
  <2>1. /\ left[c] # <<>> /\ Ask[c].verb \in {"stop", "kill"} /\ UNCHANGED marks
        /\ stood' \subseteq stood \cup {On(c)} /\ undone \ {c} \subseteq undone'
    BY <1>2 DEF StopActs, KillActs, At, Stands
  <2>2. left[d] # <<>> /\ Ask[d].verb = "kill" => On(c) # On(d)
    BY <1>0, <2>1, WorkedOnApart
  <2> QED
    BY <1>0, <2>1, <2>2, OthersHeld
<1>3. CASE KillUndoes(c)
  <2>1. /\ left[c] # <<>> /\ Ask[c].verb = "kill" /\ marks' = marks \ {On(c)}
        /\ UNCHANGED <<stood, undone>>
    BY <1>3 DEF KillUndoes, At, Orderly
  <2>2. left[d] # <<>> /\ Recorded(d, On(d)) => On(c) # On(d)
    BY <1>0, <2>1, WorkedOnApart DEF Recorded
  <2> QED
    BY <1>0, <2>1, <2>2, OthersHeld
<1>4. CASE StartClears(c) \/ RestartClears(c)
  <2>1. /\ marks' = marks \ {On(c)} /\ stood' \subseteq stood
        /\ undone' = undone \cup Midway(On(c))
    BY <1>4 DEF StartClears, RestartClears, ClearStopped
  <2>2. Recorded(d, On(d)) /\ step[d] = "act" /\ On(d) = On(c) => d \in undone'
    BY <2>1 DEF Midway
  <2> QED
    BY <1>0, <2>1, <2>2, OthersHeld
<1>5. CASE KillRefused(c) \/ Ends(c) \/ Crashes(c)
  BY <1>k, <1>5 DEF KillRefused, Ends, Crashes, Over
<1>6. CASE \/ Begins(c) \/ StopLooks(c) \/ KillLooks(c) \/ StartLooks(c) \/ KillNotes(c)
           \/ StartHoldsBack(c) \/ StartActs(c) \/ RestartLooks(c)
  BY <1>k, <1>6
     DEF Begins, StopLooks, KillLooks, StartLooks, LooksAt, KillNotes, StartHoldsBack,
         StartActs, RestartLooks, MarksStill
<1>7. CASE \/ RestartTakesMarks(c) \/ RestartLocks(c) \/ RestartGoesWithout(c)
           \/ RestartTurnsToClear(c) \/ RestartTurnsToStop(c) \/ RestartStops(c)
           \/ RestartTurnsToStart(c) \/ RestartStarts(c)
  BY <1>k, <1>7
     DEF RestartTakesMarks, RestartLocks, RestartGoesWithout, RestartTurnsToClear,
         RestartTurnsToStop, RestartStops, RestartTurnsToStart, RestartStarts,
         Pass, MarksStill
<1> QED
  BY <1>1, <1>2, <1>3, <1>4, <1>5, <1>6, <1>7 DEF Command

\* A visit that began with a stop that stands does not come to the start.
LEMMA SilencedVisits ==
  ASSUME Silenced, CommandTypeOK, Supervisor \/ Killed
  PROVE  Silenced'
<1>0. /\ stood \subseteq marks /\ UNCHANGED <<marks, stood>>
      /\ at # "look" /\ stoodSeen => cur \in stood
      /\ at = "start" => ~stoodSeen
  BY SupervisorReads DEF Silenced
<1>1. CASE UNCHANGED <<at, cur, stoodSeen>>
  BY <1>0, <1>1 DEF Silenced
<1>2. CASE at' = "look"
  BY <1>0, <1>2 DEF Silenced
<1>3. ASSUME NEW s \in Watched, LookStopped(s) PROVE Silenced'
  <2>1. at' = "marker" /\ cur' = s /\ (stoodSeen' => s \in stood)
    BY <1>3 DEF LookStopped
  <2> QED
    BY <1>0, <2>1 DEF Silenced
<1>4. CASE ReadMarker
  <2>1. /\ at = "marker" /\ UNCHANGED stoodSeen /\ at' \in {"start", "look"}
        /\ at' = "start" => cur' = cur /\ cur \notin marks
    BY <1>4 DEF ReadMarker, Decide, historyVars
  <2> QED
    BY <1>0, <2>1 DEF Silenced
<1> QED
  BY <1>1, <1>2, <1>3, <1>4
     DEF Supervisor, PollBegins, LookUnanswered, LookElsewhere, LookRunning, StartIt, PollEnds,
         Killed, historyVars

LEMMA StopsHeldStep ==
  KillsApart /\ CommandTypeOK /\ Orderly /\ StopsHeld /\ [Next]_allVars => StopsHeld'
<1> SUFFICES ASSUME KillsApart, CommandTypeOK, Orderly, StopsHeld, [Next]_allVars
             PROVE  StopsHeld'
  OBVIOUS
<1>1. ASSUME NEW c \in Cmds, Command(c) \/ RestartGoesWithout(c) \/ Crashes(c)
      PROVE  StopsHeld'
  <2>1. HeldStep(c)
    BY <1>1, HeldSteps
  <2>2. Silenced'
    BY <2>1 DEF HeldStep, Silenced, StopsHeld
  <2> QED
    BY <1>1, <2>1, <2>2, OthersHeldSteps DEF HeldStep, StopsHeld
<1>k. ASSUME UNCHANGED <<marks, stood, undone, step, left, recorded>> PROVE (\A c \in Cmds : Held(c))'
  BY <1>k DEF StopsHeld, Held, On
<1>2. CASE (Supervisor \/ (MayCrash /\ Killed)) /\ UNCHANGED cmdVars
  BY <1>2, <1>k, SilencedVisits, SupervisorReads DEF StopsHeld, cmdVars
<1>3. ASSUME NEW s \in Services, BroughtUp(s), undone' = undone \cup Midway(s),
             UNCHANGED <<step, left, recorded>>
      PROVE  StopsHeld'
  <2>1. /\ marks' = marks \ {s} /\ stood' = stood \ {s} /\ UNCHANGED <<at, cur>>
        /\ stoodSeen' => stoodSeen /\ cur # s
    BY <1>3 DEF BroughtUp, Becomes, pollVars
  <2>2. Silenced'
    BY <2>1 DEF StopsHeld, Silenced
  <2>3. (\A c \in Cmds : Held(c))'
    BY <1>3, <2>1 DEF StopsHeld, Held, Midway, Recorded, On
  <2> QED
    BY <2>2, <2>3 DEF StopsHeld
<1>4. CASE UNCHANGED <<marks, stood, undone, step, left, recorded, at, cur, stoodSeen>>
  BY <1>4, <1>k DEF StopsHeld, Silenced
<1>5. CASE Around /\ UNCHANGED <<step, left, mine, notStarted, recorded, holds>>
  BY <1>3, <1>4, <1>5
     DEF Around, Exits, Vanishes, Removed, Taken, LetGo, Becomes, Weather, pollVars, historyVars
<1>6. CASE UNCHANGED allVars
  BY <1>4, <1>6 DEF allVars, cmdVars, watchVars, pollVars, historyVars
<1> QED
  BY <1>1, <1>2, <1>5, <1>6 DEF Next

\* The supervisor does not start a service it found stopped by the user, for as
\* long as nobody brings it back, provided no kill works on a service another
\* stop or kill works on (decide, MarkStopped, Kill).
THEOREM StopAlwaysStands ==
  ASSUME KillsApart
  PROVE  Spec => StopStands
<1>1. StopsHeld /\ [Next]_allVars => [StartIt => ~(stoodSeen /\ cur \in stood)]_allVars
  BY DEF StopsHeld, Silenced, StartIt
<1>2. CommandTypeOK /\ Orderly /\ StopsHeld /\ [Next]_allVars => StopsHeld'
  BY StopsHeldStep, KillsApart
<1> QED
  BY <1>1, <1>2, StopsHeldInit, OrderlyInit, OrderlyStep, CommandTypeCorrect, PTL
     DEF Spec, StopStands

-----------------------------------------------------------------------------
(* Restarts do not wait in a circle.                                       *)

\* A restart that takes its marks has yet to take only ones that come after
\* all it holds; who is not past its look holds none.
InLine(c) ==
  /\ \A s \in Services : holds[s] = c =>
       step[c] \in {"lock", "clearAll", "stopAll", "startAll"}
  /\ step[c] = "lock" =>
       /\ Sorted(NameOrder, left[c])
       /\ \A s \in Services : holds[s] = c =>
            \A i \in DOMAIN left[c] : Place(NameOrder, s) < Place(NameOrder, left[c][i])

MarksInLine == \A c \in Cmds : InLine(c)

LEMMA InLineInit == Init => MarksInLine
BY CommandConstants DEF Init, MarksInLine, InLine

LEMMA SortedTail ==
  ASSUME NEW order, NEW q \in Seq(Services), q # <<>>, Sorted(order, q)
  PROVE  /\ Sorted(order, Tail(q))
         /\ \A i \in DOMAIN Tail(q) : Place(order, Head(q)) < Place(order, Tail(q)[i])
BY DEF Sorted

LEMMA HoldsSteps ==
  ASSUME CommandTypeOK, NEW c \in Cmds, Command(c) \/ RestartGoesWithout(c) \/ Crashes(c)
  PROVE  /\ \A s \in Services : holds'[s] \in {holds[s], c, NoCmd}
         /\ UNCHANGED holds \/ RestartLocks(c) \/ Over(c)
<1>1. UNCHANGED holds \/ RestartLocks(c) \/ Over(c)
  BY Zenon DEF Command, RestartGoesWithout, Crashes, Begins, MarkStopped, Ends, StopLooks, KillLooks,
         StartLooks, LooksAt, StopActs, KillNotes, KillActs, KillRefused, KillUndoes,
         StartHoldsBack, StartClears, StartActs, RestartLooks, RestartTakesMarks,
         RestartTurnsToClear, RestartClears, RestartTurnsToStop, RestartStops,
         RestartTurnsToStart, RestartStarts, Pass
<1> QED
  BY <1>1 DEF RestartLocks, Over, Released, CommandTypeOK

LEMMA InLineSteps ==
  ASSUME CommandTypeOK, Orderly, NEW c \in Cmds, InLine(c),
         Command(c) \/ RestartGoesWithout(c) \/ Crashes(c)
  PROVE  InLine(c)'
<1>0. /\ step \in [Cmds -> Steps] /\ left \in [Cmds -> Seq(Services)]
      /\ holds \in [Services -> Cmds \cup {NoCmd}] /\ c # NoCmd
      /\ mine[c] \in Seq(Services)
  BY CommandConstants DEF CommandTypeOK
<1>1. CASE Over(c)
  BY <1>0, <1>1 DEF Over, Released, Goes, InLine
<1>2. CASE RestartTakesMarks(c)
  <2>1. UNCHANGED holds /\ step[c] = "look"
    BY <1>2 DEF RestartTakesMarks, Pass, Passed
  <2>2. Sorted(NameOrder, left'[c])
    BY <1>0, <1>2, InOrderTyped DEF RestartTakesMarks, Pass
  <2> QED
    BY <2>1, <2>2 DEF InLine
<1>3. CASE RestartLocks(c) \/ RestartGoesWithout(c)
  <2>1. /\ step[c] = "lock" /\ step' = step /\ left[c] # <<>> /\ left'[c] = Tail(left[c])
        /\ holds' \in {holds, [holds EXCEPT ![Head(left[c])] = c]}
    BY <1>0, <1>3 DEF RestartLocks, RestartGoesWithout, At, Moves, On
  <2>2. Sorted(NameOrder, left[c])
    BY <2>1 DEF InLine
  <2>3. /\ Sorted(NameOrder, Tail(left[c]))
        /\ \A i \in DOMAIN Tail(left[c]) :
             Place(NameOrder, Head(left[c])) < Place(NameOrder, Tail(left[c])[i])
    BY <1>0, <2>1, <2>2, SortedTail
  <2>4. \A i \in DOMAIN Tail(left[c]) :
          i + 1 \in DOMAIN left[c] /\ Tail(left[c])[i] = left[c][i + 1]
    BY <1>0, <2>1, HeadAndTail
  <2>5. ASSUME NEW s \in Services, holds'[s] = c, NEW i \in DOMAIN left'[c]
        PROVE  Place(NameOrder, s) < Place(NameOrder, left'[c][i])
    <3>1. CASE s = Head(left[c])
      BY <2>1, <2>3, <2>5, <3>1
    <3>2. CASE s # Head(left[c])
      <4>1. holds[s] = c
        BY <1>0, <2>1, <2>5, <3>2
      <4> QED
        BY <2>1, <2>4, <2>5, <4>1 DEF InLine
    <3> QED
      BY <3>1, <3>2
  <2> QED
    BY <2>1, <2>3, <2>5 DEF InLine
<1>4. ASSUME UNCHANGED holds, step'[c] # "lock",
             step[c] \in {"lock", "clearAll", "stopAll", "startAll"} =>
               step'[c] \in {"clearAll", "stopAll", "startAll"}
      PROVE  InLine(c)'
  BY <1>4 DEF InLine
<1>5. CASE \/ Begins(c) \/ MarkStopped(c) \/ StopLooks(c) \/ KillLooks(c) \/ StartLooks(c)
           \/ StopActs(c) \/ KillNotes(c) \/ KillActs(c) \/ KillRefused(c) \/ KillUndoes(c)
           \/ StartHoldsBack(c) \/ StartClears(c) \/ StartActs(c)
  BY <1>0, <1>4, <1>5, Zenon
     DEF Begins, MarkStopped, StopLooks, KillLooks, StartLooks, LooksAt, StopActs, KillNotes,
         KillActs, KillRefused, KillUndoes, StartHoldsBack, StartClears, StartActs, At, Goes
<1>6. CASE \/ RestartLooks(c) \/ RestartTurnsToClear(c) \/ RestartClears(c)
           \/ RestartTurnsToStop(c) \/ RestartStops(c) \/ RestartTurnsToStart(c)
           \/ RestartStarts(c)
  BY <1>0, <1>4, <1>6
     DEF RestartLooks, RestartTurnsToClear, RestartClears, RestartTurnsToStop, RestartStops,
         RestartTurnsToStart, RestartStarts, Pass, Passed, At, Goes
<1> QED
  BY <1>1, <1>2, <1>3, <1>5, <1>6 DEF Command, Ends, Crashes

LEMMA InLineStep ==
  CommandTypeOK /\ Orderly /\ MarksInLine /\ [Next]_allVars => MarksInLine'
<1> SUFFICES ASSUME CommandTypeOK, Orderly, MarksInLine, [Next]_allVars
             PROVE  MarksInLine'
  OBVIOUS
<1>1. ASSUME NEW c \in Cmds, Command(c) \/ RestartGoesWithout(c) \/ Crashes(c)
      PROVE  MarksInLine'
  <2>1. ASSUME NEW d \in Cmds \ {c} PROVE InLine(d)'
    <3>1. step'[d] = step[d] /\ left'[d] = left[d]
      BY <1>1, OthersStay DEF CommandTypeOK, CommandsTyped
    <3>2. \A s \in Services : holds'[s] = d => holds[s] = d
      BY <1>1, HoldsSteps, CommandConstants
    <3> QED
      BY <3>1, <3>2 DEF MarksInLine, InLine
  <2> QED
    BY <1>1, <2>1, InLineSteps DEF MarksInLine
<1>2. CASE UNCHANGED <<step, left, holds>>
  BY <1>2 DEF MarksInLine, InLine
<1> QED
  BY <1>1, <1>2 DEF Next, cmdVars, allVars

LEMMA LeastNumber ==
  ASSUME NEW T \in SUBSET Nat, T # {}
  PROVE  \E x \in T : \A y \in T : x <= y
<1> DEFINE R == OpToRel(<, Nat)
<1>1. IsWellFoundedOn(R, Nat)
  BY NatLessThanWellFounded
<1>2. \A x, y \in Nat : y < x => <<y, x>> \in R
  BY DEF OpToRel
<1> HIDE DEF R
<1>3. PICK x \in T : \A y \in T : ~(<<y, x>> \in R)
  BY <1>1, WFMin, Zenon
<1>4. \A y \in T : ~(y < x)
  BY <1>2, <1>3
<1> QED
  BY <1>4

\* Who waits waits for a mark that comes before those its holder waits for.
LEMMA WaitsGoUp ==
  ASSUME CommandTypeOK, MarksInLine, NEW c \in Cmds, NEW d \in Cmds, Waits(c, d),
         At(d, "lock")
  PROVE  Place(NameOrder, On(c)) < Place(NameOrder, On(d))
<1>1. On(c) \in Services /\ holds[On(c)] = d
  BY HeadOfLeft DEF Waits, At
<1>2. 1 \in DOMAIN left[d] /\ On(d) = left[d][1]
  BY HeadAndTail DEF At, On, CommandTypeOK
<1> QED
  BY <1>1, <1>2 DEF MarksInLine, InLine, At

LEMMA NoCircleInv ==
  ASSUME CommandTypeOK, MarksInLine, NameOrder \in Seq(Services)
  PROVE  NoCircle
<1> SUFFICES ASSUME NEW group \in (SUBSET Restarts) \ {{}},
                    \A c \in group : \E d \in group : Waits(c, d)
             PROVE  FALSE
  BY DEF NoCircle
<1> DEFINE From(c) == Len(NameOrder) - Place(NameOrder, On(c))
           Ranks == {From(c) : c \in group}
<1>1. group \subseteq Cmds /\ group # {}
  BY DEF Restarts
<1>2. \A c \in group : At(c, "lock") /\ On(c) \in Services
  BY <1>1, HeadOfLeft DEF Waits, At
<1>3. \A c \in group : Place(NameOrder, On(c)) \in 1..Len(NameOrder)
  BY <1>2, PlaceIsThere, CommandAssumption
<1>4. Ranks \in SUBSET Nat /\ Ranks # {}
  <2>1. Len(NameOrder) \in Nat
    OBVIOUS
  <2>2. \A c \in group : From(c) \in Nat
    BY <1>3, <2>1
  <2> HIDE DEF From
  <2> QED
    BY <1>1, <2>2
<1> HIDE DEF Ranks
<1>5. PICK r \in Ranks : \A q \in Ranks : r <= q
  BY <1>4, LeastNumber
<1>6. PICK c \in group : r = From(c)
  BY <1>5 DEF Ranks
<1>7. PICK d \in group : Waits(c, d)
  OBVIOUS
<1>8. Place(NameOrder, On(c)) < Place(NameOrder, On(d))
  BY <1>1, <1>2, <1>7, WaitsGoUp
<1>9. From(d) \in Ranks
  BY DEF Ranks
<1> QED
  BY <1>3, <1>5, <1>6, <1>8, <1>9

\* Restarts never wait for one another's marks in a circle, however many there
\* are and in whatever order each was asked, also while some go without a mark or
\* are interrupted (markRestartingAll takes them in one order).
THEOREM NeverACircle == Spec => []NoCircle
<1>1. NameOrder \in Seq(Services)
  BY CommandAssumption
<1>2. CommandTypeOK /\ MarksInLine => NoCircle
  BY <1>1, NoCircleInv
<1> QED
  BY <1>2, InLineInit, InLineStep, OrderlyInit, OrderlyStep, CommandTypeCorrect, PTL DEF Spec

-----------------------------------------------------------------------------
(* The supervisor beside the commands.                                     *)

\* A command leaves the supervisor's own state alone, and no container it works
\* on stops being the project's.
LEMMA CommandsStandAside ==
  ASSUME CommandTypeOK, NEW c \in Cmds, Command(c) \/ RestartGoesWithout(c) \/ Crashes(c)
  PROVE  /\ Supervising
         /\ \A s \in Services : box[s] \in Ours => box'[s] \in Ours
<1>0. box \in [Services -> Boxes]
  BY DEF CommandTypeOK, WatchTypeOK
<1>1. Supervising
  BY Zenon DEF Command, RestartGoesWithout, Crashes, Begins, MarkStopped, Ends, Over, StopLooks,
         KillLooks, StartLooks, LooksAt, StopActs, KillNotes, KillActs, KillRefused, KillUndoes,
         StartHoldsBack, StartClears, StartActs, RestartLooks, RestartTakesMarks, RestartLocks,
         RestartTurnsToClear, RestartClears, RestartTurnsToStop, RestartStops,
         RestartTurnsToStart, RestartStarts, Pass
<1>2. ASSUME NEW b, box' = [box EXCEPT ![On(c)] = b], box[On(c)] \in Ours => b \in Ours
      PROVE  \A s \in Services : box[s] \in Ours => box'[s] \in Ours
  BY <1>0, <1>2
<1>4. CASE StopActs(c) \/ KillActs(c) \/ RestartStops(c) \/ RestartStarts(c)
  BY <1>1, <1>2, <1>4
     DEF StopActs, KillActs, RestartStops, RestartStarts, Turns, Outcomes, HasStopped, HasStarted,
         Ours
<1>5. CASE StartActs(c)
  BY <1>1, <1>2, <1>5 DEF StartActs, Turns, HasStarted, Ours
<1>3. CASE UNCHANGED box
  BY <1>1, <1>3
<1> QED
  BY <1>3, <1>4, <1>5, Zenon
     DEF Command, RestartGoesWithout, Crashes, Begins, MarkStopped, Ends, Over, StopLooks,
         KillLooks, StartLooks, LooksAt, KillNotes, KillRefused, KillUndoes,
         StartHoldsBack, StartClears, RestartLooks, RestartTakesMarks, RestartLocks,
         RestartTurnsToClear, RestartClears, RestartTurnsToStop, RestartTurnsToStart, Pass,
         BoxStill, worldVars

LEMMA CommandsKeepCounts ==
  ASSUME CommandTypeOK, RetriesCounted, Accounted, NEW c \in Cmds,
         Command(c) \/ RestartGoesWithout(c) \/ Crashes(c)
  PROVE  RetriesCounted' /\ Accounted'
<1>1. Supervising /\ \A s \in Services : box[s] \in Ours => box'[s] \in Ours
  BY CommandsStandAside
<1>2. RetriesCounted'
  BY <1>1 DEF RetriesCounted, Counted, Supervising, pollVars
<1>3. lasting \subseteq Services
  BY DEF CommandTypeOK, WatchTypeOK
<1> QED
  BY <1>1, <1>2, <1>3 DEF Accounted, Supervising, pollVars

LEMMA CountsStep ==
  CommandTypeOK /\ RetriesCounted /\ Accounted /\ [Next]_allVars => RetriesCounted' /\ Accounted'
<1> SUFFICES ASSUME CommandTypeOK, RetriesCounted, Accounted, [Next]_allVars
             PROVE  RetriesCounted' /\ Accounted'
  OBVIOUS
<1>1. CASE \E c \in Cmds : Command(c) \/ RestartGoesWithout(c) \/ Crashes(c)
  BY <1>1, CommandsKeepCounts
<1>2. CASE WatchNext \/ UNCHANGED watchVars
  BY <1>2, RetriesStep, AccountedStep DEF CommandTypeOK
<1> QED
  BY <1>1, <1>2, SupervisorSteps DEF Next, allVars

\* An `on-failure` service is started no more often than its limit whatever is
\* stopped, started, killed and restarted meanwhile: no command resets what the
\* supervisor remembers (decide, observeRunning).
THEOREM OnFailureBoundedBesideCommands == Spec => []OnFailureBounded
<1>1. RetriesCounted => OnFailureBounded
  BY DEF RetriesCounted, Counted, OnFailureBounded
<1>2. Init => RetriesCounted /\ Accounted
  BY RetriesInit, AccountedInit DEF Init
<1> QED
  BY <1>1, <1>2, CountsStep, CommandTypeCorrect, PTL DEF Spec

\* Nor do commands end the watch of a project that is there: a stopped container
\* is still its container (watch.after).
THEOREM OutageKeepsWatchBesideCommands == Spec => OutageIsNotAbsence
<1>1. Init => RetriesCounted /\ Accounted
  BY RetriesInit, AccountedInit DEF Init
<1>2. Accounted /\ [Next]_allVars =>
        [PollEnds /\ life' = "ended" /\ runtimeUp => lasting \cap Watched = {}]_watchVars
  BY DEF Accounted, PollEnds
<1> QED
  BY <1>1, <1>2, CountsStep, CommandTypeCorrect, PTL DEF Spec, OutageIsNotAbsence
=============================================================================
