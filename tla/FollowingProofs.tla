--------------------------- MODULE FollowingProofs ---------------------------
(***************************************************************************)
(* What holds of the two commands that stay and follow the services.  A    *)
(* stream of logs ends with its container, and whole, for any services,    *)
(* any clock settings and any number of starts and lines.  A file saved    *)
(* under a `watch` is in the container and in use by the time the watch    *)
(* rests, or its failure was reported.  No fairness is used.               *)
(***************************************************************************)
EXTENDS LogsFollow, WatchFiles, TLAPS

-----------------------------------------------------------------------------
(* The logs: a stream ends with its container, and whole.                  *)

Containers == [state : {"running", "down"}, mark : BOOLEAN, starts : Nat,
               late : 0..2, life : {"never", "ran", "out"}]
Queues == [lines : Nat, writing : BOOLEAN]
Watchers == [at : {"tick", "asking", "answered", "hung", "over"},
             saw : {"running", "not running", "unknown"}]
ExitWatches == [seen : BOOLEAN, counting : BOOLEAN, settled : BOOLEAN]
Ages == [asked : Nat, written : Nat, stopped : Nat]

LogsTypeOK ==
  /\ followed \in [Polled -> Containers]
  /\ queue \in [Polled -> Queues]
  /\ watcher \in [Polled -> Watchers]
  /\ exitWatch \in [Polled -> ExitWatches]
  /\ age \in [Polled -> Ages]
  /\ stream \in [Followed -> {"on", "cut", "ended", "failed"}]

\* What the container is, beside what it was.
ContainerIs(s) ==
  /\ Runs(s) => followed[s].life # "never"
  /\ ~Runs(s) /\ followed[s].life = "ran" => followed[s].mark
  /\ followed[s].starts = 0 => ~followed[s].mark

\* What the watcher has made of its looks.
LooksTell(s) ==
  /\ exitWatch[s].settled => exitWatch[s].counting
  /\ exitWatch[s].counting => exitWatch[s].seen
  /\ exitWatch[s].seen => followed[s].life # "never"
  /\ LooksAt(s, "answered") /\ watcher[s].saw = "running" => followed[s].life # "never"
  /\ exitWatch[s].counting /\ followed[s].life = "ran" => followed[s].late >= 1
  /\ exitWatch[s].settled /\ followed[s].life = "ran" => followed[s].late = 2

\* A stream that was cut was cut by its watcher, over since.
CutTells(s) ==
  stream[s] = "cut" =>
    /\ LooksAt(s, "over")
    /\ followed[s].life = "out" \/ followed[s].late = 2

\* Of a container that was never started again: seen down, it stays down...
StaysDown(s) ==
  followed[s].starts = 0 =>
    /\ LooksAt(s, "answered") /\ watcher[s].saw = "not running" => ~Runs(s)
    /\ exitWatch[s].counting => ~Runs(s)
\* ... and a line of it still to come is not awaited for as long as Drain, once
\* the clock has beaten since a look that came after the first that counted.
Drains(s) ==
  (/\ followed[s].starts = 0 /\ stream[s] = "on"
   /\ exitWatch[s].counting /\ age[s].asked >= 1
   /\ exitWatch[s].settled \/ watcher[s].at \in {"asking", "answered"}
   /\ queue[s].lines > 0 /\ ~queue[s].writing)
  => age[s].written < Drain

Followable(s) ==
  ContainerIs(s) /\ LooksTell(s) /\ CutTells(s) /\ StaysDown(s) /\ Drains(s)
LogsInv == LogsTypeOK /\ \A s \in Polled : Followable(s)

-----------------------------------------------------------------------------
\* A container stays one, whatever is put down of it.
LEMMA ContainersAre ==
  ASSUME NEW c \in Containers
  PROVE  /\ \A st \in {"running", "down"}, l \in {"never", "ran", "out"} :
              [c EXCEPT !.state = st, !.life = l] \in Containers
         /\ \A m \in BOOLEAN, l \in {"never", "ran", "out"} :
              [c EXCEPT !.mark = m, !.life = l] \in Containers
         /\ \A n \in 0..2 : [c EXCEPT !.late = n] \in Containers
BY DEF Containers

\* What turning a container up or down does to it.
LEMMA TurnsTo ==
  ASSUME LogsTypeOK, NEW s \in Polled, NEW st \in {"running", "down"}, Turns(s, st)
  PROVE  \E l \in {"never", "ran", "out"} :
           followed' = [followed EXCEPT ![s].state = st, ![s].life = l]
<1>1. followed[s].life \in {"never", "ran", "out"}
  BY DEF LogsTypeOK, Containers
<1> QED BY <1>1 DEF Turns

LEMMA TurnedTypes ==
  ASSUME LogsTypeOK, NEW s \in Polled, NEW st \in {"running", "down"}, Turns(s, st)
  PROVE  followed' \in [Polled -> Containers]
<1>1. PICK l \in {"never", "ran", "out"} :
        followed' = [followed EXCEPT ![s].state = st, ![s].life = l]
  BY TurnsTo, Zenon
<1>2. followed[s] \in Containers
  BY DEF LogsTypeOK
<1>3. [followed[s] EXCEPT !.state = st, !.life = l] \in Containers
  BY <1>2, ContainersAre
<1>4. followed' = [followed EXCEPT ![s] = [followed[s] EXCEPT !.state = st, !.life = l]]
  BY <1>1
<1> QED BY <1>3, <1>4 DEF LogsTypeOK

\* What a look taken in makes of the exit watch, look by look.
LEMMA SeesMakes ==
  ASSUME LogsTypeOK, NEW s \in Polled,
         NEW look \in {"restarting", "running", "not running", "unknown"}, Sees(s, look)
  PROVE  \E w \in ExitWatches :
           /\ exitWatch' = [exitWatch EXCEPT ![s] = w]
           /\ look = "restarting" => ~w.counting /\ ~w.settled /\ (w.seen <=> exitWatch[s].seen)
           /\ look = "running" => w.seen /\ ~w.counting /\ ~w.settled
           /\ look = "unknown" => w = exitWatch[s]
           /\ look = "not running" /\ ~exitWatch[s].seen => w = exitWatch[s]
           /\ look = "not running" /\ exitWatch[s].seen =>
                /\ w.seen /\ w.counting
                /\ w.settled => exitWatch[s].settled \/ exitWatch[s].counting
<1> DEFINE w == exitWatch[s]
<1>1. w \in ExitWatches
  BY DEF LogsTypeOK
<1>2. exitWatch = [exitWatch EXCEPT ![s] = w]
  BY DEF LogsTypeOK
<1>3. CASE look = "restarting"
  <2> DEFINE again == [w EXCEPT !.counting = FALSE, !.settled = FALSE]
  <2>1. exitWatch' = [exitWatch EXCEPT ![s] = again]
    BY <1>3 DEF Sees
  <2>2. again \in ExitWatches /\ ~again.counting /\ ~again.settled /\ again.seen = w.seen
    BY <1>1 DEF ExitWatches
  <2> HIDE DEF again
  <2> QED BY <1>3, <2>1, <2>2
<1>4. CASE look = "running"
  <2> DEFINE up == [[w EXCEPT !.counting = FALSE, !.settled = FALSE] EXCEPT !.seen = TRUE]
  <2>1. exitWatch' = [exitWatch EXCEPT ![s] = up]
    BY <1>4 DEF Sees
  <2>2. up \in ExitWatches /\ ~up.counting /\ ~up.settled /\ up.seen
    BY <1>1 DEF ExitWatches
  <2> HIDE DEF up
  <2> QED BY <1>4, <2>1, <2>2
<1>5. CASE look = "unknown" \/ (look = "not running" /\ ~w.seen)
  <2>1. exitWatch' = exitWatch
    BY <1>5 DEF Sees
  <2> QED BY <1>1, <1>2, <1>5, <2>1
<1>6. CASE look = "not running" /\ w.seen /\ ~w.counting
  <2> DEFINE first == [w EXCEPT !.counting = TRUE]
  <2>1. exitWatch' = [exitWatch EXCEPT ![s] = first]
    BY <1>6 DEF Sees
  <2>2. first \in ExitWatches /\ first.counting /\ first.seen = w.seen /\ first.settled = w.settled
    BY <1>1 DEF ExitWatches
  <2> HIDE DEF first
  <2> QED BY <1>6, <2>1, <2>2
<1>7. CASE look = "not running" /\ w.seen /\ w.counting
  <2> DEFINE counts == w.counting /\ age[s].stopped - age[s].asked >= Settle
             next == [w EXCEPT !.settled = w.settled \/ counts]
  <2>1. exitWatch' = [exitWatch EXCEPT ![s] = next]
    BY <1>7 DEF Sees
  <2>2. next \in ExitWatches /\ next.counting = w.counting /\ next.seen = w.seen
    BY <1>1 DEF ExitWatches
  <2> HIDE DEF next
  <2> QED BY <1>7, <2>1, <2>2
<1> QED BY <1>3, <1>4, <1>5, <1>6, <1>7

LEMMA SeesTypes ==
  ASSUME LogsTypeOK, NEW s \in Polled,
         NEW look \in {"restarting", "running", "not running", "unknown"}, Sees(s, look)
  PROVE  /\ exitWatch' \in [Polled -> ExitWatches] /\ age' \in [Polled -> Ages]
         /\ \A r \in Polled : r # s => exitWatch'[r] = exitWatch[r]
<1>1. exitWatch' \in [Polled -> ExitWatches]
  BY ZenonT(120), SeesMakes DEF LogsTypeOK
<1>2. age' = age \/ age' = [age EXCEPT ![s].stopped = age[s].asked]
  BY DEF Sees
<1>3. age' \in [Polled -> Ages]
  <2>1. CASE age' = age
    BY <2>1 DEF LogsTypeOK
  <2>2. CASE age' = [age EXCEPT ![s].stopped = age[s].asked]
    BY <2>2 DEF LogsTypeOK, Ages
  <2> QED BY <1>2, <2>1, <2>2
<1>4. ASSUME NEW r \in Polled, r # s PROVE exitWatch'[r] = exitWatch[r]
  BY ZenonT(120), <1>4, SeesMakes DEF LogsTypeOK
<1> QED BY <1>1, <1>3, <1>4

\* Every value keeps its type, whichever action is taken.
LEMMA ContainerTypes ==
  ASSUME LogsTypeOK, NEW s \in Polled, Container(s)
  PROVE  LogsTypeOK'
<1>1. CASE StopsRunning(s)
  <2>1. followed' \in [Polled -> Containers]
    BY <1>1, TurnedTypes DEF StopsRunning
  <2> QED BY <1>1, <2>1 DEF LogsTypeOK, StopsRunning, Others
<1>2. CASE StartsAgain(s)
  <2>1. followed' \in [Polled -> Containers]
    BY <1>2 DEF LogsTypeOK, StartsAgain, Containers
  <2> QED BY <1>2, <2>1 DEF LogsTypeOK, StartsAgain, Others
<1>3. CASE MarksRestart(s)
  <2>1. followed' \in [Polled -> Containers]
    BY <1>3 DEF LogsTypeOK, MarksRestart, Containers
  <2> QED BY <1>3, <2>1 DEF LogsTypeOK, MarksRestart, Others
<1>4. CASE RestartBringsUp(s)
  <2>1. followed' \in [Polled -> Containers]
    BY <1>4, TurnedTypes DEF RestartBringsUp
  <2> QED BY <1>4, <2>1 DEF LogsTypeOK, RestartBringsUp, Others
<1>5. CASE EndsRestart(s)
  <2>1. followed' \in [Polled -> Containers]
    <3>1. followed[s].life \in {"never", "ran", "out"}
      BY DEF LogsTypeOK, Containers
    <3>2. PICK l \in {"never", "ran", "out"} :
            followed' = [followed EXCEPT ![s].mark = FALSE, ![s].life = l]
      BY <1>5, <3>1 DEF EndsRestart
    <3>3. [followed[s] EXCEPT !.mark = FALSE, !.life = l] \in Containers
      BY ContainersAre DEF LogsTypeOK
    <3>4. followed' = [followed EXCEPT ![s] = [followed[s] EXCEPT !.mark = FALSE, !.life = l]]
      BY <3>2
    <3> QED BY <3>3, <3>4 DEF LogsTypeOK
  <2> QED BY <1>5, <2>1 DEF LogsTypeOK, EndsRestart, Others
<1>6. CASE WritesLine(s)
  <2>1. queue' \in [Polled -> Queues]
    BY <1>6 DEF LogsTypeOK, WritesLine, Queues
  <2> QED BY <1>6, <2>1 DEF LogsTypeOK, WritesLine
<1> QED BY <1>1, <1>2, <1>3, <1>4, <1>5, <1>6 DEF Container

LEMMA SettingsCount == 0 < Drain /\ 1 <= Poll /\ \A n : n = 0 => ~(n >= 1)
<1>1. Drain \in Nat \ {0} /\ Poll \in Nat \ {0}
  BY LogsAssumption
<1> QED BY <1>1

LEMMA OneMore ==
  ASSUME NEW m \in Nat, NEW n, n = m + 1
  PROVE  n # 0
OBVIOUS

LEMMA OneMoreOf2 ==
  ASSUME NEW m \in 0..2, NEW n, n = IF m < 2 THEN m + 1 ELSE m
  PROVE  n >= 1 /\ (m >= 1 => n = 2)
OBVIOUS

LEMMA Counts2 ==
  ASSUME NEW m \in 0..2, NEW n, n = 0 \/ n = m \/ (m < 2 /\ n = m + 1)
  PROVE  n \in 0..2
OBVIOUS

LEMMA FollowTypes ==
  ASSUME LogsTypeOK, NEW s \in Polled, Follows(s) \/ RuntimeHangs(s)
  PROVE  LogsTypeOK'
<1>1. CASE HandsOver(s)
  <2>1. queue' \in [Polled -> Queues]
    BY <1>1 DEF LogsTypeOK, HandsOver, Queues
  <2> QED BY <1>1, <2>1 DEF LogsTypeOK, HandsOver
<1>2. CASE LineIsOut(s)
  <2>1. queue' \in [Polled -> Queues]
    BY <1>2 DEF LogsTypeOK, LineIsOut, Queues
  <2>2. age' \in [Polled -> Ages]
    BY <1>2 DEF LogsTypeOK, LineIsOut, Ages
  <2> QED BY <1>2, <2>1, <2>2 DEF LogsTypeOK, LineIsOut
<1>3. CASE Tick(s)
  <2>1. watcher' \in [Polled -> Watchers]
    <3>1. PICK p \in {"over", "asking"} : watcher' = [watcher EXCEPT ![s].at = p]
      BY <1>3 DEF Tick, LookGoes
    <3> QED BY <3>1 DEF LogsTypeOK, Watchers
  <2>2. age' \in [Polled -> Ages]
    BY <1>3 DEF LogsTypeOK, Tick, Ages
  <2>3. stream' \in [Followed -> {"on", "cut", "ended", "failed"}]
    BY <1>3 DEF LogsTypeOK, Tick
  <2> QED BY <1>3, <2>1, <2>2, <2>3 DEF LogsTypeOK, Tick
<1>4. CASE Answers(s)
  <2>1. watcher' \in [Polled -> Watchers]
    <3>1. PICK a \in {"running", "not running", "unknown"} :
            watcher' = [watcher EXCEPT ![s].at = "answered", ![s].saw = a]
      BY <1>4 DEF Answers
    <3> QED BY ZenonT(40), <3>1 DEF LogsTypeOK, Watchers
  <2> QED BY <1>4, <2>1 DEF LogsTypeOK, Answers
<1>5. CASE TakesIn(s)
  <2>1. PICK look \in {"restarting", "running", "not running", "unknown"} : Takes(s, look)
    <3>1. watcher[s].saw \in {"running", "not running", "unknown"}
      BY DEF LogsTypeOK, Watchers
    <3> QED BY <1>5, <3>1 DEF TakesIn
  <2>2. exitWatch' \in [Polled -> ExitWatches]
    BY <2>1, SeesTypes DEF Takes
  <2>3. age' \in [Polled -> Ages]
    BY <2>1, SeesTypes DEF Takes
  <2>4. followed' \in [Polled -> Containers]
    <3>1. followed[s].late \in 0..2
      BY DEF LogsTypeOK, Containers
    <3>2. PICK n \in 0..2 : followed' = [followed EXCEPT ![s].late = n]
      <4>1. PICK n : /\ followed' = [followed EXCEPT ![s].late = n]
                     /\ n \in {0, followed[s].late} \/ (followed[s].late < 2 /\ n = followed[s].late + 1)
        BY <2>1 DEF Takes, LateLook
      <4>2. n = 0 \/ n = followed[s].late \/ (followed[s].late < 2 /\ n = followed[s].late + 1)
        BY <4>1, Zenon
      <4>3. n \in 0..2
        BY <3>1, <4>2, Counts2
      <4> QED BY <4>1, <4>3
    <3>3. [followed[s] EXCEPT !.late = n] \in Containers
      BY ContainersAre DEF LogsTypeOK
    <3>4. followed' = [followed EXCEPT ![s] = [followed[s] EXCEPT !.late = n]]
      BY <3>2
    <3> QED BY <3>3, <3>4 DEF LogsTypeOK
  <2>5. watcher' \in [Polled -> Watchers]
    BY <2>1 DEF LogsTypeOK, Takes, Watchers
  <2> QED BY <2>1, <2>2, <2>3, <2>4, <2>5 DEF LogsTypeOK, Takes
<1>6. CASE RuntimeHangs(s)
  <2>1. watcher' \in [Polled -> Watchers]
    BY <1>6 DEF LogsTypeOK, RuntimeHangs, LookGoes, Watchers
  <2> QED BY <1>6, <2>1 DEF LogsTypeOK, RuntimeHangs
<1> QED BY <1>1, <1>2, <1>3, <1>4, <1>5, <1>6 DEF Follows

LEMMA LogsTypes ==
  ASSUME LogsTypeOK, [LogsNext]_logsVars
  PROVE  LogsTypeOK'
<1>1. ASSUME NEW s \in Polled, Container(s) \/ Follows(s) \/ RuntimeHangs(s)
      PROVE  LogsTypeOK'
  BY <1>1, ContainerTypes, FollowTypes
<1>2. ASSUME NEW s \in Followed, StreamEnds(s) \/ Returns(s)
      PROVE  LogsTypeOK'
  BY <1>2 DEF LogsTypeOK, StreamEnds, Returns
<1>3. CASE Beat
  <2>1. ASSUME NEW s \in Polled
        PROVE  age'[s] \in Ages
    BY <1>3, <2>1, LogsAssumption DEF LogsTypeOK, Beat, Older, Ages
  <2>2. age' = [s \in Polled |-> age'[s]]
    BY <1>3 DEF Beat
  <2> QED BY <1>3, <2>1, <2>2 DEF LogsTypeOK, Beat
<1>4. CASE CtrlC
  BY <1>4 DEF LogsTypeOK, CtrlC
<1>5. CASE EndsLogs
  BY <1>5 DEF LogsTypeOK, EndsLogs
<1>6. CASE UNCHANGED logsVars
  BY <1>6 DEF LogsTypeOK, logsVars
<1> QED BY <1>1, <1>2, <1>3, <1>4, <1>5, <1>6 DEF LogsNext

-----------------------------------------------------------------------------
\* What is said of a service stays said while nothing of it changes.
LEMMA Undisturbed ==
  ASSUME NEW s, Followable(s),
         followed'[s] = followed[s], queue'[s] = queue[s], watcher'[s] = watcher[s],
         exitWatch'[s] = exitWatch[s], age'[s] = age[s], stream'[s] = stream[s]
  PROVE  Followable(s)'
BY DEF Followable, ContainerIs, LooksTell, CutTells, StaysDown, Drains, Runs, LooksAt

\* What is put down of a container that stops, comes up or leaves a restart.
LEMMA TurnedFields ==
  ASSUME LogsTypeOK, NEW s \in Polled, NEW st \in {"running", "down"}, Turns(s, st)
  PROVE  /\ followed'[s].state = st
         /\ followed'[s].mark = followed[s].mark
         /\ followed'[s].starts = followed[s].starts
         /\ followed'[s].late = followed[s].late
         /\ st = "running" => followed'[s].life # "never"
         /\ st = "running" /\ followed[s].life # "never" => followed'[s].life = followed[s].life
         /\ st = "down" /\ followed[s].life # "ran" => followed'[s].life = followed[s].life
         /\ st = "down" /\ ~followed[s].mark => followed'[s].life # "ran"
         /\ followed[s].life # "never" => followed'[s].life # "never"
<1>1. followed[s] \in Containers
  BY DEF LogsTypeOK
<1>2. PICK l : /\ followed' = [followed EXCEPT ![s] = [followed[s] EXCEPT !.state = st, !.life = l]]
               /\ l = CASE st = "running" /\ followed[s].life = "never" -> "ran"
                        [] st # "running" /\ ~followed[s].mark /\ followed[s].life = "ran" -> "out"
                        [] OTHER -> followed[s].life
  BY DEF Turns
<1>3. followed'[s] = [followed[s] EXCEPT !.state = st, !.life = l]
  BY <1>2 DEF LogsTypeOK
<1>4. /\ followed'[s].state = st /\ followed'[s].life = l
      /\ followed'[s].mark = followed[s].mark
      /\ followed'[s].starts = followed[s].starts
      /\ followed'[s].late = followed[s].late
  BY <1>1, <1>3 DEF Containers
<1>5. followed[s].life \in {"never", "ran", "out"}
  BY <1>1 DEF Containers
<1> QED BY <1>2, <1>4, <1>5

LEMMA ContainerKeeps ==
  ASSUME LogsTypeOK, NEW s \in Polled, Followable(s), Container(s)
  PROVE  Followable(s)'
<1>1. /\ stream[s] = "on" /\ stream' = stream /\ watcher' = watcher
      /\ exitWatch' = exitWatch /\ age' = age
  BY DEF Container, StopsRunning, StartsAgain, MarksRestart, RestartBringsUp, EndsRestart,
         WritesLine, Others
<1>2. /\ followed[s].life \in {"never", "ran", "out"} /\ followed[s].starts \in Nat
      /\ followed[s].mark \in BOOLEAN /\ followed[s].state \in {"running", "down"}
  BY DEF LogsTypeOK, Containers
<1> USE DEF Followable, ContainerIs, LooksTell, CutTells, StaysDown, Drains, Runs, LooksAt
<1>3. CASE StopsRunning(s)
  <2>1. Turns(s, "down") /\ followed[s].state = "running" /\ queue' = queue
    BY <1>3 DEF StopsRunning, Others
  <2> QED BY <1>1, <1>2, <2>1, TurnedFields
<1>4. CASE RestartBringsUp(s)
  <2>1. Turns(s, "running") /\ followed[s].mark /\ queue' = queue
    BY <1>4 DEF RestartBringsUp, Others
  <2> QED BY <1>1, <1>2, <2>1, TurnedFields
<1>5. CASE StartsAgain(s)
  <2>1. /\ followed'[s].state = "running" /\ followed'[s].starts = followed[s].starts + 1
        /\ followed'[s].mark = followed[s].mark /\ followed'[s].late = followed[s].late
        /\ followed'[s].life = IF followed[s].life = "never" THEN "ran" ELSE followed[s].life
    BY <1>5 DEF StartsAgain, LogsTypeOK, Containers
  <2>2. queue' = queue
    BY <1>5 DEF StartsAgain, Others
  <2>0. followed[s].starts \in Nat
    BY <1>2
  <2>p. followed'[s].starts = followed[s].starts + 1
    BY <2>1
  <2>n. followed'[s].starts # 0
    BY <2>0, <2>p, OneMore
  <2>3. ContainerIs(s)' /\ followed'[s].starts # 0
    BY <1>2, <2>1, <2>n
  <2>4. LooksTell(s)' /\ CutTells(s)'
    BY <1>1, <1>2, <2>1
  <2>5. StaysDown(s)' /\ Drains(s)'
    BY <2>3
  <2> QED BY <2>3, <2>4, <2>5
<1>6. CASE MarksRestart(s)
  <2>1. /\ followed'[s].state = followed[s].state /\ followed'[s].starts = followed[s].starts + 1
        /\ followed'[s].mark /\ followed'[s].late = followed[s].late
        /\ followed'[s].life = followed[s].life
    BY <1>6 DEF MarksRestart, LogsTypeOK, Containers
  <2>2. queue' = queue
    BY <1>6 DEF MarksRestart, Others
  <2>0. followed[s].starts \in Nat
    BY <1>2
  <2>p. followed'[s].starts = followed[s].starts + 1
    BY <2>1
  <2>n. followed'[s].starts # 0
    BY <2>0, <2>p, OneMore
  <2>3. ContainerIs(s)' /\ followed'[s].starts # 0
    BY <1>2, <2>1, <2>n
  <2>4. LooksTell(s)' /\ CutTells(s)'
    BY <1>1, <1>2, <2>1
  <2>5. StaysDown(s)' /\ Drains(s)'
    BY <2>3
  <2> QED BY <2>3, <2>4, <2>5
<1>7. CASE EndsRestart(s)
  <2>1. /\ followed'[s].state = followed[s].state /\ followed'[s].starts = followed[s].starts
        /\ ~followed'[s].mark /\ followed'[s].late = followed[s].late
        /\ followed'[s].life = IF followed[s].state # "running" /\ followed[s].life = "ran"
                               THEN "out" ELSE followed[s].life
    BY <1>7 DEF EndsRestart, LogsTypeOK, Containers
  <2>2. queue' = queue
    BY <1>7 DEF EndsRestart, Others
  <2>3. ContainerIs(s)'
    BY <1>2, <2>1
  <2>4. LooksTell(s)'
    BY <1>1, <1>2, <2>1
  <2>5. CutTells(s)' /\ StaysDown(s)' /\ Drains(s)'
    BY <1>1, <1>2, <2>1, <2>2
  <2> QED BY <2>3, <2>4, <2>5
<1>8. CASE WritesLine(s)
  <2>1. followed' = followed /\ followed[s].state = "running"
    BY <1>8 DEF WritesLine
  <2>2. queue'[s].writing = queue[s].writing
    BY <1>8 DEF WritesLine, LogsTypeOK, Queues
  <2>3. ContainerIs(s)'
    BY <1>2, <2>1
  <2>4. LooksTell(s)'
    BY <1>1, <1>2, <2>1
  <2>5. CutTells(s)' /\ StaysDown(s)' /\ Drains(s)'
    BY <1>1, <1>2, <2>1, <2>2
  <2> QED BY <2>3, <2>4, <2>5
<1> QED BY <1>3, <1>4, <1>5, <1>6, <1>7, <1>8 DEF Container

LEMMA LookKeeps ==
  ASSUME LogsTypeOK, NEW s \in Polled, Followable(s), TakesIn(s)
  PROVE  Followable(s)'
<1>1. PICK look \in {"restarting", "running", "not running", "unknown"} :
        Takes(s, look) /\ look = IF followed[s].mark THEN "restarting" ELSE watcher[s].saw
  <2>1. watcher[s].saw \in {"running", "not running", "unknown"}
    BY DEF LogsTypeOK, Watchers
  <2> QED BY <2>1 DEF TakesIn
<1>2. PICK w \in ExitWatches :
        /\ exitWatch'[s] = w
        /\ look = "restarting" => ~w.counting /\ ~w.settled /\ (w.seen <=> exitWatch[s].seen)
        /\ look = "running" => w.seen /\ ~w.counting /\ ~w.settled
        /\ look = "unknown" => w = exitWatch[s]
        /\ look = "not running" /\ ~exitWatch[s].seen => w = exitWatch[s]
        /\ look = "not running" /\ exitWatch[s].seen =>
             /\ w.seen /\ w.counting
             /\ w.settled => exitWatch[s].settled \/ exitWatch[s].counting
  <2>1. Sees(s, look)
    BY <1>1 DEF Takes
  <2>2. PICK w \in ExitWatches :
          /\ exitWatch' = [exitWatch EXCEPT ![s] = w]
          /\ look = "restarting" => ~w.counting /\ ~w.settled /\ (w.seen <=> exitWatch[s].seen)
          /\ look = "running" => w.seen /\ ~w.counting /\ ~w.settled
          /\ look = "unknown" => w = exitWatch[s]
          /\ look = "not running" /\ ~exitWatch[s].seen => w = exitWatch[s]
          /\ look = "not running" /\ exitWatch[s].seen =>
               /\ w.seen /\ w.counting
               /\ w.settled => exitWatch[s].settled \/ exitWatch[s].counting
    BY ZenonT(40), <2>1, SeesMakes
  <2>3. exitWatch'[s] = w
    BY <2>2 DEF LogsTypeOK
  <2> QED BY <2>2, <2>3
<1>3. /\ LooksAt(s, "answered") /\ watcher'[s].at = "tick" /\ watcher'[s].saw = "unknown"
      /\ queue' = queue /\ stream' = stream
  BY <1>1 DEF Takes, LogsTypeOK, Watchers
<1>4. /\ followed'[s].state = followed[s].state /\ followed'[s].starts = followed[s].starts
      /\ followed'[s].mark = followed[s].mark /\ followed'[s].life = followed[s].life
  <2>1. PICK n : followed' = [followed EXCEPT ![s].late = n]
    BY <1>1 DEF Takes, LateLook
  <2> QED BY <2>1 DEF LogsTypeOK, Containers
<1>a. PICK n :
        /\ followed' = [followed EXCEPT ![s].late = n]
        /\ n = CASE look \in {"running", "restarting"} -> 0
                 [] look = "not running" /\ Runs(s) /\ exitWatch[s].seen /\ followed[s].late < 2
                      -> followed[s].late + 1
                 [] OTHER -> followed[s].late
  BY <1>1 DEF Takes, LateLook
<1>b. followed'[s].late = n
  BY <1>a DEF LogsTypeOK, Containers
<1>c. followed[s].late \in 0..2
  BY DEF LogsTypeOK, Containers
<1>5. /\ look \notin {"running", "restarting"} => n = followed[s].late \/ n = followed[s].late + 1
      /\ look = "unknown" => n = followed[s].late
      /\ look = "not running" /\ ~exitWatch[s].seen => n = followed[s].late
      /\ look = "not running" /\ Runs(s) /\ exitWatch[s].seen =>
           n = IF followed[s].late < 2 THEN followed[s].late + 1 ELSE followed[s].late
  BY <1>a
<1>6. /\ age'[s].asked = age[s].asked /\ age'[s].written = age[s].written
  <2>1. age' = age \/ age' = [age EXCEPT ![s].stopped = age[s].asked]
    BY <1>1 DEF Takes, Sees
  <2>2. CASE age' = [age EXCEPT ![s].stopped = age[s].asked]
    BY <2>2 DEF LogsTypeOK, Ages
  <2> QED BY <2>1, <2>2
<1>7. ContainerIs(s)'
  BY <1>4 DEF Followable, ContainerIs, Runs
<1>8. LooksTell(s)'
  <2>1. CASE look \in {"running", "restarting"}
    BY <1>1, <1>2, <1>3, <1>4, <2>1 DEF Followable, LooksTell, LooksAt
  <2>2. CASE look = "unknown" \/ (look = "not running" /\ ~exitWatch[s].seen)
    <3>1. exitWatch'[s] = exitWatch[s] /\ followed'[s].late = followed[s].late
      BY <1>2, <1>5, <1>b, <2>2
    <3> QED BY <3>1, <1>3, <1>4 DEF Followable, LooksTell, LooksAt
  <2>3. CASE look = "not running" /\ exitWatch[s].seen
    <3>1. /\ exitWatch'[s].seen /\ exitWatch'[s].counting /\ followed[s].life # "never"
          /\ exitWatch'[s].settled => exitWatch[s].counting
      BY <1>2, <2>3 DEF Followable, LooksTell
    <3>2. followed[s].life = "ran" => Runs(s)
      BY <1>1, <2>3 DEF Followable, ContainerIs
    <3>3. followed[s].life = "ran" =>
            n = IF followed[s].late < 2 THEN followed[s].late + 1 ELSE followed[s].late
      BY <1>5, <2>3, <3>2
    <3>4. followed[s].life = "ran" => n >= 1 /\ (followed[s].late >= 1 => n = 2)
      BY <1>c, <3>3, OneMoreOf2
    <3> QED BY <1>3, <1>4, <1>b, <3>1, <3>4 DEF Followable, LooksTell, LooksAt
  <2> QED BY <2>1, <2>2, <2>3
<1>9. CutTells(s)'
  BY <1>3 DEF Followable, CutTells, LooksAt
<1>10. StaysDown(s)'
  <2>1. followed[s].starts = 0 =>
          ~followed[s].mark /\ (look = "not running" => ~Runs(s))
    BY <1>1, <1>3 DEF Followable, ContainerIs, StaysDown
  <2> QED BY <1>2, <1>3, <1>4, <2>1 DEF Followable, StaysDown, LooksAt, Runs
<1>11. Drains(s)'
  <2>1. exitWatch'[s].settled => exitWatch[s].settled \/ exitWatch[s].counting
    BY <1>2
  <2>2. exitWatch'[s].settled => exitWatch[s].counting
    BY <2>1 DEF Followable, LooksTell
  <2> QED BY <1>3, <1>4, <1>6, <2>2 DEF Followable, Drains, LooksAt
<1> QED BY <1>7, <1>8, <1>9, <1>10, <1>11 DEF Followable

LEMMA StepKeeps ==
  ASSUME LogsTypeOK, NEW s \in Polled, Followable(s), Follows(s) \/ RuntimeHangs(s)
  PROVE  Followable(s)'
<1> USE DEF Followable, ContainerIs, LooksTell, CutTells, StaysDown, Drains, Runs, LooksAt
<1>1. CASE HandsOver(s)
  <2>1. /\ followed' = followed /\ watcher' = watcher /\ exitWatch' = exitWatch
        /\ age' = age /\ stream' = stream
    BY <1>1 DEF HandsOver
  <2>2. queue'[s].writing
    BY <1>1 DEF HandsOver, LogsTypeOK, Queues
  <2> QED BY <2>1, <2>2
<1>2. CASE LineIsOut(s)
  <2>1. /\ followed' = followed /\ watcher' = watcher /\ exitWatch' = exitWatch /\ stream' = stream
    BY <1>2 DEF LineIsOut
  <2>2. age'[s].asked = age[s].asked /\ age'[s].written = 0
    BY <1>2 DEF LineIsOut, LogsTypeOK, Ages
  <2>3. Drains(s)'
    <3>1. 0 < Drain
      BY SettingsCount
    <3> QED BY <2>2, <3>1
  <2> QED BY <2>1, <2>3
<1>3. CASE Tick(s)
  <2>1. followed' = followed /\ exitWatch' = exitWatch /\ queue' = queue
    BY <1>3 DEF Tick
  <2>2. watcher'[s].at \in {"asking", "over"}
    BY ZenonT(40), <1>3 DEF Tick, LookGoes, LogsTypeOK, Watchers
  <2>3. ContainerIs(s)' /\ LooksTell(s)' /\ StaysDown(s)'
    BY <2>1, <2>2
  <2>4. CutTells(s)'
    <3>1. CASE stream' = stream
      BY <1>3, <2>1, <2>2, <3>1 DEF Tick
    <3>2. CASE stream' # stream
      <4>1. exitWatch[s].settled /\ watcher'[s].at = "over"
        BY <1>3, <3>2 DEF Tick, LookGoes, LogsTypeOK, Watchers
      <4>2. followed[s].life = "out" \/ followed[s].late = 2
        BY <4>1 DEF LogsTypeOK, Containers
      <4> QED BY <2>1, <4>1, <4>2
    <3> QED BY <3>1, <3>2
  <2>5. Drains(s)'
    <3>1. CASE watcher'[s].at = "asking"
      <4>1. age'[s].asked = 0
        <5>1. \/ watcher' = [watcher EXCEPT ![s].at = "over"]
              \/ age' = [age EXCEPT ![s].asked = 0]
          BY <1>3 DEF Tick, LookGoes
        <5>2. watcher' # [watcher EXCEPT ![s].at = "over"]
          BY ZenonT(40), <3>1 DEF LogsTypeOK, Watchers
        <5>3. age' = [age EXCEPT ![s].asked = 0]
          BY <5>1, <5>2
        <5> QED BY <5>3 DEF LogsTypeOK, Ages
      <4>2. ~(age'[s].asked >= 1)
        BY <4>1, SettingsCount
      <4> QED BY <4>2
    <3>2. CASE watcher'[s].at = "over"
      <4>1. age' = age /\ (stream'[s] = "on" => stream[s] = "on")
        BY <1>3, <3>2 DEF Tick, LookGoes, LogsTypeOK, Watchers, StreamOver, Polled
      <4> QED BY <2>1, <3>2, <4>1
    <3> QED BY <2>2, <3>1, <3>2
  <2> QED BY <2>3, <2>4, <2>5
<1>4. CASE Answers(s)
  <2>1. /\ followed' = followed /\ exitWatch' = exitWatch /\ queue' = queue
        /\ age' = age /\ stream' = stream /\ watcher[s].at = "asking"
    BY <1>4 DEF Answers
  <2>2. /\ watcher'[s].at = "answered"
        /\ watcher'[s].saw = "running" => Runs(s)
        /\ watcher'[s].saw = "not running" => ~Runs(s)
    <3>1. PICK a \in {"running", "not running", "unknown"} :
            /\ watcher' = [watcher EXCEPT ![s].at = "answered", ![s].saw = a]
            /\ a = "running" => Runs(s)
            /\ a = "not running" => ~Runs(s)
      BY <1>4 DEF Answers
    <3>2. watcher'[s].at = "answered" /\ watcher'[s].saw = a
      BY <3>1, ZenonT(60) DEF LogsTypeOK, Watchers
    <3> QED BY <3>1, <3>2
  <2> QED BY <2>1, <2>2
<1>5. CASE TakesIn(s)
  BY <1>5, LookKeeps
<1>6. CASE RuntimeHangs(s)
  <2>1. /\ followed' = followed /\ exitWatch' = exitWatch /\ queue' = queue
        /\ age' = age /\ stream' = stream /\ watcher[s].at = "asking"
    BY <1>6 DEF RuntimeHangs
  <2>2. watcher'[s].at = "hung"
    BY <1>6 DEF RuntimeHangs, LookGoes, LogsTypeOK, Watchers
  <2> QED BY <2>1, <2>2, Zenon
<1> QED BY <1>1, <1>2, <1>3, <1>4, <1>5, <1>6 DEF Follows

\* A beat makes every age older, and comes only while no line is overdue.
LEMMA BeatKeeps ==
  ASSUME LogsTypeOK, NEW s \in Polled, Followable(s), Beat
  PROVE  Followable(s)'
<1>1. /\ followed' = followed /\ queue' = queue /\ watcher' = watcher
      /\ exitWatch' = exitWatch /\ stream' = stream
  BY DEF Beat
<1>2. ContainerIs(s)' /\ LooksTell(s)' /\ CutTells(s)' /\ StaysDown(s)'
  BY <1>1 DEF Followable, ContainerIs, LooksTell, CutTells, StaysDown, Runs, LooksAt
<1>3. age'[s].written = Older(age[s].written, Drain)
  BY DEF Beat
<1>4. stream[s] = "on" /\ queue[s].lines > 0 /\ ~queue[s].writing => age[s].written + 1 < Drain
  BY DEF Beat
<1>5. age[s].written \in Nat /\ Drain \in Nat
  BY LogsAssumption DEF LogsTypeOK, Ages
<1>6. age[s].written + 1 < Drain => age'[s].written < Drain
  BY <1>3, <1>5 DEF Older
<1>7. Drains(s)'
  BY <1>1, <1>4, <1>6 DEF Drains
<1> QED BY <1>2, <1>7 DEF Followable

\* A step of one service's container, watcher or reader is no other service's.
LEMMA StepIsItsOwn ==
  ASSUME LogsTypeOK, NEW s \in Polled, NEW t \in Polled, s # t,
         Container(t) \/ Follows(t) \/ RuntimeHangs(t)
  PROVE  /\ followed'[s] = followed[s] /\ queue'[s] = queue[s] /\ watcher'[s] = watcher[s]
         /\ exitWatch'[s] = exitWatch[s] /\ age'[s] = age[s] /\ stream'[s] = stream[s]
<1>1. CASE Container(t)
  BY <1>1, Zenon DEF LogsTypeOK, Container, StopsRunning, StartsAgain, MarksRestart, RestartBringsUp,
              EndsRestart, WritesLine, Turns, Others
<1>2. CASE HandsOver(t)
  BY <1>2 DEF LogsTypeOK, HandsOver
<1>3. CASE LineIsOut(t)
  BY <1>3 DEF LogsTypeOK, LineIsOut
<1>4. CASE Tick(t)
  <2>1. stream' = stream \/ stream' = [stream EXCEPT ![t] = "cut"]
    BY <1>4 DEF Tick
  <2>2. age' = age \/ age' = [age EXCEPT ![t].asked = 0]
    BY <1>4 DEF Tick
  <2>3. PICK p : watcher' = [watcher EXCEPT ![t].at = p]
    BY <1>4 DEF Tick, LookGoes
  <2>4. followed' = followed /\ queue' = queue /\ exitWatch' = exitWatch
    BY <1>4 DEF Tick
  <2>5. stream'[s] = stream[s]
    BY <2>1 DEF LogsTypeOK, Polled
  <2>6. age'[s] = age[s] /\ watcher'[s] = watcher[s]
    BY <2>2, <2>3 DEF LogsTypeOK
  <2> QED BY <2>4, <2>5, <2>6
<1>5. CASE Answers(t)
  <2>1. PICK a : watcher' = [watcher EXCEPT ![t].at = "answered", ![t].saw = a]
    BY <1>5 DEF Answers
  <2> QED BY <1>5, <2>1 DEF LogsTypeOK, Answers
<1>6. CASE TakesIn(t)
  <2>1. PICK look \in {"restarting", "running", "not running", "unknown"} : Takes(t, look)
    <3>1. watcher[t].saw \in {"running", "not running", "unknown"}
      BY DEF LogsTypeOK, Watchers
    <3> QED BY <1>6, <3>1 DEF TakesIn
  <2>2. exitWatch'[s] = exitWatch[s]
    <3>1. Sees(t, look)
      BY <2>1 DEF Takes
    <3> QED BY <3>1, SeesTypes
  <2>3. age' = age \/ age' = [age EXCEPT ![t].stopped = age[t].asked]
    BY <2>1 DEF Takes, Sees
  <2>4. PICK n : followed' = [followed EXCEPT ![t].late = n]
    BY <2>1 DEF Takes, LateLook
  <2>5. /\ watcher' = [watcher EXCEPT ![t].at = "tick", ![t].saw = "unknown"]
        /\ queue' = queue /\ stream' = stream
    BY <2>1 DEF Takes
  <2>6. followed'[s] = followed[s]
    BY <2>4 DEF LogsTypeOK
  <2>7. age'[s] = age[s] /\ watcher'[s] = watcher[s]
    BY <2>3, <2>5 DEF LogsTypeOK
  <2> QED BY <2>2, <2>5, <2>6, <2>7
<1>7. CASE RuntimeHangs(t)
  BY <1>7 DEF LogsTypeOK, RuntimeHangs, LookGoes
<1> QED BY <1>1, <1>2, <1>3, <1>4, <1>5, <1>6, <1>7 DEF Follows

LEMMA LogsInvStep == LogsInv /\ [LogsNext]_logsVars => LogsInv'
<1> SUFFICES ASSUME LogsInv, [LogsNext]_logsVars PROVE LogsInv'
  OBVIOUS
<1>1. LogsTypeOK'
  BY LogsTypes DEF LogsInv
<1>2. ASSUME NEW s \in Polled PROVE Followable(s)'
  <2>0. LogsTypeOK /\ Followable(s) /\ s \in Followed
    BY <1>2 DEF LogsInv, Polled
  <2>1. ASSUME NEW t \in Polled, Container(t) \/ Follows(t) \/ RuntimeHangs(t)
        PROVE  Followable(s)'
    <3>1. CASE s = t
      BY <2>0, <2>1, <3>1, ContainerKeeps, StepKeeps
    <3>2. CASE s # t
      BY <2>0, <2>1, <3>2, StepIsItsOwn, Undisturbed
    <3> QED BY <3>1, <3>2
  <2>2. ASSUME NEW t \in Followed, StreamEnds(t) \/ Returns(t)
        PROVE  Followable(s)'
    <3>1. /\ followed' = followed /\ queue' = queue /\ watcher' = watcher
          /\ exitWatch' = exitWatch /\ age' = age
      BY <2>2 DEF StreamEnds, Returns
    <3>2. stream'[s] # stream[s] => stream'[s] \in {"ended", "failed"}
      BY <2>0, <2>2 DEF StreamEnds, Returns, LogsTypeOK
    <3> QED BY <2>0, <3>1, <3>2
            DEF Followable, ContainerIs, LooksTell, CutTells, StaysDown, Drains, Runs, LooksAt
  <2>3. CASE Beat
    BY <2>0, <2>3, BeatKeeps
  <2>4. CASE CtrlC
    <3>1. /\ followed' = followed /\ queue' = queue /\ watcher' = watcher
          /\ exitWatch' = exitWatch /\ age' = age
      BY <2>4 DEF CtrlC
    <3>2. stream'[s] # stream[s] => stream'[s] \in {"ended", "failed"}
      BY <2>0, <2>4 DEF CtrlC, LogsTypeOK
    <3> QED BY <2>0, <3>1, <3>2
            DEF Followable, ContainerIs, LooksTell, CutTells, StaysDown, Drains, Runs, LooksAt
  <2>5. CASE EndsLogs \/ UNCHANGED logsVars
    BY <2>0, <2>5, Undisturbed DEF EndsLogs, logsVars
  <2> QED BY <2>1, <2>2, <2>3, <2>4, <2>5 DEF LogsNext
<1> QED BY <1>1, <1>2 DEF LogsInv, Polled

LEMMA LogsInvInit == LogsInit => LogsInv
<1> SUFFICES ASSUME LogsInit PROVE LogsInv
  OBVIOUS
<1>1. PICK st \in [Polled -> {"running", "down"}] :
        followed = [s \in Polled |-> [state |-> st[s], mark |-> FALSE, starts |-> 0, late |-> 0,
                                    life |-> IF st[s] = "running" THEN "ran" ELSE "never"]]
  BY DEF LogsInit
<1>2. followed \in [Polled -> Containers]
  BY <1>1 DEF Containers
<1>3. queue \in [Polled -> Queues] /\ watcher \in [Polled -> Watchers]
  BY DEF LogsInit, Queues, Watchers
<1>4. exitWatch \in [Polled -> ExitWatches]
  BY DEF LogsInit, ExitWatches
<1>5. age \in [Polled -> Ages]
  <2>1. Poll \in Nat
    BY LogsAssumption
  <2> QED BY <2>1 DEF LogsInit, Ages
<1>6. stream \in [Followed -> {"on", "cut", "ended", "failed"}]
  BY DEF LogsInit
<1>7. ASSUME NEW s \in Polled PROVE Followable(s)
  <2>1. /\ Runs(s) => followed[s].life = "ran"
        /\ ~Runs(s) => followed[s].life = "never"
        /\ ~followed[s].mark
    BY <1>1 DEF Runs
  <2>2. /\ watcher[s].at = "tick" /\ stream[s] = "on"
        /\ ~exitWatch[s].seen /\ ~exitWatch[s].counting /\ ~exitWatch[s].settled
    BY DEF LogsInit, Polled
  <2> QED BY <2>1, <2>2 DEF Followable, ContainerIs, LooksTell, CutTells, StaysDown, Drains, LooksAt
<1> QED BY <1>2, <1>3, <1>4, <1>5, <1>6, <1>7 DEF LogsInv, LogsTypeOK

-----------------------------------------------------------------------------
\* The state of a followed container, of what is read of it and of what the
\* watcher makes of it hang together as said above (Logs, followUntilExit).
THEOREM WatcherKnows == LogsSpec => []LogsInv
<1> QED BY LogsInvInit, LogsInvStep, PTL DEF LogsSpec

\* Whatever is settled at a cut has been drained: nothing is left behind.
LEMMA CutIsWhole ==
  ASSUME LogsInv, [LogsNext]_logsVars, NEW s \in Polled,
         stream[s] = "on", stream'[s] = "cut", followed[s].starts = 0
  PROVE  queue[s].lines = 0 /\ ~queue[s].writing
<1>1. LogsTypeOK /\ Followable(s) /\ s \in Followed
  BY DEF LogsInv, Polled
<1>2. ASSUME NEW t \in Polled, Container(t) \/ Follows(t) \/ RuntimeHangs(t)
      PROVE  Tick(s)
  <2>1. s = t
    BY <1>1, <1>2, StepIsItsOwn
  <2>2. CASE Container(s)
    BY <2>2 DEF Container, StopsRunning, StartsAgain, MarksRestart, RestartBringsUp, EndsRestart,
                WritesLine, Others
  <2>3. CASE Follows(s) \/ RuntimeHangs(s)
    BY <2>3 DEF Follows, HandsOver, LineIsOut, Answers, TakesIn, Takes, RuntimeHangs
  <2> QED BY <1>2, <2>1, <2>2, <2>3
<1>3. Tick(s) /\ stream' # stream
  <2>1. ASSUME NEW t \in Followed, StreamEnds(t) \/ Returns(t) PROVE FALSE
    BY <1>1, <2>1 DEF StreamEnds, Returns, LogsTypeOK
  <2>2. CASE CtrlC
    BY <1>1, <2>2 DEF CtrlC, LogsTypeOK
  <2>3. CASE Beat \/ EndsLogs \/ UNCHANGED logsVars
    BY <2>3 DEF Beat, EndsLogs, logsVars
  <2> QED BY <1>2, <2>1, <2>2, <2>3 DEF LogsNext
<1>4. exitWatch[s].settled /\ Idle(s) /\ age[s].asked >= Poll
  BY <1>3 DEF Tick, StreamOver
<1>5. exitWatch[s].counting /\ age[s].asked >= 1
  <2>1. age[s].asked \in Nat /\ Poll \in Nat
    BY <1>1, LogsAssumption DEF LogsTypeOK, Ages
  <2>2. age[s].asked >= 1
    BY <1>4, <2>1, SettingsCount
  <2> QED BY <1>1, <1>4, <2>2 DEF Followable, LooksTell
<1>6. ~(queue[s].lines > 0)
  <2>1. age[s].written \in Nat /\ Drain \in Nat
    BY <1>1, LogsAssumption DEF LogsTypeOK, Ages
  <2>2. ~(age[s].written < Drain) /\ ~queue[s].writing
    BY <1>4, <2>1 DEF Idle
  <2> QED BY <1>1, <1>4, <1>5, <2>2 DEF Followable, Drains
<1>7. queue[s].lines \in Nat
  BY <1>1 DEF LogsTypeOK, Queues
<1> QED BY <1>4, <1>6, <1>7 DEF Idle

\* "Has been seen running while followed and has then stayed not running": a
\* stream is only cut of a container that went down outside a restart, or
\* after two looks in a row that came as a restart ended, and the cut leaves
\* behind no line of a container never started again (followUntilExit).
THEOREM StreamsAlwaysEndWhole == LogsSpec => StreamsEndWhole
<1>1. LogsInv => OnlyAnEndEnds
  BY DEF LogsInv, Followable, CutTells, OnlyAnEndEnds
<1>2. LogsInv /\ [LogsNext]_logsVars
        => [\A s \in Polled : stream[s] = "on" /\ stream'[s] = "cut" /\ followed[s].starts = 0
              => queue[s].lines = 0 /\ ~queue[s].writing]_logsVars
  BY CutIsWhole
<1> QED BY <1>1, <1>2, WatcherKnows, PTL DEF LogsSpec, StreamsEndWhole, AllIsHandedOver

-----------------------------------------------------------------------------
(* The watch: a saved file is in the container, and in use.                *)

Versions == [Files -> Nat]
FilesTypeOK ==
  /\ saved \in Versions /\ inside \in [SyncedServices -> Versions]
  /\ process \in [SyncedServices -> Versions]
  /\ events \in Seq(Files \cup Dirs) /\ owed \subseteq {f \in Files : FirstRule[f] # {}}
  /\ loop \in {"select", "changes", "rebuilds"}

\* What is owed is on its way.
OnItsWay ==
  \A f \in owed : (\E i \in 1..Len(events) : events[i] = f) \/ f \in pending \/ f \in batch

\* What is synced from where the watch looked from the start is in, reported or owed.
Looked(f) == DirOf[f] \in Roots /\ Watchable(DirOf[f])
InOrOwed ==
  /\ {d \in Roots : Watchable(d)} \subseteq watched
  /\ \A f \in Synced : Looked(f) =>
       inside[RuleOf[f].svc][f] = saved[f] \/ f \in warned \/ f \in owed

\* The process of a service with a file to restart for has it, was reported, or is
\* still to be restarted; a service rebuilt in this batch runs on what it has.
InUse(s, f) == process[s][f] = inside[s][f] \/ s \in warned
InUseOrDue ==
  /\ \A f \in Synced : RuleOf[f].action = "sync+restart" =>
       InUse(RuleOf[f].svc, f) \/ RuleOf[f].svc \in restarts
  /\ \A s \in rebuilt : s \in SyncedServices => \A f \in Files : InUse(s, f)

\* What a batch has in hand outside its steps: nothing.
BatchInHand ==
  /\ loop # "changes" => batch = {}
  /\ loop # "rebuilds" => rebuilt = {}
  /\ loop = "select" => restarts = {}

FilesInv == FilesTypeOK /\ OnItsWay /\ InOrOwed /\ InUseOrDue /\ BatchInHand

LEMMA RulesAre ==
  ASSUME NEW f \in Files, FirstRule[f] # {}
  PROVE  RuleOf[f].svc \in SyncedServices /\ \E i \in DOMAIN Rules : RuleOf[f] = Rules[i]
<1>1. FirstRule[f] \subseteq DOMAIN Rules
  BY DEF FirstRule
<1>2. (CHOOSE i \in FirstRule[f] : TRUE) \in FirstRule[f]
  OBVIOUS
<1>3. RuleOf[f] = Rules[CHOOSE i \in FirstRule[f] : TRUE]
  BY DEF RuleOf
<1> QED BY <1>1, <1>2, <1>3 DEF SyncedServices

LEMMA SyncedAre == \A f \in Synced : f \in Files /\ FirstRule[f] # {} /\ RuleOf[f].svc \in SyncedServices
BY RulesAre DEF Synced

LEMMA FilesInvInit == FilesInit => FilesInv
<1> SUFFICES ASSUME FilesInit PROVE FilesInv
  OBVIOUS
<1>1. FilesTypeOK
  BY DEF FilesInit, FilesTypeOK, Versions
<1>2. OnItsWay /\ BatchInHand
  BY DEF FilesInit, OnItsWay, BatchInHand
<1>3. InOrOwed
  BY SyncedAre DEF FilesInit, InOrOwed
<1>4. InUseOrDue
  BY SyncedAre DEF FilesInit, InUseOrDue, InUse
<1> QED BY <1>1, <1>2, <1>3, <1>4 DEF FilesInv

LEMMA FileSaveKeeps ==
  ASSUME FilesInv, NEW f \in Files, SavesFile(f)
  PROVE  FilesInv'
<1> USE DEF FilesInv
<1>1. FilesTypeOK'
  <2>1. saved' \in Versions
    BY DEF SavesFile, FilesTypeOK, Versions
  <2>2. events' \in Seq(Files \cup Dirs) /\ owed' \subseteq {g \in Files : FirstRule[g] # {}}
    BY DEF SavesFile, FilesTypeOK
  <2> QED BY <2>1, <2>2 DEF SavesFile, FilesTypeOK, loopVars, boxVars
<1>2. OnItsWay'
  <2>1. CASE DirOf[f] \in watched
    <3>1. events' = Append(events, f) /\ owed' \subseteq owed \cup {f} /\ pending' = pending /\ batch' = batch
      BY <2>1 DEF SavesFile, loopVars
    <3>2. events'[Len(events')] = f /\ Len(events') = Len(events) + 1
          /\ \A i \in 1..Len(events) : events'[i] = events[i]
      BY <3>1 DEF FilesTypeOK
    <3>3. Len(events) \in Nat
      BY DEF FilesTypeOK
    <3> QED BY <3>1, <3>2, <3>3 DEF OnItsWay
  <2>2. CASE DirOf[f] \notin watched
    BY <2>2 DEF SavesFile, OnItsWay, loopVars
  <2> QED BY <2>1, <2>2
<1>3. InOrOwed'
  <2>1. watched' = watched /\ inside' = inside /\ warned' = warned
    BY DEF SavesFile, boxVars
  <2>2. ASSUME NEW g \in Synced, Looked(g)
        PROVE  inside'[RuleOf[g].svc][g] = saved'[g] \/ g \in warned' \/ g \in owed'
    <3>1. CASE g = f
      BY <2>2, <3>1, SyncedAre DEF SavesFile, InOrOwed, Looked
    <3>2. CASE g # f
      <4>1. saved'[g] = saved[g] /\ (g \in owed => g \in owed')
        BY <2>2, <3>2, SyncedAre DEF SavesFile, FilesTypeOK, Versions
      <4> QED BY <2>1, <2>2, <4>1 DEF InOrOwed
    <3> QED BY <3>1, <3>2
  <2> QED BY <2>1, <2>2 DEF InOrOwed, Looked
<1>4. InUseOrDue' /\ BatchInHand'
  BY Zenon DEF SavesFile, InUseOrDue, InUse, BatchInHand, loopVars, boxVars
<1> QED BY <1>1, <1>2, <1>3, <1>4

LEMMA QueueKeeps ==
  ASSUME FilesInv, (\E d \in Dirs : MakesDir(d)) \/ TakesEvent \/ Flushes \/ TurnsToRebuilds \/ EndsBatch
  PROVE  FilesInv'
<1> USE DEF FilesInv
<1>1. /\ saved' = saved /\ inside' = inside /\ process' = process /\ warned' = warned /\ owed' = owed
      /\ watched \subseteq watched'
  BY DEF MakesDir, TakesEvent, Flushes, TurnsToRebuilds, EndsBatch, loopVars, boxVars, hostVars
<1>2. FilesTypeOK'
  <2>1. events' \in Seq(Files \cup Dirs)
    BY DEF MakesDir, TakesEvent, Flushes, TurnsToRebuilds, EndsBatch, hostVars, FilesTypeOK
  <2>2. loop' \in {"select", "changes", "rebuilds"}
    BY DEF MakesDir, TakesEvent, Flushes, TurnsToRebuilds, EndsBatch, loopVars, FilesTypeOK
  <2> QED BY <1>1, <2>1, <2>2 DEF FilesTypeOK
<1>3. OnItsWay'
  <2>1. ASSUME NEW d \in Dirs, MakesDir(d) PROVE OnItsWay'
    <3>1. events' = Append(events, d) /\ pending' = pending /\ batch' = batch
      BY <2>1 DEF MakesDir, loopVars
    <3>2. Len(events') = Len(events) + 1 /\ \A i \in 1..Len(events) : events'[i] = events[i]
      BY <2>1, <3>1 DEF FilesTypeOK
    <3>3. Len(events) \in Nat
      BY DEF FilesTypeOK
    <3> QED BY <1>1, <3>1, <3>2, <3>3 DEF OnItsWay
  <2>2. CASE TakesEvent
    <3>1. /\ events' = Tail(events) /\ events # <<>> /\ batch' = batch /\ pending \subseteq pending'
          /\ Head(events) \in Files => Head(events) \in pending'
      BY <2>2 DEF TakesEvent
    <3>2. /\ Len(events) \in Nat /\ Len(events) > 0 /\ Head(events) = events[1]
          /\ Len(events') = Len(events) - 1
          /\ \A i \in 1..Len(events') : events'[i] = events[i + 1]
      BY <3>1 DEF FilesTypeOK
    <3>3. ASSUME NEW f \in owed, NEW i \in 1..Len(events), events[i] = f
          PROVE  (\E j \in 1..Len(events') : events'[j] = f) \/ f \in pending'
      <4>1. CASE i = 1
        BY <3>1, <3>2, <3>3, <4>1 DEF FilesTypeOK
      <4>2. CASE i # 1
        <5>1. i - 1 \in 1..Len(events') /\ (i - 1) + 1 = i
          BY <3>2, <3>3, <4>2
        <5>2. events'[i - 1] = events[(i - 1) + 1]
          BY <3>2, <5>1
        <5> QED BY <3>3, <5>1, <5>2
      <4> QED BY <4>1, <4>2
    <3> QED BY <1>1, <3>1, <3>3 DEF OnItsWay
  <2>3. CASE Flushes
    BY <1>1, <2>3 DEF Flushes, OnItsWay, hostVars, BatchInHand
  <2>4. CASE TurnsToRebuilds \/ EndsBatch
    BY <1>1, <2>4 DEF TurnsToRebuilds, EndsBatch, OnItsWay, hostVars
  <2> QED BY <2>1, <2>2, <2>3, <2>4
<1>4. InOrOwed'
  BY <1>1 DEF InOrOwed, Looked
<1>5. InUseOrDue'
  <2>1. restarts' = restarts /\ rebuilt' \subseteq rebuilt
    BY DEF MakesDir, TakesEvent, Flushes, TurnsToRebuilds, EndsBatch, loopVars
  <2> QED BY <1>1, <2>1 DEF InUseOrDue, InUse
<1>6. BatchInHand'
  BY DEF MakesDir, TakesEvent, Flushes, TurnsToRebuilds, EndsBatch, loopVars, BatchInHand, FilesTypeOK
<1> QED BY <1>2, <1>3, <1>4, <1>5, <1>6


LEMMA ChangeKeeps ==
  ASSUME FilesInv, NEW f \in Files, HandlesChange(f)
  PROVE  FilesInv'
<1> USE DEF FilesInv
<1>1. /\ saved' = saved /\ watched' = watched /\ events' = events /\ pending' = pending
      /\ loop' = loop /\ loop = "changes" /\ rebuilt' = rebuilt /\ process' = process
      /\ batch' = batch \ {f}
  BY DEF HandlesChange
<1>2. /\ owed' \subseteq owed /\ owed \ {f} \subseteq owed'
      /\ FirstRule[f] # {} => f \notin owed'
      /\ restarts \subseteq restarts'
      /\ warned' \in {warned, warned \ {f}, warned \cup {f}}
      /\ f \notin Synced => inside' = inside /\ warned' = warned
  BY DEF HandlesChange, Copies
<1>3. /\ \A g \in Files, s \in SyncedServices : g # f => inside'[s][g] = inside[s][g]
      /\ inside' \in [SyncedServices -> Versions]
  <2>1. CASE inside' = inside
    BY <2>1 DEF FilesTypeOK
  <2>2. CASE inside' = [inside EXCEPT ![RuleOf[f].svc][f] = saved[f]] /\ f \in Synced
    BY <2>2, SyncedAre, Zenon DEF FilesTypeOK, Versions
  <2> QED BY <2>1, <2>2 DEF HandlesChange, Copies
<1>4. f \in Synced => /\ inside'[RuleOf[f].svc][f] = saved[f] \/ f \in warned'
                      /\ RuleOf[f].action = "sync+restart" => RuleOf[f].svc \in restarts'
  <2> SUFFICES ASSUME f \in Synced
               PROVE  /\ inside'[RuleOf[f].svc][f] = saved[f] \/ f \in warned'
                      /\ RuleOf[f].action = "sync+restart" => RuleOf[f].svc \in restarts'
    OBVIOUS
  <2>1. FirstRule[f] # {} /\ RuleOf[f].svc \in SyncedServices
    BY SyncedAre
  <2>2. Copies(RuleOf[f].svc, f)
        /\ (RuleOf[f].action = "sync+restart" => restarts' = restarts \cup {RuleOf[f].svc})
    BY <2>1 DEF HandlesChange
  <2> QED BY <2>1, <2>2 DEF Copies, FilesTypeOK, Versions
<1>5. FilesTypeOK'
  BY <1>1, <1>2, <1>3 DEF FilesTypeOK
<1>6. OnItsWay'
  <2>1. ASSUME NEW g \in owed'
        PROVE  (\E i \in 1..Len(events) : events[i] = g) \/ g \in pending \/ g \in batch \ {f}
    <3>1. CASE g # f
      BY <1>2, <2>1, <3>1 DEF OnItsWay
    <3>2. CASE g = f
      BY <1>2, <2>1, <3>2 DEF FilesTypeOK
    <3> QED BY <3>1, <3>2
  <2> QED BY <1>1, <2>1 DEF OnItsWay
<1>7. InOrOwed'
  <2>1. ASSUME NEW g \in Synced, Looked(g)
        PROVE  inside'[RuleOf[g].svc][g] = saved'[g] \/ g \in warned' \/ g \in owed'
    <3>1. CASE g = f
      BY <1>1, <1>4, <3>1
    <3>2. CASE g # f
      BY <1>1, <1>2, <1>3, <2>1, <3>2, SyncedAre DEF InOrOwed
    <3> QED BY <3>1, <3>2
  <2> QED BY <1>1, <2>1 DEF InOrOwed, Looked
<1>8. InUseOrDue'
  <2>1. ASSUME NEW g \in Synced, RuleOf[g].action = "sync+restart"
        PROVE  InUse(RuleOf[g].svc, g)' \/ RuleOf[g].svc \in restarts'
    <3>1. CASE g = f
      BY <1>4, <2>1, <3>1
    <3>2. CASE g # f
      <4>1. RuleOf[g].svc # f
        BY SyncedAre, FilesAssumption
      <4> QED BY <1>1, <1>2, <1>3, <2>1, <3>2, <4>1, SyncedAre DEF InUseOrDue, InUse
    <3> QED BY <3>1, <3>2
  <2> QED BY <1>1, <2>1 DEF InUseOrDue, BatchInHand
<1>9. BatchInHand'
  BY <1>1 DEF BatchInHand
<1> QED BY <1>5, <1>6, <1>7, <1>8, <1>9

LEMMA RebuildKeeps ==
  ASSUME FilesInv, NEW s \in SyncedServices, Rebuilds(s)
  PROVE  FilesInv'
<1> USE DEF FilesInv
<1>1. /\ saved' = saved /\ watched' = watched /\ events' = events /\ owed' = owed
      /\ pending' = pending /\ batch' = batch /\ loop' = loop /\ loop = "rebuilds"
      /\ restarts' = restarts /\ rebuilt' = rebuilt \cup {s}
  BY DEF Rebuilds, hostVars
<1>2. CASE /\ inside' = [inside EXCEPT ![s] = saved] /\ process' = [process EXCEPT ![s] = saved]
           /\ warned' = warned \ {s}
  <2>1. FilesTypeOK'
    BY <1>1, <1>2 DEF FilesTypeOK
  <2>2. \A t \in SyncedServices : /\ inside'[t] = IF t = s THEN saved ELSE inside[t]
                                  /\ process'[t] = IF t = s THEN saved ELSE process[t]
    BY <1>2 DEF FilesTypeOK
  <2>3. \A g \in Files : g \in warned => g \in warned'
    BY <1>2, FilesAssumption
  <2>4. InOrOwed'
    BY <1>1, <2>2, <2>3, SyncedAre DEF InOrOwed, Looked
  <2>5. \A t \in SyncedServices, g \in Files : /\ InUse(t, g) => InUse(t, g)'
                                               /\ InUse(s, g)'
    BY <1>2, <2>2 DEF InUse
  <2>6. InUseOrDue'
    BY <1>1, <2>5, SyncedAre DEF InUseOrDue
  <2> QED BY <1>1, <2>1, <2>4, <2>6 DEF OnItsWay, BatchInHand
<1>3. CASE warned' = warned \cup {s} /\ UNCHANGED boxVars
  <2>1. FilesTypeOK'
    BY <1>1, <1>3 DEF FilesTypeOK, boxVars
  <2>2. InOrOwed'
    BY <1>1, <1>3 DEF InOrOwed, Looked, boxVars
  <2>3. InUseOrDue'
    BY <1>1, <1>3 DEF InUseOrDue, InUse, boxVars
  <2> QED BY <1>1, <2>1, <2>2, <2>3 DEF OnItsWay, BatchInHand
<1> QED BY <1>2, <1>3 DEF Rebuilds

LEMMA RestartKeeps ==
  ASSUME FilesInv, NEW s \in SyncedServices, Restarts(s)
  PROVE  FilesInv'
<1> USE DEF FilesInv
<1>1. /\ saved' = saved /\ watched' = watched /\ events' = events /\ owed' = owed
      /\ pending' = pending /\ batch' = batch /\ loop' = loop /\ loop = "rebuilds"
      /\ rebuilt' = rebuilt /\ inside' = inside /\ restarts' = restarts \ {s}
      /\ rebuilds \subseteq rebuilt /\ s \in restarts
  BY DEF Restarts, hostVars
<1>2. /\ process' \in [SyncedServices -> Versions]
      /\ \A t \in SyncedServices \ {s} : process'[t] = process[t]
      /\ warned' \in {warned, warned \ {s}, warned \cup {s}}
  BY DEF Restarts, FilesTypeOK
<1>3. \A g \in Files : InUse(s, g)'
  <2>1. CASE SkipsRestart(s)
    <3>1. s \in rebuilt /\ process' = process /\ warned' = warned
      BY <1>1, <2>1 DEF Restarts, SkipsRestart
    <3> QED BY <1>1, <3>1 DEF InUseOrDue, InUse
  <2>2. CASE process' = [process EXCEPT ![s] = inside[s]]
    BY <1>1, <2>2 DEF InUse, FilesTypeOK
  <2>3. CASE warned' = warned \cup {s}
    BY <2>3 DEF InUse
  <2> QED BY <2>1, <2>2, <2>3 DEF Restarts
<1>4. \A t \in SyncedServices \ {s}, g \in Files : InUse(t, g) => InUse(t, g)'
  BY <1>1, <1>2 DEF InUse
<1>5. FilesTypeOK'
  BY <1>1, <1>2 DEF FilesTypeOK
<1>6. InOrOwed'
  <2>1. \A g \in Files : g \in warned => g \in warned'
    BY <1>2, FilesAssumption
  <2> QED BY <1>1, <2>1, SyncedAre DEF InOrOwed, Looked
<1>7. InUseOrDue'
  BY <1>1, <1>3, <1>4, SyncedAre DEF InUseOrDue
<1> QED BY <1>1, <1>5, <1>6, <1>7 DEF OnItsWay, BatchInHand

LEMMA FilesInvStep == FilesInv /\ [FilesNext]_filesVars => FilesInv'
<1> SUFFICES ASSUME FilesInv, [FilesNext]_filesVars PROVE FilesInv'
  OBVIOUS
<1>1. ASSUME NEW f \in Files, SavesFile(f) PROVE FilesInv'
  BY <1>1, FileSaveKeeps
<1>2. ASSUME NEW f \in Files, HandlesChange(f) PROVE FilesInv'
  BY <1>2, ChangeKeeps
<1>3. CASE (\E d \in Dirs : MakesDir(d)) \/ TakesEvent \/ Flushes \/ TurnsToRebuilds \/ EndsBatch
  BY <1>3, QueueKeeps
<1>4. ASSUME NEW s \in SyncedServices, Rebuilds(s) PROVE FilesInv'
  BY <1>4, RebuildKeeps
<1>5. ASSUME NEW s \in SyncedServices, Restarts(s) PROVE FilesInv'
  BY <1>5, RestartKeeps
<1>6. CASE UNCHANGED filesVars
  BY <1>6, Zenon DEF FilesInv, FilesTypeOK, OnItsWay, InOrOwed, Looked, InUseOrDue, InUse, BatchInHand, filesVars
<1> QED BY <1>1, <1>2, <1>3, <1>4, <1>5, <1>6 DEF FilesNext

\* Of any rules, directories and files, and any number of saves: a file saved while
\* the directory it lies in is watched is in the container by the time the watch
\* has nothing left to do, and in use where its rule restarts for it, or the failure
\* was reported.
THEOREM SavesAlwaysTakeEffect == FilesSpec => []SavesTakeEffect
<1>1. FilesInv => SavesTakeEffect
  <2> SUFFICES ASSUME FilesInv, AtRest PROVE SavesArrive /\ RestartsFollowSyncs
    BY Zenon DEF SavesTakeEffect, SavesArrive, RestartsFollowSyncs
  <2>1. owed = {}
    BY DEF FilesInv, OnItsWay, BatchInHand, AtRest
  <2>2. SavesArrive
    BY <2>1 DEF FilesInv, InOrOwed, Looked, SavesArrive
  <2>3. RestartsFollowSyncs
    BY DEF FilesInv, InUseOrDue, InUse, BatchInHand, AtRest, RestartsFollowSyncs
  <2> QED BY <2>2, <2>3
<1> QED BY <1>1, FilesInvInit, FilesInvStep, PTL DEF FilesSpec

=============================================================================
