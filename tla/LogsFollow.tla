----------------------------- MODULE LogsFollow -----------------------------
(***************************************************************************)
(* `logs --follow`: each service's stream is read until it ends by itself, *)
(* is cut because its container has ended, or Ctrl-C stops them all (Logs, *)
(* followUntilExit, exitWatch and followMultiplexed in                     *)
(* internal/orchestrator/orchestrator.go).  container's own stream never   *)
(* ends with its container, so a watcher looks at the container every Poll *)
(* and cuts the stream once it was not running for Settle and quiet for    *)
(* Drain.  Time is a common clock's beats; every age counts up to a cap.   *)
(***************************************************************************)
EXTENDS Naturals, FiniteSets

CONSTANTS
  Followed,     \* services followed
  Supervised,   \* those of them with a `restart:` policy: not watched
  Poll, Settle, Drain,
  MaxAsked,     \* beats within which a runtime that does not hang answers
  MaxStarts,    \* starts of a service while followed, by `opossum restart` or not
  MaxLines      \* lines it writes

ASSUME LogsAssumption ==
  /\ Supervised \subseteq Followed
  /\ {Poll, Settle, Drain, MaxAsked} \subseteq Nat \ {0}

VARIABLES
  followed,       \* watched service -> its container and what is done to it
  queue,     \* watched service -> what it wrote that is not out yet, and whether a line is being written
  watcher,   \* watched service -> where its watcher is
  exitWatch, \* watched service -> the state of that name
  age,       \* watched service -> since the last ask (and tick), the last write, since it stopped
  stream,    \* service -> what became of its stream
  follow,    \* service -> what its followUntilExit returned
  ctrlC, told

logsVars == <<followed, queue, watcher, exitWatch, age, stream, follow, ctrlC, told>>

Polled == Followed \ Supervised
Runs(s) == followed[s].state = "running"
LooksAt(s, p) == watcher[s].at = p
LookGoes(s, p) == watcher' = [watcher EXCEPT ![s].at = p]

-----------------------------------------------------------------------------
\* The container: starts, ends, is removed; `restart` holds a mark over its gap
\* (markRestarting: a lock, gone with a restart that dies part way).
\* `life`: whether it ran, and went down outside a restart, while followed.
\* `late`: the looks counted in a row that came too late (LateLook).
Turns(s, st) ==
  followed' = [followed EXCEPT ![s].state = st,
            ![s].life = CASE st = "running" /\ @ = "never" -> "ran"
                          [] st # "running" /\ ~followed[s].mark /\ @ = "ran" -> "out"
                          [] OTHER -> @]
Others == UNCHANGED <<queue, watcher, exitWatch, age, stream, follow, ctrlC, told>>

\* Stopped or removed: a look tells them from running, not from each other.
StopsRunning(s) == Runs(s) /\ Turns(s, "down") /\ Others
StartsAgain(s) ==
  /\ ~Runs(s) /\ followed[s].starts < MaxStarts
  /\ followed' = [followed EXCEPT ![s].state = "running", ![s].starts = @ + 1,
               ![s].life = IF @ = "never" THEN "ran" ELSE @]
  /\ Others
MarksRestart(s) ==
  /\ ~followed[s].mark /\ followed[s].starts < MaxStarts
  /\ followed' = [followed EXCEPT ![s].mark = TRUE, ![s].starts = @ + 1]
  /\ Others
RestartBringsUp(s) == followed[s].mark /\ ~Runs(s) /\ Turns(s, "running") /\ Others
\* Released once done, or with a restart that died in the gap.
EndsRestart(s) ==
  /\ followed[s].mark
  /\ followed' = [followed EXCEPT ![s].mark = FALSE,
               ![s].life = IF ~Runs(s) /\ @ = "ran" THEN "out" ELSE @]
  /\ Others

\* The runtime hands over a line the container wrote; a slow reader may hold it.
WritesLine(s) ==
  /\ Runs(s) /\ stream[s] = "on" /\ queue[s].lines < MaxLines
  /\ queue' = [queue EXCEPT ![s].lines = @ + 1]
  /\ UNCHANGED <<followed, watcher, exitWatch, age, stream, follow, ctrlC, told>>
HandsOver(s) ==
  /\ stream[s] = "on" /\ queue[s].lines > 0 /\ ~queue[s].writing
  /\ queue' = [queue EXCEPT ![s].lines = @ - 1, ![s].writing = TRUE]
  /\ UNCHANGED <<followed, watcher, exitWatch, age, stream, follow, ctrlC, told>>
LineIsOut(s) ==
  /\ queue[s].writing
  /\ queue' = [queue EXCEPT ![s].writing = FALSE]
  /\ age' = [age EXCEPT ![s].written = 0]
  /\ UNCHANGED <<followed, watcher, exitWatch, stream, follow, ctrlC, told>>

-----------------------------------------------------------------------------
\* A beat of the clock.  The runtime hands over the next line within Drain of
\* the last: that is what Drain is for.
Counts(s) == exitWatch[s].counting /\ ~exitWatch[s].settled
Older(n, cap) == IF n < cap THEN n + 1 ELSE n
Beat ==
  /\ \E s \in Polled : stream[s] = "on"
  /\ \A s \in Polled : stream[s] = "on" /\ queue[s].lines > 0 /\ ~queue[s].writing
        => age[s].written + 1 < Drain
  /\ \A s \in Polled : watcher[s].at \in {"asking", "answered"} => age[s].asked < MaxAsked
  /\ age' = [s \in Polled |->
       [asked |-> Older(age[s].asked, Poll + MaxAsked), written |-> Older(age[s].written, Drain),
        stopped |-> IF Counts(s) THEN Older(age[s].stopped, Settle + MaxAsked) ELSE 0]]
  /\ UNCHANGED <<followed, queue, watcher, exitWatch, stream, follow, ctrlC, told>>

\* exitWatch.see(now, look), `now` being the time of the ask; `counting` is a
\* stoppedSince that is not zero, `settled` an endedAt that is not.
Sees(s, look) ==
  LET w == exitWatch[s]
      counts == w.counting /\ age[s].stopped - age[s].asked >= Settle
      set(v) == exitWatch' = [exitWatch EXCEPT ![s] = v]
      again == [w EXCEPT !.counting = FALSE, !.settled = FALSE]
      down == look = "not running" /\ w.seen
  IN CASE look = "restarting"    -> set(again) /\ UNCHANGED age
       [] look = "running"       -> set([again EXCEPT !.seen = TRUE]) /\ UNCHANGED age
       [] down /\ ~w.counting -> /\ set([w EXCEPT !.counting = TRUE])
                                 /\ age' = [age EXCEPT ![s].stopped = age[s].asked]
       [] down /\ w.counting  -> set([w EXCEPT !.settled = @ \/ counts]) /\ UNCHANGED age
       [] OTHER -> UNCHANGED <<exitWatch, age>>

\* Mutation: a line a slow reader holds is not asked about.
IdleByClock(s) == age[s].written >= Drain
\* lastWrite.idle: no line under way, none finished for Drain.
Idle(s) == ~queue[s].writing /\ age[s].written >= Drain

StreamOver(s) == stream[s] # "on" \/ ctrlC
\* LooksAt a tick (the first look at once): over, or the end, or another look.
Tick(s) ==
  /\ LooksAt(s, "tick") /\ (StreamOver(s) \/ age[s].asked >= Poll)
  /\ \/ StreamOver(s) /\ LookGoes(s, "over") /\ UNCHANGED <<age, stream>>
     \/ /\ ~StreamOver(s) /\ exitWatch[s].settled /\ Idle(s)
        /\ LookGoes(s, "over") /\ stream' = [stream EXCEPT ![s] = "cut"] /\ UNCHANGED age
     \/ /\ ~StreamOver(s) /\ ~(exitWatch[s].settled /\ Idle(s))
        /\ LookGoes(s, "asking")
        /\ age' = [age EXCEPT ![s].asked = 0]
        /\ UNCHANGED stream
  /\ UNCHANGED <<followed, queue, exitWatch, follow, ctrlC, told>>

\* rt.Inspect answers, or does not answer readably; a runtime that hangs never does.
Answers(s) ==
  /\ LooksAt(s, "asking")
  /\ \E a \in {IF Runs(s) THEN "running" ELSE "not running", "unknown"} :
       watcher' = [watcher EXCEPT ![s].at = "answered", ![s].saw = a]
  /\ UNCHANGED <<followed, queue, exitWatch, age, stream, follow, ctrlC, told>>

AnswersReadably(s) == Answers(s) /\ watcher'[s].saw # "unknown"

RuntimeHangs(s) ==
  /\ LooksAt(s, "asking") /\ LookGoes(s, "hung")
  /\ UNCHANGED <<followed, queue, exitWatch, age, stream, follow, ctrlC, told>>

\* The looks in a row, two at most, that were counted as "not running" of a
\* container that by then ran again, and under no restart: the mark is read
\* after the answer, and the restart may have ended in between.
LateLook(s, look) ==
  followed' = [followed EXCEPT ![s].late =
    CASE look \in {"running", "restarting"} -> 0
      [] look = "not running" /\ Runs(s) /\ exitWatch[s].seen /\ @ < 2 -> @ + 1
      [] OTHER -> @]
Takes(s, look) ==
  /\ LooksAt(s, "answered")
  /\ Sees(s, look) /\ LateLook(s, look)
  /\ watcher' = [watcher EXCEPT ![s].at = "tick", ![s].saw = "unknown"]
  /\ UNCHANGED <<queue, stream, follow, ctrlC, told>>
\* Mutation: a look without an answer starts the count again.
TakesInForgetful(s) ==
  Takes(s, IF followed[s].mark \/ watcher[s].saw = "unknown" THEN "restarting" ELSE watcher[s].saw)
\* The mark is read after the answer, and the look is taken in.
TakesIn(s) == Takes(s, IF followed[s].mark THEN "restarting" ELSE watcher[s].saw)

-----------------------------------------------------------------------------
\* A stream the runtime ends of itself: cleanly, or as a failure to read.  An
\* unwatched one may go on past its container as well.
StreamEnds(s) ==
  /\ stream[s] = "on"
  /\ \E e \in {"ended", "failed"} : stream' = [stream EXCEPT ![s] = e]
  /\ UNCHANGED <<followed, queue, watcher, exitWatch, age, follow, ctrlC, told>>

\* signal.NotifyContext: the cancel ends every stream.
CtrlC ==
  /\ ~ctrlC /\ told = "none" /\ ctrlC' = TRUE
  /\ stream' = [s \in Followed |-> IF stream[s] = "on" THEN "ended" ELSE stream[s]]
  /\ UNCHANGED <<followed, queue, watcher, exitWatch, age, follow, told>>

\* followUntilExit returns once its stream is over and its watcher is, or, after
\* Ctrl-C, LogsCancelGrace later: a write under way is finished first.
WatcherDone(s) == s \in Polled => LooksAt(s, "over") \/ ctrlC

Returns(s) ==
  /\ follow[s] = "none" /\ stream[s] # "on" /\ WatcherDone(s)
  /\ s \in Polled => ~queue[s].writing
  /\ follow' = [follow EXCEPT ![s] =
       CASE stream[s] = "cut" /\ ~ctrlC -> "exited" [] stream[s] = "failed" -> "failed" [] OTHER -> "ended"]
  /\ UNCHANGED <<followed, queue, watcher, exitWatch, age, stream, ctrlC, told>>

\* wg.Wait, then: interrupted, or failed when every stream did.
EndsLogs ==
  /\ told = "none" /\ \A s \in Followed : follow[s] # "none"
  /\ told' = CASE ctrlC -> "interrupted"
               [] ~ctrlC /\ (\A s \in Followed : follow[s] = "failed") -> "failed"
               [] OTHER -> "over"
  /\ UNCHANGED <<followed, queue, watcher, exitWatch, age, stream, follow, ctrlC>>

-----------------------------------------------------------------------------
LogsInit ==
  /\ \E st \in [Polled -> {"running", "down"}] :
       followed = [s \in Polled |-> [state |-> st[s], mark |-> FALSE, starts |-> 0, late |-> 0,
                                 life |-> IF st[s] = "running" THEN "ran" ELSE "never"]]
  /\ queue = [s \in Polled |-> [lines |-> 0, writing |-> FALSE]]
  /\ watcher = [s \in Polled |-> [at |-> "tick", saw |-> "unknown"]]
  /\ exitWatch = [s \in Polled |-> [seen |-> FALSE, counting |-> FALSE, settled |-> FALSE]]
  /\ age = [s \in Polled |-> [asked |-> Poll, written |-> 0, stopped |-> 0]]
  /\ stream = [s \in Followed |-> "on"] /\ follow = [s \in Followed |-> "none"]
  /\ ctrlC = FALSE /\ told = "none"

\* What the container does once its stream is over is nobody's business here.
Container(s) == stream[s] = "on" /\
  (\/ StopsRunning(s) \/ StartsAgain(s) \/ MarksRestart(s) \/ RestartBringsUp(s) \/ EndsRestart(s)
   \/ WritesLine(s))
Follows(s) ==
  \/ HandsOver(s) \/ LineIsOut(s) \/ Tick(s) \/ Answers(s) \/ TakesIn(s)

LogsNext ==
  \/ \E s \in Polled : Container(s) \/ Follows(s) \/ RuntimeHangs(s)
  \/ \E s \in Followed : StreamEnds(s) \/ Returns(s)
  \/ Beat \/ CtrlC \/ EndsLogs

\* The clock goes on, the command's own goroutines run, a reader takes the line
\* in the end, and a runtime that does not hang answers readably now and then.
LogsFairness ==
  /\ WF_logsVars(Beat) /\ WF_logsVars(EndsLogs)
  /\ \A s \in Followed : WF_logsVars(Returns(s))
  /\ \A s \in Polled :
       /\ WF_logsVars(HandsOver(s)) /\ WF_logsVars(LineIsOut(s)) /\ WF_logsVars(Tick(s))
       /\ WF_logsVars(Answers(s)) /\ SF_logsVars(AnswersReadably(s)) /\ WF_logsVars(TakesIn(s))
       /\ WF_logsVars(stream[s] = "on" /\ EndsRestart(s))

LogsSpec == LogsInit /\ [][LogsNext]_logsVars /\ LogsFairness

-----------------------------------------------------------------------------
\* "Has been seen running while followed and has then stayed not running": the
\* stream of a container that never ran since, or that only ever went down
\* under a `restart` (whose gap is not counted, however long), is not cut.  One
\* look that comes as a restart ends is never enough to: two in a row are.
OnlyAnEndEnds ==
  \A s \in Polled : stream[s] = "cut" => followed[s].life = "out" \/ followed[s].late = 2

\* "Once ended, the stream is not cut at once: the runtime may still be handing
\* over what the container wrote last": the cut leaves nothing behind, but for
\* what a container started again while followed has written (a start between
\* two looks goes unseen).
AllIsHandedOver ==
  [][\A s \in Polled : stream[s] = "on" /\ stream'[s] = "cut" /\ followed[s].starts = 0
       => queue[s].lines = 0 /\ ~queue[s].writing]_logsVars

\* A stream ends with its container, and whole.
StreamsEndWhole == []OnlyAnEndEnds /\ AllIsHandedOver

\* A container seen running and then down for good ends its stream, through
\* any look the runtime does not answer (and unless it hangs).
EndIsNoticed ==
  \A s \in Polled :
    <>[](exitWatch[s].seen /\ ~Runs(s) /\ ~LooksAt(s, "hung")) => <>(stream[s] # "on")

\* "So Ctrl-C always returns": also while a look hangs.
CtrlCReturns == ctrlC ~> told # "none"

\* A follow is never left waiting for what has ended.
FollowReturns == EndIsNoticed /\ CtrlCReturns
=============================================================================
