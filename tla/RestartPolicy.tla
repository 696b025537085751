---------------------------- MODULE RestartPolicy ----------------------------
(***************************************************************************)
(* When the watcher restarts a service it found stopped                    *)
(* (internal/orchestrator/supervise_policy.go, internal/compose/           *)
(* restart.go): pure decisions over a policy and what is remembered of the *)
(* service.  Times are in any unit; an exit code is not observable, so a   *)
(* clean exit and a crash are one.                                         *)
(***************************************************************************)
EXTENDS Integers, Sequences

CONSTANTS
  Backoff,              \* backoffSteps: waits before the nth restart in a row
  StableRun,            \* how long a container stays up to count as recovered
  MaxOnFailureRetries   \* the limit of an `on-failure` that states none

ASSUME PolicyAssumption ==
  /\ Backoff \in Seq(Nat) /\ Backoff # <<>> /\ Backoff[1] = 0
  /\ StableRun \in Nat \ {0}
  /\ MaxOnFailureRetries \in Nat \ {0}

\* compose.RestartPolicy; max 0 is "no limit given".
Policies ==
  [mode : {"no", "always", "unless-stopped", "on-failure"}, max : Nat]

\* serviceState: restarts in a row, the time since the last one (lastAction),
\* and whether the watcher gave up.  `stoppedByUs` is read anew before each
\* decision and is an argument; `foreign` only words a log line.
Memories == [restarts : Nat, since : Nat, gaveUp : BOOLEAN]

Fresh == [restarts |-> 0, since |-> 0, gaveUp |-> FALSE]

Wants(p) == p.mode # "no"

Limit(p) == IF p.max = 0 THEN MaxOnFailureRetries ELSE p.max

OutOfRetries(p, m) == p.mode = "on-failure" /\ m.restarts >= Limit(p)

\* Mutation: a stop stands for `unless-stopped` alone.
DecideAlways(p, m, marked) ==
  IF m.gaveUp \/ ~Wants(p) \/ (marked /\ p.mode # "always") THEN "leaveIt"
  ELSE IF OutOfRetries(p, m) THEN "gaveUp" ELSE "restartIt"

\* Mutation: every policy has the limit of `on-failure`.
DecideLimited(p, m, marked) ==
  IF m.gaveUp \/ ~Wants(p) \/ marked THEN "leaveIt"
  ELSE IF m.restarts >= Limit(p) THEN "gaveUp" ELSE "restartIt"

\* decide: a stop the user asked for wins, for every policy.
Decide(p, m, marked) ==
  IF m.gaveUp \/ ~Wants(p) \/ marked THEN "leaveIt"
  ELSE IF OutOfRetries(p, m) THEN "gaveUp" ELSE "restartIt"

BackoffFor(n) == Backoff[IF n < Len(Backoff) THEN n + 1 ELSE Len(Backoff)]

BackingOff(m) == m.since < BackoffFor(m.restarts)

\* Mutation: a long run clears the count of an `on-failure` service too.
ObserveRunningAny(p, m) ==
  IF m.restarts > 0 /\ m.since >= StableRun
  THEN [restarts |-> 0, since |-> m.since, gaveUp |-> FALSE]
  ELSE m

\* observeRunning: not for `on-failure`, whose bound has to hold for a job that
\* runs long and ends well.
ObserveRunning(p, m) ==
  IF p.mode # "on-failure" /\ m.restarts > 0 /\ m.since >= StableRun
  THEN [restarts |-> 0, since |-> m.since, gaveUp |-> FALSE]
  ELSE m

\* What is remembered once a start was tried, whatever came of it.
Restarted(m) == [restarts |-> m.restarts + 1, since |-> 0, gaveUp |-> m.gaveUp]

\* Time passes between two polls.
Aged(m, d) == [restarts |-> m.restarts, since |-> m.since + d, gaveUp |-> m.gaveUp]
=============================================================================
