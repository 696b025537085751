-------------------------- MODULE MutationSweep --------------------------
(***************************************************************************)
(* cmd/mutate and the Runner of internal/mutate: the sweep writes one      *)
(* mutation at a time into a file of the author's tree, measures it and    *)
(* puts the file back, while ^C may arrive at any moment and the author    *)
(* may edit, repair or remove that very file.                              *)
(*                                                                         *)
(* A file's content is a pair: which edit of the author's it carries, and  *)
(* whether the tool's text is in it.  The lock r.mu is held over the       *)
(* steps Arm, Disarm and RestorePending, which are atomic here; that       *)
(* another process may write between the read and the write of one         *)
(* restore is said in the code (run.go:775) and left out.               *)
(***************************************************************************)
EXTENDS Naturals, Sequences, FiniteSets

CONSTANTS Count,      \* how many mutations the sweep file lists
          MaxEdits    \* how often the author edits it

ASSUME SweepAssumption == Count \in Nat \ {0} /\ MaxEdits \in Nat

VARIABLES
    source,     \* what the mutated file holds
    authored,   \* how many edits the author has made
    standing,   \* the last edit made while a mutation stood in the file
    runner,     \* the Runner: what r.mu guards
    sweep,      \* what was asked, where the main goroutine is, what it has in hand
    handler,    \* where the interrupt handler is, and what it has to say
    cancelled,  \* ctx has been cancelled
    tree,       \* the baseline worktree: none, its directory, or checked out
    cleanup,    \* the cleanup func is registered
    inUse,      \* who holds the mutex over the worktree
    told,       \* what has been said on stderr
    status      \* the exit status, 256 while the process runs

sweepVars == <<source, authored, standing, runner, sweep, handler, cancelled, tree,
               cleanup, inUse, told, status>>

Running == 256
Lives == status = Running
NoFile == [made |-> 0, holds |-> "gone"]
Own(v) == [made |-> v, holds |-> "own"]
Mutated(f) == [f EXCEPT !.holds = "mutant"]
CutOff(f) == [f EXCEPT !.holds = "cut"]

SweepInit ==
    /\ source = Own(0) /\ authored = 0 /\ standing = 0
    /\ runner = [pending |-> FALSE, orig |-> Own(0), written |-> FALSE, aborted |-> FALSE,
              restoredOnCancel |-> FALSE, restoreErrOnCancel |-> FALSE]
    /\ \E against \in BOOLEAN, controls \in SUBSET (1..Count) :
         /\ against => controls = {}      \* the two are refused together
         /\ sweep = [against |-> against, controls |-> controls, at |-> "check",
                     original |-> Own(0), verdict |-> "none", err |-> "none",
                     out |-> <<>>, code |-> 0]
    /\ handler = [at |-> "idle", says |-> "none"]
    /\ cancelled = FALSE /\ tree = "none" /\ cleanup = FALSE /\ inUse = "free"
    /\ told = {} /\ status = Running

---------------------------------------------------------------------------
(* restorePendingLocked and restoreLocked: what the file may hold          *)
(* afterwards, and whether an error comes back.                            *)

\* Mutation: the original is written back whatever the file holds
WasEditedNever == FALSE

\* A file that is neither the mutation nor the original was edited: it is
\* left as it is.  A write never confirmed vouches for nothing.
WasEdited == runner.written /\ source \notin {Mutated(runner.orig), runner.orig}

RestoreOutcomes ==
    IF source = NoFile \/ WasEdited
      THEN {[file |-> source, err |-> TRUE]}
      ELSE {[file |-> runner.orig, err |-> FALSE],
            [file |-> source, err |-> source # runner.orig],
            [file |-> CutOff(runner.orig), err |-> TRUE]}

---------------------------------------------------------------------------
(* The sweep                                                               *)

MainAt(place) == Lives /\ sweep.at = place
Goes(place) == sweep' = [sweep EXCEPT !.at = place]
Fails(place, why) == sweep' = [sweep EXCEPT !.at = place, !.err = why]

\* The whole sweep is prepared before anything runs.
CheckAll ==
    /\ MainAt("check")
    /\ \/ Fails("swept", "prepare")
       \/ source # NoFile /\ Goes("baseline")
    /\ UNCHANGED <<source, authored, standing, runner, handler, cancelled, tree, cleanup, inUse, told, status>>

\* One run of the suite unmutated: red, cut or unmeasured ends the sweep.
Baseline ==
    /\ MainAt("baseline")
    /\ Goes("next") \/ Fails("swept", "baseline")
    /\ UNCHANGED <<source, authored, standing, runner, handler, cancelled, tree, cleanup, inUse, told, status>>

\* A cancelled run stops asking.
NextMutation ==
    /\ MainAt("next")
    /\ IF Len(sweep.out) = Count THEN Goes("swept")
       ELSE IF cancelled THEN Fails("swept", "cancelled") ELSE Goes("prepare")
    /\ UNCHANGED <<source, authored, standing, runner, handler, cancelled, tree, cleanup, inUse, told, status>>

\* The original is read; an edit since may have taken `from` out of it.
Prepare ==
    /\ MainAt("prepare")
    /\ \/ source # NoFile /\ sweep' = [sweep EXCEPT !.at = "arm", !.original = source]
       \/ source # Own(0) /\ Fails("swept", "prepare")
    /\ UNCHANGED <<source, authored, standing, runner, handler, cancelled, tree, cleanup, inUse, told, status>>

MayArm == ~runner.aborted

\* armAndWrite: registered before the write, confirmed after it.
Arm ==
    /\ MainAt("arm")
    /\ IF ~MayArm
         THEN Fails("disarm", "aborted") /\ UNCHANGED <<source, runner>>
         ELSE \E write \in {"whole", "refused", "cut"} :
                /\ source' = CASE write = "whole"   -> Mutated(sweep.original)
                             [] write = "refused" -> source
                             [] write = "cut"     -> CutOff(sweep.original)
                /\ runner' = [runner EXCEPT !.pending = TRUE, !.orig = sweep.original,
                                      !.written = write = "whole"]
                /\ IF write = "whole" THEN Goes("vet") ELSE Fails("disarm", "write")
    /\ UNCHANGED <<authored, standing, handler, cancelled, tree, cleanup, inUse, told, status>>

\* A toolchain run cut short by the cancellation says nothing of the mutation.
Concludes(verdict) == sweep' = [sweep EXCEPT !.at = "disarm", !.verdict = verdict]
CutShort == Fails("disarm", "interrupted")

RedUnnamed == IF cancelled THEN CutShort ELSE Concludes("inconclusive")

Vet ==
    /\ MainAt("vet")
    /\ \/ Goes("test")
       \/ IF cancelled THEN CutShort ELSE Concludes("broken")
    /\ UNCHANGED <<source, authored, standing, runner, handler, cancelled, tree, cleanup, inUse, told, status>>

\* Tests that failed are named; red without a name; green that did not run
\* what the mutation names; green.
Test ==
    /\ MainAt("test")
    /\ Concludes("caught") \/ RedUnnamed \/ Concludes("inconclusive") \/ Concludes("survived")
    /\ UNCHANGED <<source, authored, standing, runner, handler, cancelled, tree, cleanup, inUse, told, status>>

\* disarmAndRestore, deferred by `one`; a result is kept only without an error.
Disarm ==
    /\ MainAt("disarm")
    /\ \E put \in IF runner.pending THEN RestoreOutcomes ELSE {[file |-> source, err |-> FALSE]} :
         /\ source' = put.file
         /\ runner' = IF ~runner.pending THEN runner
                   ELSE [runner EXCEPT !.pending = FALSE,
                                    !.restoredOnCancel = @ \/ (cancelled /\ ~put.err),
                                    !.restoreErrOnCancel = @ \/ (cancelled /\ put.err)]
         /\ sweep' = IF put.err THEN [sweep EXCEPT !.at = "swept", !.err = "restore"]
                     ELSE IF sweep.err # "none" THEN [sweep EXCEPT !.at = "swept"]
                     ELSE [sweep EXCEPT !.at = "next", !.out = Append(@, sweep.verdict)]
    /\ UNCHANGED <<authored, standing, handler, cancelled, tree, cleanup, inUse, told, status>>

---------------------------------------------------------------------------
(* What main does with it                                                  *)

Measured(outcome) == outcome \in {"caught", "survived"}
Wrong(out) == {i \in DOMAIN out :
                 Measured(out[i]) /\ ((i \in sweep.controls) # (out[i] = "survived"))}

\* A survivor is a finding, a row that measured nothing is a failure, and
\* only a sweep of rows that all went right is a 0.
ExitStatus(out) == IF Wrong(out) # {} THEN 1
                   ELSE IF \E i \in DOMAIN out : ~Measured(out[i]) THEN 2 ELSE 0

Returns(code) == sweep' = [sweep EXCEPT !.at = "returning", !.code = code]

\* What a cancelled context made of the sweep is not news: the handler speaks.
LooksAtTheContext ==
    /\ MainAt("swept")
    /\ IF cancelled THEN Returns(2) ELSE Goes("report")
    /\ UNCHANGED <<source, authored, standing, runner, handler, cancelled, tree, cleanup, inUse, told, status>>

\* treeLine, the table and the tally come first, then the error.
Reports ==
    /\ MainAt("report")
    /\ IF sweep.err # "none" THEN told' = told \cup {"sweep error"} /\ Returns(2)
       ELSE told' = told \cup {"table"} /\
            (IF sweep.against THEN Goes("compare") ELSE Returns(ExitStatus(sweep.out)))
    /\ UNCHANGED <<source, authored, standing, runner, handler, cancelled, tree, cleanup, inUse, status>>

\* compareAgainst: lock first, register second, make the directory third.
Registers ==
    /\ MainAt("compare") /\ inUse = "free"
    /\ inUse' = "main" /\ cleanup' = TRUE /\ Goes("making")
    /\ UNCHANGED <<source, authored, standing, runner, handler, cancelled, tree, told, status>>

MakesTreeDir ==
    /\ MainAt("making")
    /\ tree' = "dir" /\ Goes("adding")
    /\ UNCHANGED <<source, authored, standing, runner, handler, cancelled, cleanup, inUse, told, status>>

\* `git worktree add` runs under ctx: cancelled before, it does not start.
MayAdd == ~cancelled

StartsAdding ==
    /\ MainAt("adding")
    /\ IF MayAdd THEN Goes("added") /\ UNCHANGED inUse ELSE Returns(2) /\ inUse' = "free"
    /\ UNCHANGED <<source, authored, standing, runner, handler, cancelled, tree, cleanup, told, status>>

\* Killed halfway it may have checked out a part.
Adds ==
    /\ MainAt("added")
    /\ inUse' = "free"
    /\ \/ tree' = "checked out" /\ Goes("old")
       \/ tree' \in {"dir", "checked out"} /\ Returns(2)
    /\ UNCHANGED <<source, authored, standing, runner, handler, cancelled, cleanup, told, status>>

\* The same sweep over the older tree, the mutex held all through.
SweepsOld ==
    /\ MainAt("old") /\ inUse = "free"
    /\ inUse' = "main" /\ Goes("sweeping old")
    /\ UNCHANGED <<source, authored, standing, runner, handler, cancelled, tree, cleanup, told, status>>

EndsOld ==
    /\ MainAt("sweeping old")
    /\ inUse' = "free"
    /\ \/ tree # "none" /\ ~cancelled /\ sweep' = [sweep EXCEPT !.at = "cleaning", !.code = ExitStatus(sweep.out)]
       \/ Returns(2)
    /\ UNCHANGED <<source, authored, standing, runner, handler, cancelled, tree, cleanup, told, status>>

\* Removed, or still there and said so.
TakesBack ==
    \/ tree' = "none" /\ UNCHANGED told
    \/ tree # "none" /\ told' = told \cup {"leftover"} /\ UNCHANGED tree

\* runCleanup by main: whoever takes the func runs it.
MainCleans ==
    /\ Lives /\ sweep.at \in {"cleaning", "leaving"}
    /\ IF cleanup THEN inUse = "free" /\ cleanup' = FALSE /\ TakesBack
       ELSE UNCHANGED <<cleanup, tree, told>>
    /\ IF sweep.at = "cleaning" THEN Goes("returning") /\ UNCHANGED status
       ELSE Goes("over") /\ status' = sweep.code
    /\ UNCHANGED <<source, authored, standing, runner, handler, cancelled, inUse>>

\* The deferred wait: a handler that has begun ends the process itself.
Leaves ==
    /\ MainAt("returning") /\ handler.at = "idle"
    /\ Goes("leaving")
    /\ UNCHANGED <<source, authored, standing, runner, handler, cancelled, tree, cleanup, inUse, told, status>>

---------------------------------------------------------------------------
(* The interrupt handler                                                   *)

HandlerAt(place) == Lives /\ handler.at = place
HandlerGoes(place) == handler' = [handler EXCEPT !.at = place]

Hears ==
    /\ HandlerAt("idle")
    /\ HandlerGoes("started")
    /\ UNCHANGED <<source, authored, standing, runner, sweep, cancelled, tree, cleanup, inUse, told, status>>

StopsToolchain ==
    /\ HandlerAt("started")
    /\ cancelled' = TRUE /\ HandlerGoes("restore")
    /\ UNCHANGED <<source, authored, standing, runner, sweep, tree, cleanup, inUse, told, status>>

\* RestorePending, and the sentence interruptMessage makes of its answer.
RestorePending ==
    /\ HandlerAt("restore")
    /\ IF runner.pending
         THEN \E put \in RestoreOutcomes :
                /\ source' = put.file
                /\ handler' = [at |-> "cleanup", says |-> IF put.err THEN "not put back" ELSE "put back"]
         ELSE /\ UNCHANGED source
              /\ handler' = [at |-> "cleanup",
                             says |-> IF runner.restoreErrOnCancel THEN "not put back"
                                      ELSE IF runner.restoredOnCancel THEN "put back" ELSE "nothing in flight"]
    /\ runner' = [runner EXCEPT !.aborted = TRUE, !.pending = FALSE]
    /\ UNCHANGED <<authored, standing, sweep, cancelled, tree, cleanup, inUse, told, status>>

TakesCleanup ==
    /\ HandlerAt("cleanup")
    /\ HandlerGoes(IF cleanup THEN "cleaning" ELSE "saying") /\ cleanup' = FALSE
    /\ UNCHANGED <<source, authored, standing, runner, sweep, cancelled, tree, inUse, told, status>>

HandlerCleans ==
    /\ HandlerAt("cleaning") /\ inUse = "free"
    /\ TakesBack /\ HandlerGoes("saying")
    /\ UNCHANGED <<source, authored, standing, runner, sweep, cancelled, cleanup, inUse, status>>

SaysAndExits ==
    /\ HandlerAt("saying")
    /\ told' = told \cup {handler.says} /\ status' = 130
    /\ UNCHANGED <<source, authored, standing, runner, sweep, handler, cancelled, tree, cleanup, inUse>>

---------------------------------------------------------------------------
(* The author                                                              *)

\* An edit keeps what else is in the file or takes the tool's text out.
AuthorEdits ==
    /\ Lives /\ authored < MaxEdits /\ source # NoFile
    /\ authored' = authored + 1
    /\ \E holds \in {"own", source.holds} : source' = [made |-> authored + 1, holds |-> holds]
    /\ standing' = IF runner.pending /\ runner.written THEN authored + 1 ELSE standing
    /\ UNCHANGED <<runner, sweep, handler, cancelled, tree, cleanup, inUse, told, status>>

AuthorRepairs ==
    /\ Lives /\ source.holds = "mutant"
    /\ source' = Own(source.made)
    /\ UNCHANGED <<authored, standing, runner, sweep, handler, cancelled, tree, cleanup, inUse, told, status>>

AuthorRemoves ==
    /\ Lives /\ authored < MaxEdits /\ source # NoFile
    /\ source' = NoFile /\ authored' = MaxEdits
    /\ UNCHANGED <<standing, runner, sweep, handler, cancelled, tree, cleanup, inUse, told, status>>

MainStep == CheckAll \/ Baseline \/ NextMutation \/ Prepare \/ Arm \/ Vet \/ Test \/ Disarm
            \/ LooksAtTheContext \/ Reports \/ Registers \/ MakesTreeDir \/ StartsAdding \/ Adds
            \/ SweepsOld \/ EndsOld \/ MainCleans \/ Leaves
HandlerStep == Hears \/ StopsToolchain \/ RestorePending \/ TakesCleanup \/ HandlerCleans \/ SaysAndExits
AuthorStep == AuthorEdits \/ AuthorRepairs \/ AuthorRemoves

SweepNext == MainStep \/ HandlerStep \/ AuthorStep
SweepSpec == SweepInit /\ [][SweepNext]_sweepVars

---------------------------------------------------------------------------
(* Properties                                                              *)

ToolText == source.holds \in {"mutant", "cut"}

\* An edit the author made while a mutation stood in the file is never
\* written over, by the sweep's own restore or by the handler's.
StandingEditsSurvive == source # NoFile => source.made >= standing

\* "The file has been put back" is never said over a mutated file, "no
\* mutation in flight" never where no restore had failed, and no sweep that
\* ends by itself with a verdict leaves one behind: the latch, the
\* registration before the write and the confirmed restore together.
PutBackIsTrue ==
    \/ "put back" \in told
    \/ "nothing in flight" \in told /\ sweep.err # "restore"
    \/ status \in {0, 1}
    => ~ToolText

\* No row is made of a run the interrupt cut short, and 0 is only for a
\* sweep in which every mutation was caught and every control survived.
RowsAreMeasured ==
    /\ \A i \in DOMAIN sweep.out : sweep.out[i] # "cut"
    /\ status = 0 => \A i \in 1..Count : sweep.out[i] = IF i \in sweep.controls THEN "survived" ELSE "caught"

\* A worktree git has checked out is gone, or its path was said, however the
\* process ended - but for an interrupt heard after main had looked for one.
WorktreeIsTakenBack ==
    (status = 130 \/ (status # Running /\ handler.at = "idle"))
        => (tree = "checked out" => "leftover" \in told)

\* A sweep, cut short or not, loses no edit, tells no lie about the file, makes
\* no result of a cut run and leaves no worktree unsaid.
SweepIsHonest == StandingEditsSurvive /\ PutBackIsTrue /\ RowsAreMeasured /\ WorktreeIsTakenBack
=============================================================================
