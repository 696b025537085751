------------------------- MODULE InterruptionProofs --------------------------
(***************************************************************************)
(* What holds of the three operations that are cut off midway.  Of any     *)
(* number of `run`s of a service at once, whatever was under the names     *)
(* before: no run touches the data of a volume that was there, and what    *)
(* each says it left is so when it says it.  Of a sweep of any number of   *)
(* mutations: it loses no edit of the author's, and what it says of the    *)
(* file and of the worktree is so.  Of a rollback of a workspace: it is    *)
(* reversible, what it moved aside being a snapshot of its own from before *)
(* the first rename on.                                                    *)
(***************************************************************************)
EXTENDS OneOff, MutationSweep, WorkspaceSwap, TLAPS

-----------------------------------------------------------------------------
(* The one-off runs: what was there stays, what is said is so.             *)

\* From the look that found no volume to the last look at the fill taken back.
Filling == {"fill", "seed", "seeding", "seedFailed", "takeBack", "takeBackVolume", "sawSeed"}
OneOffSteps ==
  Filling \cup {"owner", "deps", "prepare", "clear", "dirs", "look", "run", "attached",
                "asked", "stop", "remove", "sawStopped", "sawRemoved", "over"}

\* A volume that is kept is not being filled by anyone, and nobody has said
\* anything before the end.
OneOffInv ==
  /\ run \in [Runs -> [at : OneOffSteps, cut : BOOLEAN]]
  /\ DOMAIN verdict = Runs
  /\ volume = "kept" => \A r \in Runs : run[r].at \notin Filling
  /\ \A r \in Runs : run[r].at # "over" => verdict[r] = "none"

\* Where a step leaves the runs: one of them moves on, and only one that ends speaks.
Moves(r, p) ==
  /\ run' \in [Runs -> [at : OneOffSteps, cut : BOOLEAN]]
  /\ run'[r].at = p
  /\ \A q \in Runs : q # r => run'[q] = run[q]

LEMMA ToMoves ==
  ASSUME NEW r \in Runs, NEW p \in OneOffSteps, OneOffInv, To(r, p)
  PROVE  Moves(r, p)
<1>1. run \in [Runs -> [at : OneOffSteps, cut : BOOLEAN]]
  BY DEF OneOffInv
<1>2. run' = [run EXCEPT ![r].at = p]
  BY DEF To
<1> QED
  BY <1>1, <1>2 DEF Moves

LEMMA EndsMoves ==
  ASSUME NEW r \in Runs, NEW v, OneOffInv, Ends(r, v)
  PROVE  Moves(r, "over") /\ verdict' = [verdict EXCEPT ![r] = v]
<1>1. To(r, "over") /\ verdict' = [verdict EXCEPT ![r] = v]
  BY DEF Ends
<1>2. "over" \in OneOffSteps
  BY DEF OneOffSteps
<1> QED
  BY <1>1, <1>2, ToMoves

-----------------------------------------------------------------------------
\* What each run says at the end is so.
Said ==
  \A r \in Runs :
    AtStep(r, "over") \/ CASE verdict'[r] = "fill taken back" -> seed' = NoContainer /\ volume' = "none"
      [] verdict'[r] = "removed" -> oneoff' = NoContainer
      [] verdict'[r] = "stopped" -> ~oneoff'.runs
      [] OTHER -> TRUE

\* What a step has to show.
Holds == OneOffInv' /\ (volume = "kept" => volume' = "kept") /\ Said

\* Nothing is said, nothing has to be so.
LEMMA NothingSaid ==
  ASSUME OneOffInv, UNCHANGED verdict
  PROVE  Said
BY DEF OneOffInv, Said, AtStep

\* A step that goes on.
LEMMA GoesOn ==
  ASSUME OneOffInv, NEW r \in Runs, NEW p \in OneOffSteps, p # "over",
         To(r, p), run[r].at # "over", UNCHANGED verdict,
         p \in Filling => run[r].at \in Filling \/ volume # "kept",
         volume' = "kept" <=> volume = "kept"
  PROVE  Holds
<1>1. Moves(r, p)
  BY ToMoves
<1>2. OneOffInv'
  BY <1>1 DEF OneOffInv, Moves
<1> QED
  BY <1>2, NothingSaid DEF Holds

\* A step that ends the run, with a word that is so.
LEMMA Finishes ==
  ASSUME OneOffInv, NEW r \in Runs, NEW v, Ends(r, v), UNCHANGED volume,
         v = "fill taken back" => seed' = NoContainer /\ volume' = "none",
         v = "removed" => oneoff' = NoContainer,
         v = "stopped" => ~oneoff'.runs
  PROVE  Holds
<1>1. Moves(r, "over") /\ verdict' = [verdict EXCEPT ![r] = v]
  BY EndsMoves
<1>2. "over" \in OneOffSteps /\ "over" \notin Filling
  BY DEF OneOffSteps, Filling
<1>3. OneOffInv'
  BY <1>1, <1>2 DEF OneOffInv, Moves
<1>4. verdict'[r] = v /\ \A q \in Runs : q # r => verdict'[q] = verdict[q]
  BY <1>1 DEF OneOffInv
<1>5. Said
  BY <1>4 DEF OneOffInv, Said, AtStep
<1> QED
  BY <1>3, <1>5 DEF Holds

LEMMA InterruptHolds ==
  ASSUME OneOffInv, NEW r \in Runs, CtrlCOneOff(r)
  PROVE  Holds
<1>1. /\ run' = [run EXCEPT ![r].cut = TRUE] /\ UNCHANGED <<oneoff, seed, volume, verdict>>
      /\ run \in [Runs -> [at : OneOffSteps, cut : BOOLEAN]]
  BY DEF CtrlCOneOff, OneOffInv, ooWorld
<1>2. /\ run' \in [Runs -> [at : OneOffSteps, cut : BOOLEAN]]
      /\ \A q \in Runs : run'[q].at = run[q].at
  BY <1>1
<1>3. OneOffInv'
  BY <1>1, <1>2 DEF OneOffInv
<1> QED
  BY <1>1, <1>3, NothingSaid DEF Holds

(* Up to the volume.                                                       *)

LEMMA BeforeVolumeHolds ==
  ASSUME OneOffInv, NEW r \in Runs,
         AsksOneOffOwner(r) \/ UpsDependencies(r) \/ PreparesOneOff(r) \/ ClearsStale(r) \/ MakesBindDirs(r)
  PROVE  Holds
<1>1. run[r].at # "over" /\ UNCHANGED volume
  BY DEF AsksOneOffOwner, UpsDependencies, PreparesOneOff, ClearsStale, MakesBindDirs, AtStep, ooWorld
<1>2. \/ \E p \in {"deps", "prepare", "clear", "dirs", "look"} : To(r, p) /\ UNCHANGED verdict
      \/ \E v \in {"refused", "failed", "interrupted, not started"} : Ends(r, v)
  BY DEF AsksOneOffOwner, UpsDependencies, PreparesOneOff, ClearsStale, MakesBindDirs
<1>3. ASSUME NEW p \in {"deps", "prepare", "clear", "dirs", "look"}, To(r, p), UNCHANGED verdict
      PROVE  Holds
  <2>1. p \in OneOffSteps /\ p # "over" /\ p \notin Filling
    BY DEF OneOffSteps, Filling
  <2> QED
    BY <1>1, <1>3, <2>1, GoesOn
<1>4. ASSUME NEW v \in {"refused", "failed", "interrupted, not started"}, Ends(r, v)
      PROVE  Holds
  <2>1. v # "fill taken back" /\ v # "removed" /\ v # "stopped"
    OBVIOUS
  <2> QED
    BY <1>1, <1>4, <2>1, Finishes
<1> QED
  BY <1>2, <1>3, <1>4

(* The volume: only one that nobody had is filled, and taken back.         *)

LEMMA LookHolds ==
  ASSUME OneOffInv, NEW r \in Runs, LooksAtVolume(r)
  PROVE  Holds
<1>1. run[r].at = "look" /\ UNCHANGED <<volume, verdict>>
  BY DEF LooksAtVolume, AtStep, ooWorld
<1>2. \E p \in {"fill", "run"} : To(r, p) /\ (p = "fill" => volume = "none")
  BY DEF LooksAtVolume
<1>3. \A p \in {"fill", "run"} : p \in OneOffSteps /\ p # "over" /\ (p \in Filling => p = "fill")
  BY DEF OneOffSteps, Filling
<1> QED
  BY <1>1, <1>2, <1>3, GoesOn

LEMMA FillHolds ==
  ASSUME OneOffInv, NEW r \in Runs,
         \/ ClearsSeed(r) \/ StartsSeed(r) \/ EndsSeed(r) \/ AfterFailedSeed(r)
         \/ TakesBackSeedContainer(r) \/ TakesBackVolume(r)
  PROVE  Holds
<1>1. run[r].at \in Filling /\ run[r].at # "over" /\ UNCHANGED verdict
  BY DEF ClearsSeed, StartsSeed, EndsSeed, AfterFailedSeed, TakesBackSeedContainer, TakesBackVolume,
     AtStep, Filling
<1>2. volume # "kept"
  BY <1>1 DEF OneOffInv
<1>3. volume' # "kept"
  BY <1>2 DEF ClearsSeed, StartsSeed, EndsSeed, AfterFailedSeed, TakesBackSeedContainer,
     TakesBackVolume, ooWorld
<1>4. \E p \in Filling \cup {"run"} : To(r, p)
  BY DEF ClearsSeed, StartsSeed, EndsSeed, AfterFailedSeed, TakesBackSeedContainer, TakesBackVolume,
     Filling
<1>5. \A p \in Filling \cup {"run"} : p \in OneOffSteps /\ p # "over"
  BY DEF OneOffSteps, Filling
<1> QED
  BY <1>1, <1>2, <1>3, <1>4, <1>5, GoesOn

LEMMA SeesLeftHolds ==
  ASSUME OneOffInv, NEW r \in Runs, SeesWhatIsLeft(r)
  PROVE  Holds
<1>1. UNCHANGED <<oneoff, seed, volume>>
  BY DEF SeesWhatIsLeft, ooWorld
<1>2. CASE seed = NoContainer /\ volume = "none" /\ Ends(r, "fill taken back")
  BY <1>1, <1>2, Finishes
<1>3. CASE Ends(r, "fill left")
  BY <1>1, <1>3, Finishes
<1> QED
  BY <1>2, <1>3 DEF SeesWhatIsLeft

(* The container.                                                          *)

LEMMA RunHolds ==
  ASSUME OneOffInv, NEW r \in Runs, RunsOneOff(r) \/ OneOffEnds(r) \/ StopsOneOff(r) \/ RemovesOneOff(r)
  PROVE  Holds
<1>1. run[r].at # "over" /\ UNCHANGED verdict /\ (volume' = "kept" <=> volume = "kept")
  BY DEF RunsOneOff, OneOffEnds, StopsOneOff, RemovesOneOff, AtStep
<1>2. \E p \in {"attached", "stop", "asked", "remove", "sawStopped", "sawRemoved"} : To(r, p)
  BY DEF RunsOneOff, OneOffEnds, StopsOneOff, RemovesOneOff
<1>3. \A p \in {"attached", "stop", "asked", "remove", "sawStopped", "sawRemoved"} :
        p \in OneOffSteps /\ p # "over" /\ p \notin Filling
  BY DEF OneOffSteps, Filling
<1> QED
  BY <1>1, <1>2, <1>3, GoesOn

LEMMA EndHolds ==
  ASSUME OneOffInv, NEW r \in Runs, AfterOneOff(r) \/ SeesRemoved(r) \/ SeesStopped(r)
  PROVE  Holds
<1>1. CASE AfterOneOff(r)
  <2>1. Ends(r, "ended") /\ UNCHANGED volume
    BY <1>1 DEF AfterOneOff
  <2> QED
    BY <2>1, Finishes
<1>2. CASE SeesRemoved(r)
  <2>1. UNCHANGED <<oneoff, volume>>
    BY <1>2 DEF SeesRemoved, ooWorld
  <2>2. \/ oneoff = NoContainer /\ Ends(r, "removed")
        \/ Ends(r, "still there")
        \/ Ends(r, "not known")
    BY <1>2 DEF SeesRemoved
  <2>3. CASE oneoff = NoContainer /\ Ends(r, "removed")
    BY <2>1, <2>3, Finishes
  <2>4. CASE Ends(r, "still there")
    BY <2>1, <2>4, Finishes
  <2>5. CASE Ends(r, "not known")
    BY <2>1, <2>5, Finishes
  <2> QED
    BY <2>2, <2>3, <2>4, <2>5
<1>3. CASE SeesStopped(r)
  <2>1. UNCHANGED <<oneoff, volume>>
    BY <1>3 DEF SeesStopped, ooWorld
  <2>2. \/ ~oneoff.runs /\ Ends(r, "stopped")
        \/ \E v \in {"still running", "no longer there", "not known"} : Ends(r, v)
    BY <1>3 DEF SeesStopped
  <2>3. CASE ~oneoff.runs /\ Ends(r, "stopped")
    BY <2>1, <2>3, Finishes
  <2>4. ASSUME NEW v \in {"still running", "no longer there", "not known"}, Ends(r, v)
        PROVE  Holds
    BY <2>1, <2>4, Finishes
  <2> QED
    BY <2>2, <2>3, <2>4
<1> QED
  BY <1>1, <1>2, <1>3

-----------------------------------------------------------------------------
LEMMA OneOffInvFirst == OneOffInit => OneOffInv
BY DEF OneOffInit, OneOffInv, OneOffSteps, Filling

LEMMA StepHolds == OneOffInv /\ OneOffNext => Holds
<1> SUFFICES ASSUME OneOffInv, OneOffNext PROVE Holds
  OBVIOUS
<1>1. CASE NameGoes
  <2>1. UNCHANGED <<run, volume, verdict>>
    BY <1>1 DEF NameGoes
  <2>2. OneOffInv'
    BY <2>1 DEF OneOffInv
  <2> QED
    BY <2>1, <2>2, NothingSaid DEF Holds
<1>2. ASSUME NEW r \in Runs, OneOffStep(r) PROVE Holds
  BY <1>2, InterruptHolds, BeforeVolumeHolds, LookHolds, FillHolds, SeesLeftHolds, RunHolds, EndHolds
     DEF OneOffStep
<1> QED
  BY <1>1, <1>2 DEF OneOffNext

LEMMA StutterKeeps == OneOffInv /\ UNCHANGED ooVars => OneOffInv'
BY DEF ooVars, ooWorld, OneOffInv

\* "Existing volumes are left untouched" (seedVolumes), and what RunOneOff says of
\* what it left is so: of any number of runs of a service at once, by any names that
\* were there before, with calls that fail and interrupts anywhere.
THEOREM RunsAreAlwaysAccountedFor == OneOffSpec => RunsAreAccountedFor
<1>1. OneOffInv /\ [OneOffNext]_ooVars => OneOffInv'
  BY StepHolds, StutterKeeps DEF Holds
<1>2. OneOffInv /\ [OneOffNext]_ooVars =>
        [volume = "kept" => volume' = "kept"]_ooVars /\ [Said]_ooVars
  BY StepHolds DEF Holds
<1>3. [][Said]_ooVars <=> VerdictsAreTrue
  BY DEF Said, VerdictsAreTrue
<1>4. [][volume = "kept" => volume' = "kept"]_ooVars <=> PriorDataKept
  BY DEF PriorDataKept
<1> QED
  BY <1>1, <1>2, <1>3, <1>4, OneOffInvFirst, PTL DEF OneOffSpec, RunsAreAccountedFor

-----------------------------------------------------------------------------
(* The sweep of mutations: it ends by telling the truth.                   *)

Texts    == {NoFile} \cup [made : Nat, holds : {"own", "mutant", "cut"}]
OwnTexts == [made : Nat, holds : {"own"}]
Runners  == [pending : BOOLEAN, orig : OwnTexts, written : BOOLEAN, aborted : BOOLEAN,
             restoredOnCancel : BOOLEAN, restoreErrOnCancel : BOOLEAN]

\* Where a mutation is in hand, where the sweep is over, where an older tree is
\* swept, and where the exit status stands.
InHand   == {"vet", "test", "disarm"}
Older    == {"compare", "making", "adding", "added", "old", "sweeping old"}
Judged   == {"cleaning", "returning", "leaving", "over"}
After    == {"swept", "report"} \cup Older \cup Judged
Places   == {"check", "baseline", "next", "prepare", "arm"} \cup InHand \cup After
Verdicts == {"none", "inconclusive", "broken", "caught", "survived"}
Errors   == {"none", "prepare", "baseline", "cancelled", "aborted", "write", "interrupted", "restore"}
Sweeps   == [against : BOOLEAN, controls : SUBSET (1..Count), at : Places, original : OwnTexts,
             verdict : Verdicts, err : Errors, out : Seq(Verdicts), code : {0, 1, 2}]
Turnings == {"idle", "started", "restore", "cleanup", "cleaning", "saying"}
Handlers == [at : Turnings,
             says : {"none", "put back", "not put back", "nothing in flight"}]

SweepTypeOK ==
  /\ source \in Texts /\ authored \in Nat /\ standing \in Nat
  /\ runner \in Runners /\ sweep \in Sweeps /\ handler \in Handlers
  /\ cancelled \in BOOLEAN /\ cleanup \in BOOLEAN /\ tree \in {"none", "dir", "checked out"}
  /\ inUse \in {"free", "main"}
  /\ status \in {0, 1, 2, 130, Running}

\* The author's edits are counted, and no edit made over a mutation is lost: what
\* would be written over the file is as new as it.
EditsAreKept ==
  /\ standing <= authored
  /\ StandingEditsSurvive
  /\ sweep.at = "arm" => sweep.original.made >= standing
  /\ runner.pending /\ ~runner.written => runner.orig.made >= standing

\* Whose turn it is: the latch, the registration and the interrupt.
Turns ==
  /\ runner.pending => sweep.at \in InHand
  /\ sweep.at \in InHand => runner.pending \/ runner.aborted
  /\ runner.aborted => ~runner.pending
  /\ runner.aborted <=> handler.at \in {"cleanup", "cleaning", "saying"}
  /\ cancelled <=> handler.at \notin {"idle", "started"}
  /\ ~runner.aborted => handler.says = "none"
  /\ sweep.err = "restore" => sweep.at \in After
  /\ runner.restoredOnCancel => cancelled /\ sweep.at \in {"next"} \cup After /\ sweep.err # "restore"

\* Where the tool's text cannot be.
TextIsOut ==
  /\ sweep.at \in {"check", "baseline", "prepare", "arm"} => ~ToolText
  /\ sweep.at = "next" /\ ~cancelled => ~ToolText
  /\ ~runner.pending /\ ~runner.aborted /\ sweep.err # "restore" => ~ToolText
  /\ handler.says = "put back" => ~ToolText
  /\ handler.says = "nothing in flight" /\ sweep.err # "restore" => ~ToolText
  /\ sweep.at \in After \ {"swept"} /\ sweep.code # 2 /\ sweep.err = "none" => ~ToolText

\* What the exit status is made of.
Tally ==
  /\ sweep.at \in After /\ sweep.err = "none" /\ sweep.code # 2 => Len(sweep.out) = Count
  /\ sweep.at \notin Judged => sweep.code = 0
  /\ sweep.at \in Older => sweep.err = "none"
  /\ sweep.at \in Judged /\ sweep.code # 2 => sweep.err = "none" /\ sweep.code = ExitStatus(sweep.out)

\* Somebody has the worktree to take back.
Minded == (cleanup /\ handler.at # "saying") \/ handler.at = "cleaning"
TreeIsMinded ==
  /\ sweep.at \in {"making", "adding"} /\ ~cancelled => cleanup
  /\ sweep.at \in {"making", "adding", "added"} => inUse = "main"
  /\ sweep.at = "added" => Minded
  /\ tree = "checked out" => "leftover" \in told \/ Minded

\* What has been said and how it ended.
Ending ==
  /\ Lives => told \subseteq {"sweep error", "table", "leftover"}
  /\ status = 130 => told \subseteq {"sweep error", "table", "leftover", handler.says}
                     /\ handler.at = "saying"
  /\ status \in {0, 1} => sweep.at = "over" /\ status = sweep.code
  /\ status \in {0, 1, 2} => told \subseteq {"sweep error", "table", "leftover"}
  /\ status # Running /\ handler.at = "idle" /\ tree = "checked out" => "leftover" \in told

SweepInv == SweepTypeOK /\ EditsAreKept /\ Turns /\ TextIsOut /\ Tally /\ TreeIsMinded /\ Ending

LEMMA SweepInvInit == SweepInit => SweepInv
<1> SUFFICES ASSUME SweepInit PROVE SweepInv
  OBVIOUS
<1>1. SweepTypeOK
  <2>1. Own(0) \in OwnTexts /\ Own(0) \in Texts
    BY DEF Own, OwnTexts, Texts
  <2>2. runner \in Runners
    BY <2>1 DEF SweepInit, Runners
  <2>3. sweep \in Sweeps
    BY <2>1 DEF SweepInit, Sweeps, Places, Verdicts, Errors
  <2>4. handler \in Handlers
    BY DEF SweepInit, Handlers, Turnings
  <2> QED BY <2>1, <2>2, <2>3, <2>4 DEF SweepInit, SweepTypeOK, Running
<1>2. sweep.at = "check" /\ sweep.err = "none" /\ sweep.code = 0 /\ sweep.out = <<>>
  BY DEF SweepInit
<1>3. EditsAreKept /\ Turns /\ TextIsOut
  BY <1>2 DEF SweepInit, EditsAreKept, StandingEditsSurvive, Turns, TextIsOut, ToolText, Own, NoFile,
              After, Older, Judged, InHand
<1>4. Tally /\ TreeIsMinded /\ Ending
  BY <1>2 DEF SweepInit, Tally, TreeIsMinded, Ending, Lives, Running, After, Older, Judged
<1> QED BY <1>1, <1>3, <1>4 DEF SweepInv

\* What a step of the sweep's own leaves in its record.
SweepIs(p, e, c) ==
  /\ sweep' \in Sweeps /\ sweep'.at = p /\ sweep'.err = e /\ sweep'.code = c
  /\ sweep'.out = sweep.out /\ sweep'.controls = sweep.controls

LEMMA GoesIs ==
  ASSUME SweepTypeOK, NEW p \in Places, Goes(p)
  PROVE  SweepIs(p, sweep.err, sweep.code) /\ sweep'.original = sweep.original
BY DEF SweepTypeOK, Sweeps, Goes, SweepIs

LEMMA FailsIs ==
  ASSUME SweepTypeOK, NEW p \in Places, NEW e \in Errors, Fails(p, e)
  PROVE  SweepIs(p, e, sweep.code) /\ sweep'.original = sweep.original
BY DEF SweepTypeOK, Sweeps, Fails, SweepIs

LEMMA ReturnsIs ==
  ASSUME SweepTypeOK, NEW c \in {0, 1, 2}, Returns(c)
  PROVE  SweepIs("returning", sweep.err, c) /\ sweep'.original = sweep.original
BY DEF SweepTypeOK, Sweeps, Returns, SweepIs, Places, After, Judged

LEMMA ConcludesIs ==
  ASSUME SweepTypeOK, NEW v \in Verdicts, Concludes(v)
  PROVE  SweepIs("disarm", sweep.err, sweep.code) /\ sweep'.original = sweep.original
BY DEF SweepTypeOK, Sweeps, Concludes, SweepIs, Places, InHand

LEMMA StatusStays ==
  ASSUME sweep'.controls = sweep.controls, sweep'.out = sweep.out
  PROVE  ExitStatus(sweep.out)' = ExitStatus(sweep.out)
BY DEF ExitStatus, Wrong

LEMMA StatusIsOne == \A out : ExitStatus(out) \in {0, 1, 2}
BY DEF ExitStatus

\* A step that touches neither the worktree nor what has been said.
LEMMA TreeStands ==
  ASSUME TreeIsMinded, Ending, Lives,
         UNCHANGED <<handler, cancelled, tree, cleanup, inUse, told, status>>,
         sweep'.at \notin {"making", "adding", "added"}
  PROVE  TreeIsMinded' /\ Ending'
<1>1. TreeIsMinded'
  BY DEF TreeIsMinded, Minded
<1>2. Ending'
  <2>1. Lives' /\ status' \notin {0, 1, 2, 130}
    BY DEF Lives, Running
  <2>2. told' \subseteq {"sweep error", "table", "leftover"}
    BY DEF Ending
  <2> QED BY <2>1, <2>2 DEF Ending, Lives
<1> QED BY <1>1, <1>2

\* Steps of the sweep that only move it on.
Onward ==
  /\ UNCHANGED <<source, authored, standing, runner, handler, cancelled, tree, cleanup, inUse, told, status>>
  /\ Lives

LEMMA OnwardKeeps ==
  ASSUME SweepInv, CheckAll \/ Baseline \/ NextMutation \/ Prepare \/ Vet \/ Test \/ LooksAtTheContext \/ Leaves
  PROVE  SweepInv'
<1> USE DEF SweepInv
<1>1. Onward
  BY DEF CheckAll, Baseline, NextMutation, Prepare, Vet, Test, LooksAtTheContext, Leaves, MainAt, Onward
<1>2. \/ /\ sweep.at \in {"check", "baseline", "next"}
         /\ \E p \in {"baseline", "next", "prepare"} : SweepIs(p, sweep.err, sweep.code)
         /\ sweep.at = "next" => ~cancelled
      \/ /\ sweep.at \in {"check", "baseline", "next", "prepare"}
         /\ \E e \in Errors \ {"none", "restore"} : SweepIs("swept", e, sweep.code)
      \/ sweep.at = "next" /\ SweepIs("swept", sweep.err, sweep.code) /\ Len(sweep.out) = Count
      \/ /\ sweep.at = "prepare" /\ SweepIs("arm", sweep.err, sweep.code)
         /\ sweep'.original = source
         /\ source # NoFile
      \/ /\ sweep.at \in InHand
         /\ \E p \in InHand, e \in {sweep.err, "interrupted"} : SweepIs(p, e, sweep.code)
      \/ sweep.at = "swept" /\ cancelled /\ SweepIs("returning", sweep.err, 2)
      \/ sweep.at = "swept" /\ ~cancelled /\ SweepIs("report", sweep.err, sweep.code)
      \/ sweep.at = "returning" /\ SweepIs("leaving", sweep.err, sweep.code)
  <2> USE DEF MainAt
  <2>0. /\ \A p \in {"baseline", "next", "prepare", "swept", "report", "leaving", "test", "disarm"} : p \in Places
        /\ {"prepare", "baseline", "cancelled", "interrupted"} \subseteq Errors
        /\ {"inconclusive", "broken", "caught", "survived"} \subseteq Verdicts
    BY DEF Places, After, Judged, InHand, Errors, Verdicts
  <2>1. CASE CheckAll
    BY <2>0, <2>1, GoesIs, FailsIs DEF CheckAll
  <2>2. CASE Baseline
    BY <2>0, <2>2, GoesIs, FailsIs DEF Baseline
  <2>3. CASE NextMutation
    BY <2>0, <2>3, GoesIs, FailsIs DEF NextMutation
  <2>4. CASE Prepare
    <3>1. CASE source # NoFile /\ sweep' = [sweep EXCEPT !.at = "arm", !.original = source]
      <4>1. source \in OwnTexts
        BY <2>4, <3>1 DEF Prepare, TextIsOut, ToolText, SweepTypeOK, Texts, OwnTexts
      <4>2. "arm" \in Places
        BY DEF Places
      <4>3. SweepIs("arm", sweep.err, sweep.code) /\ sweep'.original = source
        BY <3>1, <4>1, <4>2 DEF SweepTypeOK, Sweeps, SweepIs
      <4> QED BY <2>4, <3>1, <4>3 DEF Prepare
    <3>2. CASE Fails("swept", "prepare")
      BY <2>0, <2>4, <3>2, FailsIs DEF Prepare
    <3> QED BY <2>4, <3>1, <3>2 DEF Prepare
  <2>5. CASE Vet
    BY <2>0, <2>5, GoesIs, FailsIs, ConcludesIs DEF Vet, CutShort, InHand
  <2>6. CASE Test
    BY <2>0, <2>6, GoesIs, FailsIs, ConcludesIs DEF Test, RedUnnamed, CutShort, InHand
  <2>7. CASE LooksAtTheContext
    BY <2>0, <2>7, GoesIs, ReturnsIs DEF LooksAtTheContext
  <2>8. CASE Leaves
    BY <2>0, <2>8, GoesIs DEF Leaves
  <2> QED BY <2>1, <2>2, <2>3, <2>4, <2>5, <2>6, <2>7, <2>8, Zenon
<1> USE DEF InHand, After, Older, Judged, SweepIs
<1>3. SweepTypeOK'
  BY ZenonT(40), <1>1, <1>2 DEF SweepTypeOK, Onward
<1>4. EditsAreKept'
  BY <1>1, <1>2 DEF EditsAreKept, StandingEditsSurvive, Onward, Turns
<1>5. Turns'
  BY <1>1, <1>2 DEF Turns, Onward
<1>6. TextIsOut'
  BY <1>1, <1>2 DEF TextIsOut, Turns, Tally, ToolText, Onward
<1>7. Tally'
  BY <1>1, <1>2, StatusStays DEF Tally, Onward
<1>8. TreeIsMinded' /\ Ending'
  <2>1. sweep'.at \notin {"making", "adding", "added"}
    BY <1>2, Zenon
  <2>2. TreeIsMinded /\ Ending /\ Lives /\ UNCHANGED <<handler, cancelled, tree, cleanup, inUse, told, status>>
    BY <1>1 DEF Onward
  <2> QED BY ONLY <2>1, <2>2, TreeStands
<1> QED BY <1>3, <1>4, <1>5, <1>6, <1>7, <1>8

\* What a restore may leave: only the original, unless it says otherwise.
LEMMA RestoreTells ==
  ASSUME SweepTypeOK, NEW put \in RestoreOutcomes
  PROVE  /\ put.file \in Texts /\ put.err \in BOOLEAN
         /\ put.file # source =>
              /\ put.file.made = runner.orig.made
              /\ runner.written => source.made = runner.orig.made /\ source # NoFile
         /\ ~put.err => put.file.holds = "own"
<1>1. runner.orig \in OwnTexts /\ source \in Texts /\ runner.written \in BOOLEAN
  BY DEF SweepTypeOK, Runners
<1>2. CutOff(runner.orig) \in Texts /\ CutOff(runner.orig).made = runner.orig.made
      /\ Mutated(runner.orig).made = runner.orig.made
      /\ runner.orig \in Texts /\ runner.orig.holds = "own"
  BY <1>1 DEF CutOff, Mutated, Texts, OwnTexts
<1>3. CASE source = NoFile \/ WasEdited
  <2>1. put = [file |-> source, err |-> TRUE]
    BY <1>3 DEF RestoreOutcomes
  <2> QED BY <1>1, <2>1
<1>4. CASE ~(source = NoFile \/ WasEdited)
  <2>1. runner.written => source.made = runner.orig.made /\ source # NoFile
    BY <1>2, <1>4 DEF WasEdited
  <2>2. PICK p \in {[file |-> runner.orig, err |-> FALSE],
                    [file |-> source, err |-> source # runner.orig],
                    [file |-> CutOff(runner.orig), err |-> TRUE]} : put = p
    BY <1>4 DEF RestoreOutcomes
  <2>3. CASE put = [file |-> runner.orig, err |-> FALSE]
    BY <1>2, <2>1, <2>3
  <2>4. CASE put = [file |-> source, err |-> source # runner.orig]
    <3>1. put.file = source /\ put.err = (source # runner.orig)
      BY <2>4
    <3>2. put.err \in BOOLEAN
      BY <3>1, Zenon
    <3>3. ~put.err => source = runner.orig
      BY <3>1
    <3> QED BY <1>1, <1>2, <3>1, <3>2, <3>3
  <2>5. CASE put = [file |-> CutOff(runner.orig), err |-> TRUE]
    BY <1>2, <2>1, <2>5
  <2> QED BY <2>2, <2>3, <2>4, <2>5
<1> QED BY <1>3, <1>4

LEMMA ArmKeeps ==
  ASSUME SweepInv, Arm
  PROVE  SweepInv'
<1> USE DEF SweepInv
<1>1. /\ UNCHANGED <<authored, standing, handler, cancelled, tree, cleanup, inUse, told, status>>
      /\ Lives /\ sweep.at = "arm"
  BY DEF Arm, MainAt
<1>2. {"disarm", "vet"} \subseteq Places /\ {"aborted", "write"} \subseteq Errors
  BY DEF Places, InHand, Errors
<1>3. CASE ~MayArm
  <2>1. SweepIs("disarm", "aborted", sweep.code) /\ runner.aborted /\ runner' = runner /\ source' = source
    BY <1>2, <1>3, FailsIs DEF Arm, MayArm, SweepTypeOK, Runners
  <2>2. SweepTypeOK'
    BY <1>1, <2>1 DEF SweepTypeOK, SweepIs
  <2>3. EditsAreKept' /\ Turns'
    BY <1>1, <2>1 DEF EditsAreKept, StandingEditsSurvive, Turns, SweepIs, InHand, After, Older, Judged
  <2>4. TextIsOut'
    BY <1>1, <2>1 DEF TextIsOut, ToolText, Turns, SweepIs, InHand, After, Older, Judged
  <2>5. Tally'
    BY <1>1, <2>1 DEF Tally, SweepIs, InHand, After, Older, Judged
  <2>6. TreeIsMinded' /\ Ending'
    BY <1>1, <2>1, TreeStands DEF SweepIs
  <2> QED BY <2>2, <2>3, <2>4, <2>5, <2>6
<1>4. CASE MayArm
  <2>1. PICK w \in {"whole", "refused", "cut"} :
          /\ source' = CASE w = "whole"   -> Mutated(sweep.original)
                         [] w = "refused" -> source
                         [] w = "cut"     -> CutOff(sweep.original)
          /\ runner' = [runner EXCEPT !.pending = TRUE, !.orig = sweep.original, !.written = w = "whole"]
          /\ IF w = "whole" THEN Goes("vet") ELSE Fails("disarm", "write")
    BY <1>4 DEF Arm
  <2>2. sweep.original \in OwnTexts /\ source \in Texts
    BY DEF SweepTypeOK, Sweeps
  <2>3. /\ source' \in Texts
        /\ source' = source \/ source'.made = sweep.original.made
    BY <2>1, <2>2 DEF Mutated, CutOff, Texts, OwnTexts
  <2>4. /\ runner' \in Runners
        /\ runner'.pending /\ runner'.orig = sweep.original
        /\ runner'.aborted = runner.aborted /\ runner'.restoredOnCancel = runner.restoredOnCancel
    BY <2>1, <2>2 DEF SweepTypeOK, Runners
  <2>5. \/ SweepIs("vet", sweep.err, sweep.code)
        \/ SweepIs("disarm", "write", sweep.code)
    BY <1>2, <2>1, GoesIs, FailsIs
  <2>6. ~runner.aborted
    BY <1>4 DEF MayArm
  <2>7. SweepTypeOK'
    BY <1>1, <2>3, <2>4, <2>5 DEF SweepTypeOK, SweepIs
  <2>8. EditsAreKept'
    BY <1>1, <2>3, <2>4, <2>5 DEF EditsAreKept, StandingEditsSurvive, SweepIs
  <2>9. Turns'
    BY <1>1, <2>4, <2>5, <2>6 DEF Turns, SweepIs, InHand, After, Older, Judged
  <2>10. TextIsOut'
    BY <1>1, <2>4, <2>5, <2>6 DEF TextIsOut, ToolText, Turns, SweepTypeOK, Handlers, SweepIs, InHand, After, Older, Judged
  <2>11. Tally'
    BY <1>1, <2>5 DEF Tally, SweepIs, InHand, After, Older, Judged
  <2>12. TreeIsMinded' /\ Ending'
    BY <1>1, <2>5, TreeStands DEF SweepIs
  <2> QED BY <2>7, <2>8, <2>9, <2>10, <2>11, <2>12
<1> QED BY <1>3, <1>4

LEMMA DisarmKeeps ==
  ASSUME SweepInv, Disarm
  PROVE  SweepInv'
<1> USE DEF SweepInv
<1>1. /\ UNCHANGED <<authored, standing, handler, cancelled, tree, cleanup, inUse, told, status>>
      /\ Lives /\ sweep.at = "disarm"
  BY DEF Disarm, MainAt
<1>2. PICK put \in IF runner.pending THEN RestoreOutcomes ELSE {[file |-> source, err |-> FALSE]} :
        /\ source' = put.file
        /\ runner' = IF ~runner.pending THEN runner
                     ELSE [runner EXCEPT !.pending = FALSE,
                             !.restoredOnCancel = @ \/ (cancelled /\ ~put.err),
                             !.restoreErrOnCancel = @ \/ (cancelled /\ put.err)]
        /\ sweep' = IF put.err THEN [sweep EXCEPT !.at = "swept", !.err = "restore"]
                     ELSE IF sweep.err # "none" THEN [sweep EXCEPT !.at = "swept"]
                     ELSE [sweep EXCEPT !.at = "next", !.out = Append(@, sweep.verdict)]
  BY DEF Disarm
<1>3. /\ put.file \in Texts /\ put.err \in BOOLEAN
      /\ put.file # source =>
              /\ put.file.made = runner.orig.made
              /\ runner.written => source.made = runner.orig.made /\ source # NoFile
              /\ runner.pending
      /\ runner.pending /\ ~put.err => put.file.holds = "own"
      /\ ~runner.pending => ~put.err
  <2>1. CASE runner.pending
    <3>1. put \in RestoreOutcomes
      BY <2>1
    <3> HIDE DEF SweepInv
    <3>2. SweepTypeOK
      BY DEF SweepInv
    <3> QED BY <2>1, <3>1, <3>2, RestoreTells
  <2>2. CASE ~runner.pending
    <3>1. put = [file |-> source, err |-> FALSE]
      BY <2>2
    <3> QED BY <2>2, <3>1 DEF SweepTypeOK
  <2> QED BY <2>1, <2>2 DEF SweepTypeOK, Runners
<1>4. /\ runner' \in Runners /\ ~runner'.pending
      /\ runner'.aborted = runner.aborted
      /\ runner'.restoredOnCancel => runner.restoredOnCancel \/ (cancelled /\ ~put.err)
  <2>1. runner \in Runners /\ cancelled \in BOOLEAN
    BY DEF SweepTypeOK
  <2>2. CASE ~runner.pending
    BY <1>2, <2>1, <2>2
  <2>3. CASE runner.pending
    <3>1. (runner.restoredOnCancel \/ (cancelled /\ ~put.err)) \in BOOLEAN
          /\ (runner.restoreErrOnCancel \/ (cancelled /\ put.err)) \in BOOLEAN
      BY Zenon
    <3>2. runner' = [runner EXCEPT !.pending = FALSE,
                             !.restoredOnCancel = runner.restoredOnCancel \/ (cancelled /\ ~put.err),
                             !.restoreErrOnCancel = runner.restoreErrOnCancel \/ (cancelled /\ put.err)]
      BY <1>2, <2>3
    <3> QED BY <2>1, <3>1, <3>2 DEF Runners
  <2> QED BY <2>2, <2>3
<1>5. /\ sweep' \in Sweeps /\ sweep'.code = sweep.code
      /\ \/ put.err /\ sweep'.at = "swept" /\ sweep'.err = "restore"
         \/ ~put.err /\ sweep'.at = "swept" /\ sweep'.err = sweep.err /\ sweep.err # "none"
         \/ ~put.err /\ sweep'.at = "next" /\ sweep'.err = "none"
  <2>1. sweep \in Sweeps /\ {"swept", "next"} \subseteq Places /\ "restore" \in Errors
        /\ sweep.verdict \in Verdicts /\ sweep.out \in Seq(Verdicts)
    BY DEF SweepTypeOK, Sweeps, Places, After, Errors
  <2>2. Append(sweep.out, sweep.verdict) \in Seq(Verdicts)
    BY <2>1
  <2>3. CASE put.err
    BY <1>2, <2>1, <2>3 DEF Sweeps
  <2>4. CASE ~put.err /\ sweep.err # "none"
    BY <1>2, <2>1, <2>4 DEF Sweeps
  <2>5. CASE ~put.err /\ sweep.err = "none"
    BY <1>2, <2>1, <2>2, <2>5 DEF Sweeps
  <2> QED BY <1>3, <2>3, <2>4, <2>5
<1> USE DEF InHand, After, Older, Judged
<1>6. SweepTypeOK'
  BY <1>1, <1>2, <1>3, <1>4, <1>5 DEF SweepTypeOK
<1>7. EditsAreKept'
  BY <1>1, <1>2, <1>3, <1>4, <1>5 DEF EditsAreKept, StandingEditsSurvive
<1>8. Turns'
  BY <1>1, <1>4, <1>5 DEF Turns
<1>9. TextIsOut'
  <2>1. runner.pending \/ source' = source
    BY <1>2, <1>3
  <2> QED BY <1>1, <1>2, <1>3, <1>4, <1>5, <2>1 DEF TextIsOut, Turns, ToolText, SweepTypeOK, Runners
<1>10. Tally'
  BY <1>1, <1>5 DEF Tally
<1>11. TreeIsMinded' /\ Ending'
  BY <1>1, <1>5, TreeStands
<1> QED BY <1>6, <1>7, <1>8, <1>9, <1>10, <1>11

\* Steps of the sweep that leave the file, the Runner, the author and the handler alone.
FileStands ==
  UNCHANGED <<source, authored, standing, runner, handler, cancelled>> /\ Lives

LEMMA FileStandsKeeps ==
  ASSUME SweepInv, FileStands, sweep'.err = sweep.err,
         sweep.at \in After, sweep'.at \in After,
         sweep.code # 2 /\ sweep'.code # 2 /\ sweep.err = "none" =>
           sweep.at # "swept" \/ (~cancelled /\ sweep'.at = "report"),
         sweep.code = 2 => sweep'.code = 2
  PROVE  EditsAreKept' /\ Turns' /\ TextIsOut'
<1> USE DEF SweepInv, FileStands, InHand, After, Older, Judged
<1>1. EditsAreKept'
  BY DEF EditsAreKept, StandingEditsSurvive
<1>2. Turns'
  BY DEF Turns
<1>3. TextIsOut'
  BY DEF TextIsOut, ToolText, Turns
<1> QED BY <1>1, <1>2, <1>3

LEMMA ReportsKeeps ==
  ASSUME SweepInv, Reports
  PROVE  SweepInv'
<1> USE DEF SweepInv
<1>1. FileStands /\ sweep.at = "report" /\ UNCHANGED <<tree, cleanup, inUse, status>>
  BY DEF Reports, FileStands, MainAt
<1>2. "compare" \in Places /\ "returning" \in Places
  BY DEF Places, After, Older, Judged
<1>3. \/ sweep.err # "none" /\ SweepIs("returning", sweep.err, 2) /\ told' = told \cup {"sweep error"}
      \/ /\ sweep.err = "none" /\ told' = told \cup {"table"}
         /\ \/ SweepIs("compare", sweep.err, sweep.code)
            \/ SweepIs("returning", sweep.err, ExitStatus(sweep.out))
  BY <1>2, GoesIs, ReturnsIs, StatusIsOne DEF Reports
<1>4. SweepTypeOK'
  BY <1>1, <1>3 DEF SweepTypeOK, SweepIs, FileStands
<1>5. EditsAreKept' /\ Turns' /\ TextIsOut'
  <2>1. sweep.code = 0
    BY <1>1 DEF Tally, Judged
  <2>2. sweep.at \in After /\ sweep'.at \in After /\ sweep'.err = sweep.err /\ sweep.at # "swept"
    BY <1>1, <1>3 DEF SweepIs, After, Older, Judged
  <2>3. SweepInv
    OBVIOUS
  <2> HIDE DEF SweepInv
  <2> QED BY ONLY <1>1, <2>1, <2>2, <2>3, FileStandsKeeps
<1>6. Tally'
  <2>1. ExitStatus(sweep.out)' = ExitStatus(sweep.out)
    BY <1>3, StatusStays DEF SweepIs
  <2>2. sweep.code = 0 /\ (sweep.err = "none" => Len(sweep.out) = Count)
    BY <1>1 DEF Tally, After, Older, Judged
  <2> QED BY <1>3, <2>1, <2>2 DEF Tally, SweepIs, Older, Judged
<1>7. TreeIsMinded'
  BY <1>1, <1>3 DEF TreeIsMinded, Minded, FileStands, SweepIs
<1>8. Ending'
  <2>1. told' \subseteq {"sweep error", "table", "leftover"}
    BY <1>1, <1>3 DEF Ending, FileStands
  <2> QED BY <1>1, <2>1 DEF Ending, Lives, Running, FileStands
<1> QED BY <1>4, <1>5, <1>6, <1>7, <1>8

\* The steps over the older tree.
LEMMA OlderKeeps ==
  ASSUME SweepInv, Registers \/ MakesTreeDir \/ StartsAdding \/ Adds \/ SweepsOld \/ EndsOld
  PROVE  SweepInv'
<1> USE DEF SweepInv
<1>1. FileStands /\ UNCHANGED <<told, status>>
  BY DEF Registers, MakesTreeDir, StartsAdding, Adds, SweepsOld, EndsOld, FileStands, MainAt
<1>2. \/ sweep.at = "compare" /\ SweepIs("making", sweep.err, sweep.code) /\ cleanup'
         /\ tree' = tree /\ inUse' = "main"
      \/ sweep.at = "making" /\ SweepIs("adding", sweep.err, sweep.code) /\ cleanup' = cleanup
         /\ tree' = "dir" /\ inUse' = inUse
      \/ sweep.at = "adding" /\ SweepIs("added", sweep.err, sweep.code) /\ ~cancelled
         /\ UNCHANGED <<cleanup, tree, inUse>>
      \/ sweep.at = "adding" /\ SweepIs("returning", sweep.err, 2) /\ inUse' = "free"
         /\ UNCHANGED <<cleanup, tree>>
      \/ sweep.at = "added" /\ SweepIs("old", sweep.err, sweep.code) /\ cleanup' = cleanup
         /\ tree' = "checked out" /\ inUse' = "free"
      \/ sweep.at = "added" /\ SweepIs("returning", sweep.err, 2) /\ cleanup' = cleanup
         /\ tree' \in {"dir", "checked out"} /\ inUse' = "free"
      \/ sweep.at = "old" /\ SweepIs("sweeping old", sweep.err, sweep.code)
         /\ UNCHANGED <<cleanup, tree>> /\ inUse' = "main"
      \/ sweep.at = "sweeping old" /\ SweepIs("cleaning", sweep.err, ExitStatus(sweep.out))
         /\ UNCHANGED <<cleanup, tree>> /\ inUse' = "free"
      \/ sweep.at = "sweeping old" /\ SweepIs("returning", sweep.err, 2)
         /\ UNCHANGED <<cleanup, tree>> /\ inUse' = "free"
  <2> USE DEF MainAt
  <2>0. {"making", "adding", "added", "old", "sweeping old", "cleaning", "returning"} \subseteq Places
    BY DEF Places, After, Older, Judged
  <2>1. CASE Registers
    BY <2>0, <2>1, GoesIs DEF Registers
  <2>2. CASE MakesTreeDir
    BY <2>0, <2>2, GoesIs DEF MakesTreeDir
  <2>3. CASE StartsAdding
    BY <2>0, <2>3, GoesIs, ReturnsIs DEF StartsAdding, MayAdd
  <2>4. CASE Adds
    BY <2>0, <2>4, GoesIs, ReturnsIs DEF Adds
  <2>5. CASE SweepsOld
    BY <2>0, <2>5, GoesIs DEF SweepsOld
  <2>6. CASE EndsOld
    <3>1. CASE sweep' = [sweep EXCEPT !.at = "cleaning", !.code = ExitStatus(sweep.out)]
      <4>1. SweepIs("cleaning", sweep.err, ExitStatus(sweep.out))
        BY <2>0, <3>1, StatusIsOne DEF SweepTypeOK, Sweeps, SweepIs
      <4> QED BY <2>6, <4>1 DEF EndsOld
    <3>2. CASE Returns(2)
      BY <2>0, <2>6, <3>2, ReturnsIs DEF EndsOld
    <3> QED BY <2>6, <3>1, <3>2 DEF EndsOld
  <2> QED BY <2>1, <2>2, <2>3, <2>4, <2>5, <2>6
<1>3. SweepTypeOK'
  BY <1>1, <1>2 DEF SweepTypeOK, SweepIs, FileStands
<1>4. sweep.code = 0 /\ sweep.at \in Older /\ sweep'.at \in Older \cup Judged /\ sweep'.err = sweep.err
  BY <1>2 DEF Tally, SweepIs, Older, Judged
<1>5. EditsAreKept' /\ Turns' /\ TextIsOut'
  <2>1. sweep.at \in After /\ sweep'.at \in After /\ sweep.at # "swept"
    BY <1>4 DEF After, Older, Judged
  <2>2. SweepInv
    OBVIOUS
  <2> HIDE DEF SweepInv
  <2> QED BY ONLY <1>1, <1>4, <2>1, <2>2, FileStandsKeeps
<1>6. Tally'
  <2>1. ExitStatus(sweep.out)' = ExitStatus(sweep.out)
    BY <1>2, StatusStays DEF SweepIs
  <2>2. sweep.err = "none" /\ Len(sweep.out) = Count
    BY <1>4 DEF Tally, After
  <2> QED BY <1>2, <1>4, <2>1, <2>2 DEF Tally, SweepIs, Older, Judged
<1>7. TreeIsMinded'
  <2>1. Minded => Minded'
    BY <1>1, <1>2 DEF Minded, FileStands
  <2>2. sweep'.at \in {"making", "adding"} /\ ~cancelled => cleanup'
    BY <1>1, <1>2 DEF TreeIsMinded, FileStands, SweepIs
  <2>3. sweep'.at = "added" => Minded'
    <3>1. sweep'.at = "added" => sweep.at = "adding" /\ ~cancelled /\ cleanup' = cleanup
      BY <1>2 DEF SweepIs
    <3>2. ~cancelled => handler.at \in {"idle", "started"}
      BY DEF Turns
    <3> QED BY <1>1, <3>1, <3>2 DEF TreeIsMinded, Minded, FileStands
  <2>4. sweep'.at \in {"making", "adding", "added"} => inUse' = "main"
    BY <1>2 DEF TreeIsMinded, SweepIs
  <2>5. tree' = "checked out" => tree = "checked out" \/ Minded'
    BY <1>2, <2>1 DEF TreeIsMinded
  <2> QED BY <1>1, <2>1, <2>2, <2>3, <2>4, <2>5 DEF TreeIsMinded, FileStands
<1>8. Ending'
  BY <1>1, <1>2 DEF Ending, Lives, Running, FileStands, SweepIs
<1> QED BY <1>3, <1>5, <1>6, <1>7, <1>8

\* Who runs the cleanup leaves nothing checked out that has not been said.
LEMMA TakesBackIs ==
  ASSUME SweepTypeOK, TakesBack
  PROVE  /\ tree' \in {"none", "dir", "checked out"}
         /\ tree' = "checked out" => "leftover" \in told'
         /\ told \subseteq told' /\ told' \subseteq told \cup {"leftover"}
BY DEF TakesBack, SweepTypeOK

LEMMA MainCleansKeeps ==
  ASSUME SweepInv, MainCleans
  PROVE  SweepInv'
<1> USE DEF SweepInv
<1>1. FileStands /\ sweep.at \in {"cleaning", "leaving"} /\ inUse' = inUse
  BY DEF MainCleans, FileStands
<1>2. /\ SweepIs(IF sweep.at = "cleaning" THEN "returning" ELSE "over", sweep.err, sweep.code)
      /\ status' = IF sweep.at = "cleaning" THEN status ELSE sweep.code
  <2>1. "returning" \in Places /\ "over" \in Places
    BY DEF Places, After, Judged
  <2> QED BY <2>1, GoesIs DEF MainCleans
<1>3. /\ tree' \in {"none", "dir", "checked out"} /\ cleanup' \in BOOLEAN
      /\ tree' = "checked out" => "leftover" \in told' \/ (tree = "checked out" /\ ~cleanup)
      /\ told \subseteq told' /\ told' \subseteq told \cup {"leftover"}
  BY TakesBackIs DEF MainCleans, SweepTypeOK
<1>4. sweep.code \in {0, 1, 2} /\ sweep'.code = sweep.code
  BY <1>2 DEF SweepTypeOK, Sweeps, SweepIs
<1>5. SweepTypeOK'
  BY <1>1, <1>2, <1>3, <1>4 DEF SweepTypeOK, SweepIs, FileStands
<1>6. EditsAreKept' /\ Turns' /\ TextIsOut'
  <2>1. sweep.at \in After /\ sweep'.at \in After /\ sweep.at # "swept" /\ sweep'.err = sweep.err
    BY <1>1, <1>2 DEF SweepIs, After, Judged
  <2>2. SweepInv
    OBVIOUS
  <2> HIDE DEF SweepInv
  <2> QED BY ONLY <1>1, <1>4, <2>1, <2>2, FileStandsKeeps
<1>7. Tally'
  <2>1. ExitStatus(sweep.out)' = ExitStatus(sweep.out)
    BY <1>2, StatusStays DEF SweepIs
  <2> QED BY <1>1, <1>2, <2>1 DEF Tally, SweepIs, After, Older, Judged
<1>8. tree' = "checked out" => "leftover" \in told' \/ (tree = "checked out" /\ ~cleanup /\ handler.at = "cleaning")
  BY <1>1, <1>3 DEF TreeIsMinded, Minded
<1>9. TreeIsMinded'
  BY <1>1, <1>2, <1>8 DEF TreeIsMinded, Minded, FileStands, SweepIs
<1>10. Ending'
  <2>1. told' \subseteq {"sweep error", "table", "leftover"}
    BY <1>1, <1>3 DEF Ending, FileStands
  <2>2. status' # 130
    BY <1>1, <1>2, <1>4 DEF FileStands, Lives, Running
  <2>3. status' \in {0, 1} => sweep'.at = "over" /\ status' = sweep'.code
    BY <1>1, <1>2, <1>4 DEF FileStands, Lives, Running, SweepIs
  <2>4. handler' = handler
    BY <1>1 DEF FileStands
  <2> QED BY <1>8, <2>1, <2>2, <2>3, <2>4 DEF Ending
<1> QED BY <1>5, <1>6, <1>7, <1>9, <1>10

LEMMA HandlerGoesIs ==
  ASSUME SweepTypeOK, NEW p \in Turnings, HandlerGoes(p)
  PROVE  handler' \in Handlers /\ handler'.at = p /\ handler'.says = handler.says
BY DEF SweepTypeOK, Handlers, HandlerGoes

\* The handler's steps but for the restore: the sweep and the file stay.
LEMMA HandlerKeeps ==
  ASSUME SweepInv, Hears \/ StopsToolchain \/ TakesCleanup \/ HandlerCleans \/ SaysAndExits
  PROVE  SweepInv'
<1> USE DEF SweepInv
<1> DEFINE Same(b) == b' <=> b
<1>1. UNCHANGED <<source, authored, standing, runner, sweep, inUse>> /\ Lives
  BY DEF Hears, StopsToolchain, TakesCleanup, HandlerCleans, SaysAndExits, HandlerAt
<1>2. /\ handler' \in Handlers /\ handler'.says = handler.says
      /\ cancelled' \in BOOLEAN /\ cleanup' \in BOOLEAN /\ tree' \in {"none", "dir", "checked out"}
      /\ told \subseteq told'
      /\ \/ /\ handler.at = "idle" /\ handler'.at = "started"
            /\ Same(cancelled) /\ Same(cleanup) /\ UNCHANGED <<tree, told, status>>
         \/ /\ handler.at = "started" /\ handler'.at = "restore"
            /\ cancelled' /\ Same(cleanup) /\ UNCHANGED <<tree, told, status>>
         \/ /\ handler.at = "cleanup"
            /\ handler'.at = IF cleanup THEN "cleaning" ELSE "saying"
            /\ ~cleanup' /\ Same(cancelled) /\ UNCHANGED <<tree, told, status>>
         \/ /\ handler.at = "cleaning" /\ handler'.at = "saying"
            /\ inUse = "free" /\ Same(cancelled) /\ Same(cleanup) /\ status' = status
            /\ tree' = "checked out" => "leftover" \in told'
            /\ told' \subseteq told \cup {"leftover"}
         \/ /\ handler.at = "saying" /\ handler'.at = "saying" /\ status' = 130
            /\ told' = told \cup {handler.says} /\ Same(cancelled) /\ Same(cleanup) /\ tree' = tree
  <2> USE DEF HandlerAt, Turnings
  <2>1. CASE Hears
    BY <2>1, HandlerGoesIs DEF Hears, SweepTypeOK
  <2>2. CASE StopsToolchain
    BY <2>2, HandlerGoesIs DEF StopsToolchain, SweepTypeOK
  <2>3. CASE TakesCleanup
    BY <2>3, HandlerGoesIs DEF TakesCleanup, SweepTypeOK
  <2>4. CASE HandlerCleans
    BY <2>4, HandlerGoesIs, TakesBackIs DEF HandlerCleans, SweepTypeOK
  <2>5. CASE SaysAndExits
    BY <2>5 DEF SaysAndExits, SweepTypeOK
  <2> QED BY <2>1, <2>2, <2>3, <2>4, <2>5
<1>3. status' = status \/ (status' = 130 /\ handler'.at = "saying")
  BY <1>2
<1>4. SweepTypeOK'
  BY <1>1, <1>2, <1>3 DEF SweepTypeOK
<1>5. EditsAreKept'
  BY <1>1 DEF EditsAreKept, StandingEditsSurvive
<1>6. cancelled => cancelled'
  BY <1>2
<1>7. Turns'
  <2>1. runner.aborted <=> handler'.at \in {"cleanup", "cleaning", "saying"}
    BY <1>2 DEF Turns
  <2>2. cancelled' <=> handler'.at \notin {"idle", "started"}
    BY <1>2 DEF Turns
  <2> QED BY <1>1, <1>2, <1>6, <2>1, <2>2 DEF Turns
<1>8. TextIsOut' /\ Tally'
  <2>1. TextIsOut'
    BY <1>1, <1>2, <1>6 DEF TextIsOut, ToolText
  <2>2. Tally'
    BY <1>1, StatusStays DEF Tally
  <2> QED BY <2>1, <2>2
<1>9. TreeIsMinded'
  <2>1. sweep.at \in {"making", "adding"} /\ ~cancelled' => cleanup'
    BY <1>2, <1>6 DEF TreeIsMinded, Turns
  <2>2. sweep.at = "added" => Minded'
    BY <1>2 DEF TreeIsMinded, Minded
  <2>3. tree' = "checked out" => "leftover" \in told' \/ Minded'
    BY <1>2 DEF TreeIsMinded, Minded
  <2> QED BY <1>1, <2>1, <2>2, <2>3 DEF TreeIsMinded
<1>10. Ending'
  <2>1. CASE status' = 130
    <3>1. handler'.at = "saying" /\ told' \subseteq {"sweep error", "table", "leftover", handler'.says}
      BY ZenonT(200), <1>1, <1>2, <2>1 DEF Ending, Lives, Running
    <3>2. ~Lives' /\ status' \notin {0, 1, 2}
      BY <2>1 DEF Lives, Running
    <3> QED BY <2>1, <3>1, <3>2 DEF Ending
  <2>2. CASE status' = status
    <3>1. Lives' /\ status' \notin {0, 1, 2, 130}
      BY <1>1, <2>2 DEF Lives, Running
    <3>2. told' \subseteq {"sweep error", "table", "leftover"}
      BY <1>1, <1>2, <3>1 DEF Ending
    <3> QED BY <3>1, <3>2 DEF Ending, Lives
  <2> QED BY <1>3, <2>1, <2>2
<1> QED BY <1>4, <1>5, <1>7, <1>8, <1>9, <1>10

\* The restore on an interrupt, and what may be said of it.
LEMMA RestorePendingKeeps ==
  ASSUME SweepInv, RestorePending
  PROVE  SweepInv'
<1> USE DEF SweepInv
<1>1. /\ UNCHANGED <<authored, standing, sweep, cancelled, tree, cleanup, inUse, told, status>>
      /\ Lives /\ handler.at = "restore" /\ cancelled
  BY DEF RestorePending, HandlerAt, Turns
<1>2. /\ runner' \in Runners /\ runner'.aborted /\ ~runner'.pending
      /\ runner'.restoredOnCancel = runner.restoredOnCancel
  BY DEF RestorePending, SweepTypeOK, Runners
<1>3. /\ handler' \in Handlers /\ handler'.at = "cleanup" /\ source' \in Texts
      /\ source' # source =>
           /\ source'.made = runner.orig.made
           /\ runner.written => source.made = runner.orig.made /\ source # NoFile
           /\ runner.pending
      /\ handler'.says = "put back" =>
           \/ runner.pending /\ source'.holds = "own"
           \/ ~runner.pending /\ source' = source /\ runner.restoredOnCancel
      /\ handler'.says = "nothing in flight" => ~runner.pending /\ source' = source
  <2>1. CASE runner.pending
    <3>1. PICK put \in RestoreOutcomes :
            /\ source' = put.file
            /\ handler' = [at |-> "cleanup", says |-> IF put.err THEN "not put back" ELSE "put back"]
      BY <2>1 DEF RestorePending
    <3>2. /\ put.file \in Texts /\ put.err \in BOOLEAN
          /\ put.file # source =>
              /\ put.file.made = runner.orig.made
              /\ runner.written => source.made = runner.orig.made /\ source # NoFile
          /\ ~put.err => put.file.holds = "own"
      <4>1. SweepTypeOK
        OBVIOUS
      <4> HIDE DEF SweepInv
      <4> QED BY <4>1, RestoreTells
    <3>3. CASE put.err
      BY <2>1, <3>1, <3>2, <3>3 DEF Handlers, Turnings
    <3>4. CASE ~put.err
      BY <2>1, <3>1, <3>2, <3>4 DEF Handlers, Turnings
    <3> QED BY <3>3, <3>4
  <2>2. CASE ~runner.pending
    <3>1. PICK said \in {"not put back", "put back", "nothing in flight"} :
            /\ source' = source /\ handler' = [at |-> "cleanup", says |-> said]
            /\ said = "put back" => runner.restoredOnCancel
      BY <2>2 DEF RestorePending
    <3> QED BY <2>2, <3>1 DEF Handlers, Turnings, SweepTypeOK
  <2> QED BY <2>1, <2>2 DEF SweepTypeOK, Runners
<1> USE DEF InHand, After, Older, Judged
<1>4. SweepTypeOK'
  BY <1>1, <1>2, <1>3 DEF SweepTypeOK
<1>5. EditsAreKept'
  BY <1>1, <1>2, <1>3 DEF EditsAreKept, StandingEditsSurvive
<1>6. Turns'
  BY <1>1, <1>2, <1>3 DEF Turns
<1>7. TextIsOut'
  <2>1. ~runner.aborted
    BY <1>1 DEF Turns
  <2>2. source' = source \/ sweep.at \in InHand
    BY <1>3 DEF Turns
  <2>3. ~runner.pending /\ sweep.err # "restore" => ~ToolText
    BY <2>1 DEF TextIsOut
  <2> QED BY <1>1, <1>2, <1>3, <2>1, <2>2, <2>3 DEF TextIsOut, ToolText, Turns
<1>8. Tally'
  BY <1>1 DEF Tally, ExitStatus, Wrong
<1>9. TreeIsMinded'
  BY <1>1, <1>3 DEF TreeIsMinded, Minded
<1>10. Ending'
  <2>1. Lives' /\ status' \notin {0, 1, 2, 130}
    BY <1>1 DEF Lives, Running
  <2>2. told' \subseteq {"sweep error", "table", "leftover"}
    BY <1>1 DEF Ending
  <2> QED BY <2>1, <2>2 DEF Ending, Lives
<1> QED BY <1>4, <1>5, <1>6, <1>7, <1>8, <1>9, <1>10

\* The author, who may edit, repair or remove the file at any moment.
LEMMA AuthorKeeps ==
  ASSUME SweepInv, AuthorStep
  PROVE  SweepInv'
<1> USE DEF SweepInv
<1>1. UNCHANGED <<runner, sweep, handler, cancelled, tree, cleanup, inUse, told, status>> /\ Lives
  BY DEF AuthorStep, AuthorEdits, AuthorRepairs, AuthorRemoves
<1>2. source \in Texts /\ authored \in Nat /\ standing \in Nat /\ MaxEdits \in Nat
  BY SweepAssumption DEF SweepTypeOK
<1>3. /\ source' \in Texts /\ authored' \in Nat /\ standing' \in Nat
      /\ standing' <= authored'
      /\ source' # NoFile => source # NoFile /\ source'.made >= standing'
      /\ source'.holds \in {"own", "gone", source.holds}
      /\ (runner.pending /\ runner.written) \/ standing' = standing
  <2>1. CASE AuthorEdits
    <3>1. PICK holds \in {"own", source.holds} : source' = [made |-> authored + 1, holds |-> holds]
      BY <2>1 DEF AuthorEdits
    <3>2. source # NoFile /\ source.holds \in {"own", "mutant", "cut"}
      BY <1>2, <2>1 DEF AuthorEdits, Texts
    <3> QED BY <1>2, <2>1, <3>1, <3>2 DEF AuthorEdits, EditsAreKept, Texts, NoFile
  <2>2. CASE AuthorRepairs
    BY <1>2, <2>2 DEF AuthorRepairs, EditsAreKept, StandingEditsSurvive, Texts, NoFile, Own
  <2>3. CASE AuthorRemoves
    BY <1>2, <2>3 DEF AuthorRemoves, EditsAreKept, Texts, NoFile
  <2> QED BY <2>1, <2>2, <2>3 DEF AuthorStep
<1>4. SweepTypeOK'
  BY <1>1, <1>3 DEF SweepTypeOK
<1>5. EditsAreKept'
  BY <1>1, <1>3 DEF EditsAreKept, StandingEditsSurvive, Turns, InHand
<1>6. Turns'
  BY <1>1 DEF Turns
<1>7. TextIsOut'
  BY <1>1, <1>3 DEF TextIsOut, ToolText
<1>8. Tally'
  BY <1>1 DEF Tally, ExitStatus, Wrong
<1>9. TreeIsMinded' /\ Ending'
  <2>1. TreeIsMinded'
    BY <1>1 DEF TreeIsMinded, Minded
  <2>2. Lives' /\ status' \notin {0, 1, 2, 130}
    BY <1>1 DEF Lives, Running
  <2>3. told' \subseteq {"sweep error", "table", "leftover"}
    BY <1>1 DEF Ending
  <2> QED BY <2>1, <2>2, <2>3 DEF Ending, Lives
<1> QED BY <1>4, <1>5, <1>6, <1>7, <1>8, <1>9

LEMMA SweepInvStep == SweepInv /\ [SweepNext]_sweepVars => SweepInv'
<1> SUFFICES ASSUME SweepInv, [SweepNext]_sweepVars PROVE SweepInv'
  OBVIOUS
<1>1. CASE MainStep
  BY <1>1, OnwardKeeps, ArmKeeps, DisarmKeeps, ReportsKeeps, OlderKeeps, MainCleansKeeps DEF MainStep
<1>2. CASE HandlerStep
  BY <1>2, HandlerKeeps, RestorePendingKeeps DEF HandlerStep
<1>3. CASE AuthorStep
  BY <1>3, AuthorKeeps
<1>4. CASE UNCHANGED sweepVars
  <2> USE <1>4 DEF sweepVars, SweepInv
  <2>1. SweepTypeOK'
    BY DEF SweepTypeOK
  <2>2. EditsAreKept'
    BY DEF EditsAreKept, StandingEditsSurvive
  <2>3. Turns' /\ TextIsOut'
    BY DEF Turns, TextIsOut, ToolText
  <2>4. Tally'
    BY DEF Tally, ExitStatus, Wrong
  <2>5. TreeIsMinded'
    BY DEF TreeIsMinded, Minded
  <2>6. Ending'
    BY DEF Ending, Lives
  <2> QED BY <2>1, <2>2, <2>3, <2>4, <2>5, <2>6
<1> QED BY <1>1, <1>2, <1>3, <1>4 DEF SweepNext

\* A 0 is of rows that all went right.
LEMMA ZeroIsAllRight ==
  ASSUME SweepTypeOK, ExitStatus(sweep.out) = 0, Len(sweep.out) = Count
  PROVE  \A i \in 1..Count : sweep.out[i] = IF i \in sweep.controls THEN "survived" ELSE "caught"
<1>1. DOMAIN sweep.out = 1..Count
  <2>1. sweep.out \in Seq(Verdicts)
    BY DEF SweepTypeOK, Sweeps
  <2> QED BY <2>1
<1>2. Wrong(sweep.out) = {} /\ \A i \in DOMAIN sweep.out : Measured(sweep.out[i])
  BY DEF ExitStatus
<1> TAKE i \in 1..Count
<1>3. sweep.out[i] \in {"caught", "survived"}
  BY <1>1, <1>2 DEF Measured
<1>4. ~((i \in sweep.controls) # (sweep.out[i] = "survived"))
  BY <1>1, <1>2 DEF Wrong
<1>5. (i \in sweep.controls) <=> (sweep.out[i] = "survived")
  BY <1>4, Zenon
<1> QED BY <1>3, <1>5

\* Whatever the author does to the mutated file and whenever the interrupt comes, of
\* any number of mutations: no edit made over a mutation is written over, "put back"
\* and "no mutation in flight" are said only of a file without the tool's text, a 0
\* is only of mutations all caught and controls all survived, and a worktree that
\* was checked out is taken back or named.
THEOREM SweepsAreAlwaysHonest == SweepSpec => []SweepIsHonest
<1>1. SweepInv => SweepIsHonest
  <2> SUFFICES ASSUME SweepInv PROVE SweepIsHonest
    OBVIOUS
  <2> USE DEF SweepInv
  <2>1. status \in {0, 1, 2, 130, 256}
    BY DEF SweepTypeOK, Running
  <2>0. status # 130 => "put back" \notin told /\ "nothing in flight" \notin told
    <3>1. status # 130 => told \subseteq {"sweep error", "table", "leftover"}
      BY <2>1 DEF Ending, Lives, Running
    <3> QED BY <3>1
  <2>2. PutBackIsTrue
    <3>1. CASE "put back" \in told
      <4>1. status = 130
        BY <2>0, <3>1
      <4>2. handler.says = "put back"
        BY <3>1, <4>1 DEF Ending
      <4> QED BY <4>2 DEF TextIsOut, PutBackIsTrue
    <3>2. CASE "nothing in flight" \in told /\ sweep.err # "restore"
      <4>1. status = 130 /\ handler.says = "nothing in flight"
        BY <2>0, <3>2 DEF Ending
      <4> QED BY <3>2, <4>1 DEF TextIsOut, PutBackIsTrue
    <3>3. CASE status \in {0, 1}
      <4>1. sweep.at = "over" /\ sweep.code # 2
        <5>1. sweep.at = "over" /\ status = sweep.code
          BY <3>3 DEF Ending
        <5> QED BY <3>3, <5>1
      <4> QED BY <4>1 DEF TextIsOut, Tally, PutBackIsTrue, After, Judged
    <3> QED BY <3>1, <3>2, <3>3 DEF PutBackIsTrue
  <2>3. RowsAreMeasured
    <3>1. \A i \in DOMAIN sweep.out : sweep.out[i] # "cut"
      <4>1. sweep.out \in Seq(Verdicts)
        BY DEF SweepTypeOK, Sweeps
      <4>2. \A i \in DOMAIN sweep.out : sweep.out[i] \in Verdicts
        BY <4>1
      <4> QED BY <4>2 DEF Verdicts
    <3>2. status = 0 => ExitStatus(sweep.out) = 0 /\ Len(sweep.out) = Count
      <4>1. status = 0 => sweep.at = "over" /\ sweep.code = 0
        BY DEF Ending
      <4> QED BY <4>1 DEF Tally, After, Judged
    <3> QED BY <3>1, <3>2, ZeroIsAllRight DEF RowsAreMeasured
  <2>4. WorktreeIsTakenBack
    BY <2>1 DEF WorktreeIsTakenBack, Ending, TreeIsMinded, Minded, Running
  <2> QED BY <2>2, <2>3, <2>4 DEF SweepIsHonest, EditsAreKept
<1> QED BY <1>1, SweepInvInit, SweepInvStep, PTL DEF SweepSpec

-----------------------------------------------------------------------------
(* The workspace: a rollback is reversible.                                *)

Trees == [v : Nat, kind : {"none", "whole", "cut", "half"}]
Steps == {"idle", "save", "stage", "clearOld", "aside", "in", "back", "tidy"}
Sayings == {"none", "not saved", "not staged", "nothing changed", "not restored",
            "safe aside and saved", "restored"}

SwapTypeOK ==
  /\ root \in Trees /\ tmp \in Trees /\ old \in Trees /\ prior \in Trees
  /\ snaps \in [Stored -> Trees]
  /\ cmd \in [at : Steps, name : Stored \cup {0}, said : Sayings]
  /\ edits \in Nat /\ rollbacks \in 0..MaxRollbacks /\ troubles \in Nat
  /\ replaced \subseteq Trees
  /\ cmd.at # "idle" => cmd.name \in Stored /\ rollbacks \in Autosaves

\* Only a restore is ever staged half: no half is renamed or saved.
NoHalves ==
  /\ root.kind # "half" /\ old.kind # "half"
  /\ \A n \in Stored : snaps[n].kind # "half"

\* No autosave is under the name a rollback is about to use.
FreshNames ==
  /\ \A n \in Autosaves : n > rollbacks => snaps[n] = NoTree
  /\ cmd.at = "save" => snaps[rollbacks] = NoTree

\* What the steps before have left for the ones to come.
UnderWay ==
  /\ cmd.at \in {"save", "stage", "clearOld", "aside"} => root = prior
  /\ cmd.at \in {"stage", "clearOld", "aside", "in", "back", "tidy"} =>
       prior # NoTree /\ snaps[rollbacks] = prior
  /\ cmd.at \in {"clearOld", "aside", "in"} => tmp = snaps[cmd.name]
  /\ cmd.at \in {"in", "back"} => old = prior
  /\ cmd.at = "tidy" => root = snaps[cmd.name]

\* What was moved aside is a snapshot, not only a directory beside the workspace.
Saved == \A c \in replaced : c # NoTree /\ \E n \in Stored : snaps[n] = c

SwapInv == SwapTypeOK /\ NoHalves /\ FreshNames /\ UnderWay /\ Saved

-----------------------------------------------------------------------------
LEMMA TreesAre ==
  /\ NoTree \in Trees /\ NoTree.kind = "none"
  /\ \A n \in Nat : Whole(n) \in Trees /\ Whole(n).kind = "whole"
  /\ \A t \in Trees : \A k \in {"cut", "half"} :
       [t EXCEPT !.kind = k] \in Trees /\ [t EXCEPT !.kind = k].kind = k
BY DEF Trees, NoTree, Whole

\* What the steps of a command do to its record.
LEMMA CommandsAre ==
  ASSUME cmd \in [at : Steps, name : Stored \cup {0}, said : Sayings]
  PROVE  /\ Idle0 \in [at : Steps, name : Stored \cup {0}, said : Sayings]
         /\ Idle0.at = "idle" /\ Idle0.said = "none"
         /\ \A p \in Steps : Goes0(p) =>
              /\ cmd' \in [at : Steps, name : Stored \cup {0}, said : Sayings]
              /\ cmd'.at = p /\ cmd'.name = cmd.name
         /\ \A w \in Sayings : Tells(w) =>
              /\ cmd' \in [at : Steps, name : Stored \cup {0}, said : Sayings]
              /\ cmd'.at = "idle" /\ cmd'.said = w
<1>1. "idle" \in Steps /\ "none" \in Sayings
  BY DEF Steps, Sayings
<1> QED
  BY <1>1 DEF Idle0, Goes0, Tells

\* The name a rollback saves under is one of the stored ones, and no user's.
LEMMA NamesAre ==
  /\ Autosaves \subseteq Stored /\ SnapNames \subseteq Stored /\ 0 \notin Stored
  /\ Autosaves \subseteq Nat
  /\ \A n \in SnapNames : n \notin Autosaves
BY SwapAssumption DEF Autosaves, Stored

LEMMA SwapInvHoldsFirst == SwapInit => SwapInv
<1> SUFFICES ASSUME SwapInit PROVE SwapInv
  OBVIOUS
<1>1. SwapTypeOK
  BY TreesAre, SwapAssumption DEF SwapInit, SwapTypeOK, Idle0, Steps, Sayings
<1>2. NoHalves
  BY TreesAre DEF SwapInit, NoHalves
<1>3. FreshNames /\ UnderWay /\ Saved
  BY NamesAre DEF SwapInit, FreshNames, UnderWay, Saved, Idle0
<1> QED
  BY <1>1, <1>2, <1>3 DEF SwapInv
-----------------------------------------------------------------------------
(* Between commands.                                                       *)

LEMMA EditKeeps ==
  ASSUME SwapInv, Edits
  PROVE  SwapInv'
<1>1. cmd.at = "idle" /\ root' = Whole(edits + 1) /\ edits' = edits + 1
      /\ UNCHANGED <<tmp, old, snaps, cmd, prior, rollbacks, troubles, replaced>>
  BY DEF Edits, Resting
<1>2. SwapTypeOK' /\ NoHalves'
  BY <1>1, TreesAre DEF SwapInv, SwapTypeOK, NoHalves
<1>3. FreshNames' /\ UnderWay' /\ Saved'
  BY <1>1 DEF SwapInv, FreshNames, UnderWay, Saved
<1> QED
  BY <1>2, <1>3 DEF SwapInv

\* Saving the workspace under a free name disturbs no other snapshot.
LEMMA SaveKeeps ==
  ASSUME SwapInv, NEW n \in Stored, snaps[n] = NoTree, Saves(n)
  PROVE  /\ snaps' \in [Stored -> Trees] /\ troubles' \in Nat
         /\ \A m \in Stored : snaps'[m].kind # "half"
         /\ \A m \in Stored : m # n => snaps'[m] = snaps[m]
         /\ \A c \in replaced : \E m \in Stored : snaps'[m] = c
         /\ troubles' = troubles => snaps'[n] = root
<1>1. /\ root \in Trees /\ root.kind # "half" /\ snaps \in [Stored -> Trees] /\ troubles \in Nat
      /\ \A m \in Stored : snaps[m].kind # "half"
  BY DEF SwapInv, SwapTypeOK, NoHalves
<1>2. \/ snaps' = [snaps EXCEPT ![n] = root] /\ troubles' = troubles
      \/ /\ troubles' = troubles + 1
         /\ snaps' = snaps \/ snaps' = [snaps EXCEPT ![n] = [root EXCEPT !.kind = "cut"]]
  BY DEF Saves, Trouble
<1>3. [root EXCEPT !.kind = "cut"] \in Trees /\ [root EXCEPT !.kind = "cut"].kind # "half"
  BY <1>1, TreesAre
<1>4. /\ snaps' \in [Stored -> Trees] /\ troubles' \in Nat
      /\ \A m \in Stored : m # n => snaps'[m] = snaps[m]
      /\ troubles' = troubles => snaps'[n] = root
      /\ snaps'[n].kind # "half"
  <2>1. CASE snaps' = [snaps EXCEPT ![n] = root] /\ troubles' = troubles
    BY <1>1, <2>1
  <2>2. CASE snaps' = snaps /\ troubles' = troubles + 1
    BY <1>1, <2>2
  <2>3. ASSUME NEW part \in Trees, part.kind # "half", troubles' = troubles + 1,
               snaps' = [snaps EXCEPT ![n] = part]
        PROVE  /\ snaps' \in [Stored -> Trees] /\ troubles' \in Nat
               /\ \A m \in Stored : m # n => snaps'[m] = snaps[m]
               /\ troubles' = troubles => snaps'[n] = root
               /\ snaps'[n].kind # "half"
    BY <1>1, <2>3
  <2> QED
    BY <1>2, <1>3, <2>1, <2>2, <2>3
<1>5. \A m \in Stored : snaps'[m].kind # "half"
  BY <1>1, <1>4
<1>6. \A c \in replaced : \E m \in Stored : snaps'[m] = c
  BY <1>4 DEF SwapInv, Saved
<1> QED
  BY <1>4, <1>5, <1>6

LEMMA SnapshotKeeps ==
  ASSUME SwapInv, NEW n \in SnapNames, TakesSnapshot(n)
  PROVE  SwapInv'
<1>1. /\ cmd.at = "idle" /\ snaps[n] = NoTree /\ Saves(n) /\ n \in Stored /\ n \notin Autosaves
      /\ UNCHANGED <<root, tmp, old, cmd, prior, edits, rollbacks, replaced>>
  BY NamesAre DEF TakesSnapshot, Resting, tally
<1>2. SwapTypeOK'
  BY <1>1, SaveKeeps DEF SwapInv, SwapTypeOK
<1>3. NoHalves'
  BY <1>1, SaveKeeps DEF SwapInv, NoHalves
<1>4. FreshNames' /\ UnderWay'
  BY <1>1, SaveKeeps, NamesAre DEF SwapInv, FreshNames, UnderWay
<1>5. Saved'
  BY <1>1, SaveKeeps DEF SwapInv, Saved
<1> QED
  BY <1>2, <1>3, <1>4, <1>5 DEF SwapInv

\* What the user removes is no longer counted as replaced, under any name.
LEMMA ForgettingKeeps ==
  ASSUME SwapInv, NEW S \in SUBSET Stored, Resting, Forgets(S)
  PROVE  SwapInv'
<1>1. /\ cmd.at = "idle" /\ snaps' = [n \in Stored |-> IF n \in S THEN NoTree ELSE snaps[n]]
      /\ replaced' = replaced \ {snaps[n] : n \in S}
      /\ UNCHANGED <<root, tmp, old, cmd, prior, edits, rollbacks, troubles>>
  BY DEF Resting, Forgets, tally
<1>2. SwapTypeOK'
  BY <1>1, TreesAre DEF SwapInv, SwapTypeOK
<1>3. NoHalves'
  BY <1>1, TreesAre DEF SwapInv, NoHalves
<1>4. FreshNames' /\ UnderWay'
  BY <1>1, NamesAre DEF SwapInv, FreshNames, UnderWay
<1>5. ASSUME NEW c \in replaced' PROVE c # NoTree /\ \E n \in Stored : snaps'[n] = c
  <2>1. PICK n \in Stored : snaps[n] = c
    BY <1>1, <1>5 DEF SwapInv, Saved
  <2>2. n \notin S
    BY <1>1, <1>5, <2>1
  <2> QED
    BY <1>1, <1>5, <2>1, <2>2 DEF SwapInv, Saved
<1> QED
  BY <1>2, <1>3, <1>4, <1>5 DEF SwapInv, Saved

LEMMA StartKeeps ==
  ASSUME SwapInv, NEW n \in Stored, StartsRollback(n)
  PROVE  SwapInv'
<1>1. /\ cmd.at = "idle" /\ rollbacks < MaxRollbacks
      /\ cmd' = [at |-> "save", name |-> n, said |-> "none"]
      /\ rollbacks' = rollbacks + 1 /\ prior' = root
      /\ UNCHANGED <<root, tmp, old, snaps, edits, troubles, replaced>>
  BY DEF StartsRollback, Resting, dirs
<1>2. rollbacks' \in 1..MaxRollbacks /\ rollbacks' > rollbacks
  BY <1>1, SwapAssumption DEF SwapInv, SwapTypeOK
<1>3. SwapTypeOK'
  <2>1. cmd' \in [at : Steps, name : Stored \cup {0}, said : Sayings]
        /\ cmd'.name \in Stored /\ rollbacks' \in 0..MaxRollbacks /\ rollbacks' \in Autosaves
    BY <1>1, <1>2 DEF Steps, Sayings, Autosaves
  <2> QED
    BY <1>1, <2>1 DEF SwapInv, SwapTypeOK
<1>4. NoHalves' /\ UnderWay' /\ Saved'
  BY <1>1 DEF SwapInv, NoHalves, UnderWay, Saved
<1>5. FreshNames'
  <2>1. rollbacks \in Nat /\ rollbacks' \in Autosaves
    BY <1>2 DEF SwapInv, SwapTypeOK, Autosaves
  <2> QED
    BY <1>1, <1>2, <2>1, NamesAre DEF SwapInv, FreshNames
<1> QED
  BY <1>3, <1>4, <1>5 DEF SwapInv

-----------------------------------------------------------------------------
(* The steps of a rollback.                                                *)

LEMMA SaveFirstKeeps ==
  ASSUME SwapInv, SavesFirst
  PROVE  SwapInv'
<1>1. /\ cmd.at = "save" /\ root = prior /\ rollbacks \in Stored /\ rollbacks \in Autosaves
      /\ snaps[rollbacks] = NoTree /\ cmd.name \in Stored
      /\ UNCHANGED <<root, tmp, old, prior, edits, rollbacks, replaced>>
      /\ cmd \in [at : Steps, name : Stored \cup {0}, said : Sayings]
  BY NamesAre DEF SavesFirst, SwapInv, SwapTypeOK, UnderWay, FreshNames, tally
<1>2. CASE root = NoTree /\ Tells("not saved") /\ UNCHANGED <<snaps, troubles>>
  <2>1. cmd' \in [at : Steps, name : Stored \cup {0}, said : Sayings] /\ cmd'.at = "idle"
    BY <1>1, <1>2, CommandsAre DEF Sayings
  <2> QED
    BY <1>1, <1>2, <2>1 DEF SwapInv, SwapTypeOK, NoHalves, FreshNames, UnderWay, Saved
<1>3. CASE /\ root # NoTree /\ Saves(rollbacks)
           /\ IF troubles' = troubles THEN Goes0("stage") ELSE Tells("not saved")
  <2>1. /\ cmd' \in [at : Steps, name : Stored \cup {0}, said : Sayings]
        /\ \/ troubles' = troubles /\ cmd'.at = "stage" /\ cmd'.name = cmd.name
           \/ cmd'.at = "idle"
    BY <1>1, <1>3, CommandsAre DEF Sayings, Steps
  <2>2. SwapTypeOK'
    BY <1>1, <1>3, <2>1, SaveKeeps DEF SwapInv, SwapTypeOK
  <2>3. NoHalves' /\ Saved'
    BY <1>1, <1>3, SaveKeeps DEF SwapInv, NoHalves, Saved
  <2>4. FreshNames'
    <3>1. \A n \in Autosaves : n > rollbacks => n \in Stored /\ n # rollbacks
      BY NamesAre, <1>1
    <3> QED
      BY <1>1, <1>3, <2>1, <3>1, SaveKeeps DEF SwapInv, FreshNames
  <2>5. UnderWay'
    BY <1>1, <1>3, <2>1, SaveKeeps DEF SwapInv, UnderWay
  <2> QED
    BY <2>2, <2>3, <2>4, <2>5 DEF SwapInv
<1> QED
  BY <1>2, <1>3 DEF SavesFirst, Autosave

LEMMA StageKeeps ==
  ASSUME SwapInv, Stages
  PROVE  SwapInv'
<1>1. /\ cmd.at = "stage" /\ cmd.name \in Stored /\ rollbacks \in Autosaves /\ snaps[cmd.name] \in Trees
      /\ UNCHANGED <<root, old, snaps, prior, edits, rollbacks, replaced>>
      /\ cmd \in [at : Steps, name : Stored \cup {0}, said : Sayings] /\ troubles \in Nat
  BY DEF Stages, SwapInv, SwapTypeOK, tally
<1>2. /\ tmp' \in Trees /\ troubles' \in Nat
      /\ cmd' \in [at : Steps, name : Stored \cup {0}, said : Sayings]
      /\ \/ cmd'.at = "clearOld" /\ cmd'.name = cmd.name /\ tmp' = snaps[cmd.name]
         \/ cmd'.at = "idle"
  <2>1. CASE tmp' = snaps[cmd.name] /\ Goes0("clearOld") /\ UNCHANGED troubles
    BY <1>1, <2>1, CommandsAre DEF Steps
  <2>2. CASE /\ Trouble /\ tmp' \in {NoTree, [snaps[cmd.name] EXCEPT !.kind = "half"]}
             /\ Tells("not staged")
    <3>1. NoTree \in Trees /\ [snaps[cmd.name] EXCEPT !.kind = "half"] \in Trees
      <4>1. \A t \in Trees : [t EXCEPT !.kind = "half"] \in Trees
        BY TreesAre
      <4> QED
        BY <1>1, <4>1, TreesAre
    <3>2. /\ cmd' \in [at : Steps, name : Stored \cup {0}, said : Sayings]
          /\ cmd'.at = "idle"
      BY <1>1, <2>2, CommandsAre DEF Sayings
    <3> QED
      <4>1. tmp' \in Trees
        BY <2>2, <3>1
      <4>2. Trouble
        BY <2>2
      <4>3. troubles' \in Nat
        BY <1>1, <4>2 DEF Trouble
      <4> QED
        BY <3>2, <4>1, <4>3
  <2> QED
    BY <2>1, <2>2 DEF Stages
<1>3. SwapTypeOK' /\ NoHalves' /\ FreshNames' /\ Saved'
  BY <1>1, <1>2 DEF SwapInv, SwapTypeOK, NoHalves, FreshNames, Saved
<1>4. UnderWay'
  BY <1>1, <1>2 DEF SwapInv, UnderWay
<1> QED
  BY <1>3, <1>4 DEF SwapInv

LEMMA ClearKeeps ==
  ASSUME SwapInv, ClearsOld
  PROVE  SwapInv'
<1>1. /\ cmd.at = "clearOld" /\ cmd.name \in Stored
      /\ UNCHANGED <<root, tmp, snaps, prior, edits, rollbacks, replaced>>
      /\ cmd' \in [at : Steps, name : Stored \cup {0}, said : Sayings]
      /\ cmd'.at = "aside" /\ cmd'.name = cmd.name
  BY CommandsAre DEF ClearsOld, SwapInv, SwapTypeOK, tally, Steps
<1>2. troubles' \in Nat /\ old' \in Trees /\ old'.kind # "half"
  BY TreesAre DEF ClearsOld, Trouble, SwapInv, SwapTypeOK, NoHalves
<1>3. SwapTypeOK' /\ NoHalves' /\ FreshNames' /\ Saved'
  BY <1>1, <1>2 DEF SwapInv, SwapTypeOK, NoHalves, FreshNames, Saved
<1>4. UnderWay'
  BY <1>1 DEF SwapInv, UnderWay
<1> QED
  BY <1>3, <1>4 DEF SwapInv

LEMMA AsideKeeps ==
  ASSUME SwapInv, MovesAside
  PROVE  SwapInv'
<1>1. /\ cmd.at = "aside" /\ cmd.name \in Stored /\ rollbacks \in Autosaves /\ rollbacks \in Stored
      /\ root = prior /\ prior # NoTree /\ snaps[rollbacks] = prior
      /\ UNCHANGED <<snaps, prior, edits, rollbacks>>
      /\ cmd \in [at : Steps, name : Stored \cup {0}, said : Sayings]
  BY NamesAre DEF MovesAside, SwapInv, SwapTypeOK, UnderWay, tally
<1>2. CASE /\ old' = root /\ root' = NoTree /\ replaced' = replaced \cup {root}
           /\ Goes0("in") /\ UNCHANGED <<tmp, troubles>>
  <2>1. /\ cmd' \in [at : Steps, name : Stored \cup {0}, said : Sayings]
        /\ cmd'.at = "in" /\ cmd'.name = cmd.name
    BY <1>1, <1>2, CommandsAre DEF Steps
  <2>2. SwapTypeOK' /\ NoHalves'
    BY <1>1, <1>2, <2>1, TreesAre DEF SwapInv, SwapTypeOK, NoHalves
  <2>3. FreshNames' /\ UnderWay' /\ Saved'
    BY <1>1, <1>2, <2>1 DEF SwapInv, FreshNames, UnderWay, Saved
  <2> QED
    BY <2>2, <2>3 DEF SwapInv
<1>3. CASE /\ troubles' = troubles \/ troubles' = troubles + 1
           /\ tmp' = NoTree /\ Tells("nothing changed")
           /\ UNCHANGED <<root, old, replaced>>
  <2>1. cmd' \in [at : Steps, name : Stored \cup {0}, said : Sayings] /\ cmd'.at = "idle"
    BY <1>1, <1>3, CommandsAre DEF Sayings
  <2>2. troubles \in Nat /\ troubles' \in Nat
    <3>1. troubles \in Nat
      BY DEF SwapInv, SwapTypeOK
    <3>2. troubles' = troubles \/ troubles' = troubles + 1
      BY <1>3
    <3> QED
      BY <3>1, <3>2
  <2>3. SwapTypeOK' /\ NoHalves'
    BY <1>1, <1>3, <2>1, <2>2, TreesAre DEF SwapInv, SwapTypeOK, NoHalves
  <2>4. FreshNames' /\ UnderWay' /\ Saved'
    BY <1>1, <1>3, <2>1 DEF SwapInv, FreshNames, UnderWay, Saved
  <2> QED
    BY <2>3, <2>4 DEF SwapInv
<1> QED
  BY <1>2, <1>3 DEF MovesAside, Trouble

LEMMA InKeeps ==
  ASSUME SwapInv, MovesIn
  PROVE  SwapInv'
<1>1. /\ cmd.at = "in" /\ cmd.name \in Stored /\ tmp = snaps[cmd.name] /\ tmp.kind # "half"
      /\ UNCHANGED <<old, snaps, prior, edits, rollbacks, replaced>>
      /\ cmd \in [at : Steps, name : Stored \cup {0}, said : Sayings]
  BY DEF MovesIn, SwapInv, SwapTypeOK, UnderWay, NoHalves, tally
<1>2. CASE root' = tmp /\ tmp' = NoTree /\ Goes0("tidy") /\ UNCHANGED troubles
  <2>1. /\ cmd' \in [at : Steps, name : Stored \cup {0}, said : Sayings]
        /\ cmd'.at = "tidy" /\ cmd'.name = cmd.name
    BY <1>1, <1>2, CommandsAre DEF Steps
  <2> QED
    BY <1>1, <1>2, <2>1, TreesAre DEF SwapInv, SwapTypeOK, NoHalves, FreshNames, UnderWay, Saved
<1>3. CASE troubles' = troubles + 1 /\ Goes0("back") /\ UNCHANGED <<root, tmp>>
  <2>1. /\ cmd' \in [at : Steps, name : Stored \cup {0}, said : Sayings]
        /\ cmd'.at = "back" /\ cmd'.name = cmd.name
    BY <1>1, <1>3, CommandsAre DEF Steps
  <2> QED
    BY <1>1, <1>3, <2>1 DEF SwapInv, SwapTypeOK, NoHalves, FreshNames, UnderWay, Saved
<1> QED
  BY <1>2, <1>3 DEF MovesIn, Trouble

LEMMA BackKeeps ==
  ASSUME SwapInv, PutsBack
  PROVE  SwapInv'
<1>1. /\ cmd.at = "back"
      /\ UNCHANGED <<tmp, snaps, prior, edits, rollbacks, replaced>>
      /\ cmd' \in [at : Steps, name : Stored \cup {0}, said : Sayings] /\ cmd'.at = "idle"
  BY CommandsAre DEF PutsBack, SwapInv, SwapTypeOK, Sayings, tally
<1>2. troubles \in Nat /\ (troubles' = troubles \/ troubles' = troubles + 1)
  BY DEF PutsBack, Trouble, SwapInv, SwapTypeOK
<1>3. (root' = old /\ old' = NoTree) \/ UNCHANGED <<root, old>>
  BY DEF PutsBack
<1>4. root' \in Trees /\ old' \in Trees /\ root'.kind # "half" /\ old'.kind # "half"
  BY <1>3, TreesAre DEF SwapInv, SwapTypeOK, NoHalves
<1> QED
  BY <1>1, <1>2, <1>4 DEF SwapInv, SwapTypeOK, NoHalves, FreshNames, UnderWay, Saved

LEMMA TidyKeeps ==
  ASSUME SwapInv, Tidies
  PROVE  SwapInv'
<1>1. /\ cmd.at = "tidy"
      /\ UNCHANGED <<root, tmp, snaps, prior, edits, rollbacks, replaced>>
      /\ cmd' \in [at : Steps, name : Stored \cup {0}, said : Sayings] /\ cmd'.at = "idle"
  BY CommandsAre DEF Tidies, SwapInv, SwapTypeOK, Sayings, tally
<1>2. troubles' \in Nat /\ (old' = NoTree \/ UNCHANGED old)
  BY DEF Tidies, Trouble, SwapInv, SwapTypeOK
<1> QED
  BY <1>1, <1>2, TreesAre DEF SwapInv, SwapTypeOK, NoHalves, FreshNames, UnderWay, Saved

\* A death leaves a half only where nothing is renamed from before it is cleared,
\* and a cut copy only under the fresh name.
LEMMA DeathKeeps ==
  ASSUME SwapInv, Dies
  PROVE  SwapInv'
<1>1. /\ cmd' = Idle0 /\ troubles' \in Nat /\ cmd.at # "idle"
      /\ cmd' \in [at : Steps, name : Stored \cup {0}, said : Sayings] /\ cmd'.at = "idle"
      /\ UNCHANGED <<root, old, prior, edits, rollbacks, replaced>>
      /\ cmd.name \in Stored /\ rollbacks \in Autosaves /\ rollbacks \in Stored
      /\ root \in Trees /\ snaps \in [Stored -> Trees]
  BY CommandsAre, NamesAre DEF Dies, Resting, Trouble, SwapInv, SwapTypeOK, tally
<1>2. CASE UNCHANGED <<snaps, tmp>>
  BY <1>1, <1>2 DEF SwapInv, SwapTypeOK, NoHalves, FreshNames, UnderWay, Saved
<1>3. CASE cmd.at = "stage" /\ tmp' = [snaps[cmd.name] EXCEPT !.kind = "half"] /\ UNCHANGED snaps
  <2>1. tmp' \in Trees
    BY <1>1, <1>3, TreesAre
  <2> QED
    BY <1>1, <1>3, <2>1 DEF SwapInv, SwapTypeOK, NoHalves, FreshNames, UnderWay, Saved
<1>4. CASE /\ cmd.at = "save" /\ UNCHANGED tmp
           /\ snaps' = [snaps EXCEPT ![rollbacks] = [root EXCEPT !.kind = "cut"]]
  <2>1. /\ [root EXCEPT !.kind = "cut"] \in Trees
        /\ [root EXCEPT !.kind = "cut"].kind # "half"
        /\ snaps[rollbacks] = NoTree
    BY <1>1, <1>4, TreesAre DEF SwapInv, FreshNames
  <2>2. /\ snaps' \in [Stored -> Trees] /\ snaps'[rollbacks].kind # "half"
        /\ \A m \in Stored : m # rollbacks => snaps'[m] = snaps[m]
    BY <1>1, <1>4, <2>1
  <2>3. SwapTypeOK'
    BY <1>1, <1>4, <2>2 DEF SwapInv, SwapTypeOK
  <2>4. NoHalves'
    BY <1>1, <2>2 DEF SwapInv, NoHalves
  <2>5. FreshNames'
    <3>1. \A n \in Autosaves : n > rollbacks => n \in Stored /\ n # rollbacks
      BY NamesAre, <1>1
    <3> QED
      BY <1>1, <2>2, <3>1 DEF SwapInv, FreshNames
  <2>6. UnderWay' /\ Saved'
    BY <1>1, <2>1, <2>2 DEF SwapInv, UnderWay, Saved
  <2> QED
    BY <2>3, <2>4, <2>5, <2>6 DEF SwapInv
<1> QED
  BY <1>2, <1>3, <1>4 DEF Dies, Autosave

LEMMA SwapInvKept == SwapInv /\ [SwapNext]_wsVars => SwapInv'
<1> SUFFICES ASSUME SwapInv, [SwapNext]_wsVars PROVE SwapInv'
  OBVIOUS
<1>1. CASE Edits
  BY <1>1, EditKeeps
<1>2. ASSUME NEW n \in SnapNames, TakesSnapshot(n) PROVE SwapInv'
  BY <1>2, SnapshotKeeps
<1>3. ASSUME NEW n \in Stored, RemovesSnapshot(n) PROVE SwapInv'
  <2>1. {n} \in SUBSET Stored /\ Resting /\ Forgets({n})
    BY <1>3 DEF RemovesSnapshot
  <2> QED
    BY <2>1, ForgettingKeeps
<1>4. ASSUME NEW n \in Stored, StartsRollback(n) PROVE SwapInv'
  BY <1>4, StartKeeps
<1>5. ASSUME NEW keep \in 0..1, Prunes(keep) PROVE SwapInv'
  <2>1. PICK drop \in SUBSET Autosaves : Resting /\ Forgets(drop)
    BY <1>5 DEF Prunes
  <2>2. drop \in SUBSET Stored
    BY NamesAre
  <2> QED
    BY <2>1, <2>2, ForgettingKeeps
<1>6. CASE SavesFirst
  BY <1>6, SaveFirstKeeps
<1>7. CASE Stages \/ ClearsOld
  BY <1>7, StageKeeps, ClearKeeps
<1>8. CASE MovesAside \/ MovesIn
  BY <1>8, AsideKeeps, InKeeps
<1>9. CASE PutsBack \/ Tidies
  BY <1>9, BackKeeps, TidyKeeps
<1>10. CASE Dies
  BY <1>10, DeathKeeps
<1>11. CASE UNCHANGED wsVars
  BY <1>11 DEF wsVars, SwapInv, SwapTypeOK, NoHalves, FreshNames, UnderWay, Saved
<1> QED
  BY <1>1, <1>2, <1>3, <1>4, <1>5, <1>6, <1>7, <1>8, <1>9, <1>10, <1>11 DEF SwapNext

THEOREM SwapInvariant == SwapSpec => []SwapInv
<1>1. SwapInit => SwapInv
  BY SwapInvHoldsFirst
<1>2. SwapInv /\ [SwapNext]_wsVars => SwapInv'
  BY SwapInvKept
<1> QED
  BY <1>1, <1>2, PTL DEF SwapSpec

-----------------------------------------------------------------------------
(* What a rollback says.                                                   *)

\* The saying of the one step that ends the command, and what the step has done.
SaysSo ==
  CASE cmd'.said = "restored" -> root' = snaps'[cmd.name] /\ snaps'[Autosave] = prior
    [] cmd'.said \in {"not saved", "not staged", "nothing changed", "not restored"} -> root' = prior
    [] cmd'.said = "safe aside and saved" -> old' = prior /\ snaps'[Autosave] = prior
    [] OTHER -> TRUE

LEMMA StepsSaySo ==
  ASSUME SwapInv, SwapNext, cmd.at # "idle", cmd'.at = "idle"
  PROVE  SaysSo
<1>1. cmd \in [at : Steps, name : Stored \cup {0}, said : Sayings]
  BY DEF SwapInv, SwapTypeOK
<1>2. SavesFirst \/ Stages \/ ClearsOld \/ MovesAside \/ MovesIn \/ PutsBack \/ Tidies \/ Dies
  BY DEF SwapNext, Edits, TakesSnapshot, RemovesSnapshot, StartsRollback, Prunes, Resting
<1>3. CASE SavesFirst
  <2>1. cmd'.said = "not saved" /\ root' = prior
    BY <1>1, <1>3, CommandsAre DEF SavesFirst, SwapInv, UnderWay, Steps, Sayings
  <2> QED
    BY <2>1 DEF SaysSo
<1>4. CASE Stages
  <2>1. cmd'.said = "not staged" /\ root' = prior
    BY <1>1, <1>4, CommandsAre DEF Stages, SwapInv, UnderWay, Steps, Sayings
  <2> QED
    BY <2>1 DEF SaysSo
<1>5. CASE ClearsOld \/ MovesIn
  BY <1>1, <1>5, CommandsAre DEF ClearsOld, MovesIn, Steps
<1>6. CASE MovesAside
  <2>1. cmd'.said = "nothing changed" /\ root' = prior
    BY <1>1, <1>6, CommandsAre DEF MovesAside, SwapInv, UnderWay, Steps, Sayings
  <2> QED
    BY <2>1 DEF SaysSo
<1>7. CASE PutsBack
  <2>1. old = prior /\ snaps' = snaps /\ rollbacks' = rollbacks /\ snaps[rollbacks] = prior
    BY <1>7 DEF PutsBack, SwapInv, UnderWay, tally
  <2>2. CASE root' = old /\ Tells("not restored")
    <3>1. cmd'.said = "not restored"
      BY <1>1, <2>2, CommandsAre DEF Sayings
    <3> QED
      BY <2>1, <2>2, <3>1 DEF SaysSo
  <2>3. CASE Tells("safe aside and saved") /\ old' = old
    <3>1. cmd'.said = "safe aside and saved"
      BY <1>1, <2>3, CommandsAre DEF Sayings
    <3> QED
      BY <2>1, <2>3, <3>1 DEF SaysSo, Autosave
  <2> QED
    BY <1>7, <2>2, <2>3 DEF PutsBack
<1>8. CASE Tidies
  <2>1. cmd'.said = "restored"
    BY <1>1, <1>8, CommandsAre DEF Tidies, Sayings
  <2>2. root' = snaps'[cmd.name] /\ snaps'[rollbacks] = prior
    BY <1>8 DEF Tidies, SwapInv, UnderWay, tally
  <2> QED
    BY <2>1, <2>2 DEF SaysSo, Autosave
<1>9. CASE Dies
  BY <1>1, <1>9, CommandsAre DEF Dies, SaysSo
<1> QED
  BY <1>2, <1>3, <1>4, <1>5, <1>6, <1>7, <1>8, <1>9

\* "Rolling back must be reversible" (Rollback): with any number of edits, rollbacks,
\* failed steps and crashes, what a rollback replaced is a snapshot or beside the
\* workspace until the user removes it, the workspace is never half restored, and what
\* a rollback says is so.
THEOREM RollbackIsAlwaysReversible == SwapSpec => RollbackIsReversible
<1>1. SwapInv => NothingIsLost /\ NeverHalfRestored
  BY DEF SwapInv, Saved, NoHalves, NothingIsLost, NeverHalfRestored
<1>2. SwapInv /\ [SwapNext]_wsVars => [cmd.at # "idle" /\ cmd'.at = "idle" => SaysSo]_wsVars
  BY StepsSaySo
<1>3. [][cmd.at # "idle" /\ cmd'.at = "idle" => SaysSo]_wsVars <=> RollbackTellsTheTruth
  BY DEF SaysSo, RollbackTellsTheTruth
<1> QED
  BY <1>1, <1>2, <1>3, SwapInvariant, PTL DEF SwapSpec, RollbackIsReversible

=============================================================================
