------------------------------- MODULE OneOff -------------------------------
(***************************************************************************)
(* `run <service>`: a throwaway container under the service's `-run` name, *)
(* with a volume filled from the image the first time it is mounted        *)
(* (RunOneOff and seedVolumes in internal/orchestrator/orchestrator.go).   *)
(* Several may be given at once: none holds the project lock past the `up` *)
(* of its dependencies, and all go by the same names.                      *)
(***************************************************************************)
EXTENDS Naturals, Sequences, FiniteSets

CONSTANTS
  Runs,         \* the `run` commands of one service
  Removing,     \* those asked for --rm
  NoCopy,       \* the volume is asked to be mounted empty
  OneOffsThere, \* what may be under the one-off's name before
  VolumesThere  \* and under the volume's

VARIABLES
  run,          \* run -> where it is, and whether it was interrupted
  oneoff,       \* the container under the `-run` name
  seed,         \* the throwaway container that fills the volume
  volume,       \* what the volume holds
  verdict       \* run -> what it reported

ooWorld == <<oneoff, seed, volume>>
ooVars  == <<run, ooWorld, verdict>>

\* by a run, or "before", or another project's or nobody's; and whether it runs.
Container(by, runs) == [by |-> by, runs |-> runs]
NoContainer == Container("nobody", FALSE)

\* "kept" is what was there before, "part" a fill under way or cut short.
Contents == {"none", "part", "whole", "empty", "kept"}

AtStep(r, p)  == run[r].at = p
To(r, p)  == run' = [run EXCEPT ![r].at = p]
Cut(r)    == run[r].cut
Ends(r, v) ==
  /\ To(r, "over")
  /\ verdict' = [verdict EXCEPT ![r] = v]

\* Ctrl-C, once; noticed where the code asks for it.
CtrlCOneOff(r) ==
  /\ ~AtStep(r, "over") /\ ~Cut(r)
  /\ run' = [run EXCEPT ![r].cut = TRUE]
  /\ UNCHANGED <<ooWorld, verdict>>

\* ensureNotForeign: another's, or unreadable, is refused; a stale one is not.
AsksOneOffOwner(r) ==
  /\ AtStep(r, "owner")
  /\ \/ oneoff.by # "other" /\ ~Cut(r) /\ To(r, "deps") /\ UNCHANGED verdict
     \/ Ends(r, "refused")
  /\ UNCHANGED ooWorld

\* The dependencies' `up`, then the networks, then the build: each may fail,
\* and a failure after Ctrl-C is told as the interruption.
UpsDependencies(r) ==
  /\ AtStep(r, "deps")
  /\ \/ ~Cut(r) /\ To(r, "prepare") /\ UNCHANGED verdict
     \/ Ends(r, "failed")
  /\ UNCHANGED ooWorld

PreparesOneOff(r) ==
  /\ AtStep(r, "prepare")
  /\ \/ ~Cut(r) /\ To(r, "clear") /\ UNCHANGED verdict
     \/ Ends(r, IF Cut(r) THEN "interrupted, not started" ELSE "failed")
  /\ UNCHANGED ooWorld

\* rt.Delete by name: a stale one, or whatever has the name by now.  A command
\* under a cancelled context does nothing.
ClearsStale(r) ==
  /\ AtStep(r, "clear")
  /\ oneoff' = IF Cut(r) THEN oneoff ELSE NoContainer
  /\ To(r, "dirs")
  /\ UNCHANGED <<seed, volume, verdict>>

\* refuseSymlinkedSocketMounts, ensureBindDirs.
MakesBindDirs(r) ==
  /\ AtStep(r, "dirs")
  /\ \/ To(r, "look") /\ UNCHANGED verdict
     \/ Ends(r, "failed")
  /\ UNCHANGED ooWorld

\* Mutation: a listing without an answer reads as "not there".
LooksAtVolumeHopeful(r) ==
  /\ AtStep(r, "look")
  /\ \E known \in BOOLEAN : To(r, IF known /\ volume # "none" THEN "run" ELSE "fill")
  /\ UNCHANGED <<ooWorld, verdict>>

\* VolumeExists: a listing without an answer reads as "there", and so does one
\* asked under a cancelled context.
LooksAtVolume(r) ==
  /\ AtStep(r, "look")
  /\ \/ volume = "none" /\ ~Cut(r) /\ To(r, "fill")
     \/ volume # "none" /\ To(r, "run")
     \/ To(r, "run")
  /\ UNCHANGED <<ooWorld, verdict>>

\* runOnNewVolume: a seed container of this name is cleared; then the run makes
\* the volume, if nobody has by now, and begins to fill it.  The name may be taken.
ClearsSeed(r) ==
  /\ AtStep(r, "fill")
  /\ seed' = IF Cut(r) THEN seed ELSE NoContainer
  /\ To(r, "seed")
  /\ UNCHANGED <<oneoff, volume, verdict>>

StartsSeed(r) ==
  /\ AtStep(r, "seed")
  /\ \/ /\ seed = NoContainer /\ ~Cut(r)
        /\ seed' = Container(r, TRUE)
        /\ volume' = IF volume = "none" THEN "part" ELSE volume
        /\ To(r, "seeding")
     \/ To(r, "seedFailed") /\ UNCHANGED <<seed, volume>>
  /\ UNCHANGED <<oneoff, verdict>>

\* The copy ends and --rm takes the container away; or the image has no shell.
EndsSeed(r) ==
  /\ AtStep(r, "seeding")
  /\ \/ /\ seed.by = r /\ ~Cut(r)
        /\ seed' = NoContainer
        /\ volume' = IF NoCopy THEN "empty" ELSE "whole"
        /\ To(r, "run")
     \/ /\ seed.by = r /\ ~Cut(r) /\ seed' = NoContainer
        /\ UNCHANGED volume /\ To(r, "seedFailed")
     \/ seed.by # r /\ ~Cut(r) /\ To(r, "seedFailed") /\ UNCHANGED <<seed, volume>>
     \/ Cut(r) /\ To(r, "seedFailed") /\ UNCHANGED <<seed, volume>>
  /\ UNCHANGED <<oneoff, verdict>>

\* A failed fill is warned about and mounted as it is, unless interrupted.
AfterFailedSeed(r) ==
  /\ AtStep(r, "seedFailed")
  /\ To(r, IF Cut(r) THEN "takeBack" ELSE "run")
  /\ UNCHANGED <<ooWorld, verdict>>

\* takeBackSeed: the container, then the volume, which goes unless a container
\* holds it; and a look at each.
VolumeHeld(o, s) == o # NoContainer \/ s # NoContainer

TakesBackSeedContainer(r) ==
  /\ AtStep(r, "takeBack")
  /\ seed' \in {NoContainer, seed}
  /\ To(r, "takeBackVolume")
  /\ UNCHANGED <<oneoff, volume, verdict>>

TakesBackVolume(r) ==
  /\ AtStep(r, "takeBackVolume")
  /\ volume' \in IF VolumeHeld(oneoff, seed) THEN {volume} ELSE {"none", volume}
  /\ To(r, "sawSeed")
  /\ UNCHANGED <<oneoff, seed, verdict>>

SeesWhatIsLeft(r) ==
  /\ AtStep(r, "sawSeed")
  /\ \/ seed = NoContainer /\ volume = "none" /\ Ends(r, "fill taken back")
     \/ Ends(r, "fill left")
  /\ UNCHANGED ooWorld

\* The attached run; it fails where the name is taken, or makes nothing.
RunsOneOff(r) ==
  /\ AtStep(r, "run")
  /\ \/ /\ oneoff = NoContainer /\ ~Cut(r)
        /\ oneoff' = Container(r, TRUE)
        /\ volume' = IF volume = "none" THEN "empty" ELSE volume
        /\ To(r, "attached")
     \/ /\ UNCHANGED <<oneoff, volume>>
        /\ To(r, IF Cut(r) THEN "stop" ELSE "asked")
  /\ UNCHANGED <<seed, verdict>>

\* The command ends, or the container is taken from under it, or Ctrl-C kills
\* the attached client and leaves the container running.
OneOffEnds(r) ==
  /\ AtStep(r, "attached")
  /\ \/ /\ ~Cut(r) /\ oneoff.by = r /\ oneoff.runs
        /\ oneoff' = Container(r, FALSE) /\ To(r, "asked")
     \/ ~Cut(r) /\ oneoff # Container(r, TRUE) /\ To(r, "asked") /\ UNCHANGED oneoff
     \/ Cut(r) /\ To(r, "stop") /\ UNCHANGED oneoff
  /\ UNCHANGED <<seed, volume, verdict>>

\* Ctrl-C from here on comes too late: the context was asked about already.
AfterOneOff(r) ==
  /\ AtStep(r, "asked")
  /\ oneoff' = IF r \in Removing THEN NoContainer ELSE oneoff
  /\ Ends(r, "ended")
  /\ UNCHANGED <<seed, volume>>

\* Stop, on a live context; it may not take.
StopsOneOff(r) ==
  /\ AtStep(r, "stop")
  /\ oneoff' \in {IF oneoff = NoContainer THEN oneoff ELSE [oneoff EXCEPT !.runs = FALSE], oneoff}
  /\ To(r, IF r \in Removing THEN "remove" ELSE "sawStopped")
  /\ UNCHANGED <<seed, volume, verdict>>

RemovesOneOff(r) ==
  /\ AtStep(r, "remove")
  /\ oneoff' \in {NoContainer, oneoff}
  /\ To(r, "sawRemoved")
  /\ UNCHANGED <<seed, volume, verdict>>

\* Asked again, and told as it is; no answer is told as that.
SeesRemoved(r) ==
  /\ AtStep(r, "sawRemoved")
  /\ \/ Ends(r, IF oneoff = NoContainer THEN "removed" ELSE "still there")
     \/ Ends(r, "not known")
  /\ UNCHANGED ooWorld

SeesStopped(r) ==
  /\ AtStep(r, "sawStopped")
  /\ \/ Ends(r, CASE oneoff.runs -> "still running"
                  [] oneoff = NoContainer -> "no longer there"
                  [] OTHER -> "stopped")
     \/ Ends(r, "not known")
  /\ UNCHANGED ooWorld

\* Another project takes the free name.
NameGoes ==
  /\ oneoff = NoContainer /\ \E r \in Runs : AtStep(r, "deps")
  /\ oneoff' = Container("other", TRUE)
  /\ UNCHANGED <<run, seed, volume, verdict>>

-----------------------------------------------------------------------------
OneOffInit ==
  /\ run = [r \in Runs |-> [at |-> "owner", cut |-> FALSE]]
  /\ oneoff \in OneOffsThere /\ volume \in VolumesThere
  /\ seed = NoContainer
  /\ verdict = [r \in Runs |-> "none"]

OneOffStep(r) ==
  \/ CtrlCOneOff(r) \/ AsksOneOffOwner(r) \/ UpsDependencies(r) \/ PreparesOneOff(r)
  \/ ClearsStale(r) \/ MakesBindDirs(r)
  \/ LooksAtVolume(r) \/ ClearsSeed(r) \/ StartsSeed(r) \/ EndsSeed(r)
  \/ AfterFailedSeed(r) \/ TakesBackSeedContainer(r) \/ TakesBackVolume(r) \/ SeesWhatIsLeft(r)
  \/ RunsOneOff(r) \/ OneOffEnds(r) \/ AfterOneOff(r)
  \/ StopsOneOff(r) \/ RemovesOneOff(r) \/ SeesRemoved(r) \/ SeesStopped(r)

OneOffNext == NameGoes \/ \E r \in Runs : OneOffStep(r)

OneOffSpec == OneOffInit /\ [][OneOffNext]_ooVars

-----------------------------------------------------------------------------
\* "Existing volumes are left untouched, so user data and prior state are
\* preserved": a volume that was there is neither filled nor taken back, though
\* both go by name and the listing may not answer.
PriorDataKept == [][volume = "kept" => volume' = "kept"]_ooVars

\* What an interrupted `run` says of what it left is so when it says it: a fill
\* "taken back" left neither container nor volume, one "removed" is gone, one
\* "stopped" does not run.
VerdictsAreTrue ==
  [][\A r \in Runs :
       AtStep(r, "over") \/ CASE verdict'[r] = "fill taken back" -> seed' = NoContainer /\ volume' = "none"
         [] verdict'[r] = "removed" -> oneoff' = NoContainer
         [] verdict'[r] = "stopped" -> ~oneoff'.runs
         [] OTHER -> TRUE]_ooVars

\* A run neither loses what was there before it nor misreports what it leaves.
RunsAreAccountedFor == PriorDataKept /\ VerdictsAreTrue
=============================================================================
