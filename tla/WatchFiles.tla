----------------------------- MODULE WatchFiles -----------------------------
(***************************************************************************)
(* `watch`: host files saved under develop.watch rules are copied into     *)
(* running containers, or restart or rebuild their service, in batches     *)
(* (internal/orchestrator/watch.go).  fsnotify hands over the saves of the *)
(* directories watched by then, in order; one goroutine takes them, waits  *)
(* for a quiet 100 ms and then applies the batch.                          *)
(***************************************************************************)
EXTENDS Naturals, Sequences, SequencesExt, FiniteSets

CONSTANTS
  Rules,      \* every service's rules in startup order: [svc, action, under, ignores, tree]
  DirOf,      \* file -> its directory
  Roots,      \* the directories there when `watch` begins
  MaxSaves    \* file -> how often it is saved

Files    == DOMAIN DirOf
Dirs     == {DirOf[f] : f \in Files} \cup Roots
SyncedServices == {Rules[i].svc : i \in DOMAIN Rules}

ASSUME FilesAssumption == Files \cap SyncedServices = {}   \* `warned` holds both

VARIABLES
  saved,      \* file -> how often it was saved
  there,     \* directories there
  watched,   \* directories fsnotify watches
  events,    \* saved files and made directories, not yet taken
  pending, timer,
  loop,      \* where the goroutine is
  batch, rebuilds, restarts, rebuilt,
  inside,    \* service -> file -> the version its container has
  process,   \* service -> file -> the version there when its process started
  owed,      \* files a rule is for, saved since they were last taken up, where
             \* the save was to be seen
  warned     \* files and services the last attempt on was reported as failed

filesVars == <<saved, there, watched, events, pending, timer, loop, batch, rebuilds, restarts,
               rebuilt, inside, process, owed, warned>>
hostVars  == <<saved, there, watched, events, owed>>
loopVars  == <<pending, timer, loop, batch, rebuilds, restarts, rebuilt>>
boxVars   == <<inside, process>>

-----------------------------------------------------------------------------
\* match: the rule's path holds it and no ignore pattern does; handleChange
\* takes the first rule that matches, whatever service it is of.
Matches(i, f)  == f \in Rules[i].under /\ f \notin Rules[i].ignores
FirstRule      == [f \in Files |-> {i \in DOMAIN Rules : Matches(i, f) /\ \A j \in 1..(i - 1) : ~Matches(j, f)}]
Synced         == {f \in Files : \E i \in FirstRule[f] : Rules[i].action \in {"sync", "sync+restart"}}
RuleOf         == [f \in {g \in Files : FirstRule[g] # {}} |-> Rules[CHOOSE i \in FirstRule[f] : TRUE]]

\* addSubtree: the directories under a rule's path, but for those it ignores.
Watchable(d) == \E i \in DOMAIN Rules : d \in Rules[i].tree

\* The user saves a file, or makes a directory (under a watched root).
SavesFile(f) ==
  /\ DirOf[f] \in there /\ saved[f] < MaxSaves[f]
  /\ saved' = [saved EXCEPT ![f] = @ + 1]
  /\ events' = IF DirOf[f] \in watched THEN Append(events, f) ELSE events
  /\ owed' = IF DirOf[f] \in watched /\ FirstRule[f] # {} THEN owed \cup {f} ELSE owed \ {f}
  /\ UNCHANGED <<there, watched, loopVars, boxVars, warned>>
MakesDir(d) ==
  /\ d \notin there
  /\ there' = there \cup {d}
  /\ events' = Append(events, d)
  /\ UNCHANGED <<saved, watched, owed, loopVars, boxVars, warned>>

-----------------------------------------------------------------------------
\* Mutation: only a created file is taken in, not one written again.
TakesCreated ==
  /\ loop = "select" /\ events # <<>>
  /\ events' = Tail(events)
  /\ LET e == Head(events) IN
     /\ watched' = IF e \in Dirs /\ Watchable(e) THEN watched \cup {e} ELSE watched
     /\ IF e \in Files /\ saved[e] = 1
        THEN pending' = pending \cup {e} /\ timer' = TRUE
        ELSE UNCHANGED <<pending, timer>>
  /\ UNCHANGED <<saved, there, owed, loop, batch, rebuilds, restarts, rebuilt, boxVars, warned>>

\* A new directory is watched from here on; a file waits for the timer.
TakesEvent ==
  /\ loop = "select" /\ events # <<>>
  /\ events' = Tail(events)
  /\ LET e == Head(events) IN
     /\ watched' = IF e \in Dirs /\ Watchable(e) THEN watched \cup {e} ELSE watched
     /\ IF e \in Files
        THEN pending' = pending \cup {e} /\ timer' = TRUE
        ELSE UNCHANGED <<pending, timer>>
  /\ UNCHANGED <<saved, there, owed, loop, batch, rebuilds, restarts, rebuilt, boxVars, warned>>

\* The timer's turn in the select, an event queued or not: flush.
Flushes ==
  /\ loop = "select" /\ timer
  /\ batch' = pending /\ pending' = {} /\ timer' = FALSE /\ loop' = "changes"
  /\ UNCHANGED <<hostVars, rebuilds, restarts, rebuilt, boxVars, warned>>

\* syncFile copies what the file holds now, or reports that it could not.
Copies(s, f) ==
  \/ inside' = [inside EXCEPT ![s][f] = saved[f]] /\ warned' = warned \ {f} /\ owed' = owed \ {f}
  \/ warned' = warned \cup {f} /\ owed' = owed \ {f} /\ UNCHANGED inside

\* handleChange, one changed path; a path no rule matches is passed by.
HandlesChange(f) ==
  /\ loop = "changes" /\ f \in batch
  /\ batch' = batch \ {f}
  /\ IF FirstRule[f] = {} THEN UNCHANGED <<inside, warned, owed, rebuilds, restarts>>
     ELSE LET r == RuleOf[f] IN
       /\ IF f \in Synced THEN Copies(r.svc, f) ELSE owed' = owed \ {f} /\ UNCHANGED <<inside, warned>>
       /\ restarts' = IF r.action = "sync+restart" THEN restarts \cup {r.svc} ELSE restarts
       /\ rebuilds' = IF r.action = "rebuild" THEN rebuilds \cup {r.svc} ELSE rebuilds
  /\ UNCHANGED <<saved, there, watched, events, pending, timer, loop, rebuilt, process>>

TurnsToRebuilds ==
  /\ loop = "changes" /\ batch = {} /\ loop' = "rebuilds"
  /\ UNCHANGED <<hostVars, pending, timer, batch, rebuilds, restarts, rebuilt, boxVars, warned>>

\* rebuildService: `up --build --force-recreate --no-deps` of it, from the files
\* as they are; or it fails, is reported, and leaves the container as it was.
Rebuilds(s) ==
  /\ loop = "rebuilds" /\ s \in rebuilds \ rebuilt
  /\ rebuilt' = rebuilt \cup {s}
  /\ \/ /\ inside' = [inside EXCEPT ![s] = saved] /\ process' = [process EXCEPT ![s] = saved]
        /\ warned' = warned \ {s}
     \/ warned' = warned \cup {s} /\ UNCHANGED boxVars
  /\ UNCHANGED <<hostVars, pending, timer, loop, batch, rebuilds, restarts>>

\* "a rebuild already recreated it": asked of the attempt, not of its outcome.
SkipsRestart(s) == s \in restarts /\ s \in rebuilds

\* Restart keeps the container's files; one that is gone, or fails, is reported.
Restarts(s) ==
  /\ loop = "rebuilds" /\ rebuilds \subseteq rebuilt /\ s \in restarts
  /\ restarts' = restarts \ {s}
  /\ IF SkipsRestart(s) THEN UNCHANGED <<process, warned>>
     ELSE \/ process' = [process EXCEPT ![s] = inside[s]] /\ warned' = warned \ {s}
          \/ warned' = warned \cup {s} /\ UNCHANGED process
  /\ UNCHANGED <<hostVars, pending, timer, loop, batch, rebuilds, rebuilt, inside>>

EndsBatch ==
  /\ loop = "rebuilds" /\ rebuilds \subseteq rebuilt /\ restarts = {}
  /\ loop' = "select" /\ rebuilds' = {} /\ rebuilt' = {}
  /\ UNCHANGED <<hostVars, pending, timer, batch, restarts, boxVars, warned>>

-----------------------------------------------------------------------------
FilesInit ==
  /\ saved = [f \in Files |-> 0] /\ there = Roots
  /\ watched = {d \in Roots : Watchable(d)} /\ events = <<>>
  /\ pending = {} /\ timer = FALSE /\ loop = "select"
  /\ batch = {} /\ rebuilds = {} /\ restarts = {} /\ rebuilt = {}
  /\ inside = [s \in SyncedServices |-> saved] /\ process = inside
  /\ owed = {} /\ warned = {}

FilesNext ==
  \/ \E f \in Files : SavesFile(f) \/ HandlesChange(f)
  \/ \E d \in Dirs : MakesDir(d)
  \/ TakesEvent \/ Flushes \/ TurnsToRebuilds \/ EndsBatch
  \/ \E s \in SyncedServices : Rebuilds(s) \/ Restarts(s)

FilesSpec == FilesInit /\ [][FilesNext]_filesVars

-----------------------------------------------------------------------------
AtRest == loop = "select" /\ events = <<>> /\ pending = {}

\* A burst of saves, during a batch or before it, leaves none behind: with
\* nothing left to do, every file with a rule saved where `watch` looks was taken
\* up since, and a synced one that lies where it looked from the start is in the
\* container as it is on the host, or was reported.
SavesArrive ==
  AtRest => /\ owed = {}
            /\ \A f \in Synced : DirOf[f] \in Roots /\ Watchable(DirOf[f])
                 => inside[RuleOf[f].svc][f] = saved[f] \/ f \in warned

\* A process runs on what a sync+restart rule copied under it only where a
\* failed restart or rebuild of it was reported.
RestartsFollowSyncs ==
  AtRest => \A f \in Synced : RuleOf[f].action = "sync+restart"
    => LET s == RuleOf[f].svc IN process[s][f] = inside[s][f] \/ s \in warned

\* A saved file is in the container, and in use by its process where its rule says
\* so, or was reported.
SavesTakeEffect == SavesArrive /\ RestartsFollowSyncs
=============================================================================
