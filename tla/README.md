# Verification of opossum

opossum runs a docker-compose project on Apple's `container` runtime. It has no
daemon: every command is a process of its own, several of them may run at once,
and the one thing that stays behind is a small *supervisor* that `up` leaves to
honour `restart:`. What keeps these processes apart is files: two `flock`s, a
pid file, and markers; what keeps one project's containers from another's is
names and labels. This directory models that program in TLA+ (the commands call
by call, and what a compose file means as algorithms), checks it with TLC on
small instances, and proves the claims that matter most for instances of any
size with TLAPS.

Paths below are relative to the repository's `src/`; `orchestrator/` and
`compose/` stand for `internal/orchestrator/` and `internal/compose/`.

## 1. The system

### Components

| component | state it keeps | operations | talks to | what makes it correct |
|---|---|---|---|---|
| project lock (`orchestrator/lock.go`) | a file with a `flock`, in the state directory | lockProject (refuses when busy), HoldProjectLock (takes nothing where there is no directory), release | held by `up`, `down`, `destroy` and the `up` of a `run`'s dependencies | two commands never change one project at once |
| supervisor claim (`orchestrator/supervisor.go`) | pid file, claim lock, record of watched services | ClaimSupervisor, lookSupervisor, StopSupervisor, clearPidFile, StartSupervisor, RecordWatched | `ps`, signals; `up`, `down`, `destroy` | a live supervisor is the one the pid file names, so a later command can find and stop it |
| up, down, destroy as commands (`cmd/opossum/main.go`, `orchestrator/destroy.go`) | none of their own: what they looked at earlier | bring up, compare, replace, await; stop, forget, remove; plan, confirm, remove | both locks, the supervisor, the runtime | a taken-down project has no supervisor; a replaced supervisor's services are carried over |
| restart supervision (`orchestrator/supervise_run.go`, `supervise_policy.go`, `compose/restart.go`) | what it remembers of each service; two counts of empty polls | a poll: look, read the marker, decide, start | the runtime, the stop markers | policies are honoured; it ends when and only when there is nothing left to watch |
| stop, start, kill, restart (`orchestrator/orchestrator.go`) | stop marker and restart marker of each service | the four commands, call by call | the runtime, the supervisor through the markers, `logs --follow` | a stop stands until the user brings the service back; restarts do not block one another |
| bring-up and rollback (`orchestrator.go`, `Up`) | what this run created and what was there before | order, reuse, recreate, start, wait, roll back, interrupt | the runtime, the lock | a failed `up` removes what it made and nothing else |
| host ports (`orchestrator.go`) | what earlier services of the run claimed, what it will free | settle ranges, move bare entries, check, start | the kernel's listeners, the containers there | what was asked for is published, nothing moves twice, nothing is refused that would have worked |
| teardown (`Down`, `Destroy`) | the plan | plan, confirm, look again, delete, tell | the runtime's labels | only this project's containers, networks, volumes and images go, and what stays is said |
| one-off run (`RunOneOff`) | the one-off container, volumes being filled | clear the old one, fill volumes, run, remove | the runtime, another `run` | data there before is never lost, nothing half-filled is left unsaid |
| logs following (`followUntilExit`) | which containers are gone, how long they are silent | follow, watch, drain, cut | restart markers, the supervisor's polls | a restart is not an end, an end ends it, the last lines are shown |
| watch (`orchestrator/watch.go`) | directories watched, events and changes waiting | take events, flush a batch, sync, restart, rebuild | fsnotify, the runtime | a save that was seen reaches the container |
| workspace snapshots (`internal/workspace`) | a directory, snapshots, what rollbacks set aside | save, roll back, prune, remove | the file system | no version of the user's directory is lost, whatever step fails |
| adapting docker compose projects (`orchestrator/adapt.go`) | the overlay file, the record of the keys written to it | plan, write, add an observed entry, take records away | the user's edits, images, containers that die | what the user took out stays out, what they wrote stays |
| startup order (`compose/graph.go`) | — | strict and tolerant order, cycles, profiles, checks of what is named | — | dependencies first, and refused for cause only |
| compose files (`compose/load.go`, `types.go`, `mergetags.go`, `servicespec.go`) | — | merge, tags, `extends`, `include`; ports, mounts and other keys in their forms | — | each file's word stands where no later one speaks; two spellings of one thing mean one thing |
| variables (`compose/interpolate.go`, `envfile.go`) | — | layers, operators, env files | the shell | one variable is read one way |
| project naming (`cmd/opossum/main.go`, `compose/writtenname.go`) | — | flag, variables, `.env` files, `name:`, directory; the guesses of `down` | the shell, the directory | commands on one project act on one name |
| run flags and fingerprint (`orchestrator.go`, `internal/runtime`) | the hash on a container | configHash, flags of `container run` | bring-up compares hashes | what changes the container changes the hash, and every word reaches its option |
| volumes_from, networks (`compose/load.go`, `orchestrator.go`) | — | expand, defer, check; name, join, make | the runtime's networks | borrowed as written; two declared networks are not one by accident |
| runtime adapter (`internal/runtime`) | — | calls to `container` | the OS | process I/O; its answers are inputs here |
| mutation testing (`cmd/mutate`, `internal/mutate`) | swapped source files | mutate, run, restore, interrupt | the author's editor | a source file is always restored, or it is said |
| doctor, dns offer, mcp, host statistics, repository hygiene | — | passes over text and reports | — | (no state worth modelling) |

`PROJECT.json` lists them with their source files and status, and the hazards,
each at its line.

### What is hard

* *No daemon, so no serialisation.* Any two commands may interleave at every
  system call. The project lock covers `up`, `down` and `destroy` only; `stop`,
  `start`, `kill` and `restart` take none, and neither does the supervisor.
* *A look is old when it is acted on.* The pid file names a process by number;
  `ps` may fail; a container is looked at and then started by name.
* *Locks live in files, and `destroy` unlinks them* while it holds them.
* *Processes are killed anywhere*; a flock goes with its process, a pid file, a
  marker or a spawned child does not.
* *The runtime answers "unknown"* as well as "there" and "not there", and says
  no exit code: a finished job and a crash are one.
* *Time-outs*: `up` waits a bounded time for its supervisor's claim, a stop
  waits a bounded time after each signal.
* *Everything goes by name.* Container, network and volume names are made of the
  project's name and the service's; another project, another terminal or another
  `run` may hold one. What is whose is told by labels, and a label is read
  before the name is acted on.
* *One thing can be written many ways.* A port, a mount, a network or a variable
  has several forms, files are laid over one another, and the same file is read
  by several passes (the load, the guess of a name, the checks of `up`, the
  fingerprint), which have to agree.

## 2. Modules

| module | models | proofs |
|---|---|---|
| `FlockFile` | one file used as a lock: path, inode, open descriptors, `flock`, unlink | |
| `WatcherSlot` | abstract: what the pid file promises | |
| `SupervisorClaim` | the claim protocol with its lock, pid file, `ps` and signals | `ProjectLifecycleProofs` |
| `ProjectLifecycle` | `up`, `down`, `destroy` over the claim protocol and the project lock | `ProjectLifecycleProofs` |
| `RestartPolicy` | when to restart: pure decisions | |
| `RestartSupervision` | the life of one supervisor: polls, memory, counts | `ServiceCommandsProofs` |
| `ServiceCommands` | `stop`, `start`, `kill`, `restart` beside that supervisor | `ServiceCommandsProofs` |
| `BringUp` | `up` itself and its rollback, one call to the runtime at a time | `BringUpProofs` |
| `HostPorts` | which host port a service gets, over two runs of `up` | `HostPortsProofs` |
| `Teardown` | what `down` and `destroy` remove, deletion by deletion | `TeardownProofs` |
| `OneOff` | two `run`s of a service side by side | `InterruptionProofs` |
| `LogsFollow` | `logs --follow` and what ends it | `FollowingProofs` |
| `WatchFiles` | saves, events, batches and copies of `watch` | `FollowingProofs` |
| `WorkspaceSwap` | a directory, its snapshots and rollbacks that fail anywhere | `InterruptionProofs` |
| `MutationSweep` | `cmd/mutate`, its interrupt and the author | `InterruptionProofs` |
| `AdaptOverlay` | the overlay of `--from-docker-compose` over many runs | |
| `StartupOrder` | the walks of a command over the dependencies: orders, cycles, refusals | `AnswersProofs` |
| `FileLayers` | merging, tags, `extends`, `include` | |
| `EnvLayers` | variables, templates and env files | |
| `PortForms`, `MountForms`, `EntryForms` | the forms a service's keys may be written in | `AnswersProofs` (ports) |
| `RunFlags` | the fingerprint and the words of `container run` | `AnswersProofs` (words, groups) |
| `SharedMounts` | `volumes_from`: the walk that works out what each service mounts | `AnswersProofs` |
| `NetworkKeys` | networks by key and by name | `AnswersProofs` |
| `CommandProject` | the project a command acts on | `AnswersProofs` |
| `ProjectAnswers` | a machine that asks the last two, with the properties of its answers | `AnswersProofs` |
| `ComposeFiles` | that machine, asking each of the other algorithms without state too | |
| `Refusals` | an answer that may be a refusal | |
| `MCLifecycle`, `MCSupervision`, `MCServiceCommands`, `MCBringUp`, `MCLogs`, `MCCompose`, `MCSide` | instances for TLC | |

`ProjectLifecycle` EXTENDS `SupervisorClaim` and instantiates `FlockFile` for the
project lock; `SupervisorClaim` instantiates it for the claim lock and refines
`WatcherSlot`. `ServiceCommands` EXTENDS `RestartSupervision`, which EXTENDS
`RestartPolicy`. `BringUp` stands by itself: what it models is one step of
`ProjectLifecycle` (`BringUp` there), taken under the project lock. `Teardown`
in the same way is its `RemoveContainers`, `HostPorts` and `RunFlags` are what
`BringUp` takes as given (a port that is free, a hash that fits), and its order is
an order of `StartupOrder`. `LogsFollow` has the restart markers of
`ServiceCommands` as one flag. `ComposeFiles` EXTENDS the other algorithms, `MCCompose`
has its questions, and `MCSide` EXTENDS that and the modules that share no state
with any other.

### FlockFile

A lock is not a flag: a path names an inode, a process opens the path and locks
the inode it got. `Open`, `Grant`, `Busy`, `Close` and `Unlink` are `open`,
`flock`, `EWOULDBLOCK`, `close` (also done for a process that dies) and
`os.RemoveAll`. `Grant` without `Busy` is a blocking `flock` (the claim), with
it a non-blocking one (the project lock). An inode can be used again only once
nobody has it open.

### SupervisorClaim

The pid file (`pidFile`) names a process or nobody; `recycled` are the dead
whose pid another process has now. `SeesWatcher`, `SeesNobody` and `SeesUnknown`
are the three answers of lookSupervisor: the pid is alive and started when the
file says, it is not, or `ps` would not say (`PsMayFail`). One action each for
the steps of ClaimSupervisor (`ClaimOpen` ... `ClaimClose`), of StopSupervisor
(`StopBegin`, `StopTerm`, `StopSeenGone`, `StopKill`, `StopGiveUp`) and of
clearPidFile (`ClearOpen` ... `ClearClose`). `ClaimSpec` is the protocol by
itself: any number of supervisors spawned at any time, commands that stop at any
time, whatever other lock they hold or do not.

### ProjectLifecycle

Each command is a process with a program counter `pc`; its actions carry the
names of what the code does (`LockOpen`, `Compare`, `SpawnChild`, `AwaitClaim`,
`EarlyStopped`, `Forget`, `RemoveContainers`, `Plan`, `RemoveStateDir`). It
EXTENDS `SupervisorClaim` and instantiates `FlockFile` a second time for the
project lock. What `up` does to containers is one step (`BringUp`) that decides
which supervised services are there. `lone` is history: supervisors whose `up`
stopped waiting, or was killed, before it saw them claim; the code makes no
promise about those and neither do the properties.

### RestartPolicy, RestartSupervision

`Decide`, `BackoffFor`, `ObserveRunning` are the functions of
`supervise_policy.go` over records. A poll visits the watched services in any
order (the code ranges over a map); a visit is up to three steps, *look*
(`LookUnanswered`, `LookElsewhere`, `LookRunning`, `LookStopped`), `ReadMarker`
and `StartIt`, because the code holds nothing between them. `PollEnds` is
watch.after. `World` is everything else: containers exit, are removed, their
name goes to another project and comes back; `up` brings a service up; the
runtime stops answering, wholly or about some containers.
Time passes between polls (`Elapsed`); `memory[s].since` is `now - lastAction`,
told apart up to `MaxSince`, and restarts up to `MaxRestarts`, which the
assumptions keep at or above every number they are compared with. The count of
unanswered polls is kept modulo `IdlePolls`, all the code asks of it.

### ServiceCommands

EXTENDS `RestartSupervision`. A command has a `step` and the services `left` to
take it for. `stop` and `kill` look, record, act, service by service, last
first; `kill` notes first whether a stop was on record, and takes its own back
when it is refused (`KillUndoes`); `start` clears and starts, in startup order,
holding back what depends on a failure; `restart` looks at all, takes every
restart marker in the order of the names, and only then clears, stops and
starts. An order is a sequence of services, a command's are `InOrder` of it, and
`EarlierStops` are the services stopped before any of this began. `stood` is
history: services a stop or kill has dealt with and nobody has brought back since.
A stop whose record could not be written, or which an `up`, `start` or `restart`
cleared before it acted (`undone`), does not stand: the code warns of the first and
the second is two users' disagreement. `cut` is history too: services whose marker
a command left behind because it was killed between its record and its act.

### BringUp

`box[s]` is the container under a service's name: who made it (this `up`, it
was there `before`, an `other` hand), whether it runs, and whether its hash
`fits` the file. `pc` is the next step and `todo` the services the pass under
way has still to visit: the code goes through `order` seven times (who is
running, who owns the names, the loop, the markers; in the rollback what is
kept, what is removed, what survives), and each pass is `At(p)` for the service
in turn and `Passed(p)` at its end. One service of the loop is `Turn`,
`FoundHealthy`/`AllHealthy`, `BuildsImage`, `Compares`, `Prepares`,
`LooksBefore`, `Replaces` (the delete, and the name on the rollback's lists),
then the run and what is made of its answer. The code keeps two lists, and so
does the model: `started`, what the rollback stops and deletes, and `made`
(`createdSvc`), what it counts as this `up`'s own when it decides what is kept
and reported. `stays` is a dependency a foreground `up web` recreated in the
background.

A look gives what is there or nothing (`Looks`, `Unknown`): the runtime may not
answer, and after Ctrl-C a call under the cancelled context may not. The
rollback has a context of its own. Deletes say nothing of what came of them: a
container may stay (`MayStick`), and so may a network, because a container may be on
it or for the runtime's reasons (`DeleteNetwork`, which warns at most). Meanwhile `World` goes on: containers exit, a supervisor or
another terminal starts one with a `restart:` policy, another hand makes or
removes a container under the names in `Others`.

`well`, `ended`, `refused`, `torn`, `stuck`, `netsStuck` and `netsBefore` are history
and guard nothing.

### HostPorts

The phases of an `up` on its ports, in the order of the code: addresses that
cannot be bound are refused (`LooksAtAddresses`), ranges settled (`Settles`),
bare entries moved off what is taken (`Remaps`, with `claims`), every single port
checked against what listens now, less what this run will let go of by then
(`ChecksPorts`, `freed`), and the containers recreated on them (`Starts`). The two
walks go entry by entry (`at`, `line`), the check and the starts service by
service. `Again` is a second `up`, of the same file or of an edited one; other
programs come and go meanwhile (`OthersCome`). An entry is the numbers and the
address it may be published on (`HostAddresses`), and the mark of a bare one
(`bare`), whose host port is opossum's to choose. `quiet` is history: nobody else has
come or gone during this run.

### Teardown

A command is a list of tasks, `todo`, and each step takes the first: `Asks` looks
at one thing and puts its deletion at the head of the list, `Drops` deletes. A
`destroy` first makes its plan (`Plans`, `PlansOrphans`, `PlansNetworks`), shows
it (`Prompts`) and looks again at what changed (`Checks`). A look may go
unanswered (`deaf`), a deletion may leave the thing (`stayed`), and another hand
may take a name or free it (`Hand`): these are the code's own cases and each ends
in what the command says (`said`), but for one: where a supervisor may have outlived
its stop (`supervisorLeft`, decided as the removal begins), `Drops` passes over its
directory with no error (`KeptForIt`), for the pid file is how the next `down` finds
it. The plan's line "supervisor running" is no thing to remove and is not in `shown`.

### OneOff

`run` takes no lock past the `up` of its dependencies, so two runs of a service
share the one-off's name, the name of the container that fills a volume and the
volume. Each call to the runtime is a step; an interrupt may come before any, and
what has been filled half-way is taken back, which may fail.

### LogsFollow

`Beat` is the common clock; ages count to the cap at which the code stops telling
them apart. The container (`Container`) runs, stops, is started or restarted and
writes lines; the runtime hands them over late (`queue`), looks hang or come back
unreadable (`RuntimeHangs`); the watcher asks, takes answers in and cuts
(`Follows`). A service with a policy (`Supervised`) is followed and not watched.
`late` is history: how many of the looks counted in a row came too late, saying "not
running" of a container that ran again by the time they were taken in and whose
marker was gone.

### WatchFiles

`SavesFile` and `MakesDir` are the user; fsnotify queues an event where it watches
the directory (`watched`). The goroutine takes an event (`TakesEvent`), waits for
quiet and takes the batch (`Flushes`), and then handles it file by file
(`HandlesChange`), rebuild by rebuild and restart by restart, in map order, while
saves go on. `owed` is history: files with a rule, saved where the save was to be
seen, and not copied since.

### WorkspaceSwap

`SavesFirst`, `Stages`, `ClearsOld`, `MovesAside`, `MovesIn`, `PutsBack`, `Tidies`
are the steps of a rollback; each may fail, and `Dies` ends the command between
any two and leaves its directories for the next. `replaced` is history: what
rollbacks moved aside, less what the user removed.

### MutationSweep

Three actors: the sweep (`MainStep`), its interrupt handler (`HandlerStep`) and
the author (`AuthorStep`), who may edit, repair or delete the file that is being
mutated. A content is a pair: which edit of the author's, and whether the tool's
text is in it. What is said on stderr is state (`told`), because what is said is
what the property is about.

### AdaptOverlay

A run looks at the project (`Looks`: the plan, with the images that would answer),
links or replaces the overlay file, or gives up, and then records the keys of what
it wrote (`RecordsKeys`). Between runs the user takes entries out (`TakesOut`) and
writes others (`WritesOwn`), a container dies on a mount (`ContainerDies`) and
`destroy` takes the records with or without the overlay (`TakesRecords`).

### StartupOrder

One command over the services of one file. A cycle check and the order are the same
depth-first walk, so it is one machine: a walk has the stack it is in and the services
it has placed, *visits* the first of what is ahead in the order of the names, *places*
a service when nothing is ahead of it, and *ends* with the next walk or the answer. A
command goes through several (`StagesOf`): `up` loads and checks what is active, then
what is read, then settles the order over everything defined; `start` checks what it
is given and settles it; `stop` and `down` walk the tolerant order. A cycle check goes
back to a service it is in, and so finds the cycle; the order does not follow that edge.
What is left out: the `--no-deps` variant of `selectServices`, and the wording.

### The algorithms: FileLayers to CommandProject, ProjectAnswers and ComposeFiles

Of these only `SharedMounts` has state of its own: each other is the algorithm as
operators that follow the functions of the code, and under a line "Reference" what its
answers have to satisfy, stated without the algorithm ("what each file says stands
where no later one speaks" for the merge, "the last entry written for the path" for
the mounts).
`ProjectAnswers` makes a machine of the two that are proved about
whole, and `ComposeFiles` of those and the rest: `question` is
one of a set of inputs, one action per algorithm answers it, and the
properties relate question and answer. The questions of the run are in `MCCompose`;
the assumptions on them (`NetworkQuestionsAssumption`, `ProjectQuestionsAssumption`,
`FlagQuestionsAssumption`) say only what a file that was read always is.

`FileLayers`: a value is nothing, a text, a number, a list or a mapping; the merge
goes by the key it is under and the forms of both sides. Tags, `extends` in one file
and across files, and `include` act on whole files. `EnvLayers`: a value is a
sequence of words and a template a sequence of words and references.
`CommandProject`: a run is the flag, the shell, the `.env` of two places,
`--env-file` and the files with their documents; a command's name is worked out by
the load, by the guess before it, and by the guess that goes on without it. The load
reads the documents one over another and the guesses scan them for a `name:` line; both
come to the latest document that speaks, which is how the two are written here
(`Latest`), each over its own documents and with its own idea of speaking.
`RunFlags` has the options of one service, the words `container run` is given and
the flat stream of words `configHash` hashes.
`SharedMounts` is a machine of its own, since what a service ends up with depends on when
it is reached. The code recurses and marks what it is in and what it has done; here the
stack is in the open (`shared.stack`, each service with how many of its references it has
gone through and what it has been lent), and each step is a reference: passed over or
refused (`PassesRef`), its holder gone into (`ExpandsHolder`), its mounts taken
(`Borrows`), or the service folded (`Folds`). A service's mounts are kept by path; what
they are compared with is what a service writes and the last of its holders that has
something at the path (`HasAsWritten`), of whoever no cycle runs through.
`NetworkKeys` has the declared networks and what is there in the runtime.
`PortForms`, `MountForms` and `EntryForms` read a key as its `UnmarshalYAML` does, in
the order of its refusals. A number YAML reads as another one (`010`) carries both, and
digits carry the zeros in front of them: a host port of zeros is 0 by number, and all else
is compared as it is written.

## 3. Runs

| run | instance | states | shows |
|---|---|---|---|
| `updown` | 2 `up`s, 1 `down`, 2 supervisors, crashes, `ps` may fail | 610 000 | `WatcherFindable`, `OneCommandAtATime`; the protocol refines `WatcherSlot` (`ImplementsWatcherSlot`); the whole uses the protocol only as allowed (`UsesClaimProtocol`); a `down` that reports nothing leaves no supervisor (`QuietDownLeavesNobody`); no child that is waited for is signalled |
| `live` | 1 `up`, 1 `down`, first use, crashes | 45 000 | every command ends (`CommandsEnd`), every spawned supervisor settles (`SupervisorsSettle`) |
| `destroy` | 1 each of `up`, `down`, `destroy`, first use | 485 000 | a destroy whose plan saw a supervisor takes the directory only when none is left |
| `watch` | an `always` and an `on-failure` service, one of them stopped before, everything in `World` | 320 000 | `OnFailureBounded`, `OutageIsNotAbsence`, and under fairness `WatchEnds`, `ExitIsRetried` |
| `commands` | `stop db`, `kill web`, `start web db`, any failure, crashes, a supervisor of `db`, an earlier stop of `web` | 960 000 | `StopStands`, `MarksAreMeant` |
| `restarts` | `restart db web` and `restart web db`, any failure, crashes | 100 000 | `NoCircle`, and under fairness `RestartsEnd` |
| `bringup` | `up` in the background of `seed`, `job`, `db`, `web`, and `up web` in the foreground; any failure, Ctrl-C, unanswered inspects, another hand at `db` | 3 300 000 | `RollbackLeavesNothing`, `KeptIsWhole`, `DisownedIsLeft`, `SupervisionHandedOn`, `DependenciesFirst` |
| `logs` | a supervised and a watched service, two starts while followed | 500 000 | `StreamsEndWhole`, and under fairness `FollowReturns` |
| `side` | ten scenes, one at a time | 740 000 | one property of each component, below |
| `destroy_stale_plan`, `two_locks`, `named_elsewhere` | the fewest processes or the questions that show it | stops at the first | findings, section 6 |

**The scenes of `side`.** The components that share no state are checked in one run:
`MCSide` picks a scene at the start, and the variables of the others stay.

| scene | instance | property |
|---|---|---|
| teardown | two services, a former one, a one-off; two networks, one external; volumes kept, shared and left over; images pulled and built; in mixes of owners; one trouble, and a supervisor that may be left | `TakesItsOwn` |
| one-off | two `run`s, one with `--rm`, before them nothing, an old one-off or another's | `RunsAreAccountedFor` |
| watch | four files in two directories, `sync`, `sync+restart`, `rebuild` rules of two services that overlap, one file that a rule ignores; one file saved twice | `SavesTakeEffect` |
| workspace | one named snapshot, three edits, two rollbacks, two troubles | `RollbackIsReversible` |
| ports | two services, four port lists of the one with two of the other, edited to any other between the runs; other programs on two ports, two addresses, ports 1 to 5 | `PortsAreSettled` |
| mutate | two mutations, none or one of them a control, or a comparison, one edit, ^C anywhere, twice | `SweepIsHonest` |
| adapt | a database and a service beside it, of eight kinds of image, two happenings | `AdaptationsAreWhole` |
| order | three services that depend on each other in any of 432 ways, five settings of profiles, seven commands | `WalksAreInOrder` |
| files | the questions: pairs of values of every form under every kind of key for the merge; chains of three files for tags, `extends`, `include`; 20 000 env files and references; every two fields of a service given other values; 7 000 declarations of networks; 9 000 command lines; 18 000 entries of a service's keys | the seven below |
| shares | three services that borrow of each other, along chains and cycles, of what is not there or outside, with mounts of their own, `tmpfs` and profiles, in two orders: 9 600 files | `BorrowsAsWritten` |

Of a command and its answer `WalksAreInOrder` asks whether `up`, `down` and the rest
walk in order and refuse for cause; `BorrowsAsWritten`, of a file as it is read, whether
what a service borrows is what is written. Of the questions of `files` each of the seven
properties asks: does the later file speak over the earlier one, through tags, `extends` and `include` (`FilesAreLaidOver`),
whatever the service is called (`NameIsOnlyAName`); is a variable read one way wherever
it is met (`VariablesReadOneWay`); do two configurations have two fingerprints, and do
the words that run reach the option they are for (`RunsAsWritten`); is a service on its own networks and no other's
(`NetworksAreAsDeclared`); does a `down` act on the project its `up` started
(`CommandsAgree`); does a key mean one thing in all its forms (`FormsSayTheSame`).

**Bounds.** Two `up`s are what it takes for one to replace the other's
supervisor while a `down` acts; two supervisors are the old and the new one; one
inode is enough where nothing unlinks and two where `destroy` does (the old and
the new file). One watched service is enough where only *whether* something is
watched matters.
In `watch` two services make the counts interact (one found, one unanswered), a
back-off table of two entries has an immediate and a waiting restart, two polls
stand for the ten of `idlePollsBeforeExit`, and a limit of one for the three of
`on-failure`: the code compares with these numbers and nothing else.
`commands` gives stop and kill different services because a stop and a kill of
the *same* service is a known divergence (section 6). `bringup` has a one-shot that
is required (`job`) and one that is not (`seed`), a dependency with a policy and
a healthcheck (`db`), and what depends on all three (`web`): every relation the
rollback asks about occurs in it. Two networks, one there from before, with
`db` on one and `web` on both, tell apart what is kept for whom. Other hands act
on one name: a step of the code looks at one name at a time. In `logs` the waits
are one poll and two beats of settling, which keeps their order and lets one look
fall into each; one start while followed makes a gap that is no end, two make the
cut of a stream that is not over (section 6). In the
teardown one trouble at a time: each of its looks and deletions is by itself, and
what a second one adds is a second name in what is said. Two edits between two runs
of `adapt` let an entry be taken out and the record of it be lost. Three services are
the fewest with a chain, a cycle and a bystander; the merge goes key by key, two
files at a time, and a third matters only to tags, which have three. The ports 1 to 5
stand for 1 to 65535: `LastPort` is 65535 in `PortForms`, where the edges are asked
about, and small where ports are placed. Deadlock is not checked: the commands end
and the supervisor may too.

**Fairness.** `FairSpec` of `ProjectLifecycle` is weak fairness of each process:
its waits are bounded by time-outs, and the claim lock is granted by the kernel
to whoever waits. No fairness is asked of crashes, deaths, pid reuse or the
answers of `ps`. `WatchFairSpec` is weak fairness of the supervisor's loop as a
whole: the ticker ticks and calls to `container` return; the order in which a
poll visits services is left open, and the world owes nothing. `FairSpec` of
`ServiceCommands` is weak fairness of each `restart`, without the step that goes on
without a restart marker (`RestartGoesWithout`): a command waiting for a marker
somebody holds must get on because it is released. `LogsFairness` is weak fairness
of the clock, of the watcher's own steps and of what the runtime does in the end
(lines are handed over, a call that hangs is cut off by its time-out, a `restart`
ends), and strong fairness of a readable answer: a runtime that answers again and
again does not answer unreadably for ever. It owes nothing to Ctrl-C nor to the end
of a container.

Every property has a mutant: a plausible mistake in a definition (defined next
to it as `...Blind`, `...Shared`, `...Leaks`, and so on, and commented
"Mutation") under which TLC finds the property violated.

## 4. Proofs

**ProjectLifecycleProofs**, the claim: for any number of supervisors and commands, with or
without `ps`. `WatcherFindable` is not inductive by itself: a claimer that has
seen nobody and not yet written would break it. `ClaimInv` adds why that look
is still true when it acts: the claim lock is never unlinked, so all who have it
open have one inode and one process holds it (`LockUnbroken`); whoever looks,
writes or removes is that process (`LookingLocked`); so nobody lives in the slot
when it writes or clears (`LookStillTrue`). Theorems: `ClaimInvariant`,
`ClaimTypeCorrect`, `WatcherIsFindable`, `ClaimImplementsSlot` (refinement).

The commands: `LifecycleUsesClaim` shows that each step of `up`
and `down` is a step of the claim protocol or leaves it alone, so
`LifecycleWatcherFindable` follows from the protocol's theorem with no new
invariant. `LifecycleExclusive` needs `ProjectLockUnbroken`, the same argument
for the second lock. `LifecycleTypeCorrect` is for all three commands.

What a `down` that says nothing, or a `destroy`, leaves behind rests on `Orderly`:
who changes the project holds its lock (`WorksLocked`), StopSupervisor runs inside
the call to it (`Called`), whom the pid file names has claimed (`NamedHasClaimed`),
and who runs without having claimed is awaited by its `up`, or was let go of
(`UnclaimedIsAwaited`). Under the lock nobody else's `up` is waiting, so the one the
pid file names is the only one there can be, and whoever has stopped it misses
nobody (`MissesNobody`). A `destroy` unlinks both lock files, and with them the
meaning of holding one: `OrderlyUntilRemoved` is that `Orderly` holds for any
commands until a `destroy` is through with the directory (`Untouched`). Hence
`QuietDownAlwaysLeavesNobody`, where there is no `destroy`; `LoneDestroyLosesNobody`,
where there is one, for the step in which it removes the directory (with two of them
it is false: the second waits on a file the first removes); and
`AwaitedChildNeverSignalled`, where there is no `destroy` and the state directory is
there from the start (`FirstUse = FALSE`: without it `down` looks before it has a
lock to take, section 5). `LifecycleWatcherFindable` and `LifecycleExclusive` too
assume `Destroys = {}`; with one they are false (section 6).

**ServiceCommandsProofs**, the supervisor: `OnFailureIsBounded` rests on `RetriesCounted`:
while the supervisor lives it remembers at least as many restarts as it has
tried, since nothing it does to an `on-failure` service lowers the count
(observeRunning leaves those alone, which is why it must), and it is about to
start one only below the limit. `OutageKeepsWatch` rests on `Accounted`: a
service that has had its container since the last poll has it still, and a poll
that has visited it found it or was not answered. `WatchTypeCorrect` is the type
invariant both need. They use the assumptions on the constants
(`PolicyAssumption`, `SupervisionAssumption`) and nothing else.

For any commands beside it, on any services, whatever fails and whoever is killed,
`CommandsStandAside` shows that no step of a command touches what the
supervisor remembers nor takes the project's container from under it, so that its two
theorems hold beside the commands as well (`OnFailureBoundedBesideCommands`,
`OutageKeepsWatchBesideCommands`). `MarksAlwaysMeant` rests on `Accountable`: a marker
is there for a stop that stands, for one that was `cut`, or for one under way that
nobody has undone. `StopAlwaysStands` rests on `Silenced`, that a stop that stands has
its marker and a visit that found one does not come to the start, and on `Held`, that
until a stop or kill has acted its marker is there. It assumes `KillsApart`: no kill
works on a service another stop or kill works on. Without it the theorem is false
(section 6). `NeverACircle` rests on `InLine`: a restart that takes its markers has yet
to take only ones that come after all it holds. So whoever waits for another waits for
a marker that comes before the one the other waits for, and of any restarts that wait
one waits for the last (`LeastNumber`, proved from well-foundedness): that one cannot
be waiting for another of them.

**BringUpProofs**: for any services, networks and dependencies, whatever fails
and whatever `World` does. From the code's order `OrderAssumption` is taken
(each service once, after what it depends on), which is what `WalksAlwaysInOrder`
proves of what `StartupOrder` answers an `up`.
`VisitInv` says what a pass that has reached a service has not touched yet, and
with it `DisownedIsLeftAlone`: a disowned name can come on the list again only
in its own turn, which is over. `ListInv` is that every container this `up` made
is counted in `made`, hence on the rollback's list, and what has been visited is
gone or could not be removed; `NetInv` the same of networks: those this `up` made are
to be kept, still to be deleted, gone, or would not go (`netsStuck`). They give
`RollbackIsClean`. `DepInv` says that what is listed and not counted is a
one-shot, and that dependencies were asked about before their dependents;
`KeptStaysWhole` follows. `HandInv` gives `SupervisionIsHandedOn`, and
`GateInv`, that a one-shot somebody waits for has ended once the loop is past
it, gives `DependenciesComeFirst`.

**FollowingProofs**, the logs, for any services, clock settings and numbers of starts
and lines. `ContainerIs` and `LooksTell` relate the container, the marker beside it
and what the watcher has made of its looks: it counts only down looks of a container
it has seen run, and one that is only restarting is counted at most as often as a look
came `late`. `CutTells` is what a cut stream shows, `StaysDown` that a container never
started again stays as it was seen, and `Drains` that its last line is then handed
over within the wait. They give `StreamsAlwaysEndWhole`; `WatcherKnows` is the
invariant.

The watch: `SavesAlwaysTakeEffect`, for any rules, directories, files and saves. A
property of the quiet moment cannot be inductive; `FilesInv` is its form for every
moment. What is owed is in the queue, pending or in the batch (`OnItsWay`); what is
synced is in, reported or owed (`InOrOwed`); a service with a file to restart for has
it in use, was reported, or is in `restarts` (`InUseOrDue`), and is not forgotten when
the same batch rebuilds it, because the rebuild puts in use all there is.
`FilesAssumption` only keeps apart the two kinds of names in `warned`.

**InterruptionProofs**: three operations that may be cut off midway.
`RunsAreAlwaysAccountedFor`, for any number of `run`s at once: `OneOffInv` says that
nobody is between the look that finds no volume and the last look at its fill while the
volume is one that was there before, though every step goes by name.

`SweepsAreAlwaysHonest`, for any number of mutations and edits (`SweepAssumption`). Each
part of `SweepInv` is about one thing two goroutines share: no content the tool would
write back is older than the author's last edit over a mutation (`EditsAreKept`); a
mutation is in hand only between its registration and its latch, and after the
interrupt the handler alone has it (`Turns`); hence where the tool's text cannot be
(`TextIsOut`), which is what "put back" and "nothing in flight" say; `Tally` is what an
exit status is made of, and `TreeIsMinded` that somebody has the worktree to take back.

The rollbacks of a workspace: `SwapInvariant`, for any number of snapshots, edits,
rollbacks, failed steps and crashes, from the one assumption that autosave names are
the program's own (`SwapAssumption`; the code refuses them to users). `NothingIsLost`
is not inductive: what is only beside the workspace goes with the next rollback.
`Saved` says more, that all that was replaced is a *snapshot*, and `FreshNames` why
saving it overwrites nothing; `UnderWay` is what each step of a rollback has left for
the next, and gives what the last one says. `RollbackIsAlwaysReversible`.

**TeardownProofs**: `TakedownsTakeTheirOwn`, for any file, flags and world, any number
of deletions that do nothing and looks that go unanswered, and another hand in between.
`AsBefore` relates what there is to what there was: things only go, labels stay, and a
container's name changes hands only where `hands` says so. With it a look made now
speaks of the world before. `Kinds` says which tasks may be on the list at which stage.
`Sparing` is `OthersAreSpared` made inductive: nothing of another's is gone, and no task
that deletes, nor line of the plan, names such a thing; each look is shown to put in none.
`Clearing` is `DownClears` for every moment: what the command was to remove is settled,
or a task is left that sees to it (`Due`). A held network or volume stays where a container
holds it, and that is excused only because the containers' tasks are over by then
(`Ranked`), so that the holder is one the command could not or should not remove
(`HolderExcused`). `Truth` is the same of the lines of a destroy's plan, with the
directory of a supervisor that is left set apart; that it is then there
(`SupervisorStaysFindable`) is invariant as it stands. From the
constants it takes `TeardownAssumption`: the sets are finite, worlds are well formed (the
supervisor's directory is among their paths), and
no network that is another's has a name folded from the project's, which is by what
`down` takes one for its own without a look at its label ("opossum's own name and nobody else's", `destroy.go:306`).

**HostPortsProofs**: `PortsAlwaysSettled`, for any order of services, any entries,
addresses and port numbers, any number of tries at a free port, and whatever other
programs take. `PortsInv` is one part for each thing a later step relies on. An entry
changes as the file lets it and only when its walk comes by (`LineOf`, `LinesInTime`);
a port is published once (`PortsApart`). `ClaimsTrue` is that the claims of the second
walk are what lines ask for and what was handed out; with it `RangesClear`, that an
entry is moved into a range only behind another entry that has the port already, and
then the refusal of duplicates catches both: `CheckClear`. `PortsChecked` and
`AddressesAsked` are what a check has seen and still holds while nobody else comes or
goes; that a container still ahead has let go by the time it is needed is why what is
freed is gathered as the check goes. A second `up` repeats the first although it looks
at a different world, its own containers now listening: `FirstUp` is that a first `up`
leaves a record in what it starts (`RecordOf`: a range was put on a port no other line
covers, or on its first because none was to be had), and `SecondUp` that each of its
steps reads the record back. From the constants it takes `PortsAssumption`: each
service once, and entries as `normalizePort` writes them.

Three things were wrong when this was first tried, and the proof would not go through
until they were put right: a port "held" on one address counts for every other in the
check, an exception `CheckedIsPlaced` now states; two entries that share a container's
port may swap host ports on the second `up` (section 6), which `SharesNoPort` sets
apart; and a refusal to bind and a port in use were not kept apart in `Ask`.

**AnswersProofs**: six algorithms, for every input. `NetworksAlwaysAsDeclared`, of any
file whose services are each named (`IsProject`), any order of them and any networks
already there: of the joins of one name one is the first (`FirstOfAName`, from
well-foundedness), and what CheckNetworkKeys compares with the first only is enough to
tell any two (`RefusedForAClash`), since to be one network is transitive.
`NetworksStayAsDeclared` is the same of the machine of `ProjectAnswers`, and
`CommandsAlwaysAgree` what else it is asked (`ProjectInv`: an answer is that of its
question). That the commands agree rests on two guesses. Which COMPOSE_PROJECT_NAME is
meant the guess reads as the load does, unless a place that sets it to nothing hides the
second place from the load alone (`GuessReadsAsTheLoad`, `HiddenByNothing`). What the
files write is known without the load wherever they write it plainly and alike in the
documents of one file (`PlainNamesAreKnown`, `NamesArePlain`); and whatever name the load
comes to that is not the directory's, some document writes (`NameIsWritten`), which is
what `down` asks about.
`OnePortAlwaysInTwoForms`, of any entry a file may write (`WrittenShort`, `WrittenLong`,
which contain every one the run asks about): the faults the long form looks for key by
key and those of the spec it is assembled into are together the short form's. The proof
did not go through until `HasAShortForm` left out a `published` written as a float,
which is refused as the word it is (`portFloats`) while its number may be written short;
no question of the run had one.
`WalksAlwaysInOrder`, of any services, dependencies, profiles and commands, rests on
`OrderInv`: the walk under way is one (`WalkOf`), nothing asked before it was a fault and
no walk before it found a cycle. In `WalkOf` the stack goes down, each service in it
below all that come before it, so that to come back to one of them is a cycle; and what
has been placed has all it depends on placed before it, or, where the order passes over
an edge, on a cycle with it (`WalkVisits`, `WalkPlaces`). A walk that ends having found
none has put all it reads in an order that leaves no room for a cycle
(`OrderLeavesNoCycle`), which is the "for no other cause" of a refusal; the rest is that
a named service carries into what is read all that a check of it can find
(`NamedFaultIsCause`). For this the order was written as steps of a walk with its stack
in the open where the code recurses, which is also closer to it than a function of the
whole graph.

`WordsAndGroupsAlwaysHandedOver`, of any service and image: each way an entrypoint and a
command may be there, emptied or led by an empty word is a case, and in each the process
the runtime starts of the line is the one docker starts. It is what `RunsAsWritten` asks
beside the fingerprint, which is not true of every value (section 6) and so is not
proved. The proof did not go through until an entrypoint of one empty word without a
command was kept apart from the one with: the arms of `RunWords` overlapped there, which
TLC decides by their order and the definition does not.

`BorrowsAlwaysAsWritten`, of any file, mounts and order of the services, rests on
`WalkWell`: the stack is a path of services each of which borrows of the next; whoever is
not done still has what it wrote; whoever is on the stack has gathered, path by path, what
the last of the holders behind it lends there, and whoever is done had done so with all of
its holders (`Gathered`, `IsFolded`). What is gathered stays right because a service that
is done does not change (`GatheredStays`), and a holder that is not done when it is
borrowed of is on the stack, so that a cycle runs through it (`StillWalkedIsACycle`). That
a holder's anonymous volumes are not put off (`PutsOff`) is what makes the last named mount
the last one (`LastIsNamed`) for whoever borrows of it in turn.

The type invariants (`ClaimTypeOK`, `TypeOK`, `WatchTypeOK`, and the `TypeOK` of
`BringUp` by `BringUpTypeCorrect`) are proved, and no run spends itself on them.

**Model-checked only**: the liveness properties (fairness and ENABLED are beyond
the prover); `AdaptationsAreWhole` of `side`; and five of `ComposeFiles`:
`FilesAreLaidOver`, `NameIsOnlyAName`, `VariablesReadOneWay`, `FormsSayTheSame` and
`RunsAsWritten`. Of an
adaptation what is written is the outcome of walks over the mounts of a project, each
step of which depends on the ones before it, and the answers of the algorithms are
recursive (`FileLayers`, `EnvLayers`, `EntryForms` and
what extends them): both are inductions over data, which this prover cannot do. Of
`FormsSayTheSame` the ports, and of `RunsAsWritten` the words and the groups, are proved
of every input though not of the machine that asks about them.

## 5. What is left out of these models

The text of messages and logs; the order of map iteration (any order is
allowed); the pid's digits and start-time strings (a pid is the process, dead
and reused or not); errors of the file system other than those the code acts on
(a marker that cannot be written is modelled, a full disk under the pid file is
not); the compose file changing between commands, except as what is watched and
in `HostPorts`. Whether a name's *foreign* container runs is not modelled in the
supervision, so neither is what a start or a stop by name does to it there. That a
pid may be reused between a look and a signal is not either: no call closes that
window.

In `BringUp`: the refusals of a project before anything is touched (they are in
the algorithms), orphans, dry runs; health dependencies that are optional
(waited for, then passed over); what a prepared mount or volume holds;
`verifyStarted`, which reports on services after they are up and changes
nothing. A second Ctrl-C ends the process in the middle of the rollback, and
nothing is claimed of what it leaves.

In the algorithms: characters. A name, a path, a word or a number is a member of a
small set, so how a line of an env file is cut at its quotes, how `${...}` nests and
how a name is sanitised are not there, nor anchors, nor the line numbers refusals
quote. Keys of a service that no module names (`build`, `deploy`, units of memory and
CPU, `develop`, `logging`), `config`'s printing, `doctor`, `mcp`, statistics, the
repository's own tools other than `cmd/mutate`, and the runtime adapter's parsing of
the output of `container` are not modelled: they are passes over text whose result is
their wording, or one call with no state behind it.

Three windows are in the models and no property is stated of them. `down` takes no
lock where the state directory does not exist yet (`HoldNothing`), so it can
signal the supervisor a first `up` is waiting for: with `FirstUse = TRUE`
`AwaitedChildNotSignalled` is false. And `up` waits for the claim, not for the
record written after it (`main.go:2445`), so an `up` close on another's heels can
replace a supervisor without what that one watched. After Ctrl-C `up` asks about the
interruption before it reads the refusal of a taken name (`NameTakenUnread`), and
the rollback then removes another's container.

## 6. Findings

Each is a run TLC refutes, with the line of the repository that says otherwise in
`PROJECT.json`.

1. `destroy_stale_plan`: whether destroy stops a supervisor is decided when its
   plan is made, before the confirmation and the lock; an `up` in between leaves
   a supervisor whose pid file destroy then removes (`DestroyLosesNobody`).
2. `two_locks`: destroy unlinks the lock file it holds; a command that had it
   open and one that makes a new one then both hold "the" lock (`UpsNeverOverlap`).
3. `named_elsewhere`: `down -f ../there/compose.yaml`, of a file that cannot be
   read, takes the project's name from the working directory's `.env`, which the
   load would not have read, and takes that project down (`TakesDownItsOwn`).

### Known divergences

Met while modelling; the models have them and the properties are stated beside them.

*Processes and the runtime*
- The supervisor starts a container on a marker it read before the `stop` that is
  now complete (`supervise_run.go:227`); `StopStands` speaks of stops it had seen.
- A refused `kill` clears the marker of a `stop` of the same service written after
  it looked for one (`orchestrator.go:8822`), and where it had found one it writes it
  again and leaves it, though a `start` cleared it in between
  (`orchestrator.go:8818-8823`).
- `logs --follow`: while `restart` is under way "the gap is not counted
  at all, however long it lasts" (`orchestrator.go:7604-7605`), but the marker is read after the look: two `restart`s
  that each end between a look's answer and that read, `Settle` apart, cut a stream
  that is not over (`orchestrator.go:7676-7685`). `StreamsEndWhole` leaves out a
  stream that was looked at so twice.
- The networks are made before the rollback is registered, so an `up` whose second
  network is refused leaves the first (`orchestrator.go:2446`). A rollback does not look
  whether the networks it deletes are gone: one that would not go stays with the
  runtime adapter's warning, or with none where the refusal reads as a missing network
  (`runtime.go:589-606`, documented there).
- An `up` of an edited file may move or refuse ports its own running containers hold
  until they are recreated (`orchestrator.go:3757-3782`); `SecondUpMovesNothing` is of
  a file that has not changed.
- A published port "is kept, so a second `up` does not move the port"
  (`orchestrator.go:3366-3368`), but two entries of one service that publish one
  container port, at least one of them opossum's to place, are told apart by that port
  alone when the container is read back, and may swap host ports on the second `up`.
  `SecondUpMovesNothing` leaves such files out (`SharesNoPort`).
- Teardown looks at a label and deletes by name: what another hand puts under the
  name between the two goes (`destroy.go:132-134`); `TakesItsOwn` leaves such names out.
- A destroy that keeps the directory of a supervisor that may still be running, a line of
  the plan it showed, says so as it goes and has no error (a test has it so), though "the
  error says what is known to be left afterwards" (`destroy.go:436`) and "Removed everything
  opossum created" is printed then (`main.go:937`). `DestroyTellsTheTruth` sets that
  directory apart, and `SupervisorStaysFindable` asks that it is there.
- A second `run` of a service clears the first's one-off while it lives
  (`orchestrator.go:8397`).
- A restart is skipped where the same batch's rebuild of that service failed, and
  files in a directory made after `watch` began are not copied until it is watched
  (`watch.go:163-165`).
- `cmd/mutate`: after a restore that failed, an interrupt may end the sweep before
  its report (`main.go:294-303`); an interrupt before the worktree's cleanup is
  registered leaves an empty directory, one after main has stopped waiting cuts the
  cleanup; an edit between the read and the write of a mutation is lost, and one over
  a write that could not be confirmed is overwritten.

*Files*
- A service whose name holds a dot gets rules of a key it does not have: the parent of
  a dotted path is cut at the last dot (`load.go:551`). `NameIsOnlyAName` leaves such
  names out.
- A bare name in `environment:` that nothing sets hides an env file's value from the
  service and not from the later lines that refer to it.
- The fingerprint is a flat stream of words: a list's word that equals a tag makes two
  configurations one (`entrypoint: ["x", "init"]` and `["x"]` with `init: true`), and a
  config's inline text is not in it.
- `CheckNetworkKeys` does not look at an external network whose real name is the name
  derived from another key.
- A holder behind a profile that is off is borrowed from all the same where the
  dependency is `required: false` (documented).
- A `.env` in the working directory that sets COMPOSE_PROJECT_NAME to nothing hides
  the other place from the load and not from `down`'s guess (`main.go:2835-2844`).
  `down` stops the supervisor of the project its directory names before the file names
  another (documented, `main.go:2807-2810`). A later document that empties `name:` is
  not refused by `up`, which looks at the first one.
- A long-form `host_ip: "[::1]"` passes its own check, is bracketed again and refused
  (`types.go:1808-1835`). Ports are compared as text (`load.go:1452-1463`,
  `load.go:2349-2354`): a zero in front (`08080:80`) is kept, and a long-form
  `published: "8080-8080"` stays a range, so beside `8080:80` each is a second entry of
  the port, where "two entries are the same published port when they name the same
  host port, container port and protocol" (`load.go:1439-1441`). `FormsSayTheSame` asks that one port be there twice only where
  its digits are written in two ways. `test: NONE` as one text switches a healthcheck off,
  where a bare string is said to run through a shell (`types.go:4366-4380`). A long-form
  mount with `source: ""` is an anonymous volume (documented in
  `docs/compatibility.md`).
- Adapting: once the record of written keys is lost, an entry the user took out is put
  back, and the next observed entry starts a new record; a mount moved because a
  container died on it gets its PGDATA only in the next run (`adapt.go:840`); replacing
  the overlay writes over an edit made since it was read, and is not under the project
  lock.

## 7. Plan

Written: the modules above. What is left, in the order of what it would add:

1. The recursive algorithms as walks with their stack in the open, as the order of
   `StartupOrder` and the borrowing of `SharedMounts` are (`FileLayers` first): then their
   answers can be proved.
2. The keys of a service not read yet (`build`, `deploy`, units), if a property is
   found that relates two of them.
3. The composition of `BringUp` with `HostPorts` and of `Teardown` with
   `ProjectLifecycle`, in place of one step of each.
