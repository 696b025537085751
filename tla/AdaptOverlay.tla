---------------------------- MODULE AdaptOverlay ----------------------------
(* `up --from-docker-compose`: what a project needs to run on this runtime is *)
(* planned from the resolved project and written as compose.opossum.yaml, a   *)
(* file that is then the user's to edit; later runs add to its end.           *)
EXTENDS Naturals, Sequences, SequencesExt, FiniteSets, FiniteSetsExt

CONSTANTS
  AdaptProjects,   \* what the compose files may say: service -> its record
  AdaptOrder,      \* the services, by name
  Keeps, Declares, \* image -> where its cluster is; what asking it for PGDATA comes to
  OwnDir,          \* image -> the data directory it is known to own, or NoPath
  MaxHappenings    \* edits, deaths, destroys
VARIABLES
  compose,    \* the compose files
  overlay,    \* compose.opossum.yaml
  writtenKeys,    \* overlay-entries.json: the keys of what was put in, or Unread
  chownFailures,  \* chown-failures.json
  holding,    \* the host directories that hold something
  adapt,      \* the run under way
  takenOut,   \* keys, of those remembered, whose entries the user took out
  edited,     \* services whose entries the user ever took out
  settled,    \* nothing has happened since a run over every service began and wrote its file
  happened
adaptVars == <<compose, overlay, writtenKeys, chownFailures, holding, adapt, takenOut, edited, settled, happened>>

NoPath == <<>>
DataDir == <<"pg", "data">>
SubDir == DataDir \o <<"pgdata">>
NoVol == <<>>
NotGiven == <<"unset">>    \* PGDATA: not given, or passed in by its name alone
PassedIn == <<"bare">>
Unread == {<<"unread">>}
NoOverlay == [by |-> "nobody", entries |-> <<>>]
NoRun == [at |-> "idle", entries |-> <<>>, text |-> <<>>, whole |-> FALSE]
Adapting == ToSet(AdaptOrder)
HostMount(m) == m.src.is \in {"host", "linux", "stand"}
VolumeMount(m) == m.src.is \in {"volume", "external"}
MountsIn(svc) == ToSet(svc.mounts)

-----------------------------------------------------------------------------
(* The project as the loader merges it: the overlay last.                  *)

\* An entry on what the files say: a mount by its target, PGDATA, the image, the platform.
WithEntry(svc, e) ==
  CASE e.block = "volumes" ->
         [svc EXCEPT !.mounts = [i \in DOMAIN @ |->
            IF @[i].at = e.at
            THEN [@[i] EXCEPT !.src = IF e.vol = NoVol THEN [is |-> "stand", name |-> [base |-> <<e.svc>>, n |-> 0]]
                                      ELSE [is |-> "volume", name |-> e.vol]]
            ELSE @[i]]]
    [] e.block = "environment" -> [svc EXCEPT !.pgdata = SubDir]
    [] e.block = "image" -> [svc EXCEPT !.image = "ghcr"]
    [] OTHER -> [svc EXCEPT !.platform = "amd64"]
Merged(entries) ==
  [s \in Adapting |-> FoldLeft(WithEntry, compose[s], SelectSeq(entries, LAMBDA e : e.svc = s))]

-----------------------------------------------------------------------------
(* The plan.                                                               *)

Change(s, code, block, at, class, vol) ==
  [svc |-> s, code |-> code, block |-> block, at |-> at, class |-> class, vol |-> vol, observed |-> FALSE]
KeyOf(e) == <<e.svc, e.code, e.block, e.at>>
ReadBy(p, s, named) == ~p[s].gated \/ s \in named
BuiltBySibling(p, s) == \E o \in Adapting \ {s} : p[o].builds /\ p[o].image = p[s].image
NotReadOnly(m) == ~m.ro
PathLeaf(path) == path[Len(path)]
\* freeVolumeName: the plain name, or the first number that makes it free.
FreeVolumeName(p, base, claimed) ==
  LET used == {m.src.name : m \in {x \in UNION {MountsIn(p[s]) : s \in Adapting} : VolumeMount(x)}}
      named(i) == [base |-> base, n |-> i]
      bound == Cardinality(claimed \cup used) + 1
  IN named(Min({i \in 1 .. bound : named(i) \notin claimed \cup used}))

\* Where the cluster goes, as far as can be read: PGDATA where the service gives it a
\* value, else what the image declares, else what images did through 17.
ClusterDir(svc) ==
  LET said == Declares[svc.image]
      image == IF said.source = "read" THEN said ELSE [said EXCEPT !.path = DataDir]
  IN IF svc.pgdata \in {NotGiven, PassedIn} THEN image ELSE [source |-> "read", path |-> svc.pgdata]
IsPostgres(svc) == OwnDir[svc.image] = DataDir
SwapHelps(svc, at) ==
  LET d == ClusterDir(svc)
  IN at = OwnDir[svc.image]
     /\ ~(IsPostgres(svc) /\ d.source = "read" /\ IsStrictPrefix(at, d.path))
NeedsPGDATA(svc, at) ==
  LET d == ClusterDir(svc) IN IsPostgres(svc) /\ d.source = "read" /\ ~IsPrefix(at, d.path)

\* adaptPGDATA
NamedOrBecoming(m, becomes) == (m.src.is = "volume") \/ (HostMount(m) /\ becomes)
PGDATAFits(svc, becomes) ==
  /\ svc.pgdata = NotGiven
  /\ ~\E m \in MountsIn(svc) : IsStrictPrefix(DataDir, m.at)
  /\ \E m \in MountsIn(svc) : m.at = DataDir /\ IsPostgres(svc) /\ NotReadOnly(m) /\ NamedOrBecoming(m, becomes)
SharedDir(p, s, src) == {o \in Adapting \ {s} : \E m \in MountsIn(p[o]) : m.src = src}

\* adaptBindMountedDataDir: mount by mount, in the file's order.
MountsMoved(p, s, claimed) ==
  LET svc == p[s]
      swap(acc, m) ==
        IF ~HostMount(m) \/ ~SwapHelps(svc, m.at) \/ ~NotReadOnly(m) \/ ~svc.server THEN acc
        ELSE IF NeedsPGDATA(svc, m.at) /\ ~PGDATAFits(svc, TRUE)
        THEN [acc EXCEPT !.out = Append(@, Change(s, "half", "", m.at, "note", NoVol))]
        ELSE IF SharedDir(p, s, m.src) # {} THEN acc
        ELSE LET vol == FreeVolumeName(p, <<s, IF acc.out = <<>> THEN "data" ELSE PathLeaf(m.at)>>, acc.claimed)
             IN [out |-> Append(acc.out, Change(s, "datadir", "volumes", m.at, "applied", vol)),
                 claimed |-> acc.claimed \cup {vol}, postgres |-> acc.postgres \/ m.at = DataDir]
  IN FoldLeft(swap, [out |-> <<>>, claimed |-> claimed, postgres |-> FALSE], svc.mounts)
\* Mutation: PGDATA is decided from the files alone, and the mount just moved is not counted.
PGDATAEntryAsBound(s, svc, becomes) ==
  IF PGDATAFits(svc, FALSE) THEN <<Change(s, "pgdata", "environment", SubDir, "applied", NoVol)>> ELSE <<>>
PGDATAEntry(s, svc, becomes) ==
  IF PGDATAFits(svc, becomes) THEN <<Change(s, "pgdata", "environment", SubDir, "applied", NoVol)>> ELSE <<>>

\* What the names alone decide: the registry that is not pulled from, a file only a
\* Linux host has, an image of one foreign build (asked only where the plan is to be
\* acted on, and of the services the run starts).
AdaptRegistryName(p, s) ==
  IF p[s].image = "lscr" /\ ~p[s].builds /\ ~BuiltBySibling(p, s)
  THEN <<Change(s, "registry", "image", NoPath, "applied", NoVol)>> ELSE <<>>
AdaptMissingHostFiles(p, s) ==
  LET stands == SelectSeq(p[s].mounts, LAMBDA m : m.src.is = "linux" /\ m.ro)
  IN [i \in DOMAIN stands |-> Change(s, "stand-in", "volumes", stands[i].at, "applied", NoVol)]
AdaptAmd64OnlyImage(p, s, asks) ==
  IF asks /\ p[s].image = "amd64 only" /\ ~p[s].builds /\ p[s].platform = "unset" /\ ~BuiltBySibling(p, s)
  THEN <<Change(s, "platform", "platform", NoPath, "applied", NoVol)>> ELSE <<>>
ByPath(p, s, asks) ==
  AdaptRegistryName(p, s) \o AdaptMissingHostFiles(p, s) \o AdaptAmd64OnlyImage(p, s, asks)
\* adaptService: nothing is decided from an environment that cannot be read.
AdaptService(p, s, asks, acc) ==
  LET swaps == MountsMoved(p, s, acc.claimed)
  IN IF p[s].envReadable
     THEN [plans |-> acc.plans \o ByPath(p, s, asks) \o swaps.out \o PGDATAEntry(s, p[s], swaps.postgres),
           claimed |-> swaps.claimed]
     ELSE [acc EXCEPT !.plans = @ \o ByPath(p, s, asks)]

\* suggestSharedVolumeFix
SharedVolumes(p, names) ==
  LET users(v) == {s \in ToSet(names) : \E m \in MountsIn(p[s]) : m.src = v}
      vols == {m.src : m \in {x \in UNION {MountsIn(p[s]) : s \in ToSet(names)} : x.src.is = "volume"}}
      shared == {v \in vols : Cardinality(users(v)) > 1}
  IN SetToSeq(UNION {{Change(s, "shared", "volumes", v.name.base, "suggestion", NoVol) : s \in users(v)} : v \in shared})

\* suggestObservedChownFailures, one record after the other.
AfterDeath(p, acc, f) ==
  LET bound == \E m \in MountsIn(p[f.svc]) : m.src = f.src /\ m.at = f.at /\ NotReadOnly(m) /\ HostMount(m)
      swapped == \E e \in ToSet(acc.plans) :
                    e.svc = f.svc /\ e.class = "applied" /\ e.block = "volumes" /\ e.at = f.at /\ e.vol # NoVol
      vol == FreeVolumeName(p, <<f.svc, PathLeaf(f.at)>>, acc.claimed)
      class == IF SharedDir(p, f.svc, f.src) = {} /\ f.src \notin holding THEN "applied" ELSE "suggestion"
      entry == [Change(f.svc, "datadir", "volumes", f.at, class, vol) EXCEPT !.observed = class = "applied"]
  IN IF ~bound \/ swapped THEN acc
     ELSE [plans |-> Append(acc.plans, entry), claimed |-> acc.claimed \cup {vol}]

PlanFor(p, named, pulls) ==
  LET names == SelectSeq(AdaptOrder, LAMBDA s : ReadBy(p, s, named))
      asks(s) == pulls /\ (named = {} \/ s \in named)
      each == FoldLeft(LAMBDA acc, s : AdaptService(p, s, asks(s), acc), [plans |-> <<>>, claimed |-> {}], names)
      died == SetToSeq(chownFailures)
  IN FoldLeft(LAMBDA acc, f : AfterDeath(p, acc, f),
              [each EXCEPT !.plans = @ \o SharedVolumes(p, names)], died).plans

-----------------------------------------------------------------------------
(* The run, and what else happens to the files.                            *)

AppliedOf(plans) == SelectSeq(plans, LAMBDA e : e.class = "applied")
\* PlanAppendixFor: what was put in before is not put in again; where that is not
\* known, only what a container's death showed is new for certain.
IsNew(e) == IF writtenKeys = Unread THEN e.observed ELSE KeyOf(e) \notin writtenKeys
Appendix(plans) == SelectSeq(AppliedOf(plans), IsNew)
HasActionable(plans) == \E e \in ToSet(plans) : e.class # "note"

\* adaptProject up to the first write: -f and --dry-run write nothing, a file that is
\* not opossum's or is a link is left alone, notes alone make no file.
Looks(mode, named, answered) ==
  /\ adapt.at = "idle"
  /\ LET p == Merged(overlay.entries)
         plans == PlanFor(p, named, answered /\ mode = "run" /\ overlay.by = "nobody")
         run(at, entries) == [at |-> at, entries |-> entries, text |-> overlay.entries,
                              whole |-> /\ \A s \in Adapting : ReadBy(p, s, named)
                                       /\ \A e \in ToSet(entries) : ~e.observed]
     IN adapt' = CASE mode = "run" /\ overlay.by = "nobody" /\ HasActionable(plans) -> run("link", AppliedOf(plans))
                   [] mode = "run" /\ overlay.by = "opossum" /\ Appendix(plans) # <<>> -> run("rename", Appendix(plans))
                   [] OTHER -> NoRun
  /\ settled' = FALSE
  /\ UNCHANGED <<compose, overlay, writtenKeys, chownFailures, holding, takenOut, edited, happened>>

\* writeOverlay links a checked file into place; the name must still be free.
LinksOverlay ==
  /\ adapt.at = "link" /\ overlay.by = "nobody"
  /\ overlay' = [by |-> "opossum", entries |-> adapt.entries]
  /\ takenOut' = takenOut \ {KeyOf(e) : e \in ToSet(adapt.entries)}
  /\ adapt' = [adapt EXCEPT !.at = "record"]
  /\ UNCHANGED <<compose, writtenKeys, chownFailures, holding, edited, settled, happened>>
\* replaceOverlay renames what it read and the addition over whatever is there now: an
\* edit made since is overwritten.
ReplacesOverlay ==
  /\ adapt.at = "rename"
  /\ overlay' = [by |-> "opossum", entries |-> adapt.text \o adapt.entries]
  /\ takenOut' = takenOut \ {KeyOf(e) : e \in ToSet(adapt.text)}
  /\ adapt' = [adapt EXCEPT !.at = "record"]
  /\ UNCHANGED <<compose, writtenKeys, chownFailures, holding, edited, settled, happened>>
\* The directory refuses the file, it does not load, or the run is killed.
GivesUp ==
  /\ adapt.at # "idle"
  /\ adapt' = NoRun
  /\ UNCHANGED <<compose, overlay, writtenKeys, chownFailures, holding, takenOut, edited, settled, happened>>
\* RecordWrittenKeys: what was read, or nothing, and the new ones.
RecordsKeys ==
  /\ adapt.at = "record"
  /\ writtenKeys' = (IF writtenKeys = Unread THEN {} ELSE writtenKeys) \cup {KeyOf(e) : e \in ToSet(adapt.entries)}
  /\ settled' = adapt.whole
  /\ adapt' = NoRun
  /\ UNCHANGED <<compose, overlay, chownFailures, holding, takenOut, edited, happened>>

SomethingElse ==
  /\ happened < MaxHappenings /\ happened' = happened + 1
  /\ settled' = FALSE /\ adapt' = [adapt EXCEPT !.whole = FALSE]
  /\ UNCHANGED <<compose, holding>>
\* The user takes an entry out of the file, replaces it, makes it a link, or removes it.
TakesOut ==
  /\ SomethingElse
  /\ overlay.by \in {"opossum", "link"}
  /\ \E i \in DOMAIN overlay.entries :
       /\ overlay' = [overlay EXCEPT !.entries = RemoveAt(@, i)]
       /\ takenOut' = takenOut \cup ({KeyOf(overlay.entries[i])} \cap writtenKeys)
       /\ edited' = edited \cup {overlay.entries[i].svc}
  /\ UNCHANGED <<writtenKeys, chownFailures>>
WritesOwn ==
  /\ SomethingElse
  /\ overlay' \in {NoOverlay, [by |-> "user", entries |-> <<>>], [overlay EXCEPT !.by = "link"]}
  /\ overlay' # overlay /\ (overlay'.by = "link" => overlay.by = "opossum")
  /\ takenOut' = IF overlay'.by = "link" THEN takenOut ELSE {}
  /\ UNCHANGED <<writtenKeys, chownFailures, edited>>
\* `destroy` takes .opossum, and with it both records; --keep-overlay leaves the file.
TakesRecords(keepOverlay) ==
  /\ SomethingElse
  /\ writtenKeys' = Unread /\ chownFailures' = {}
  /\ overlay' = IF keepOverlay \/ overlay.by = "user" THEN overlay ELSE NoOverlay
  /\ takenOut' = {}
  /\ UNCHANGED edited

\* blamedMount: the bind a chown failure is about, where only one can be meant; the
\* log names a path, says `.` (the directory the image starts in), or is of no use.
BlamedMount(svc, log, workdir) ==
  LET rivals == {m \in MountsIn(svc) : ~HostMount(m)}
      binds == {m \in MountsIn(svc) : HostMount(m) /\ NotReadOnly(m)}
      path == IF log = <<".">> THEN workdir ELSE log
      holds == {m \in binds : path # NoPath /\ IsPrefix(m.at, path)}
      named == log \notin {<<".">>, NoPath}
  IN CASE Cardinality(holds) = 1 -> holds
       [] holds = {} /\ ~named /\ Cardinality(binds) = 1 /\ rivals = {} -> binds
       [] OTHER -> {}
ContainerDies(s, log, workdir) ==
  /\ SomethingElse
  /\ chownFailures' = chownFailures \cup {[svc |-> s, src |-> m.src, at |-> m.at] :
                              m \in BlamedMount(Merged(overlay.entries)[s], log, workdir)}
  /\ chownFailures' # chownFailures
  /\ UNCHANGED <<overlay, writtenKeys, takenOut, edited>>

AdaptInit ==
  /\ compose \in AdaptProjects
  /\ holding \in SUBSET {m.src : m \in {x \in UNION {MountsIn(compose[s]) : s \in Adapting} : HostMount(x)}}
  /\ overlay = NoOverlay /\ writtenKeys = Unread /\ chownFailures = {} /\ adapt = NoRun
  /\ takenOut = {} /\ edited = {} /\ settled = FALSE /\ happened = 0

AdaptNext ==
  \/ \E mode \in {"run", "dry"}, named \in SUBSET Adapting, answered \in BOOLEAN :
       Looks(mode, named, answered)
  \/ LinksOverlay \/ ReplacesOverlay \/ GivesUp \/ RecordsKeys
  \/ TakesOut \/ WritesOwn \/ \E k \in BOOLEAN : TakesRecords(k)
  \/ \E s \in Adapting : \E log \in {m.at : m \in MountsIn(compose[s])} \cup {<<".">>, NoPath},
                            workdir \in {NoPath, DataDir} : ContainerDies(s, log, workdir)
AdaptSpec == AdaptInit /\ [][AdaptNext]_adaptVars

-----------------------------------------------------------------------------
\* After a run over every service that wrote its file, a second one finds nothing to
\* add: no change needs another that was left out. (A mount moved because a container
\* died on it is moved alone: the PGDATA that goes with it is what a second run adds.)
SecondLookAddsNothing ==
  settled => Appendix(PlanFor(Merged(overlay.entries), Adapting, FALSE)) = <<>>

\* A database whose data directory was moved to a volume keeps its cluster in it,
\* wherever its image keeps it, if the image could be asked and the service does not
\* take PGDATA from the environment.
ClustersAreHeld ==
  \A e \in ToSet(overlay.entries) :
    LET svc == Merged(overlay.entries)[e.svc]
        cluster == IF svc.pgdata = NotGiven THEN Keeps[svc.image] ELSE svc.pgdata
    IN /\ e.block = "volumes" /\ e.at = DataDir /\ IsPostgres(svc) /\ svc.pgdata # PassedIn
       /\ Declares[svc.image].source # "unreachable" /\ ~e.observed
       /\ e.svc \notin edited
       => IsPrefix(DataDir, cluster)

\* A volume the overlay brings in is mounted in one place, and is not one the compose
\* files name.
VolumesAreOnesOwn ==
  \A e \in {x \in ToSet(overlay.entries) : x.vol # NoVol} :
    /\ \A f \in ToSet(overlay.entries) \ {e} : f.vol # e.vol
    /\ \A s \in Adapting : \A m \in MountsIn(compose[s]) : m.src # [is |-> "volume", name |-> e.vol]

\* An entry that is remembered and no longer in the file was taken out by someone,
\* and finding it again does not put it back (RecordWrittenKeys).
TakenOutStaysOut == \A e \in ToSet(overlay.entries) : KeyOf(e) \notin takenOut

\* What is written is the whole of a fix, and nothing but it; what was taken out
\* stays out (adaptService, PlanAppendixFor: the four definitions above).
AdaptationsAreWhole == SecondLookAddsNothing /\ ClustersAreHeld /\ VolumesAreOnesOwn /\ TakenOutStaysOut
=============================================================================
