------------------------------ MODULE Teardown ------------------------------
(***************************************************************************)
(* What `down` and `destroy` remove (Down in internal/orchestrator/        *)
(* orchestrator.go, DestroyPlanFor and Destroy in destroy.go), one call to *)
(* the runtime at a time.  The lock, and how they stop the supervisor, are *)
(* in ProjectLifecycle; here it is gone then, or left.  A command is a     *)
(* list of tasks; a look may put more at its head.  A container is stopped *)
(* and deleted in one step: a stop takes nothing away that the forced      *)
(* delete would not.                                                       *)
(***************************************************************************)
EXTENDS Naturals, FiniteSets, Sequences, SequencesExt

CONSTANTS
  Order,        \* the services of the file, dependencies first
  Renamed,      \* services an earlier version of the file had
  NetDecl,      \* declared networks: key -> [external, name]
  Mounts,       \* the volumes each service mounts, by their runtime names
  ExternalVols, \* those declared external
  VolNames,     \* `name:`s of the volumes declared otherwise
  Prefixed,     \* volumes whose name starts with the project's
  ImageOf,      \* service -> [image, build]
  Commands,     \* the commands that may be given
  Worlds,       \* and what there may be when they are
  MayGoDeaf,    \* the runtime may leave a question unanswered
  MayStay,      \* a removal may leave the thing, a stop the supervisor
  MaxTrouble    \* how often either happens, or another hand takes a name or frees it

Services == ToSet(Order)

\* Names are tuples, the empty one for none.
None == <<>>
Name(s)    == <<s, "up">>
RunName(s) == <<s, "run">>
Names      == (Services \cup Renamed) \X {"up", "run"}
Expected   == Services \X {"up", "run"}

VARIABLES
  command, box, net, vol, img, disk,
  todo,         \* the tasks left, in order
  shown,        \* destroy: the plan, as shown
  agreed,       \* and whether the user said yes to it
  supervisorLeft,  \* asked to stop, and not known to be gone
  said,         \* what the command's error names: [kind, on]
  before,       \* the world it found
  hands,        \* names other hands touched while it ran
  stayed,       \* things a removal left, for the runtime's own reasons
  deaf          \* things a question about which went unanswered

tdWorld == <<box, net, vol, img, disk>>
tdSeen  == <<before, hands, stayed, deaf>>
tdVars  == <<command, tdWorld, todo, shown, agreed, supervisorLeft, said, tdSeen>>

Thing(kind, on) == [kind |-> kind, on |-> on]
Task(do, kind, on) == [do |-> do, thing |-> Thing(kind, on)]
SupervisorDir == Thing("path", <<"supervisor">>)
Each(do, kind, names) == [i \in DOMAIN names |-> Task(do, kind, names[i])]
Pending(do) == todo # <<>> /\ Head(todo).do = do
This == Head(todo).thing

InName(S) == SetToSeq(S)

-----------------------------------------------------------------------------
(* What is this project's.                                                 *)

\* Mutation: a container without a label is taken for the project's.
MayTakeBare(owner) == owner # "other"

\* ownerOf: a name nobody has is nobody's to be robbed of.
MayTake(owner) == owner \in {"nobody", "ours"}

\* orphans: by label, under a name no service has.
Orphans(boxes) == {n \in Names \ Expected : boxes[n] = "ours"}

Folded(k) == <<"project", k>>
DefaultNet == Folded("")

\* declaredNetworks: by the key, the ones with a `name:` included: an earlier
\* version made those under the key.
Declared == {Folded(k) : k \in {k \in DOMAIN NetDecl : ~NetDecl[k].external}}

NetworkOwnNames ==
  {NetDecl[k].name : k \in {k \in DOMAIN NetDecl :
     ~NetDecl[k].external /\ NetDecl[k].name # None}}

\* namedNetworks: only with this project's label, and only if it can be read.
NamedNetworks(nets, unread) ==
  {n \in NetworkOwnNames : n \notin unread /\ nets[n] = "ours"}

ProjectNetworks(nets, unread) ==
  <<DefaultNet>> \o InName(Declared \ {DefaultNet})
                 \o InName(NamedNetworks(nets, unread))

NamedVolumes == (UNION {Mounts[s] : s \in Services}) \ ExternalVols

StrandedVolumes(listed, planned) ==
  {v \in listed \ (planned \cup ExternalVols) : v \in Prefixed \cup VolNames}

BuiltName(s) == <<"built", s>>

ServiceImage(s) ==
  IF ImageOf[s].image = None /\ ImageOf[s].build THEN BuiltName(s)
                                               ELSE ImageOf[s].image

FormerBuiltImage(s) ==
  IF ImageOf[s].build /\ ImageOf[s].image # None THEN BuiltName(s) ELSE None

\* Labels opossum's build sets, and the one docker compose's does.
BuiltHere(labels) ==
  IF labels.project # "" \/ labels.service # ""
  THEN labels.project = "ours" /\ labels.service = "ours"
  ELSE labels.compose = "ours"

\* removeImages, of one service; label reads may go unanswered.
ImagesToRemove(s, all, there, labels, unread) ==
  LET ref == ServiceImage(s)
      former == {FormerBuiltImage(s)} \cap (there \ unread)
      named == IF all THEN {ref}
               ELSE {r \in {ref} : /\ ImageOf[s].build
                                   /\ \/ r = BuiltName(s)
                                      \/ /\ r \in there \ unread
                                         /\ BuiltHere(labels[r])}
  IN (former \cup named) \ {None}

\* destroyPaths and the looks at each: what is on disk that opossum wrote.
PathsToRemove(files, keepLocal, keepOverlay) ==
  {p \in DOMAIN files :
     /\ files[p] = "opossum"
     /\ p = <<"overlay">> => ~keepOverlay
     /\ p # <<"supervisor">> => ~keepLocal}

ImageNames == (UNION {{ServiceImage(s), FormerBuiltImage(s)} : s \in Services}) \ {None}
NetNames == Declared \cup {DefaultNet} \cup NetworkOwnNames

\* A file is finite, and what has a name folded from the project's is not
\* another's.
ASSUME TeardownAssumption ==
  /\ Order \in Seq(Services) /\ IsFiniteSet(Names)
  /\ IsFiniteSet(NetNames) /\ IsFiniteSet(NamedVolumes) /\ IsFiniteSet(ImageNames)
  /\ \A w \in Worlds :
       /\ w.box \in [Names -> {"nobody", "ours", "other", "bare"}]
       /\ NetNames \subseteq DOMAIN w.net
       /\ w.net \in [DOMAIN w.net -> {"none", "ours", "others"}]
       /\ \A n \in Declared \cup {DefaultNet} : w.net[n] # "others"
       /\ ImageNames \subseteq DOMAIN w.img
       /\ \A i \in DOMAIN w.img : DOMAIN w.img[i] = {"there", "labels"} /\ w.img[i].there \in BOOLEAN
       /\ w.disk \in [DOMAIN w.disk -> {"none", "opossum", "user"}] /\ IsFiniteSet(DOMAIN w.disk)
       /\ <<"supervisor">> \in DOMAIN w.disk
       /\ \A v \in Worlds : DOMAIN w.disk = DOMAIN v.disk

-----------------------------------------------------------------------------
(* The commands.                                                           *)

\* One for the container of each service and one for that of its `run`, in order.
ContainerTasks(do, order) ==
  [i \in 1..(2 * Len(order)) |->
     LET s == order[(i + 1) \div 2]
     IN Task(do, "container", IF i % 2 = 1 THEN Name(s) ELSE RunName(s))]
OrphanTasks == IF command.orphans THEN <<Task("orphans", "", None)>> ELSE <<>>
NetworkTasks == <<Task("networks", "", None)>>
StoreTasks ==
  (IF command.volumes THEN Each("drop", "volume", InName(NamedVolumes)) ELSE <<>>)
  \o (IF command.rmi = "no" THEN <<>>
      ELSE [i \in DOMAIN Order |-> Task("images", "service", Order[i])])

DownTasks ==
  ContainerTasks("ask", Reverse(Order)) \o OrphanTasks \o NetworkTasks \o StoreTasks

PlanTasks ==
  ContainerTasks("plan", Order)
  \o <<Task("planOrphans", "", None), Task("planNetworks", "", None)>>
  \o Each("plan", "volume", InName(NamedVolumes))
  \o (IF command.keepImages THEN <<>> ELSE Each("plan", "image", InName(ImageNames)))
  \o Each("plan", "path",
          InName(PathsToRemove(disk, command.keepLocal, command.keepOverlay)))
  \o <<Task("prompt", "", None)>>

Begins ==
  /\ Pending("begin")
  /\ todo' = IF command.verb = "down" THEN DownTasks ELSE PlanTasks
  /\ UNCHANGED <<command, tdWorld, shown, agreed, supervisorLeft, said, tdSeen>>

\* The bound on what goes wrong in one run.
Calm == Len(hands) + Cardinality({S \in {<<"deaf", deaf>>, <<"stayed", stayed>>} : S[2] # {}})
          < MaxTrouble

MayBeDeaf == MayGoDeaf /\ deaf = {} /\ Calm
Silent(x) == deaf' = deaf \cup {x}
Done(more) == todo' = more \o Tail(todo)

\* Down's look at a container, and what it will do about it.
Asks ==
  /\ Pending("ask")
  /\ \/ /\ Done(IF MayTake(box[This.on])
                THEN <<Task("drop", "container", This.on)>> ELSE <<>>)
        /\ UNCHANGED <<said, deaf>>
     \/ /\ MayBeDeaf /\ Silent(This) /\ Done(<<>>)
        /\ said' = said \cup {This}
  /\ UNCHANGED <<command, tdWorld, shown, agreed, supervisorLeft, before, hands, stayed>>

\* List, unanswered, reads as no containers.
ListsOrphans ==
  /\ Pending("orphans")
  /\ \/ /\ Done(Each("drop", "container", InName(Orphans(box)))) /\ UNCHANGED deaf
     \/ /\ MayBeDeaf /\ Done(<<>>)
        /\ deaf' = deaf \cup {Thing("container", n) : n \in Names \ Expected}
  /\ UNCHANGED <<command, tdWorld, shown, agreed, supervisorLeft, said, before, hands, stayed>>

ListsNetworks ==
  /\ Pending("networks")
  /\ \E unread \in SUBSET NetworkOwnNames :
       /\ unread # {} => MayBeDeaf
       /\ deaf' = deaf \cup {Thing("network", n) : n \in unread}
       /\ Done(Each("drop", "network", ProjectNetworks(net, unread)))
  /\ UNCHANGED <<command, tdWorld, shown, agreed, supervisorLeft, said, before, hands, stayed>>

LooksAtImages ==
  /\ Pending("images")
  /\ LET there == {i \in DOMAIN img : img[i].there}
         labels == [i \in DOMAIN img |-> img[i].labels]
     IN \E unread \in SUBSET ({ServiceImage(This.on), FormerBuiltImage(This.on)} \cap there) :
          /\ unread # {} => MayBeDeaf
          /\ deaf' = deaf \cup {Thing("image", i) : i \in unread}
          /\ Done(Each("drop", "image",
               InName(ImagesToRemove(This.on, command.rmi = "all", there, labels, unread))))
  /\ UNCHANGED <<command, tdWorld, shown, agreed, supervisorLeft, said, before, hands, stayed>>

\* A container holds the project's network, and the volumes of its service.
HeldNet(n) == n = DefaultNet /\ \E b \in Names : box[b] = "ours"
HeldVol(v) == \E b \in Names :
  /\ box[b] = "ours"
  /\ b[1] \in Services => v \in Mounts[b[1]]
  /\ b[1] \in Renamed => v \in Prefixed \ NamedVolumes

Held(x) == CASE x.kind = "network" -> HeldNet(x.on)
             [] x.kind = "volume"  -> HeldVol(x.on)
             [] OTHER              -> FALSE

Gone(x) ==
  CASE x.kind = "container" -> box[x.on] = "nobody"
    [] x.kind = "network"   -> net[x.on] = "none"
    [] x.kind = "volume"    -> x.on \notin vol
    [] x.kind = "image"     -> ~img[x.on].there
    [] x.kind = "path"      -> disk[x.on] = "none"

Removed(x) ==
  /\ box' = IF x.kind = "container" THEN [box EXCEPT ![x.on] = "nobody"] ELSE box
  /\ net' = IF x.kind = "network" THEN [net EXCEPT ![x.on] = "none"] ELSE net
  /\ vol' = IF x.kind = "volume" THEN vol \ {x.on} ELSE vol
  /\ img' = IF x.kind = "image" THEN [img EXCEPT ![x.on].there = FALSE] ELSE img
  /\ disk' = IF x.kind = "path" THEN [disk EXCEPT ![x.on] = "none"] ELSE disk

\* Mutation: the supervisor's directory goes with the rest.
NeverKept(x) == FALSE

\* The directory of a supervisor that may still be running stays, for its pid file
\* is how the next `down` finds it; a line of the log says so, and no error.
KeptForIt(x) == supervisorLeft /\ x = SupervisorDir

\* By name, whatever is under it by now; a path that would not go is said.
Drops ==
  /\ Pending("drop")
  /\ Done(<<>>)
  /\ \/ ~Held(This) /\ ~KeptForIt(This) /\ Removed(This) /\ UNCHANGED <<stayed, said>>
     \/ (Held(This) \/ KeptForIt(This)) /\ UNCHANGED <<tdWorld, stayed, said>>
     \/ /\ MayStay /\ stayed = {} /\ Calm /\ ~Gone(This) /\ ~KeptForIt(This)
        /\ stayed' = {This}
        /\ said' = IF This.kind = "path" THEN said \cup {This} ELSE said
        /\ UNCHANGED tdWorld
  /\ UNCHANGED <<command, shown, agreed, supervisorLeft, before, hands, deaf>>

-----------------------------------------------------------------------------
(* destroy: plan, prompt, removal, and a look at what is left.             *)

\* VolumeExists takes silence for yes, ImageExists and InspectLabel for no; a
\* path was looked at when the plan's tasks were listed.
Plans ==
  /\ Pending("plan") /\ Done(<<>>)
  /\ LET there == IF This.kind = "container" THEN box[This.on] = "ours" ELSE ~Gone(This)
         taken(yes) == shown' = IF yes THEN Append(shown, This) ELSE shown
     IN \/ taken(there) /\ UNCHANGED deaf
        \/ /\ MayBeDeaf /\ This.kind # "path" /\ Silent(This)
           /\ taken(This.kind = "volume")
  /\ UNCHANGED <<command, tdWorld, agreed, supervisorLeft, said, before, hands, stayed>>

PlansOrphans ==
  /\ Pending("planOrphans") /\ Done(<<>>)
  /\ \/ /\ shown' = shown \o [i \in DOMAIN InName(Orphans(box)) |->
                                Thing("container", InName(Orphans(box))[i])]
        /\ UNCHANGED deaf
     \/ /\ MayBeDeaf
        /\ deaf' = deaf \cup {Thing("container", n) : n \in Names \ Expected}
        /\ UNCHANGED shown
  /\ UNCHANGED <<command, tdWorld, agreed, supervisorLeft, said, before, hands, stayed>>

PlansNetworks ==
  /\ Pending("planNetworks")
  /\ \E unread \in SUBSET NetworkOwnNames :
       /\ unread # {} => MayBeDeaf
       /\ deaf' = deaf \cup {Thing("network", n) : n \in unread}
       /\ Done(Each("plan", "network", ProjectNetworks(net, unread)))
  /\ UNCHANGED <<command, tdWorld, shown, agreed, supervisorLeft, said, before, hands, stayed>>

Stranded == StrandedVolumes(vol, {shown[i].on : i \in DOMAIN shown})

\* stopSupervisorAndReport, first of all: a supervisor the plan saw may outlive it,
\* or may not be asked, and its pid file is there then.
StopsSupervisor ==
  supervisorLeft' \in {FALSE} \cup {MayStay /\ ~Gone(SupervisorDir)}

\* An empty plan ends here; so do --dry-run and "no".
Prompts ==
  /\ Pending("prompt")
  /\ \/ todo' = <<>> /\ UNCHANGED <<agreed, supervisorLeft>>
     \/ /\ shown # <<>> \/ Stranded # {}
        /\ agreed' = TRUE /\ StopsSupervisor
        /\ todo' = [i \in DOMAIN shown |-> [do |-> "drop", thing |-> shown[i]]]
                   \o [i \in DOMAIN shown |-> [do |-> "check", thing |-> shown[i]]]
  /\ UNCHANGED <<command, tdWorld, shown, said, tdSeen>>

\* survivors: silence about a container is said, about the rest it is a "gone".
Checks ==
  /\ Pending("check") /\ Done(<<>>)
  /\ \/ /\ said' = IF Gone(This) \/ This.kind = "path" THEN said ELSE said \cup {This}
        /\ UNCHANGED deaf
     \/ /\ MayBeDeaf /\ This.kind # "path" /\ Silent(This)
        /\ said' = IF This.kind = "container" THEN said \cup {This} ELSE said
  /\ UNCHANGED <<command, tdWorld, shown, agreed, supervisorLeft, before, hands, stayed>>

-----------------------------------------------------------------------------
\* Another project, or a `container` by hand, takes a name or frees one.
Hand ==
  /\ todo # <<>> /\ ~Pending("begin") /\ hands = <<>> /\ Calm
  /\ \E n \in Names, owner \in {"nobody", "other"} :
       /\ box[n] # owner
       /\ box' = [box EXCEPT ![n] = owner]
       /\ hands' = Append(hands, n)
  /\ UNCHANGED <<command, net, vol, img, disk, todo, shown, agreed, supervisorLeft, said, before,
                 stayed, deaf>>

TeardownInit ==
  /\ command \in Commands
  /\ \E w \in Worlds :
       /\ box = w.box /\ net = w.net /\ vol = w.vol /\ img = w.img /\ disk = w.disk
       /\ before = w
  /\ todo = <<Task("begin", "", None)>>
  /\ shown = <<>> /\ agreed = FALSE /\ supervisorLeft = FALSE /\ said = {}
  /\ hands = <<>> /\ stayed = {} /\ deaf = {}

TeardownNext ==
  \/ Begins \/ Asks \/ ListsOrphans \/ ListsNetworks \/ LooksAtImages \/ Drops
  \/ Plans \/ PlansOrphans \/ PlansNetworks \/ Prompts \/ Checks \/ Hand

TeardownSpec == TeardownInit /\ [][TeardownNext]_tdVars

-----------------------------------------------------------------------------
(* What a take-down promises.                                              *)

Ended(verb) == command.verb = verb /\ todo = <<>>
Touched(x) == x.kind = "container" /\ x.on \in ToSet(hands)
Excused(x) == x \in stayed \cup deaf \/ Touched(x)

Things(kind, names) == {Thing(kind, n) : n \in names}

\* Everything a `down` is asked to remove, of what was there before it.
Meant ==
  Things("container", {n \in Names : before.box[n] = "ours" /\
                                     (n \in Expected \/ command.orphans)})
  \cup Things("network", ToSet(ProjectNetworks(before.net, {})))
  \cup Things("volume", IF command.volumes THEN NamedVolumes ELSE {})
  \cup Things("image", IF command.rmi = "no" THEN {} ELSE
       UNION {ImagesToRemove(s, command.rmi = "all", {i \in DOMAIN img : before.img[i].there},
                             [i \in DOMAIN img |-> before.img[i].labels], {}) : s \in Services})

\* Containers this `down` was not asked to remove, or could not.
Excuses == {n \in Names : Excused(Thing("container", n))}
             \cup (IF command.orphans THEN {} ELSE Names \ Expected)

\* A `down` that reports nothing (the `mine` look, the reverse order, containers
\* before what they hold) has removed everything it was asked to, but for what
\* the runtime refused or would not talk about and what such a thing holds.
DownClears ==
  (Ended("down") /\ said = {}) =>
    \A x \in Meant :
      \/ Gone(x) \/ Excused(x)
      \/ x.kind = "container" /\ box[x.on] # "ours"
      \/ /\ x.kind \in {"network", "volume"}
         /\ \E n \in Excuses : before.box[n] = "ours"

\* Not this project's when the command came, and not touched by others since.
Spared ==
  {Thing("container", n) : n \in {n \in Names : before.box[n] \in {"other", "bare"}
                                               /\ n \notin ToSet(hands)}}
  \cup {Thing("network", n) : n \in {n \in DOMAIN net : before.net[n] = "others"}}
  \cup {Thing("volume", v) : v \in ExternalVols \cap before.vol}
  \cup {Thing("path", p) : p \in {p \in DOMAIN disk : before.disk[p] = "user"}}
  \cup {Thing("image", i) : i \in {i \in DOMAIN img :
          /\ before.img[i].there /\ command.verb = "down" /\ command.rmi # "all"
          /\ i \notin {BuiltName(s) : s \in Services}
          /\ before.img[i].labels.project # "ours"
          /\ before.img[i].labels.compose # "ours"}}

\* Neither command removes what another project or the user made: containers by
\* their label, networks under a `name:`, external volumes, images somebody
\* pulled, an overlay written by hand.
OthersAreSpared == \A x \in Spared : ~Gone(x)

\* A destroy that ends without an error has removed every line of the plan it
\* showed; only a network, volume or image nobody answered about may be left, and
\* the directory of a supervisor that is.
DestroyTellsTheTruth ==
  (Ended("destroy") /\ agreed /\ said = {}) =>
    \A i \in DOMAIN shown :
      \/ Gone(shown[i]) \/ Touched(shown[i])
      \/ shown[i].kind # "container" /\ shown[i] \in deaf
      \/ shown[i] = SupervisorDir /\ supervisorLeft

\* A supervisor that is left can be found: "its pid file is how the next `down`
\* finds it" (Destroy).
SupervisorStaysFindable == supervisorLeft => ~Gone(SupervisorDir)

\* What a command that takes down reports is all that is left of what it was to
\* remove, but for what the two properties set apart.
TakeDownClears == DownClears /\ DestroyTellsTheTruth

\* A take-down removes all that is the project's and nothing that is another's: the
\* labels and names it goes by find the one and spare the other.  What finds a
\* supervisor that would not stop it leaves.
TakesItsOwn == TakeDownClears /\ OthersAreSpared /\ SupervisorStaysFindable
=============================================================================
