------------------------------- MODULE MCSide -------------------------------
(* The operations that stand beside the supervision and the bring-up, each a *)
(* scene of its own: one is picked at the start and only its actions run.    *)
EXTENDS MCCompose, Teardown, OneOff, WatchFiles, WorkspaceSwap, HostPorts, MutationSweep,
        AdaptOverlay, StartupOrder, SharedMounts
CONSTANTS OrderNames, db, web, oldweb, api, r1, r2, good
VARIABLE scene

(* A take-down of a small project, in every world it may find. *)
MCTakeDownOrder == <<db, web>>
MCNetDecl == "front" :> [external |-> FALSE, name |-> <<"shop">>] @@
             "theirs" :> [external |-> TRUE, name |-> <<"lan">>]
MCMounts == db :> {<<"data">>, <<"lent">>} @@ web :> {<<"cache">>}
MCImageOf == db :> [image |-> <<"postgres">>, build |-> FALSE] @@
             web :> [image |-> <<"site">>, build |-> TRUE]
Nets == {DefaultNet, Folded("front"), <<"shop">>, <<"lan">>}
Labels(p, s, c) == [project |-> p, service |-> s, compose |-> c]
MCLabels == {Labels("", "other", "ours"), Labels("", "", "ours")}
MCImages(l) ==
  [i \in {<<"postgres">>, <<"site">>, BuiltName(web)} |->
     [there |-> TRUE, labels |-> IF i = <<"site">> THEN l ELSE Labels("", "", "")]]
MCWorlds ==
  {[box |-> [n \in Names |->
      CASE n = Name(db) -> d [] n = Name(web) -> w [] n = RunName(web) -> r
        [] n = Name(oldweb) -> o [] OTHER -> "nobody"],
    net |-> [n \in Nets |-> IF n = <<"shop">> THEN shop ELSE IF n = <<"lan">> THEN "others" ELSE "ours"],
    vol |-> {<<"data">>, <<"lent">>, <<"cache">>, <<"stale">>},
    img |-> MCImages(l),
    disk |-> [p \in {<<"dot">>, <<"overlay">>, <<"supervisor">>} |-> IF p = <<"overlay">> THEN IF shop = "ours" THEN "user" ELSE "opossum" ELSE "opossum"]]
   : d \in {"ours", "other"}, w \in {"ours", "bare"}, r \in {"ours"},
     <<o, l>> \in {<<"nobody", Labels("", "", "ours")>>} \cup ({"ours"} \X MCLabels), shop \in {"ours", "others"}}
MCDown(o, v, r) == [verb |-> "down", orphans |-> o, volumes |-> v, rmi |-> r]
MCDestroy(l, i) == [verb |-> "destroy", keepLocal |-> l, keepImages |-> i, keepOverlay |-> FALSE]
MCExternal == {<<"lent">>}
MCPrefixed == {<<"data">>, <<"cache">>, <<"stale">>}
MCCommands == {MCDown(TRUE, TRUE, "local"), MCDown(FALSE, FALSE, "all"),
               MCDestroy(FALSE, FALSE), MCDestroy(TRUE, TRUE)}

(* A container left by an earlier run, one of another program, or none. *)
MCBefore == {NoContainer, Container("before", FALSE), Container("other", TRUE)}

(* Four files, two directories, four rules. *)
Rule(s, a, u, i) == [svc |-> s, action |-> a, under |-> u, ignores |-> i, tree |-> {"top", "sub"}]
MCMaxSaves == [f \in {"page", "new", "conf", "deps"} |-> IF f = "page" THEN 2 ELSE 1]
MCRules == <<Rule(web, "sync", {"page", "new", "deps"}, {"deps"}),
             Rule(web, "sync+restart", {"conf"}, {}), Rule(web, "rebuild", {"deps"}, {}),
             Rule(api, "rebuild", {"page"}, {})>>
MCDirOf == [f \in {"page", "new", "conf", "deps"} |->
              IF f = "new" THEN "sub" ELSE "top"]

(* Two services and the `ports` their file may give them. *)
MCPortOrder == <<"a", "b">>
BarePort(addr, c) == [addr |-> addr, lo |-> c, hi |-> c, c |-> c, many |-> FALSE, bare |-> TRUE]
FixedPort(addr, lo, hi, c, many) == [addr |-> addr, lo |-> lo, hi |-> hi, c |-> c, many |-> many, bare |-> FALSE]
BareRange(lo, hi) == [addr |-> "any", lo |-> lo, hi |-> hi, c |-> lo, many |-> TRUE, bare |-> TRUE]
OfA == {<<BarePort("any", 1)>>, <<FixedPort("any", 1, 1, 1, FALSE), BarePort("any", 2)>>,
        <<FixedPort("any", 2, 3, 1, FALSE), BarePort("any", 2)>>, <<BareRange(2, 3), BarePort("lo", 1)>>}
OfB == {<<BarePort("any", 2)>>, <<FixedPort("lo", 1, 1, 1, FALSE)>>}
MCFiles == {[s \in {"a", "b"} |-> IF s = "a" THEN x ELSE y] : x \in OfA, y \in OfB}
MCCrowds == {{}, {<<"lo", 1>>, <<"any", 2>>}}
NoneDenied == {}
MCGone == {{}, {"lo"}}

(* A database and a service beside it, of each kind an image may be. *)
MCKeeps == [i \in {"pg17", "pg quiet", "pg18", "pg below", "pg away", "mysql", "lscr", "ghcr", "amd64 only"} |->
  CASE i \in {"pg17", "pg quiet"} -> DataDir [] i \in {"pg18", "pg away"} -> <<"pg", "18">>
    [] i = "pg below" -> SubDir [] OTHER -> <<"own">>]
Reads(from, path) == [source |-> from, path |-> path]
MCDeclares == [i \in DOMAIN MCKeeps |->
  CASE i \in {"pg17", "pg18", "pg below"} -> Reads("read", MCKeeps[i])
    [] i = "pg away" -> Reads("unreachable", NoPath) [] OTHER -> Reads("none", NoPath)]
MCOwnDir == [i \in DOMAIN MCKeeps |->
  CASE i \in {"pg17", "pg quiet", "pg18", "pg below", "pg away"} -> DataDir [] i = "mysql" -> <<"my">> [] OTHER -> NoPath]
Mounted(is, name, place, ro) == [src |-> [is |-> is, name |-> name], at |-> place, ro |-> ro]
HostPath(p) == [base |-> <<p>>, n |-> 0]
DbData == [base |-> <<"db", "data">>, n |-> 1]
OfImage(image, mounts, pgdata) ==
  [image |-> image, builds |-> FALSE, platform |-> "unset", mounts |-> mounts, pgdata |-> pgdata, server |-> TRUE,
   envReadable |-> TRUE, gated |-> FALSE]
Bind == Mounted("host", HostPath("a"), DataDir, FALSE)
BesideBind(place) == <<Bind, Mounted("host", HostPath("c"), place, FALSE)>>
OtherMounts == {<<Mounted("volume", DbData, DataDir, FALSE)>>, BesideBind(<<"conf">>),
                BesideBind(DataDir \o <<"x">>), <<Mounted("host", HostPath("a"), DataDir, TRUE)>>}
Gated == [OfImage("mysql", <<Mounted("host", HostPath("b"), <<"my">>, FALSE)>>, NotGiven) EXCEPT !.gated = TRUE]
OwnImage == OfImage("lscr", <<Mounted("host", HostPath("a"), <<"srv">>, FALSE)>>, NotGiven)
Beside == {OwnImage,
           OfImage("amd64 only", <<Mounted("linux", HostPath("tz"), <<"tz">>, TRUE), Mounted("volume", DbData, <<"srv">>, FALSE)>>, NotGiven),
           [OfImage("amd64 only", <<Mounted("host", HostPath("b"), <<"srv">>, FALSE)>>, NotGiven) EXCEPT !.builds = TRUE]}
Guided == {OfImage("pg17", <<Bind>>, g) : g \in {NotGiven, PassedIn, SubDir, <<"pg", "own">>}}
Odd == {OfImage("pg quiet", <<Bind>>, SubDir), OfImage("pg18", <<Bind>>, PassedIn),
        OfImage("pg below", <<Bind>>, NotGiven), OfImage("pg away", <<Bind>>, NotGiven),
        [OfImage("pg17", <<Bind>>, NotGiven) EXCEPT !.envReadable = FALSE],
        [OfImage("pg17", <<Bind>>, NotGiven) EXCEPT !.server = FALSE]}
MCProject(d, a) == [s \in {"app", "db"} |-> IF s = "db" THEN d ELSE a]
MCAdaptProjects ==
  {MCProject(d, Gated) : d \in Guided \cup {OfImage(i, <<Bind>>, NotGiven) : i \in {"pg18", "pg quiet"}}}
    \cup {MCProject(d, OwnImage) : d \in Odd \cup {OfImage("pg17", m, NotGiven) : m \in OtherMounts}}
    \cup {MCProject(OfImage("pg17", BesideBind(<<"conf">>), NotGiven), a) : a \in Beside}
    \cup {MCProject(OfImage("pg18", BesideBind(DataDir \o <<"x">>), NotGiven), Gated)}
MCAdaptOrder == <<"app", "db">>

(* Three services, each needing any of the others or one that is not there, with *)
(* or without `required: false` (all one for "web", which no profile gates);     *)
(* profiles and names; and a command.                                            *)
MCAlphabet == <<"app", "gate", "web">>
Edge(n) == {{}} \cup {{[to |-> n, optional |-> o]} : o \in IF n = "web" THEN {FALSE} ELSE BOOLEAN}
EdgesOf(a) ==
  LET needed == SetToSeq(OrderNames \ {a}) IN {x \cup y : x \in Edge(needed[1]), y \in Edge(needed[2])}
EdgesOrNone(a) == EdgesOf(a) \cup (Edge("ghost") \ {{}})
GatedUnless(on) ==
  {f \in [OrderNames -> {{}, {"x"}}] : f["web"] = {} /\ (on # {} => f["app"] = {"x"} /\ f["gate"] = {"x"})}
MCOrderProjects ==
  {[deps |-> [n \in OrderNames |-> IF n = "app" THEN a ELSE IF n = "gate" THEN g ELSE w],
    profiles |-> x[1], on |-> x[2]] :
     a \in EdgesOrNone("app"), g \in EdgesOf("gate"), w \in EdgesOf("web"),
     x \in (GatedUnless({}) \X {{}}) \cup (GatedUnless({"x"}) \X {{"x"}})}
MCOrderCommands == ({"up", "start", "stop"} \X {{}, {"gate", "web"}}) \cup {<<"up", {"web"}>>}
MCOrderQuestions ==
  {[project |-> p, by |-> c[1], named |-> c[2]] : p \in MCOrderProjects, c \in MCOrderCommands}
NoneOf == [n \in OrderNames |-> {}]
MCPlainQuestion == [project |-> [deps |-> NoneOf, profiles |-> NoneOf, on |-> {}], by |-> "up", named |-> {}]

-----------------------------------------------------------------------------
(* Borrowed mounts: a borrows of b and c, b of c, and c of a or of nothing.  *)
FromOf(n) == [to |-> n, outside |-> FALSE]
Elsewhere == [to |-> "z", outside |-> TRUE]
MCPaths == {"x", "y"}
MCSources == {"a", "b", "c", Anonymous}
AtPaths(x, y) == [t \in MCPaths |-> IF t = "x" THEN x ELSE y]
OneOrNoneOf(n) == {AtPaths(<<>>, <<>>), AtPaths(<<n>>, <<>>), AtPaths(<<Anonymous>>, <<>>)}
Lending(own, tmpfs, nocopy, part, from, gated) ==
  [own |-> own, tmpfs |-> tmpfs, nocopy |-> nocopy, part |-> part, from |-> from, gated |-> gated]
InOwn(S) == {s \in S : \A t \in s.nocopy \cup s.part : s.own[t] # <<>>}
MCShareQuestions ==
  {[services |-> [n \in {"a", "b", "c"} |-> CASE n = "a" -> a [] n = "b" -> b [] n = "c" -> c], names |-> ns] :
     a \in {Lending(p[1], p[2], {}, {}, f[1], f[2]) :
              p \in {<<AtPaths(<<>>, <<>>), {}>>, <<AtPaths(<<>>, <<>>), {"x"}>>,
                     <<AtPaths(<<"a">>, <<>>), {}>>, <<AtPaths(<<"a">>, <<"a">>), {"x"}>>},
              f \in {<<<<FromOf("b")>>, TRUE>>, <<<<FromOf("b")>>, FALSE>>, <<<<FromOf("b"), FromOf("c")>>, FALSE>>,
                     <<<<FromOf("c"), FromOf("b")>>, FALSE>>, <<<<FromOf("b"), Elsewhere>>, FALSE>>}},
     b \in InOwn({Lending(o, {}, c, {}, f[1], f[2]) : o \in OneOrNoneOf("b"), c \in {{}, {"x"}},
              f \in {<<<<>>, TRUE>>, <<<<>>, FALSE>>, <<<<FromOf("c")>>, FALSE>>, <<<<FromOf("ghost"), FromOf("c")>>, FALSE>>}}),
     c \in InOwn({Lending(o, {}, x, {"x"} \ x, f, FALSE) : x \in {{}, {"x"}}, f \in {<<>>, <<FromOf("a")>>},
              o \in {AtPaths(<<"c">>, <<>>), AtPaths(<<Anonymous>>, <<>>), AtPaths(<<Anonymous, "c">>, <<>>)}}),
     ns \in {<<"a", "b", "c">>, <<"c", "b", "a">>}}

sideVars == <<scene, tdVars, ooVars, filesVars, wsVars, portVars, sweepVars, composeVars, adaptVars, orderVars, lendVars>>

\* A scene that is not played stays as it began.
SideInit ==
  /\ scene \in {"teardown", "one-off", "watch", "workspace", "ports", "mutate", "files", "adapt", "order", "shares"}
  /\ IF scene = "teardown" THEN TRUE
     ELSE command = MCDown(FALSE, FALSE, "all") /\ before = CHOOSE w \in MCWorlds : TRUE
  /\ IF scene = "one-off" THEN TRUE ELSE oneoff = NoContainer /\ volume = "none"
  /\ IF scene = "ports" THEN TRUE
     ELSE file = (CHOOSE f \in MCFiles : TRUE) /\ others = {} /\ gone = {}
  /\ IF scene = "adapt" THEN TRUE
     ELSE compose = (CHOOSE c \in MCAdaptProjects : TRUE) /\ holding = {}
  /\ TeardownInit /\ OneOffInit /\ FilesInit /\ SwapInit /\ PortsInit /\ SweepInit /\ AdaptInit
  /\ 1 \notin sweep.controls /\ (scene = "mutate" \/ (~sweep.against /\ sweep.controls = {}))
  /\ IF scene = "order" THEN TRUE ELSE reading = MCPlainQuestion
  /\ OrderInit
  /\ IF scene = "shares" THEN SharesInit
     ELSE lending = [services |-> <<>>, names |-> <<>>] /\ shared = AsLoaded(lending) /\ refusal = ""
  /\ IF scene = "files" THEN ComposeInit
     ELSE asked = "merge" /\ question = NoAnswer /\ answer = NoAnswer

SideNext ==
  \/ scene = "teardown" /\ TeardownNext
       /\ UNCHANGED <<scene, ooVars, filesVars, wsVars, portVars, sweepVars, composeVars, adaptVars, orderVars, lendVars>>
  \/ scene = "one-off" /\ OneOffNext
       /\ UNCHANGED <<scene, tdVars, filesVars, wsVars, portVars, sweepVars, composeVars, adaptVars, orderVars, lendVars>>
  \/ scene = "watch" /\ FilesNext
       /\ UNCHANGED <<scene, tdVars, ooVars, wsVars, portVars, sweepVars, composeVars, adaptVars, orderVars, lendVars>>
  \/ scene = "workspace" /\ SwapNext
       /\ UNCHANGED <<scene, tdVars, ooVars, filesVars, portVars, sweepVars, composeVars, adaptVars, orderVars, lendVars>>
  \/ scene = "ports" /\ PortsNext
       /\ UNCHANGED <<scene, tdVars, ooVars, filesVars, wsVars, sweepVars, composeVars, adaptVars, orderVars, lendVars>>
  \/ scene = "mutate" /\ SweepNext
       /\ UNCHANGED <<scene, tdVars, ooVars, filesVars, wsVars, portVars, composeVars, adaptVars, orderVars, lendVars>>
  \/ scene = "files" /\ ComposeNext
       /\ UNCHANGED <<scene, tdVars, ooVars, filesVars, wsVars, portVars, sweepVars, adaptVars, orderVars, lendVars>>
  \/ scene = "adapt" /\ AdaptNext
       /\ UNCHANGED <<scene, tdVars, ooVars, filesVars, wsVars, portVars, sweepVars, composeVars, orderVars, lendVars>>
  \/ scene = "order" /\ OrderNext
       /\ UNCHANGED <<scene, tdVars, ooVars, filesVars, wsVars, portVars, sweepVars, composeVars, adaptVars, lendVars>>
  \/ scene = "shares" /\ SharesNext
       /\ UNCHANGED <<scene, tdVars, ooVars, filesVars, wsVars, portVars, sweepVars, composeVars, adaptVars, orderVars>>

SideSpec == SideInit /\ [][SideNext]_sideVars
=============================================================================
