----------------------------- MODULE MCCompose -----------------------------
(* The bounded questions of ComposeFiles.                                  *)
EXTENDS ComposeFiles

CONSTANT ServiceNames

\* Names with a dot in them are two segments of a dotted path.
MCSegments(key) == IF key = "x.y" THEN <<"x", "y">> ELSE <<key>>

-----------------------------------------------------------------------------
T(a) == Text(<<a>>)
Bound(a, v) == Text(<<a, v>>)
One(k, v) == Map([x \in {k} |-> v])
Two(k, v, l, w) == Map([x \in {k, l} |-> IF x = k THEN v ELSE w])
L1(a) == List(<<a>>)
L2(a, b) == List(<<a, b>>)

EnvForms(m) == {Nothing, One("A", T(m)), One("A", Nothing), One("B", T(m)), One("environment", T(m)),
                L1(Bound("A", m)), L1(T("A")), L2(Bound("A", m), Bound("A", "z")), L2(Bound("B", m), T("A")),
                L2(Bound("A", m), Number("3"))}
NetForms(m) == {Nothing, L1(T("a")), L2(T("a"), T("b")), One("a", Nothing), One("a", One("ip", T(m))),
                One("a", One(m, T(m))), Two("a", Nothing, "b", One("ip", T(m)))}
DepForms(m) == {Nothing, L1(T("a")), L2(T("a"), T("b")), One("a", One("condition", T(m))),
                One("a", One("condition", Nothing)), One("a", Two("condition", T(m), "required", T("false"))),
                One("a", Two("condition", T(m), "required", Nothing))}
BuildForms(m) == {Nothing, T(m), One("context", T(m)), One("target", T(m)), Two("context", Nothing, "target", T(m))}
ItemForms(m) == {Nothing, L1(T("16")), L1(Number("16")), L2(T("16"), T("16")), L2(T("16"), T(m)), L1(T(m))}
MountForms(m) == {Nothing, L1(Bound(m, "/t")), L1(Bound(m, "/t/")), L1(T("/t")), L1(Bound(m, "")),
                  L2(Bound(m, "/t"), Bound(m, "/u")), L1(Two("source", T(m), "target", T("/t")))}
SecretForms(m) == {Nothing, L1(T("k")), L1(T(m)), L1(One("source", T("k"))), L1(Two("source", T(m), "target", T("k"))),
                   L2(Two("source", T(m), "target", Bound("/run/secrets", "k")), T("j")),
                   L1(Two("source", T(m), "target", Text(<<"">>)))}
ScalarForms(m) == {Nothing, T(m)}
CommandForms(m) == {Nothing, T(m), L1(T(m)), L2(T("run"), T(m))}
TmpfsForms(m) == {Nothing, T("/t"), L1(T("/t")), L2(T("/t"), T(m))}
FormsOf(key, m) ==
  CASE key \in {"environment", "labels", "args"} -> EnvForms(m)
    [] key = "networks" -> NetForms(m)
    [] key = "depends_on" -> DepForms(m)
    [] key = "build" -> BuildForms(m)
    [] key = "expose" -> ItemForms(m)
    [] key = "volumes" -> MountForms(m)
    [] key = "secrets" -> SecretForms(m)
    [] key = "image" -> ScalarForms(m)
    [] key = "command" -> CommandForms(m)
    [] key = "tmpfs" -> TmpfsForms(m)
Keys == {"environment", "args", "networks", "depends_on", "build", "expose", "volumes", "secrets",
         "image", "command", "tmpfs"}
MCMergeQuestions ==
  UNION {{[key |-> k, base |-> b, over |-> o, name |-> n] : b \in FormsOf(k, "1"), o \in FormsOf(k, "2")} :
           k \in Keys, n \in ServiceNames}

-----------------------------------------------------------------------------
Document(svc) == One("services", One("web", svc))
EnvDocs(m) == {Document(One("environment", e)) :
                 e \in {L1(Bound("A", m)), One("A", T(m)), One("B", T(m)), Two("A", Reset, "B", T(m)),
                        One("A", Override(T(m))), Reset, Override(One("B", T(m)))}}
NetDocs(m) == {Document(One("networks", e)) :
                 e \in {L1(T("a")), One("a", One("ip", T(m))), One("b", Nothing), One("a", Reset),
                        One("a", Override(One("ip", T(m)))), Override(L1(T("b"))), Reset}}
RestDocs(m) == {Document(One("image", T(m))), Document(Override(One("image", T(m)))),
                One("services", Override(One("other", One("image", T(m)))))}
Layers(a, b, c) == [disk |-> [f \in {"1", "2", "3"} |-> CASE f = "1" -> a [] f = "2" -> b [] f = "3" -> c],
                    paths |-> <<"1", "2", "3">>, names |-> <<"web", "other">>]
MCTagQuestions ==
  {Layers(a, b, c) : a \in EnvDocs("1") \cup RestDocs("1"), b \in EnvDocs("2") \cup RestDocs("2"), c \in EnvDocs("3") \cup RestDocs("3")}
    \cup {Layers(a, b, c) : a \in NetDocs("1"), b \in NetDocs("2"), c \in NetDocs("3")}

-----------------------------------------------------------------------------
Extending(id, e) ==
  LET env == Map([k \in {id} \cup (IF id \in {"ma", "la"} THEN {"E"} ELSE {}) |-> T(id)])
  IN IF e = Nothing THEN One("environment", env) ELSE Two("environment", env, "extends", e)
ExtendsForms(other) == {Nothing, T("a"), One("service", T("b")), 
                   Two("service", T("a"), "file", T(other)), Two("service", T("b"), "file", T(other))}
TwoServices(a, b) == One("services", Two("a", a, "b", b))
MCExtendsQuestions ==
  {[disk |-> [f \in {"main", "lib"} |->
                IF f = "main" THEN TwoServices(Extending("ma", c[1]), Extending("mb", c[2]))
                ELSE TwoServices(Extending("la", c[3]), Extending("lb", c[4]))],
    paths |-> <<"main">>, names |-> ns] :
     c \in (ExtendsForms("lib") \cup {T("ghost")}) \X ExtendsForms("lib") \X ExtendsForms("main") \X ExtendsForms("main"), ns \in {<<"a", "b">>, <<"b", "a">>}}

-----------------------------------------------------------------------------
Including(f, entries, writes) ==
  LET body == IF writes THEN {"services", "include"} ELSE {"include"}
  IN Map([k \in body |-> IF k = "include" THEN List(entries) ELSE One("web", One("image", T(f)))])
MCIncludeQuestions ==
  {[disk |-> [f \in {"main", "x", "y", "z"} |-> Including(f, i[f], f \in w)], paths |-> ps, names |-> <<"web">>] :
     i \in {[main |-> m, x |-> x, y |-> y, z |-> z] :
              m \in {<<>>, <<<<"x">>>>, <<<<"x">>, <<"y">>>>, <<<<"x", "y">>>>, <<<<"x">>, <<"x">>>>},
              x \in {<<>>, <<<<"y">>>>, <<<<"main">>>>, <<<<"x">>>>, <<<<"z">>>>},
              y \in {<<>>, <<<<"z">>>>, <<<<"x">>>>}, z \in {<<>>, <<<<"main">>>>}},
     w \in {v \cup {"main"} : v \in SUBSET {"x", "y", "z"}} \cup {{}}, ps \in {<<"main">>, <<"z", "main">>}}

-----------------------------------------------------------------------------
\* Env files of up to two lines out of: a value, a reference to the other name or to
\* the line's own, a default, a name alone, a name that is none, a line without one.
Tpl(w) == <<Word(w)>>
Lines ==
  {Line("A", Tpl("1")), Line("B", <<Plain("A")>>), Line("A", <<Plain("A"), Word("+")>>),
   Line("B", <<Ref("A", "-", TRUE, <<Plain("S")>>)>>), Line("B", <<Ref("A", "?", TRUE, <<>>)>>),
   [Line("B", <<Plain("A")>>) EXCEPT !.literal = TRUE],
   [Line("A", <<>>) EXCEPT !.bare = TRUE], [Line("S", <<>>) EXCEPT !.bare = TRUE],
   [Line("A", <<>>) EXCEPT !.clean = FALSE, !.bare = TRUE],
   Line("", Tpl("1"))}
LineFiles == {<<>>} \cup {<<l>> : l \in Lines} \cup {<<l, m>> : l, m \in Lines}
ShortFiles == {<<>>} \cup {<<l>> : l \in Lines}
Shells == {Unset, [n \in {"A"} |-> <<>>], [n \in {"A", "S"} |-> <<n>>]}
MCEnvQuestions ==
  {[shell |-> s, named |-> IF two THEN <<f, g>> ELSE <<>>, here |-> f, under |-> g, builtin |-> b] :
     s \in Shells, two \in BOOLEAN, f \in LineFiles, g \in ShortFiles, b \in {[n \in {"B"} |-> <<"built">>]}}

Envs ==
  {<<>>, <<Entry("A", <<"e">>)>>, <<Bare("A")>>, <<Bare("S")>>, <<Entry("A", <<"e">>), Bare("A")>>,
   <<Bare("A"), Entry("A", <<"e">>)>>, <<Entry("B", <<"e">>), Entry("B", <<"f">>)>>}
EnvFile(lines, raw) == [lines |-> lines, raw |-> raw]
MCServiceQuestions ==
  {[shell |-> s[1], here |-> s[2], files |-> fs, env |-> e, builtin |-> Unset] :
     s \in ({Unset, [n \in {"A", "S"} |-> <<n>>]} \X {<<Line("A", <<Plain("S"), Word("h")>>), Line("B", Tpl("1"))>>})
             \cup {<<Unset, <<>>>>},
     e \in Envs,
     fs \in {<<EnvFile(f, FALSE)>> : f \in LineFiles} \cup {<<EnvFile(f, TRUE)>> : f \in ShortFiles}
              \cup {<<EnvFile(f, FALSE), EnvFile(g, r)>> : f, g \in ShortFiles, r \in BOOLEAN}}

Pieces == {Word("x"), Word("3"), Plain("A"), Plain("B"), Ref("B", "-", FALSE, <<Word("d"), Plain("A")>>),
           Ref("A", "+", TRUE, <<Word("p")>>), Ref("B", "?", FALSE, <<>>)}
MCScalarQuestions ==
  {[text |-> t, inKey |-> k, lookup |-> l] :
     t \in {<<>>} \cup {<<p>> : p \in Pieces} \cup {<<p, q>> : p, q \in Pieces} \cup {<<p, q, r>> : p, q, r \in Pieces},
     k \in BOOLEAN, l \in {[n \in S |-> v] : S \in {{}, {"A"}, {"B"}, {"A", "B"}}, v \in {<<>>, <<"v">>}}}
-----------------------------------------------------------------------------
\* A service, and every two of its fields given other values; what the entrypoint, the
\* command and the image's own come to together.
MCWordOrder == <<"", "10m", "A=1", "B=2", "MCP_CONFIG", "a", "b", "l=1", "mcp", "project", "run", "v:/a", "v:/b">>
PlainService ==
  [image |-> "a", build |-> FALSE, platform |-> "", isolated |-> FALSE, networks |-> <<"a">>, dnsDomain |-> "a", dnsSearch |-> "b",
   mac |-> "", env |-> <<>>, ports |-> <<>>, volumes |-> <<>>, secrets |-> <<>>, configs |-> <<>>, tools |-> FALSE,
   tmpfs |-> <<>>, labels |-> <<>>, command |-> <<>>, entrypoint |-> <<>>, entrypointCleared |-> FALSE, memory |-> "",
   cpus |-> "", ssh |-> FALSE, user |-> "", groupAdd |-> <<>>, workdir |-> "", init |-> FALSE, readOnly |-> FALSE,
   tty |-> FALSE, shm |-> "", ulimits |-> <<>>, capAdd |-> <<>>, capDrop |-> <<>>]
GroupOf(text, numeric, reading, fits, hasDigits) ==
  [text |-> text, numeric |-> numeric, reading |-> reading, fits |-> fits, hasDigits |-> hasDigits]
Groups == {GroupOf("a", TRUE, "a", TRUE, TRUE), GroupOf("b", TRUE, "a", TRUE, TRUE), GroupOf("10m", TRUE, "b", FALSE, TRUE),
           GroupOf("l=1", FALSE, "", FALSE, TRUE), GroupOf("run", FALSE, "", FALSE, FALSE), GroupOf("", FALSE, "", FALSE, FALSE)}
Lists == {<<>>, <<"a">>, <<"a", "b">>, <<"b", "a">>}
ValuesOf(field) ==
  CASE field \in {"isolated", "tools", "entrypointCleared", "ssh", "init", "readOnly", "tty", "build"} -> BOOLEAN
    [] field \in {"image", "mac", "memory", "cpus", "user", "workdir", "shm"} -> {"", "a", "b"}
    [] field = "platform" -> {"", "linux/amd64"}
    [] field \in {"networks", "env", "ports", "tmpfs", "command", "entrypoint", "ulimits", "capAdd", "capDrop"} -> Lists
    [] field \in {"volumes", "secrets", "configs"} -> {<<>>, <<"v:/a">>, <<"v:/b", "v:/a">>}
    [] field = "labels" -> {<<>>, <<[word |-> "l=1", pieces |-> <<"l", "1">>]>>, <<[word |-> "l=1=2", pieces |-> <<"l", "1", "2">>]>>}
    [] field = "groupAdd" -> {<<>>} \cup {<<g>> : g \in Groups} \cup {<<g, h>> : g, h \in {g \in Groups : g.hasDigits}}
    [] OTHER -> {PlainService[field]}
Here == [read |-> TRUE, pulls |-> FALSE, entrypoint |-> <<"run">>, cmd |-> <<"b">>]
Varied == {f \in DOMAIN PlainService : Cardinality(ValuesOf(f)) > 1}
WordLists == {<<>>, <<"">>, <<"a">>, <<"", "a">>, <<"a", "b">>}
MCFlagQuestions ==
  {[services |-> {[PlainService EXCEPT ![p[1]] = v, ![p[2]] = w] : v \in ValuesOf(p[1]), w \in ValuesOf(p[2])},
    there |-> Here] : p \in Varied \X Varied}
  \cup {[services |-> {[PlainService EXCEPT !.entrypoint = e, !.entrypointCleared = (e = <<>> /\ cleared), !.command = c, !.build = b] :
                        e \in WordLists, c \in WordLists, cleared \in BOOLEAN},
         there |-> [read |-> r, pulls |-> p, entrypoint |-> e2, cmd |-> c2]] :
         b \in BOOLEAN, r \in BOOLEAN, p \in BOOLEAN, e2 \in {<<>>, <<"run">>}, c2 \in {<<>>, <<"">>, <<"b">>, <<"b", "a">>}}

-----------------------------------------------------------------------------
\* Two keys that fold to one, the default network, a key that folds to it, and names
\* that meet a derived one or each other.
MCNetworkRuntimeName == [k \in {"A", "a", "net", "default"} |-> IF k \in {"A", "a"} THEN "p-a" ELSE "p-net"]
NetDeclOf(own, internal, subnet, labels) ==
  [own |-> own, external |-> FALSE, real |-> "", internal |-> internal, subnet |-> subnet, labels |-> labels]
Decls == {NetDeclOf("", FALSE, "", ""), NetDeclOf("n", FALSE, "", ""), NetDeclOf("n", TRUE, "", ""),
          NetDeclOf("p-a", FALSE, "s", ""), [NetDeclOf("", FALSE, "", "") EXCEPT !.external = TRUE, !.real = "p-a"]}
Joins == {[none |-> TRUE, keys |-> <<>>]}
           \cup {[none |-> FALSE, keys |-> ks] : ks \in {<<>>, <<"A">>, <<"a">>, <<"A", "default">>, <<"net", "a">>}}
FewJoins == {j \in Joins : Len(j.keys) # 1}
There(internal, subnet, read) == [n \in {"n", "p-net"} |-> [internal |-> internal, subnet |-> subnet, read |-> read]]
MCNetworkQuestions ==
  {[project |-> [nets |-> [k \in {"A", "a", "net", "default"} |->
                            CASE k = "A" -> A [] k = "a" -> a [] k = "default" -> d [] k = "net" -> NetDeclOf("", TRUE, "", "")],
                 services |-> [n \in {"db", "web"} |-> IF n = "db" THEN s ELSE t], names |-> <<"db", "web">>],
    order |-> o[1], there |-> o[2]] :
     A \in Decls, a \in Decls \cup {NetDeclOf("n", FALSE, "", "l")},
     d \in {NetDeclOf("", FALSE, "s", ""), NetDeclOf("n", FALSE, "", "")},
     s \in Joins, t \in FewJoins,
     o \in {<<<<"db">>, There(TRUE, "t", TRUE)>>}
             \cup ({<<"db", "web">>} \X {[n \in {} |-> {}], There(FALSE, "s", TRUE), There(TRUE, "t", TRUE), There(TRUE, "t", FALSE)})}

(* The names written in a file or two, read or not, and the places they are in. *)
MCSanitizeName == [n \in {"here", "there", "Shop", "shop", "mine", "theirs", "lent"} |-> IF n = "Shop" THEN "shop" ELSE n]
Wrote(is) == [is |-> is, name |-> "theirs"]
Named(n) == [is |-> "plain", name |-> n]
ReadAs(is, docs) == [is |-> is, docs |-> docs]
MCProjectFiles ==
  {<<ReadAs("read", <<d>>), ReadAs("read", <<e>>)>> :
     d \in {Wrote("none"), Wrote("emptied"), Wrote("by reference"), Named("Shop")},
     e \in {Wrote("none"), Wrote("bare"), Wrote("empty"), Wrote("emptied"), Named("mine")}}
  \cup {<<ReadAs(is, <<d, e>>)>> : is \in {"read", "refused", "gone"},
          d \in {Wrote("none"), Wrote("emptied"), Named("Shop")}, e \in {Wrote("none"), Named("shop"), Named("mine")}}
MCProjectQuestions ==
  {[flag |-> s[1], chosen |-> c[1], place |-> c[2], shell |-> s[2], dotenv |-> [p \in {"here", "there"} |-> IF p = "here" THEN h ELSE t],
    envFile |-> e, files |-> docs] :
     c \in {<<"found", "here">>, <<"flag", "here">>, <<"flag", "there">>, <<"env", "there">>},
     s \in ({""} \X {"unset", "", "mine"}) \cup {<<"Shop", "unset">>}, h \in {"unset", "", "lent"}, t \in {"unset", "theirs"},
     e \in {"unset", "broken"}, docs \in MCProjectFiles}

-----------------------------------------------------------------------------
(* Ports: numbers bare and quoted, ranges, words, the edges of what a port is, in *)
(* each place of the short form, and the long form's keys.                        *)
Digits(low, high) == [Absent EXCEPT !.is = IF low = high THEN "number" ELSE "range", !.low = low, !.high = high]
BareNumber(digits, read) == [Digits(digits, digits) EXCEPT !.tag = "int", !.yaml = read]
WordPort == [Absent EXCEPT !.is = "word"]
EmptyPort == [Absent EXCEPT !.is = "empty"]
WholeFloat == [WordPort EXCEPT !.tag = "float", !.yaml = 80]
PortTexts ==
  {Digits(80, 80), Digits(80, 81), [Digits(80, 80) EXCEPT !.is = "range", !.lowZeros = 1, !.highZeros = 2],
   [Digits(80, 80) EXCEPT !.plus = TRUE],
   Digits(0, 0), Digits(90, 80), Digits(65535, 65536), WordPort, EmptyPort}
ShortPort(item, addr, host, container, proto) ==
  [form |-> "short", item |-> item, addr |-> addr, host |-> host, container |-> container, proto |-> proto]
LongPort(target, published, hostIP, protocol) ==
  [form |-> "long", target |-> target, published |-> published, hostIP |-> hostIP, protocol |-> protocol]
ShortPorts ==
  {ShortPort("text", "none", h, c, p) : h \in PortTexts \cup {Absent}, c \in PortTexts, p \in {"none", "empty", "TCP", "udp", "icmp"}}
  \cup {ShortPort("text", a, h, c, "none") : a \in {"empty", "v4", "v6", "[v6]", "colons", "a host"}, h \in PortTexts, c \in PortTexts}
  \cup {ShortPort("int", "none", Absent, BareNumber(10, 8), "none"), ShortPort("nothing", "none", Absent, Absent, "none")}
LongPorts ==
  {LongPort(t, b, i, "none") :
     t \in PortTexts \cup {Absent, [Absent EXCEPT !.is = "bare"], BareNumber(10, 8), WholeFloat},
     b \in PortTexts \cup {Absent, [Absent EXCEPT !.is = "bare"], BareNumber(10, 8)}, i \in {"none", "v6"}}
  \cup {LongPort(t, b, i, r) :
           t \in {Digits(80, 80), Digits(80, 81)}, b \in {Digits(80, 80), Absent},
           i \in {"none", "v4", "v6", "[v6]", "a host"}, r \in {"none", "tcp", "TCP", "icmp"}}
\* Entries that may be one port: by number, protocol, host port left out, 0 (`00`) or said,
\* with a zero in front or none.
ZeroInFront(p) == [p EXCEPT !.lowZeros = 1]
LikePorts ==
  {ShortPort("text", a, h, Digits(80, 80), p) : a \in {"none", "v4"}, h \in {EmptyPort, Digits(0, 0), Digits(80, 80), Digits(81, 81)},
                                                 p \in {"none", "tcp", "udp"}}
  \cup {ShortPort("text", "none", h, c, "none") :
          h \in {EmptyPort, ZeroInFront(Digits(0, 0)), Digits(80, 80), ZeroInFront(Digits(80, 80))},
          c \in {Digits(80, 80), ZeroInFront(Digits(80, 80))}}
  \cup {LongPort(Digits(80, 80), b, "none", r) :
          b \in {Absent, Digits(80, 80), ZeroInFront(Digits(80, 80)), [Digits(80, 80) EXCEPT !.is = "range"]}, r \in {"none", "udp"}}
MCPortQuestions ==
  {<<e>> : e \in ShortPorts \cup LongPorts} \cup {<<e, f>> : e, f \in LikePorts}
  \cup {<<e, f, e>> : e, f \in {l \in LikePorts : l.form = "short" /\ l.addr = "none"}}

-----------------------------------------------------------------------------
(* Mounts: every form one by one, and two or three that meet at a path.          *)
SourceOf(is) == [is |-> is, text |-> "s"]
TargetOfMount(is, slash) == [is |-> is, at |-> "t", slash |-> slash]
NoTarget == [is |-> "empty", at |-> "", slash |-> FALSE]
TargetT == TargetOfMount("path", FALSE)
TargetTs == {TargetT, TargetOfMount("path", TRUE)}
ShortMountOf(item, parts, source, target, modes) ==
  [form |-> "short", item |-> item, parts |-> parts, source |-> source, target |-> target, modes |-> modes]
LongMountOf(type, source, target, readOnly, nocopy, part, size) ==
  [form |-> "long", type |-> type, source |-> source, target |-> target, readOnly |-> readOnly, nocopy |-> nocopy,
   part |-> part, size |-> size, mode |-> "none", bare |-> FALSE]
AnyShortMount ==
  {ShortMountOf("text", n, s, t, m) : n \in 1 .. 4, s \in {SourceOf("path"), SourceOf("bare"), SourceOf("dot")},
     t \in TargetTs \cup {NoTarget}, m \in {<<"ro">>, <<"ro", "nocopy">>, <<"nocopy">>, <<"/path">>}}
  \cup {ShortMountOf(i, 1, NoSource, TargetT, <<>>) : i \in {"nothing", "number", "nul"}}
AnyLongMount ==
  {LongMountOf(y, s, t, r[1], r[2], FALSE, z) :
     y \in {"none", "bind", "volume", "tmpfs", "npipe"},
     s \in {NoSource, [NoSource EXCEPT !.is = "empty"]} \cup {SourceOf(i) : i \in {"path", "bare", "dot", "dot path", "odd", "colon", "nul"}},
     t \in TargetTs \cup {NoTarget} \cup {TargetOfMount(i, FALSE) : i \in {"number", "colon", "nul"}},
     r \in {<<FALSE, FALSE>>, <<TRUE, FALSE>>, <<FALSE, TRUE>>}, z \in {"none", "bad", "size=1"}}
MeetingMounts ==
  {ShortMountOf("text", n, SourceOf(s), t, <<"nocopy">>) : n \in 1 .. 3, s \in {"path", "bare"}, t \in TargetTs}
  \cup {LongMountOf(y, SourceOf("bare"), TargetT, r, n = "nocopy", n = "a part", "none") :
          y \in {"bind", "volume", "tmpfs"}, r \in BOOLEAN, n \in {"", "nocopy", "a part"}}
TmpfsAt(slash, key) == [target |-> TargetOfMount("path", slash), options |-> <<>>, key |-> key]
TmpfsLists ==
  {<<>>, <<TmpfsAt(FALSE, "t:size")>>, <<TmpfsAt(TRUE, "t/")>>, <<TmpfsAt(FALSE, "t:size"), TmpfsAt(FALSE, "t:size")>>,
   <<TmpfsAt(FALSE, "t:size"), TmpfsAt(FALSE, "t:mode")>>}
MCMountQuestions ==
  {[entries |-> <<e>>, tmpfs |-> <<>>] : e \in AnyShortMount \cup AnyLongMount \cup {[e EXCEPT !.bare = TRUE] : e \in {x \in AnyLongMount : x.size = "bad"}}}
  \cup {[entries |-> <<e, f>>, tmpfs |-> l] : e, f \in MeetingMounts, l \in TmpfsLists}

-----------------------------------------------------------------------------
(* The other keys: every kind of scalar, entries that name one place twice, and  *)
(* blocks that merge one another.                                                *)
MCNameOrder == <<"a", "b", "c", "nofile">>
ScalarOf(tag, text, reads) == [tag |-> tag, text |-> text, reads |-> reads]
StringOf(t) == ScalarOf("str", t, t)
Scalars == {StringOf("a"), StringOf("b"), StringOf(""), ScalarOf("null", "", ""), ScalarOf("int", "c", "c")}
UpTo2(S) == {<<>>} \cup {<<x>> : x \in S} \cup {<<x, y>> : x, y \in S}
Keyed(S) == {s \in UpTo2(S) : Cardinality({s[i].key : i \in DOMAIN s}) = Len(s)}
HeldIn(form, items) == [form |-> form, items |-> items]
DependencyOf(k, is, c, r) == [key |-> k, is |-> is, condition |-> c, required |-> r]
DependencyEntries ==
  {DependencyOf(k, "mapping", c, r) : k \in {"a", "b"}, c \in {"absent", "bare", "list", "service_started", "service_healthy"},
                                      r \in {"absent", "null", "true", "false", "word"}}
  \cup {DependencyOf(k, is, "absent", "absent") : k \in {"a", "b"}, is \in {"nothing", "other", "twice"}}
RefTargets ==
  {[is |-> i, under |-> "", name |-> ""] : i \in {"absent", "bare"}}
  \cup {[is |-> "name", under |-> "", name |-> n] : n \in {"a", "b"}}
  \cup {[is |-> "path", under |-> u, name |-> "a"] : u \in {"root", "run"}}
RefEntries ==
  {[form |-> "short", source |-> s, target |-> [is |-> "absent", under |-> "", name |-> ""]] : s \in {StringOf("a"), StringOf("b"), ScalarOf("int", "a", "a")}}
  \cup {[form |-> "long", source |-> s, target |-> t] : s \in {StringOf("a"), StringOf("b"), StringOf(""), ScalarOf("bare", "", "")}, t \in RefTargets}
Words ==
  {[tag |-> t, key |-> k, given |-> g, text |-> IF g THEN "1" ELSE ""] : t \in {"str", "int", "null"}, k \in {"a", "b"}, g \in BOOLEAN}
PairEntries ==
  {[keyTag |-> kt, key |-> k, kind |-> kd, tag |-> v[1], text |-> v[2], reads |-> v[3]] :
     kt \in {"str", "int"}, k \in {"a", "b"}, kd \in {"scalar", "list"},
     v \in {<<"str", "1", "1">>, <<"int", "0x10", "16">>, <<"int", "-0", "0">>, <<"null", "", "">>, <<"infinite", ".inf", "+Inf">>}}
EnvFileEntries ==
  {[form |-> "short", path |-> p, required |-> "absent", format |-> "absent"] : p \in Scalars}
  \cup {[form |-> "long", path |-> p, required |-> r[1], format |-> r[2]] :
          p \in {StringOf("a"), StringOf(""), ScalarOf("bare", "", ""), ScalarOf("absent", "", "")},
          r \in ({"absent", "true", "false", "word"} \X {"absent"}) \cup ({"true"} \X {"raw", "number"})}
Limits ==
  {[tag |-> t, text |-> "n", n |-> n] : t \in {"int", "str"}, n \in {-2, -1, 0, 5}}
  \cup {[tag |-> "float", text |-> "n", n |-> 5], [tag |-> "str", text |-> "word", n |-> 0], [tag |-> "int", text |-> "-0", n |-> 0]}
LimitPair(k, n) == [key |-> k, limit |-> [tag |-> "int", text |-> "n", n |-> n]]
Blocks ==
  {[b \in {"x", "y", "z"} |-> CASE b = "x" -> [own |-> o, sources |-> m] [] b = "y" -> [own |-> p, sources |-> l]
                                [] b = "z" -> [own |-> <<LimitPair("soft", 3), LimitPair("hard", 4)>>, sources |-> <<>>]] :
     o \in {<<>>, <<LimitPair("soft", 1)>>, <<LimitPair("hard", -1), LimitPair("soft", 1)>>, <<LimitPair("other", 1)>>},
     m \in {<<>>, <<"y">>, <<"y", "z">>, <<"z", "y">>, <<"a list">>},
     p \in {<<>>, <<LimitPair("soft", 2)>>, <<LimitPair("hard", 2)>>}, l \in {<<>>, <<"z">>, <<"x">>}}
UlimitEntry(k, is, limit) == [key |-> k, is |-> is, limit |-> limit, block |-> "x"]
OneLimit == CHOOSE l \in Limits : l.n = 5 /\ l.tag = "int"
Healthchecks ==
  {[test |-> t, disable |-> d, interval |-> i[1], timeout |-> i[2], startPeriod |-> "absent", retries |-> r] :
     t \in {<<>>, <<"NONE">>, <<"CMD", "a">>, <<"CMD-SHELL", "a">>, <<"a">>, <<"a", "b">>}, d \in {"absent", "true", "false", "other"},
     i \in ({"absent", "null", "blank", "5s", "word"} \X {"absent"}) \cup {<<"absent", "5s">>},
     r \in {[tag |-> "absent", text |-> "", n |-> 0], [tag |-> "int", text |-> "n", n |-> 0], [tag |-> "float", text |-> "n", n |-> 2],
            [tag |-> "str", text |-> "n", n |-> 5], [tag |-> "str", text |-> "word", n |-> 0], [tag |-> "int", text |-> "n", n |-> -1],
            [tag |-> "bool", text |-> "n", n |-> 0]}}
EntryOf(field, value) == [field |-> field, value |-> value, blocks |-> [b \in {} |-> b]]
MCEntryQuestions ==
  {EntryOf("networks", HeldIn(f, i)) : f \in {"nothing", "value", "list", "map"}, i \in UpTo2(Scalars)}
  \cup {EntryOf("depends_on", HeldIn("map", i)) : i \in Keyed(DependencyEntries)}
  \cup {EntryOf("depends_on", HeldIn("list", <<StringOf("b"), StringOf("a")>>)), EntryOf("depends_on", HeldIn("value", <<>>))}
  \cup {EntryOf(k, HeldIn("list", i)) : k \in {"configs", "secrets"}, i \in UpTo2(RefEntries)}
  \cup {EntryOf(k, HeldIn("map", <<>>)) : k \in {"configs", "secrets", "env_file"}}
  \cup {EntryOf(k, HeldIn("list", i)) : k \in {"environment", "labels"}, i \in UpTo2(Words)}
  \cup {EntryOf(k, HeldIn("map", i)) : k \in {"environment", "labels"}, i \in Keyed(PairEntries)}
  \cup {EntryOf(k, HeldIn("value", <<>>)) : k \in {"environment", "labels", "ulimits"}}
  \cup {EntryOf("env_file", HeldIn("list", i)) : i \in UpTo2(EnvFileEntries)}
  \cup {EntryOf("env_file", HeldIn("value", <<e>>)) : e \in {e \in EnvFileEntries : e.form = "short"}}
  \cup {EntryOf("ulimits", HeldIn("map", <<UlimitEntry(k, "number", l)>>)) : k \in {"a", "nofile"}, l \in Limits}
  \cup {EntryOf("ulimits", HeldIn("map", <<UlimitEntry("a", "other", OneLimit)>>))}
  \cup {[field |-> "ulimits", value |-> HeldIn("map", <<UlimitEntry("b", "number", OneLimit), UlimitEntry(k, "mapping", OneLimit)>>), blocks |-> b] :
          k \in {"a", "nofile"}, b \in Blocks}
  \cup {EntryOf("healthcheck", h) : h \in Healthchecks}
=============================================================================
