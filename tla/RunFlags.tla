------------------------------ MODULE RunFlags ------------------------------
(* What a service comes to as a `container run`: the options, the flags and   *)
(* words on the line, and the fingerprint by which a later `up` knows whether *)
(* the container it finds is still what the file asks for.  A word is a text. *)
EXTENDS Naturals, Sequences, SequencesExt, FiniteSets, FiniteSetsExt, Refusals

CONSTANT WordOrder    \* every word, as bytes sort them

NoWord == ""
PlaceOf(w) == CHOOSE i \in DOMAIN WordOrder : WordOrder[i] = w
InByteOrder(words) == SortSeq(words, LAMBDA v, w : PlaceOf(v) < PlaceOf(w))
Switch(on, words) == IF on THEN words ELSE <<>>

\* A service as it is loaded: its words and its groups in lists, and no group a number
\* without a digit; and an image as the runtime knows it.
IsService(svc) ==
  /\ svc.entrypoint \in Seq(ToSet(svc.entrypoint)) /\ svc.command \in Seq(ToSet(svc.command))
  /\ svc.groupAdd \in Seq(ToSet(svc.groupAdd))
  /\ \A g \in ToSet(svc.groupAdd) : g.numeric => g.text # NoWord
IsImage(there) == there.cmd \in Seq(ToSet(there.cmd)) /\ there.entrypoint \in Seq(ToSet(there.entrypoint))

-----------------------------------------------------------------------------
(* From the service to the options.                                        *)

\* A label [word, pieces] is cut at every `=`; the runtime counts the first two it cuts.
LabelRuntimeRefuses(label) ==
  LET pieces == label.pieces
      counted == {i \in 1 .. Len(pieces) - 1 : pieces[i] # NoWord}
      two == {i \in counted : Cardinality({j \in counted : j <= i}) <= 2}
      rest == IF Cardinality(two) = 2 THEN SubSeq(pieces, Max(two) + 1, Len(pieces)) ELSE <<Last(pieces)>>
  IN Cardinality(two) + (IF rest = <<NoWord>> THEN 0 ELSE 1) \notin {1, 2}
LabelsTheRuntimeTakes(labels) ==
  LET taken == SelectSeq(labels, LAMBDA l : ~LabelRuntimeRefuses(l)) IN [i \in DOMAIN taken |-> taken[i].word]
\* A group [text, numeric, reading, fits, hasDigits]: numeric, and what `--gid` reads it as,
\* and whether that is a gid the docker engine takes.  The line carries one group, and none
\* beside a user.
GidOf(svc) ==
  IF Len(svc.groupAdd) = 1 /\ svc.groupAdd[1].numeric /\ svc.groupAdd[1].fits /\ svc.user = NoWord
  THEN svc.groupAdd[1].text ELSE NoWord
GroupNamed(g) == IF g.numeric THEN g.reading ELSE g.text
\* checkGroupAdd: why a service's groups are refused, "" when they are not; a spelling
\* written more than once is refused as such where it would start, once.
OneGroupRefused(g, user) ==
  CASE g.text = NoWord -> "empty"
    [] g.text # NoWord /\ ~g.numeric -> IF g.hasDigits THEN "not digits" ELSE "a name"
    [] g.numeric /\ ~g.fits -> "out of range"
    [] g.numeric /\ g.fits -> IF user # NoWord THEN "beside a user" ELSE ""
GroupsRefused(svc) ==
  LET named == {GroupNamed(g) : g \in ToSet(svc.groupAdd)}
      first == OneGroupRefused(svc.groupAdd[1], svc.user)
  IN CASE svc.groupAdd = <<>> -> ""
       [] Cardinality(named) > 1 -> "several"
       [] OTHER -> IF Len(svc.groupAdd) > 1 /\ first = "" THEN "repeated" ELSE first
ServiceNetworks(svc) ==
  IF svc.isolated THEN [networks |-> <<"none">>, domain |-> NoWord, search |-> NoWord]
  ELSE [networks |-> svc.networks, domain |-> svc.dnsDomain, search |-> svc.dnsSearch]
ImageToRun(name, svc) == IF svc.build /\ svc.image = NoWord THEN name ELSE svc.image

RunOptionsOf(name, svc) ==
  [image |-> ImageToRun(name, svc), built |-> svc.build, nets |-> ServiceNetworks(svc),
   volumes |-> svc.volumes \o svc.secrets \o svc.configs \o Switch(svc.tools, <<"mcp">>),
   env |-> svc.env \o Switch(svc.tools, <<"MCP_CONFIG">>),
   labels |-> Append(LabelsTheRuntimeTakes(svc.labels), "project"),
   gid |-> GidOf(svc),
   svc |-> svc]    \* what goes over as it is written

-----------------------------------------------------------------------------
(* The fingerprint: one run of words, with nothing between the lists but their tags. *)

Tagged(tag, words) == <<tag>> \o words
WhenGiven(tag, word) == Switch(word # NoWord, <<tag, word>>)
WhenAny(tag, words) == Switch(words # <<>>, Tagged(tag, InByteOrder(words)))
\* Mutation: an entrypoint taken away hashes like one never written.
HashOfWordsAlone(svc) == Tagged("command", svc.command) \o Tagged("entrypoint", svc.entrypoint)
HashOfWords(svc) ==
  Tagged("command", svc.command) \o Tagged("entrypoint", svc.entrypoint)
    \o Switch(svc.entrypointCleared, <<"entrypoint-cleared">>)
ConfigHash(o) ==
  <<"image", o.image, "platform", o.svc.platform, "network">> \o o.nets.networks
    \o <<"dns", o.nets.domain, o.nets.search, "memory", o.svc.memory, "cpus", o.svc.cpus>>
    \o Tagged("env", InByteOrder(o.env)) \o Tagged("ports", InByteOrder(o.svc.ports)) \o Tagged("volumes", InByteOrder(o.volumes))
    \o Tagged("tmpfs", InByteOrder(o.svc.tmpfs)) \o Tagged("labels", InByteOrder(o.labels)) \o HashOfWords(o.svc)
    \o WhenGiven("mac", o.svc.mac) \o WhenGiven("shm", o.svc.shm) \o WhenAny("ulimits", o.svc.ulimits)
    \o Switch(o.svc.ssh, <<"ssh">>) \o Switch(o.svc.init, <<"init">>) \o Switch(o.svc.readOnly, <<"read_only">>)
    \o Switch(o.svc.tty, <<"tty">>) \o WhenGiven("user", o.svc.user) \o WhenGiven("gid", o.gid)
    \o WhenGiven("workdir", o.svc.workdir) \o WhenAny("cap_add", o.svc.capAdd) \o WhenAny("cap_drop", o.svc.capDrop)

-----------------------------------------------------------------------------
(* The line: flags, the image, the words behind it.                        *)

Flag(f, word) == <<f, word>>
FlagIf(f, word) == Switch(word # NoWord, <<Flag(f, word)>>)
EachOf(f, words) == [i \in DOMAIN words |-> Flag(f, words[i])]
IsAMD64(platform) == platform \in {"linux/amd64", "linux/x86_64"}
NetworkFlags(o) ==
  [i \in DOMAIN o.nets.networks |->
     <<"--network", o.nets.networks[i],
       IF i = 1 /\ o.nets.networks[i] # "none" THEN o.svc.mac ELSE NoWord>>]
FlagsOf(o) ==
  Switch(o.svc.tty, <<Flag("-t", NoWord)>>) \o Switch(o.svc.ssh, <<Flag("--ssh", NoWord)>>)
    \o Switch(o.svc.init, <<Flag("--init", NoWord)>>) \o Switch(o.svc.readOnly, <<Flag("--read-only", NoWord)>>)
    \o FlagIf("--shm-size", o.svc.shm) \o EachOf("--ulimit", o.svc.ulimits)
    \o FlagIf("--gid", o.gid) \o FlagIf("--user", o.svc.user) \o FlagIf("--workdir", o.svc.workdir)
    \o EachOf("--cap-add", o.svc.capAdd) \o EachOf("--cap-drop", o.svc.capDrop)
    \o FlagIf("--platform", o.svc.platform) \o Switch(IsAMD64(o.svc.platform), <<Flag("--rosetta", NoWord)>>)
    \o FlagIf("-m", o.svc.memory) \o FlagIf("-c", o.svc.cpus) \o NetworkFlags(o)
    \o FlagIf("--dns-domain", o.nets.domain) \o FlagIf("--dns-search", o.nets.search)
    \o EachOf("--env", o.env) \o EachOf("-p", o.svc.ports) \o EachOf("-v", o.volumes)
    \o EachOf("--tmpfs", o.svc.tmpfs) \o EachOf("--label", o.labels)

\* commandToRunWithoutEntrypoint: there: what the runtime knows of the image, before and
\* after a pull (a build's image is in no registry).
ImageCmdRead(o, there) == there.read \/ (~o.built /\ there.pulls)
FirstAsEntrypoint(words) ==
  IF words = <<>> \/ Head(words) = NoWord THEN Refused("no program")
  ELSE [entrypoint |-> <<Head(words)>>, words |-> Tail(words)]
CommandToRunWithoutEntrypoint(o, there) ==
  IF o.svc.command # <<>> THEN FirstAsEntrypoint(o.svc.command)
  ELSE IF ImageCmdRead(o, there) THEN FirstAsEntrypoint(there.cmd) ELSE Refused("not read")
\* Run: the words of an entrypoint past its first go behind the image, before the command.
RunWords(o, there) ==
  LET ep == o.svc.entrypoint
  IN CASE Len(ep) > 1 /\ ep[1] = NoWord -> Refused("empty word")
       [] ep = <<NoWord>> /\ o.svc.command = <<>> -> Refused("no command")
       [] (ep = <<NoWord>> /\ o.svc.command # <<>>) \/ (ep = <<>> /\ o.svc.entrypointCleared) ->
            CommandToRunWithoutEntrypoint(o, there)
       [] ep = <<>> /\ ~o.svc.entrypointCleared -> [entrypoint |-> <<>>, words |-> o.svc.command]
       [] OTHER -> [entrypoint |-> <<Head(ep)>>, words |-> Tail(ep) \o o.svc.command]
Run(o, there) == [flags |-> FlagsOf(o), image |-> o.image, line |-> RunWords(o, there)]

\* The runtime: words behind the image take the place of its command, and `--entrypoint`
\* that of both.
ProcessOf(line, there) ==
  IF line.entrypoint # <<>> THEN line.entrypoint \o line.words
  ELSE there.entrypoint \o (IF line.words # <<>> THEN line.words ELSE there.cmd)

-----------------------------------------------------------------------------
\* Two services of one fingerprint make the same container: the same flags, whatever
\* the order of those whose order says nothing, and the same words.
Counts(flags) == {<<f, Cardinality({i \in DOMAIN flags : flags[i] = f})>> : f \in ToSet(flags)}
Networks(flags) == SelectSeq(flags, LAMBDA f : f[1] = "--network")
SameRun(a, b) ==
  /\ a.image = b.image /\ a.line = b.line
  /\ Counts(a.flags) = Counts(b.flags) /\ Networks(a.flags) = Networks(b.flags)
HashTellsApartOf(made) ==
  \A s, t \in DOMAIN made : made[s].hash = made[t].hash => SameRun(made[s].run, made[t].run)

\* What runs in the container is what docker would run: the entrypoint the file or else
\* the image gives, then the file's command, and the image's where neither stands in the
\* way; and where docker would have no program to run, nothing is started.
DockerRuns(svc, there) ==
  CASE svc.entrypoint \notin {<<>>, <<NoWord>>} -> svc.entrypoint \o svc.command
    [] svc.entrypoint = <<NoWord>> -> svc.command
    [] svc.entrypoint = <<>> /\ svc.entrypointCleared -> IF svc.command # <<>> THEN svc.command ELSE there.cmd
    [] OTHER -> there.entrypoint \o (IF svc.command # <<>> THEN svc.command ELSE there.cmd)
NamesAProgram(words) == words # <<>> /\ Head(words) # NoWord
WordsAreRunOf(svc, run, there) ==
  IF IsRefused(run.line)
  THEN ~NamesAProgram(DockerRuns(svc, there)) \/ (svc.entrypointCleared /\ ~there.read /\ (svc.build \/ ~there.pulls))
  ELSE ProcessOf(run.line, there) = DockerRuns(svc, there)

\* A group the file adds is on the line or the service is refused for it, never started
\* without it; and what one `--gid` can say is not refused.
GroupsAreHandedOverOf(svc) ==
  /\ GroupsRefused(svc) = "" => ToSet(svc.groupAdd) = {} \/ {GidOf(svc)} = {g.text : g \in ToSet(svc.groupAdd)}
  /\ GidOf(svc) # NoWord => GroupsRefused(svc) = ""
=============================================================================
