----------------------------- MODULE MountForms -----------------------------
(* A service's `volumes:` and `tmpfs:`: an entry in its short form or its long  *)
(* one, what is refused of it, the one that stands at each path, and what the   *)
(* service has from it (Volumes and Service.UnmarshalYAML of types.go).         *)
(* A source is [is, text]: "none" or "empty", a "path", a "bare" name, a name   *)
(* that starts with a "dot", a "dot path", "odd" (no name a volume has). A      *)
(* target is [is, at, slash]: the path, and whether a `/` follows it; a name or *)
(* a target may hold a colon or a NUL ("colon", "nul").                         *)
(* A short entry is [form, item, parts, source, target, modes]: one to four     *)
(* fields between colons, the options of the third in modes. A long one is      *)
(* [form, type, source, target, readOnly, nocopy, part, size, mode, bare].      *)
EXTENDS Naturals, Sequences, SequencesExt, FiniteSets, Refusals

NoSource == [is |-> "none", text |-> ""]
IsHostPath(source) == source.is \in {"path", "dot", "dot path"}
\* shortMountFields: what the runtime would read otherwise than it looks.
ShortMountFault(e) ==
  CASE e.parts > 3 -> "too many colons"
    [] e.parts \in {2, 3} /\ e.target.is = "empty" ->
         IF e.parts = 2 /\ e.source.is = "empty" THEN "none" ELSE "no target"
    [] e.parts = 3 /\ e.target.is # "empty" /\ "/path" \in ToSet(e.modes) -> "a path as the mode"
    [] OTHER -> "none"
\* A mount parsed: `source:target[:mode]`, or a tmpfs by its marker; nocopy and a dot name's
\* spelling ride along.
Parsed(kind, source, target, modes, nocopy) ==
  [kind |-> kind, source |-> source, target |-> target, modes |-> modes, nocopy |-> nocopy]
\* cutMountOption: `nocopy` is no mode of the mount, the rest are.
CutOption(modes, opt) == SelectSeq(modes, LAMBDA m : m # opt)
ReadShortMount(e) ==
  CASE e.item \in {"nothing", "number", "nul"} -> Refused(e.item)
    [] e.item = "text" /\ ShortMountFault(e) # "none" -> Refused(ShortMountFault(e))
    [] OTHER ->
         Parsed("mount", IF e.parts = 1 THEN NoSource ELSE e.source, e.target,
                IF e.parts < 3 THEN <<>> ELSE CutOption(e.modes, "nocopy"),
                e.parts = 3 /\ "nocopy" \in ToSet(e.modes))

\* tmpfsOptions: read_only, a size and a mode as the short form's options; 0 adds nothing.
BadTmpfs(e) == e.size = "bad" \/ e.mode = "bad"
TmpfsOptions(e) ==
  (IF e.readOnly THEN <<"ro">> ELSE <<>>) \o SelectSeq(<<e.size, e.mode>>, LAMBDA o : o \notin {"none", "0"})

\* A volume's name in the long form: not a path, nor what no volume is called.
NoVolumeName(source) == source.is \in {"path", "dot path", "odd", "colon"}
LongMountFault(e) ==
  CASE e.bare \/ e.target.is = "number" -> "bare key or a number"
    [] ~e.bare /\ e.target.is # "number" /\ (e.target.is = "nul" \/ e.source.is = "nul") -> "NUL"
    [] OTHER ->
         CASE e.target.is = "empty" -> "no target"
           [] e.target.is # "empty" /\ e.type = "none" -> "no type"
           [] OTHER ->
                IF e.target.is = "colon" \/ (e.type = "bind" /\ e.source.is = "colon") THEN "colon"
                ELSE IF BadTmpfs(e) THEN "tmpfs options"
                ELSE IF e.type \notin {"bind", "volume", "tmpfs"} THEN "type"
                ELSE IF e.type = "bind" /\ e.source.is = "none" THEN "bind with no source"
                ELSE IF e.type = "volume" /\ NoVolumeName(e.source) THEN "volume name" ELSE "none"
\* The type decides what a source is, and the spelling has to say the same after it.
SpeltBind(source) == IF IsHostPath(source) THEN source ELSE [is |-> "path", text |-> source.text]
DotVolumeKey(source) == IF source.is = "dot" THEN [is |-> "dot volume", text |-> source.text] ELSE source
ReadLongMount(e) ==
  LET source == CASE e.source.is \in {"none", "empty"} -> NoSource
                  [] e.source.is \notin {"none", "empty"} /\ e.type = "bind" -> SpeltBind(e.source)
                  [] OTHER -> DotVolumeKey(e.source)
  IN CASE LongMountFault(e) # "none" -> Refused(LongMountFault(e))
       [] LongMountFault(e) = "none" /\ e.type = "tmpfs" -> Parsed("tmpfs", NoSource, e.target, TmpfsOptions(e), FALSE)
       [] OTHER -> Parsed("mount", source, e.target, IF e.readOnly THEN <<"ro">> ELSE <<>>, e.nocopy)
ReadMount(e) == IF e.form = "short" THEN ReadShortMount(e) ELSE ReadLongMount(e)

\* targetKey: the path without the `/` after it, `/` itself for the root.
TargetKey(target) == IF target.is = "empty" THEN "" ELSE target.at
\* The last of those at one key, where the first stood; what has no key stays as it is.
LastAtEach(entries, Key(_)) ==
  FoldLeft(LAMBDA acc, e :
             LET same == {i \in DOMAIN acc : Key(acc[i]) = Key(e) /\ Key(e) # ""}
             IN IF same = {} THEN Append(acc, e) ELSE [acc EXCEPT ![CHOOSE i \in same : TRUE] = e],
           <<>>, entries)
CollapseVolumeEntries(mounts) == LastAtEach(mounts, LAMBDA m : TargetKey(m.target))
\* A `tmpfs:` entry is [target, options, key]: two are one where they are alike up to a `=`.
CollapseTmpfsEntries(tmpfs) == LastAtEach(tmpfs, LAMBDA t : t.key)
\* mountConflicts: a target two of `tmpfs:` mount as it is written, or a volume's, without
\* its `/`, that one of them does.
AsSpelt(target) == [at |-> target.at, slash |-> target.slash]
MountConflicts(tmpfs, mounts) ==
  {tmpfs[j].target.at : j \in {j \in DOMAIN tmpfs : \E i \in 1 .. j - 1 :
                                  AsSpelt(tmpfs[i].target) = AsSpelt(tmpfs[j].target)}}
  \cup {m.target.at : m \in {m \in ToSet(mounts) : \E i \in DOMAIN tmpfs :
                                AsSpelt(tmpfs[i].target) = [at |-> TargetKey(m.target), slash |-> FALSE]}}

\* Mutation: a part of a volume is kept of the entry that asked for one, whatever stands there.
KeepsEveryPart(entries) ==
  SelectSeq(entries, LAMBDA e : e.form = "long" /\ e.type = "volume" /\ e.part)
\* volumeSubpaths: of the entries as written, the parts of volumes the last ones ask for.
VolumeSubpaths(entries) ==
  SelectSeq(LastAtEach(entries, LAMBDA e : TargetKey(e.target)),
            LAMBDA e : e.form = "long" /\ e.type = "volume" /\ e.part)

\* Service.UnmarshalYAML, of the two lists.
AsTmpfs(mounts) == [i \in DOMAIN mounts |-> [target |-> mounts[i].target, options |-> mounts[i].modes, key |-> ""]]
MountsFrom(mounts, temporary, parts) ==
  [volumes |-> SelectSeq(mounts, LAMBDA m : m.kind = "mount"),
   tmpfs |-> temporary \o AsTmpfs(SelectSeq(mounts, LAMBDA m : m.kind = "tmpfs")),
   nocopy |-> {m.target : m \in {m \in ToSet(mounts) : m.kind = "mount" /\ m.nocopy}},
   parts |-> {e.target.at : e \in ToSet(parts)},
   conflicts |-> MountConflicts(temporary, mounts)]
TakenMounts(entries, read, tmpfs) ==
  FirstRefusedOr(read, MountsFrom(CollapseVolumeEntries(read), CollapseTmpfsEntries(tmpfs), VolumeSubpaths(entries)))
ReadMounts(entries, tmpfs) == TakenMounts(entries, [i \in DOMAIN entries |-> ReadMount(entries[i])], tmpfs)

\* ClassifyMount: what the source's spelling says it is, which is what it runs as.
ClassifyMount(source) ==
  CASE source.is \in {"none", "empty"} -> "anonymous"
    [] IsHostPath(source) -> "bind"
    [] OTHER -> "named"

-----------------------------------------------------------------------------
(* Reference: what is mounted at each path, by the last entry written for it.  *)

MeansKind(e) ==
  CASE e.form = "long" -> IF e.type = "bind" /\ e.source.is # "empty" THEN "bind"
                          ELSE IF e.type = "tmpfs" THEN "tmpfs"
                          ELSE IF e.source.is \in {"none", "empty"} THEN "anonymous" ELSE "named"
    [] e.form = "short" -> IF e.parts = 1 \/ e.source.is = "empty" THEN "anonymous"
                           ELSE IF IsHostPath(e.source) THEN "bind" ELSE "named"
MeansReadOnly(e) == IF e.form = "long" THEN e.readOnly ELSE e.parts = 3 /\ "ro" \in ToSet(e.modes)
MeansNoCopy(e) ==
  IF e.form = "long" THEN e.type # "tmpfs" /\ e.nocopy ELSE e.parts = 3 /\ "nocopy" \in ToSet(e.modes)
MeansPart(e) == e.form = "long" /\ e.type = "volume" /\ e.part

\* What stands at a path, here and in a `tmpfs:`, is what the entry asks for.
StandsAsWritten(e, t, here, there, a) ==
  /\ Cardinality(here) = (IF MeansKind(e) = "tmpfs" THEN 0 ELSE 1)
  /\ MeansKind(e) = "tmpfs" => there # {}
  /\ \A m \in here :
       /\ ClassifyMount(m.source) = MeansKind(e)
       /\ m.source.text = (IF MeansKind(e) = "anonymous" THEN "" ELSE e.source.text)
       /\ "ro" \in ToSet(m.modes) <=> MeansReadOnly(e)
       /\ m.target \in a.nocopy <=> MeansNoCopy(e)
  /\ t \in a.parts <=> MeansPart(e)
  /\ Cardinality(there) + Cardinality(here) > 1 => t \in a.conflicts \/ \E m \in there : m.target.slash
\* A service whose lists are taken has at each path one mount, of the kind, the source and
\* the switches the last entry written for the path asks for, and at no other; unless a
\* `tmpfs:` entry is at that path as well, which is named for the commands to refuse.
MountsAsWrittenOf(entries, tmpfs, a) ==
  ~IsRefused(a) =>
    \A i \in DOMAIN entries :
      LET At(target) == TargetKey(target) = TargetKey(entries[i].target) IN
      TargetKey(entries[i].target) # "" /\ (\A j \in DOMAIN entries : j > i => ~At(entries[j].target))
        => StandsAsWritten(entries[i], TargetKey(entries[i].target), {m \in ToSet(a.volumes) : At(m.target)},
                           {m \in ToSet(a.tmpfs) : At(m.target)}, a)
=============================================================================
