----------------------------- MODULE EntryForms -----------------------------
(* The keys of a service that are written as a list, as a mapping or as one     *)
(* value: networks, depends_on, configs and secrets, environment, labels,       *)
(* env_file, ulimits and healthcheck (the UnmarshalYAML of types.go).           *)
(* A scalar is [tag, text, reads]: what YAML takes it for, its text, and the    *)
(* text of what YAML reads it as. A key is a question's field, what it holds    *)
(* its value: [form, items], a list of scalars or of what a field's section     *)
(* says, or a mapping's keys in order.                                          *)
EXTENDS Integers, Sequences, SequencesExt, FiniteSets, Refusals

CONSTANT NameOrder   \* the keys there could be, as bytes sort them

KeysInOrder(names) == SelectSeq(NameOrder, LAMBDA n : n \in names)
\* nonStringWord, refuseNonString: what YAML took for something else than a string.
NonString(s) == s.tag \in {"int", "float", "bool", "date"}
NullScalar(s) == s.tag = "null"
FirstFault(faults) ==
  LET bad == SelectSeq(faults, LAMBDA f : f # "none") IN IF bad = <<>> THEN "none" ELSE Head(bad)
AsRead(fault, answer) == IF fault # "none" THEN Refused(fault) ELSE answer

-----------------------------------------------------------------------------
(* networks: a list of names, or a mapping keyed by them.                       *)

\* refuseEmptyOrRepeatedNetwork
NamesFault(names) ==
  IF "" \in ToSet(names) THEN "empty"
  ELSE IF Cardinality(ToSet(names)) # Len(names) THEN "twice" ELSE "none"
ReadNetworks(v) ==
  LET names == [i \in DOMAIN v.items |-> IF NullScalar(v.items[i]) THEN "" ELSE v.items[i].text]
  IN CASE v.form = "nothing" -> [names |-> <<>>]
       [] v.form = "value" -> Refused("a list or a mapping")
       [] OTHER ->
            IF \E i \in DOMAIN v.items : NonString(v.items[i]) THEN Refused("not a string")
            ELSE AsRead(NamesFault(names), [names |-> IF v.form = "list" THEN names ELSE KeysInOrder(ToSet(names))])

(* depends_on: names, or entries [key, is, condition, required].                *)
ServiceStarted == "service_started"
DependencyFault(e) ==
  CASE e.is = "other" -> "a mapping"
    [] e.is # "other" /\ e.condition = "bare" -> "bare condition"
    [] OTHER ->
         CASE e.is = "twice" -> "a key twice"
           [] e.is # "twice" /\ e.condition = "list" -> "condition"
           [] OTHER -> IF e.required = "absent" THEN "none"
                       ELSE IF e.condition = "absent" THEN "no condition"
                       ELSE IF e.required \notin {"true", "false"} THEN "required" ELSE "none"
ReadDependsOn(v) ==
  LET order == KeysInOrder({e.key : e \in ToSet(v.items)})
      Entry(n) == CHOOSE e \in ToSet(v.items) : e.key = n
      Read(e) == [key |-> e.key, condition |-> IF e.condition = "absent" THEN ServiceStarted ELSE e.condition,
                  optional |-> e.required = "false"]
  IN CASE v.form = "list" -> [deps |-> [i \in DOMAIN v.items |-> [key |-> v.items[i].text, condition |-> ServiceStarted, optional |-> FALSE]]]
       [] v.form = "map" -> AsRead(FirstFault([i \in DOMAIN order |-> DependencyFault(Entry(order[i]))]),
                                   [deps |-> [i \in DOMAIN order |-> Read(Entry(order[i]))]])
       [] OTHER -> Refused("a list or a mapping")

-----------------------------------------------------------------------------
(* configs and secrets: a name, or [source, target]; a place is <<where, name>>: *)
(* a config's at the root, a secret's under /run/secrets.                        *)

\* SecretPath, and a config's: a name is taken where such files are, a path as it is.
PlacedAt(kind, target) ==
  IF target.is = "path" THEN <<target.under, target.name>>
  ELSE <<IF kind = "secrets" THEN "run" ELSE "root", target.name>>
NameAsTarget(n) == [is |-> "name", under |-> "", name |-> n]
RefFault(kind, e) ==
  CASE e.form = "short" -> IF NonString(e.source) THEN "not a string" ELSE "none"
    [] e.form = "long" -> IF e.source.tag = "bare" \/ (kind = "configs" /\ e.target.is = "bare") THEN "bare key"
                          ELSE IF e.source.text = "" THEN "no source" ELSE "none"
ReadRef(kind, e) ==
  LET target == IF e.form = "short" \/ e.target.is \in {"absent", "bare"} THEN NameAsTarget(e.source.text) ELSE e.target
  IN [source |-> e.source.text, at |-> PlacedAt(kind, target), key |-> PlacedAt(kind, target)]
\* Entries at one place are one entry, the last written, where the first stood.
KeepLast(refs) ==
  FoldLeft(LAMBDA acc, r : LET same == {i \in DOMAIN acc : acc[i].key = r.key}
                           IN IF same = {} THEN Append(acc, r) ELSE [acc EXCEPT ![CHOOSE i \in same : TRUE] = r],
           <<>>, refs)
ReadRefs(kind, v) ==
  IF v.form # "list" THEN Refused("a list")
  ELSE AsRead(FirstFault([i \in DOMAIN v.items |-> RefFault(kind, v.items[i])]),
              [refs |-> KeepLast([i \in DOMAIN v.items |-> ReadRef(kind, v.items[i])])])

-----------------------------------------------------------------------------
(* environment and labels: words [tag, key, given, text] with a `=` or none, or  *)
(* entries [keyTag, key, kind, tag, text, reads].                                *)

WordFault(w) == IF NullScalar(w) THEN "empty" ELSE IF NonString(w) THEN "not a string" ELSE "none"
\* refuseNonStringKeys, refuseNonScalarValue
PairFault(e) ==
  IF e.keyTag # "str" THEN "key" ELSE IF e.kind # "scalar" \/ e.tag = "infinite" THEN "value" ELSE "none"
VariableOf(e) ==
  IF e.tag = "null" THEN [key |-> e.key, given |-> FALSE, text |-> ""]
  ELSE [key |-> e.key, given |-> TRUE, text |-> e.reads]
\* A label with no value is the empty one, and keeps the sign of a zero.
LabelOf(e) == [key |-> e.key, given |-> TRUE, text |-> IF e.tag = "null" THEN "" ELSE IF e.text = "-0" THEN "-0" ELSE e.reads]
ReadPairs(field, v) ==
  LET order == KeysInOrder({e.key : e \in ToSet(v.items)})
      Entry(n) == CHOOSE e \in ToSet(v.items) : e.key = n
      Word(w) == [key |-> w.key, given |-> w.given \/ field = "labels", text |-> w.text]
  IN CASE v.form = "list" ->
            AsRead(FirstFault([i \in DOMAIN v.items |-> WordFault(v.items[i])]),
                   [pairs |-> [i \in DOMAIN v.items |-> Word(v.items[i])]])
       [] v.form = "map" ->
            AsRead(FirstFault([i \in DOMAIN v.items |-> PairFault(v.items[i])]),
                   [pairs |-> [i \in DOMAIN order |->
                      IF field = "labels" THEN LabelOf(Entry(order[i])) ELSE VariableOf(Entry(order[i]))]])
       [] OTHER -> Refused("a list or a mapping")

(* env_file: a path, or entries [form, path, required, format].                 *)
EnvFileFault(e) ==
  IF e.form = "short"
  THEN IF NullScalar(e.path) \/ e.path.text = "" THEN "empty" ELSE IF NonString(e.path) THEN "not a string" ELSE "none"
  ELSE CASE e.path.tag \in {"bare", "absent"} -> "no path"
         [] e.path.tag \notin {"bare", "absent"} /\ e.required = "word" -> "required"
         [] OTHER -> IF e.path.text = "" THEN "no path" ELSE IF e.format = "number" THEN "format" ELSE "none"
ReadEnvFile(e) ==
  [path |-> e.path.text, required |-> e.form = "short" \/ e.required # "false",
   format |-> IF e.form = "short" \/ e.format = "absent" THEN "" ELSE e.format]
ReadEnvFiles(v) ==
  CASE v.form = "value" ->
         LET s == v.items[1] IN
         IF NonString(s.path) THEN Refused("not a string") ELSE IF s.path.text = "" THEN Refused("empty")
         ELSE [files |-> <<ReadEnvFile(s)>>]
    [] v.form = "list" -> AsRead(FirstFault([i \in DOMAIN v.items |-> EnvFileFault(v.items[i])]),
                                 [files |-> [i \in DOMAIN v.items |-> ReadEnvFile(v.items[i])]])
    [] OTHER -> Refused("a string or a list")

-----------------------------------------------------------------------------
(* ulimits: a number, or a block of soft and hard; blocks is what each block     *)
(* holds, [own, sources]: its own pairs [key, n] and the blocks it merges, in    *)
(* order; "list" is a source that is no mapping.                                 *)

\* mergedPairs: its own keys, then of each source those still missing; a block that comes
\* to itself, or a source that is no mapping, is refused.
RECURSIVE MergedPairs(_, _, _)
MergedPairs(blocks, b, walking) ==
  IF b \notin DOMAIN blocks THEN Refused("not a mapping")
  ELSE IF b \in walking THEN Refused("merges itself")
  ELSE LET below == [i \in DOMAIN blocks[b].sources |-> MergedPairs(blocks, blocks[b].sources[i], walking \cup {b})]
           Missing(acc, pairs) == SelectSeq(pairs, LAMBDA p : \A i \in DOMAIN acc : acc[i].key # p.key)
       IN FirstRefusedOr(below, [pairs |-> FoldLeft(LAMBDA acc, r : acc \o Missing(acc, r.pairs), blocks[b].own, below)])

\* A whole number; -1, which is no limit, of every limit but nofile.
LimitFault(name, s) ==
  IF s.tag \notin {"int", "str"} \/ s.text \in {"-0", "word"} THEN "a whole number"
  ELSE IF s.n < 0 /\ (s.n # -1 \/ name = "nofile") THEN "negative" ELSE "none"
BlockFault(name, pairs) ==
  LET unknown == {p \in ToSet(pairs) : p.key \notin {"soft", "hard"}}
      faults == FirstFault([i \in DOMAIN pairs |-> IF pairs[i] \in unknown THEN "key" ELSE LimitFault(name, pairs[i].limit)])
  IN IF faults # "none" THEN faults
     ELSE IF {p.key : p \in ToSet(pairs)} # {"soft", "hard"} THEN "soft and hard" ELSE "none"
LimitIn(pairs, key) == (CHOOSE p \in ToSet(pairs) : p.key = key).limit.n
LimitOfBlock(name, merged) ==
  IF IsRefused(merged) THEN merged
  ELSE AsRead(BlockFault(name, merged.pairs), [soft |-> LimitIn(merged.pairs, "soft"), hard |-> LimitIn(merged.pairs, "hard")])
ReadUlimit(name, e, blocks) ==
  CASE e.is = "other" -> Refused("a number or a mapping")
    [] e.is = "number" -> AsRead(LimitFault(name, e.limit), [soft |-> e.limit.n, hard |-> e.limit.n])
    [] OTHER -> LimitOfBlock(name, MergedPairs(blocks, e.block, {}))
LimitsFrom(v, read) ==
  FirstRefusedOr(read, [limits |-> [i \in DOMAIN v.items |-> [key |-> v.items[i].key, limit |-> read[i]]]])
ReadUlimits(v, blocks) ==
  IF v.form # "map" THEN Refused("a mapping")
  ELSE LimitsFrom(v, [i \in DOMAIN v.items |-> ReadUlimit(v.items[i].key, v.items[i], blocks)])
\* Args: one number where the two are one, in the order of the names.
UlimitArgs(limits) ==
  LET order == KeysInOrder({l.key : l \in ToSet(limits)})
      Of(n) == (CHOOSE l \in ToSet(limits) : l.key = n).limit
  IN [i \in DOMAIN order |-> IF Of(order[i]).soft = Of(order[i]).hard THEN <<order[i], Of(order[i]).soft>>
                             ELSE <<order[i], Of(order[i]).soft, Of(order[i]).hard>>]

-----------------------------------------------------------------------------
(* healthcheck: [test, disable, interval, timeout, startPeriod, retries].       *)

NoTest == [off |-> FALSE, shell |-> FALSE, words |-> <<>>]
\* A directive and what follows it, one text for a shell, or a command.
TestOf(words) ==
  CASE words = <<>> -> NoTest
    [] words # <<>> /\ Head(words) = "NONE" -> [NoTest EXCEPT !.off = TRUE]
    [] OTHER ->
         CASE Head(words) = "CMD" -> [NoTest EXCEPT !.words = Tail(words)]
           [] Head(words) = "CMD-SHELL" -> [NoTest EXCEPT !.shell = TRUE, !.words = Tail(words)]
           [] OTHER -> [NoTest EXCEPT !.shell = Len(words) = 1, !.words = words]
\* `disable: true` wins over any test.
SwitchedOff(t, disable) == IF disable = "true" THEN [NoTest EXCEPT !.off = TRUE] ELSE t
\* durationOf: left out or written bare is the default, a blank is none.
DurationFault(d) == IF d \in {"blank", "word"} THEN "duration" ELSE "none"
DurationOr(d, default) == IF d \in {"absent", "null"} THEN default ELSE d
\* retriesCount: a whole number, or a bare decimal, which is cut; 0 is the default.
RetriesFault(r) ==
  CASE r.tag \in {"absent", "null"} -> "none"
    [] r.tag \in {"int", "float"} -> IF r.n < 0 THEN "retries" ELSE "none"
    [] r.tag = "str" -> IF r.text = "word" \/ r.n < 0 THEN "retries" ELSE "none"
    [] OTHER -> "retries"
RetriesOr(r, default) == IF r.tag \in {"absent", "null"} \/ r.n = 0 THEN default ELSE r.n
ReadHealthcheck(v) ==
  LET fault == FirstFault(<<IF v.disable = "other" THEN "disable" ELSE "none", DurationFault(v.interval),
                            DurationFault(v.timeout), DurationFault(v.startPeriod), RetriesFault(v.retries)>>)
  IN AsRead(fault, [check |-> SwitchedOff(TestOf(v.test), v.disable),
                    interval |-> DurationOr(v.interval, "30s"), timeout |-> DurationOr(v.timeout, "30s"),
                    startPeriod |-> DurationOr(v.startPeriod, "0s"), retries |-> RetriesOr(v.retries, 3)])

\* A question is [field, value, blocks].
ReadEntry(q) ==
  CASE q.field = "networks" -> ReadNetworks(q.value)
    [] q.field = "depends_on" -> ReadDependsOn(q.value)
    [] q.field \in {"configs", "secrets"} -> ReadRefs(q.field, q.value)
    [] q.field \in {"environment", "labels"} -> ReadPairs(q.field, q.value)
    [] q.field = "env_file" -> ReadEnvFiles(q.value)
    [] q.field = "ulimits" -> ReadUlimits(q.value, q.blocks)
    [] q.field = "healthcheck" -> ReadHealthcheck(q.value)

-----------------------------------------------------------------------------
(* Reference: what a key says, whatever form it is written in.                  *)

InListForm(v) == [v EXCEPT !.form = "list"]
NetworksInTwoFormsOf(v, a) ==
  v.form = "map" => LET l == ReadNetworks(InListForm(v)) IN
    /\ IsRefused(l) <=> IsRefused(a)
    /\ ~IsRefused(a) => ToSet(l.names) = ToSet(a.names)

\* Every name is waited for as its entry says, one with nothing but a name as the list has
\* it, and none is optional that does not say so.
DependenciesAsWrittenOf(v, a) ==
  ~IsRefused(a) /\ v.form = "map" =>
    /\ {d.key : d \in ToSet(a.deps)} = {e.key : e \in ToSet(v.items)} /\ Len(a.deps) = Len(v.items)
    /\ \A e \in ToSet(v.items), d \in ToSet(a.deps) : d.key = e.key =>
         /\ e.condition \in {"absent", ServiceStarted} <=> d.condition = ServiceStarted
         /\ d.optional => e.required = "false" /\ e.condition # "absent"

\* One file at a place, of the last entry written for it.
LastAtItsPlaceOf(kind, v, a) ==
  ~IsRefused(a) => LET Place(i) == ReadRef(kind, v.items[i]).at IN
    \A i \in DOMAIN v.items :
      (\A j \in DOMAIN v.items : Place(j) = Place(i) => j <= i)
        => {k \in DOMAIN a.refs : a.refs[k].at = Place(i)} # {} /\
           \A k \in DOMAIN a.refs : a.refs[k].at = Place(i) =>
             /\ a.refs[k].source = v.items[i].source.text
             /\ \A l \in DOMAIN a.refs : a.refs[l].at = Place(i) => l = k

\* A mapping's entry is the word `key=value`, or the bare `key`, it would be in a list.
PairsInTwoFormsOf(field, v, a) ==
  v.form = "map" /\ ~IsRefused(a) =>
    LET WordOf(e) == [tag |-> "str", key |-> e.key, given |-> ~NullScalar(e),
                      text |-> IF NullScalar(e) THEN "" ELSE IF field = "labels" /\ e.text = "-0" THEN "-0" ELSE e.reads]
        l == ReadPairs(field, [form |-> "list", items |-> [i \in DOMAIN v.items |-> WordOf(v.items[i])]])
    IN ~IsRefused(l) /\ ToSet(l.pairs) = ToSet(a.pairs)

\* A file is read as one would be in a list of its own, and may be missing where it says so.
EnvFilesAsWrittenOf(v, a) ==
  ~IsRefused(a) => /\ v.form = "value" => a = ReadEnvFiles(InListForm(v))
                   /\ \A i \in DOMAIN a.files :
                        /\ a.files[i].path # ""
                        /\ ~a.files[i].required => v.items[i].form = "long" /\ v.items[i].required = "false"

\* A limit is the number, or what the block or else the first it merges that has it says.
RECURSIVE HeldBy(_, _, _)
HeldBy(blocks, b, key) ==
  LET own == SelectSeq(blocks[b].own, LAMBDA p : p.key = key)
      from == SelectSeq(blocks[b].sources, LAMBDA s : HeldBy(blocks, s, key) # {})
  IN IF own # <<>> THEN {own[1].limit.n} ELSE IF from # <<>> THEN HeldBy(blocks, Head(from), key) ELSE {}
LimitsAsWrittenOf(v, blocks, a) ==
  ~IsRefused(a) =>
    /\ \A i \in DOMAIN v.items :
         LET e == v.items[i]
             l == a.limits[i].limit
         IN /\ e.is = "number" => l.soft = e.limit.n /\ l.hard = e.limit.n
            /\ e.is = "mapping" => {l.soft} = HeldBy(blocks, e.block, "soft") /\ {l.hard} = HeldBy(blocks, e.block, "hard")
            /\ e.key = "nofile" => l.soft >= 0 /\ l.hard >= 0
    /\ Len(UlimitArgs(a.limits)) = Len(v.items)
    /\ \A arg \in ToSet(UlimitArgs(a.limits)), l \in ToSet(a.limits) :
         arg[1] = l.key => arg[2] = l.limit.soft /\ (IF Len(arg) = 3 THEN arg[3] ELSE arg[2]) = l.limit.hard

\* A check that is off runs nothing, by either spelling; one that is on runs what is written,
\* one text through a shell, and is tried at least once.
ChecksAsWrittenOf(v, a) ==
  ~IsRefused(a) =>
    /\ a.check.off <=> (v.disable = "true" \/ (v.test # <<>> /\ v.test[1] = "NONE"))
    /\ a.check.off => a.check.words = <<>>
    /\ ~a.check.off /\ Len(v.test) = 1 /\ v.test[1] \notin {"CMD", "CMD-SHELL"} => a.check.shell
    /\ a.check.words # <<>> => Last(a.check.words) = Last(v.test)
    /\ a.retries > 0

EntryAsWrittenOf(q, a) ==
  CASE q.field = "networks" -> NetworksInTwoFormsOf(q.value, a)
    [] q.field = "depends_on" -> DependenciesAsWrittenOf(q.value, a)
    [] q.field \in {"configs", "secrets"} -> LastAtItsPlaceOf(q.field, q.value, a)
    [] q.field \in {"environment", "labels"} -> PairsInTwoFormsOf(q.field, q.value, a)
    [] q.field = "env_file" -> EnvFilesAsWrittenOf(q.value, a)
    [] q.field = "ulimits" -> LimitsAsWrittenOf(q.value, q.blocks, a)
    [] q.field = "healthcheck" -> ChecksAsWrittenOf(q.value, a)
=============================================================================
