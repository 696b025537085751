----------------------------- MODULE FileLayers -----------------------------
(* How several compose files become one project (internal/compose load.go and *)
(* mergetags.go): the merge of two values key by key, the `!reset` and          *)
(* `!override` tags, `extends` within a file and across files, `include`.        *)
(*                                                                               *)
(* A value is a record: nothing, a text (the parts its separator cuts it in), a    *)
(* number, a list, a mapping; a document may hold a value under a tag as well.     *)
(* Left out: anchors and merge keys, the shape checks of each file, the rebasing    *)
(* of relative paths, the `.env` of an included project.                            *)
EXTENDS Naturals, FiniteSetsExt, SequencesExt, Refusals

\* Segments(key): the segments a key adds to a dotted path, one but for a service
\* whose name has a dot in it.
CONSTANT Segments(_)

Nothing == [is |-> "nothing"]
Text(parts) == [is |-> "text", parts |-> parts]
Number(n) == [is |-> "number", parts |-> <<n>>]
List(items) == [is |-> "list", items |-> items]
Map(f) == [is |-> "map", at |-> f]
Reset == [is |-> "reset"]
Override(v) == [is |-> "override", under |-> v]

Empty == [k \in {} |-> Nothing]
Has(v, k) == v.is = "map" /\ k \in DOMAIN v.at
Without1(f, k) == [x \in DOMAIN f \ {k} |-> f[x]]

-----------------------------------------------------------------------------
(* The merge of a later value over an earlier one.                         *)

IsCollection(path) == path = <<"services">>
LastSegment(path) == IF path = <<>> THEN "" ELSE Last(path)
ParentPath(path) == IF path = <<>> THEN <<>> ELSE Front(path)
ChildPath(path, key) == path \o Segments(key)

\* Mutation: a service called `environment` is taken for the field.
InsideEnvLikeAnywhere(path) == LastSegment(path) \in {"environment", "labels", "args"}
InsideEnvLike(path) ==
  /\ LastSegment(path) \in {"environment", "labels", "args"}
  /\ ~IsCollection(ParentPath(path))
NullIsAValue(key, path) ==
  \/ key \in {"command", "entrypoint"} /\ ~IsCollection(path)
  \/ InsideEnvLike(path)

EnvListIsClean(v) == v.is = "list" => \A i \in DOMAIN v.items : v.items[i].is = "text"
ToEnvMap(v) ==
  CASE v.is = "map" -> v.at
    [] v.is = "list" ->
         LET named(n) == {i \in DOMAIN v.items : v.items[i].parts[1] = n}
             value(i) == IF Len(v.items[i].parts) > 1 THEN Text(Tail(v.items[i].parts)) ELSE Nothing
         IN [n \in {v.items[i].parts[1] : i \in DOMAIN v.items} |-> value(Max(named(n)))]
    [] OTHER -> Empty

AllNames(v) == v.is = "list" /\ EnvListIsClean(v)
Listed(v, entry) == [n \in {v.items[i].parts[1] : i \in DOMAIN v.items} |-> entry]

NetworksReadable(v) == v.is = "map" \/ AllNames(v)
NetworksAsMap(v) == IF v.is = "map" THEN v.at ELSE Listed(v, Nothing)

Started == Text(<<"service_started">>)
Yes == Text(<<"true">>)
WithRequired(e) ==
  IF Has(e, "condition") /\ ~Has(e, "required")
  THEN Map([k \in DOMAIN e.at \cup {"required"} |-> IF k = "required" THEN Yes ELSE e.at[k]])
  ELSE e
\* The later file's mapping is taken as it is; the earlier one's gets the default.
DependsOnAsMap(v, earlier) ==
  CASE v.is = "list" -> Listed(v, Map([condition |-> Started, required |-> Yes]))
    [] v.is = "map" /\ earlier -> [n \in DOMAIN v.at |-> WithRequired(v.at[n])]
    [] OTHER -> v.at

BuildReadable(v) == v.is \in {"map", "text"}
BuildAsMap(v) == IF v.is = "map" THEN v.at ELSE [k \in {"context"} |-> v]

AsList(v) == IF v.is = "text" THEN List(<<v>>) ELSE v

NoPlace == <<"">>
TrimSlash(p) == IF p = "/t/" THEN "/t" ELSE p
MountTarget(x) ==
  CASE x.is = "text" -> <<TrimSlash(x.parts[IF Len(x.parts) = 1 THEN 1 ELSE 2])>>
    [] Has(x, "target") -> <<TrimSlash(x.at["target"].parts[1])>>
    [] OTHER -> NoPlace
SecretTarget(kind, x) ==
  LET dir == IF kind = "configs" THEN "/" ELSE "/run/secrets" IN
  IF x.is = "text" THEN <<dir, x.parts[1]>>
  ELSE IF Has(x, "target") THEN x.at["target"].parts
  ELSE IF Has(x, "source") THEN <<dir, x.at["source"].parts[1]>>
  ELSE NoPlace
\* Entries of one place: the last of them, where the first stood.
Collapse(xs, place) ==
  LET same(i) == {j \in DOMAIN xs : place[j] = place[i]}
      heads == {i \in DOMAIN xs : place[i] = NoPlace \/ i = Min(same(i))}
      slots == SetToSortSeq(heads, LAMBDA i, j : i < j)
  IN [n \in DOMAIN slots |->
        IF place[slots[n]] = NoPlace THEN xs[slots[n]] ELSE xs[Max(same(slots[n]))]]
MergeSeqByTarget(xs) == Collapse(xs, [i \in DOMAIN xs |-> MountTarget(xs[i])])
MergeSeqBySecretTarget(xs, kind) == Collapse(xs, [i \in DOMAIN xs |-> SecretTarget(kind, xs[i])])

\* As many as the earlier file has of it are dropped of the later one's; a number
\* and the text that reads the same are one entry.
AppendNew(base, over) ==
  LET count(xs, n, x) == Cardinality({i \in 1..n : xs[i].parts = x.parts})
      new == {i \in DOMAIN over : count(over, i, over[i]) > count(base, Len(base), over[i])}
      slots == SetToSortSeq(new, LAMBDA i, j : i < j)
  IN base \o [n \in DOMAIN slots |-> over[slots[n]]]

\* Two lists: replaced, added to, or folded, by the key and where it stands.
MergeLists(b, o, key, path) ==
  IF key \in {"command", "entrypoint", "test", "config"} THEN o
  ELSE IF key \in {"expose", "volumes_from", "group_add"} THEN AppendNew(b, o)
  ELSE IF key = "volumes" THEN MergeSeqByTarget(b \o o)
  ELSE IF key \in {"secrets", "configs"} /\ IsCollection(ParentPath(path)) THEN
         MergeSeqBySecretTarget(b \o o, key)
  ELSE b \o o

\* Mutation: a null always wins.
StandsNull(base, over, key, path) == over
\* What is left of a key the later file writes with nothing after it.
OverNull(base, over, key, path) == IF NullIsAValue(key, path) THEN over ELSE base

RECURSIVE MergeValue(_, _, _, _)
MergeMap(base, over, path) ==
  [k \in DOMAIN base \cup DOMAIN over |->
     IF k \notin DOMAIN over THEN base[k]
     ELSE IF k \notin DOMAIN base THEN over[k]
     ELSE MergeValue(base[k], over[k], k, path)]
MergeValue(base, over, key, path) ==
  LET below == ChildPath(path, key)
      field == ~IsCollection(path)
      plain == field /\ ~InsideEnvLike(path)
      b == IF key \in {"tmpfs", "env_file"} /\ plain THEN AsList(base) ELSE base
      o == IF key \in {"tmpfs", "env_file"} /\ plain THEN AsList(over) ELSE over
  IN IF over = Nothing THEN OverNull(base, over, key, path)
     ELSE IF key \in {"environment", "labels", "args"} /\ ~InsideEnvLike(path) THEN
       CASE ~EnvListIsClean(base) -> base
         [] EnvListIsClean(base) /\ ~EnvListIsClean(over) -> over
         [] OTHER -> Map(MergeMap(ToEnvMap(base), ToEnvMap(over), below))
     ELSE IF key = "networks" /\ field /\ NetworksReadable(base) /\ NetworksReadable(over) THEN
       Map(MergeMap(NetworksAsMap(base), NetworksAsMap(over), below))
     ELSE IF key = "depends_on" /\ field /\ NetworksReadable(base) /\ NetworksReadable(over) THEN
       Map(MergeMap(DependsOnAsMap(base, TRUE), DependsOnAsMap(over, FALSE), below))
     ELSE IF key = "build" /\ plain /\ BuildReadable(base) /\ BuildReadable(over) THEN
       Map(MergeMap(BuildAsMap(base), BuildAsMap(over), below))
     ELSE IF o.is = "map" /\ b.is = "map" THEN Map(MergeMap(b.at, o.at, below))
     ELSE IF o.is = "list" /\ b.is = "list" THEN List(MergeLists(b.items, o.items, key, path))
     ELSE o

-----------------------------------------------------------------------------
(* The tags of a document, and what they take out of the files before it.   *)

\* The document without its tags: a reset key or item is gone, an override value
\* stands as it is (inside it tags are not read).
RECURSIVE Untagged(_)
Untagged(v) ==
  CASE v.is = "override" -> v.under
    [] v.is = "map" ->
         Map([k \in {x \in DOMAIN v.at : v.at[x] # Reset} |-> Untagged(v.at[k])])
    [] v.is = "list" ->
         LET kept == SelectSeq(v.items, LAMBDA x : x # Reset)
         IN List([i \in DOMAIN kept |-> Untagged(kept[i])])
    [] OTHER -> v
Body(doc) == Untagged(Map(Without1(doc.at, "include")))

\* The paths of the tagged keys; what a list holds has no path to hand on.
RECURSIVE TagsIn(_, _)
TagsIn(v, path) ==
  CASE v.is \in {"reset", "override"} -> {path}
    [] v.is = "map" -> UNION {TagsIn(v.at[k], Append(path, k)) : k \in DOMAIN v.at}
    [] OTHER -> {}
MergeTags(doc) == UNION {TagsIn(doc.at[k], <<k>>) : k \in DOMAIN doc.at \ {"name"}}

RECURSIVE TakenOut(_, _, _)
TakenOut(v, path, listsAsMaps) ==
  LET seg == Head(path)
      next == IF seg \in DOMAIN v.at THEN v.at[seg] ELSE Nothing
      short == listsAsMaps /\ next.is = "list" /\ NetworksReadable(next)
      read == CASE short /\ seg = "networks" -> Map(NetworksAsMap(next))
                [] short /\ seg = "depends_on" -> Map(DependsOnAsMap(next, TRUE))
                [] OTHER -> next
  IN CASE Len(path) = 1 -> Map(Without1(v.at, seg))
       [] Len(path) > 1 /\ read.is = "map" -> Map([v.at EXCEPT ![seg] = TakenOut(read, Tail(path), listsAsMaps)])
       [] OTHER -> v

\* Mutation: the tags are read once the later file is in.
ApplyMergeTagsNone(tree, tags, listsAsMaps, mixed) == tree
\* mixed: the list-or-mapping keys two of the files wrote, which a tag on a name
\* inside does not reach.
ApplyMergeTags(tree, tags, listsAsMaps, mixed) ==
  FoldLeft(LAMBDA t, path : TakenOut(t, path, listsAsMaps), tree,
           SetToSeq({t \in tags : Front(t) \notin mixed}))

\* An include merges its sections and items whatever they are tagged with.
Sections == {"services", "networks", "volumes", "configs", "secrets"}
WithoutItemTags(tags) == {t \in tags : Len(t) > 2 \/ t[1] \notin Sections}

ListOrMappingKeys == {<<"environment">>, <<"labels">>, <<"build", "args">>,
                      <<"extra_hosts">>, <<"build", "extra_hosts">>}
RECURSIVE HasPath(_, _)
HasPath(v, path) ==
  path # <<>> => Has(v, Head(path)) /\ HasPath(v.at[Head(path)], Tail(path))
ServicesOf(tree) == IF Has(tree, "services") THEN tree.at["services"].at ELSE Empty
Mixed(merged, next) ==
  {p \in {<<"services", s>> \o k : s \in DOMAIN ServicesOf(next), k \in ListOrMappingKeys} :
     HasPath(merged, p) /\ HasPath(next, p)}
StillMixed(merged, mixed) == {p \in mixed : HasPath(merged, p)}

-----------------------------------------------------------------------------
(* extends.  disk: the files there are, by name; a read is [tree, mixed], or a *)
(* refusal.                                                                    *)

ExtendsOf(svc) == svc.at["extends"]
ExtendedFrom(svc) == IF Has(ExtendsOf(svc), "file") THEN ExtendsOf(svc).at["file"].parts[1] ELSE "here"
ExtendedService(svc) ==
  IF ExtendsOf(svc).is = "text" THEN ExtendsOf(svc).parts[1] ELSE ExtendsOf(svc).at["service"].parts[1]
OwnTags(tags, name) == {SubSeq(t, 3, Len(t)) : t \in {t \in tags : Len(t) > 2 /\ t[2] = name /\ t[1] = "services"}}

OnStack(stack, file, name) == \E i \in DOMAIN stack : stack[i] = <<file, name>>

OwnOver(base, own, name) == Map(MergeMap(base, own, <<"services">> \o Segments(name)))

\* A service over the one it extends, as its tags leave it; before: the read so far.
MergedInto(before, name, base, own) ==
  [tree |-> [before.tree EXCEPT !.at["services"].at[name] = OwnOver(base.at, own.at, name)],
   mixed |-> before.mixed \cup
               {<<"services", name>> \o k : k \in {k \in ListOrMappingKeys : HasPath(base, k) /\ HasPath(own, k)}}]
Extended(before, name, svc, tags, extended) ==
  MergedInto(before, name, ApplyMergeTags(extended, OwnTags(tags, name), FALSE, {}), Map(Without1(svc.at, "extends")))
\* from: what the way there came to, another file's service or this file's read.
OverAnother(read, name, svc, tags, from) ==
  IF IsRefused(from) THEN from ELSE Extended(read, name, svc, tags, from.service)
OverASibling(name, svc, tags, from) ==
  IF IsRefused(from) THEN from
  ELSE Extended(from, name, svc, tags, ServicesOf(from.tree)[ExtendedService(svc)])
\* The one service taken of another file.
ServiceOf(read, target) == IF IsRefused(read) THEN read ELSE [service |-> ServicesOf(read.tree)[target]]

RECURSIVE Resolve(_, _, _, _, _, _), ResolveIts(_, _, _, _, _, _, _), ExtendedServiceFromFile(_, _, _, _)
\* One service of a file read with what it extends (read: the file's tree so far
\* and its mixed keys); stack is the services on the way to it, through whichever files.
Resolve(disk, file, read, tags, name, stack) ==
  IF name \notin DOMAIN ServicesOf(read.tree) THEN Refused("no such service")
  ELSE ResolveIts(disk, file, read, tags, name, stack, ServicesOf(read.tree)[name])
ResolveIts(disk, file, read, tags, name, stack, svc) ==
  IF svc.is # "map" THEN IF stack = <<>> THEN read ELSE Refused("nothing under it")
  ELSE IF ~Has(svc, "extends") THEN read
  ELSE IF OnStack(stack, file, name) THEN Refused("cycle")
  ELSE IF ExtendedFrom(svc) = "here"
    THEN OverASibling(name, svc, tags,
           Resolve(disk, file, read, tags, ExtendedService(svc), Append(stack, <<file, name>>)))
  ELSE OverAnother(read, name, svc, tags,
         ExtendedServiceFromFile(disk, ExtendedFrom(svc), ExtendedService(svc), Append(stack, <<file, name>>)))
\* No other service of that file is resolved.
ExtendedServiceFromFile(disk, file, target, stack) ==
  IF file \notin DOMAIN disk THEN Refused("no such file")
  ELSE ServiceOf(Resolve(disk, file, [tree |-> Body(disk[file]), mixed |-> {}], MergeTags(disk[file]),
                         target, stack), target)

\* A file's services in turn, each left as it is resolved.
ResolveExtends(disk, file, read, tags, names) ==
  FoldLeft(LAMBDA r, n : IF IsRefused(r) THEN r ELSE Resolve(disk, file, r, tags, n, <<>>), read,
           SelectSeq(names, LAMBDA n : n \in DOMAIN ServicesOf(read.tree)))

-----------------------------------------------------------------------------
(* include, and the files of a command line one after the other.            *)

\* What an included file brings: not its name, version or extension fields.
IncludedPart(tree) == Map([k \in DOMAIN tree.at \cap (Sections \cup {"models"}) |-> tree.at[k]])
OneOver(base, over) == Map(MergeMap(base.at, over.at, <<>>))
ServiceLeftBare(tree) == \E s \in DOMAIN ServicesOf(tree) : ServicesOf(tree)[s] = Nothing
Entries(doc) == IF Has(doc, "include") THEN doc.at["include"].items ELSE <<>>
NoGroup == [tree |-> Nothing, mixed |-> {}, files |-> <<>>]

ClosesACycle(stack, files, file) == file \in ToSet(stack)

\* One path of an entry, its unit over the paths before it, tags and all.
PartOver(entry, unit, part, under) ==
  [tree |-> OneOver(under, part), files |-> entry.files \o unit.files,
   mixed |-> entry.mixed \cup unit.mixed \cup Mixed(under, part)]
PathOver(entry, unit) ==
  IF IsRefused(unit) THEN unit
  ELSE IF entry.tree = Nothing
    THEN [tree |-> IncludedPart(unit.tree), files |-> entry.files \o unit.files, mixed |-> entry.mixed \cup unit.mixed]
  ELSE PartOver(entry, unit, IncludedPart(unit.tree), ApplyMergeTags(entry.tree, unit.tags, TRUE, {}))
\* The entries go over each other plainly.
EntryOver(group, entry) ==
  IF IsRefused(entry) THEN entry
  ELSE IF entry.tree = Nothing THEN group
  ELSE IF group.tree = Nothing THEN entry
  ELSE [tree |-> OneOver(group.tree, entry.tree), files |-> entry.files,
        mixed |-> group.mixed \cup entry.mixed \cup Mixed(group.tree, entry.tree)]
\* A file's own tree over what it includes.
FileOver(under, own, mixed) == [tree |-> OneOver(under, own), mixed |-> mixed \cup Mixed(under, own)]
OwnOverGroup(group, own, tags) ==
  IF group.tree = Nothing THEN [tree |-> own, mixed |-> {}]
  ELSE FileOver(ApplyMergeTags(group.tree, WithoutItemTags(tags), TRUE, {}), own, group.mixed)
MergedWhole(earlier, all) == IF earlier = Nothing THEN all.tree ELSE OneOver(earlier, all.tree)
UnitRead(read, files, tags) ==
  IF IsRefused(read) THEN read ELSE [tree |-> read.tree, files |-> files, tags |-> tags, mixed |-> read.mixed]
\* What a file comes to once what it includes is read (group), and then all of it.
ReadWith(disk, file, earlier, names, group, all) ==
  IF (group.tree # Nothing \/ earlier = Nothing) /\ ServiceLeftBare(MergedWhole(earlier, all)) THEN Refused("nothing under it")
  ELSE UnitRead(ResolveExtends(disk, file, all, MergeTags(disk[file]), names), Append(group.files, file),
                MergeTags(disk[file]))
OverItsGroup(disk, file, earlier, names, group) ==
  IF IsRefused(group) THEN group
  ELSE ReadWith(disk, file, earlier, names, group, OwnOverGroup(group, Body(disk[file]), MergeTags(disk[file])))

RECURSIVE LoadUnit(_, _, _, _, _)
IncludePath(disk, names, stack, entry, p) ==
  IF IsRefused(entry) THEN entry
  ELSE IF ClosesACycle(stack, entry.files, p) THEN Refused("include cycle")
  ELSE IF p \notin DOMAIN disk THEN Refused("no such file")
  ELSE PathOver(entry, LoadUnit(disk, p, Nothing, stack, names))
IncludeEntry(disk, names, stack, group, e) ==
  IF IsRefused(group) THEN group
  ELSE EntryOver(group, FoldLeft(LAMBDA entry, p : IncludePath(disk, names, stack, entry, p),
                                 [NoGroup EXCEPT !.files = group.files], e))
\* A file with what it includes under it: [tree, files, tags, mixed].  names is the
\* order its services are resolved in.
LoadUnit(disk, file, earlier, stack, names) ==
  OverItsGroup(disk, file, earlier, names,
    FoldLeft(LAMBDA group, e : IncludeEntry(disk, names, Append(stack, file), group, e), NoGroup, Entries(disk[file])))

\* One more file of the command line over those before it.
MergedOver(earlier, unit, under, merged) ==
  IF ServiceLeftBare(merged) THEN Refused("nothing under it")
  ELSE [tree |-> merged, files |-> earlier.files \o unit.files,
        mixed |-> StillMixed(under, earlier.mixed) \cup Mixed(under, unit.tree) \cup unit.mixed]
UnitUnder(earlier, unit, under) == MergedOver(earlier, unit, under, OneOver(under, unit.tree))
UnitOver(earlier, unit) ==
  IF IsRefused(unit) THEN unit
  ELSE IF earlier.tree = Nothing THEN [tree |-> unit.tree, mixed |-> unit.mixed, files |-> unit.files]
  ELSE UnitUnder(earlier, unit, ApplyMergeTags(earlier.tree, unit.tags, TRUE, earlier.mixed))
OverTheEarlier(disk, names, earlier, file) ==
  IF IsRefused(earlier) THEN earlier
  ELSE IF file \notin DOMAIN disk THEN Refused("no such file")
  ELSE UnitOver(earlier, LoadUnit(disk, file, earlier.tree, <<>>, names))
LoadFiles(disk, paths, names) ==
  FoldLeft(LAMBDA earlier, f : OverTheEarlier(disk, names, earlier, f), NoGroup, paths)

-----------------------------------------------------------------------------
(* Properties.                                                             *)

\* What a value says, by name, place or entry, whatever form it is written in.
Counted == {"expose", "volumes_from", "group_add", "tmpfs", "cap_add"}
ItemsOf(v) == CASE v.is = "list" -> v.items [] v = Nothing -> <<>> [] OTHER -> <<v>>
PlacesOf(v, PlaceOf(_)) ==
  [p \in {PlaceOf(ItemsOf(v)[i]) : i \in DOMAIN ItemsOf(v)} |->
     ItemsOf(v)[Max({i \in DOMAIN ItemsOf(v) : PlaceOf(ItemsOf(v)[i]) = p})]]
Filled(f) == [n \in DOMAIN f |-> WithRequired(f[n])]
Says(key, v) ==
  CASE key \in {"environment", "labels", "args"} -> ToEnvMap(v)
    [] key \in {"networks", "build", "depends_on"} /\ v = Nothing -> Empty
    [] key = "networks" /\ v # Nothing -> NetworksAsMap(v)
    [] key = "build" /\ v # Nothing -> BuildAsMap(v)
    [] key = "depends_on" /\ v # Nothing -> DependsOnAsMap(v, FALSE)
    [] key = "volumes" -> PlacesOf(v, MountTarget)
    [] key \in {"secrets", "configs"} -> PlacesOf(v, LAMBDA x : SecretTarget(key, x))
    [] key \in Counted -> [e \in {ItemsOf(v)[i].parts : i \in DOMAIN ItemsOf(v)} |->
                           Cardinality({i \in DOMAIN ItemsOf(v) : ItemsOf(v)[i].parts = e})]
    [] key \in {"image", "command"} -> [k \in {"whole"} |-> v]
Times(f, e) == IF e \in DOMAIN f THEN f[e] ELSE 0
Over(b, o) ==
  [n \in DOMAIN b \cup DOMAIN o |->
     IF n \in DOMAIN o /\ (o[n] # Nothing \/ n \notin DOMAIN b) THEN o[n] ELSE b[n]]
\* The later file's word over the earlier one's; with nothing after a key it says
\* nothing, but in the places where nothing is a value.
Overlaid(key, b, o) ==
  LET all == DOMAIN b \cup DOMAIN o
      entries(f) == [n \in all |-> IF n \in DOMAIN f /\ f[n].is = "map" THEN f[n].at ELSE Empty]
  IN CASE key \in {"expose", "volumes_from", "group_add"} ->
            [e \in all |-> IF Times(b, e) > Times(o, e) THEN Times(b, e) ELSE Times(o, e)]
       [] key \in {"tmpfs", "cap_add"} -> [e \in all |-> Times(b, e) + Times(o, e)]
       [] key \in {"networks", "depends_on"} ->
            [n \in all |-> IF Nothing \in {f[n] : f \in {f \in {b, o} : n \in DOMAIN f}}
                              /\ entries(b)[n] = Empty /\ entries(o)[n] = Empty
                           THEN Nothing ELSE Map(Over(entries(b)[n], entries(o)[n]))]
       [] key \in {"build", "image"} -> Over(b, o)
       [] key \in {"environment", "labels", "args", "volumes", "secrets", "configs", "command"} ->
            [n \in all |-> IF n \in DOMAIN o THEN o[n] ELSE b[n]]

\* Two files that write one key of a service: what each says stands, by name, by
\* place or by entry, and where both speak the later file, whatever forms the two
\* wrote it in (mergeValue: "a base and override merge per variable regardless of
\* form", "a later file's mount at a path an earlier file already mounts replaces it").
LaterOverEarlierOf(key, b, o) ==
  LET merged == Says(key, MergeValue(b, o, key, <<"services", "web">>)) IN
  IF key = "depends_on" THEN Filled(merged) = Filled(Overlaid(key, Filled(Says(key, b)), Says(key, o)))
  ELSE merged = Overlaid(key, Says(key, b), Says(key, o))

\* A service's name is its author's choice and changes nothing of how its keys merge
\* ("a service called `networks` or `environment` must not be merged the way the
\* field of that name is").
NameIsOnlyANameOf(name, key, b, o) ==
  LET service(v) == [k \in {key} |-> v]
      inFile(n, v) == Map([s \in {"services"} |-> Map([x \in {n} |-> Map(service(v))])])
      merged(n) == ServicesOf(OneOver(inFile(n, b), inFile(n, o)))[n]
  IN merged(name) = merged("web")

RECURSIVE At(_, _)
At(v, path) ==
  IF path = <<>> THEN v ELSE IF Has(v, Head(path)) THEN At(v.at[Head(path)], Tail(path)) ELSE Refused("absent")
\* Where docker compose holds a list: written as one before, or by two files before.
HeldAsList(disk, paths, j, p) ==
  LET before == {i \in 1..(j - 1) : HasPath(Body(disk[paths[i]]), p)} IN
  /\ Len(p) > 2 /\ SubSeq(p, 3, Len(p)) \in ListOrMappingKeys
  /\ Cardinality(before) > 1 \/ \E i \in before : At(Body(disk[paths[i]]), p).is = "list"

\* What a file tags `!reset` or `!override` is read as though the files before it had
\* not been there, but inside a mapping that is held as a list by then ("an earlier
\* value neither stays nor merges in").
TagsStandOf(disk, paths, names) ==
  \A j \in 2..Len(paths) :
    LET upTo == LoadFiles(disk, SubSeq(paths, 1, j), names)
        alone == LoadFiles(disk, <<paths[j]>>, names)
    IN ~IsRefused(upTo) /\ ~IsRefused(alone) =>
         \A t \in MergeTags(disk[paths[j]]) :
           ~HeldAsList(disk, paths, j, Front(t)) => At(upTo.tree, t) = At(alone.tree, t)

\* The chain of services one extends, itself first; a refusal where it comes back to
\* one of its own or leads nowhere.
RECURSIVE ChainFrom(_, _, _, _)
ChainFrom(disk, file, name, so) ==
  IF <<file, name>> \in ToSet(so) \/ file \notin DOMAIN disk THEN Refused("cycle")
  ELSE LET svc == ServicesOf(disk[file])[name] IN
       IF name \notin DOMAIN ServicesOf(disk[file]) THEN Refused("no such service")
       ELSE IF ~Has(svc, "extends") THEN [chain |-> Append(so, <<file, name>>)]
       ELSE ChainFrom(disk, IF ExtendedFrom(svc) = "here" THEN file ELSE ExtendedFrom(svc),
                      ExtendedService(svc), Append(so, <<file, name>>))


\* Every service is what its chain of `extends` says, its own word over the extended
\* one's, in whatever order the services of the file are read and whichever of them
\* were resolved before; a file is refused for a chain that closes or leads nowhere,
\* and never for two that meet ("a chain resolves the named service first; a cycle is
\* refused").
ExtendsIsItsChainOf(disk, file, names) ==
  LET read == LoadFiles(disk, <<file>>, names)
      environment(svc) == svc.at["environment"].at
      own(id) == environment(ServicesOf(disk[id[1]])[id[2]])
      chain(n) == ChainFrom(disk, file, n, <<>>)
      first(c, v) == Min({i \in DOMAIN c : v \in DOMAIN own(c[i])})
      says(c) == [v \in UNION {DOMAIN own(c[i]) : i \in DOMAIN c} |-> own(c[first(c, v)])[v]]
  IN /\ IsRefused(read) <=> \E n \in ToSet(names) : IsRefused(chain(n))
     /\ ~IsRefused(read) =>
          \A n \in ToSet(names) : environment(ServicesOf(read.tree)[n]) = says(chain(n).chain)

RECURSIVE IncludesOf(_, _)
IncludesOf(disk, S) ==
  LET next == S \cup UNION {UNION {ToSet(Entries(disk[f])[i]) : i \in DOMAIN Entries(disk[f])} : f \in S}
  IN IF next = S THEN S ELSE IncludesOf(disk, next)
Included(disk, f) == UNION {ToSet(Entries(disk[f])[i]) : i \in DOMAIN Entries(disk[f])}

\* With includes, a key is what the last file read says of it, each file being read
\* after what it includes; a file two others include is read twice and refused for
\* nothing, and only a file that includes itself is refused ("A file that includes
\* itself, through however many files, is refused").
LastReadSpeaksOf(disk, paths, names) ==
  LET read == LoadFiles(disk, paths, names)
      says(f) == Has(disk[f], "services")
      image(f) == At(disk[f], <<"services", "web", "image">>)
      speakers == SelectSeq(read.files, says)
  IN /\ IsRefused(read)
          <=> \E f \in IncludesOf(disk, ToSet(paths)) : f \in IncludesOf(disk, Included(disk, f))
     /\ ~IsRefused(read) /\ speakers # <<>> =>
          At(read.tree, <<"services", "web", "image">>) = image(Last(speakers))
=============================================================================
