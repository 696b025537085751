----------------------------- MODULE EnvLayers -----------------------------
(* What a variable comes to (internal/compose interpolate.go and envfile.go):   *)
(* the levels a `.env`, an `--env-file` and an `env_file:` are read at, the       *)
(* references in their values and in the compose file, and what of it all a       *)
(* service is given.                                                              *)
(*                                                                                *)
(* A value is a sequence of words.  A template is a sequence of pieces, words and *)
(* references; a line of an env file is a name and a template.  Left out: how a    *)
(* line is cut and its quotes and escapes read, values over several lines.        *)
EXTENDS Naturals, FiniteSetsExt, SequencesExt, Refusals

Unset == [n \in {} |-> <<>>]
SetTo(f, n, v) == [x \in DOMAIN f \cup {n} |-> IF x = n THEN v ELSE f[x]]

\* chainLookup: the first that has the name.
Then(f, g) == [x \in DOMAIN f \cup DOMAIN g |-> IF x \in DOMAIN f THEN f[x] ELSE g[x]]

Word(w) == [is |-> "word", text |-> w]
Ref(name, op, colon, word) == [is |-> "ref", name |-> name, op |-> op, colon |-> colon, word |-> word]
Plain(name) == Ref(name, "", FALSE, <<>>)

\* What the reader wrote, a reference as its name behind a `$`.
Written(t) == [i \in DOMAIN t |-> IF t[i].is = "word" THEN t[i].text ELSE "$" \o t[i].name]

-----------------------------------------------------------------------------
(* expand and expandBraced.                                                *)

\* What a reference that asks for a value makes of one that is missing.
NotThere == <<"required">>

RECURSIVE Expand(_, _)
ExpandBraced(ref, lookup) ==
  LET set     == ref.name \in DOMAIN lookup
      val     == IF set THEN lookup[ref.name] ELSE <<>>
      missing == ~set \/ (ref.colon /\ val = <<>>)
      word    == Expand(ref.word, lookup)
  IN IF ref.op = "-" /\ missing THEN word
     ELSE IF ref.op = "+" THEN IF missing THEN <<>> ELSE word
     ELSE IF ref.op = "?" /\ missing THEN NotThere
     ELSE val
ExpandPiece(piece, lookup) == IF piece.is = "word" THEN <<piece.text>> ELSE ExpandBraced(piece, lookup)
Expand(t, lookup) ==
  IF t = <<>> THEN <<>>
  ELSE LET first == ExpandPiece(Head(t), lookup)
           rest  == Expand(Tail(t), lookup)
       IN IF NotThere \in {first, rest} THEN NotThere ELSE first \o rest

-----------------------------------------------------------------------------
(* A document is expanded before it is parsed: what a reference came to is set  *)
(* aside under a mark, and put back into the scalar the parser made of it.       *)

\* expand over a document: the text with marks, or the refusal.
Marked(t, lookup) ==
  [i \in DOMAIN t |->
     IF t[i].is = "word" THEN [mark |-> FALSE, value |-> <<t[i].text>>, written |-> <<t[i].text>>]
     ELSE [mark |-> TRUE, value |-> ExpandPiece(t[i], lookup), written |-> <<"$" \o t[i].name>>]]

\* restore: docker compose expands the values of a mapping and never its keys.
PutBack(mark, inKey) == IF inKey THEN mark.written ELSE mark.value

\* A scalar of a document: nothing, what YAML makes of the text, or a string.
Scalar(t, inKey, lookup) ==
  LET marks == Marked(t, lookup)
      refs  == {i \in DOMAIN marks : marks[i].mark}
  IN IF \E i \in refs : marks[i].value = NotThere THEN Refused("reference")
     ELSE IF t = <<>> THEN [kind |-> "null", text |-> <<>>]
     ELSE [kind |-> IF refs = {} THEN "yaml" ELSE "string",
           text |-> FlattenSeq([i \in DOMAIN marks |-> PutBack(marks[i], inKey)])]

-----------------------------------------------------------------------------
(* Reading an env file into a scope.                                       *)

\* soft: a name the file may not have is noted, its line left out.
Scope(outer, builtin, soft) == [outer |-> outer, level |-> Unset, builtin |-> builtin, soft |-> soft, faults |-> 0]
Lookup(scope) == Then(scope.outer, Then(scope.level, scope.builtin))
Inner(scope, between) == Scope(Then(scope.outer, Then(scope.level, between)), scope.builtin, FALSE)

\* A line: its name ("" where it has none), whether the name is one, whether the
\* line is the name alone, whether the value is single-quoted, the value.
Line(name, v) == [name |-> name, clean |-> TRUE, bare |-> FALSE, literal |-> FALSE, val |-> v]

Reading(scope) == [out |-> Unset, scope |-> scope, refused |-> FALSE]
Stops(r) == [r EXCEPT !.refused = TRUE]
Takes(r, name, v) == [r EXCEPT !.out = SetTo(@, name, v), !.scope.level = SetTo(@, name, v)]

NotesName(r, line) == [r EXCEPT !.scope.faults = @ + 1]

\* parseDotEnv, one line of it.
ReadLine(line, r) ==
  IF r.refused THEN r
  ELSE IF line.name = "" THEN Stops(r)
  ELSE IF ~line.clean THEN IF line.bare \/ ~r.scope.soft THEN Stops(r) ELSE NotesName(r, line)
  ELSE IF line.bare
    THEN IF line.name \in DOMAIN r.scope.outer
           THEN [r EXCEPT !.out = SetTo(@, line.name, r.scope.outer[line.name])] ELSE r
  ELSE LET v == IF line.literal THEN Written(line.val) ELSE Expand(line.val, Lookup(r.scope))
       IN IF v = NotThere THEN Stops(r) ELSE Takes(r, line.name, v)

\* parseRawEnv: nothing is expanded, a name alone is passed over.
ReadRawLine(line, r) ==
  IF r.refused \/ line.bare THEN r
  ELSE IF line.name = "" \/ ~line.clean THEN Stops(r)
  ELSE Takes(r, line.name, Written(line.val))

ReadDotEnv(file, scope) == FoldLeft(LAMBDA r, line : ReadLine(line, r), Reading(scope), file)
ReadRaw(file, scope) == FoldLeft(LAMBDA r, line : ReadRawLine(line, r), Reading(scope), file)

\* Mutation: each file is read by itself, and the files are put together after.
NextFileAlone(r, file) ==
  IF r.refused THEN r
  ELSE LET own == ReadDotEnv(file, [r.scope EXCEPT !.level = Unset])
       IN [own EXCEPT !.scope.level = Then(@, r.scope.level)]

\* Files of one level are one map filled from top to bottom.
NextFile(r, file) == IF r.refused THEN r ELSE ReadDotEnv(file, r.scope)

\* What a `.env` says under those read before it.
Underneath(first, second) ==
  IF second.refused THEN Refused("env file")
  ELSE [first EXCEPT !.level = Then(@, second.scope.level), !.faults = second.scope.faults]
BelowTheFirst(first, named, under) ==
  IF first.refused THEN Refused("env file")
  ELSE IF named THEN first.scope
  ELSE Underneath(first.scope, ReadDotEnv(under, [Inner(first.scope, Unset) EXCEPT !.soft = first.scope.soft,
                                                                                   !.faults = first.scope.faults]))

\* loadEnvLayers: `here` is the default `.env`, `under` that of the compose file's
\* directory where it is another; a `.env` that is not there is an empty one.
LoadEnvLayers(shell, named, here, under, soft, builtin) ==
  LET files == IF named = <<>> THEN <<here>> ELSE named
  IN BelowTheFirst(FoldLeft(NextFile, Reading(Scope(shell, builtin, soft)), files), named # <<>>, under)

-----------------------------------------------------------------------------
(* The environment of a service.  An entry is a name and a value, or the name     *)
(* alone: taken from the shell when the container is made, and hiding the name     *)
(* from an `env_file:` either way.                                                 *)

Entry(name, v) == [name |-> name, bare |-> FALSE, val |-> v]
Bare(name) == [name |-> name, bare |-> TRUE, val |-> <<>>]

\* explicitEnv: a name alone undoes an earlier value of the same list.
EntryDefines(f, e) ==
  IF e.bare THEN [n \in DOMAIN f \ {e.name} |-> f[n]] ELSE SetTo(f, e.name, e.val)
ExplicitEnv(env) == FoldLeft(EntryDefines, Unset, env)

\* resolveBareFromProject: what the shell has stays bare, the shell outranks `.env`.
ResolveBareFromProject(env, scope) ==
  [i \in DOMAIN env |->
     IF env[i].bare /\ env[i].name \notin DOMAIN scope.outer /\ env[i].name \in DOMAIN scope.level
       THEN Entry(env[i].name, scope.level[env[i].name]) ELSE env[i]]

\* mergeEnv, as a map: the last entry of a name.
MergeEnv(entries) == FoldLeft(LAMBDA f, e : SetTo(f, e.name, e), Unset, entries)

\* resolveEnvFiles: [env, scope] or a refusal; a file: its lines, raw or not.
AndOf(r, one) ==
  [entries |-> r.entries \o SetToSeq({Entry(n, one.out[n]) : n \in DOMAIN one.out}),
   scope |-> one.scope, refused |-> one.refused]
NextEnvFile(r, f) ==
  IF r.refused THEN r ELSE AndOf(r, IF f.raw THEN ReadRaw(f.lines, r.scope) ELSE ReadDotEnv(f.lines, r.scope))
UnderItsEntries(all, env) ==
  IF all.refused THEN Refused("env_file") ELSE [env |-> MergeEnv(all.entries \o env), scope |-> all.scope]
ResolveEnvFiles(files, env, scope) ==
  UnderItsEntries(FoldLeft(NextEnvFile, [entries |-> <<>>, scope |-> Inner(scope, ExplicitEnv(env)), refused |-> FALSE],
                           files), env)

ServiceEnvironment(files, env, scope) == ResolveEnvFiles(files, ResolveBareFromProject(env, scope), scope)
EnvironmentOf(files, env, project) ==
  IF IsRefused(project) THEN project ELSE ServiceEnvironment(files, env, project)

\* What the container is given: a bare name is the shell's, or nothing.
Given(env, shell) ==
  LET given == {n \in DOMAIN env : ~env[n].bare \/ n \in DOMAIN shell}
  IN [n \in given |-> IF env[n].bare THEN shell[n] ELSE env[n].val]

-----------------------------------------------------------------------------
(* What must be so of every question, for ComposeFiles to state as invariants.  *)

\* "The files behave as a single map filled top to bottom": several env files read
\* as one file of all their lines (envScope).
FilesReadAsOneOf(shell, named, builtin) ==
  named # <<>> =>
    LoadEnvLayers(shell, named, <<>>, <<>>, FALSE, builtin)
      = LoadEnvLayers(shell, <<FlattenSeq(named)>>, <<>>, <<>>, FALSE, builtin)

\* A `.env` under another is read as by a shell that has the first one's values
\* (loadEnvLayers).
SecondPlaceYieldsOf(shell, here, under, builtin) ==
  LET both == LoadEnvLayers(shell, <<>>, here, under, FALSE, builtin)
      first == LoadEnvLayers(shell, <<>>, here, <<>>, FALSE, builtin)
      asShell == LoadEnvLayers(Then(shell, first.level), <<>>, under, <<>>, FALSE, builtin)
  IN ~IsRefused(both) => Lookup(both) = Lookup(asShell)

SoftIs(soft, hard, without) ==
  /\ IsRefused(soft) <=> IsRefused(without)
  /\ ~IsRefused(soft) => Lookup(soft) = Lookup(without)
  /\ IsRefused(hard) <=> IsRefused(soft) \/ soft.faults > 0
  /\ ~IsRefused(hard) => Lookup(hard) = Lookup(soft)

\* A command that takes a project down reads what one that starts it read, and past
\* a refused name as though its line were not there (loadEnvLayers, failName).
SoftLeavesLineOutOf(shell, here, under, builtin) ==
  LET clean(file) == SelectSeq(file, LAMBDA l : l.clean \/ l.bare \/ l.name = "")
  IN SoftIs(LoadEnvLayers(shell, <<>>, here, under, TRUE, builtin),
            LoadEnvLayers(shell, <<>>, here, under, FALSE, builtin),
            LoadEnvLayers(shell, <<>>, clean(here), clean(under), TRUE, builtin))

GivenAsRead(made, given, seen, names) ==
  \A n \in names :
    \/ n \in DOMAIN made.env /\ made.env[n].bare /\ n \in DOMAIN made.scope.level
    \/ n \in DOMAIN given /\ n \in DOMAIN seen /\ given[n] = seen[n]
NamesBothWays(made, above, given, seen) ==
  GivenAsRead(made, given, seen, (DOMAIN given \cup DOMAIN seen) \ above)
OfThisService(made, above, shell) ==
  ~IsRefused(made) => NamesBothWays(made, above, Given(made.env, shell), Then(made.scope.outer, made.scope.level))
OfThisProject(shell, project, files, env) ==
  ~IsRefused(project) =>
    OfThisService(ServiceEnvironment(files, env, project), DOMAIN shell \cup DOMAIN project.level, shell)

\* "The same key reading two ways in one service": a name that neither the shell nor
\* the project's `.env` has reads, on the line after the last of a service's env
\* files, as what the service is given for it - but for a name alone in
\* `environment:` that hides what an env file says of it.
ServiceReadsItsOwnOf(shell, here, files, env, builtin) ==
  OfThisProject(shell, LoadEnvLayers(shell, <<>>, here, <<>>, TRUE, builtin), files, env)

\* A document reads as though it were parsed first and its values expanded then: a
\* value with a reference is a string and never nothing, a key is what was written
\* (interpolateDocument).
ReadsAsParsedFirstOf(t, inKey, lookup) ==
  LET refs == \E i \in DOMAIN t : t[i].is = "ref"
      read == Scalar(t, inKey, lookup)
  IN ~IsRefused(read) =>
       /\ read.kind = IF t = <<>> THEN "null" ELSE IF refs THEN "string" ELSE "yaml"
       /\ read.text = IF inKey THEN Written(t) ELSE Expand(t, lookup)
=============================================================================
