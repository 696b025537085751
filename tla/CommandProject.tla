--------------------------- MODULE CommandProject ---------------------------
(* Which project a command acts on: `-p`, COMPOSE_PROJECT_NAME, the files'      *)
(* `name:`, their directory (loadOrchestratorAs of cmd/opossum/main.go), and    *)
(* the guesses of a take-down before the files are read and when they cannot    *)
(* be (projectNameFor, downByLabel).                                            *)
(* A run is [flag, chosen, place, shell, dotenv, envFile, files]: the files are *)
(* found in the working directory, or chosen by `-f` or COMPOSE_FILE; place is  *)
(* where the first is, dotenv what the `.env` of each place gives, envFile what *)
(* `--env-file` gives in their stead; a file is [is, docs], a document what it  *)
(* writes as `name:`, [is, name].                                               *)
EXTENDS Naturals, Sequences, SequencesExt, Refusals

CONSTANT SanitizeName   \* a name as it is written -> as the runtime is given it

NotSet == "unset"
NoProject == ""
Broken == "broken"
Cwd == "here"

\* Files and documents come one after the other, and a name that is written says something.
IsRun(run) ==
  /\ run = [flag |-> run.flag, chosen |-> run.chosen, place |-> run.place, shell |-> run.shell,
            dotenv |-> run.dotenv, envFile |-> run.envFile, files |-> run.files]
  /\ run.files \in Seq(ToSet(run.files))
  /\ \A i \in DOMAIN run.files : LET docs == run.files[i].docs IN
       /\ docs \in Seq(ToSet(docs))
       /\ \A j \in DOMAIN docs : docs[j].is \in {"plain", "by reference"} => docs[j].name \notin {NotSet, NoProject}

Latest(S) == CHOOSE i \in S : \A j \in S : j <= i
OrDirectory(name, run) == SanitizeName[IF name \in {NotSet, NoProject} THEN run.place ELSE name]

\* EnvValue, for COMPOSE_PROJECT_NAME: the shell over the env files, or the `.env` of the
\* places in their order; set and empty hides what is below.
EnvProjectName(run, places) ==
  LET files == IF run.envFile # NotSet THEN <<run.envFile>> ELSE [i \in DOMAIN places |-> run.dotenv[places[i]]]
      given == {i \in DOMAIN files : files[i] # NotSet}
  IN IF \E i \in DOMAIN files : files[i] = Broken THEN Broken
     ELSE IF run.shell # NotSet THEN run.shell
     ELSE IF given = {} THEN NoProject ELSE files[CHOOSE i \in given : \A j \in given : i <= j]
\* Where the load reads `.env`: COMPOSE_FILE puts the working directory's first.
EnvPlaces(run) == IF run.chosen = "env" /\ run.place # Cwd THEN <<Cwd, run.place>> ELSE <<run.place>>

-----------------------------------------------------------------------------
(* The files read.                                                             *)

\* A later document's `name:` stands, an empty one as well; one with nothing after it is not given.
NameEmptied(w) == w.is = "emptied"
WritesAName(w) == w.is \in {"plain", "by reference"}
Speaks(w) == w.is \notin {"none", "bare"}
NameOf(docs) ==
  LET said == {i \in DOMAIN docs : Speaks(docs[i])}
  IN IF said = {} THEN NotSet ELSE IF WritesAName(docs[Latest(said)]) THEN docs[Latest(said)].name ELSE NoProject
\* Of the files, the last that speaks.
NameOver(run) ==
  LET said == {i \in DOMAIN run.files : NameOf(run.files[i].docs) # NotSet}
  IN IF said = {} THEN NotSet ELSE NameOf(run.files[Latest(said)].docs)
FirstDocuments(run) == [i \in DOMAIN run.files |-> run.files[i].docs[1]]
AllDocuments(run) == UNION {ToSet(run.files[i].docs) : i \in DOMAIN run.files}
BareFirst(run) ==
  \E i \in DOMAIN run.files : \E j \in DOMAIN run.files[i].docs :
    /\ run.files[i].docs[j].is = "bare"
    /\ \A k \in 1..i : \A l \in DOMAIN run.files[k].docs : Speaks(run.files[k].docs[l]) => k = i /\ j <= l
\* The last file to write something as its name, or to write it by references that come to
\* nothing, which the first document of each says.
NameEmptiedIn(run) ==
  \E i \in DOMAIN run.files :
    /\ NameEmptied(FirstDocuments(run)[i])
    /\ \A j \in DOMAIN run.files : WritesAName(FirstDocuments(run)[j]) => j < i

ReadProject(run, env, name, first, all) ==
  CASE env = Broken -> Refused("env file")
    [] env # Broken /\ (\E i \in DOMAIN run.files : run.files[i].is # "read") -> Refused("file")
    [] OTHER -> IF BareFirst(run) THEN Refused("bare name")
                ELSE [env |-> env, own |-> all,
                      differ |-> IF first # all THEN {first, all} ELSE {},
                      emptied |-> name = NoProject /\ NameEmptiedIn(run) /\ env = NoProject]
LoadProject(run) ==
  ReadProject(run, EnvProjectName(run, EnvPlaces(run)), NameOver(run),
              OrDirectory(NameOf(FirstDocuments(run)), run), OrDirectory(NameOver(run), run))
NameWithoutFlag(p) == IF p.env # NoProject THEN SanitizeName[p.env] ELSE p.own
ProjectOf(p, run) == IF run.flag # NoProject THEN SanitizeName[run.flag] ELSE NameWithoutFlag(p)

UpFrom(p, run) ==
  IF IsRefused(p) THEN p
  ELSE IF p.emptied /\ run.flag = NoProject THEN Refused("empty name")
  ELSE [name |-> ProjectOf(p, run)]
UpProject(run) == UpFrom(LoadProject(run), run)
\* loadOrchestratorToTakeDown: documents that differ are asked about, an emptied name is not.
TakeDownFrom(p, run) ==
  IF IsRefused(p) THEN p
  ELSE IF p.differ # {} /\ run.flag = NoProject /\ p.env = NoProject THEN [asks |-> p.differ]
  ELSE [name |-> ProjectOf(p, run)]
\* The note of what is left under the name from before COMPOSE_PROJECT_NAME was read.
FormerName(p, run) == IF IsRefused(p) \/ run.flag # NoProject THEN NoProject ELSE p.own
\* destroy: a name on the command line that is not what the files and their place say.
Mistargeted(p, run) ==
  ~IsRefused(p) /\ run.flag # NoProject /\ NameWithoutFlag(p) # SanitizeName[run.flag]

-----------------------------------------------------------------------------
(* The guesses without the files.                                              *)

\* nameOfDocuments: not known where one is no plain name, or two are not the same.
KnownName(docs) ==
  LET plain == {i \in DOMAIN docs : docs[i].is = "plain"} IN
  IF \/ \E i \in DOMAIN docs : docs[i].is \notin {"none", "plain"}
     \/ \E i, j \in plain : docs[i].name # docs[j].name
  THEN NotSet
  ELSE IF plain = {} THEN NoProject ELSE docs[Latest(plain)].name
WrittenProjectName(run) ==
  LET there == {i \in DOMAIN run.files : run.files[i].is # "gone"}
      given == {i \in there : KnownName(run.files[i].docs) # NoProject}
  IN IF given = {} \/ (\E i \in there : KnownName(run.files[i].docs) = NotSet) THEN NoProject
     ELSE KnownName(run.files[Latest(given)].docs)

GivenBy(run, place) ==
  LET v == EnvProjectName(run, <<place>>) IN IF v = Broken THEN NoProject ELSE v
\* Mutation: the working directory's `.env` is read last, as the file's directory is the project's.
EnvGuessLast(run) ==
  IF GivenBy(run, run.place) # NoProject THEN GivenBy(run, run.place)
  ELSE IF run.chosen = "env" THEN GivenBy(run, Cwd) ELSE NoProject
\* The working directory's `.env` counts, before the file's, where COMPOSE_FILE chose it.
EnvGuess(run) ==
  IF run.chosen = "env" /\ GivenBy(run, Cwd) # NoProject THEN GivenBy(run, Cwd) ELSE GivenBy(run, run.place)
\* projectNameFor: for the lock and the supervisor of a `down` without what the files write,
\* and with it for the command that is suggested.
ProjectNameFor(run, withWritten) ==
  LET written == IF withWritten THEN WrittenProjectName(run) ELSE NoProject IN
  CASE run.flag # NoProject -> SanitizeName[run.flag]
    [] run.flag = NoProject /\ EnvGuess(run) # NoProject -> SanitizeName[EnvGuess(run)]
    [] OTHER -> OrDirectory(written, run)
\* downByLabel: a `down` whose files are refused goes on for a project the reader named.
ExplicitProjectName(run) ==
  LET name == IF run.flag # NoProject THEN run.flag ELSE GivenBy(run, Cwd)
  IN IF name = NoProject THEN NoProject ELSE SanitizeName[name]
DownByLabel(p, name) ==
  IF ~IsRefused(p) \/ name = NoProject THEN Refused("nobody named it") ELSE [name |-> name]

-----------------------------------------------------------------------------
\* What a run comes to, and what the same run comes to with its files there and taken,
\* without the flag, and with no COMPOSE_PROJECT_NAME.
Readable(run) == [run EXCEPT !.files = [i \in DOMAIN @ |-> [is |-> "read", docs |-> @[i].docs]]]
CommandsFrom(p, run) ==
  [up |-> UpFrom(p, run), down |-> TakeDownFrom(p, run), unread |-> DownByLabel(p, ExplicitProjectName(run)),
   mistargeted |-> Mistargeted(p, run), former |-> FormerName(p, run),
   guess |-> ProjectNameFor(run, FALSE), suggested |-> ProjectNameFor(run, TRUE),
   whole |-> UpProject(Readable(run)), alone |-> UpFrom(p, [run EXCEPT !.flag = NoProject]),
   unnamed |-> UpProject([run EXCEPT !.shell = NoProject])]
CommandsOf(run) == CommandsFrom(LoadProject(run), run)

\* A place that sets the name to nothing hides a second one from the load, and not from the guess.
HiddenByNothing(run) ==
  run.chosen = "env" /\ run.place # Cwd /\ run.envFile = NotSet /\ run.shell = NotSet /\ run.dotenv[Cwd] = NoProject
\* Nothing keeps the names that the files write from being known without reading them.
NamesArePlain(run) ==
  \A i \in DOMAIN run.files :
    /\ run.files[i].is # "gone"
    /\ \A w \in ToSet(run.files[i].docs) : w.is \in {"none", "plain"}
    /\ \A w, v \in ToSet(run.files[i].docs) : w.is = "plain" /\ v.is = "plain" => w.name = v.name

\* What `up` starts, a take-down with the same words takes down or asks about; its
\* supervisor is found before the files are read unless only they name the project; the
\* command suggested for files that are refused is that project's where their names can be
\* known; `destroy` is said to be mistargeted where it is, and the former name is the one
\* the project had.
CommandsAgreeOf(run, a) ==
  /\ ~IsRefused(a.up) =>
       /\ a.down = a.up \/ (DOMAIN a.down = {"asks"} /\ a.up.name \in a.down.asks)
       /\ \/ HiddenByNothing(run)
          \/ a.guess = a.up.name
          \/ /\ a.guess = SanitizeName[run.place]
             /\ \E w \in AllDocuments(run) : WritesAName(w) /\ SanitizeName[w.name] = a.up.name
       /\ ~IsRefused(a.alone) => a.mistargeted = (a.alone # a.up)
       /\ ~IsRefused(a.unnamed) /\ run.flag = NoProject => a.former = a.unnamed.name
  /\ ~IsRefused(a.whole) /\ ~HiddenByNothing(run) /\ NamesArePlain(run) => a.suggested = a.whole.name

\* "A wrong guess removes another project's containers": a `down` that cannot read its
\* files takes down the project `up` starts from them.
TakesDownItsOwnOf(a) == ~IsRefused(a.unread) /\ ~IsRefused(a.whole) => a.unread = a.whole
=============================================================================
