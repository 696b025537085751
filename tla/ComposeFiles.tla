---------------------------- MODULE ComposeFiles ----------------------------
(* What is asked of the compose files of a project, one question at a time: the *)
(* questions are the bounded inputs of the algorithms that read the files, and   *)
(* the properties say what the answers must be.                                   *)
EXTENDS FileLayers, EnvLayers, RunFlags, ProjectAnswers, PortForms, MountForms, EntryForms

CONSTANTS
  MergeQuestions,    \* [key, base, over, name]
  TagQuestions,      \* files, one over the other
  ExtendsQuestions,  \* [disk, names]
  IncludeQuestions,  \* [disk, paths]
  EnvQuestions,      \* [shell, named, here, under, builtin]
  ServiceQuestions,  \* [shell, here, files, env, builtin]
  ScalarQuestions,   \* [text, inKey, lookup]
  FlagQuestions,     \* [services, there]
  PortQuestions,     \* sequences of entries
  MountQuestions,    \* [entries, tmpfs]
  EntryQuestions     \* [field, value, blocks]

ASSUME FlagQuestionsAssumption == \A q \in FlagQuestions : IsImage(q.there) /\ \A s \in q.services : IsService(s)

ComposeInit ==
  \/ ProjectInit
  \/ /\ answer = NoAnswer
     /\ \/ asked = "merge"   /\ question \in MergeQuestions
        \/ asked = "tags"    /\ question \in TagQuestions
        \/ asked = "extends" /\ question \in ExtendsQuestions
        \/ asked = "include" /\ question \in IncludeQuestions
        \/ asked = "env"     /\ question \in EnvQuestions
        \/ asked = "service" /\ question \in ServiceQuestions
        \/ asked = "scalar"  /\ question \in ScalarQuestions
        \/ asked = "flags"   /\ question \in FlagQuestions
        \/ asked = "ports"   /\ question \in PortQuestions
        \/ asked = "mounts"  /\ question \in MountQuestions
        \/ asked = "entry"   /\ question \in EntryQuestions

AnswersMerge ==
  Answers("merge", MergeValue(question.base, question.over, question.key, <<"services">> \o Segments(question.name)))
AnswersTags == Answers("tags", LoadFiles(question.disk, question.paths, question.names))
AnswersExtends == Answers("extends", LoadFiles(question.disk, question.paths, question.names))
AnswersInclude == Answers("include", LoadFiles(question.disk, question.paths, question.names))
AnswersEnv ==
  Answers("env", LoadEnvLayers(question.shell, question.named, question.here, question.under, FALSE, question.builtin))
AnswersService ==
  Answers("service", EnvironmentOf(question.files, question.env,
                       LoadEnvLayers(question.shell, <<>>, question.here, <<>>, FALSE, question.builtin)))
AnswersScalar == Answers("scalar", Scalar(question.text, question.inKey, question.lookup))
AnswersFlags ==
  Answers("flags", [s \in question.services |->
    LET o == RunOptionsOf("built", s) IN [hash |-> ConfigHash(o), run |-> Run(o, question.there)]])
AnswersPorts == Answers("ports", ReadPorts(question))
AnswersMounts == Answers("mounts", ReadMounts(question.entries, question.tmpfs))
AnswersEntry == Answers("entry", ReadEntry(question))

ComposeNext ==
  \/ AnswersMerge \/ AnswersTags \/ AnswersExtends \/ AnswersInclude
  \/ AnswersEnv \/ AnswersService \/ AnswersScalar \/ AnswersFlags
  \/ ProjectNext \/ AnswersPorts \/ AnswersMounts \/ AnswersEntry
ComposeSpec == ComposeInit /\ [][ComposeNext]_composeVars

-----------------------------------------------------------------------------
\* Whatever forms two files write a key in, what each says stands and the later one
\* is heard where both speak (LaterOverEarlierOf).
LaterOverEarlier ==
  Answered("merge") /\ EnvListIsClean(question.base) /\ EnvListIsClean(question.over)
    => LaterOverEarlierOf(question.key, question.base, question.over)

\* No key merges another way because of what its service is called (NameIsOnlyANameOf).
NameIsOnlyAName ==
  Answered("merge") => NameIsOnlyANameOf(question.name, question.key, question.base, question.over)

\* A tagged key is read as though the files before it had not been there (TagsStandOf).
TagsStand == Answered("tags") => TagsStandOf(question.disk, question.paths, question.names)

\* A service is its chain of `extends`, in whatever order the file is read; with
\* includes, a key is what the last file read says, and only a file that includes
\* itself is refused (ExtendsIsItsChainOf, LastReadSpeaksOf).
UnitsAreReadOnce ==
  /\ Answered("extends") => ExtendsIsItsChainOf(question.disk, question.paths[1], question.names)
  /\ Answered("include") => LastReadSpeaksOf(question.disk, question.paths, question.names)

\* What several files say is laid over one another as they are written, in whatever
\* form, under whatever tag and through whatever `extends` or `include` it is reached.
FilesAreLaidOver == LaterOverEarlier /\ TagsStand /\ UnitsAreReadOnce

\* A variable reads one way wherever it is met: env files of one level are one file,
\* a second place is read below the first, a command that takes down reads what one
\* that starts reads, what a service's env files read is what the service is given,
\* and no reference changes what its document is (the operators of EnvLayers named
\* here).
VariablesReadOneWay ==
  /\ Answered("env") =>
       /\ FilesReadAsOneOf(question.shell, question.named, question.builtin)
       /\ SecondPlaceYieldsOf(question.shell, question.here, question.under, question.builtin)
       /\ SoftLeavesLineOutOf(question.shell, question.here, question.under, question.builtin)
  /\ Answered("service") =>
       ServiceReadsItsOwnOf(question.shell, question.here, question.files, question.env, question.builtin)
  /\ Answered("scalar") => ReadsAsParsedFirstOf(question.text, question.inKey, question.lookup)

\* A container that is left alone because its fingerprint is the file's is the one the
\* file asks for, what runs in it are the words docker would run, and no group the file
\* adds is left out (HashTellsApartOf, WordsAreRunOf, GroupsAreHandedOverOf).
RunsAsWritten ==
  Answered("flags") => /\ HashTellsApartOf(answer)
                       /\ \A s \in question.services :
                            WordsAreRunOf(s, answer[s].run, question.there) /\ GroupsAreHandedOverOf(s)

\* A key says one thing in whatever form it is written: a port's long form and its short
\* one, one port published twice only where its digits are in two ways, the last mount written for a path and no other's switches, a list and the mapping
\* of the same (the operators of PortForms, MountForms and EntryForms named here).
FormsSayTheSame ==
  /\ Answered("ports") => /\ \A e \in ToSet(question) : OnePortInTwoFormsOf(e)
                          /\ PortsAsPublishedOf(question, answer)
  /\ Answered("mounts") => MountsAsWrittenOf(question.entries, question.tmpfs, answer)
  /\ Answered("entry") => EntryAsWrittenOf(question, answer)

\* A `down` goes on without its files for their own project only (TakesDownItsOwnOf).
TakesDownItsOwn == Answered("project") => TakesDownItsOwnOf(answer)
=============================================================================
