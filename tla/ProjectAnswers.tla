--------------------------- MODULE ProjectAnswers ---------------------------
(* What is asked of a project as a whole: which networks its services are on,   *)
(* and which project each command acts on.  One question at a time: each of the  *)
(* bounded inputs is asked, answered, and no more happens.                        *)
EXTENDS NetworkKeys, CommandProject

CONSTANTS
  NetworkQuestions,  \* [project, order, there]
  ProjectQuestions   \* runs of a command

ASSUME NetworkQuestionsAssumption ==
  \A q \in NetworkQuestions : IsProject(q.project) /\ q.order \in Seq(DOMAIN q.project.services)
ASSUME ProjectQuestionsAssumption == \A run \in ProjectQuestions : IsRun(run)

VARIABLES
  asked,     \* which algorithm
  question,  \* its input
  answer     \* what it makes of it

composeVars == <<asked, question, answer>>
NoAnswer == [waits |-> TRUE]

ProjectInit ==
  /\ answer = NoAnswer
  /\ \/ asked = "networks" /\ question \in NetworkQuestions
     \/ asked = "project" /\ question \in ProjectQuestions

Answers(what, a) ==
  asked = what /\ answer = NoAnswer /\ answer' = a /\ UNCHANGED <<asked, question>>
AnswersNetworks == Answers("networks", UpNetworks(question.project, question.order, question.there))
AnswersProject == Answers("project", CommandsOf(question))
ProjectNext == AnswersNetworks \/ AnswersProject
ProjectSpec == ProjectInit /\ [][ProjectNext]_composeVars

-----------------------------------------------------------------------------
Answered(what) == asked = what /\ answer # NoAnswer

\* A service is on the networks its file declares and on no other service's
\* (NetworksAreAsDeclaredOf).
NetworksAreAsDeclared ==
  Answered("networks") => NetworksAreAsDeclaredOf(question.project, question.order, question.there)

\* The commands that take a project down act on the one `up` starts, or ask
\* (CommandsAgreeOf).
CommandsAgree == Answered("project") => CommandsAgreeOf(question, answer)
=============================================================================
