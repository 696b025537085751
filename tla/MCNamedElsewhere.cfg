SPECIFICATION ComposeSpec
CONSTANTS
  ServiceNames = {"networks", "environment", "build", "tmpfs", "command"}
  Segments <- MCSegments
  MergeQuestions <- MCMergeQuestions
  TagQuestions <- MCTagQuestions
  ExtendsQuestions <- MCExtendsQuestions
  IncludeQuestions <- MCIncludeQuestions
  EnvQuestions <- MCEnvQuestions
  ServiceQuestions <- MCServiceQuestions
  ScalarQuestions <- MCScalarQuestions
  FlagQuestions <- MCFlagQuestions
  NetworkQuestions <- MCNetworkQuestions
  NetworkRuntimeName <- MCNetworkRuntimeName
  WordOrder <- MCWordOrder
  ProjectQuestions <- MCProjectQuestions
  SanitizeName <- MCSanitizeName
  PortQuestions <- MCPortQuestions
  MountQuestions <- MCMountQuestions
  EntryQuestions <- MCEntryQuestions
  NameOrder <- MCNameOrder
INVARIANTS TakesDownItsOwn
CHECK_DEADLOCK FALSE
