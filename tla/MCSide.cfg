SPECIFICATION SideSpec
CONSTANTS
  db = db
  web = web
  oldweb = oldweb
  Order <- MCTakeDownOrder
  Renamed = {oldweb}
  NetDecl <- MCNetDecl
  Mounts <- MCMounts
  ExternalVols <- MCExternal
  VolNames = {}
  Prefixed <- MCPrefixed
  ImageOf <- MCImageOf
  Commands <- MCCommands
  Worlds <- MCWorlds
  MayGoDeaf = TRUE
  MayStay = TRUE
  MaxTrouble = 1
  r1 = r1
  r2 = r2
  Runs = {r1, r2}
  Removing = {r1}
  NoCopy = FALSE
  OneOffsThere <- MCBefore
  VolumesThere = {"none", "kept"}
  api = api
  Rules <- MCRules
  DirOf <- MCDirOf
  Roots = {"top"}
  MaxSaves <- MCMaxSaves
  good = good
  SnapNames = {good}
  MaxVersion = 3
  MaxRollbacks = 2
  MaxTroubles = 2
  PortOrder <- MCPortOrder
  PortFiles <- MCFiles
  HostAddresses = {"any", "lo"}
  MaxHostPort = 5
  FreeHostPortTries = 2
  Crowds <- MCCrowds
  Denied = {}
  AddressesGone <- MCGone
  MaxComings = 1
  Count = 2
  MaxEdits = 1
  OrderNames = {"app", "gate", "web"}
  ServiceNames = {"networks", "environment", "build", "tmpfs", "command"}
  Alphabet <- MCAlphabet
  Segments <- MCSegments
  OrderQuestions <- MCOrderQuestions
  MergeQuestions <- MCMergeQuestions
  TagQuestions <- MCTagQuestions
  ExtendsQuestions <- MCExtendsQuestions
  IncludeQuestions <- MCIncludeQuestions
  EnvQuestions <- MCEnvQuestions
  ServiceQuestions <- MCServiceQuestions
  ScalarQuestions <- MCScalarQuestions
  FlagQuestions <- MCFlagQuestions
  ShareQuestions <- MCShareQuestions
  Paths <- MCPaths
  Sources <- MCSources
  NetworkQuestions <- MCNetworkQuestions
  NetworkRuntimeName <- MCNetworkRuntimeName
  WordOrder <- MCWordOrder
  ProjectQuestions <- MCProjectQuestions
  SanitizeName <- MCSanitizeName
  PortQuestions <- MCPortQuestions
  MountQuestions <- MCMountQuestions
  EntryQuestions <- MCEntryQuestions
  NameOrder <- MCNameOrder
  AdaptProjects <- MCAdaptProjects
  AdaptOrder <- MCAdaptOrder
  Keeps <- MCKeeps
  Declares <- MCDeclares
  OwnDir <- MCOwnDir
  MaxHappenings = 2
INVARIANTS TakesItsOwn SavesTakeEffect SweepIsHonest WalksAreInOrder FilesAreLaidOver NameIsOnlyAName VariablesReadOneWay AdaptationsAreWhole CommandsAgree FormsSayTheSame RunsAsWritten BorrowsAsWritten NetworksAreAsDeclared
PROPERTIES RunsAreAccountedFor RollbackIsReversible PortsAreSettled
CHECK_DEADLOCK FALSE
