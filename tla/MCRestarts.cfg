SPECIFICATION FairSpec
CONSTANTS
  db = db
  web = web
  stop1 = stop1
  kill1 = kill1
  start1 = start1
  restart1 = restart1
  restart2 = restart2
  Services = {db, web}
  NoService = none
  Cmds = {restart1, restart2}
  NoCmd = nobody
  Ask <- Asks
  StartupOrder <- Order
  NameOrder <- Order
  DependsOn <- Needs
  MayFail = TRUE
  MayCrash = TRUE
  Policy <- NoPolicies
  EarlierStops = {}
  OneShot = {}
  Backoff <- AtOnce
  StableRun = 1
  MaxOnFailureRetries = 1
  IdlePolls = 1
  MayVanish = FALSE
  MayGoQuiet = FALSE
  Elapsed = {1}
  MaxSince = 1
  MaxRestarts = 1
CHECK_DEADLOCK FALSE
INVARIANTS NoCircle
PROPERTIES RestartsEnd
