SPECIFICATION Spec
CONSTANTS
  seed = seed
  job = job
  db = db
  web = web
  front = front
  back = back
  Services = {seed, job, db, web}
  Order <- OrderOfAll
  DependsOn <- Needs
  Healthy <- NeedsWell
  Completed <- NeedsEnded
  OneShot = {seed, job}
  Supervised = {db, web}
  Builds = {web}
  NetOrder <- MakeNets
  NetsOf <- Joins
  Asks <- AllAsks
  MayFail = TRUE
  MayGoQuiet = TRUE
  MayStick = TRUE
  MayInterrupt = TRUE
  Others = {db}
  Marked = {db, web}
  NetsThere <- Some
  BoxesThere <- Left
CHECK_DEADLOCK FALSE
INVARIANTS RollbackLeavesNothing KeptIsWhole DisownedIsLeft SupervisionHandedOn
PROPERTIES DependenciesFirst
