SPECIFICATION WatchFairSpec
CONSTANTS
  db = db
  job = job
  Services = {db, job}
  NoService = none
  Policy <- MCPolicy
  Backoff <- MCBackoff
  StableRun = 2
  MaxOnFailureRetries = 1
  EarlierStops = {db}
  OneShot = {}
  IdlePolls = 2
  MayVanish = TRUE
  MayGoQuiet = TRUE
  Elapsed = {1}
  MaxSince = 2
  MaxRestarts = 1
INVARIANTS OnFailureBounded
PROPERTIES OutageIsNotAbsence WatchEnds ExitIsRetried
