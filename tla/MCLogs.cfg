SPECIFICATION LogsSpec
CONSTANTS
  web = web
  db = db
  Followed = {web, db}
  Supervised = {db}
  Poll = 1
  Settle = 2
  Drain = 1
  MaxAsked = 1
  MaxStarts = 2
  MaxLines = 1
CHECK_DEADLOCK FALSE
PROPERTIES StreamsEndWhole FollowReturns
