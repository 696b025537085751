SPECIFICATION Spec
CONSTANTS
  Sups = {s1, s2}
  Ups = {u1, u2}
  Downs = {d1}
  Destroys = {}
  Cmds = {u1, u2, d1}
  Services = {a}
  Inodes = {i1}
  NoInode = NoInode
  NoSup = NoSup
  PsMayFail = TRUE
  MayCrash = TRUE
  FirstUse = FALSE
SYMMETRY Symmetry
CHECK_DEADLOCK FALSE
INVARIANTS WatcherFindable OneCommandAtATime
PROPERTIES ImplementsWatcherSlot UsesClaimProtocol QuietDownLeavesNobody AwaitedChildNotSignalled
