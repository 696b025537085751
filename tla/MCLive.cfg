SPECIFICATION FairSpec
CONSTANTS
  Sups = {s1}
  Ups = {u1}
  Downs = {d1}
  Destroys = {}
  Cmds = {u1, d1}
  Services = {a}
  Inodes = {i1, i2}
  NoInode = NoInode
  NoSup = NoSup
  PsMayFail = TRUE
  MayCrash = TRUE
  FirstUse = TRUE
CHECK_DEADLOCK FALSE
PROPERTIES CommandsEnd SupervisorsSettle
