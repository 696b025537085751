SPECIFICATION Spec
CONSTANTS
  Sups = {s1}
  Ups = {u1}
  Downs = {d1}
  Destroys = {x1}
  Cmds = {u1, d1, x1}
  Services = {a}
  Inodes = {i1, i2}
  NoInode = NoInode
  NoSup = NoSup
  PsMayFail = FALSE
  MayCrash = FALSE
  FirstUse = TRUE
CHECK_DEADLOCK FALSE
PROPERTIES DestroyThatLookedLosesNobody
