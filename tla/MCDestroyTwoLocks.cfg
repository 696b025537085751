SPECIFICATION Spec
CONSTANTS
  Sups = {s1, s2}
  Ups = {u1, u2}
  Downs = {}
  Destroys = {x1}
  Cmds = {u1, u2, x1}
  Services = {a}
  Inodes = {i1, i2}
  NoInode = NoInode
  NoSup = NoSup
  PsMayFail = FALSE
  MayCrash = FALSE
  FirstUse = FALSE
CHECK_DEADLOCK FALSE
INVARIANTS UpsNeverOverlap

