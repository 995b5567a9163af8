CONSTANTS
  Savers = {s1, s2}
  short = short
  long = long
  Values <- MCValues
  Size <- MCSize
  Inodes = {i1, i2, i3, i4, i5}
  NoInode = NoInode
  None = None
  Torn = Torn
  Serialized = TRUE
  MaxSaves = 1
  MaxFailures = 0
  MaxPowerLosses = 1
SPECIFICATION Spec
SYMMETRY Interchangeable
CHECK_DEADLOCK FALSE
INVARIANT AckedDurable
