CONSTANTS
  Handles = {h1, h2}
  Objects = {o1}
  Relations = {r1}
  Runs = {}
  Packets = {}
  Reviews = {rev1}
  Versions = {}
  Handoffs = {}
  Missing = Missing
  Unreadable = Unreadable
  MaxWrites = 2
  MaxRebuilds = 2
  MaxFailures = 1
SPECIFICATION Spec
SYMMETRY Interchangeable
CHECK_DEADLOCK FALSE
INVARIANTS
  TypeOK
  RebuildRestores
  ClashHasRival
