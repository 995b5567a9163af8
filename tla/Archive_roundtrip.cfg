CONSTANTS
  Objects = {o1, o2}
  Versions = {v1, v2}
  Relations = {r1}
  Writers = {w1, w2}
  Missing = Missing
  MaxExports = 2
  MaxImports = 3
  MaxFailures = 2
SPECIFICATION Spec
SYMMETRY Interchangeable
CHECK_DEADLOCK FALSE
INVARIANTS
  TypeOK
  HeadsExported
  ExportComplete
  RoundTripAccepted
  OkRestores
