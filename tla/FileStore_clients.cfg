CONSTANTS
  Clients = {c1, c2}
  Objects = {o1, o2}
  Versions = {v1, v2, v3}
  Relations = {r1}
  Plain = {run1, cs1}
  Audited = {run1}
  Classes = {k1, k2}
  Payloads = {b1}
  Missing = Missing
  Torn = Torn
  Nothing = Nothing
  MaxCalls = 3
  MaxFailures = 1
  MaxImported = 1
SPECIFICATION Spec
SYMMETRY Interchangeable
CHECK_DEADLOCK FALSE
INVARIANTS
  TypeOK
  FaultsAccounted
  HeadNotOvertaken
  ClassFromCreator
PROPERTY FailClosed
