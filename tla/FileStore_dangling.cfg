CONSTANTS
  Clients = {c1}
  Objects = {o1}
  Versions = {v1, v2}
  Relations = {r1}
  Plain = {run1}
  Audited = {run1}
  Classes = {k1}
  Payloads = {b1, b2}
  Missing = Missing
  Torn = Torn
  Nothing = Nothing
  MaxCalls = 1
  MaxFailures = 0
  MaxImported = 0
CHECK_DEADLOCK FALSE
SPECIFICATION Spec
INVARIANT AtRestConsistent
