CONSTANTS
  Clients = {c1, c2}
  Objects = {o1}
  Versions = {v1, v2}
  Relations = {r1}
  Plain = {run1}
  Audited = {run1}
  Classes = {k1}
  Payloads = {b1}
  Missing = Missing
  Torn = Torn
  Nothing = Nothing
  MaxCalls = 2
  MaxFailures = 1
  MaxImported = 2
CHECK_DEADLOCK FALSE
SPECIFICATION FairSpec
 
PROPERTIES FailClosed CallsReturn
