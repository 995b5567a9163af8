CONSTANTS
  Handles = {h1}
  Objects = {o1}
  Relations = {}
  Runs = {}
  Packets = {}
  Reviews = {}
  Versions = {v1}
  Handoffs = {m1}
  Missing = Missing
  Unreadable = Unreadable
  MaxWrites = 3
  MaxRebuilds = 1
  MaxFailures = 0
SPECIFICATION Spec
CHECK_DEADLOCK FALSE
INVARIANT AllTablesRestored
