CONSTANTS
  o1 = o1
  Clients = {c1, c2}
  WorkItems = {o1}
  Versions = {v1, v2}
  Transitions <- MCTransitions
  Ids = {i1, i2}
  Times = {0, 1}
  Ticks = 2
  Archives <- MCArchives
  Missing = Missing
  Torn = Torn
  MaxCalls = 3
  MaxFailures = 1
SPECIFICATION Spec
SYMMETRY Interchangeable
CHECK_DEADLOCK FALSE
INVARIANTS
  TypeOK
  AnswersComplete
  FailuresExplained
  GateCatches
  GateFair
