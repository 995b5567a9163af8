CONSTANTS
  Own <- MCOwn
  Kept <- MCKept
SPECIFICATION Spec
INVARIANTS
  TypeOK
  RegistryResolves
  TransferResolves
  ArchiveArrives
