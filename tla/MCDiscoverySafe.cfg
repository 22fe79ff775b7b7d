CONSTANTS
  Versions = {0, 1}
  CurrentCacheVersion = 1
  NoConfig = NoConfig
  NoInv = NoInv
  NoFile = NoFile
  Garbage = Garbage
  NoTemp = NoTemp
  EmptyTemp = EmptyTemp
  Never = Never
  MaxWorld = 3
  Configs <- CachingConfigs
  Accepted <- AcceptedCaching
  Faults <- ReadFaults
SPECIFICATION Spec
INVARIANTS
  TypeOK
  WriteAhead
  DatedAsServed
PROPERTIES
  NoRollbackIfSaved
  KeepsPromise
