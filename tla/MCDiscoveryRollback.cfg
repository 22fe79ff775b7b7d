CONSTANTS
  Versions = {0, 1}
  CurrentCacheVersion = 1
  NoConfig = NoConfig
  NoInv = NoInv
  NoFile = NoFile
  Garbage = Garbage
  NoTemp = NoTemp
  EmptyTemp = EmptyTemp
  Never = Never
  MaxWorld = 2
  Configs <- CachedH1
  Accepted <- CachedH1
  Faults <- SaveFaults
SPECIFICATION Spec
PROPERTIES
  NoRollback
