CONSTANTS
  Versions = {0, 1}
  CurrentCacheVersion = 1
  NoConfig = NoConfig
  NoInv = NoInv
  NoFile = NoFile
  Garbage = Garbage
  NoTemp = NoTemp
  EmptyTemp = EmptyTemp
  Never = Never
  MaxWorld = 3
  Configs <- AllConfigs
  Accepted <- AcceptedConfigs
  Faults <- AllFaults
SPECIFICATION FairSpec
INVARIANTS
  OwnClusterOnly
PROPERTIES
  CacheNeverRegresses
  ZoneSurvivesOutage
  RollsBackToFileOnly
  CatchesUp
