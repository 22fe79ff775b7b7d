CONSTANTS
  ParsePrefix <- Prefixes
  ParseAddr <- Plain
  Fold <- Lower
  VMs <- SomeVMs
  Containers <- SomeContainers
SPECIFICATION Spec
INVARIANTS
  StaticAddressAlone
  OnlyOwnAddresses
  NoAddressMissed
