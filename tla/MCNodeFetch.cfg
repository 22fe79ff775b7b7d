CONSTANTS
  Nodes = {n1, n2}
  Guests <- TwoGuests
  Addrs = {a1, a2}
  VMs <- OneVM
  Static <- OneContainer
  MaxEvents = 2
  Nobody = Nobody
  NoGuest = NoGuest
\* The fetch ends; that it does not end too early is the property Returns.
CHECK_DEADLOCK FALSE
SPECIFICATION FairSpec
INVARIANTS
  AllOrNothing
  SettledGuestsExact
PROPERTIES
  IsRegular
  Returns
