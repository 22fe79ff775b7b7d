CONSTANTS
  Names = {"x", "y"}
  V4 = {"4a", "4b"}
  V6 = {"6a"}
  Inventories <- SomeInventories
  Extras <- SomeExtras
  Requests <- SomeRequests
  DNSHandlers = {d1}
  PageHandlers = {p1}
SPECIFICATION FairSpec
INVARIANTS
  ServesItsSource
  ReplyIsCurrent
  PageIsOneZone
PROPERTIES
  IsAtomic
  Answered
  Published
