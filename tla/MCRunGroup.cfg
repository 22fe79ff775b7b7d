CONSTANTS
  Periodics <- Jobs
  Updaters = {"update"}
  DNSServers = {"udp", "tcp"}
  HTTPServers = {"debug"}
  Signal = "signal"
  Order <- AllOrder
SPECIFICATION FairSpec
INVARIANTS
  InterruptedInOrder
  OnlySignalOrDNSStops
  NothingLeftRunning
  StopNeverStuck
PROPERTIES
  StopsUnlessHeld
