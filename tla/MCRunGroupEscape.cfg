CONSTANTS
  Periodics <- Jobs
  Updaters = {"update"}
  DNSServers = {"udp"}
  HTTPServers = {}
  Signal = "signal"
  Order <- SmallOrder
SPECIFICATION FairSpec
PROPERTIES
  Stops
