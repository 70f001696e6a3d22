SPECIFICATION Spec
CONSTANTS
  Configs <- OnlyFullTunnel
  Gateways = {"gw1", "gw2"}
  MaxRuns = 1
  MaxFailovers = 0
INVARIANTS
  DefaultRestoredAfterStop
