SPECIFICATION FairSpec
CONSTANTS
  Configs <- AllConfigs
  Gateways = {"gw1", "gw2"}
  MaxRuns = 3
  MaxFailovers = 1
INVARIANTS
  TypeOK
  StaleStateSwept
  NoDefaultGap
  CleanExitRestores
  StopIsComplete
PROPERTIES
  ImplementsContract
  CommandsFinish
