SPECIFICATION Spec
CONSTANTS
  Writers <- TwoCommands
  Contents <- Overrides
  Servers <- OneList
  Domains <- NoDomains
  Gateway = Gateway
  Unknown = Unknown
  NoOne = NoOne
  Absent = Absent
  Torn = Torn
  w1 = w1
  w2 = w2
  own = own
  none = none
INVARIANTS
  TypeOK
  TornOnlyAfterOverlap
  SettledFile
  StaleOnlyAfterMiss
