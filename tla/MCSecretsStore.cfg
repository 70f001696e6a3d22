SPECIFICATION Spec
CONSTANTS
  Writers <- TwoWriters
  Keys <- TwoKeys
  Values <- OneValue
  Hosts <- TwoHosts
  w1 = w1
  w2 = w2
  k1 = k1
  k2 = k2
  v1 = v1
  h1 = h1
  h2 = h2
  Contents <- Entries
  Absent = Absent
  Torn = Torn
  NoHost = NoHost
  Missing = Missing
  NoJob = NoJob
  Unknown = Unknown
INVARIANTS
  TypeOK
  AckedIsStored
PROPERTIES
  ImplementsStore
