SPECIFICATION FairSpec
CONSTANTS
  m = m
  w = w
  Conns <- OneConn
  Masque <- OneConn
  AutoRotate <- OneConn
  Days = 1
  MaxDevices = 2
  MaxKeys = 6
INVARIANTS
  TypeOK
  OkMeansAgreement
  StatusIsBacked
PROPERTIES
  RotationHeals
CHECK_DEADLOCK FALSE
