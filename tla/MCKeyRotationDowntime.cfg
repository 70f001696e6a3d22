SPECIFICATION Spec
CONSTANTS
  m = m
  w = w
  Conns <- OneConn
  Masque <- OneConn
  AutoRotate <- OneConn
  Days = 1
  MaxDevices = 1
  MaxKeys = 6
INVARIANTS
  NoDowntime
CHECK_DEADLOCK FALSE
