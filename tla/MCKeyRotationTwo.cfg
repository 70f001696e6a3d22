SPECIFICATION Spec
CONSTANTS
  m = m
  w = w
  Conns <- TwoConns
  Masque <- OneConn
  AutoRotate <- OneConn
  Days = 1
  MaxDevices = 2
  MaxKeys = 4
PROPERTIES
  OthersKeepAccess
CHECK_DEADLOCK FALSE
