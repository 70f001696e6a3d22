SPECIFICATION Spec
CONSTANTS
  Updaters <- TwoUpdaters
  Gui = Gui
  Writers <- AllWriters
  Conns <- TwoConns
  Contents <- Configs
  u1 = u1
  u2 = u2
  c1 = c1
  c2 = c2
  Absent = Absent
  Torn = Torn
  MaxSaves = 3
CHECK_DEADLOCK FALSE
INVARIANTS
  SavesAreKept
