CONSTANTS
  c1 = c1  c2 = c2  a1 = a1  a2 = a2  p1 = p1  p2 = p2
  Container = {c1, c2}
  Proc = {p1, p2}
  Address = {a1, a2}
  NoIP = NoIP
  Port = {8080}
  Tap = {c1, c2}
  NoTap = NoTap
  TapName <- OwnName
  Faults = {"kernel", "qemu", "disk"}
  OnePerContainer = TRUE
  FreshNames = FALSE
  MaxCommands = 3
  MaxCrashes = 1
  MaxReboots = 1
SPECIFICATION Spec
CHECK_DEADLOCK FALSE
SYMMETRY Symmetry
INVARIANTS TypeOK  
PROPERTIES RemovalKills 
