CONSTANTS
  c1 = c1  c2 = c2  a1 = a1  a2 = a2  p1 = p1  p2 = p2
  Container = {c1}
  Proc = {p1, p2}
  Address = {a1}
  NoIP = NoIP
  Port = {}
  Tap = {c1, c2}
  NoTap = NoTap
  TapName <- OwnName
  Faults = {"qemu", "disk"}
  OnePerContainer = FALSE
  FreshNames = FALSE
  MaxCommands = 4
  MaxCrashes = 0
  MaxReboots = 0
SPECIFICATION Spec
CHECK_DEADLOCK FALSE
SYMMETRY Symmetry
INVARIANT StoppedNamesDeadProcess

