\* Two goroutines of one process, three containers, two addresses; commands
\* may fail and the process may be killed once.
CONSTANTS
  t1 = t1  t2 = t2  m1 = m1  m2 = m2  c1 = c1  c2 = c2  c3 = c3
  Container = {c1, c2, c3}
  Thread = {t1, t2}
  Manager = {m1}
  ManagerOf <- OneProcess
  FirstHost = 2
  LastHost = 3
  Gateway = 1
  NameLen <- GeneratedIDs
  NameMax = 16
  Faults = {"ip"}
  MaxCrashes = 1
  NoThread = NoThread
  NoContainer = NoContainer
SPECIFICATION Spec
INVARIANTS TypeOK UniqueAddresses HeldIsRecorded
PROPERTIES NoLostUpdate TornStaysTorn ImplementsIPAM
