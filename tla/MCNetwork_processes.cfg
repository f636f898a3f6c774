\* Two poqman processes that share state.json; every command and file access
\* may fail and one process may be killed: what still holds across processes.
CONSTANTS
  t1 = t1  t2 = t2  m1 = m1  m2 = m2  c1 = c1  c2 = c2  c3 = c3
  Container = {c1, c2}
  Thread = {t1, t2}
  Manager = {m1, m2}
  ManagerOf <- TwoProcesses
  FirstHost = 2
  LastHost = 3
  Gateway = 1
  NameLen <- GeneratedIDs
  NameMax = 16
  Faults = {"ip", "read", "write"}
  MaxCrashes = 1
  NoThread = NoThread
  NoContainer = NoContainer
SPECIFICATION FairSpec
INVARIANT TapBehindAddress
PROPERTIES FailedCreateLeavesNoTap 
