\* The container of the README's quick start, on Linux, where an interface
\* name has at most 15 characters.
CONSTANTS
  t1 = t1  t2 = t2  m1 = m1  m2 = m2  c1 = c1  c2 = c2  c3 = c3
  Container = {c1, c2}
  Thread = {t1, t2}
  Manager = {m1}
  ManagerOf <- OneProcess
  FirstHost = 2
  LastHost = 253
  Gateway = 1
  NameLen <- ReadmeName
  NameMax = 15
  Faults = {}
  MaxCrashes = 0
  NoThread = NoThread
  NoContainer = NoContainer
SPECIFICATION Spec
PROPERTY CreateTapSucceeds
