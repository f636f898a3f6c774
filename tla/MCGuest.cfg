\* Five containers; two execs of which one may be killed; one background
\* process at a time.
CONSTANTS
  x1 = x1  x2 = x2
  Module <- NineP
  ModuleOrder <- NinePOrder
  Needs <- NinePNeeds
  RootNeeds <- Mountable
  MaxPasses = 20
  Settings <- Containers
  MaxOrphans = 1
  Client = {x1, x2}
  NoClient = NoClient
  AgentRuns = TRUE
  MaxAttempts = 2
  MaxKills = 1
SPECIFICATION FairSpec
CHECK_DEADLOCK FALSE
INVARIANTS TypeOK SettingsArrive ModulesLoaded
PROPERTIES  PowersOffForAReason EndPowersOff ExecEnds
