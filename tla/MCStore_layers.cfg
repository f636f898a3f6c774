SPECIFICATION Spec
CONSTANTS
  Proc = {"p", "q"}
  Plan <- MixedOnly
  Remote <- MCRemote
  LayersOf <- MCLayersOf
  Tar <- MCTar
  SettingsOf <- MCSettingsOf
  Hosts <- MCHosts
  Published <- MCPublished
  Packages <- MCPackages
  PathOf <- MCPathOf
  Binaries <- MCBinaries
  NineP <- MCNineP
  Context <- MCContext
  NameEnds <- MCNameEnds
  ImageOf <- MCImageOf
  Dockerfiles <- MCDockerfiles
  MaxFaults = 1
  MaxKills = 1
CHECK_DEADLOCK FALSE
INVARIANTS TopLayerWins
