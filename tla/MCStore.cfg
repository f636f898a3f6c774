SPECIFICATION FairSpec
CONSTANTS
  Proc = {"p", "q"}
  Plan <- AllPlans
  Remote <- MCRemote
  LayersOf <- MCLayersOf
  Tar <- MCTar
  SettingsOf <- MCSettingsOf
  Hosts <- MCHosts
  Published <- MCPublished
  Packages <- MCPackages
  PathOf <- MCPathOf
  Binaries <- MCBinaries
  NineP <- MCNineP
  Context <- MCContext
  NameEnds <- MCNameEnds
  ImageOf <- MCImageOf
  Dockerfiles <- MCDockerfiles
  MaxFaults = 1
  MaxKills = 1
INVARIANTS TypeOK  RootfsWhole NamesParseBack  BuiltBoots BadRunNeverTagged  BuiltSettings OneInstructionPerLine
  
CHECK_DEADLOCK FALSE
