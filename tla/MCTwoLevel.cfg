CONSTANTS
  AddrMod <- MCAddrMod
  TargetMod <- MCTargetMod
  HighMod <- MCHighMod
  OrdinalMod <- MCOrdinalMod
  AddendMod <- MCAddendMod
  NextMod <- MCNextMod
  NextShift <- MCNextShift
  BindShift <- MCBindShift
  MaxSegments = 4
  Names <- MCNames
  PoolStart <- MCPoolStart
  Resolve <- MCResolve
  HostBases <- MCHostBases
  NoName <- MCNoName
  HostMmap <- MCHostMmap
  Guard <- MCGuard
  Dylibs <- MCDylibs
  Hosts <- MCHosts
  BindTasks <- TwoLevelTasks
SPECIFICATION BindingSpec
INVARIANT OrdinalsRespected
