CONSTANTS
  AddrMod <- MCAddrMod
  TargetMod <- MCTargetMod
  HighMod <- MCHighMod
  OrdinalMod <- MCOrdinalMod
  AddendMod <- MCAddendMod
  NextMod <- MCNextMod
  NextShift <- MCNextShift
  BindShift <- MCBindShift
  MaxSegments = 5
  Names <- MCNames
  PoolStart <- MCPoolStart
  Resolve <- MCResolve
  HostBases <- MCHostBases
  ChainLimit = 4
  Images <- NoImages
  WordBits <- MCWordBits
  NoName <- MCNoName
  BindImages <- NoImages
  HeadSize <- MCHeadSize
  HostPage <- MCHostPage
  HostMmap <- MCHostMmap
  Guard <- MCGuard
  Dylibs <- MCDylibs
  Hosts <- MCMainHosts
  BindTasks <- NoTasks
  Files <- AddendFiles
SPECIFICATION MainSpec
INVARIANT EnteredWhole
