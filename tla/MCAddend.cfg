CONSTANTS
  AddrMod <- MCAddrMod
  TargetMod <- MCTargetMod
  HighMod <- MCHighMod
  OrdinalMod <- MCOrdinalMod
  AddendMod <- MCAddendMod
  NextMod <- MCNextMod
  NextShift <- MCNextShift
  BindShift <- MCBindShift
  MaxSegments = 4
  Names <- MCNames
  Dylibs <- MCDylibs
  PoolStart <- MCPoolStart
  Resolve <- MCResolve
  HostBases <- MCHostBases
  NoName <- MCNoName
  ChainLimit = 4
  Images <- AddendImages
SPECIFICATION FixupsSpec
INVARIANT FixupsMatchFormat
