CONSTANTS
  AddrMod <- MCAddrMod
  TargetMod <- MCTargetMod
  HighMod <- MCHighMod
  OrdinalMod <- MCOrdinalMod
  AddendMod <- MCAddendMod
  NextMod <- MCNextMod
  NextShift <- MCNextShift
  BindShift <- MCBindShift
  MaxSegments = 4
  Names <- MCNames
  Dylibs <- MCDylibs
  PoolStart <- MCPoolStart
  Resolve <- MCResolve
  HostBases <- MCHostBases
  ChainLimit = 4
  Images <- NoImages
  WordBits <- MCWordBits
  NoName <- MCNoName
  BindImages <- NoImages
  Files <- LowFiles
  HostPage <- MCHostPage
SPECIFICATION LoaderSpec
INVARIANT SegmentsAreMapped
