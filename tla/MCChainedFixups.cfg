CONSTANTS
  AddrMod <- MCAddrMod
  TargetMod <- MCTargetMod
  HighMod <- MCHighMod
  OrdinalMod <- MCOrdinalMod
  AddendMod <- MCAddendMod
  NextMod <- MCNextMod
  NextShift <- MCNextShift
  BindShift <- MCBindShift
  MaxSegments = 4
  Names <- MCNames
  Dylibs <- MCDylibs
  PoolStart <- MCPoolStart
  Resolve <- MCResolve
  HostBases <- MCHostBases
  NoName <- MCNoName
  ChainLimit = 4
  Images <- MCImages
SPECIFICATION FixupsSpec
INVARIANT FixupsTypeOK
INVARIANT EachPlaceOnce
INVARIANT UnresolvedAreLeft
INVARIANT FixupsMatchFormat
PROPERTY RewritesDeclaredOnce
PROPERTY FixupsReturn
