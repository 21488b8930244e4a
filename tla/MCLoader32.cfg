CONSTANTS
  AddrMod <- MCAddrMod
  TargetMod <- MCTargetMod
  HighMod <- MCHighMod
  OrdinalMod <- MCOrdinalMod
  AddendMod <- MCAddendMod
  NextMod <- MCNextMod
  NextShift <- MCNextShift
  BindShift <- MCBindShift
  MaxSegments = 4
  Names <- MCNames
  Dylibs <- MCDylibs
  PoolStart <- MCPoolStart
  Resolve <- MCResolve
  HostBases <- MCHostBases
  ChainLimit = 4
  Images <- NoImages
  WordBits <- MCWordBits
  NoName <- MCNoName
  BindImages <- NoImages
  Files <- Files32
  HeadSize <- MCHeadSize
  HostPage <- MCHostPage
SPECIFICATION Loader32Spec
INVARIANT LoaderTypeOK
INVARIANT PtrAtCommand
INVARIANT HeadIsLoaded
INVARIANT BindsFollowTable
INVARIANT MainInHead
PROPERTY Loader32Returns
