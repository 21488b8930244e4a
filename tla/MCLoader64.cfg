CONSTANTS
  AddrMod <- MCAddrMod
  TargetMod <- MCTargetMod
  HighMod <- MCHighMod
  OrdinalMod <- MCOrdinalMod
  AddendMod <- MCAddendMod
  NextMod <- MCNextMod
  NextShift <- MCNextShift
  BindShift <- MCBindShift
  MaxSegments = 4
  Names <- MCNames
  Dylibs <- MCDylibs
  PoolStart <- MCPoolStart
  Resolve <- MCResolve
  HostBases <- MCHostBases
  ChainLimit = 4
  Images <- NoImages
  WordBits <- MCWordBits
  NoName <- MCNoName
  BindImages <- NoImages
  Files <- MCFiles
  HostPage <- MCHostPage
SPECIFICATION LoaderSpec
INVARIANT LoaderTypeOK
INVARIANT PtrAtCommand
INVARIANT RecordedIsLoaded
INVARIANT WritesInMapping
INVARIANT FixupsAllOrNone
INVARIANT MainIsLoaded
INVARIANT BindsHitLoadedWords
PROPERTY LoaderReturns
PROPERTY ImplementsImageLoading
