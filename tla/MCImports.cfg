CONSTANTS
  MachoNames <- MCMachoNames
  NoName = NoName
  Stems <- MCStems
  Cut <- MCCut
  Addresses <- MCAddresses
  Shim <- MCShim
  HostMmap = 91
  Guard = 92
  Hosts <- MCHosts
  PatternSize = 3
  MemSize = 9
  Memories <- MCMemories
  Flags <- MCFlags
  DarwinAnon = 4096
  HostAnon = 32
SPECIFICATION ImportsSpec
INVARIANT ResolverTypeOK
INVARIANT AnswersAreMeanings
INVARIANT PathsAgree
INVARIANT ShimsTypeOK
INVARIANT PatternRepeated
PROPERTY MemsetReturns
