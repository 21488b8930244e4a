----------------------------- MODULE MainProofs -----------------------------
(***************************************************************************)
(* Proofs about main, for every file of either architecture, every host,   *)
(* and whatever mmap and dlopen answer: it keeps the promise of the        *)
(* Handoff; every state is well typed; its silence means what it seems to; *)
(* and a program it could load whole is entered whole.                     *)
(***************************************************************************)
EXTENDS Main, ImageProofs, BindingProofs

IsSequence(s) == \E S : s \in Seq(S)

(* What the loaders leave to do_bind, and keep while they go on. *)
Collected ==
  /\ host \in Hosts /\ d_list \in Seq(Dylibs)
  /\ IsSequence(b_list)
  /\ \A n \in DOMAIN b_list : b_list[n].func_name \in Names \cup {NoName}

(* The interpreter of the bind opcodes is in one of two streams, and the    *)
(* name it has read is one, or none.                                        *)
InStreams ==
  /\ streams \in Seq(Seq(StreamItem)) /\ Len(streams) = 2 /\ pass \in {1, 2}
  /\ symbol_name \in Names \cup {NoName}

(* Before the image is mapped no segment has an address, and no bind.       *)
Unmapped ==
  /\ IsSequence(segments)
  /\ img_addr \in HostBases \cup {Null}
  /\ img_addr = Null =>
       /\ \A n \in DOMAIN segments : segments[n].mapped_addr = Null
       /\ \A n \in DOMAIN b_list : b_list[n].address = Null

IsText(k) == file.cmds[k].cmd = "LC_SEGMENT" /\ file.cmds[k].segname = "__TEXT"

(* The image of a 32-bit file was mapped by its one __TEXT. *)
MappedByText ==
  Bits(file) = 32 /\ img_addr # Null => \E k \in 1 .. c_load_command : IsText(k)

LoadingInv ==
  Walk(Bits(file)) /\ Collected /\ InStreams /\ Unmapped /\ MappedByText

----------------------------------------------------------------------------
(* Sequences, whatever they are of. *)
LEMMA SequenceGrows ==
  ASSUME NEW s, IsSequence(s), NEW e
  PROVE  /\ IsSequence(Append(s, e))
         /\ DOMAIN Append(s, e) = DOMAIN s \cup {Len(s) + 1}
         /\ Append(s, e)[Len(s) + 1] = e
         /\ \A n \in DOMAIN s : Append(s, e)[n] = s[n]
<1>1. PICK S : s \in Seq(S)
  BY DEF IsSequence
<1> DEFINE T == S \cup {e}
<1>2. s \in Seq(T) /\ e \in T
  BY <1>1
<1> HIDE DEF T
<1>3. Append(s, e) \in Seq(T)
  BY <1>2
<1> QED
  BY <1>2, <1>3 DEF IsSequence

(* A step that loses no bind. *)
BindsKept == \A n \in DOMAIN b_list : n \in DOMAIN b_list' /\ b_list'[n] = b_list[n]

LEMMA BindAppended ==
  ASSUME Collected, InStreams, Unmapped, append_bind_info, host' = host
  PROVE  Collected' /\ Unmapped' /\ BindsKept
<1> DEFINE e == [func_name |-> symbol_name,
                 address |-> bind_address_for_segment_offset(segment_index, segment_offset)]
<1>1. b_list' = Append(b_list, e) /\ UNCHANGED <<img_addr, segments, d_list>>
  BY DEF append_bind_info
<1>2. e.func_name \in Names \cup {NoName}
  BY DEF InStreams
<1>3. ASSUME img_addr = Null PROVE e.address = Null
  <2>1. PICK S : segments \in Seq(S)
    BY DEF Unmapped, IsSequence
  <2>2. ASSUME segment_index \in 0 .. Len(segments) - 1
        PROVE  segments[segment_index + 1].mapped_addr = Null
    <3>1. segment_index + 1 \in DOMAIN segments
      BY <2>1, <2>2
    <3> QED
      BY <1>3, <3>1 DEF Unmapped
  <2> QED
    BY <2>2 DEF bind_address_for_segment_offset
<1> HIDE DEF e
<1>4. /\ IsSequence(b_list')
      /\ DOMAIN b_list' = DOMAIN b_list \cup {Len(b_list) + 1}
      /\ b_list'[Len(b_list) + 1] = e
      /\ \A n \in DOMAIN b_list : b_list'[n] = b_list[n]
  BY <1>1, SequenceGrows DEF Collected
<1> QED
  BY <1>1, <1>2, <1>3, <1>4 DEF Collected, Unmapped, BindsKept

LEMMA StreamsCollect ==
  ASSUME Collected, InStreams, Unmapped, BindsStep, host' = host
  PROVE  Collected' /\ InStreams' /\ Unmapped' /\ BindsKept /\ img_addr' = img_addr
<1>1. ASSUME UNCHANGED context PROVE Collected' /\ Unmapped' /\ BindsKept /\ img_addr' = img_addr
  BY <1>1 DEF context, lists, Collected, Unmapped, BindsKept
<1>2. ASSUME append_bind_info PROVE Collected' /\ Unmapped' /\ BindsKept /\ img_addr' = img_addr
  BY <1>2, BindAppended DEF append_bind_info
<1>3. ASSUME UNCHANGED <<streams, pass, symbol_name>> PROVE InStreams'
  BY <1>3 DEF InStreams
<1>4. CASE BeginStream
  BY <1>1, <1>4 DEF BeginStream, InStreams
<1>5. CASE EndStream
  BY <1>1, <1>5 DEF EndStream, InStreams, registers
<1>6. CASE Ignore \/ DropOperand \/ DoBindTimes \/ EndTimes
  BY <1>1, <1>3, <1>6 DEF Ignore, DropOperand, DoBindTimes, EndTimes, registers
<1>7. CASE SetSymbol
  <2>1. streams \in Seq(Seq(StreamItem)) /\ pass \in DOMAIN streams
    BY DEF InStreams
  <2>2. stream \in Seq(StreamItem)
    BY <2>1 DEF stream
  <2>3. stream[p + 1] \in StreamItem \/ p + 1 \notin DOMAIN stream
    BY <2>2
  <2>4. NamesAt(p + 1) \subseteq Names \cup {NoName}
    BY <2>3 DEF NamesAt, StreamItem
  <2>5. symbol_name' \in Names \cup {NoName}
    BY <1>7, <2>4 DEF SetSymbol
  <2> QED
    BY <1>1, <1>7, <2>5 DEF SetSymbol, InStreams
<1>8. CASE SetSegmentAndOffset \/ AddAddr
  BY <1>1, <1>3, <1>8 DEF SetSegmentAndOffset, AddAddr
<1>9. CASE DoBind \/ BindOneOfTimes
  BY <1>2, <1>3, <1>9 DEF DoBind, BindOneOfTimes
<1> QED
  BY <1>4, <1>5, <1>6, <1>7, <1>8, <1>9 DEF BindsStep

----------------------------------------------------------------------------
(* The table of segments grows by an address only when there is an image.   *)
LEMMA TableRecorded ==
  ASSUME Unmapped, RecordSegment, b_list' = b_list,
         img_addr' = img_addr \/ img_addr' \in HostBases
  PROVE  Unmapped'
<1> DEFINE e == [segname |-> command.segname, vmaddr |-> command.vmaddr,
                 vmsize |-> command.vmsize, mapped_addr |-> MappedAddr]
<1>1. segments' = Append(segments, e) \/ segments' = segments
  BY DEF RecordSegment
<1>2. img_addr' \in HostBases \cup {Null}
  BY DEF Unmapped
<1>3. img_addr' = Null => img_addr = Null /\ e.mapped_addr = Null
  BY HostAssumption DEF MappedAddr, Unmapped
<1> HIDE DEF e
<1>4. CASE segments' = segments
  BY <1>2, <1>3, <1>4 DEF Unmapped
<1>5. CASE segments' = Append(segments, e)
  <2>1. /\ IsSequence(segments')
        /\ DOMAIN segments' = DOMAIN segments \cup {Len(segments) + 1}
        /\ segments'[Len(segments) + 1] = e
        /\ \A n \in DOMAIN segments : segments'[n] = segments[n]
    BY <1>5, SequenceGrows DEF Unmapped
  <2> QED
    BY <1>2, <1>3, <2>1 DEF Unmapped
<1> QED
  BY <1>1, <1>4, <1>5

(* A step that loses no place of do_bind's. *)
PlacesKept ==
  \A n \in DOMAIN b_list : Fit(n) =>
    n \in DOMAIN b_list' /\ b_list'[n] = b_list[n] /\ Fit(n)'

LEMMA KeptOrNone ==
  ASSUME Unmapped, BindsKept,
         img_addr' = img_addr \/ (img_addr = Null /\ img_addr' \in HostBases)
  PROVE  PlacesKept
<1>1. ASSUME img_addr = Null, NEW n \in DOMAIN b_list PROVE ~Fit(n)
  BY <1>1 DEF Unmapped, Fit, Null
<1>2. ASSUME img_addr' = img_addr, NEW n \in DOMAIN b_list, Fit(n)
      PROVE  n \in DOMAIN b_list' /\ b_list'[n] = b_list[n] /\ Fit(n)'
  BY <1>2 DEF BindsKept, Fit
<1> QED
  BY <1>1, <1>2 DEF PlacesKept

(* A step that collects nothing and maps nothing. *)
LEMMA ContextKept ==
  ASSUME Collected, Unmapped, UNCHANGED <<context, host>>
  PROVE  Collected' /\ Unmapped' /\ BindsKept
BY DEF context, lists, Collected, Unmapped, BindsKept

LEMMA StreamsKept ==
  ASSUME InStreams, UNCHANGED binds_state
  PROVE  InStreams'
BY DEF InStreams, binds_state, registers

(* A library more. *)
LEMMA LibraryAdded ==
  ASSUME LoadingInv, LoadDylib, host' = host
  PROVE  Collected' /\ InStreams' /\ Unmapped' /\ BindsKept /\ img_addr' = img_addr
<1>1. IsCommand(command) /\ command.cmd = "LC_LOAD_DYLIB"
  BY AtTheCommand DEF LoadDylib, AtCommand, LoadingInv
<1>2. command.dylib \in Dylibs
  BY <1>1 DEF IsCommand, dylib_command
<1>3. d_list' \in Seq(Dylibs)
  BY <1>2 DEF LoadDylib, LoadingInv, Collected
<1> QED
  BY <1>3, StreamsKept DEF LoadDylib, LoadingInv, Collected, Unmapped, BindsKept

(* The streams of a command are streams. *)
LEMMA StreamsCalled ==
  ASSUME LoadingInv, CallBinds, host' = host
  PROVE  Collected' /\ InStreams' /\ Unmapped' /\ BindsKept /\ img_addr' = img_addr
<1>1. IsCommand(command) /\ command.cmd = "LC_DYLD_INFO"
  BY AtTheCommand DEF CallBinds, AtCommand, LoadingInv
<1>2. command.streams \in Seq(Seq(StreamItem)) /\ Len(command.streams) = 2
  BY <1>1 DEF IsCommand, dyld_info_command
<1>3. InStreams'
  BY <1>2 DEF CallBinds, LoadingInv, InStreams, registers
<1> QED
  BY <1>3, ContextKept DEF CallBinds, LoadingInv, context

----------------------------------------------------------------------------
(* loader_64: the image is mapped once, when no segment has an address yet. *)
LEMMA Loading64 ==
  ASSUME LoadingInv, Bits(file) = 64, LoaderStep, host' = host
  PROVE  LoadingInv' /\ PlacesKept /\ lpc' # "crashed"
<1> USE DEF LoadingInv
<1>1. Walk(64)'
  BY Loader64Walks DEF LoaderNext
<1>2. Bits(file)' = 64 /\ Walk(Bits(file))' /\ MappedByText'
  BY <1>1 DEF Walk, MappedByText
<1>3. Collected' /\ InStreams' /\ Unmapped' /\ PlacesKept /\ lpc' # "crashed"
  <2>1. ASSUME UNCHANGED <<context, binds_state>>
        PROVE  Collected' /\ InStreams' /\ Unmapped' /\ PlacesKept
    <3>1. Collected' /\ Unmapped' /\ BindsKept
      BY <2>1, ContextKept
    <3> QED
      BY <2>1, <3>1, StreamsKept, KeptOrNone DEF context
  <2>2. CASE ReadHeader \/ EndCommands \/ FindMain \/ PassCommand \/ CallFixups
             \/ ReturnFixups \/ ReturnBinds
    BY <2>1, <2>2 DEF ReadHeader, EndCommands, FindMain, PassCommand, CallFixups, AtCommand,
                      ReturnFixups, ReturnBinds
  <2>3. CASE LoadSegment
    <3>1. /\ RecordSegment /\ UNCHANGED <<lists, binds_state>> /\ lpc' = "command"
          /\ img_addr' = img_addr \/ (img_addr = Null /\ img_addr' \in HostBases)
      BY <2>3 DEF LoadSegment, EnsureImageMapping, AtCommand
    <3>2. Collected' /\ BindsKept
      BY <3>1 DEF Collected, BindsKept, lists
    <3>3. Unmapped'
      BY <3>1, TableRecorded DEF lists
    <3> QED
      BY <3>1, <3>2, <3>3, StreamsKept, KeptOrNone
  <2>4. CASE LoadDylib
    BY <2>4, LibraryAdded, KeptOrNone DEF LoadDylib, AtCommand
  <2>5. CASE CallBinds
    BY <2>5, StreamsCalled, KeptOrNone DEF CallBinds
  <2>6. CASE RunBinds
    BY <2>6, StreamsCollect, KeptOrNone DEF RunBinds, loader_state
  <2>7. CASE RunFixups
    <3>1. UNCHANGED <<img_addr, segments, lists, binds_state, loader_state>> /\ lpc = "fixups"
      BY <2>7 DEF RunFixups, FixupsStep, BeginFixups, SkipSegment, EnterSegment, EndSegments,
                  SkipPage, EnterPage, EndPages, ApplyRebase, ApplyBind, LeaveBind, Advance, context
    <3>2. Collected' /\ Unmapped' /\ BindsKept
      BY <3>1 DEF lists, Collected, Unmapped, BindsKept
    <3> QED
      BY <3>1, <3>2, StreamsKept, KeptOrNone DEF loader_state
  <2> QED
    BY <2>2, <2>3, <2>4, <2>5, <2>6, <2>7 DEF LoaderStep
<1> QED
  BY <1>2, <1>3

(* A 32-bit file's commands go by one at a time; a __TEXT that went by      *)
(* stays one that did.                                                      *)
LEMMA TextStays ==
  ASSUME LoadingInv, Walk(32), Walk(32)', img_addr' = img_addr, file' = file,
         \/ c_load_command' = c_load_command
         \/ c_load_command' = c_load_command + 1
         \/ lpc = "header"
  PROVE  MappedByText'
<1>1. c_load_command \in Nat /\ c_load_command' \in Nat
  BY DEF Walk
<1>2. c_load_command <= c_load_command'
  BY <1>1 DEF Walk
<1>3. 1 .. c_load_command \subseteq 1 .. c_load_command'
  BY <1>1, <1>2
<1> QED
  BY <1>3 DEF LoadingInv, MappedByText, IsText

(* loader: the image is mapped by __TEXT, of which there is one. *)
LEMMA TextIsFirst ==
  ASSUME LoadingInv, Bits(file) = 32, LoadText
  PROVE  img_addr = Null
<1> DEFINE n == c_load_command + 1
<1>1. /\ lpc = "command" /\ c_load_command < Len(file.cmds)
      /\ command.cmd = "LC_SEGMENT" /\ command.segname = "__TEXT"
  BY DEF LoadText, AtText, AtCommand
<1>2. n \in 1 .. Len(file.cmds) /\ Len(file.cmds) \in Nat /\ command = file.cmds[n]
  BY <1>1, AtTheCommand DEF LoadingInv
<1>3. OneText(file)
  BY FilesAssumption DEF IsFile, LoadingInv, Walk
<1>4. ASSUME NEW k \in 1 .. c_load_command, IsText(k) PROVE FALSE
  <2>1. k \in 1 .. Len(file.cmds) /\ k # n
    BY <1>2 DEF LoadingInv, Walk
  <2> QED
    BY <1>1, <1>2, <1>3, <1>4, <2>1 DEF OneText, IsText
<1> QED
  BY <1>4 DEF LoadingInv, MappedByText

LEMMA Loading32 ==
  ASSUME LoadingInv, Bits(file) = 32, Loader32Step, host' = host
  PROVE  /\ LoadingInv' /\ PlacesKept
         /\ lpc' = "crashed" => UNCHANGED context
<1> USE DEF LoadingInv
<1>1. Walk(32) /\ Walk(32)'
  BY Loader32Walks DEF Loader32Next
<1>2. Bits(file)' = 32 /\ Walk(Bits(file))'
  BY <1>1 DEF Walk
<1>3. CASE LoadText
  <2>1. img_addr = Null /\ img_addr' \in HostBases
    BY <1>3, TextIsFirst DEF LoadText
  <2>2. RecordSegment /\ UNCHANGED <<lists, binds_state, file>> /\ lpc' = "command"
        /\ c_load_command' = c_load_command + 1
    BY <1>3 DEF LoadText, AfterLoadSegment, AtText, AtCommand
  <2>3. Collected' /\ BindsKept
    BY <2>2 DEF Collected, BindsKept, lists
  <2>4. Unmapped'
    BY <2>1, <2>2, TableRecorded DEF lists
  <2>5. MappedByText'
    <3>1. /\ lpc = "command" /\ c_load_command < Len(file.cmds)
          /\ command.cmd = "LC_SEGMENT" /\ command.segname = "__TEXT"
      BY <1>3 DEF LoadText, AtText, AtCommand
    <3>2. command = file.cmds[c_load_command + 1] /\ c_load_command + 1 \in 1 .. Len(file.cmds)
      BY <3>1, AtTheCommand
    <3>3. PICK n \in 1 .. Len(file.cmds) : n = c_load_command + 1
      BY <3>2
    <3>4. IsText(n)'
      BY <2>2, <3>1, <3>2, <3>3 DEF IsText
    <3>5. n \in 1 .. c_load_command'
      BY <2>2, <3>3
    <3> QED
      BY <3>4, <3>5 DEF MappedByText
  <2> QED
    BY <1>2, <2>1, <2>2, <2>3, <2>4, <2>5, StreamsKept, KeptOrNone
<1>4. ASSUME Collected', InStreams', Unmapped', BindsKept, img_addr' = img_addr, file' = file,
             \/ c_load_command' = c_load_command
             \/ c_load_command' = c_load_command + 1
             \/ lpc = "header"
      PROVE  LoadingInv' /\ PlacesKept
  BY <1>1, <1>2, <1>4, TextStays, KeptOrNone
<1>5. CASE LoadOther
  <2>1. /\ RecordSegment /\ UNCHANGED <<img_addr, lists, binds_state, file>> /\ lpc' = "command"
        /\ c_load_command' = c_load_command + 1
    BY <1>5 DEF LoadOther, AfterLoadSegment, AtCommand
  <2>2. Collected' /\ BindsKept
    BY <2>1 DEF Collected, BindsKept, lists
  <2>3. Unmapped'
    BY <2>1, TableRecorded DEF lists
  <2> QED
    BY <1>4, <2>1, <2>2, <2>3, StreamsKept
<1>6. ASSUME UNCHANGED <<context, binds_state>>
      PROVE  Collected' /\ InStreams' /\ Unmapped' /\ BindsKept /\ img_addr' = img_addr
  BY <1>6, ContextKept, StreamsKept DEF context
<1>7. CASE ReadHeader \/ EndCommands32 \/ CrashInText \/ FindMain32 \/ PassCommand32 \/ ReturnBinds
  <2>1. UNCHANGED <<context, binds_state, file>>
    BY <1>7 DEF ReadHeader, EndCommands32, CrashInText, FindMain32, FindMain, PassCommand32,
                ReturnBinds
  <2>2. \/ c_load_command' = c_load_command
        \/ c_load_command' = c_load_command + 1
        \/ lpc = "header"
    BY <1>7 DEF ReadHeader, EndCommands32, CrashInText, FindMain32, FindMain, PassCommand32,
                ReturnBinds, NextCommand
  <2> QED
    BY <1>4, <1>6, <2>1, <2>2
<1>8. CASE LoadDylib32
  BY <1>4, <1>8, LibraryAdded DEF LoadDylib32, LoadDylib, AtCommand, NextCommand
<1>9. CASE CallBinds32
  BY <1>4, <1>9, StreamsCalled DEF CallBinds32, CallBinds
<1>10. CASE RunBinds
  BY <1>4, <1>10, StreamsCollect DEF RunBinds, loader_state
<1> QED
  BY <1>3, <1>5, <1>7, <1>8, <1>9, <1>10 DEF Loader32Step

----------------------------------------------------------------------------
(* do_bind.  The place of bind j holds what the host has for the name of a  *)
(* bind to that place.                                                      *)
HoldsSymbol(j) ==
  /\ b_list[j].address \in DOMAIN mem
  /\ \E q \in DOMAIN b_list :
       /\ Fit(q) /\ b_list[q].address = b_list[j].address
       /\ mem[b_list[j].address] \in HostSymbols[b_list[q].func_name]

DefaultsListed == {"libc.so.6", "libm.so.6"} \subseteq {d_list[i] : i \in DOMAIN d_list}

(* Every bind that one of the libraries so far has a symbol for is bound,   *)
(* and the libraries are gone through to the last.                          *)
BindingStage ==
  /\ Collected
  /\ dpc \in {"begin", "library", "bind", "return"}
  /\ lib_i \in Nat \ {0} /\ bind_j \in Nat \ {0}
  /\ dpc # "begin" => DefaultsListed
  /\ dpc = "bind" => lib_i \in DOMAIN d_list /\ Opens(lib_i)
  /\ dpc = "library" => lib_i <= Len(d_list) + 1
  /\ dpc = "return" => lib_i = Len(d_list) + 1
  /\ \A j \in DOMAIN b_list : Fit(j) /\ Having(j, Through(j)) # {} => HoldsSymbol(j)

(* What one of the libraries has for a bind is what the host has.           *)
LEMMA SymbolIsHosts ==
  ASSUME Collected, NEW i \in DOMAIN d_list, Opens(i), NEW j \in DOMAIN b_list,
         Symbol(i, j) # Null
  PROVE  Symbol(i, j) \in HostSymbols[b_list[j].func_name]
<1> DEFINE n == b_list[j].func_name
<1>1. n \in Names \cup {NoName} /\ n # NoName
  BY NoNameAssumption DEF Collected, Symbol
<1>2. d_list[i] \in Libraries
  BY DEF Opens, Libraries
<1>3. HostSymbols[n] =
        CASE n = NoName        -> {}
          [] n \in MmapNames  -> {HostMmap : l \in Libraries}
          [] n \in GuardNames -> {Guard : l \in Libraries}
          [] OTHER            -> {host[l][n] : l \in Libraries} \ {Null}
  BY <1>1 DEF HostSymbols
<1> QED
  BY <1>1, <1>2, <1>3 DEF Symbol, MmapNames, GuardNames

(* The names differ between do_bind's own and the libraries'. *)
LEMMA HostsIsSymbol ==
  ASSUME Collected, DefaultsListed, NEW j \in DOMAIN b_list,
         HostSymbols[b_list[j].func_name] # {}
  PROVE  \E i \in DOMAIN d_list : Opens(i) /\ Symbol(i, j) # Null
<1> DEFINE n == b_list[j].func_name
<1>1. n \in Names \cup {NoName}
  BY DEF Collected
<1>2. HostSymbols[n] =
        CASE n = NoName        -> {}
          [] n \in MmapNames  -> {HostMmap : l \in Libraries}
          [] n \in GuardNames -> {Guard : l \in Libraries}
          [] OTHER            -> {host[l][n] : l \in Libraries} \ {Null}
  BY <1>1 DEF HostSymbols
<1>3. \A l \in Libraries : l \in DOMAIN host /\ \E k \in DOMAIN d_list : l = d_list[k]
  BY DEF DefaultsListed, Libraries
<1>4. n # NoName
  BY <1>2, NoNameAssumption
<1>5. PICK l \in Libraries :
        n \notin MmapNames /\ n \notin GuardNames => host[l][n] # Null
  BY <1>2, <1>4 DEF MmapNames, GuardNames
<1>6. PICK i \in DOMAIN d_list : l = d_list[i]
  BY <1>3
<1>7. Opens(i) /\ Symbol(i, j) # Null
  BY <1>3, <1>4, <1>5, <1>6, HostsAssumption DEF Opens, Symbol
<1> QED
  BY <1>7

(* The two libraries of the host come last. *)
LEMMA DefaultsAppended ==
  ASSUME d_list \in Seq(Dylibs), d_list' = d_list \o DefaultLibraries
  PROVE  /\ d_list' \in Seq(Dylibs)
         /\ Len(d_list) \in Nat /\ DOMAIN d_list = 1 .. Len(d_list)
         /\ DOMAIN d_list' = 1 .. Len(d_list) + 2
         /\ \A i \in 1 .. Len(d_list) : d_list'[i] = d_list[i]
         /\ d_list'[Len(d_list) + 1] = "libc.so.6"
         /\ d_list'[Len(d_list) + 2] = "libm.so.6"
<1>1. DefaultLibraries \in Seq(Dylibs)
  BY DylibsAssumption
<1>2. d_list' \in Seq(Dylibs)
  BY <1>1
<1>3. Len(d_list) \in Nat /\ DOMAIN d_list = 1 .. Len(d_list)
  OBVIOUS
<1>4. DOMAIN d_list' = 1 .. Len(d_list) + 2
  BY DEF DefaultLibraries
<1>5. \A i \in 1 .. Len(d_list) : d_list'[i] = d_list[i]
  BY DEF DefaultLibraries
<1>6. d_list'[Len(d_list) + 1] = "libc.so.6" /\ d_list'[Len(d_list) + 2] = "libm.so.6"
  BY <1>3 DEF DefaultLibraries
<1> QED
  BY <1>2, <1>3, <1>4, <1>5, <1>6

(* When do_bind returns, everything that can be bound is.                   *)
LEMMA AllAreBound ==
  ASSUME BindingStage, dpc = "return"
  PROVE  Promise!AllBound
<1> SUFFICES ASSUME NEW j \in DOMAIN b_list, Fit(j), HostSymbols[b_list[j].func_name] # {}
             PROVE  HoldsSymbol(j)
  BY DEF Promise!AllBound, HoldsSymbol
<1>1. DefaultsListed /\ Collected /\ lib_i = Len(d_list) + 1
  BY DEF BindingStage
<1>2. PICK i \in DOMAIN d_list : Opens(i) /\ Symbol(i, j) # Null
  BY <1>1, HostsIsSymbol
<1>3. Through(j) = Len(d_list) /\ DOMAIN d_list = 1 .. Len(d_list)
  BY <1>1 DEF Through, Collected
<1>4. i \in Having(j, Through(j))
  BY <1>2, <1>3 DEF Having
<1> QED
  BY <1>4 DEF BindingStage

(* A step over one library or one bind that stores nothing. *)
LEMMA NothingStored ==
  ASSUME BindingStage, UNCHANGED <<context, host>>,
         NEW j \in DOMAIN b_list, Having(j, Through(j)') = Having(j, Through(j)) \/ ~Fit(j),
         Fit(j)', (Having(j, Through(j)) # {})'
  PROVE  HoldsSymbol(j)'
<1>1. Having(j, Through(j))' = Having(j, Through(j)') /\ Fit(j)' = Fit(j)
  BY DEF Having, Opens, Symbol, Fit, context, lists
<1>2. HoldsSymbol(j)
  BY <1>1 DEF BindingStage
<1>3. HostSymbols' = HostSymbols
  BY DEF HostSymbols, Libraries, context, lists
<1>4. UNCHANGED <<img_addr, mem, b_list>> /\ \A q : Fit(q)' = Fit(q)
  BY DEF context, lists, Fit
<1> QED
  BY <1>2, <1>3, <1>4 DEF HoldsSymbol

LEMMA BindingStaysInStage ==
  ASSUME BindingStage, BindingStep, dpc' # "crashed"
  PROVE  BindingStage'
<1> DEFINE Bound == \A j \in DOMAIN b_list : Fit(j) /\ Having(j, Through(j)) # {} => HoldsSymbol(j)
<1>0. /\ lib_i \in Nat \ {0} /\ bind_j \in Nat \ {0} /\ Len(d_list) \in Nat
      /\ DOMAIN d_list = 1 .. Len(d_list)
      /\ \E S : b_list \in Seq(S)
  BY DEF BindingStage, Collected, IsSequence
<1>1. CASE BeginBinding
  <2>1. d_list' \in Seq(Dylibs) /\ d_list' = d_list \o DefaultLibraries
    BY <1>1, DylibsAssumption DEF BeginBinding, BindingStage, Collected
  <2>2. DefaultsListed'
    <3>1. /\ Len(d_list) + 1 \in DOMAIN d_list' /\ d_list'[Len(d_list) + 1] = "libc.so.6"
          /\ Len(d_list) + 2 \in DOMAIN d_list' /\ d_list'[Len(d_list) + 2] = "libm.so.6"
      BY <2>1, DefaultsAppended DEF BindingStage, Collected
    <3> QED
      BY <3>1 DEF DefaultsListed
  <2>3. \A j : Having(j, Through(j))' = {}
    BY <1>1 DEF BeginBinding, Through, Having
  <2>4. Len(d_list') \in Nat
    BY <2>1
  <2> QED
    BY <1>1, <2>1, <2>2, <2>3, <2>4 DEF BeginBinding, BindingStage, Collected
<1>2. ASSUME UNCHANGED <<context, host>>,
             \A j \in DOMAIN b_list : Having(j, Through(j)') = Having(j, Through(j))
      PROVE  Bound'
  <2> SUFFICES ASSUME NEW j \in DOMAIN b_list', Fit(j)', (Having(j, Through(j)) # {})'
               PROVE  HoldsSymbol(j)'
    OBVIOUS
  <2>1. j \in DOMAIN b_list
    BY <1>2 DEF context, lists
  <2> QED
    BY <1>2, <2>1, NothingStored
<1>3. ASSUME UNCHANGED <<context, host>> PROVE Collected' /\ DefaultsListed' = DefaultsListed
  BY <1>3 DEF context, lists, BindingStage, Collected, DefaultsListed
<1> HIDE DEF Bound
<1>4. CASE SkipLibrary
  <2>1. \A j : Through(j) = lib_i - 1 /\ Through(j)' = lib_i
    BY <1>0, <1>4 DEF SkipLibrary, Through
  <2>2. \A j : Having(j, lib_i) = Having(j, lib_i - 1)
    BY <1>0, <1>4, HavingGrows DEF SkipLibrary
  <2>3. Bound'
    BY <1>2, <1>4, <2>1, <2>2 DEF SkipLibrary
  <2> QED
    BY <1>0, <1>3, <1>4, <2>3 DEF SkipLibrary, BindingStage, Bound, context, lists
<1>5. CASE OpenLibrary
  <2>1. \A j \in DOMAIN b_list : Through(j)' = Through(j)
    BY <1>0, <1>5 DEF OpenLibrary, Through
  <2>2. Bound'
    BY <1>2, <1>5, <2>1 DEF OpenLibrary
  <2> QED
    BY <1>0, <1>3, <1>5, <2>2 DEF OpenLibrary, BindingStage, Bound, Opens, context, lists
<1>6. CASE EndLibraries
  <2>1. \A j : Through(j)' = Through(j)
    BY <1>6 DEF EndLibraries, Through
  <2>2. Bound'
    BY <1>2, <1>6, <2>1 DEF EndLibraries
  <2> QED
    BY <1>0, <1>3, <1>6, <2>2 DEF EndLibraries, BindingStage, Bound, context, lists
<1>7. CASE EndBinds
  <2>1. \A j \in DOMAIN b_list : Through(j) = lib_i /\ Through(j)' = lib_i
    BY <1>0, <1>7 DEF EndBinds, Through
  <2>2. Bound'
    BY <1>2, <1>7, <2>1 DEF EndBinds
  <2> QED
    BY <1>0, <1>3, <1>7, <2>2 DEF EndBinds, BindingStage, Bound, context, lists
<1>8. CASE PassUnfit \/ MissSymbol \/ StoreSymbol
  <2>1. /\ dpc = "bind" /\ bind_j \in DOMAIN b_list /\ NextBind
        /\ UNCHANGED <<img_addr, b_list, d_list, host, lib_i, dpc>>
        /\ bind_j' = bind_j + 1
    BY <1>0, <1>8 DEF PassUnfit, MissSymbol, StoreSymbol, AtBind, NextBind, lists
  <2>2. Collected' /\ DefaultsListed' /\ (lib_i \in DOMAIN d_list /\ Opens(lib_i))'
    BY <2>1 DEF BindingStage, Collected, DefaultsListed, Opens
  <2>3. \A j \in DOMAIN b_list : Through(j)' = IF j = bind_j THEN lib_i ELSE Through(j)
    <3>1. DOMAIN b_list \subseteq Nat
      BY <1>0
    <3> QED
      BY <1>0, <2>1, <3>1 DEF Through
  <2>4. HostSymbols' = HostSymbols /\ \A q : Fit(q)' = Fit(q)
    BY <2>1 DEF HostSymbols, Libraries, Fit
  <2>5. \A j, n : Having(j, n)' = Having(j, n)
    BY <2>1 DEF Having, Opens, Symbol
  <2>6. ASSUME NEW j \in DOMAIN b_list, Fit(j), Having(j, Through(j)') # {}
        PROVE  HoldsSymbol(j)'
    <3>1. CASE Symbol(lib_i, bind_j) # Null /\ StoreSymbol
                 /\ b_list[j].address = b_list[bind_j].address
      <4>1. mem'[b_list[j].address] = Symbol(lib_i, bind_j) /\ b_list[j].address \in DOMAIN mem'
        BY <3>1 DEF StoreSymbol, Store
      <4>2. Symbol(lib_i, bind_j) \in HostSymbols[b_list[bind_j].func_name]
        BY <2>1, <3>1, SymbolIsHosts DEF BindingStage
      <4>3. Fit(bind_j)
        BY <3>1 DEF StoreSymbol
      <4> QED
        BY <2>1, <2>4, <3>1, <4>1, <4>2, <4>3 DEF HoldsSymbol
    <3>2. CASE j # bind_j \/ ~StoreSymbol
      <4>1. Having(j, Through(j)) # {}
        <5>1. CASE j # bind_j
          BY <2>3, <2>6, <5>1
        <5>2. CASE j = bind_j /\ MissSymbol
          <6>1. Having(j, lib_i) = Having(j, lib_i - 1)
            BY <1>0, <5>2, HavingGrows DEF MissSymbol
          <6>2. Through(j) = lib_i - 1 /\ Through(j)' = lib_i
            BY <1>0, <2>1, <2>3, <5>2 DEF Through
          <6> QED
            BY <2>6, <6>1, <6>2
        <5> QED
          BY <1>8, <2>6, <3>2, <5>1, <5>2 DEF PassUnfit
      <4>2. HoldsSymbol(j)
        BY <2>6, <4>1 DEF BindingStage
      <4>3. CASE mem' = mem
        BY <2>1, <2>4, <4>2, <4>3 DEF HoldsSymbol
      <4>4. CASE StoreSymbol /\ b_list[j].address # b_list[bind_j].address
        <5>1. b_list[j].address \in DOMAIN mem'
              /\ mem'[b_list[j].address] = mem[b_list[j].address]
          BY <4>2, <4>4 DEF HoldsSymbol, StoreSymbol, Store
        <5> QED
          BY <2>1, <2>4, <4>2, <5>1 DEF HoldsSymbol
      <4>5. CASE StoreSymbol /\ b_list[j].address = b_list[bind_j].address
        BY <3>1, <4>5 DEF StoreSymbol
      <4> QED
        BY <1>8, <4>3, <4>4, <4>5 DEF PassUnfit, MissSymbol
    <3> QED
      BY <1>8, <2>6, <3>1, <3>2 DEF StoreSymbol
  <2>7. Bound'
    BY <2>1, <2>4, <2>5, <2>6 DEF Bound
  <2> QED
    BY <1>0, <2>1, <2>2, <2>7 DEF BindingStage, Bound
<1> QED
  BY <1>1, <1>4, <1>5, <1>6, <1>7, <1>8 DEF BindingStep, CrashUnnamed

----------------------------------------------------------------------------
(* The inductive invariant of main, stage by stage.                         *)
MainInv ==
  /\ mpc \in {"open", "load", "bind", "entered", "exited", "crashed"}
  /\ mpc \in {"open", "load"} => LoadingInv /\ lib_i = 1 /\ bind_j = 1
  /\ mpc = "bind" => BindingStage

LEMMA MainBegins ==
  ASSUME MainInit
  PROVE  MainInv /\ Promise!HandoffInit
<1> USE DEF MainInit, LoaderInit
<1>1. Walk(Bits(file))
  BY WalkBegins
<1>2. IsSequence(b_list) /\ IsSequence(segments) /\ d_list \in Seq(Dylibs)
  BY DEF IsSequence
<1>3. DOMAIN b_list = {} /\ DOMAIN segments = {}
  OBVIOUS
<1>4. InStreams
  <2>1. streams = << << >>, << >> >>
    OBVIOUS
  <2>2. << >> \in Seq(StreamItem)
    OBVIOUS
  <2>3. streams \in Seq(Seq(StreamItem)) /\ Len(streams) = 2
    BY <2>1, <2>2
  <2> QED
    BY <2>3 DEF InStreams
<1>5. LoadingInv
  BY <1>1, <1>2, <1>3, <1>4 DEF LoadingInv, Collected, Unmapped, MappedByText
<1>6. Promise!HandoffInit
  BY <1>3 DEF Promise!HandoffInit, Stage
<1> QED
  BY <1>5, <1>6 DEF MainInv

(* Places that are kept are places still. *)
LEMMA PlacesGrow ==
  ASSUME PlacesKept
  PROVE  {b_list[j] : j \in {k \in DOMAIN b_list : Fit(k)}}
           \subseteq {b_list[j] : j \in {k \in DOMAIN b_list : Fit(k)}}'
BY DEF PlacesKept

(* What the Handoff sees stays. *)
LEMMA SeesNothing ==
  ASSUME UNCHANGED <<context, host>>
  PROVE  UNCHANGED <<mem, {b_list[j] : j \in {k \in DOMAIN b_list : Fit(k)}}, HostSymbols>>
BY DEF context, lists, Fit, HostSymbols, Libraries

(* A step of the loader is one that loads, or the process is gone. *)
LEMMA LoaderPromise ==
  ASSUME MainInv, RunLoader
  PROVE  MainInv' /\ (Promise!Load \/ Promise!GiveUp)
<1>1. mpc = "load" /\ LoadingInv /\ lib_i = 1 /\ bind_j = 1
      /\ UNCHANGED <<host, dpc, lib_i, bind_j>>
  BY DEF RunLoader, MainInv, binding_state
<1>2. LoadingInv' /\ PlacesKept /\ (lpc' = "crashed" => UNCHANGED context)
  <2>1. Bits(file) \in {32, 64}
    BY DEF Bits
  <2>2. CASE Bits(file) = 64
    BY <1>1, <2>2, Loading64 DEF RunLoader
  <2>3. CASE Bits(file) = 32
    BY <1>1, <2>3, Loading32 DEF RunLoader
  <2> QED
    BY <2>1, <2>2, <2>3
<1>3. CASE lpc' = "crashed"
  <2>1. mpc' = "crashed"
    BY <1>3 DEF RunLoader
  <2> QED
    BY <1>1, <1>2, <1>3, <2>1, SeesNothing DEF Promise!GiveUp, Stage, MainInv
<1>4. CASE lpc' # "crashed"
  <2>1. mpc' = "load"
    BY <1>1, <1>4 DEF RunLoader
  <2> QED
    BY <1>1, <1>2, <2>1, PlacesGrow DEF Promise!Load, Stage, MainInv
<1> QED
  BY <1>3, <1>4

(* A step of do_bind stores a symbol of the host's at a place of its name,  *)
(* or nothing.                                                              *)
LEMMA BindingPromise ==
  ASSUME MainInv, RunBinding
  PROVE  MainInv' /\ (Promise!BindPlace \/ Promise!GiveUp \/ UNCHANGED Promise!handoff_vars)
<1>1. mpc = "bind" /\ BindingStage /\ BindingStep
  BY DEF RunBinding, MainInv
<1>2. MainInv'
  BY <1>1, BindingStaysInStage DEF RunBinding, MainInv
<1>3. CASE CrashUnnamed
  <2>1. UNCHANGED <<context, host>> /\ mpc' = "crashed"
    BY <1>3 DEF CrashUnnamed, RunBinding
  <2> QED
    BY <1>1, <1>2, <2>1, SeesNothing DEF Promise!GiveUp, Stage
<1>4. dpc' = "crashed" => CrashUnnamed
  BY <1>1 DEF BindingStep, BeginBinding, SkipLibrary, OpenLibrary, EndLibraries, PassUnfit,
              StoreSymbol, MissSymbol, EndBinds, AtBind, NextBind
<1>5. CASE ~CrashUnnamed
  <2>1. mpc' = mpc
    BY <1>4, <1>5 DEF RunBinding
  <2>2. CASE BeginBinding
    <3>1. HostSymbols' = HostSymbols
      <4>1. d_list \in Seq(Dylibs) /\ d_list' = d_list \o DefaultLibraries
        BY <1>1, <2>2 DEF BeginBinding, BindingStage, Collected
      <4>2. {d_list'[i] : i \in DOMAIN d_list'}
              = {d_list[i] : i \in DOMAIN d_list} \cup {"libc.so.6", "libm.so.6"}
        <5>2. /\ Len(d_list) \in Nat /\ DOMAIN d_list = 1 .. Len(d_list)
              /\ DOMAIN d_list' = 1 .. Len(d_list) + 2
              /\ \A i \in 1 .. Len(d_list) : d_list'[i] = d_list[i]
              /\ d_list'[Len(d_list) + 1] = "libc.so.6"
              /\ d_list'[Len(d_list) + 2] = "libm.so.6"
          BY <4>1, DefaultsAppended
        <5>3. 1 .. Len(d_list) + 2 = (1 .. Len(d_list)) \cup {Len(d_list) + 1, Len(d_list) + 2}
          BY <5>2
        <5> QED
          BY <5>2, <5>3
      <4>3. host' = host
        BY <2>2 DEF BeginBinding
      <4>4. Libraries' = Libraries
        BY <4>2, <4>3 DEF Libraries
      <4> QED
        BY <4>3, <4>4 DEF HostSymbols
    <3> QED
      BY <1>2, <2>1, <2>2, <3>1 DEF BeginBinding, Promise!handoff_vars, Fit, Stage
  <2>3. CASE SkipLibrary \/ OpenLibrary \/ EndLibraries \/ EndBinds
    <3>1. UNCHANGED <<context, host>>
      BY <2>3 DEF SkipLibrary, OpenLibrary, EndLibraries, EndBinds
    <3> QED
      BY <1>2, <2>1, <3>1, SeesNothing DEF Promise!handoff_vars, Stage
  <2>4. CASE PassUnfit \/ MissSymbol
    <3>1. UNCHANGED <<context, host>>
      BY <2>4 DEF PassUnfit, MissSymbol, NextBind, context
    <3> QED
      BY <1>2, <2>1, <3>1, SeesNothing DEF Promise!handoff_vars, Stage
  <2>5. CASE StoreSymbol
    <3>1. /\ bind_j \in DOMAIN b_list /\ Fit(bind_j) /\ dpc = "bind"
          /\ Symbol(lib_i, bind_j) # Null
          /\ Store(b_list[bind_j].address, Symbol(lib_i, bind_j))
          /\ UNCHANGED <<img_addr, b_list, d_list, host>>
      BY <1>1, <2>5 DEF StoreSymbol, AtBind, NextBind, lists, BindingStage, Collected, IsSequence
    <3>2. Symbol(lib_i, bind_j) \in HostSymbols[b_list[bind_j].func_name]
      BY <1>1, <3>1, SymbolIsHosts DEF BindingStage
    <3>3. HostSymbols' = HostSymbols
          /\ {b_list[j] : j \in {k \in DOMAIN b_list : Fit(k)}}'
               = {b_list[j] : j \in {k \in DOMAIN b_list : Fit(k)}}
      BY <3>1 DEF HostSymbols, Libraries, Fit
    <3>4. mpc = "bind"
      BY <1>1
    <3> QED
      BY <1>2, <2>1, <3>1, <3>2, <3>3, <3>4 DEF Promise!BindPlace, Store, Stage
  <2> QED
    BY <1>1, <1>5, <2>2, <2>3, <2>4, <2>5 DEF BindingStep
<1> QED
  BY <1>2, <1>3, <1>5

LEMMA MainPromise ==
  ASSUME MainInv, [MainNext]_main_vars
  PROVE  MainInv' /\ [Promise!HandoffNext]_(Promise!handoff_vars)
<1> USE DEF Promise!HandoffNext
<1>1. CASE OpenExec
  <2>1. UNCHANGED <<context, binds_state, loader_state, host, lib_i, bind_j>> /\ mpc = "open"
    BY <1>1 DEF OpenExec, binding_state
  <2>2. UNCHANGED <<mem, {b_list[j] : j \in {k \in DOMAIN b_list : Fit(k)}}, HostSymbols>>
    BY <2>1, SeesNothing
  <2>3. LoadingInv'
    <3>1. LoadingInv
      BY <2>1 DEF MainInv
    <3>2. Walk(Bits(file))' /\ MappedByText'
      BY <2>1, <3>1 DEF LoadingInv, Walk, PtrAtCommand, Bits, MappedByText, IsText,
                        loader_state, context
    <3> QED
      BY <2>1, <3>1, <3>2, ContextKept, StreamsKept DEF LoadingInv
  <2>4. CASE mpc' = "load"
    BY <2>1, <2>2, <2>3, <2>4 DEF MainInv, Stage, Promise!handoff_vars
  <2>5. CASE mpc' = "exited"
    BY <2>1, <2>2, <2>5 DEF MainInv, Stage, Promise!GiveUp
  <2> QED
    BY <1>1, <2>4, <2>5 DEF OpenExec
<1>2. CASE RunLoader
  BY <1>2, LoaderPromise
<1>3. CASE CheckLoaded
  <2>1. /\ UNCHANGED <<context, host, lib_i, bind_j>>
        /\ mpc = "load" /\ mpc' = "bind" /\ dpc' = "begin"
    BY <1>3 DEF CheckLoaded
  <2>2. UNCHANGED <<mem, {b_list[j] : j \in {k \in DOMAIN b_list : Fit(k)}}, HostSymbols>>
    BY <2>1, SeesNothing
  <2>3. BindingStage'
    <3>1. LoadingInv /\ lib_i = 1 /\ bind_j = 1
      BY <2>1 DEF MainInv
    <3>2. Collected'
      BY <2>1, <3>1, ContextKept DEF LoadingInv
    <3>3. \A j : Having(j, Through(j))' = {}
      BY <2>1 DEF Having, Through
    <3> QED
      BY <2>1, <3>1, <3>2, <3>3 DEF BindingStage
  <2> QED
    BY <2>1, <2>2, <2>3 DEF MainInv, Stage, Promise!StartBinding
<1>4. CASE RunBinding
  BY <1>4, BindingPromise
<1>5. CASE Enter
  <2>1. UNCHANGED <<context, host>> /\ mpc = "bind" /\ mpc' = "entered" /\ dpc = "return"
    BY <1>5 DEF Enter, binding_state
  <2>2. Promise!AllBound
    BY <2>1, AllAreBound DEF MainInv
  <2> QED
    BY <2>1, <2>2, SeesNothing DEF MainInv, Stage, Promise!EnterProgram
<1>6. CASE LeftMain \/ UNCHANGED main_vars
  <2>1. UNCHANGED <<context, host, mpc, lib_i, bind_j, dpc, binds_state, loader_state>>
    BY <1>6 DEF LeftMain, main_vars, binding_state
  <2>2. UNCHANGED Promise!handoff_vars
    BY <2>1, SeesNothing DEF Stage, Promise!handoff_vars
  <2>3. mpc \in {"open", "load"} => LoadingInv'
    <3>1. SUFFICES ASSUME LoadingInv PROVE LoadingInv'
      BY DEF MainInv
    <3>2. Walk(Bits(file))' /\ MappedByText'
      BY <2>1, <3>1 DEF LoadingInv, Walk, PtrAtCommand, Bits, MappedByText, IsText,
                        loader_state, context
    <3> QED
      BY <2>1, <3>1, <3>2, ContextKept, StreamsKept DEF LoadingInv
  <2>4. ASSUME BindingStage PROVE BindingStage'
    <3>1. \A j : Through(j)' = Through(j)
      BY <2>1 DEF Through
    <3>2. \A j \in DOMAIN b_list' : Fit(j)' /\ (Having(j, Through(j)) # {})' => HoldsSymbol(j)'
      BY <2>1, <2>4, <3>1, NothingStored DEF context, lists
    <3>3. Collected' /\ DefaultsListed' = DefaultsListed /\ Opens(lib_i)' = Opens(lib_i)
      BY <2>1, <2>4 DEF BindingStage, Collected, DefaultsListed, Opens, context, lists
    <3>4. UNCHANGED <<d_list, dpc, lib_i, bind_j>>
      BY <2>1 DEF context, lists
    <3> QED
      BY <2>4, <3>2, <3>3, <3>4 DEF BindingStage
  <2> QED
    BY <2>1, <2>2, <2>3, <2>4 DEF MainInv
<1> QED
  BY <1>1, <1>2, <1>3, <1>4, <1>5, <1>6 DEF MainNext, MainStep

(* main implements the Handoff: while the loader runs a place collected for *)
(* do_bind is never lost; between the loader and the entry memory changes   *)
(* only at such places, each time to a symbol the host has under the name;  *)
(* and the program is entered when every place that can be bound is.        *)
THEOREM ImplementsHandoffHolds == MainSpec => ImplementsHandoff
<1>1. MainInit => MainInv /\ Promise!HandoffInit
  BY MainBegins
<1>2. MainInv /\ [MainNext]_main_vars => MainInv' /\ [Promise!HandoffNext]_(Promise!handoff_vars)
  BY MainPromise
<1> QED
  BY <1>1, <1>2, PTL DEF MainSpec, ImplementsHandoff, Promise!HandoffSpec

----------------------------------------------------------------------------
(* The types: the loader's while it runs, then do_bind's, which touches     *)
(* nothing of the loader's but the memory and the list of libraries.        *)
MainTyped ==
  /\ MainTypeOK /\ LibraryOpen
  /\ mpc \in {"open", "load"} =>
       Typed(Bits(file)) /\ lib_i = 1 /\ bind_j = 1 /\ dpc = "return"

LEMMA MainTypedBegins ==
  ASSUME MainInit
  PROVE  MainTyped
<1>1. Typed(Bits(file))
  BY TypedBegins DEF MainInit
<1>2. LoaderTypeOK /\ ContextTypeOK /\ b_list \in Seq(BindInfo) /\ d_list \in Seq(Dylibs)
  BY <1>1 DEF Typed, LoaderTypeOK, FixupsTypeOK, BindsTypeOK
<1>3. Len(b_list) \in Nat /\ Len(d_list) \in Nat
  BY <1>2
<1>4. BindingTypeOK
  BY <1>2, <1>3 DEF MainInit, BindingTypeOK
<1> QED
  BY <1>1, <1>2, <1>4 DEF MainInit, MainTyped, MainTypeOK, LibraryOpen

(* Types are of states: what is not written stays well typed. *)
LEMMA LoaderTypesStay ==
  ASSUME LoaderTypeOK, ContextTypeOK', d_list' \in Seq(Dylibs), b_list' = b_list,
         UNCHANGED <<fixups_state, binds_state, loader_state>>
  PROVE  LoaderTypeOK'
<1>1. FixupsTypeOK'
  BY DEF LoaderTypeOK, FixupsTypeOK, fixups_state, cursor, counters
<1>2. BindsTypeOK'
  BY DEF LoaderTypeOK, BindsTypeOK, binds_state, registers, times, stream
<1> QED
  BY <1>1, <1>2 DEF LoaderTypeOK, loader_state

LEMMA NothingWritten ==
  ASSUME MainTyped, UNCHANGED <<context, fixups_state, binds_state, loader_state>>
  PROVE  /\ LoaderTypeOK' /\ ContextTypeOK' /\ b_list' = b_list /\ d_list' = d_list
         /\ Typed(Bits(file)) => Typed(Bits(file))'
<1>1. ContextTypeOK' /\ b_list' = b_list /\ d_list' = d_list
  BY DEF MainTyped, MainTypeOK, BindingTypeOK, ContextTypeOK, context, lists
<1>2. d_list' \in Seq(Dylibs)
  BY <1>1 DEF MainTyped, MainTypeOK, LoaderTypeOK
<1>3. LoaderTypeOK'
  BY <1>1, <1>2, LoaderTypesStay DEF MainTyped, MainTypeOK
<1>4. ASSUME Typed(Bits(file)) PROVE Typed(Bits(file))'
  <2>1. SegmentInRange'
    BY <1>4 DEF Typed, SegmentInRange, fixups_state, cursor
  <2>2. Walk(Bits(file))'
    BY <1>4 DEF Typed, Walk, PtrAtCommand, Bits, loader_state
  <2> QED
    BY <1>3, <2>1, <2>2 DEF Typed
<1> QED
  BY <1>1, <1>3, <1>4

LEMMA LoaderStepsTyped ==
  ASSUME MainTyped, RunLoader
  PROVE  MainTyped'
<1>1. /\ mpc = "load" /\ Typed(Bits(file)) /\ lib_i = 1 /\ bind_j = 1 /\ dpc = "return"
      /\ UNCHANGED <<host, dpc, lib_i, bind_j, warnings>> /\ host \in Hosts
  BY DEF RunLoader, MainTyped, MainTypeOK, BindingTypeOK, binding_state
<1>2. Typed(Bits(file))'
  <2>1. Bits(file) \in {32, 64}
    BY DEF Bits
  <2>2. CASE Bits(file) = 64
    <3>1. Typed(64)'
      BY <1>1, <2>2, Loader64Typed DEF RunLoader, LoaderNext
    <3> QED
      BY <3>1 DEF Typed, Walk
  <2>3. CASE Bits(file) = 32
    <3>1. Typed(32)'
      BY <1>1, <2>3, Loader32Typed DEF RunLoader, Loader32Next
    <3> QED
      BY <3>1 DEF Typed, Walk
  <2> QED
    BY <2>1, <2>2, <2>3
<1>3. LoaderTypeOK' /\ ContextTypeOK' /\ b_list' \in Seq(BindInfo) /\ d_list' \in Seq(Dylibs)
  BY <1>2 DEF Typed, LoaderTypeOK, FixupsTypeOK, BindsTypeOK
<1>4. Len(b_list') \in Nat /\ Len(d_list') \in Nat
  BY <1>3
<1>5. BindingTypeOK'
  BY <1>1, <1>3, <1>4 DEF BindingTypeOK
<1>6. mpc' \in {"load", "crashed"}
  BY <1>1 DEF RunLoader
<1> QED
  BY <1>1, <1>2, <1>3, <1>5, <1>6 DEF MainTyped, MainTypeOK, LibraryOpen

LEMMA BindingStepsTyped ==
  ASSUME MainTyped, RunBinding
  PROVE  MainTyped'
<1>1. /\ mpc = "bind" /\ BindingStep
      /\ UNCHANGED <<fixups_state, binds_state, loader_state, warnings>>
  BY DEF RunBinding
<1>2. BindingTypeOK' /\ LibraryOpen'
  BY <1>1, StepTyped DEF MainTyped, MainTypeOK, BindingTyped, BindingNext
<1>3. b_list' = b_list
  BY <1>1 DEF BindingStep, BeginBinding, SkipLibrary, OpenLibrary, EndLibraries, PassUnfit,
              CrashUnnamed, StoreSymbol, MissSymbol, EndBinds, NextBind, context, lists
<1>4. LoaderTypeOK'
  BY <1>1, <1>2, <1>3, LoaderTypesStay DEF MainTyped, MainTypeOK, BindingTypeOK
<1>5. mpc' \in {"bind", "crashed"}
  BY <1>1 DEF RunBinding
<1> QED
  BY <1>1, <1>2, <1>4, <1>5 DEF MainTyped, MainTypeOK

LEMMA MainStepsTyped == MainTyped /\ [MainNext]_main_vars => MainTyped'
<1> SUFFICES ASSUME MainTyped, [MainNext]_main_vars PROVE MainTyped'
  OBVIOUS
<1>1. ASSUME UNCHANGED <<context, fixups_state, binds_state, loader_state, binding_state>>
      PROVE  /\ LoaderTypeOK' /\ BindingTypeOK' /\ LibraryOpen'
             /\ Typed(Bits(file)) => Typed(Bits(file))'
             /\ UNCHANGED <<lib_i, bind_j, dpc>>
  <2>1. UNCHANGED <<host, dpc, lib_i, bind_j>>
    BY <1>1 DEF binding_state
  <2> QED
    BY <1>1, <2>1, NothingWritten DEF MainTyped, MainTypeOK, BindingTypeOK, LibraryOpen, Opens
<1>2. CASE OpenExec
  <2>1. mpc = "open" /\ mpc' \in {"load", "exited"} /\ warnings' = warnings
    BY <1>2 DEF OpenExec
  <2> QED
    BY <1>1, <1>2, <2>1 DEF OpenExec, MainTyped, MainTypeOK
<1>3. CASE RunLoader
  BY <1>3, LoaderStepsTyped
<1>4. CASE CheckLoaded
  <2>1. /\ UNCHANGED <<context, fixups_state, binds_state, loader_state, host, lib_i, bind_j>>
        /\ mpc' = "bind" /\ dpc' = "begin" /\ warnings' = Warnings
    BY <1>4 DEF CheckLoaded
  <2>2. LoaderTypeOK' /\ ContextTypeOK' /\ b_list' = b_list /\ d_list' = d_list
    BY <2>1, NothingWritten
  <2>3. BindingTypeOK' /\ LibraryOpen'
    BY <2>1, <2>2 DEF MainTyped, MainTypeOK, BindingTypeOK, LibraryOpen
  <2>4. Warnings \subseteq {"loader failed", "image mapping was not established",
                           "no entry point found", "unresolved chained binds"}
    BY DEF Warnings
  <2> QED
    BY <2>1, <2>2, <2>3, <2>4 DEF MainTyped, MainTypeOK
<1>5. CASE RunBinding
  BY <1>5, BindingStepsTyped
<1>6. CASE Enter
  BY <1>1, <1>6 DEF Enter, MainTyped, MainTypeOK
<1>7. CASE LeftMain \/ UNCHANGED main_vars
  <2>1. UNCHANGED <<context, fixups_state, binds_state, loader_state, binding_state, mpc, warnings>>
    BY <1>7 DEF LeftMain, main_vars
  <2> QED
    BY <1>1, <2>1 DEF MainTyped, MainTypeOK
<1> QED
  BY <1>2, <1>3, <1>4, <1>5, <1>6, <1>7 DEF MainNext, MainStep

(* Whatever the file, mmap and the host: the context of every state of main *)
(* is well formed, do_bind's loops stay in its two lists, and main warns of *)
(* nothing but its four checks.                                             *)
THEOREM MainTypeCorrect == MainSpec => []MainTypeOK
<1>1. MainTyped => MainTypeOK
  BY DEF MainTyped
<1>2. MainInit => MainTyped
  BY MainTypedBegins
<1> QED
  BY <1>1, <1>2, MainStepsTyped, PTL DEF MainSpec

----------------------------------------------------------------------------
(* What a program of 64 bits is entered with.  Linkers put the segments     *)
(* first: then the symbol table is read when the mapping is as it stays.    *)
EntryFound ==
  SegmentsFirst =>
    /\ \A j \in SymbolTables(file) : Passed(j) =>
         \A n \in DOMAIN file.cmds[j].syms :
           LastMain(file.cmds[j], n) => entry_point = Slid(file.cmds[j].syms[n].n_value)
    /\ entry_point # Null =>
         \E j \in SymbolTables(file) : Passed(j) /\
           \E n \in DOMAIN file.cmds[j].syms : LastMain(file.cmds[j], n)

LEMMA FoundStays ==
  ASSUME EntryFound, UNCHANGED <<file, entry_point>>,
         \A j \in SymbolTables(file) : Passed(j)' <=> Passed(j),
         SegmentsFirst /\ (\E j \in SymbolTables(file) : Passed(j)) =>
           UNCHANGED <<img_addr, v_addr>>
  PROVE  EntryFound'
<1> SUFFICES ASSUME SegmentsFirst' PROVE EntryFound'
  BY DEF EntryFound
<1>1. SegmentsFirst
  BY DEF SegmentsFirst, SegmentCommands
<1>2. CASE \E j \in SymbolTables(file) : Passed(j)
  <2>1. \A a : Slid(a)' = Slid(a)
    BY <1>1, <1>2 DEF Slid
  <2> QED
    BY <1>1, <2>1 DEF EntryFound
<1>3. CASE ~\E j \in SymbolTables(file) : Passed(j)
  <2>1. entry_point = Null
    BY <1>1, <1>3 DEF EntryFound
  <2> QED
    BY <1>3, <2>1 DEF EntryFound
<1> QED
  BY <1>2, <1>3

LEMMA FoundStep == LoadInv /\ EntryInv /\ EntryFound /\ [LoaderNext]_loader_vars => EntryFound'
<1> SUFFICES ASSUME LoadInv, EntryInv, EntryFound, [LoaderNext]_loader_vars PROVE EntryFound'
  OBVIOUS
<1>1. /\ c_load_command \in Nat /\ SymbolTables(file) \subseteq Nat /\ file' = file
      /\ SymbolTables(file) \subseteq DOMAIN file.cmds
  BY FileStays, FilesAssumption DEF SymbolTables, IsFile, LoadInv, Walk
<1>2. CASE FindMain
  <2>1. PICK j : j = c_load_command + 1
    OBVIOUS
  <2>2. \A l \in SymbolTables(file) : l = j /\ ~Passed(l) /\ Passed(l)'
    BY <1>1, <1>2, <2>1, FindMainFinds DEF Passed
  <2>3. \A a : Slid(a)' = Slid(a)
    BY <1>2, <2>1, FindMainFinds DEF Slid
  <2>4. ASSUME SegmentsFirst' PROVE entry_point = Null
    <3>1. SegmentsFirst
      BY <1>1, <2>4 DEF SegmentsFirst, SegmentCommands
    <3> QED
      BY <2>2, <3>1 DEF EntryFound
  <2>5. \A n \in DOMAIN file.cmds[j].syms :
          LastMain(file.cmds[j], n) => entry_point' = Slid(file.cmds[j].syms[n].n_value)
    BY <1>2, <2>1, FindMainFinds
  <2>6. /\ j \in SymbolTables(file)
        /\ entry_point' = entry_point \/ \E n \in DOMAIN file.cmds[j].syms : LastMain(file.cmds[j], n)
    BY <1>2, <2>1, FindMainFinds
  <2> QED
    BY <1>1, <2>2, <2>3, <2>4, <2>5, <2>6 DEF EntryFound
<1>3. CASE LoaderStep /\ ~FindMain
  <2>1. UNCHANGED <<file, entry_point>> /\ \A j \in SymbolTables(file) : Passed(j)' => Passed(j)
    BY <1>3, OthersPassNoTable
  <2>2. c_load_command' = c_load_command \/ c_load_command' = c_load_command + 1
    BY <1>3 DEF LoaderStep, ReadHeader, EndCommands, LoadSegment, LoadDylib, PassCommand,
                CallFixups, RunFixups, ReturnFixups, CallBinds, RunBinds, ReturnBinds,
                NextCommand, loader_state
  <2>3. \A j \in SymbolTables(file) : Passed(j)' <=> Passed(j)
    BY <1>1, <2>1, <2>2 DEF Passed
  <2>4. ASSUME SegmentsFirst, NEW j \in SymbolTables(file), Passed(j), LoadSegment PROVE FALSE
    <3>1. c_load_command + 1 \in SegmentCommands
      BY <2>4, SegmentAtHand DEF SegmentCommands
    <3>2. j < c_load_command + 1 /\ j \in DOMAIN file.cmds
      BY <1>1, <2>4 DEF Passed
    <3>3. j \in SegmentCommands
      BY <2>4, <3>1, <3>2 DEF SegmentsFirst
    <3> QED
      BY <3>3 DEF SegmentCommands, SegmentsOf, SymbolTables
  <2>5. LoadSegment \/ UNCHANGED <<img_addr, v_addr>>
    <3>1. CASE AsideStep
      BY <3>1, AsideIs DEF Aside
    <3>2. CASE CallFixups
      BY <3>2 DEF CallFixups, context
    <3>3. CASE RunFixups
      BY <3>3, FixupsEffect DEF RunFixups, loader_state, LoadInv, FixupsOfFile
    <3> QED
      BY <1>3, <3>1, <3>2, <3>3 DEF LoaderStep, AsideStep
  <2> QED
    BY <2>1, <2>3, <2>4, <2>5, FoundStays
<1>4. CASE UNCHANGED loader_vars
  <2>1. UNCHANGED <<img_addr, v_addr, file, entry_point, c_load_command>>
    BY <1>4 DEF loader_vars, loader_state, context
  <2> QED
    BY <2>1, FoundStays DEF Passed
<1> QED
  BY <1>2, <1>3, <1>4 DEF LoaderNext, Loaded

(* The entry point is in the image. *)
LEMMA EntryInImage ==
  ASSUME LoadInv, EntryInv, EntryFound, LinkedProgram(file), Bits(file) = 64,
         SegmentsFirst, img_addr # Null, entry_point # Null
  PROVE  entry_point >= img_addr /\ entry_point < img_addr + map_size(file)
<1>1. /\ file \in Files /\ LinkedSegments(file) /\ LinkedMain(file)
      /\ img_addr \in HostBases /\ v_addr = min_vmaddr(file) /\ Mappable(file) # {}
  BY DEF LoadInv, Walk, Linked, EntryInv, Mapped
<1>2. PICK k \in SegmentsOf(file) : file.cmds[k].segname = "__TEXT"
  BY <1>1 DEF LinkedProgram
<1>3. PICK j \in SymbolTables(file) : Passed(j) /\
        \E n \in DOMAIN file.cmds[j].syms : LastMain(file.cmds[j], n)
  BY DEF EntryFound
<1>4. PICK n \in DOMAIN file.cmds[j].syms : LastMain(file.cmds[j], n)
  BY <1>3
<1>5. entry_point = Slid(file.cmds[j].syms[n].n_value)
  BY <1>3, <1>4 DEF EntryFound
<1>6. PICK at \in DOMAIN file.cmds[k].words :
        file.cmds[j].syms[n].n_value = file.cmds[k].vmaddr + at
  BY <1>1, <1>2, <1>4, MainIsWord
<1>7. entry_point = WordAt(k, at)
  BY <1>1, <1>5, <1>6, SlidIsWordAt
<1>8. /\ WordAt(k, at) \in Nat /\ WordAt(k, at) >= img_addr
      /\ WordAt(k, at) + 8 <= img_addr + map_size(file)
  BY <1>1, WordInside DEF WordAt
<1>9. img_addr \in Nat /\ map_size(file) \in Nat
  <2>1. k \in Mappable(file)
    BY <1>1, <1>6, OnlyMappableHasWords
  <2> QED
    BY <1>1, <2>1, LinkedRange, HostAssumption, WidthAssumption DEF Addr, Word
<1> QED
  BY <1>7, <1>8, <1>9

(* The 32-bit loader never returns as the other does. *)
LEMMA Loader32Refuses ==
  ASSUME Loader32Step, lpc # "done"
  PROVE  lpc' # "done" /\ file' = file
BY DEF Loader32Step, ReadHeader, EndCommands32, LoadText, CrashInText, LoadOther, AfterLoadSegment, FindMain32, FindMain,
       LoadDylib32, LoadDylib, PassCommand32, PassCommand, CallBinds32, CallBinds, RunBinds, ReturnBinds,
       NextCommand, loader_state

----------------------------------------------------------------------------
(* What holds of a linked program while it is loaded. *)
LoadReady == LoadInv /\ EntryInv /\ DoneInv /\ Counted /\ EntryFound

WhileLoading ==
  /\ LinkedProgram(file)
  /\ mpc \in {"open", "load"} => IF Bits(file) = 64 THEN LoadReady ELSE lpc # "done"

LEMMA LoadReadyBegins ==
  ASSUME MainInit, LinkedProgram(file)
  PROVE  WhileLoading
<1>1. CASE Bits(file) = 64
  <2>1. Loader64Init /\ LoaderInit
    BY <1>1 DEF MainInit, Loader64Init
  <2>2. Linked(file) /\ LinkedMain(file) /\ SupportedFixups(file)
    BY <1>1 DEF LinkedProgram
  <2>3. LoadInv /\ EntryInv /\ DoneInv /\ Counted
    BY <2>1, <2>2, LoadBegins, EntryBegins, DoneBegins, CountBegins
  <2>4. EntryFound
    <3>1. entry_point = Null /\ c_load_command = 0 /\ file \in Files
      BY <2>1 DEF LoaderInit
    <3>2. \A j \in SymbolTables(file) : ~Passed(j)
      BY <3>1, FilesAssumption DEF SymbolTables, IsFile, Passed
    <3> QED
      BY <3>1, <3>2 DEF EntryFound
  <2> QED
    BY <1>1, <2>3, <2>4 DEF WhileLoading, LoadReady
<1>2. CASE Bits(file) # 64
  BY <1>2 DEF MainInit, LoaderInit, WhileLoading
<1> QED
  BY <1>1, <1>2

LEMMA LoadReadyStep ==
  LoadReady /\ [LoaderNext]_loader_vars => LoadReady'
BY LoadStep, EntryStep, DoneStep, CountStep, FoundStep DEF LoadReady

(* The file main has opened stays as it is. *)
LEMMA MainFileStays ==
  ASSUME [MainNext]_main_vars
  PROVE  file' = file
<1>1. CASE RunLoader
  <2>1. [LoaderNext]_loader_vars \/ Loader32Step
    BY <1>1 DEF RunLoader, LoaderNext
  <2>2. CASE Loader32Step
    BY <2>2 DEF Loader32Step, ReadHeader, EndCommands32, LoadText, CrashInText, LoadOther, AfterLoadSegment,
       FindMain32, FindMain, LoadDylib32, LoadDylib, PassCommand32, PassCommand, CallBinds32, CallBinds,
       RunBinds, ReturnBinds, NextCommand, loader_state
  <2> QED
    BY <2>1, <2>2, FileStays
<1>2. CASE OpenExec \/ CheckLoaded \/ RunBinding \/ Enter \/ LeftMain \/ UNCHANGED main_vars
  BY <1>2 DEF OpenExec, CheckLoaded, RunBinding, Enter, LeftMain, main_vars, loader_state
<1> QED
  BY <1>1, <1>2 DEF MainNext, MainStep

LEMMA WhileLoadingStep == WhileLoading /\ [MainNext]_main_vars => WhileLoading'
<1> SUFFICES ASSUME WhileLoading, [MainNext]_main_vars PROVE WhileLoading'
  OBVIOUS
<1>1. CASE RunLoader
  <2>1. mpc = "load" /\ mpc' \in {"load", "crashed"}
    BY <1>1 DEF RunLoader
  <2>2. CASE Bits(file) = 64
    <3>1. LoaderStep
      BY <1>1, <2>2 DEF RunLoader
    <3>2. file' = file /\ LoadReady'
      BY <2>1, <2>2, <3>1, LoadReadyStep, FileStays DEF LoaderNext, WhileLoading
    <3> QED
      BY <2>2, <3>2 DEF WhileLoading
  <2>3. CASE Bits(file) # 64
    <3>1. lpc' # "done" /\ file' = file
      BY <1>1, <2>1, <2>3, Loader32Refuses DEF RunLoader, WhileLoading
    <3> QED
      BY <2>3, <3>1 DEF WhileLoading
  <2> QED
    BY <2>2, <2>3
<1>2. CASE OpenExec \/ LeftMain \/ UNCHANGED main_vars
  <2>1. UNCHANGED loader_vars /\ UNCHANGED <<file, lpc>>
    BY <1>2 DEF OpenExec, LeftMain, main_vars, loader_vars, loader_state
  <2>2. mpc' \in {"open", "load"} => mpc \in {"open", "load"}
    BY <1>2 DEF OpenExec, LeftMain, main_vars
  <2>3. LoadReady => LoadReady'
    BY <2>1, LoadReadyStep
  <2> QED
    BY <2>1, <2>2, <2>3 DEF WhileLoading
<1>3. CASE CheckLoaded \/ RunBinding \/ Enter
  <2>1. file' = file /\ mpc' \notin {"open", "load"}
    BY <1>3 DEF CheckLoaded, RunBinding, Enter, loader_state
  <2> QED
    BY <2>1 DEF WhileLoading
<1> QED
  BY <1>1, <1>2, <1>3 DEF MainNext, MainStep

----------------------------------------------------------------------------
(* When main had nothing to warn of.                                        *)
Quiet ==
  mpc \in {"bind", "entered"} /\ warnings = {} =>
    /\ SegmentsFirst => entry_point >= img_addr /\ entry_point < img_addr + map_size(file)
    /\ \A a \in visited : ~chained64_is_bind(Load(a))

(* No warning is the answer of every check. *)
LEMMA QuietChecks ==
  ASSUME WhileLoading, CheckLoaded
  PROVE  Quiet'
<1> SUFFICES ASSUME warnings' = {} PROVE Quiet'
  BY DEF Quiet
<1>1. /\ mpc = "load" /\ lpc \in {"done", "refused"} /\ Warnings = {}
      /\ UNCHANGED <<img_addr, mem, visited, file, entry_point>>
  BY DEF CheckLoaded, context, fixups_state, loader_state
<1>2. /\ lpc = "done" /\ img_addr # Null /\ entry_point # Null
      /\ chained_unresolved_bind_count = 0
  BY <1>1 DEF Warnings
<1>3. Bits(file) = 64 /\ LoadReady /\ LinkedProgram(file)
  BY <1>1, <1>2 DEF WhileLoading
<1>4. SegmentsFirst => entry_point >= img_addr /\ entry_point < img_addr + map_size(file)
  BY <1>2, <1>3, EntryInImage DEF LoadReady
<1>5. \A a \in visited : ~chained64_is_bind(Load(a))
  <2>1. IsFiniteSet(visited)
    BY <1>3 DEF LoadReady, Counted
  <2>2. {a \in visited : chained64_is_bind(Load(a))} = {}
    BY <1>2, <1>3, <2>1, FS_Subset, FS_EmptySet DEF LoadReady, Counted, UnresolvedAreLeft
  <2> QED
    BY <2>2
<1>6. SegmentsFirst' <=> SegmentsFirst
  BY <1>1 DEF SegmentsFirst, SegmentCommands
<1>7. \A a : Load(a)' = Load(a)
  BY <1>1 DEF Load
<1> QED
  BY <1>1, <1>4, <1>5, <1>6, <1>7 DEF Quiet

(* do_bind puts no encoded bind anywhere. *)
LEMMA QuietBinds ==
  ASSUME MainTyped, Quiet, RunBinding
  PROVE  Quiet'
<1> SUFFICES ASSUME warnings' = {} PROVE Quiet'
  BY DEF Quiet
<1>1. /\ mpc = "bind" /\ BindingStep /\ UNCHANGED <<warnings, visited, file, entry_point>>
  BY DEF RunBinding, fixups_state, loader_state
<1>2. img_addr' = img_addr
  BY <1>1 DEF BindingStep, BeginBinding, SkipLibrary, OpenLibrary, EndLibraries, PassUnfit,
              CrashUnnamed, StoreSymbol, MissSymbol, EndBinds, NextBind, context
<1>3. SegmentsFirst' => SegmentsFirst
  BY <1>1 DEF SegmentsFirst, SegmentCommands
<1>4. \A a : chained64_is_bind(Load(a)') => chained64_is_bind(Load(a))
  <2>1. CASE StoreSymbol
    <3>1. PICK w, at : /\ w = Symbol(lib_i, bind_j) /\ at = b_list[bind_j].address
                       /\ mem' = [x \in DOMAIN mem \cup {at} |-> IF x = at THEN w ELSE mem[x]]
      BY <2>1 DEF StoreSymbol, Store
    <3>2. w \in Word /\ w < BindShift
      <4>1. dpc = "bind" /\ bind_j <= Len(b_list)
        BY <2>1 DEF StoreSymbol, AtBind
      <4>2. BindingTypeOK /\ lib_i \in 1 .. Len(d_list) /\ Opens(lib_i)
        BY <4>1 DEF MainTyped, MainTypeOK, LibraryOpen
      <4>3. b_list \in Seq(BindInfo) /\ bind_j \in 1 .. Len(b_list) + 1
        BY <4>2 DEF BindingTypeOK
      <4>4. bind_j \in 1 .. Len(b_list)
        BY <4>1, <4>3
      <4> QED
        BY <3>1, <4>2, <4>4, SymbolType
    <3>3. ~chained64_is_bind(w)
      <4>1. w \in Nat /\ w % AddrMod = w
        BY <3>2, ModOfSmall, WidthAssumption DEF Word
      <4> QED
        BY <3>2, <4>1, LowIsNoBind
    <3>4. \A a : Load(a)' = w \/ Load(a)' = Load(a)
      BY <3>1 DEF Load
    <3> QED
      BY <3>3, <3>4
  <2>2. CASE ~StoreSymbol
    <3>1. mem' = mem
      BY <1>1, <2>2 DEF BindingStep, BeginBinding, SkipLibrary, OpenLibrary, EndLibraries, PassUnfit,
                        CrashUnnamed, MissSymbol, EndBinds, NextBind, context
    <3> QED
      BY <3>1 DEF Load
  <2> QED
    BY <2>1, <2>2
<1>5. Quiet'
  <2>1. \A a \in visited' : ~chained64_is_bind(Load(a)')
    BY <1>1, <1>4 DEF Quiet
  <2>2. \A a : chained64_is_bind(Load(a))' <=> chained64_is_bind(Load(a)')
    BY DEF chained64_is_bind
  <2> QED
    BY <1>1, <1>2, <1>3, <2>1, <2>2 DEF Quiet
<1> QED
  BY <1>5

LEMMA QuietStep == MainTyped /\ WhileLoading /\ Quiet /\ [MainNext]_main_vars => Quiet'
<1> SUFFICES ASSUME MainTyped, WhileLoading, Quiet, [MainNext]_main_vars PROVE Quiet'
  OBVIOUS
<1>1. CASE OpenExec \/ RunLoader
  <2>1. mpc' \notin {"bind", "entered"}
    BY <1>1 DEF OpenExec, RunLoader
  <2> QED
    BY <2>1 DEF Quiet
<1>2. CASE Enter \/ LeftMain \/ UNCHANGED main_vars
  <2>1. /\ UNCHANGED <<img_addr, mem, visited, file, entry_point, warnings>>
        /\ mpc' \in {"bind", "entered"} => mpc \in {"bind", "entered"}
    BY <1>2 DEF Enter, LeftMain, main_vars, context, fixups_state, loader_state
  <2>2. (SegmentsFirst' <=> SegmentsFirst) /\ \A a : Load(a)' = Load(a)
    BY <2>1 DEF SegmentsFirst, SegmentCommands, Load
  <2> QED
    BY <2>1, <2>2 DEF Quiet
<1>3. CASE CheckLoaded
  BY <1>3, QuietChecks
<1>4. CASE RunBinding
  BY <1>4, QuietBinds
<1> QED
  BY <1>1, <1>2, <1>3, <1>4 DEF MainNext, MainStep

(* For every linked program, every host and whatever mmap and dlopen answer: *)
(* when none of main's four checks printed, the program is entered inside    *)
(* its image, and no word the chained fixups went over is an encoded bind.   *)
THEOREM QuietMeansReadyHolds == MainSpec /\ LinkedProgram(file) => []QuietMeansReady
<1>1. MainInit => MainTyped
  BY MainTypedBegins
<1>2. MainInit /\ LinkedProgram(file) => WhileLoading /\ Quiet
  <2>1. MainInit => Quiet
    BY DEF MainInit, Quiet
  <2> QED
    BY <2>1, LoadReadyBegins
<1>3. Quiet => QuietMeansReady
  BY DEF Quiet, QuietMeansReady
<1> QED
  BY <1>1, <1>2, <1>3, MainStepsTyped, WhileLoadingStep, QuietStep, PTL DEF MainSpec

----------------------------------------------------------------------------
(* EnteredWhole.  What the loader hands over when every segment was mapped  *)
(* and recorded: the whole file, its fixups applied.                        *)
Handed == lpc = "done" /\ SegmentsFirst /\ SegmentCommands # {} /\ AllRecorded

(* The fixups of the file for a place. *)
FixupsFor(a) ==
  {e \in UNION {Image!FixupsOf(fx) : fx \in ProgramOf(file).payloads} : e.off = a - img_addr}

LoadedWord(m, a) ==
  IF FixupsFor(a) # {}
    THEN \E fx \in ProgramOf(file).payloads : \E e \in FixupsFor(a) :
           e \in Image!FixupsOf(fx) /\ m[a] = FormatValue(fx, img_addr, e.raw)
    ELSE m[a] = FileWord(a - img_addr)

WholeIn(m) ==
  /\ \A k \in SegmentCommands : \A o \in DOMAIN file.cmds[k].words :
       Slid(file.cmds[k].vmaddr + o) \in DOMAIN m
  /\ \A a \in DOMAIN m : LoadedWord(m, a)

EntryIsLast ==
  \A j \in SymbolTables(file) : \A n \in DOMAIN file.cmds[j].syms :
    LastMain(file.cmds[j], n) => entry_point = Slid(file.cmds[j].syms[n].n_value)

(* The payloads are those of the commands. *)
LEMMA PayloadOfCommand ==
  ASSUME file \in Files
  PROVE  /\ \A fx : fx \in ProgramOf(file).payloads <=>
              \E j \in FixupsCommands(file) : fx = file.cmds[j].fixups
         /\ \A j \in FixupsCommands(file) : file.cmds[j].fixups \in FixupsPayload
<1>1. ASSUME NEW j \in FixupsCommands(file) PROVE file.cmds[j].fixups \in FixupsPayload
  <2>1. IsCommand(file.cmds[j]) /\ file.cmds[j].cmd = "LC_DYLD_CHAINED_FIXUPS"
    BY FilesAssumption DEF FixupsCommands, IsFile
  <2> QED
    BY <2>1 DEF IsCommand, linkedit_data_command
<1> QED
  BY <1>1 DEF ProgramOf, FixupsCommands

(* A segment with a word is in the table, and so in memory. *)
LEMMA HandedRecorded ==
  ASSUME LoadInv, Handed, NEW k \in SegmentsOf(file), NEW o \in DOMAIN file.cmds[k].words
  PROVE  Recorded(k) /\ img_addr # Null /\ WordAt(k, o) \in DOMAIN mem
<1>1. file \in Files /\ LinkedSegments(file)
  BY DEF LoadInv, Walk, Linked
<1>2. file.cmds[k].segname # "__PAGEZERO"
  BY <1>1, OnlyMappableHasWords DEF Mappable
<1>3. Recorded(k)
  BY <1>2 DEF Handed, AllRecorded, SegmentCommands
<1>4. Passed(k) /\ Number(file, k) <= Len(segments) /\ segments[Number(file, k)].mapped_addr # Null
  BY <1>3 DEF Recorded, SegmentNo
<1>5. InTable(k)
  BY <1>4 DEF LoadInv, TableIsOfFile
<1> QED
  BY <1>3, <1>4, <1>5 DEF InTable

LEMMA AddressesAreNumbers ==
  ASSUME LoadInv
  PROVE  file \in Files /\ img_addr \in Nat /\ DOMAIN mem \subseteq Nat
<1>1. ContextTypeOK /\ file \in Files
  BY DEF LoadInv, Walk, FixupsTypeOK
<1> QED
  BY <1>1, WidthAssumption DEF ContextTypeOK, Addr, Word

(* A place without a fixup was not visited. *)
LEMMA VisitedHasFixup ==
  ASSUME LoadInv, EntryInv, NEW a \in visited
  PROVE  FixupsFor(a) # {}
<1>1. file \in Files /\ img_addr \in Nat
  BY AddressesAreNumbers
<1>2. PICK l, fx :
        /\ l \in FixupsCommands(file) /\ fx = file.cmds[l].fixups
        /\ \E i \in 1 .. Len(fx.segs) : \E q \in 1 .. Len(fx.segs[i].chain) :
             \E r \in 1 .. Len(fx.segs[i].chain[q]) : a = img_addr + FixupAt(fx, i, q, r).off
  <2>1. VisitedAreFixups
    BY DEF EntryInv
  <2>2. FixupPlace(img_addr, a)
    BY <2>1 DEF VisitedAreFixups
  <2>3. PICK l \in FixupsCommands(file) :
          \E i \in 1 .. Len(file.cmds[l].fixups.segs) :
            \E q \in 1 .. Len(file.cmds[l].fixups.segs[i].chain) :
              \E r \in 1 .. Len(file.cmds[l].fixups.segs[i].chain[q]) :
                a = img_addr + FixupAt(file.cmds[l].fixups, i, q, r).off
    BY <2>2, Zenon DEF FixupPlace
  <2> QED
    BY <2>3, Zenon
<1>3. PICK i \in 1 .. Len(fx.segs) : \E q \in 1 .. Len(fx.segs[i].chain) :
        \E r \in 1 .. Len(fx.segs[i].chain[q]) : a = img_addr + FixupAt(fx, i, q, r).off
  BY <1>2
<1>4. PICK q \in 1 .. Len(fx.segs[i].chain) :
        \E r \in 1 .. Len(fx.segs[i].chain[q]) : a = img_addr + FixupAt(fx, i, q, r).off
  BY <1>3
<1>5. PICK r \in 1 .. Len(fx.segs[i].chain[q]) : a = img_addr + FixupAt(fx, i, q, r).off
  BY <1>4
<1>6. fx \in ProgramOf(file).payloads /\ fx \in FixupsPayload
  BY <1>1, <1>2, PayloadOfCommand
<1>7. PICK e : e = FixupAt(fx, i, q, r)
  OBVIOUS
<1>8. e.off \in Nat /\ e \in Image!FixupsOf(fx)
  BY <1>6, <1>7, PayloadFixup, FixupsListed
<1>9. e.off = a - img_addr
  BY <1>1, <1>5, <1>7, <1>8
<1> QED
  BY <1>6, <1>8, <1>9 DEF FixupsFor

(* The segments are before the command of the fixups: all are applied.      *)
LEMMA FixupIsApplied ==
  ASSUME LoadInv, DoneInv, Handed, NEW fx \in ProgramOf(file).payloads, NEW e \in Image!FixupsOf(fx)
  PROVE  mem[img_addr + e.off] = FormatValue(fx, img_addr, e.raw)
<1>1. /\ file \in Files /\ Linked(file) /\ c_load_command \in Nat
      /\ Len(file.cmds) \in Nat /\ DOMAIN file.cmds = 1 .. Len(file.cmds)
      /\ c_load_command >= Len(file.cmds)
  BY FilesAssumption DEF LoadInv, Walk, IsFile, DoneInv, Handed
<1>2. PICK j \in FixupsCommands(file) : fx = file.cmds[j].fixups
  BY <1>1, PayloadOfCommand
<1>3. fx \in FixupsPayload
  BY <1>1, <1>2, PayloadOfCommand
<1>4. PICK i, q, n : /\ i \in 1 .. Len(fx.segs) /\ q \in 1 .. Len(fx.segs[i].chain)
                     /\ n \in 1 .. Len(fx.segs[i].chain[q]) /\ e = FixupAt(fx, i, q, n)
  BY <1>3, FixupsListed
<1>5. WrittenAt(file, fx, i, q, n)
  BY <1>1, <1>2, <1>4, FixupIsWord
<1>6. PICK k \in SegmentsOf(file) : Number(file, k) = i /\ \E o : o \in DOMAIN file.cmds[k].words
  BY <1>5, Zenon DEF WrittenAt
<1>7. Recorded(k)
  BY <1>6, HandedRecorded
<1>8. k < j
  <2>1. j \in DOMAIN file.cmds /\ j \notin SegmentCommands /\ k \in SegmentCommands
        /\ k \in DOMAIN file.cmds
    BY DEF FixupsCommands, SegmentCommands, SegmentsOf
  <2>2. ~(j < k)
    BY <2>1 DEF Handed, SegmentsFirst
  <2> QED
    BY <1>1, <2>1, <2>2
<1>9. Reached(j, i)
  BY <1>6, <1>7, <1>8 DEF Reached, SegmentNo, SegmentCommands
<1>10. Passed(j)
  BY <1>1 DEF Passed, FixupsCommands
<1>11. AllSettled(j)
  BY <1>10 DEF DoneInv, Handed
<1>12. Settled(j, i, e)
  BY <1>2, <1>4, <1>11 DEF AllSettled
<1> QED
  BY <1>2, <1>9, <1>12 DEF Settled

LEMMA LoadedWhole ==
  ASSUME LoadReady, Handed
  PROVE  WholeIn(mem)
<1>1. /\ file \in Files /\ Linked(file) /\ LinkedSegments(file)
      /\ LoadInv /\ EntryInv /\ DoneInv
      /\ img_addr # Null => img_addr \in HostBases /\ v_addr = min_vmaddr(file)
  BY DEF LoadReady, LoadInv, Walk, Linked, Mapped
<1>2. ASSUME NEW k \in SegmentCommands, NEW o \in DOMAIN file.cmds[k].words
      PROVE  Slid(file.cmds[k].vmaddr + o) \in DOMAIN mem
  BY <1>1, HandedRecorded, SlidIsWordAt DEF SegmentCommands
<1>3. ASSUME NEW a \in DOMAIN mem PROVE LoadedWord(mem, a)
  <2>1. CASE FixupsFor(a) # {}
    <3>1. PICK fx \in ProgramOf(file).payloads :
            \E e \in Image!FixupsOf(fx) : e.off = a - img_addr
      BY <2>1 DEF FixupsFor
    <3>2. PICK e \in Image!FixupsOf(fx) : e.off = a - img_addr
      BY <3>1
    <3>3. a \in Nat /\ img_addr \in Nat
      BY <1>1, AddressesAreNumbers
    <3>4. img_addr + e.off = a
      BY <3>2, <3>3
    <3>5. mem[a] = FormatValue(fx, img_addr, e.raw)
      BY <1>1, <3>4, FixupIsApplied
    <3>6. e \in FixupsFor(a)
      BY <3>2 DEF FixupsFor
    <3> QED
      BY <2>1, <3>5, <3>6 DEF LoadedWord
  <2>2. CASE FixupsFor(a) = {}
    <3>1. a \notin visited
      BY <1>1, <2>2, VisitedHasFixup
    <3>2. img_addr # Null /\ \E k \in SegmentsOf(file) : \E o \in DOMAIN file.cmds[k].words : a = WordAt(k, o)
      BY <1>1 DEF LoadInv, MemoryIsOfFile
    <3>3. PICK k \in SegmentsOf(file) : \E o \in DOMAIN file.cmds[k].words : a = WordAt(k, o)
      BY <3>2
    <3>4. PICK o \in DOMAIN file.cmds[k].words : a = WordAt(k, o)
      BY <3>3
    <3>5. mem[a] = file.cmds[k].words[o]
      BY <1>1, <3>1, <3>4 DEF LoadInv, MemoryIsAsInFile
    <3>6. a - img_addr = Offset(file, k) + o
      BY <1>1, <3>2, <3>4, WordInside DEF WordAt
    <3>7. FileWord(a - img_addr) = file.cmds[k].words[o]
      BY <1>1, <3>6, FileWordIs
    <3> QED
      BY <2>2, <3>5, <3>7 DEF LoadedWord
  <2> QED
    BY <2>1, <2>2
<1> QED
  BY <1>2, <1>3 DEF WholeIn

LEMMA LoadedEntry ==
  ASSUME LoadReady, Handed
  PROVE  EntryIsLast
<1>1. /\ file \in Files /\ c_load_command \in Nat
      /\ Len(file.cmds) \in Nat /\ DOMAIN file.cmds = 1 .. Len(file.cmds)
      /\ c_load_command >= Len(file.cmds)
  BY FilesAssumption DEF LoadReady, LoadInv, Walk, IsFile, DoneInv, Handed
<1>2. \A j \in SymbolTables(file) : Passed(j)
  BY <1>1 DEF SymbolTables, Passed
<1> QED
  BY <1>2 DEF LoadReady, EntryFound, Handed, EntryIsLast

----------------------------------------------------------------------------
(* do_bind changes the words of its binds' places, and no other.            *)
OnlyPlacesDiffer ==
  /\ DOMAIN unbound \subseteq DOMAIN mem
  /\ \A a \in DOMAIN mem :
       \/ a \in DOMAIN unbound /\ mem[a] = unbound[a]
       \/ \E j \in DOMAIN b_list : Fit(j) /\ b_list[j].address = a

(* What main holds in its hands, from the loader to the program. *)
WholeInv ==
  /\ mpc \in {"open", "load"} => unbound = << >>
  /\ mpc \in {"bind", "entered"} => BindsAreCurrent
  /\ mpc \in {"bind", "entered"} /\ Handed =>
       /\ EntryIsLast
       /\ IF dpc = "begin" THEN WholeIn(mem) ELSE WholeIn(unbound) /\ OnlyPlacesDiffer
  /\ mpc = "entered" => dpc = "return" /\ lib_i = Len(d_list) + 1

(* What the loader left is of the file and the table alone. *)
LEMMA HandedStays ==
  ASSUME UNCHANGED <<img_addr, segments, file, lpc, c_load_command, v_addr, entry_point>>
  PROVE  /\ Handed' <=> Handed
         /\ EntryIsLast' <=> EntryIsLast
         /\ WholeIn(mem) /\ mem' = mem => WholeIn(mem)'
         /\ WholeIn(mem) /\ unbound' = mem => WholeIn(unbound)'
         /\ WholeIn(unbound) /\ unbound' = unbound => WholeIn(unbound)'
<1>1. Handed' <=> Handed
  BY DEF Handed, SegmentsFirst, AllRecorded, SegmentCommands, Recorded, Passed, SegmentNo
<1>2. EntryIsLast' <=> EntryIsLast
  BY DEF EntryIsLast, Slid
<1>3. /\ SegmentCommands' = SegmentCommands /\ \A a : Slid(a)' = Slid(a)
      /\ \A a : FixupsFor(a)' = FixupsFor(a)
  BY DEF SegmentCommands, Slid, FixupsFor
<1>4. \A off : FileWord(off)' = FileWord(off)
  BY DEF FileWord, Holder, SegmentCommands
<1>5. \A m, a : LoadedWord(m, a)' <=> LoadedWord(m, a)
  BY <1>3, <1>4 DEF LoadedWord
<1>6. WholeIn(mem) /\ mem' = mem => WholeIn(mem)'
  BY <1>3, <1>5 DEF WholeIn
<1>7. WholeIn(mem) /\ unbound' = mem => WholeIn(unbound)'
  BY <1>3, <1>5 DEF WholeIn
<1>8. WholeIn(unbound) /\ unbound' = unbound => WholeIn(unbound)'
  BY <1>3, <1>5 DEF WholeIn
<1> QED
  BY <1>1, <1>2, <1>6, <1>7, <1>8

LEMMA WholeChecks ==
  ASSUME WhileLoading, WholeInv, CheckLoaded
  PROVE  WholeInv'
<1>1. /\ mpc = "load" /\ mpc' = "bind" /\ dpc' = "begin" /\ lpc \in {"done", "refused"}
      /\ UNCHANGED <<img_addr, segments, mem, b_list, d_list, unbound>>
      /\ UNCHANGED <<file, lpc, c_load_command, v_addr, entry_point>>
  BY DEF CheckLoaded, context, lists, loader_state
<1>2. BindsAreCurrent'
  <2>1. \A j : Having(j, Through(j))' = {}
    BY <1>1 DEF Through, Having
  <2>2. unbound' = << >>
    BY <1>1 DEF WholeInv
  <2> QED
    BY <2>1, <2>2 DEF BindsAreCurrent, IsBoundBy
<1>3. ASSUME Handed' PROVE EntryIsLast' /\ WholeIn(mem)'
  <2>1. Handed
    BY <1>1, <1>3, HandedStays
  <2>2. LoadReady
    BY <1>1, <2>1 DEF Handed, WhileLoading
  <2>3. EntryIsLast /\ WholeIn(mem)
    BY <2>1, <2>2, LoadedEntry, LoadedWhole
  <2> QED
    BY <1>1, <2>3, HandedStays
<1> QED
  BY <1>1, <1>2, <1>3 DEF WholeInv

LEMMA WholeBinds ==
  ASSUME MainTyped, MainInv, WholeInv, RunBinding
  PROVE  WholeInv'
<1>1. /\ mpc = "bind" /\ mpc' \in {"bind", "crashed"} /\ BindingStep /\ dpc' # "begin"
      /\ BindingStage
  BY DEF RunBinding, MainInv, BindingStep, BeginBinding, SkipLibrary, OpenLibrary, EndLibraries,
         PassUnfit, CrashUnnamed, StoreSymbol, MissSymbol, EndBinds, NextBind, AtBind
<1>2. /\ UNCHANGED <<img_addr, segments, b_list>>
      /\ UNCHANGED <<file, lpc, c_load_command, v_addr, entry_point>>
  BY <1>1 DEF RunBinding, loader_state, BindingStep, BeginBinding, SkipLibrary, OpenLibrary,
              EndLibraries, PassUnfit, CrashUnnamed, StoreSymbol, MissSymbol, EndBinds, NextBind,
              context, lists
<1>3. BindsAreCurrent'
  <2>1. BindingInv
    BY <1>1 DEF MainTyped, MainTypeOK, BindingInv, BindingTyped, WholeInv
  <2> QED
    BY <1>1, <2>1, StepCurrent DEF BindingNext, BindingInv
<1>4. ASSUME Handed PROVE EntryIsLast' /\ WholeIn(unbound)' /\ OnlyPlacesDiffer'
  <2>1. EntryIsLast'
    BY <1>1, <1>2, <1>4, HandedStays DEF WholeInv
  <2>2. CASE BeginBinding
    <3>1. dpc = "begin" /\ unbound' = mem /\ mem' = mem
      BY <2>2 DEF BeginBinding
    <3>2. WholeIn(mem)
      BY <1>1, <1>4, <3>1 DEF WholeInv
    <3>3. OnlyPlacesDiffer'
      BY <3>1 DEF OnlyPlacesDiffer
    <3> QED
      BY <1>2, <2>1, <3>1, <3>2, <3>3, HandedStays
  <2>3. CASE ~BeginBinding
    <3>1. dpc # "begin" /\ unbound' = unbound
      BY <1>1, <2>3 DEF BindingStep, SkipLibrary, OpenLibrary, EndLibraries,
             PassUnfit, CrashUnnamed, StoreSymbol, MissSymbol, EndBinds, NextBind, AtBind
    <3>2. WholeIn(unbound) /\ OnlyPlacesDiffer
      BY <1>1, <1>4, <3>1 DEF WholeInv
    <3>3. \A j : Fit(j)' <=> Fit(j)
      BY <1>2 DEF Fit
    <3>4. OnlyPlacesDiffer'
      <4>1. CASE StoreSymbol
        <5>1. /\ bind_j \in DOMAIN b_list /\ Fit(bind_j)
              /\ Store(b_list[bind_j].address, Symbol(lib_i, bind_j))
          BY <1>1, <4>1 DEF StoreSymbol, AtBind, BindingStage, Collected, IsSequence
        <5>2. PICK at, w : /\ at = b_list[bind_j].address
                           /\ mem' = [x \in DOMAIN mem \cup {at} |-> IF x = at THEN w ELSE mem[x]]
          BY <5>1 DEF Store
        <5> QED
          BY <1>2, <3>1, <3>2, <3>3, <5>1, <5>2 DEF OnlyPlacesDiffer
      <4>2. CASE ~StoreSymbol
        <5>1. mem' = mem
          BY <1>1, <2>3, <4>2 DEF BindingStep, SkipLibrary, OpenLibrary, EndLibraries, PassUnfit,
                                  CrashUnnamed, MissSymbol, EndBinds, NextBind, context
        <5> QED
          BY <1>2, <3>1, <3>2, <3>3, <5>1 DEF OnlyPlacesDiffer
      <4> QED
        BY <4>1, <4>2
    <3> QED
      BY <1>2, <2>1, <3>1, <3>2, <3>4, HandedStays
  <2> QED
    BY <2>2, <2>3
<1> QED
  BY <1>1, <1>2, <1>3, <1>4, HandedStays DEF WholeInv

LEMMA WholeStep ==
  MainTyped /\ MainInv /\ WhileLoading /\ WholeInv /\ [MainNext]_main_vars => WholeInv'
<1> SUFFICES ASSUME MainTyped, MainInv, WhileLoading, WholeInv, [MainNext]_main_vars
             PROVE  WholeInv'
  OBVIOUS
<1>1. CASE OpenExec \/ RunLoader
  <2>1. mpc' \notin {"bind", "entered"} /\ mpc \in {"open", "load"} /\ unbound' = unbound
    BY <1>1 DEF OpenExec, RunLoader, binding_state
  <2> QED
    BY <2>1 DEF WholeInv
<1>2. CASE CheckLoaded
  BY <1>2, WholeChecks
<1>3. CASE RunBinding
  BY <1>3, WholeBinds
<1>4. CASE Enter \/ LeftMain \/ UNCHANGED main_vars
  <2>1. /\ UNCHANGED <<img_addr, segments, mem, b_list, d_list, unbound, dpc, lib_i, bind_j, host>>
        /\ UNCHANGED <<file, lpc, c_load_command, v_addr, entry_point>>
    BY <1>4 DEF Enter, LeftMain, main_vars, context, lists, loader_state, binding_state
  <2>2. BindsAreCurrent' <=> BindsAreCurrent
    BY <2>1 DEF BindsAreCurrent, PlacesDiffer, Fit, IsBoundBy, Through, Having, Opens, Symbol, Load
  <2>3. OnlyPlacesDiffer' <=> OnlyPlacesDiffer
    BY <2>1 DEF OnlyPlacesDiffer, Fit
  <2>4. /\ mpc' \in {"bind", "entered"} <=> mpc \in {"bind", "entered"}
        /\ mpc' \in {"open", "load"} => mpc \in {"open", "load"}
        /\ mpc' = "entered" => dpc = "return" /\ lib_i = Len(d_list) + 1
    BY <1>4 DEF Enter, LeftMain, main_vars, MainInv, BindingStage, WholeInv
  <2> QED
    BY <2>1, <2>2, <2>3, <2>4, HandedStays DEF WholeInv
<1> QED
  BY <1>1, <1>2, <1>3, <1>4 DEF MainNext, MainStep

----------------------------------------------------------------------------
(* Places of their own: what the linker put apart stays apart.              *)
Placed ==
  /\ file \in Files
  /\ IF mpc \in {"open", "load"}
       THEN BindsInv /\ (Bits(file) # 64 => HeadInv)
       ELSE /\ BindsPlaced
            /\ targets # << >> => \E j \in BindsCommands(file) : targets = file.cmds[j].targets

LEMMA PlacedBegins ==
  ASSUME MainInit, LinkedProgram(file)
  PROVE  Placed
<1>1. LoaderInit /\ LinkedBinds(file) /\ Bits(file) \in {32, 64}
  BY DEF MainInit, LinkedProgram, Bits
<1>2. BindsInv
  BY <1>1, BindsBegin
<1>3. ASSUME Bits(file) # 64 PROVE HeadInv
  <2>1. Loader32Init /\ LinkedHead(file)
    BY <1>1, <1>3 DEF Loader32Init, LinkedProgram
  <2> QED
    BY <2>1, HeadBegins
<1>4. lpc = "header" /\ file \in Files
  BY <1>1 DEF LoaderInit
<1> QED
  BY <1>2, <1>3, <1>4 DEF Placed, BindsInv

(* The table that goes with the binds so far. *)
LEMMA PlacedSoFar ==
  ASSUME MainTyped, WhileLoading, Placed
  PROVE  /\ BindsPlaced
         /\ targets # << >> => \E j \in BindsCommands(file) : targets = file.cmds[j].targets
<1>1. CASE mpc \in {"open", "load"}
  <2>1. BindsInv /\ Typed(Bits(file))
    BY <1>1 DEF Placed, MainTyped
  <2>2. TableSlid
    BY <1>1, TableIsSlid64, TableIsSlid32 DEF Placed, WhileLoading, LoadReady
  <2>3. BindsPlaced
    BY <2>1, <2>2, InvPlaced
  <2> QED
    BY <2>1, <2>3 DEF BindsInv
<1> QED
  BY <1>1 DEF Placed

LEMMA PlacedLoads ==
  ASSUME MainTyped, WhileLoading, Placed, RunLoader
  PROVE  Placed'
<1>1. /\ mpc = "load" /\ BindsInv /\ Typed(Bits(file)) /\ file \in Files /\ (Bits(file) # 64 => HeadInv)
      /\ mpc' = IF lpc' = "crashed" THEN "crashed" ELSE "load"
  BY DEF RunLoader, Placed, MainTyped
<1>2. CASE Bits(file) = 64
  <2>1. LoaderStep /\ LoadInv
    BY <1>1, <1>2 DEF RunLoader, WhileLoading, LoadReady
  <2>2. BindsInv' /\ file' = file
    BY <1>1, <1>2, <2>1, Binds64Step, FileStays DEF LoaderNext
  <2> QED
    BY <1>1, <1>2, <2>2 DEF Placed, BindsInv
<1>3. CASE Bits(file) # 64
  <2>1. Loader32Step /\ Bits(file) = 32
    BY <1>3 DEF RunLoader, Bits
  <2>2. BindsInv' /\ HeadInv' /\ file' \in Files
    BY <1>1, <1>3, <2>1, Binds32Step, HeadStep DEF Loader32Next, HeadInv, Walk
  <2> QED
    BY <1>1, <2>2 DEF Placed, BindsInv
<1> QED
  BY <1>2, <1>3

LEMMA PlacedStep ==
  MainTyped /\ WhileLoading /\ Placed /\ [MainNext]_main_vars => Placed'
<1> SUFFICES ASSUME MainTyped, WhileLoading, Placed, [MainNext]_main_vars PROVE Placed'
  OBVIOUS
<1>1. CASE RunLoader
  BY <1>1, PlacedLoads
<1>2. CASE ~RunLoader
  <2>1. /\ UNCHANGED <<file, c_load_command, img_addr, v_addr, segments, targets, b_list>>
        /\ mpc' \in {"open", "load"} =>
             UNCHANGED <<context, fixups_state, binds_state, loader_state>> /\ mpc \in {"open", "load"}
    BY <1>2 DEF MainNext, MainStep, OpenExec, CheckLoaded, RunBinding, Enter, LeftMain, main_vars,
                BindingStep, BeginBinding, SkipLibrary, OpenLibrary, EndLibraries, PassUnfit,
                CrashUnnamed, StoreSymbol, MissSymbol, EndBinds, NextBind, context, lists,
                loader_state, binds_state
  <2>2. CASE mpc' \in {"open", "load"}
    <3>1. UNCHANGED loader_vars /\ mpc \in {"open", "load"}
      BY <2>1, <2>2 DEF loader_vars
    <3>2. BindsInv' /\ (Bits(file) # 64 => HeadInv')
      BY <3>1, StutterKeepsBinds, HeadStep DEF Placed
    <3> QED
      BY <2>1, <2>2, <3>2 DEF Placed
  <2>3. CASE mpc' \notin {"open", "load"}
    <3>1. BindsPlaced /\ (targets # << >> => \E j \in BindsCommands(file) : targets = file.cmds[j].targets)
      BY PlacedSoFar
    <3>2. BindsPlaced'
      BY <2>1, <3>1 DEF BindsPlaced, NoBindDropped, SegmentCommands, Recorded, SegmentNo, Passed, Slid
    <3> QED
      BY <2>1, <2>3, <3>1, <3>2 DEF Placed
  <2> QED
    BY <2>2, <2>3
<1> QED
  BY <1>1, <1>2

(* Addresses that are apart are apart in the image. *)
LEMMA SlidIsApart ==
  ASSUME NEW d \in Nat \ {0}, NEW b \in Int, NEW w \in Int,
         NEW x \in 0 .. d - 1, NEW y \in 0 .. d - 1, (b + x - w) % d = (b + y - w) % d
  PROVE  x = y
<1>1. PICK u \in Int, v \in Int : u = b + x - w /\ v = b + y - w
  OBVIOUS
<1>2. u % d = v % d
  BY <1>1
<1>3. PICK m \in Int, n \in Int, r \in Int : u = d * m + r /\ v = d * n + r
  <2>1. u \div d \in Int /\ u % d \in Int /\ u = d * (u \div d) + (u % d)
    OBVIOUS
  <2>2. v \div d \in Int /\ v = d * (v \div d) + (v % d)
    OBVIOUS
  <2>3. v = d * (v \div d) + (u % d)
    BY <1>2, <2>2
  <2> QED
    BY <2>1, <2>2, <2>3, Zenon
<1>4. d * m \in Int /\ d * n \in Int /\ d * (m - n) = d * m - d * n
  BY <1>3
<1>5. x = d * (m - n) + y
  BY <1>1, <1>3, <1>4
<1>6. x \div d = m - n
  BY <1>3, <1>5, QuotientUnique
<1>7. x \div d = 0
  <2>1. x = d * 0 + x
    OBVIOUS
  <2> QED
    BY <2>1, QuotientUnique
<1>8. d * (m - n) = 0
  BY <1>6, <1>7
<1> QED
  BY <1>5, <1>8

LEMMA PlacedTyped ==
  ASSUME MainTyped, Placed
  PROVE  /\ file \in Files /\ b_list \in Seq(BindInfo) /\ Len(b_list) \in Nat
         /\ img_addr \in Nat /\ v_addr \in Nat /\ AddrMod \in Nat \ {0}
<1>1. file \in Files /\ b_list \in Seq(BindInfo) /\ img_addr \in Addr /\ v_addr \in Addr
  BY DEF Placed, MainTyped, MainTypeOK, LoaderTypeOK, BindingTypeOK, ContextTypeOK
<1>2. AddrMod \in Nat \ {0} /\ Addr \subseteq Nat
  BY WidthAssumption DEF Addr, Word
<1> QED
  BY <1>1, <1>2

(* A bind do_bind goes through, and the target it is for. *)
LEMMA BindHasTarget ==
  ASSUME MainTyped, WhileLoading, Placed, NEW n \in 1 .. Len(b_list), Fit(n)
  PROVE  \E j \in BindsCommands(file) : \E k \in SegmentsOf(file) :
           /\ targets = file.cmds[j].targets /\ n \in 1 .. Len(targets) /\ targets[n].off \in Nat
           /\ IsInSegment(file, targets[n], k) /\ file.cmds[k].vmaddr \in Nat
           /\ b_list[n].address = Slid(file.cmds[k].vmaddr + targets[n].off)
<1>1. file \in Files /\ img_addr \in Nat /\ b_list \in Seq(BindInfo) /\ Len(b_list) \in Nat
  BY PlacedTyped
<1>2. b_list[n].address # Null
  BY <1>1 DEF Fit, Null
<1>3. /\ BindsPlaced
      /\ targets # << >> => \E j \in BindsCommands(file) : targets = file.cmds[j].targets
  BY PlacedSoFar
<1>4. PICK k \in SegmentsOf(file) :
        Number(file, k) = targets[n].seg + 1 /\ b_list[n].address = Slid(file.cmds[k].vmaddr + targets[n].off)
  BY <1>2, <1>3 DEF BindsPlaced
<1>5. targets # << >>
  BY <1>1, <1>3 DEF BindsPlaced
<1>6. PICK j \in BindsCommands(file) : targets = file.cmds[j].targets
  BY <1>3, <1>5
<1> DEFINE tuples == [name : Names \cup {NoName}, seg : 0 .. 15, off : Addr, addend : Int]
<1>7. targets \in Seq(tuples)
  <2>1. IsCommand(file.cmds[j]) /\ file.cmds[j].cmd = "LC_DYLD_INFO"
    BY <1>1, <1>6, FilesAssumption DEF BindsCommands, IsFile
  <2> QED
    BY <1>6, <2>1 DEF IsCommand, dyld_info_command
<1>8. ASSUME NEW t \in tuples PROVE t.off \in Nat
  BY <1>8, WidthAssumption DEF Addr, Word
<1> HIDE DEF tuples
<1>9. n \in 1 .. Len(targets) /\ targets[n] \in tuples
  <2>1. Len(targets) \in Nat
    BY <1>7
  <2>2. n \in 1 .. Len(targets)
    BY <1>1, <1>3, <2>1 DEF BindsPlaced
  <2> QED
    BY <1>7, <2>2
<1>10. file.cmds[k].vmaddr \in Nat
  BY <1>1, SegmentVmaddr
<1> QED
  BY <1>4, <1>6, <1>8, <1>9, <1>10 DEF IsInSegment

LEMMA InvPlacesApart ==
  ASSUME MainTyped, WhileLoading, Placed
  PROVE  PlacesApart
<1>1. /\ file \in Files /\ img_addr \in Int /\ v_addr \in Int /\ b_list \in Seq(BindInfo)
      /\ AddrMod \in Nat \ {0}
  BY PlacedTyped
<1>2. BindsApart(file)
  BY DEF WhileLoading, LinkedProgram
<1>3. ASSUME NEW m \in 1 .. Len(b_list), NEW n \in 1 .. Len(b_list), Fit(m), Fit(n),
             b_list[m].address = b_list[n].address
      PROVE  m = n
  <2>1. PICK j \in BindsCommands(file), k \in SegmentsOf(file) :
          /\ targets = file.cmds[j].targets /\ m \in 1 .. Len(targets) /\ targets[m].off \in Nat
          /\ IsInSegment(file, targets[m], k) /\ file.cmds[k].vmaddr \in Nat
          /\ b_list[m].address = Slid(file.cmds[k].vmaddr + targets[m].off)
    BY <1>3, BindHasTarget
  <2>2. PICK l \in SegmentsOf(file) :
          /\ n \in 1 .. Len(targets) /\ targets[n].off \in Nat
          /\ IsInSegment(file, targets[n], l) /\ file.cmds[l].vmaddr \in Nat
          /\ b_list[n].address = Slid(file.cmds[l].vmaddr + targets[n].off)
    BY <1>3, BindHasTarget
  <2>3. PICK x : x = file.cmds[k].vmaddr + targets[m].off
    OBVIOUS
  <2>4. PICK y : y = file.cmds[l].vmaddr + targets[n].off
    OBVIOUS
  <2>5. x < AddrMod /\ y < AddrMod /\ (x = y => m = n)
    BY <1>2, <2>1, <2>2, <2>3, <2>4 DEF BindsApart
  <2>6. (img_addr + x - v_addr) % AddrMod = (img_addr + y - v_addr) % AddrMod
    BY <1>3, <2>1, <2>2, <2>3, <2>4, Zenon DEF Slid
  <2>7. x \in 0 .. AddrMod - 1 /\ y \in 0 .. AddrMod - 1
    <3>1. x \in Nat
      <4>1. PICK v \in Nat, o \in Nat : v = file.cmds[k].vmaddr /\ o = targets[m].off
        BY <2>1, Zenon
      <4> QED
        BY <2>3, <4>1
    <3>2. y \in Nat
      <4>1. PICK v \in Nat, o \in Nat : v = file.cmds[l].vmaddr /\ o = targets[n].off
        BY <2>2, Zenon
      <4> QED
        BY <2>4, <4>1
    <3> QED
      BY <1>1, <2>5, <3>1, <3>2
  <2>8. x = y
    BY <1>1, <2>6, <2>7, SlidIsApart, Zenon
  <2> QED
    BY <2>5, <2>8
<1>4. ASSUME NEW n \in 1 .. Len(b_list), Fit(n), NEW fx \in ProgramOf(file).payloads,
             NEW e \in Image!FixupsOf(fx)
      PROVE  FALSE
  <2>1. PICK j \in BindsCommands(file) : targets = file.cmds[j].targets /\ n \in 1 .. Len(targets)
    BY <1>4, BindHasTarget
  <2>2. targets # << >>
    BY <2>1
  <2>3. PICK l \in FixupsCommands(file) : fx = file.cmds[l].fixups
    BY <1>1, <1>4, PayloadOfCommand
  <2>4. fx \in FixupsPayload
    BY <1>1, <2>3, PayloadOfCommand
  <2>5. \A i \in 1 .. Len(fx.segs) : \A q \in 1 .. Len(fx.segs[i].chain) : fx.segs[i].chain[q] = << >>
    BY <1>2, <2>1, <2>2, <2>3 DEF BindsApart
  <2>6. PICK i \in DOMAIN fx.segs : \E q \in DOMAIN fx.segs[i].chain : DOMAIN fx.segs[i].chain[q] # {}
    BY <1>4 DEF Image!FixupsOf
  <2>7. i \in 1 .. Len(fx.segs) /\ DOMAIN fx.segs[i].chain = 1 .. Len(fx.segs[i].chain)
    <3>1. fx.segs \in Seq(StartsInSegment)
      BY <2>4 DEF FixupsPayload
    <3>2. i \in 1 .. Len(fx.segs) /\ fx.segs[i] \in StartsInSegment
      BY <2>6, <3>1
    <3> QED
      BY <3>2 DEF StartsInSegment
  <2>8. \A q \in DOMAIN fx.segs[i].chain : DOMAIN fx.segs[i].chain[q] = {}
    BY <2>5, <2>7
  <2> QED
    BY <2>6, <2>8
<1>5. DOMAIN b_list = 1 .. Len(b_list)
  BY <1>1
<1> QED
  BY <1>3, <1>4, <1>5 DEF PlacesApart, PlacesDiffer

(* For every linked program, every host and whatever mmap and dlopen answer: *)
(* no two binds do_bind goes through are for one place, and none is for that *)
(* of a chained fixup.                                                       *)
THEOREM PlacesApartHolds == MainSpec /\ LinkedProgram(file) => []PlacesApart
<1>1. MainInit /\ LinkedProgram(file) => MainTyped /\ WhileLoading /\ Placed
  BY MainTypedBegins, LoadReadyBegins, PlacedBegins
<1> QED
  BY <1>1, InvPlacesApart, MainStepsTyped, WhileLoadingStep, PlacedStep, PTL DEF MainSpec

----------------------------------------------------------------------------
(* The symbol of a bind without an addend is what its opcodes ask for. *)
LEMMA SymbolIsWhole ==
  ASSUME MainTyped, WhileLoading, WithoutAddends(file), Placed,
         NEW j \in 1 .. Len(b_list), Fit(j), NEW i \in Having(j, Len(d_list))
  PROVE  (Symbol(i, j) + targets[j].addend) % AddrMod = Symbol(i, j)
<1>1. targets[j].addend = 0
  <2>1. PICK l \in BindsCommands(file) : targets = file.cmds[l].targets /\ j \in 1 .. Len(targets)
    BY BindHasTarget
  <2>2. NoAddends(file.cmds[l].targets)
    BY DEF WithoutAddends
  <2> QED
    BY <2>1, <2>2 DEF NoAddends
<1>2. PICK M \in Nat \ {0} : M = AddrMod
  BY WidthAssumption
<1>3. PICK w \in 0 .. M - 1 : w = Symbol(i, j)
  <2>1. i \in 1 .. Len(d_list) /\ Opens(i) /\ BindingTypeOK
    BY DEF Having, MainTyped, MainTypeOK
  <2> QED
    BY <1>2, <2>1, SymbolType DEF Word
<1>4. (w + 0) % M = w
  BY <1>2, <1>3
<1> QED
  BY <1>1, <1>2, <1>3, <1>4

(* A final word. *)
LEMMA WholeIsFinal ==
  ASSUME MainTyped, WhileLoading, WithoutAddends(file), Placed, WholeInv, mpc = "entered", Handed,
         NEW a \in DOMAIN mem
  PROVE  IsFinal(a)
<1> DEFINE bound == {j \in DOMAIN b_list : Fit(j) /\ b_list[j].address = a}
<1>1. WholeIn(unbound) /\ OnlyPlacesDiffer /\ BindsAreCurrent /\ dpc = "return"
      /\ lib_i = Len(d_list) + 1 /\ PlacesApart
  BY InvPlacesApart DEF WholeInv
<1>2. /\ DOMAIN b_list = 1 .. Len(b_list) /\ Len(d_list) \in Nat
      /\ img_addr \in Nat /\ a \in Nat
  <2>1. b_list \in Seq(BindInfo) /\ d_list \in Seq(Dylibs) /\ ContextTypeOK
    BY DEF MainTyped, MainTypeOK, BindingTypeOK
  <2> QED
    BY <2>1, WidthAssumption DEF ContextTypeOK, Addr, Word
<1>3. CASE FixupsFor(a) # {}
  <2>1. bound = {}
    <3>1. PICK fx \in ProgramOf(file).payloads : \E e \in Image!FixupsOf(fx) : e.off = a - img_addr
      BY <1>3 DEF FixupsFor
    <3>2. PICK e \in Image!FixupsOf(fx) : e.off = a - img_addr
      BY <3>1
    <3>3. img_addr + e.off = a
      BY <1>2, <3>2
    <3> QED
      BY <1>1, <3>3 DEF PlacesApart
  <2>2. a \in DOMAIN unbound /\ mem[a] = unbound[a]
    BY <1>1, <2>1 DEF OnlyPlacesDiffer
  <2>3. LoadedWord(unbound, a)
    BY <1>1, <2>2 DEF WholeIn
  <2>4. \E fx \in ProgramOf(file).payloads : \E e \in FixupsFor(a) :
          e \in Image!FixupsOf(fx) /\ mem[a] = FormatValue(fx, img_addr, e.raw)
    BY <1>3, <2>2, <2>3 DEF LoadedWord
  <2>5. IsFinal(a) =
          CASE FixupsFor(a) # {} -> \E fx \in ProgramOf(file).payloads : \E e \in FixupsFor(a) :
                 e \in Image!FixupsOf(fx) /\ mem[a] = FormatValue(fx, img_addr, e.raw)
            [] bound # {} -> \A j \in bound : IsBoundWithAddend(j)
            [] OTHER -> mem[a] = FileWord(a - img_addr)
    BY DEF FixupsFor, IsFinal
  <2> HIDE DEF bound
  <2> QED
    BY <1>3, <2>1, <2>4, <2>5
<1>4. CASE FixupsFor(a) = {} /\ bound # {}
  <2>1. ASSUME NEW j \in bound PROVE IsBoundWithAddend(j)
    <3>1. Through(j) = Len(d_list)
      BY <1>1, <1>2 DEF Through
    <3>2. j \in 1 .. Len(b_list) /\ Fit(j)
      BY <1>2, <2>1
    <3>3. IsBoundBy(j, Len(d_list))
      BY <1>1, <3>1, <3>2 DEF BindsAreCurrent, PlacesApart
    <3>4. ASSUME NEW i \in Having(j, Len(d_list))
          PROVE  (Symbol(i, j) + targets[j].addend) % AddrMod = Symbol(i, j)
      BY <3>2, SymbolIsWhole
    <3> QED
      BY <3>3, <3>4 DEF IsBoundBy, IsBoundWithAddend
  <2> QED
    BY <1>4, <2>1 DEF FixupsFor, IsFinal
<1>5. CASE FixupsFor(a) = {} /\ bound = {}
  <2>1. a \in DOMAIN unbound /\ mem[a] = unbound[a]
    BY <1>1, <1>5 DEF OnlyPlacesDiffer
  <2>2. LoadedWord(unbound, a)
    BY <1>1, <2>1 DEF WholeIn
  <2> QED
    BY <1>5, <2>1, <2>2 DEF LoadedWord, FixupsFor, IsFinal
<1> QED
  BY <1>3, <1>4, <1>5

LEMMA WholeIsEntered ==
  ASSUME MainTyped, WhileLoading, WithoutAddends(file), Placed, WholeInv
  PROVE  EnteredWhole
<1> SUFFICES ASSUME mpc = "entered", Handed PROVE
      /\ \A k \in SegmentCommands : \A o \in DOMAIN file.cmds[k].words :
           Slid(file.cmds[k].vmaddr + o) \in DOMAIN mem
      /\ \A a \in DOMAIN mem : IsFinal(a)
      /\ EntryIsLast
  BY DEF EnteredWhole, Handed, EntryIsLast, SymbolTables, LastMain, IsMain
<1>1. WholeIn(unbound) /\ OnlyPlacesDiffer /\ EntryIsLast
  BY DEF WholeInv
<1>2. ASSUME NEW k \in SegmentCommands, NEW o \in DOMAIN file.cmds[k].words
      PROVE  Slid(file.cmds[k].vmaddr + o) \in DOMAIN mem
  BY <1>1 DEF WholeIn, OnlyPlacesDiffer
<1> QED
  BY <1>1, <1>2, WholeIsFinal

(* For every linked program, every host and whatever mmap and dlopen answer: *)
(* when every segment was mapped and recorded, the program is entered with   *)
(* every word of the file in memory, each with what the fixups, the binds or *)
(* the file make of it, and at its last _main.                               *)
THEOREM EnteredWholeHolds ==
  MainSpec /\ LinkedProgram(file) /\ WithoutAddends(file) => []EnteredWhole
<1>1. MainInit => MainTyped /\ MainInv
  BY MainTypedBegins, MainBegins
<1>2. MainInit /\ LinkedProgram(file) => WhileLoading /\ Placed /\ WholeInv
  <2>1. MainInit => WholeInv
    BY DEF MainInit, WholeInv
  <2> QED
    BY <2>1, LoadReadyBegins, PlacedBegins
<1>3. MainInv /\ [MainNext]_main_vars => MainInv'
  BY MainPromise
<1>4. WithoutAddends(file) /\ [MainNext]_main_vars => WithoutAddends(file)'
  BY MainFileStays DEF WithoutAddends, BindsCommands, NoAddends
<1>5. MainTyped /\ WhileLoading /\ WithoutAddends(file) /\ Placed /\ WholeInv => EnteredWhole
  BY WholeIsEntered
<1> QED
  BY <1>1, <1>2, <1>3, <1>4, <1>5, MainStepsTyped, WhileLoadingStep, PlacedStep, WholeStep,
     PTL DEF MainSpec
=============================================================================
