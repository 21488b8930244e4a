---------------------------- MODULE LoaderProofs ----------------------------
(***************************************************************************)
(* Proofs about both loaders, for every file, whatever the host and the    *)
(* interpreters they run in between do: the walk stays on the commands,    *)
(* every state is well typed, and the 32-bit loader has the head of the    *)
(* file in memory, with the entry point in it.                             *)
(***************************************************************************)
EXTENDS Loader32, ChainedFixupsProofs, BindOpcodesProofs

(* The inductive invariant of both walks, in a file of that many bits: ptr  *)
(* is where the command c_load_command counts starts, and while a command's *)
(* interpreter runs the walk stands at that command.                        *)
Walk(bits) ==
  /\ file \in Files /\ Bits(file) = bits
  /\ c_load_command \in 0 .. Len(file.cmds)
  /\ lpc = "header" => c_load_command = 0
  /\ lpc \in {"fixups", "binds"} => c_load_command < Len(file.cmds)
  /\ PtrAtCommand

----------------------------------------------------------------------------
(* What is read at the place of command k is command k. *)
LEMMA CommandIsThere ==
  ASSUME NEW f \in Files, NEW k \in 1 .. Len(f.cmds), f = file
  PROVE  CommandAt(f.cmds[k].off) = f.cmds[k]
<1> DEFINE cmds == file.cmds
<1>1. /\ DOMAIN cmds = 1 .. Len(cmds)
      /\ \A j, l \in 1 .. Len(cmds) : cmds[l].off = cmds[j].off => j = l
  BY FilesAssumption DEF IsFile, LaidOut
<1>2. \A j \in DOMAIN cmds : cmds[j].off = cmds[k].off => j = k
  BY <1>1
<1>3. (CHOOSE j \in DOMAIN cmds : cmds[j].off = cmds[k].off) = k
  BY <1>1, <1>2
<1> QED
  BY <1>3 DEF CommandAt

(* The walk stands at command c_load_command + 1. *)
LEMMA AtTheCommand ==
  ASSUME NEW bits, Walk(bits), lpc \notin {"header", "refused"},
         c_load_command < Len(file.cmds)
  PROVE  /\ c_load_command + 1 \in 1 .. Len(file.cmds)
         /\ Len(file.cmds) \in Nat
         /\ ptr = file.cmds[c_load_command + 1].off
         /\ command = file.cmds[c_load_command + 1]
         /\ IsCommand(command)
<1>1. Len(file.cmds) \in Nat
  BY FilesAssumption DEF Walk, IsFile
<1>2. c_load_command + 1 \in 1 .. Len(file.cmds)
  BY <1>1 DEF Walk
<1>3. ptr = file.cmds[c_load_command + 1].off
  BY DEF Walk, PtrAtCommand
<1>4. command = file.cmds[c_load_command + 1]
  BY <1>2, <1>3, CommandIsThere DEF Walk, command
<1>5. IsCommand(command)
  BY <1>2, <1>4, FilesAssumption DEF Walk, IsFile
<1> QED
  BY <1>1, <1>2, <1>3, <1>4, <1>5

(* One command on, by the size the command states. *)
LEMMA NextKeepsWalk ==
  ASSUME NEW bits, Walk(bits), lpc \notin {"header", "refused"},
         c_load_command < Len(file.cmds),
         ptr' = ptr + command.cmdsize, c_load_command' = c_load_command + 1,
         file' = file, lpc' \notin {"header", "fixups", "binds"}
  PROVE  Walk(bits)'
<1>1. /\ c_load_command + 1 \in 1 .. Len(file.cmds) /\ Len(file.cmds) \in Nat
      /\ ptr = file.cmds[c_load_command + 1].off
      /\ command = file.cmds[c_load_command + 1]
  BY AtTheCommand
<1>2. file' \in Files /\ Bits(file)' = bits
  BY DEF Walk, Bits
<1>3. (c_load_command \in 0 .. Len(file.cmds))'
  BY <1>1
<1>4. ASSUME c_load_command' < Len(file'.cmds)
      PROVE  ptr' = file'.cmds[c_load_command' + 1].off
  <2> DEFINE k == c_load_command + 1
  <2>1. k \in 1 .. Len(file.cmds) - 1
    BY <1>1, <1>4
  <2>2. file.cmds[k + 1].off = file.cmds[k].off + file.cmds[k].cmdsize
    BY <2>1, FilesAssumption DEF Walk, IsFile, LaidOut
  <2> QED
    BY <1>1, <2>2
<1> QED
  BY <1>2, <1>3, <1>4 DEF Walk, PtrAtCommand

(* Over the structures of a segment command and its sections, which are its *)
(* whole size.                                                              *)
LEMMA SegmentsAreWhole ==
  ASSUME NEW bits \in {32, 64}, Walk(bits), lpc = "command", c_load_command < Len(file.cmds),
         command.cmd = IF bits = 64 THEN "LC_SEGMENT_64" ELSE "LC_SEGMENT"
  PROVE  AfterSegment = ptr + command.cmdsize
<1>1. IsSegment(command, bits)
  BY AtTheCommand DEF IsCommand, segment_command, segment_command_64
<1>2. command.cmdsize = SizeofSegmentCommand(bits) + command.nsects * SizeofSection(bits)
      /\ command.nsects \in Nat
  BY <1>1 DEF IsSegment, segment_command_size
<1>3. Bits(file) = bits
  BY DEF Walk
<1>4. CASE command.nsects = 0
  BY <1>4 DEF AfterSegment
<1>5. CASE command.nsects # 0
  <2>1. AfterSegment = ptr + (SizeofSegmentCommand(bits) + command.nsects * SizeofSection(bits))
    BY <1>3, <1>5 DEF AfterSegment
  <2> QED
    BY <1>2, <2>1
<1> QED
  BY <1>4, <1>5

(* The header: the first command lies behind it. *)
LEMMA HeaderBeginsWalk ==
  ASSUME NEW bits, Walk(bits), ReadHeader
  PROVE  Walk(bits)'
<1> USE DEF ReadHeader
<1>1. lpc = "header" /\ c_load_command = 0 /\ c_load_command' = 0 /\ file' = file
  BY DEF Walk
<1>2. Len(file.cmds) \in Nat
  BY FilesAssumption DEF Walk, IsFile
<1>3. lpc' \in {"command", "refused"}
  OBVIOUS
<1>4. ASSUME lpc' = "command", 0 < Len(file.cmds)
      PROVE  ptr' = file.cmds[1].off
  <2>1. file.cmds[1].off = SizeofMachHeader(Bits(file))
    BY <1>2, <1>4, FilesAssumption DEF Walk, IsFile, LaidOut
  <2> QED
    BY <1>1, <1>4, <2>1
<1> QED
  BY <1>1, <1>2, <1>3, <1>4 DEF Walk, PtrAtCommand, Bits

(* A step that leaves the walk where it is, at a command. *)
LEMMA StayKeepsWalk ==
  ASSUME NEW bits, Walk(bits), UNCHANGED <<file, ptr, c_load_command>>,
         \/ lpc' = lpc
         \/ lpc = "command" /\ lpc' = "crashed"
         \/ lpc = "command" /\ lpc' \in {"done", "refused"}
         \/ lpc = "command" /\ lpc' \in {"fixups", "binds"} /\ c_load_command < Len(file.cmds)
  PROVE  Walk(bits)'
BY DEF Walk, PtrAtCommand, Bits

----------------------------------------------------------------------------
LEMMA Loader64Walks ==
  ASSUME Walk(64), [LoaderNext]_loader_vars
  PROVE  Walk(64)'
<1>1. CASE ReadHeader
  BY <1>1, HeaderBeginsWalk
<1>2. CASE EndCommands
  BY <1>2, StayKeepsWalk DEF EndCommands
<1>3. CASE LoadSegment
  <2>1. /\ lpc = "command" /\ c_load_command < Len(file.cmds)
        /\ command.cmd = "LC_SEGMENT_64"
        /\ ptr' = AfterSegment /\ c_load_command' = c_load_command + 1
        /\ file' = file /\ lpc' = lpc
    BY <1>3 DEF LoadSegment, AtCommand
  <2>2. AfterSegment = ptr + command.cmdsize
    BY <2>1, SegmentsAreWhole
  <2> QED
    BY <2>1, <2>2, NextKeepsWalk
<1>4. CASE FindMain \/ LoadDylib \/ PassCommand
  <2>1. /\ lpc = "command" /\ c_load_command < Len(file.cmds)
        /\ NextCommand /\ file' = file /\ lpc' = lpc
    BY <1>4 DEF FindMain, LoadDylib, PassCommand, AtCommand
  <2> QED
    BY <2>1, NextKeepsWalk DEF NextCommand
<1>5. CASE CallFixups
  BY <1>5, StayKeepsWalk DEF CallFixups, AtCommand
<1>6. CASE RunFixups \/ RunBinds
  BY <1>6, StayKeepsWalk DEF RunFixups, RunBinds, loader_state
<1>7. CASE ReturnFixups \/ ReturnBinds
  <2>1. /\ lpc \in {"fixups", "binds"} /\ lpc' = "command" /\ NextCommand /\ file' = file
    BY <1>7 DEF ReturnFixups, ReturnBinds
  <2> QED
    BY <2>1, NextKeepsWalk DEF NextCommand, Walk
<1>8. CASE CallBinds
  BY <1>8, StayKeepsWalk DEF CallBinds, AtCommand
<1>9. CASE UNCHANGED loader_vars
  BY <1>9, StayKeepsWalk DEF loader_vars, loader_state
<1> QED
  BY <1>1, <1>2, <1>3, <1>4, <1>5, <1>6, <1>7, <1>8, <1>9 DEF LoaderNext, LoaderStep, Loaded

LEMMA Loader32Walks ==
  ASSUME Walk(32), [Loader32Next]_loader_vars
  PROVE  Walk(32)'
<1>1. CASE ReadHeader
  BY <1>1, HeaderBeginsWalk
<1>2. CASE EndCommands32 \/ CrashInText
  BY <1>2, StayKeepsWalk DEF EndCommands32, CrashInText, AtText, AtCommand
<1>3. CASE LoadText \/ LoadOther
  <2>1. /\ lpc = "command" /\ c_load_command < Len(file.cmds)
        /\ command.cmd = "LC_SEGMENT"
        /\ ptr' = AfterSegment /\ c_load_command' = c_load_command + 1
        /\ file' = file /\ lpc' = lpc
    BY <1>3 DEF LoadText, LoadOther, AtText, AtCommand, AfterLoadSegment
  <2>2. AfterSegment = ptr + command.cmdsize
    BY <2>1, SegmentsAreWhole
  <2> QED
    BY <2>1, <2>2, NextKeepsWalk
<1>4. CASE FindMain32 \/ LoadDylib32 \/ PassCommand32
  <2>1. /\ lpc = "command" /\ c_load_command < Len(file.cmds)
        /\ NextCommand /\ file' = file /\ lpc' = lpc
    BY <1>4 DEF FindMain32, LoadDylib32, FindMain, LoadDylib, PassCommand32, AtCommand
  <2> QED
    BY <2>1, NextKeepsWalk DEF NextCommand
<1>5. CASE CallBinds32
  BY <1>5, StayKeepsWalk DEF CallBinds32, CallBinds, AtCommand
<1>6. CASE RunBinds
  BY <1>6, StayKeepsWalk DEF RunBinds, loader_state
<1>7. CASE ReturnBinds
  <2>1. /\ lpc = "binds" /\ lpc' = "command" /\ NextCommand /\ file' = file
    BY <1>7 DEF ReturnBinds
  <2> QED
    BY <2>1, NextKeepsWalk DEF NextCommand, Walk
<1>8. CASE UNCHANGED loader_vars
  BY <1>8, StayKeepsWalk DEF loader_vars, loader_state
<1> QED
  BY <1>1, <1>2, <1>3, <1>4, <1>5, <1>6, <1>7, <1>8 DEF Loader32Next, Loader32Step, Loaded32

LEMMA WalkBegins ==
  ASSUME LoaderInit
  PROVE  Walk(Bits(file))
<1>1. Len(file.cmds) \in Nat
  BY FilesAssumption DEF LoaderInit, IsFile
<1> QED
  BY <1>1 DEF LoaderInit, Walk, PtrAtCommand

----------------------------------------------------------------------------
(* loader_64 is always at a command of the file or behind the last one, so  *)
(* the two ways its loop moves on, by the structures it reads and by the    *)
(* size the command states, agree for every file.                           *)
THEOREM Loader64OnCommands == LoaderSpec => []PtrAtCommand
<1>1. Loader64Init => Walk(64)
  BY WalkBegins DEF Loader64Init
<1>2. Walk(64) /\ [LoaderNext]_loader_vars => Walk(64)'
  BY Loader64Walks
<1>3. Walk(64) => PtrAtCommand
  BY DEF Walk
<1> QED
  BY <1>1, <1>2, <1>3, PTL DEF LoaderSpec

(* The same of loader, the walk of a 32-bit file, up to where it crashes. *)
THEOREM Loader32OnCommands == Loader32Spec => []PtrAtCommand
<1>1. Loader32Init => Walk(32)
  BY WalkBegins DEF Loader32Init
<1>2. Walk(32) /\ [Loader32Next]_loader_vars => Walk(32)'
  BY Loader32Walks
<1>3. Walk(32) => PtrAtCommand
  BY DEF Walk
<1> QED
  BY <1>1, <1>2, <1>3, PTL DEF Loader32Spec

----------------------------------------------------------------------------
(* The types of both walks.                                                *)

LEMMA MinIsLeast ==
  ASSUME NEW T, T \subseteq Nat, T # {}
  PROVE  Min(T) \in T /\ \A y \in T : Min(T) <= y
  BY LeastNatural DEF Min

LEMMA MaxIsGreatest ==
  ASSUME NEW T, T \subseteq Nat, T # {}, NEW n \in Nat, \A x \in T : x <= n
  PROVE  Max(T) \in T /\ \A y \in T : y <= Max(T)
  <1> DEFINE under(x) == n - x
  <1>1. \A x \in T : under(x) \in Nat
    OBVIOUS
  <1> HIDE DEF under
  <1>2. {under(x) : x \in T} \subseteq Nat /\ {under(x) : x \in T} # {}
    BY <1>1
  <1>3. PICK least \in {under(x) : x \in T} : \A u \in {under(x) : x \in T} : least <= u
    BY <1>2, MinIsLeast
  <1>4. PICK x \in T : least = under(x)
    BY <1>3
  <1>5. \A y \in T : under(x) <= under(y)
    BY <1>3, <1>4
  <1>6. \A y \in T : y <= x
    BY <1>5 DEF under
  <1> QED
    BY <1>6 DEF Max

Typed(bits) == Walk(bits) /\ LoaderTypeOK /\ SegmentInRange

(* A step that has nothing to do with the two interpreters. *)
LEMMA InterpretersTyped ==
  ASSUME LoaderTypeOK, SegmentInRange, ContextTypeOK', UNCHANGED <<b_list, fixups_state, binds_state>>
  PROVE  FixupsTypeOK' /\ BindsTypeOK' /\ SegmentInRange'
  <1>1. FixupsTypeOK' /\ SegmentInRange'
    BY DEF LoaderTypeOK, FixupsTypeOK, SegmentInRange, fixups_state, cursor, counters
  <1>2. stream' = stream
    BY DEF binds_state, stream
  <1>3. BindsTypeOK'
    BY <1>2 DEF LoaderTypeOK, BindsTypeOK, binds_state, registers, times
  <1> QED
    BY <1>1, <1>3

(* The segment command the walk is at. *)
LEMMA SegmentTyped ==
  ASSUME NEW bits \in {32, 64}, Walk(bits), NEW cmd \in {"LC_SEGMENT", "LC_SEGMENT_64"}, AtCommand({cmd})
  PROVE  /\ command.segname \in SegmentNames /\ command.vmaddr \in Addr /\ command.vmsize \in Nat
         /\ \A o \in DOMAIN command.words : o \in Nat /\ command.words[o] \in Word
  <1>1. IsCommand(command) /\ command.cmd = cmd
    BY AtTheCommand DEF AtCommand
  <1> QED
    BY <1>1 DEF IsCommand, segment_command, segment_command_64, IsSegment

LEMMA RecordTyped ==
  ASSUME ContextTypeOK, RecordSegment, img_addr' \in Addr, v_addr' \in Addr,
         command.segname \in SegmentNames, command.vmaddr \in Addr, command.vmsize \in Nat
  PROVE  segments' \in Seq(SegmentInfo) /\ Len(segments') <= MaxSegments
  <1>1. MappedAddr \in Addr
    <2>1. PICK b \in Addr : img_addr' = b
      OBVIOUS
    <2>2. PICK v \in Addr : v_addr' = v
      OBVIOUS
    <2>3. PICK a \in Addr : command.vmaddr = a
      OBVIOUS
    <2>4. (img_addr' + command.vmaddr - v_addr') % AddrMod \in Addr
      <3>1. ((b + a) - v) % AddrMod \in Addr
        BY WidthAssumption DEF Addr, Word
      <3> QED
        BY <2>1, <2>2, <2>3, <3>1, WidthAssumption DEF Addr, Word
    <2>5. Null \in Addr
      BY WidthAssumption DEF Addr, Word, Null
    <2>6. MappedAddr \in {Null, img_addr', (img_addr' + command.vmaddr - v_addr') % AddrMod}
      BY Zenon DEF MappedAddr
    <2> QED
      BY <2>4, <2>5, <2>6
  <1> HIDE DEF MappedAddr
  <1>2. segments \in Seq(SegmentInfo) /\ Len(segments) <= MaxSegments /\ MaxSegments \in Nat
    BY LimitAssumption DEF ContextTypeOK
  <1> DEFINE entry == [segname |-> command.segname, vmaddr |-> command.vmaddr,
                       vmsize |-> command.vmsize, mapped_addr |-> MappedAddr]
  <1>3. entry \in SegmentInfo
    BY <1>1 DEF SegmentInfo
  <1>4. segments' = IF Len(segments) < MaxSegments THEN Append(segments, entry) ELSE segments
    BY DEF RecordSegment
  <1> HIDE DEF entry
  <1> QED
    BY <1>2, <1>3, <1>4

(* A step over a segment command, if what it leaves in memory is words.     *)
LEMMA SegmentKeepsTypes ==
  ASSUME NEW bits \in {32, 64}, Typed(bits), Walk(bits)', NEW cmd \in {"LC_SEGMENT", "LC_SEGMENT_64"},
         AtCommand({cmd}), RecordSegment, img_addr' \in Addr, v_addr' \in Addr,
         DOMAIN mem' \subseteq Nat, \A a \in DOMAIN mem' : mem'[a] \in Word,
         ptr' \in Nat,
         UNCHANGED <<lists, file, lpc, entry_point, fixups_state, binds_state>>
  PROVE  Typed(bits)'
  <1>1. ContextTypeOK
    BY DEF Typed, LoaderTypeOK, FixupsTypeOK
  <1>2. ContextTypeOK'
    <2>1. Walk(bits)
      BY DEF Typed
    <2>2. command.segname \in SegmentNames /\ command.vmaddr \in Addr /\ command.vmsize \in Nat
      BY <2>1, SegmentTyped, Zenon
    <2>3. segments' \in Seq(SegmentInfo) /\ Len(segments') <= MaxSegments
      BY <1>1, <2>2, RecordTyped, Zenon
    <2> QED
      BY <2>3 DEF ContextTypeOK
  <1>3. FixupsTypeOK' /\ BindsTypeOK' /\ SegmentInRange'
    BY <1>2, InterpretersTyped DEF Typed, lists
  <1> QED
    BY <1>3 DEF Typed, LoaderTypeOK, Walk, lists

LEMMA EnsureTyped ==
  ASSUME file \in Files, ContextTypeOK, v_addr \in Addr, EnsureImageMapping
  PROVE  img_addr' \in Addr /\ v_addr' \in Addr
  <1>1. CASE UNCHANGED <<img_addr, v_addr>>
    BY <1>1 DEF ContextTypeOK
  <1>2. CASE MappingWanted /\ img_addr' \in HostBases /\ v_addr' = min_vmaddr(file)
    <2>1. \A k \in Mappable(file) : file.cmds[k].vmaddr \in Addr
      <3> SUFFICES ASSUME NEW k \in Mappable(file) PROVE file.cmds[k].vmaddr \in Addr
        OBVIOUS
      <3>1. IsCommand(file.cmds[k]) /\ file.cmds[k].cmd = "LC_SEGMENT_64"
        BY FilesAssumption DEF Mappable, IsFile
      <3> QED
        BY <3>1 DEF IsCommand, segment_command_64, IsSegment
    <2>2. Mappable(file) # {}
      BY <1>2 DEF MappingWanted
    <2> DEFINE T == {file.cmds[k].vmaddr : k \in Mappable(file)}
    <2>3. T \subseteq Addr /\ T # {}
      BY <2>1, <2>2
    <2>4. T \subseteq Nat
      BY <2>3, WidthAssumption DEF Addr, Word
    <2> HIDE DEF T
    <2>5. Min(T) \in Addr
      BY <2>3, <2>4, MinIsLeast
    <2>6. v_addr' \in Addr
      BY <1>2, <2>5 DEF min_vmaddr, T
    <2> QED
      BY <1>2, <2>6, HostAssumption
  <1> QED
    BY <1>1, <1>2 DEF EnsureImageMapping

LEMMA CopyTyped ==
  ASSUME ContextTypeOK, img_addr' \in Addr, v_addr' \in Addr, command.vmaddr \in Addr,
         \A o \in DOMAIN command.words : o \in Nat /\ command.words[o] \in Word,
         CopySegment
  PROVE  DOMAIN mem' \subseteq Nat /\ \A a \in DOMAIN mem' : mem'[a] \in Word
  <1> DEFINE dest == (img_addr' + command.vmaddr - v_addr') % AddrMod
             copied == {dest + o : o \in DOMAIN command.words}
             copy == [a \in DOMAIN mem \cup copied |->
                        IF a \in copied THEN command.words[a - dest] ELSE mem[a]]
  <1>1. DOMAIN mem \subseteq Nat /\ \A a \in DOMAIN mem : mem[a] \in Word
    BY DEF ContextTypeOK
  <1>2. dest \in Nat
    BY WidthAssumption DEF Addr, Word
  <1>3. mem' = mem \/ mem' = copy
    <2> DEFINE there == /\ command.segname # "__PAGEZERO" /\ command.filesize # 0
                        /\ img_addr' # Null /\ v_addr' # Null
    <2>1. CASE there
      BY <2>1 DEF CopySegment
    <2>2. CASE ~there
      BY <2>2 DEF CopySegment
    <2> QED
      BY <2>1, <2>2
  <1> HIDE DEF dest
  <1>4. copied \subseteq Nat
    BY <1>2
  <1>5. ASSUME NEW a \in copied PROVE command.words[a - dest] \in Word
    <2>1. PICK o \in DOMAIN command.words : a = dest + o
      OBVIOUS
    <2>2. a - dest = o
      BY <1>2, <2>1
    <2> QED
      BY <2>2
  <1> HIDE DEF copied
  <1> QED
    BY <1>1, <1>3, <1>4, <1>5

LEMMA HeadTyped ==
  ASSUME file \in Files, NEW n
  PROVE  \A q \in DOMAIN FileHead(n) : q \in Nat /\ FileHead(n)[q] \in Word
  <1> SUFFICES ASSUME NEW q \in DOMAIN FileHead(n) PROVE q \in Nat /\ FileHead(n)[q] \in Word
    OBVIOUS
  <1> DEFINE k == CHOOSE j \in SegmentCommands : q \in WordsAt(j, n)
  <1>1. \E j \in SegmentCommands : q \in WordsAt(j, n)
    BY DEF FileHead
  <1>2. k \in SegmentCommands /\ q \in WordsAt(k, n)
    BY <1>1
  <1>3. FileHead(n)[q] = file.cmds[k].words[q - file.cmds[k].fileoff]
    BY DEF FileHead
  <1> HIDE DEF k
  <1>4. PICK o \in DOMAIN file.cmds[k].words : q = file.cmds[k].fileoff + o
    BY <1>2 DEF WordsAt
  <1>5. IsCommand(file.cmds[k]) /\ file.cmds[k].cmd \in {"LC_SEGMENT", "LC_SEGMENT_64"}
    BY <1>2, FilesAssumption DEF SegmentCommands, SegmentsOf, IsFile
  <1>6. file.cmds[k].fileoff \in Nat /\ o \in Nat /\ file.cmds[k].words[o] \in Word
    BY <1>5 DEF IsCommand, segment_command, segment_command_64, IsSegment
  <1>7. q - file.cmds[k].fileoff = o
    BY <1>4, <1>6
  <1> QED
    BY <1>3, <1>4, <1>6, <1>7

LEMMA CopyHeadTyped ==
  ASSUME file \in Files, ContextTypeOK, img_addr' \in Addr, CopyHead
  PROVE  DOMAIN mem' \subseteq Nat /\ \A a \in DOMAIN mem' : mem'[a] \in Word
  <1> DEFINE head == FileHead(HeadSize)
  <1>1. \A q \in DOMAIN head : q \in Nat /\ head[q] \in Word
    BY HeadTyped
  <1> HIDE DEF head
  <1>2. DOMAIN mem \subseteq Nat /\ \A a \in DOMAIN mem : mem[a] \in Word
    BY DEF ContextTypeOK
  <1>3. mem' = [a \in DOMAIN mem \cup {img_addr' + q : q \in DOMAIN head} |->
                  IF a - img_addr' \in DOMAIN head THEN head[a - img_addr'] ELSE mem[a]]
    BY DEF CopyHead, head
  <1>4. PICK b \in Nat : img_addr' = b
    BY WidthAssumption DEF Addr, Word
  <1>5. \A q \in DOMAIN head : b + q \in Nat /\ (b + q) - b = q
    BY <1>1, <1>4
  <1>6. {b + q : q \in DOMAIN head} \subseteq Nat
    BY <1>5
  <1>7. ASSUME NEW a \in {b + q : q \in DOMAIN head} PROVE a - b \in DOMAIN head
    BY <1>5
  <1>8. DOMAIN mem' = DOMAIN mem \cup {b + q : q \in DOMAIN head}
    BY <1>3, <1>4
  <1>9. \A a \in DOMAIN mem' : mem'[a] = IF a - b \in DOMAIN head THEN head[a - b] ELSE mem[a]
    BY <1>3, <1>4
  <1> QED
    BY <1>1, <1>2, <1>6, <1>7, <1>8, <1>9

(* The step over a symbol table. *)
LEMMA FindMainTyped ==
  ASSUME NEW bits \in {32, 64}, Typed(bits), FindMain
  PROVE  entry_point' \in Addr
  <1> DEFINE mains == {n \in DOMAIN command.syms : command.syms[n].name = "_main"}
  <1>1. IsCommand(command) /\ command.cmd = "LC_SYMTAB"
    BY AtTheCommand DEF Typed, FindMain, AtCommand
  <1>2. /\ Len(command.syms) \in Nat /\ DOMAIN command.syms = 1 .. Len(command.syms)
        /\ \A n \in DOMAIN command.syms : command.syms[n].n_value \in Addr
    BY <1>1 DEF IsCommand, symtab_command, nlist
  <1>3. entry_point' = IF mains = {} THEN entry_point ELSE Slid(command.syms[Max(mains)].n_value)
    BY DEF FindMain
  <1>4. CASE mains = {}
    BY <1>3, <1>4 DEF Typed, LoaderTypeOK
  <1>5. CASE mains # {}
    <2>1. mains \subseteq DOMAIN command.syms
      OBVIOUS
    <2> HIDE DEF mains
    <2>2. PICK n \in Nat : DOMAIN command.syms = 1 .. n
      BY <1>2
    <2>3. mains \subseteq Nat /\ \A x \in mains : x <= n
      BY <2>1, <2>2
    <2>4. Max(mains) \in mains
      BY <1>5, <2>3, MaxIsGreatest
    <2>5. PICK a \in Addr : command.syms[Max(mains)].n_value = a
      BY <1>2, <2>1, <2>4
    <2>6. img_addr \in Addr /\ v_addr \in Addr
      BY DEF Typed, LoaderTypeOK, FixupsTypeOK, ContextTypeOK
    <2>7. ((img_addr + a) - v_addr) % AddrMod \in Addr
      BY <2>6, WidthAssumption DEF Addr, Word
    <2>8. Slid(command.syms[Max(mains)].n_value) \in Addr
      BY <2>5, <2>6, <2>7, WidthAssumption DEF Slid, Addr, Word
    <2>9. entry_point' = Slid(command.syms[Max(mains)].n_value)
      BY <1>3, <1>5
    <2> QED
      BY <2>8, <2>9
  <1> QED
    BY <1>4, <1>5

(* The steps both loaders have, or that touch nothing they share.           *)
CommonStep ==
  \/ ReadHeader \/ EndCommands \/ EndCommands32 \/ CrashInText
  \/ FindMain \/ LoadDylib \/ PassCommand \/ PassCommand32
  \/ ReturnFixups \/ ReturnBinds

LEMMA CommonStepTyped ==
  ASSUME NEW bits \in {32, 64}, Typed(bits), Walk(bits)', CommonStep
  PROVE  Typed(bits)'
  <1>1. /\ UNCHANGED <<img_addr, segments, mem, b_list, fixups_state, binds_state, v_addr>>
        /\ file' = file
    BY DEF CommonStep, ReadHeader, EndCommands, EndCommands32, CrashInText, FindMain, LoadDylib,
           PassCommand, PassCommand32, ReturnFixups, ReturnBinds, context, lists
  <1>2. ContextTypeOK'
    BY <1>1 DEF Typed, LoaderTypeOK, FixupsTypeOK, ContextTypeOK
  <1>3. FixupsTypeOK' /\ BindsTypeOK' /\ SegmentInRange'
    BY <1>1, <1>2, InterpretersTyped DEF Typed
  <1>4. lpc' \in {"header", "command", "fixups", "binds", "done", "refused", "crashed"}
    BY DEF CommonStep, ReadHeader, EndCommands, EndCommands32, CrashInText, FindMain, LoadDylib,
           PassCommand, PassCommand32, ReturnFixups, ReturnBinds, Typed, LoaderTypeOK
  <1>5. ptr' \in Nat
    <2>1. CASE NextCommand /\ lpc \notin {"header", "refused"} /\ c_load_command < Len(file.cmds)
      <3>1. command.cmdsize \in Nat
        BY <2>1, AtTheCommand DEF Typed, IsCommand, load_command
      <3> QED
        BY <2>1, <3>1 DEF NextCommand, Typed, LoaderTypeOK
    <2>2. CASE ptr' = ptr \/ ptr' = SizeofMachHeader(Bits(file))
      BY <2>2 DEF Typed, LoaderTypeOK, SizeofMachHeader
    <2> QED
      BY <2>1, <2>2 DEF CommonStep, ReadHeader, EndCommands, EndCommands32, CrashInText, FindMain,
         LoadDylib, PassCommand, PassCommand32, ReturnFixups, ReturnBinds, AtCommand, Typed, Walk
  <1>6. entry_point' \in Addr
    <2>1. CASE FindMain
      BY <2>1, FindMainTyped
    <2>2. CASE entry_point' = entry_point
      BY <2>2 DEF Typed, LoaderTypeOK
    <2> QED
      BY <2>1, <2>2 DEF CommonStep, ReadHeader, EndCommands, EndCommands32, CrashInText,
         LoadDylib, PassCommand, PassCommand32, ReturnFixups, ReturnBinds
  <1>7. d_list' \in Seq(Dylibs)
    <2>1. CASE LoadDylib
      <3>1. IsCommand(command) /\ command.cmd = "LC_LOAD_DYLIB"
        BY <2>1, AtTheCommand DEF Typed, LoadDylib, AtCommand
      <3>2. command.dylib \in Dylibs
        BY <3>1 DEF IsCommand, dylib_command
      <3> QED
        BY <2>1, <3>2 DEF LoadDylib, Typed, LoaderTypeOK
    <2>2. CASE d_list' = d_list
      BY <2>2 DEF Typed, LoaderTypeOK
    <2> QED
      BY <2>1, <2>2 DEF CommonStep, ReadHeader, EndCommands, EndCommands32, CrashInText, FindMain,
         PassCommand, PassCommand32, ReturnFixups, ReturnBinds, context, lists
  <1> QED
    BY <1>1, <1>3, <1>4, <1>5, <1>6, <1>7 DEF Typed, LoaderTypeOK, Walk

LEMMA CallTyped ==
  ASSUME NEW bits \in {32, 64}, Typed(bits), Walk(bits)', CallFixups \/ CallBinds
  PROVE  Typed(bits)'
  <1>1. IsCommand(command) /\ command.cmd \in {"LC_DYLD_CHAINED_FIXUPS", "LC_DYLD_INFO"}
    BY AtTheCommand DEF Typed, CallFixups, CallBinds, AtCommand
  <1>2. UNCHANGED <<context, file, ptr, c_load_command, v_addr, entry_point>>
    BY DEF CallFixups, CallBinds
  <1>3. ContextTypeOK'
    BY <1>2 DEF Typed, LoaderTypeOK, FixupsTypeOK, ContextTypeOK, context
  <1>4. lpc' \in {"fixups", "binds"}
    BY DEF CallFixups, CallBinds
  <1>5. FixupsTypeOK' /\ BindsTypeOK' /\ SegmentInRange'
    <2>1. CASE CallFixups
      <3>1. fixups' \in FixupsPayload
        BY <1>1, <2>1 DEF CallFixups, AtCommand, IsCommand, linkedit_data_command
      <3>2. FixupsTypeOK' /\ SegmentInRange'
        BY <1>3, <2>1, <3>1 DEF CallFixups, Typed, LoaderTypeOK, FixupsTypeOK, SegmentInRange,
           cursor, counters
      <3>3. stream' = stream
        BY <2>1 DEF CallFixups, binds_state, stream
      <3>4. BindsTypeOK'
        BY <1>2, <1>3, <2>1, <3>3 DEF CallFixups, Typed, LoaderTypeOK, BindsTypeOK, binds_state,
           registers, times, context, lists
      <3> QED
        BY <3>2, <3>4
    <2>2. CASE CallBinds
      <3>1. FixupsTypeOK' /\ SegmentInRange'
        BY <1>3, <2>2 DEF CallBinds, Typed, LoaderTypeOK, FixupsTypeOK, SegmentInRange,
           fixups_state, cursor, counters
      <3>2. streams' \in Seq(Seq(StreamItem)) /\ Len(streams') = 2
        BY <1>1, <2>2 DEF CallBinds, AtCommand, IsCommand, dyld_info_command
      <3>3. BindsTypeOK'
        BY <1>3, <2>2, <3>2 DEF CallBinds, Typed, LoaderTypeOK, BindsTypeOK, registers, times
      <3> QED
        BY <3>1, <3>3
    <2> QED
      BY <2>1, <2>2
  <1> QED
    BY <1>2, <1>4, <1>5 DEF Typed, LoaderTypeOK, Walk, context, lists

LEMMA RunTyped ==
  ASSUME NEW bits \in {32, 64}, Typed(bits), Walk(bits)', RunFixups \/ RunBinds
  PROVE  Typed(bits)'
  <1>1. UNCHANGED loader_state
    BY DEF RunFixups, RunBinds
  <1>2. CASE RunFixups
    <2>1. FixupsTypeOK' /\ SegmentInRange'
      BY <1>2, StepTypeOK DEF RunFixups, FixupsNext, Typed, LoaderTypeOK
    <2>2. UNCHANGED <<lists, binds_state>>
      BY <1>2 DEF RunFixups, FixupsStep, BeginFixups, SkipSegment, EnterSegment, EndSegments,
         SkipPage, EnterPage, EndPages, ApplyRebase, ApplyBind, LeaveBind, Advance, context
    <2>3. stream' = stream
      BY <2>2 DEF binds_state, stream
    <2>4. BindsTypeOK'
      BY <2>1, <2>2, <2>3 DEF Typed, LoaderTypeOK, FixupsTypeOK, BindsTypeOK, binds_state,
         registers, times, lists
    <2> QED
      BY <1>1, <2>1, <2>2, <2>4 DEF Typed, LoaderTypeOK, loader_state, lists
  <1>3. CASE RunBinds
    <2>1. BindsTypeOK'
      BY <1>3, BindsStepTyped DEF RunBinds, Typed, LoaderTypeOK
    <2>2. UNCHANGED <<fixups_state, d_list>>
      BY <1>3 DEF RunBinds, BindsStep, BeginStream, EndStream, Ignore, DropOperand, SetSymbol,
         SetSegmentAndOffset, AddAddr, DoBind, DoBindTimes, BindOneOfTimes, EndTimes,
         append_bind_info, context, lists
    <2>3. FixupsTypeOK' /\ SegmentInRange'
      BY <2>1, <2>2 DEF Typed, LoaderTypeOK, BindsTypeOK, FixupsTypeOK, SegmentInRange,
         fixups_state, cursor, counters
    <2> QED
      BY <1>1, <2>1, <2>2, <2>3 DEF Typed, LoaderTypeOK, loader_state
  <1> QED
    BY <1>2, <1>3

LEMMA SegmentStepTyped ==
  ASSUME NEW bits \in {32, 64}, Typed(bits), Walk(bits)', LoadSegment \/ LoadText \/ LoadOther
  PROVE  Typed(bits)'
  <1>1. PICK cmd \in {"LC_SEGMENT", "LC_SEGMENT_64"} : AtCommand({cmd})
    BY DEF LoadSegment, LoadText, LoadOther, AtText
  <1>2. /\ RecordSegment /\ ptr' = AfterSegment
        /\ UNCHANGED <<lists, file, lpc, entry_point, fixups_state, binds_state>>
    BY DEF LoadSegment, LoadText, LoadOther, AfterLoadSegment
  <1>3. /\ command.vmaddr \in Addr
        /\ \A o \in DOMAIN command.words : o \in Nat /\ command.words[o] \in Word
    BY <1>1, SegmentTyped DEF Typed
  <1>4. file \in Files /\ ContextTypeOK /\ v_addr \in Addr
    BY DEF Typed, Walk, LoaderTypeOK, FixupsTypeOK
  <1>5. img_addr' \in Addr /\ v_addr' \in Addr
    <2>1. CASE LoadSegment
      BY <1>4, <2>1, EnsureTyped DEF LoadSegment
    <2>2. CASE LoadText
      BY <1>3, <2>2, HostAssumption DEF LoadText
    <2>3. CASE LoadOther
      BY <1>4, <2>3 DEF LoadOther, ContextTypeOK
    <2> QED
      BY <2>1, <2>2, <2>3
  <1>6. DOMAIN mem' \subseteq Nat /\ \A a \in DOMAIN mem' : mem'[a] \in Word
    <2>1. CASE LoadSegment
      BY <1>3, <1>4, <1>5, <2>1, CopyTyped DEF LoadSegment
    <2>2. CASE LoadText
      BY <1>4, <1>5, <2>2, CopyHeadTyped DEF LoadText
    <2>3. CASE LoadOther
      BY <1>4, <2>3 DEF LoadOther, ContextTypeOK
    <2> QED
      BY <2>1, <2>2, <2>3
  <1>7. ptr' \in Nat
    <2>1. IsCommand(command)
      BY <1>1, AtTheCommand DEF Typed, AtCommand
    <2>2. command.nsects \in Nat /\ command.cmdsize \in Nat
      BY <1>1, <2>1 DEF AtCommand, IsCommand, load_command, segment_command, segment_command_64, IsSegment
    <2>3. PICK n \in Nat : command.nsects = n
      BY <2>2
    <2>4. PICK s \in {68, 80} : SizeofSection(Bits(file)) = s
      BY DEF SizeofSection
    <2>5. SizeofSegmentCommand(Bits(file)) \in Nat
      BY DEF SizeofSegmentCommand
    <2>6. n * s \in Nat
      OBVIOUS
    <2> QED
      BY <1>2, <2>2, <2>3, <2>4, <2>5, <2>6 DEF AfterSegment, Typed, LoaderTypeOK
  <1> QED
    BY <1>1, <1>2, <1>5, <1>6, <1>7, SegmentKeepsTypes

LEMMA TypedBegins ==
  ASSUME LoaderInit
  PROVE  Typed(Bits(file))
  <1>1. 0 \in Word
    BY WidthAssumption DEF Word
  <1>2. << >> \in Seq(StreamItem)
    OBVIOUS
  <1>3. NoPayload \in FixupsPayload
    BY DEF NoPayload, FixupsPayload
  <1>4. DOMAIN mem = {}
    BY DEF LoaderInit
  <1>5. ContextTypeOK
    BY <1>1, <1>4, LimitAssumption DEF LoaderInit, ContextTypeOK, Addr, Null
  <1>6. FixupsTypeOK
    BY <1>3, <1>5, ChainLimitAssumption DEF LoaderInit, FixupsTypeOK
  <1>7. BindsTypeOK
    BY <1>1, <1>2, <1>5 DEF LoaderInit, BindsTypeOK
  <1>8. Walk(Bits(file))
    BY WalkBegins
  <1> QED
    BY <1>1, <1>6, <1>7, <1>8 DEF LoaderInit, Typed, LoaderTypeOK, SegmentInRange, Walk, Addr, Null

LEMMA Loader64Typed == Typed(64) /\ [LoaderNext]_loader_vars => Typed(64)'
  <1> SUFFICES ASSUME Typed(64), [LoaderNext]_loader_vars PROVE Typed(64)'
    OBVIOUS
  <1>1. Walk(64)'
    BY Loader64Walks DEF Typed
  <1>2. CASE UNCHANGED loader_vars
    <2>1. ContextTypeOK' /\ UNCHANGED <<b_list, fixups_state, binds_state>>
      BY <1>2 DEF loader_vars, context, lists, Typed, LoaderTypeOK, FixupsTypeOK, ContextTypeOK
    <2>2. FixupsTypeOK' /\ BindsTypeOK' /\ SegmentInRange'
      BY <2>1, InterpretersTyped DEF Typed
    <2> QED
      BY <1>1, <1>2, <2>2 DEF Typed, LoaderTypeOK, loader_vars, loader_state, context, lists
  <1> QED
    BY <1>1, <1>2, CommonStepTyped, CallTyped, RunTyped, SegmentStepTyped
    DEF LoaderNext, LoaderStep, Loaded, CommonStep

LEMMA Loader32Typed == Typed(32) /\ [Loader32Next]_loader_vars => Typed(32)'
  <1> SUFFICES ASSUME Typed(32), [Loader32Next]_loader_vars PROVE Typed(32)'
    OBVIOUS
  <1>1. Walk(32)'
    BY Loader32Walks DEF Typed
  <1>2. CASE UNCHANGED loader_vars
    <2>1. ContextTypeOK' /\ UNCHANGED <<b_list, fixups_state, binds_state>>
      BY <1>2 DEF loader_vars, context, lists, Typed, LoaderTypeOK, FixupsTypeOK, ContextTypeOK
    <2>2. FixupsTypeOK' /\ BindsTypeOK' /\ SegmentInRange'
      BY <2>1, InterpretersTyped DEF Typed
    <2> QED
      BY <1>1, <1>2, <2>2 DEF Typed, LoaderTypeOK, loader_vars, loader_state, context, lists
  <1> QED
    BY <1>1, <1>2, CommonStepTyped, CallTyped, RunTyped, SegmentStepTyped
    DEF Loader32Next, Loader32Step, Loaded32, CommonStep, FindMain32, LoadDylib32, CallBinds32

(* Whatever is in the file and wherever mmap puts it, the context main and  *)
(* do_bind go on with is well formed: the table is within its limit, every  *)
(* address and word is a uint64_t, and the cursors are in range.            *)
THEOREM Loader64TypeCorrect == LoaderSpec => []LoaderTypeOK
  <1>1. Loader64Init => Typed(64)
    BY TypedBegins DEF Loader64Init
  <1>2. Typed(64) => LoaderTypeOK
    BY DEF Typed
  <1> QED
    BY <1>1, <1>2, Loader64Typed, PTL DEF LoaderSpec

(* The same of the 32-bit loader, up to where it crashes.                   *)
THEOREM Loader32TypeCorrect == Loader32Spec => []LoaderTypeOK
  <1>1. Loader32Init => Typed(32)
    BY TypedBegins DEF Loader32Init
  <1>2. Typed(32) => LoaderTypeOK
    BY DEF Typed
  <1> QED
    BY <1>1, <1>2, Loader32Typed, PTL DEF Loader32Spec

----------------------------------------------------------------------------
LEMMA ModOfSmall ==
  ASSUME NEW x \in Nat, NEW n \in Nat, x < n
  PROVE  x % n = x
  OBVIOUS

----------------------------------------------------------------------------
(* The numbers of the segment commands: the n-th is the n-th of the table.  *)
Before(f, k) == {j \in SegmentsOf(f) : j <= k}

LEMMA BeforeIsFinite ==
  ASSUME NEW f \in Files, NEW k \in Nat
  PROVE  IsFiniteSet(Before(f, k)) /\ Number(f, k) = Cardinality(Before(f, k)) /\ Number(f, k) \in Nat
  <1>1. DOMAIN f.cmds = 1 .. Len(f.cmds) /\ Len(f.cmds) \in Nat
    BY FilesAssumption DEF IsFile
  <1>2. IsFiniteSet(1 .. Len(f.cmds))
    BY <1>1, FS_Interval
  <1>3. Before(f, k) \subseteq 1 .. Len(f.cmds)
    BY <1>1 DEF Before, SegmentsOf
  <1>4. IsFiniteSet(Before(f, k))
    BY <1>2, <1>3, FS_Subset
  <1>5. Number(f, k) = Cardinality(Before(f, k))
    BY DEF Number, Before
  <1> QED
    BY <1>4, <1>5, FS_CardinalityType

LEMMA NumberOfNext ==
  ASSUME NEW f \in Files, NEW c \in Nat, c < Len(f.cmds)
  PROVE  /\ Number(f, 0) = 0
         /\ Number(f, c) \in Nat
         /\ Number(f, c + 1) = IF c + 1 \in SegmentsOf(f) THEN Number(f, c) + 1 ELSE Number(f, c)
  <1>1. DOMAIN f.cmds = 1 .. Len(f.cmds) /\ Len(f.cmds) \in Nat
    BY FilesAssumption DEF IsFile
  <1>2. SegmentsOf(f) \subseteq Nat \ {0}
    BY <1>1 DEF SegmentsOf
  <1>3. Before(f, 0) = {}
    BY <1>2 DEF Before
  <1>4. c + 1 \notin Before(f, c)
    BY <1>2 DEF Before
  <1>5. Before(f, c + 1) = IF c + 1 \in SegmentsOf(f) THEN Before(f, c) \cup {c + 1} ELSE Before(f, c)
    BY <1>2 DEF Before
  <1>6. IsFiniteSet(Before(f, c)) /\ Number(f, c) = Cardinality(Before(f, c)) /\ Number(f, c) \in Nat
    BY BeforeIsFinite
  <1>7. Number(f, c + 1) = Cardinality(Before(f, c + 1)) /\ Number(f, 0) = Cardinality(Before(f, 0))
    BY BeforeIsFinite
  <1>8. Number(f, 0) = 0
    BY <1>3, <1>7, FS_EmptySet
  <1>9. Cardinality(Before(f, c) \cup {c + 1}) = Cardinality(Before(f, c)) + 1
    BY <1>4, <1>6, FS_AddElement
  <1> QED
    BY <1>5, <1>6, <1>7, <1>8, <1>9

LEMMA NumberGrows ==
  ASSUME NEW f \in Files, NEW k \in SegmentsOf(f), NEW c \in Nat
  PROVE  /\ k \in Nat \ {0} /\ Number(f, k) \in Nat \ {0} /\ Number(f, c) \in Nat
         /\ k <= c => Number(f, k) <= Number(f, c)
         /\ c < k => Number(f, c) < Number(f, k)
  <1>1. SegmentsOf(f) \subseteq Nat \ {0}
    BY FilesAssumption DEF IsFile, SegmentsOf
  <1>2. k \in Before(f, k) /\ (c < k => k \notin Before(f, c))
    BY <1>1 DEF Before
  <1>3. /\ k <= c => Before(f, k) \subseteq Before(f, c)
        /\ c < k => Before(f, c) \subseteq Before(f, k)
    BY <1>1 DEF Before
  <1>4. /\ IsFiniteSet(Before(f, k)) /\ Number(f, k) = Cardinality(Before(f, k)) /\ Number(f, k) \in Nat
        /\ IsFiniteSet(Before(f, c)) /\ Number(f, c) = Cardinality(Before(f, c)) /\ Number(f, c) \in Nat
    BY <1>1, BeforeIsFinite
  <1>5. Number(f, k) # 0
    BY <1>2, <1>4, FS_EmptySet
  <1>6. ASSUME k <= c PROVE Number(f, k) <= Number(f, c)
    BY <1>3, <1>4, <1>6, FS_Subset
  <1>7. ASSUME c < k PROVE Number(f, c) < Number(f, k)
    <2>1. Before(f, c) \cup {k} \subseteq Before(f, k)
      BY <1>2, <1>3, <1>7
    <2>2. /\ IsFiniteSet(Before(f, c) \cup {k})
          /\ Cardinality(Before(f, c) \cup {k}) = Number(f, c) + 1
      BY <1>2, <1>4, <1>7, FS_AddElement
    <2>3. Number(f, c) + 1 <= Number(f, k)
      BY <1>4, <2>1, <2>2, FS_Subset
    <2> QED
      BY <1>4, <2>3
  <1> QED
    BY <1>1, <1>4, <1>5, <1>6, <1>7

----------------------------------------------------------------------------
(* The table of segments.                                                   *)

(* It has the segments passed, in their order, as many as it holds.         *)
TableLength ==
  Len(segments) = IF Number(file, c_load_command) < MaxSegments
                    THEN Number(file, c_load_command) ELSE MaxSegments

(* The entry of segment command k, which is the next of the table as long   *)
(* as there is room.                                                        *)
Entry(k) ==
  [segname |-> file.cmds[k].segname, vmaddr |-> file.cmds[k].vmaddr,
   vmsize |-> file.cmds[k].vmsize, mapped_addr |-> MappedAddr]

(* What a step of the loader does to the table: it keeps its entries, and a *)
(* segment passed earlier that had none gets none.                          *)
TableGrows ==
  /\ segments' \in Seq(SegmentInfo) /\ Len(segments') <= MaxSegments
  /\ Len(segments) <= Len(segments')
  /\ \A n \in 1 .. Len(segments) : segments'[n] = segments[n]
  /\ \A j \in SegmentsOf(file) : Passed(j) /\ Number(file, j) <= Len(segments') =>
       Number(file, j) \in 1 .. Len(segments)

LEMMA AppendIs ==
  ASSUME NEW S, NEW s \in Seq(S), NEW e \in S
  PROVE  /\ Append(s, e) \in Seq(S) /\ Len(s) \in Nat /\ Len(Append(s, e)) = Len(s) + 1
         /\ \A n \in 1 .. Len(s) : Append(s, e)[n] = s[n]
         /\ Append(s, e)[Len(s) + 1] = e
  OBVIOUS

LEMMA RecordGrowsTable ==
  ASSUME file \in Files, c_load_command \in Nat, c_load_command < Len(file.cmds),
         segments \in Seq(SegmentInfo), Len(segments) <= MaxSegments, TableLength,
         NEW k \in SegmentsOf(file), k = c_load_command + 1,
         command = file.cmds[k], RecordSegment, Entry(k) \in SegmentInfo,
         file' = file, c_load_command' = k
  PROVE  /\ TableGrows /\ TableLength'
         /\ Number(file, k) <= Len(segments') => segments'[Number(file, k)] = Entry(k)
  <1>1. PICK n \in Nat : n = Number(file, c_load_command)
    BY NumberOfNext
  <1>2. Number(file, k) = n + 1
    BY <1>1, NumberOfNext
  <1>3. Len(segments) = IF n < MaxSegments THEN n ELSE MaxSegments
    BY <1>1 DEF TableLength
  <1>4. segments' = IF Len(segments) < MaxSegments THEN Append(segments, Entry(k)) ELSE segments
    BY DEF RecordSegment, Entry
  <1>5. /\ Len(segments) \in Nat /\ Append(segments, Entry(k)) \in Seq(SegmentInfo)
        /\ Len(Append(segments, Entry(k))) = Len(segments) + 1
        /\ \A m \in 1 .. Len(segments) : Append(segments, Entry(k))[m] = segments[m]
        /\ Append(segments, Entry(k))[Len(segments) + 1] = Entry(k)
    BY AppendIs
  <1>6. \A j \in SegmentsOf(file) : Passed(j) => Number(file, j) \in Nat \ {0} /\ Number(file, j) <= n
    BY <1>1, NumberGrows DEF Passed
  <1>7. TableLength' <=> Len(segments') = IF n + 1 < MaxSegments THEN n + 1 ELSE MaxSegments
    BY <1>2 DEF TableLength
  <1>8. CASE n < MaxSegments
    <2>1. segments' = Append(segments, Entry(k)) /\ Len(segments) = n
      BY <1>3, <1>4, <1>8
    <2>2. /\ Len(segments') = n + 1 /\ Len(segments) <= Len(segments')
          /\ TableLength' /\ Len(segments') <= MaxSegments
      BY <1>5, <1>7, <1>8, <2>1, LimitAssumption
    <2>3. segments'[Number(file, k)] = Entry(k)
      BY <1>2, <1>5, <2>1
    <2>4. \A j \in SegmentsOf(file) : Passed(j) => Number(file, j) \in 1 .. Len(segments)
      BY <1>6, <2>1
    <2>5. segments' \in Seq(SegmentInfo) /\ \A m \in 1 .. Len(segments) : segments'[m] = segments[m]
      BY <1>5, <2>1
    <2> QED
      BY <2>2, <2>3, <2>4, <2>5 DEF TableGrows
  <1>9. CASE ~(n < MaxSegments)
    <2>1. segments' = segments /\ Len(segments) = MaxSegments
      BY <1>3, <1>4, <1>9, LimitAssumption
    <2>2. TableLength'
      BY <1>7, <1>9, <2>1, LimitAssumption
    <2>3. ~(Number(file, k) <= Len(segments'))
      BY <1>2, <1>9, <2>1, LimitAssumption
    <2> QED
      BY <1>5, <1>6, <2>1, <2>2, <2>3 DEF TableGrows
  <1> QED
    BY <1>8, <1>9

(* An entry, once it can be there, stays there or stays out. *)
LEMMA EntriesStay ==
  ASSUME file \in Files, c_load_command \in Nat, segments \in Seq(SegmentInfo),
         TableGrows \/ UNCHANGED segments, file' = file,
         NEW k \in SegmentsOf(file), Passed(k), Passed(k)'
  PROVE  Recorded(k)' <=> Recorded(k)
  <1>1. CASE UNCHANGED segments
    BY <1>1 DEF Recorded, SegmentNo
  <1>2. CASE TableGrows
    <2>1. PICK m \in Nat \ {0} : m = Number(file, k)
      BY NumberGrows
    <2>2. PICK t \in Seq(SegmentInfo) : t = segments'
      BY <1>2 DEF TableGrows
    <2>3. m <= Len(segments') <=> m <= Len(segments)
      BY <1>2, <2>1, <2>2 DEF TableGrows
    <2>4. m <= Len(segments) => segments'[m] = segments[m]
      BY <1>2, <2>1 DEF TableGrows
    <2> QED
      BY <2>1, <2>3, <2>4 DEF Recorded, SegmentNo
  <1> QED
    BY <1>1, <1>2

(* The bind opcodes touch neither the table nor memory. *)
LEMMA BindsKeepImage ==
  ASSUME BindsStep
  PROVE  UNCHANGED <<img_addr, segments, mem>>
<1> USE DEF context
<1>1. CASE BeginStream \/ EndStream \/ Ignore \/ DropOperand
  BY <1>1 DEF BeginStream, EndStream, Ignore, DropOperand
<1>2. CASE SetSymbol \/ SetSegmentAndOffset \/ AddAddr
  BY <1>2 DEF SetSymbol, SetSegmentAndOffset, AddAddr
<1>3. CASE DoBind
  BY <1>3 DEF DoBind, append_bind_info
<1>4. CASE BindOneOfTimes
  BY <1>4 DEF BindOneOfTimes, append_bind_info
<1>5. CASE DoBindTimes \/ EndTimes
  BY <1>5 DEF DoBindTimes, EndTimes
<1> QED
  BY <1>1, <1>2, <1>3, <1>4, <1>5 DEF BindsStep

----------------------------------------------------------------------------
(* The binds the loaders collect.                                           *)

(* Every number up to that of the last segment passed is one's.             *)
LEMMA NumberReached ==
  ASSUME NEW f \in Files, NEW c \in 0 .. Len(f.cmds), NEW n \in Nat \ {0}, n <= Number(f, c)
  PROVE  \E k \in SegmentsOf(f) : k <= c /\ Number(f, k) = n
  <1>1. Len(f.cmds) \in Nat /\ c \in Nat
    BY FilesAssumption DEF IsFile
  <1> DEFINE enough == {k \in 0 .. c : n <= Number(f, k)}
  <1>2. enough \subseteq Nat /\ c \in enough
    BY <1>1
  <1>3. PICK k \in enough : \A j \in enough : k <= j
    BY <1>2, LeastNatural
  <1>4. k \in Nat \ {0} /\ k <= c
    <2>1. Before(f, 0) = {}
      BY <1>1, FilesAssumption DEF IsFile, Before, SegmentsOf
    <2>2. Number(f, 0) = 0
      BY <2>1, BeforeIsFinite, FS_EmptySet
    <2> QED
      BY <1>1, <1>3, <2>2
  <1>5. PICK j \in Nat : k = j + 1
    BY <1>4
  <1>6. j < Len(f.cmds) /\ j \in 0 .. c
    BY <1>1, <1>4, <1>5
  <1>7. /\ Number(f, j) \in Nat
        /\ Number(f, k) = IF k \in SegmentsOf(f) THEN Number(f, j) + 1 ELSE Number(f, j)
    BY <1>5, <1>6, NumberOfNext
  <1>8. ~(n <= Number(f, j))
    BY <1>3, <1>5, <1>6
  <1>9. n <= Number(f, k)
    BY <1>3
  <1>10. k \in SegmentsOf(f) /\ Number(f, k) = n
    BY <1>7, <1>8, <1>9
  <1> QED
    BY <1>4, <1>10

(* A segment that is recorded is recorded at its slid address. *)
TableSlid ==
  /\ segments \in Seq(SegmentInfo) /\ Len(segments) <= MaxSegments /\ TableLength
  /\ \A k \in SegmentsOf(file) : Recorded(k) =>
       img_addr # Null /\ segments[Number(file, k)].mapped_addr = Slid(file.cmds[k].vmaddr)

(* Each bind collected is where the linker put it, or nowhere: its segment  *)
(* was in the table, and stays there, at an address that stays; and nowhere *)
(* only if its segment was not.                                             *)
BindsPlaced ==
  /\ Len(b_list) <= Len(targets)
  /\ \A n \in 1 .. Len(b_list) :
       LET a == b_list[n].address IN
       /\ b_list[n].func_name = targets[n].name
       /\ a # Null => \E k \in SegmentsOf(file) :
                        /\ Number(file, k) = targets[n].seg + 1 /\ Recorded(k)
                        /\ a = Slid(file.cmds[k].vmaddr + targets[n].off)
  /\ NoBindDropped

BindsInv ==
  /\ LinkedBinds(file)
  /\ targets # << >> => \E j \in BindsCommands(file) : targets = file.cmds[j].targets
  /\ lpc # "binds" /\ (\A j \in BindsCommands(file) : ~Passed(j)) => targets = << >> /\ b_list = << >>
  /\ lpc # "binds" => BindsPlaced
  /\ lpc = "binds" =>
       /\ c_load_command + 1 \in BindsCommands(file)
       /\ Follows(file.cmds[c_load_command + 1].code)

LEMMA SegmentVmaddr ==
  ASSUME NEW f \in Files, NEW k \in SegmentsOf(f)
  PROVE  f.cmds[k].vmaddr \in Nat
  <1>1. IsCommand(f.cmds[k]) /\ f.cmds[k].cmd \in {"LC_SEGMENT", "LC_SEGMENT_64"}
    BY FilesAssumption DEF SegmentsOf, IsFile
  <1> QED
    BY <1>1, WidthAssumption DEF IsCommand, segment_command, segment_command_64, IsSegment, Addr, Word

(* Where a target of the linker is, by the entry of its segment. *)
LEMMA TargetOfEntry ==
  ASSUME file \in Files, TableSlid, img_addr \in Addr, v_addr \in Addr,
         NEW t, t.seg \in 0 .. 15, t.off \in Addr,
         NEW k \in SegmentsOf(file), Number(file, k) = t.seg + 1, Recorded(k)
  PROVE  bind_address_for_segment_offset(t.seg, t.off) = Slid(file.cmds[k].vmaddr + t.off)
  <1>1. PICK n \in Nat \ {0} : n = t.seg + 1
    OBVIOUS
  <1>2. /\ n <= Len(segments) /\ Len(segments) \in Nat /\ segments[n].mapped_addr # Null
        /\ segments[n].mapped_addr = Slid(file.cmds[k].vmaddr)
    BY <1>1 DEF TableSlid, Recorded, SegmentNo
  <1>3. bind_address_for_segment_offset(t.seg, t.off) = (segments[n].mapped_addr + t.off) % AddrMod
    <2>1. PICK g \in 0 .. 15 : g = t.seg
      OBVIOUS
    <2>2. PICK l \in Nat : l = Len(segments)
      BY <1>2
    <2>3. g + 1 <= l
      BY <1>1, <1>2, <2>1, <2>2, Zenon
    <2>4. g \in 0 .. l - 1
      BY <2>1, <2>2, <2>3
    <2>5. t.seg \in 0 .. Len(segments) - 1 /\ n = t.seg + 1
      BY <1>1, <2>1, <2>2, <2>4, Zenon
    <2> QED
      BY <1>2, <2>5, Zenon DEF bind_address_for_segment_offset
  <1>4. PICK v \in Nat : v = file.cmds[k].vmaddr
    BY SegmentVmaddr
  <1>5. PICK b \in Nat, w \in Nat, o \in Nat : b = img_addr /\ w = v_addr /\ o = t.off
    BY WidthAssumption DEF Addr, Word
  <1>6. segments[n].mapped_addr = (b + v - w) % AddrMod
    BY <1>2, <1>4, <1>5 DEF Slid
  <1>7. PICK x \in Int : x = b + v - w
    OBVIOUS
  <1>8. ((x % AddrMod) + o) % AddrMod = (x + o) % AddrMod
    <2>1. o \in Int /\ AddrMod \in Nat \ {0}
      BY WidthAssumption
    <2> QED
      BY <2>1, RestOfSum, Zenon
  <1>9. x + o = b + (v + o) - w
    BY <1>7
  <1> QED
    BY <1>3, <1>4, <1>5, <1>6, <1>7, <1>8, <1>9 DEF Slid

(* A target with an address has a segment in the table. *)
LEMMA TargetPlaced ==
  ASSUME NEW bits, Walk(bits), TableSlid, NEW t, t.seg \in 0 .. 15, t.off \in Addr,
         NEW a, a = bind_address_for_segment_offset(t.seg, t.off), a # Null,
         img_addr \in Addr, v_addr \in Addr
  PROVE  \E k \in SegmentsOf(file) :
           /\ Number(file, k) = t.seg + 1 /\ Recorded(k)
           /\ a = Slid(file.cmds[k].vmaddr + t.off)
  <1>1. PICK n \in Nat \ {0} : n = t.seg + 1
    OBVIOUS
  <1>2. t.seg \in 0 .. Len(segments) - 1 /\ segments[n].mapped_addr # Null
    BY <1>1, Zenon DEF bind_address_for_segment_offset
  <1>3. Len(segments) \in Nat /\ n <= Len(segments)
    BY <1>1, <1>2 DEF TableSlid
  <1>4. file \in Files /\ c_load_command \in 0 .. Len(file.cmds)
    BY DEF Walk
  <1>5. n <= Number(file, c_load_command)
    <2>1. Number(file, c_load_command) \in Nat
      <3>1. c_load_command \in Nat
        BY <1>4
      <3> QED
        BY <1>4, <3>1, BeforeIsFinite
    <2> QED
      BY <1>3, <2>1, LimitAssumption DEF TableSlid, TableLength
  <1>6. PICK k \in SegmentsOf(file) : k <= c_load_command /\ Number(file, k) = n
    BY <1>4, <1>5, NumberReached
  <1>7. Recorded(k)
    BY <1>2, <1>3, <1>6 DEF Recorded, Passed, SegmentNo
  <1>8. a = Slid(file.cmds[k].vmaddr + t.off)
    BY <1>1, <1>4, <1>6, <1>7, TargetOfEntry
  <1> QED
    BY <1>1, <1>6, <1>7, <1>8

(* Also in the middle of the list. *)
LEMMA InvPlaced ==
  ASSUME NEW bits, Typed(bits), BindsInv, TableSlid
  PROVE  BindsPlaced
  <1>1. CASE lpc # "binds"
    BY <1>1 DEF BindsInv
  <1>2. CASE lpc = "binds"
    <2>1. ListSoFar
      BY <1>2 DEF BindsInv, Follows
    <2>2. ASSUME NEW n \in 1 .. Len(b_list), NEW t, t = targets[n], NEW a, a = b_list[n].address
          PROVE  /\ b_list[n].func_name = t.name
                 /\ a = bind_address_for_segment_offset(t.seg, t.off)
                 /\ t.seg \in 0 .. 15 /\ t.off \in Addr
      <3>1. b_list[n] = TargetInfo(t)
        BY <2>1, <2>2 DEF ListSoFar
      <3>2. /\ TargetInfo(t).func_name = t.name
            /\ TargetInfo(t).address = bind_address_for_segment_offset(t.seg, t.off)
        BY DEF TargetInfo
      <3>3. Len(b_list) \in Nat
        BY DEF Typed, LoaderTypeOK, BindsTypeOK
      <3>4. targets # << >> /\ Len(b_list) <= Len(targets)
        BY <2>1, <3>3 DEF ListSoFar
      <3>5. PICK j \in BindsCommands(file) : targets = file.cmds[j].targets
        BY <3>4 DEF BindsInv
      <3>6. IsCommand(file.cmds[j]) /\ file.cmds[j].cmd = "LC_DYLD_INFO"
        BY FilesAssumption DEF BindsCommands, IsFile, Typed, Walk
      <3> DEFINE tuples == [name : Names \cup {NoName}, seg : 0 .. 15, off : Addr, addend : Int]
      <3>7. targets \in Seq(tuples)
        BY <3>5, <3>6 DEF IsCommand, dyld_info_command
      <3>8. ASSUME NEW x \in tuples PROVE x.seg \in 0 .. 15 /\ x.off \in Addr
        OBVIOUS
      <3> HIDE DEF tuples
      <3>9. n \in 1 .. Len(targets)
        BY <3>3, <3>4, <3>7
      <3>10. t \in tuples
        BY <2>2, <3>7, <3>9
      <3> QED
        BY <2>2, <3>1, <3>2, <3>8, <3>10
    <2>3. Walk(bits) /\ file \in Files /\ img_addr \in Addr /\ v_addr \in Addr
      BY DEF Typed, Walk, LoaderTypeOK, BindsTypeOK, ContextTypeOK
    <2>4. ASSUME NEW n \in 1 .. Len(b_list), NEW t, t = targets[n], NEW a, a = b_list[n].address, a # Null
          PROVE  \E k \in SegmentsOf(file) :
                   /\ Number(file, k) = t.seg + 1 /\ Recorded(k)
                   /\ a = Slid(file.cmds[k].vmaddr + t.off)
      BY <2>2, <2>3, <2>4, TargetPlaced
    <2>5. ASSUME NEW n \in 1 .. Len(b_list), NEW t, t = targets[n],
                 NEW k \in SegmentsOf(file), Number(file, k) = t.seg + 1, Recorded(k)
          PROVE  b_list[n].address = Slid(file.cmds[k].vmaddr + t.off)
      BY <2>2, <2>3, <2>5, TargetOfEntry
    <2>6. NoBindDropped
      BY <2>5 DEF NoBindDropped, SegmentCommands, SegmentNo
    <2> QED
      BY <2>1, <2>2, <2>4, <2>6 DEF ListSoFar, BindsPlaced
  <1> QED
    BY <1>1, <1>2

(* A step that collects no bind.                                            *)
LEMMA NoBindKeeps ==
  ASSUME NEW bits, Typed(bits), BindsInv, TableSlid,
         UNCHANGED <<file, targets, b_list>>, TableGrows \/ UNCHANGED segments,
         img_addr # Null => img_addr' = img_addr /\ v_addr' = v_addr,
         c_load_command' \in {c_load_command, c_load_command + 1}, lpc' # "binds",
         lpc = "binds" => c_load_command' = c_load_command + 1
  PROVE  BindsInv'
  <1>1. BindsPlaced
    BY InvPlaced
  <1>2. file \in Files /\ c_load_command \in Nat /\ segments \in Seq(SegmentInfo)
    BY DEF Typed, Walk, TableSlid
  <1>3. SegmentsOf(file) \subseteq Nat /\ BindsCommands(file) \subseteq Nat
    BY <1>2, FilesAssumption DEF SegmentsOf, BindsCommands, IsFile
  <1>4. \A k \in Nat : Passed(k) => Passed(k)'
    BY <1>2 DEF Passed
  <1>5. ASSUME NEW k \in SegmentsOf(file), Recorded(k)
        PROVE  Recorded(k)' /\ \A a : Slid(a)' = Slid(a)
    <2>1. Passed(k) /\ Passed(k)'
      BY <1>3, <1>4, <1>5 DEF Recorded
    <2>2. Recorded(k)'
      BY <1>2, <1>5, <2>1, EntriesStay
    <2>3. img_addr # Null
      BY <1>5 DEF TableSlid
    <2> QED
      BY <2>2, <2>3 DEF Slid
  <1>6. BindsPlaced'
    <2>1. ASSUME NEW n \in 1 .. Len(b_list), NEW k \in SegmentsOf(file), NEW j \in BindsCommands(file),
                 SegmentNo(k) = targets[n].seg + 1, Recorded(k)', k < j
          PROVE  b_list[n].address = Slid(file.cmds[k].vmaddr + targets[n].off)'
      <3>1. b_list # << >>
        OBVIOUS
      <3>2. PICK l \in BindsCommands(file) : l <= c_load_command + 1
        BY <1>2, <1>3, <3>1 DEF BindsInv, Passed
      <3>3. l = j
        BY DEF BindsInv, LinkedBinds
      <3>4. Passed(k) /\ Passed(k)'
        BY <1>2, <1>3, <1>4, <2>1, <3>2, <3>3 DEF Passed
      <3>5. Recorded(k)
        BY <1>2, <2>1, <3>4, EntriesStay
      <3>6. b_list[n].address = Slid(file.cmds[k].vmaddr + targets[n].off)
        BY <1>1, <2>1, <3>5 DEF BindsPlaced, NoBindDropped, SegmentCommands
      <3> QED
        BY <1>5, <3>5, <3>6
    <2>2. NoBindDropped'
      BY <2>1 DEF NoBindDropped, SegmentCommands, SegmentNo
    <2> QED
      BY <1>1, <1>5, <2>2 DEF BindsPlaced
  <1>7. ASSUME \A j \in BindsCommands(file) : ~Passed(j)'
        PROVE  targets = << >> /\ b_list = << >>
    <2>1. \A j \in BindsCommands(file) : ~Passed(j)
      BY <1>3, <1>4, <1>7
    <2>2. CASE lpc = "binds"
      <3>1. PICK j \in BindsCommands(file) : j = c_load_command'
        BY <2>2 DEF BindsInv
      <3>2. Passed(j)'
        BY <1>2, <1>3, <3>1 DEF Passed
      <3> QED
        BY <1>7, <3>2
    <2> QED
      BY <2>1, <2>2 DEF BindsInv
  <1> QED
    BY <1>6, <1>7 DEF BindsInv

(* LC_DYLD_INFO: the one command of its kind, and nothing is collected yet. *)
LEMMA CallBindsKeeps ==
  ASSUME NEW bits, Typed(bits), BindsInv, CallBinds
  PROVE  BindsInv'
  <1>1. /\ lpc = "command" /\ c_load_command < Len(file.cmds) /\ command.cmd = "LC_DYLD_INFO"
        /\ streams' = command.streams /\ targets' = targets \o command.targets
        /\ pass' = 1 /\ bpc' = "begin" /\ lpc' = "binds"
        /\ UNCHANGED <<file, c_load_command, segments, b_list>>
    BY DEF CallBinds, AtCommand, context
  <1>2. PICK j : j = c_load_command + 1
    OBVIOUS
  <1>3. j \in 1 .. Len(file.cmds) /\ command = file.cmds[j] /\ file \in Files /\ c_load_command \in Nat
    BY <1>1, <1>2, AtTheCommand DEF Typed, Walk
  <1>4. j \in BindsCommands(file)
    BY <1>1, <1>3, FilesAssumption DEF BindsCommands, IsFile
  <1>5. targets = << >> /\ b_list = << >>
    <2>1. ~Passed(j)
      BY <1>2, <1>3 DEF Passed
    <2>2. \A l \in BindsCommands(file) : ~Passed(l)
      BY <1>4, <2>1 DEF BindsInv, LinkedBinds
    <2> QED
      BY <1>1, <2>2 DEF BindsInv
  <1>6. PICK c : c = file.cmds[j]
    OBVIOUS
  <1>7. /\ c.targets \in Seq([name : Names \cup {NoName}, seg : 0 .. 15, off : Addr, addend : Int])
        /\ Encodes(c.streams, c.code, c.targets)
    <2>1. IsCommand(c)
      BY <1>3, <1>6, FilesAssumption DEF IsFile
    <2> QED
      BY <1>1, <1>3, <1>4, <1>6, <2>1 DEF BindsInv, LinkedBinds, IsCommand, dyld_info_command
  <1>8. targets' = c.targets /\ streams' = c.streams /\ b_list' = << >>
    BY <1>1, <1>3, <1>5, <1>6, <1>7
  <1>9. Follows(c.code)'
    <2>1. ListSoFar'
      <3>1. Len(b_list') = 0 /\ Len(targets') \in Nat
        BY <1>7, <1>8
      <3> QED
        BY <3>1 DEF ListSoFar
    <2>2. InAccount(stream, c.code[pass])'
      <3>1. Len(b_list') = c.code[1][1].n
        BY <1>7, <1>8 DEF Encodes
      <3> QED
        BY <1>1, <3>1 DEF InAccount
    <2> QED
      BY <1>7, <1>8, <2>1, <2>2 DEF Follows
  <1> QED
    BY <1>1, <1>2, <1>4, <1>6, <1>8, <1>9 DEF BindsInv

(* The interpreter at work.                                                 *)
LEMMA RunBindsKeeps ==
  ASSUME NEW bits, Typed(bits), BindsInv, RunBinds
  PROVE  BindsInv'
  <1>1. lpc = "binds" /\ BindsStep /\ UNCHANGED <<file, lpc, c_load_command>>
    BY DEF RunBinds, loader_state
  <1>2. PICK codes : codes = file.cmds[c_load_command + 1].code
    OBVIOUS
  <1>3. Follows(codes) /\ BindsTypeOK
    BY <1>1, <1>2 DEF BindsInv, Typed, LoaderTypeOK
  <1>4. Follows(codes)'
    BY <1>1, <1>3, AccountFollowed
  <1>5. targets' = targets
    BY <1>1 DEF BindsStep, BeginStream, EndStream, Ignore, DropOperand, SetSymbol, SetSegmentAndOffset,
           AddAddr, DoBind, DoBindTimes, BindOneOfTimes, EndTimes
  <1> QED
    BY <1>1, <1>2, <1>4, <1>5 DEF BindsInv

LEMMA StutterKeepsBinds ==
  ASSUME BindsInv, UNCHANGED loader_vars
  PROVE  BindsInv'
  <1>1. /\ UNCHANGED <<file, lpc, c_load_command, targets, b_list, segments, img_addr, v_addr>>
        /\ UNCHANGED binds_vars
    BY DEF loader_vars, loader_state, binds_vars, binds_state, context, lists
  <1>2. \A codes : Follows(codes) => Follows(codes)'
    BY <1>1, AccountStays
  <1>3. BindsPlaced => BindsPlaced'
    BY <1>1 DEF BindsPlaced, NoBindDropped, SegmentCommands, Recorded, SegmentNo, Passed, Slid
  <1> QED
    BY <1>1, <1>2, <1>3 DEF BindsInv, Passed

LEMMA BindsBegin ==
  ASSUME LoaderInit, LinkedBinds(file)
  PROVE  BindsInv
  <1>1. lpc = "header" /\ targets = << >> /\ b_list = << >>
    BY DEF LoaderInit
  <1>2. Len(b_list) = 0 /\ Len(targets) = 0
    BY <1>1
  <1> QED
    BY <1>1, <1>2 DEF BindsInv, BindsPlaced, NoBindDropped

----------------------------------------------------------------------------
(* The symbol table.                                                        *)

LEMMA LastIsMax ==
  ASSUME NEW f \in Files, NEW j \in SymbolTables(f), NEW n \in DOMAIN f.cmds[j].syms,
         LastMain(f.cmds[j], n)
  PROVE  LET mains == {m \in DOMAIN f.cmds[j].syms : f.cmds[j].syms[m].name = "_main"}
         IN  mains # {} /\ Max(mains) = n
  <1> DEFINE mains == {m \in DOMAIN f.cmds[j].syms : f.cmds[j].syms[m].name = "_main"}
  <1>1. n \in mains /\ \A m \in mains : m <= n
    BY DEF LastMain, IsMain
  <1>2. mains \subseteq Int
    <2>1. IsCommand(f.cmds[j]) /\ f.cmds[j].cmd = "LC_SYMTAB"
      BY FilesAssumption DEF SymbolTables, IsFile
    <2>2. DOMAIN f.cmds[j].syms = 1 .. Len(f.cmds[j].syms)
      BY <2>1 DEF IsCommand, symtab_command
    <2> QED
      BY <2>2
  <1> HIDE DEF mains
  <1>3. \E m \in mains : \A y \in mains : m >= y
    BY <1>1, <1>2
  <1>4. Max(mains) \in mains /\ \A y \in mains : Max(mains) >= y
    BY <1>3, Zenon DEF Max
  <1>5. PICK x \in Int : x = Max(mains)
    BY <1>2, <1>4
  <1>6. n \in Int /\ x <= n /\ n <= x
    BY <1>1, <1>2, <1>4, <1>5
  <1>7. mains # {} /\ Max(mains) = n
    BY <1>1, <1>5, <1>6
  <1> QED
    BY <1>7 DEF mains

(* The symbol table at command j is read with __TEXT mapped and recorded.   *)
TextBefore(j) ==
  \E k \in SegmentsOf(file) : k < j /\ file.cmds[k].segname = "__TEXT" /\ Recorded(k)

(* Then the entry point is the last _main of it. *)
EntryIsMain ==
  \A j \in SymbolTables(file) : Passed(j) /\ TextBefore(j) =>
    \A n \in DOMAIN file.cmds[j].syms :
      LastMain(file.cmds[j], n) => entry_point = Slid(file.cmds[j].syms[n].n_value)

----------------------------------------------------------------------------
(* The inductive invariant of the 32-bit loader over a linked file.         *)

(* __TEXT is mapped once, at its address' slide, or not yet.                *)
HeadMapped ==
  \/ /\ img_addr = Null /\ v_addr = Null /\ mem = << >>
     /\ \A k \in SegmentsOf(file) : Passed(k) => file.cmds[k].segname # "__TEXT"
  \/ /\ img_addr \in HostBases
     /\ \E k \in SegmentsOf(file) :
          Passed(k) /\ file.cmds[k].segname = "__TEXT" /\ v_addr = file.cmds[k].vmaddr

(* Then memory is the head of the file, word by word, and no more.          *)
HeadPlace(b, k, o) == b + file.cmds[k].fileoff + o
InHead(k, o) == file.cmds[k].fileoff + o + 8 <= HeadSize

MemoryIsHead ==
  img_addr # Null =>
    \A k \in SegmentsOf(file) : \A o \in DOMAIN file.cmds[k].words :
      IF InHead(k, o)
        THEN /\ HeadPlace(img_addr, k, o) \in DOMAIN mem
             /\ mem[HeadPlace(img_addr, k, o)] = file.cmds[k].words[o]
        ELSE HeadPlace(img_addr, k, o) \notin DOMAIN mem

(* An entry of the table that has an address has it by the slide of __TEXT. *)
EntryIsSlid(k) ==
  LET s == segments[Number(file, k)] IN
  /\ s.segname = file.cmds[k].segname
  /\ s.mapped_addr # Null => img_addr # Null /\ s.mapped_addr = Slid(file.cmds[k].vmaddr)

TableIsSlid ==
  \A k \in SegmentsOf(file) : Passed(k) /\ Number(file, k) <= Len(segments) => EntryIsSlid(k)

HeadInv ==
  /\ Walk(32) /\ LinkedHead(file)
  /\ HeadMapped /\ MemoryIsHead
  /\ segments \in Seq(SegmentInfo) /\ Len(segments) <= MaxSegments
  /\ TableLength /\ TableIsSlid
  /\ lpc = "binds" => file.cmds[c_load_command + 1].cmd = "LC_DYLD_INFO"

(* Every segment command is what LC_SEGMENT declares. *)
LEMMA Segment32Is ==
  ASSUME NEW f \in Files, LinkedHead(f), NEW k \in SegmentsOf(f)
  PROVE  /\ k \in 1 .. Len(f.cmds) /\ k \in Nat /\ f.cmds[k].cmd = "LC_SEGMENT"
         /\ f.cmds[k].segname \in SegmentNames
         /\ f.cmds[k].vmaddr \in Nat /\ f.cmds[k].vmaddr < AddrMod /\ f.cmds[k].vmsize \in Nat
         /\ f.cmds[k].fileoff \in Nat /\ f.cmds[k].filesize \in Nat
         /\ \A o \in DOMAIN f.cmds[k].words : o \in Nat /\ o + 8 <= f.cmds[k].filesize
  <1>1. /\ Len(f.cmds) \in Nat /\ DOMAIN f.cmds = 1 .. Len(f.cmds)
        /\ \A j \in 1 .. Len(f.cmds) : IsCommand(f.cmds[j])
    BY FilesAssumption DEF IsFile
  <1>2. k \in 1 .. Len(f.cmds) /\ f.cmds[k].cmd = "LC_SEGMENT"
    BY <1>1 DEF SegmentsOf, LinkedHead
  <1>3. IsSegment(f.cmds[k], 32)
    BY <1>1, <1>2 DEF IsCommand, segment_command
  <1> QED
    BY <1>1, <1>2, <1>3, WidthAssumption DEF IsSegment, Addr, Word

LEMMA BasesAre ==
  ASSUME NEW b \in HostBases
  PROVE  b \in Nat /\ b < AddrMod /\ b # Null
  BY HostAssumption, WidthAssumption DEF Addr, Word

(* What the copy of the head puts in an empty memory. *)
LEMMA HeadCopied ==
  ASSUME NEW f \in Files, LinkedHead(f), f = file, NEW b \in HostBases, img_addr' = b,
         mem = << >>, CopyHead, NEW k \in SegmentsOf(f), NEW o \in DOMAIN f.cmds[k].words
  PROVE  IF InHead(k, o)
           THEN HeadPlace(b, k, o) \in DOMAIN mem' /\ mem'[HeadPlace(b, k, o)] = f.cmds[k].words[o]
           ELSE HeadPlace(b, k, o) \notin DOMAIN mem'
  <1> DEFINE head == FileHead(HeadSize)
  <1>1. DOMAIN head = UNION {WordsAt(j, HeadSize) : j \in SegmentsOf(f)}
    BY DEF FileHead, SegmentCommands
  <1>2. DOMAIN head \subseteq Nat /\ \A q \in DOMAIN head : q + 8 <= HeadSize
    <2> SUFFICES ASSUME NEW q \in DOMAIN head PROVE q \in Nat /\ q + 8 <= HeadSize
      OBVIOUS
    <2>1. PICK j \in SegmentsOf(f) : q \in WordsAt(j, HeadSize)
      BY <1>1
    <2>2. PICK w \in DOMAIN f.cmds[j].words : q = f.cmds[j].fileoff + w /\ q + 8 <= HeadSize
      BY <2>1 DEF WordsAt
    <2>3. f.cmds[j].fileoff \in Nat /\ w \in Nat
      BY Segment32Is
    <2> QED
      BY <2>2, <2>3
  <1>3. DOMAIN mem' = {b + q : q \in DOMAIN head}
    BY DEF CopyHead
  <1>4. \A a \in DOMAIN mem' : mem'[a] = IF a - b \in DOMAIN head THEN head[a - b] ELSE mem[a]
    BY DEF CopyHead
  <1>5. \A q \in DOMAIN head : head[q] =
          LET j == CHOOSE j \in SegmentCommands : q \in WordsAt(j, HeadSize)
          IN  f.cmds[j].words[q - f.cmds[j].fileoff]
    BY DEF FileHead, SegmentCommands
  <1> HIDE DEF head
  <1>6. PICK off \in Nat : off = f.cmds[k].fileoff /\ o \in Nat
    BY Segment32Is
  <1>7. PICK at \in Nat : at = off + o
    BY <1>6
  <1>8. /\ b \in Nat /\ HeadPlace(b, k, o) = b + at /\ (b + at) - b = at
        /\ InHead(k, o) <=> at + 8 <= HeadSize
    <2>1. b \in Nat /\ b + off + o = b + at
      BY <1>6, <1>7, BasesAre
    <2>2. HeadPlace(b, k, o) = b + off + o /\ (InHead(k, o) <=> off + o + 8 <= HeadSize)
      BY <1>6 DEF HeadPlace, InHead
    <2> QED
      BY <1>6, <1>7, <2>1, <2>2
  <1>9. CASE at + 8 <= HeadSize
    <2>1. at \in WordsAt(k, HeadSize)
      BY <1>6, <1>9, <1>7 DEF WordsAt
    <2>2. at \in DOMAIN head
      BY <1>1, <2>1
    <2>3. PICK j : j = CHOOSE l \in SegmentCommands : at \in WordsAt(l, HeadSize)
      OBVIOUS
    <2>4. j \in SegmentsOf(f) /\ at \in WordsAt(j, HeadSize)
      BY <2>1, <2>3 DEF SegmentCommands
    <2>5. PICK q \in DOMAIN f.cmds[j].words : at = f.cmds[j].fileoff + q
      BY <2>4 DEF WordsAt
    <2>6. f.cmds[j].words[q] = f.cmds[k].words[o]
      BY <1>6, <1>7, <2>4, <2>5 DEF LinkedHead
    <2>7. at - f.cmds[j].fileoff = q
      <3>1. f.cmds[j].fileoff \in Nat /\ q \in Nat
        BY <2>4, Segment32Is, Zenon
      <3> QED
        BY <2>5, <3>1
    <2>8. head[at] = f.cmds[k].words[o]
      BY <1>5, <2>2, <2>3, <2>6, <2>7
    <2> QED
      BY <1>3, <1>4, <1>8, <1>9, <2>2, <2>8
  <1>10. CASE ~(at + 8 <= HeadSize)
    <2>1. ASSUME b + at \in DOMAIN mem' PROVE FALSE
      <3>1. PICK q \in DOMAIN head : b + at = b + q
        BY <1>3, <2>1
      <3>2. q \in Nat /\ q + 8 <= HeadSize
        BY <1>2
      <3> QED
        BY <1>6, <1>8, <1>10, <3>1, <3>2
    <2> QED
      BY <1>8, <1>10, <2>1
  <1> QED
    BY <1>9, <1>10

(* A segment command of either kind at hand. *)
LEMMA Segment32AtHand ==
  ASSUME HeadInv, LoadText \/ LoadOther, NEW k, k = c_load_command + 1
  PROVE  /\ file' = file /\ c_load_command' = k /\ lpc' = "command"
         /\ c_load_command \in Nat /\ c_load_command < Len(file.cmds) /\ file \in Files
         /\ k \in SegmentsOf(file) /\ command = file.cmds[k] /\ RecordSegment
         /\ \A j \in SegmentsOf(file) : Passed(j)' <=> Passed(j) \/ j = k
         /\ ~Passed(k)
  <1>1. /\ lpc = "command" /\ c_load_command < Len(file.cmds) /\ command.cmd = "LC_SEGMENT"
        /\ file' = file /\ c_load_command' = k /\ lpc' = lpc /\ RecordSegment
    BY DEF LoadText, LoadOther, AtText, AtCommand, AfterLoadSegment
  <1>2. /\ k \in 1 .. Len(file.cmds) /\ command = file.cmds[k]
    BY <1>1, AtTheCommand DEF HeadInv
  <1>3. file \in Files /\ c_load_command \in Nat
    BY DEF HeadInv, Walk
  <1>4. k \in SegmentsOf(file)
    BY <1>1, <1>2, <1>3, FilesAssumption DEF IsFile, SegmentsOf
  <1>5. \A j \in SegmentsOf(file) : j \in Nat
    BY <1>3, NumberGrows
  <1>6. /\ \A j \in SegmentsOf(file) : Passed(j)' <=> Passed(j) \/ j = k
        /\ ~Passed(k)
    BY <1>1, <1>3, <1>5 DEF Passed
  <1> QED
    BY <1>1, <1>2, <1>3, <1>4, <1>6

LEMMA Map32 ==
  ASSUME HeadInv, LoadText \/ LoadOther
  PROVE  /\ HeadMapped' /\ MemoryIsHead'
         /\ img_addr # Null => img_addr' = img_addr /\ v_addr' = v_addr
  <1>1. PICK k : k = c_load_command + 1
    OBVIOUS
  <1>2. /\ file' = file /\ file \in Files /\ k \in SegmentsOf(file) /\ command = file.cmds[k]
        /\ \A j \in SegmentsOf(file) : Passed(j)' <=> Passed(j) \/ j = k
        /\ ~Passed(k) /\ LinkedHead(file)
    BY <1>1, Segment32AtHand DEF HeadInv
  <1>3. CASE LoadText
    <2>1. /\ command.segname = "__TEXT" /\ img_addr' \in HostBases /\ v_addr' = command.vmaddr
          /\ CopyHead
      BY <1>3 DEF LoadText, AtText
    <2>2. \A j \in SegmentsOf(file) : file.cmds[j].segname = "__TEXT" => j = k
      BY <1>2, <2>1, FilesAssumption DEF IsFile, OneText, SegmentsOf
    <2>3. img_addr = Null /\ mem = << >>
      BY <1>2, <2>2 DEF HeadInv, HeadMapped
    <2>4. HeadMapped'
      BY <1>2, <2>1 DEF HeadMapped
    <2>5. PICK b \in HostBases : b = img_addr'
      BY <2>1
    <2>6. \A j, o : (InHead(j, o)' <=> InHead(j, o)) /\ \A a : HeadPlace(a, j, o)' = HeadPlace(a, j, o)
      BY <1>2 DEF InHead, HeadPlace
    <2>7. MemoryIsHead'
      <3> SUFFICES ASSUME NEW j \in SegmentsOf(file), NEW o \in DOMAIN file.cmds[j].words
                   PROVE  IF InHead(j, o)
                            THEN /\ HeadPlace(b, j, o) \in DOMAIN mem'
                                 /\ mem'[HeadPlace(b, j, o)] = file.cmds[j].words[o]
                            ELSE HeadPlace(b, j, o) \notin DOMAIN mem'
        BY <1>2, <2>5 DEF MemoryIsHead, InHead, HeadPlace
      <3> QED
        BY <1>2, <2>1, <2>3, <2>5, HeadCopied
    <2> QED
      BY <2>3, <2>4, <2>7
  <1>4. CASE LoadOther
    <2>1. command.segname # "__TEXT" /\ UNCHANGED <<img_addr, v_addr, mem>>
      BY <1>4 DEF LoadOther
    <2>2. HeadMapped'
      BY <1>2, <2>1 DEF HeadInv, HeadMapped
    <2>3. MemoryIsHead'
      BY <1>2, <2>1 DEF HeadInv, MemoryIsHead, InHead, HeadPlace
    <2> QED
      BY <2>1, <2>2, <2>3
  <1> QED
    BY <1>3, <1>4

LEMMA SlidIs ==
  ASSUME NEW b \in HostBases, NEW v \in Nat, NEW a \in Nat
  PROVE  /\ (b + a - v) % AddrMod \in Addr
         /\ (b + v - v) % AddrMod = b
  <1>1. b \in Nat /\ b < AddrMod /\ AddrMod \in Nat \ {0}
    BY BasesAre, WidthAssumption
  <1>2. PICK x \in Int : x = b + a - v
    BY <1>1
  <1>3. x % AddrMod \in Addr
    BY <1>2, WordSum DEF Addr
  <1>4. b + v - v = b
    BY <1>1
  <1> QED
    BY <1>1, <1>2, <1>3, <1>4, ModOfSmall

LEMMA MappedAddr32 ==
  ASSUME HeadInv, LoadText \/ LoadOther, NEW k, k = c_load_command + 1
  PROVE  /\ MappedAddr \in Addr
         /\ MappedAddr # Null => img_addr' # Null /\ MappedAddr = Slid(file.cmds[k].vmaddr)'
  <1>1. /\ file' = file /\ file \in Files /\ k \in SegmentsOf(file) /\ command = file.cmds[k]
        /\ LinkedHead(file)
    BY Segment32AtHand DEF HeadInv
  <1>2. PICK v \in Nat : v = file.cmds[k].vmaddr
    BY <1>1, Segment32Is
  <1>3. Slid(file.cmds[k].vmaddr)' = (img_addr' + v - v_addr') % AddrMod
    BY <1>1, <1>2 DEF Slid
  <1>4. \/ img_addr' = Null
        \/ img_addr' \in HostBases /\ v_addr' \in Nat
    <2>1. HeadMapped'
      BY Map32
    <2>2. \A j \in SegmentsOf(file) : file.cmds[j].vmaddr \in Nat
      BY <1>1, Segment32Is
    <2> QED
      BY <1>1, <2>1, <2>2 DEF HeadMapped
  <1>5. Null \in Addr
    BY WidthAssumption DEF Null, Addr, Word
  <1>6. CASE command.segname = "__PAGEZERO"
    BY <1>5, <1>6 DEF MappedAddr
  <1>7. CASE command.segname = "__TEXT"
    <2>1. LoadText
      BY <1>7 DEF LoadOther
    <2>2. img_addr' \in HostBases /\ v_addr' = v
      BY <1>1, <1>2, <2>1 DEF LoadText
    <2>3. MappedAddr = img_addr'
      BY <1>7 DEF MappedAddr
    <2>4. img_addr' \in Addr /\ img_addr' # Null
      BY <2>2, HostAssumption
    <2> QED
      BY <1>2, <1>3, <2>2, <2>3, <2>4, SlidIs
  <1>8. CASE command.segname \notin {"__PAGEZERO", "__TEXT"}
    <2>1. MappedAddr = IF img_addr' # Null /\ v_addr' # Null
                         THEN (img_addr' + v - v_addr') % AddrMod ELSE Null
      BY <1>1, <1>2, <1>8 DEF MappedAddr
    <2> QED
      BY <1>2, <1>3, <1>4, <1>5, <2>1, SlidIs
  <1> QED
    BY <1>6, <1>7, <1>8

LEMMA Segment32KeepsInv ==
  ASSUME HeadInv, LoadText \/ LoadOther, Walk(32)'
  PROVE  HeadInv' /\ TableGrows
  <1>1. PICK k : k = c_load_command + 1
    OBVIOUS
  <1>2. /\ file' = file /\ file \in Files /\ k \in SegmentsOf(file) /\ command = file.cmds[k]
        /\ c_load_command' = k /\ lpc' = "command" /\ RecordSegment
        /\ c_load_command \in Nat /\ c_load_command < Len(file.cmds)
        /\ \A j \in SegmentsOf(file) : Passed(j)' <=> Passed(j) \/ j = k
    BY <1>1, Segment32AtHand
  <1>3. /\ HeadMapped' /\ MemoryIsHead'
        /\ img_addr # Null => img_addr' = img_addr /\ v_addr' = v_addr
    BY Map32
  <1>4. /\ MappedAddr \in Addr
        /\ MappedAddr # Null => img_addr' # Null /\ MappedAddr = Slid(file.cmds[k].vmaddr)'
    BY <1>1, MappedAddr32
  <1>5. Entry(k) \in SegmentInfo
    BY <1>2, <1>4, Segment32Is, WidthAssumption DEF Entry, SegmentInfo, HeadInv, Addr, Word
  <1>6. /\ TableGrows /\ TableLength'
        /\ Number(file, k) <= Len(segments') => segments'[Number(file, k)] = Entry(k)
    BY <1>1, <1>2, <1>5, RecordGrowsTable DEF HeadInv
  <1>7. TableIsSlid'
    <2> SUFFICES ASSUME NEW j \in SegmentsOf(file), Passed(j) \/ j = k, Number(file, j) <= Len(segments')
                 PROVE  EntryIsSlid(j)'
      BY <1>2 DEF TableIsSlid
    <2>1. CASE j = k
      <3>1. segments'[Number(file, k)] = Entry(k)
        BY <1>6, <2>1
      <3>2. Entry(k).segname = file.cmds[k].segname /\ Entry(k).mapped_addr = MappedAddr
        BY DEF Entry
      <3> QED
        BY <1>2, <1>4, <2>1, <3>1, <3>2 DEF EntryIsSlid
    <2>2. CASE Passed(j)
      <3>1. /\ Number(file, j) \in 1 .. Len(segments)
            /\ segments'[Number(file, j)] = segments[Number(file, j)]
        BY <1>6, <2>2 DEF TableGrows
      <3>2. EntryIsSlid(j)
        BY <2>2, <3>1 DEF HeadInv, TableIsSlid
      <3> QED
        BY <1>2, <1>3, <3>1, <3>2 DEF EntryIsSlid, Slid
    <2> QED
      BY <2>1, <2>2
  <1> QED
    BY <1>2, <1>3, <1>6, <1>7 DEF HeadInv, TableGrows

(* The other steps leave the image and the table alone.                     *)
Aside32 ==
  /\ UNCHANGED <<file, img_addr, segments, mem, v_addr>>
  /\ \/ c_load_command' = c_load_command
     \/ /\ c_load_command' = c_load_command + 1
        /\ c_load_command + 1 \notin SegmentsOf(file)
  /\ lpc' = "binds" => file.cmds[c_load_command' + 1].cmd = "LC_DYLD_INFO"

Aside32Step ==
  \/ ReadHeader \/ EndCommands32 \/ CrashInText \/ FindMain32 \/ LoadDylib32 \/ PassCommand32
  \/ CallBinds32 \/ RunBinds \/ ReturnBinds

LEMMA Command32AtHand ==
  ASSUME HeadInv, lpc \in {"command", "binds"}, c_load_command < Len(file.cmds)
  PROVE  /\ command = file.cmds[c_load_command + 1] /\ c_load_command \in Nat
         /\ command.cmd # "LC_SEGMENT" => c_load_command + 1 \notin SegmentsOf(file)
  <1>1. command = file.cmds[c_load_command + 1] /\ c_load_command \in Nat
    BY AtTheCommand DEF HeadInv, Walk
  <1> QED
    BY <1>1 DEF HeadInv, LinkedHead

LEMMA Aside32Is ==
  ASSUME HeadInv, Aside32Step \/ UNCHANGED loader_vars
  PROVE  Aside32
  <1> USE DEF context
  <1>1. CASE ReadHeader \/ EndCommands32 \/ CrashInText
    BY <1>1 DEF ReadHeader, EndCommands32, CrashInText, Aside32
  <1>2. CASE FindMain32 \/ LoadDylib32 \/ PassCommand32
    <2>1. /\ UNCHANGED <<file, img_addr, segments, mem, v_addr, lpc>>
          /\ lpc = "command" /\ c_load_command < Len(file.cmds) /\ command.cmd # "LC_SEGMENT"
          /\ c_load_command' = c_load_command + 1
      BY <1>2 DEF FindMain32, LoadDylib32, FindMain, LoadDylib, PassCommand32, AtCommand, NextCommand
    <2> QED
      BY <2>1, Command32AtHand DEF Aside32
  <1>3. CASE CallBinds32
    <2>1. /\ UNCHANGED <<file, img_addr, segments, mem, v_addr, c_load_command>>
          /\ lpc = "command" /\ c_load_command < Len(file.cmds) /\ command.cmd = "LC_DYLD_INFO"
      BY <1>3 DEF CallBinds32, CallBinds, AtCommand
    <2> QED
      BY <2>1, Command32AtHand DEF Aside32
  <1>4. CASE RunBinds
    <2>1. UNCHANGED <<file, img_addr, segments, mem, v_addr, c_load_command, lpc>>
      BY <1>4, BindsKeepImage DEF RunBinds, loader_state
    <2> QED
      BY <2>1 DEF Aside32, HeadInv
  <1>5. CASE ReturnBinds
    <2>1. /\ UNCHANGED <<file, img_addr, segments, mem, v_addr>>
          /\ lpc = "binds" /\ lpc' = "command" /\ c_load_command' = c_load_command + 1
      BY <1>5 DEF ReturnBinds, NextCommand
    <2>2. c_load_command < Len(file.cmds) /\ command.cmd = "LC_DYLD_INFO"
      BY <2>1, Command32AtHand DEF HeadInv, Walk
    <2> QED
      BY <2>1, <2>2, Command32AtHand DEF Aside32
  <1>6. CASE UNCHANGED loader_vars
    BY <1>6 DEF loader_vars, loader_state, Aside32, HeadInv
  <1> QED
    BY <1>1, <1>2, <1>3, <1>4, <1>5, <1>6 DEF Aside32Step

LEMMA Aside32KeepsInv ==
  ASSUME HeadInv, Aside32, Walk(32)'
  PROVE  HeadInv'
  <1>1. /\ UNCHANGED <<file, img_addr, segments, mem, v_addr>>
        /\ \/ c_load_command' = c_load_command
           \/ /\ c_load_command' = c_load_command + 1
              /\ c_load_command + 1 \notin SegmentsOf(file)
    BY DEF Aside32
  <1>2. file \in Files /\ c_load_command \in Nat
    BY DEF HeadInv, Walk
  <1>3. \A k \in SegmentsOf(file) : k \in Nat
    BY <1>2, NumberGrows
  <1>4. \A k \in SegmentsOf(file) : Passed(k)' <=> Passed(k)
    BY <1>1, <1>2, <1>3 DEF Passed
  <1>5. Number(file, c_load_command)' = Number(file, c_load_command)
    <2>1. CASE c_load_command' = c_load_command
      BY <1>1, <2>1
    <2>2. CASE c_load_command' # c_load_command
      <3>1. c_load_command < Len(file.cmds)
        <4>1. c_load_command + 1 \in 0 .. Len(file.cmds)
          BY <1>1, <2>2 DEF Walk
        <4> QED
          BY <1>2, <4>1, FilesAssumption DEF IsFile
      <3>2. Number(file, c_load_command + 1) = Number(file, c_load_command)
        BY <1>1, <1>2, <2>2, <3>1, NumberOfNext
      <3> QED
        BY <1>1, <2>2, <3>2
    <2> QED
      BY <2>1, <2>2
  <1>6. HeadMapped'
    BY <1>1, <1>4 DEF HeadInv, HeadMapped
  <1>7. MemoryIsHead'
    BY <1>1 DEF HeadInv, MemoryIsHead, InHead, HeadPlace
  <1>8. TableLength'
    BY <1>1, <1>5 DEF HeadInv, TableLength
  <1>9. TableIsSlid'
    BY <1>1, <1>4 DEF HeadInv, TableIsSlid, EntryIsSlid, Slid
  <1> QED
    BY <1>1, <1>6, <1>7, <1>8, <1>9 DEF HeadInv, Aside32

LEMMA HeadStep == HeadInv /\ [Loader32Next]_loader_vars => HeadInv'
  <1> SUFFICES ASSUME HeadInv, [Loader32Next]_loader_vars PROVE HeadInv'
    OBVIOUS
  <1>1. Walk(32)'
    BY Loader32Walks DEF HeadInv
  <1>2. CASE LoadText \/ LoadOther
    BY <1>1, <1>2, Segment32KeepsInv
  <1>3. CASE Aside32Step \/ UNCHANGED loader_vars
    BY <1>1, <1>3, Aside32Is, Aside32KeepsInv
  <1> QED
    BY <1>2, <1>3 DEF Loader32Next, Loader32Step, Loaded32, Aside32Step

LEMMA HeadBegins == Loader32Init /\ LinkedHead(file) => HeadInv
  <1> SUFFICES ASSUME Loader32Init, LinkedHead(file) PROVE HeadInv
    OBVIOUS
  <1>1. /\ file \in Files /\ lpc = "header" /\ c_load_command = 0
        /\ img_addr = Null /\ v_addr = Null /\ segments = << >> /\ mem = << >>
    BY DEF Loader32Init, LoaderInit
  <1>2. Walk(32)
    BY WalkBegins DEF Loader32Init
  <1>3. Number(file, 0) = 0
    <2>1. \A k \in SegmentsOf(file) : ~(k <= 0)
      BY <1>1, FilesAssumption DEF IsFile, SegmentsOf
    <2>2. Before(file, 0) = {}
      BY <2>1 DEF Before
    <2> QED
      BY <1>1, <2>2, BeforeIsFinite, FS_EmptySet
  <1>4. \A k \in SegmentsOf(file) : ~Passed(k)
    BY <1>1, FilesAssumption DEF IsFile, SegmentsOf, Passed
  <1>5. segments \in Seq(SegmentInfo) /\ Len(segments) = 0
    BY <1>1
  <1>6. TableLength /\ TableIsSlid /\ HeadMapped /\ MemoryIsHead
    BY <1>1, <1>3, <1>4, <1>5, LimitAssumption DEF TableLength, TableIsSlid, HeadMapped, MemoryIsHead
  <1> QED
    BY <1>1, <1>2, <1>5, <1>6, LimitAssumption DEF HeadInv

LEMMA HeadInvariant == Loader32Spec /\ LinkedHead(file) => []HeadInv
  BY HeadBegins, HeadStep, PTL DEF Loader32Spec

(* A recorded segment in step with the file: its words are at their places. *)
LEMMA InStepPlaces ==
  ASSUME HeadInv, NEW k \in SegmentsOf(file), Recorded(k), InStep(k),
         NEW o \in DOMAIN file.cmds[k].words
  PROVE  /\ img_addr \in HostBases /\ v_addr \in Nat
         /\ Slid(file.cmds[k].vmaddr) + o = HeadPlace(img_addr, k, o)
         /\ Slid(file.cmds[k].vmaddr + o) = HeadPlace(img_addr, k, o)
  <1>1. file \in Files /\ LinkedHead(file)
    BY DEF HeadInv, Walk
  <1>2. img_addr # Null
    BY DEF Recorded, SegmentNo, HeadInv, TableIsSlid, EntryIsSlid
  <1>3. img_addr \in HostBases /\ v_addr \in Nat
    <2>1. \A j \in SegmentsOf(file) : file.cmds[j].vmaddr \in Nat
      BY <1>1, Segment32Is
    <2> QED
      BY <1>2, <2>1 DEF HeadInv, HeadMapped
  <1>4. PICK v \in Nat, off \in Nat, size \in Nat :
          /\ v = file.cmds[k].vmaddr /\ off = file.cmds[k].fileoff /\ size = file.cmds[k].filesize
          /\ o \in Nat /\ o + 8 <= size
    BY <1>1, Segment32Is
  <1>5. PICK b \in Nat : b = img_addr /\ b \in HostBases
    BY <1>3, BasesAre
  <1>6. v - v_addr = off
    BY <1>4 DEF InStep
  <1>7. b + off + size <= AddrMod
    BY <1>1, <1>4, <1>5 DEF LinkedHead
  <1>8. /\ b + v - v_addr = b + off /\ b + (v + o) - v_addr = b + off + o
        /\ b + off < AddrMod /\ b + off + o < AddrMod
    BY <1>3, <1>4, <1>5, <1>6, <1>7, WidthAssumption
  <1>9. PICK x \in Nat, y \in Nat : x = b + off /\ y = b + off + o
    BY <1>4, <1>5
  <1>10. x % AddrMod = x /\ y % AddrMod = y
    BY <1>8, <1>9, ModOfSmall, WidthAssumption
  <1>11. Slid(v) = x /\ Slid(v + o) = y
    BY <1>5, <1>8, <1>9, <1>10 DEF Slid
  <1>12. HeadPlace(img_addr, k, o) = y /\ x + o = y
    BY <1>4, <1>5, <1>9 DEF HeadPlace
  <1> QED
    BY <1>3, <1>4, <1>11, <1>12

LEMMA InvHeadIsLoaded == HeadInv => HeadIsLoaded
  <1> SUFFICES ASSUME HeadInv, NEW k \in SegmentsOf(file), Recorded(k), InStep(k),
                      NEW s, s = segments[Number(file, k)], NEW c, c = file.cmds[k]
               PROVE  /\ s.segname = c.segname /\ s.mapped_addr = Slid(c.vmaddr)
                      /\ \A o \in DOMAIN c.words :
                           IF c.fileoff + o + 8 <= HeadSize
                             THEN s.mapped_addr + o \in DOMAIN mem /\ mem[s.mapped_addr + o] = c.words[o]
                             ELSE s.mapped_addr + o \notin DOMAIN mem
    BY DEF HeadIsLoaded, SegmentCommands, SegmentNo
  <1>1. s.segname = c.segname /\ s.mapped_addr = Slid(c.vmaddr) /\ img_addr # Null
    BY DEF Recorded, SegmentNo, HeadInv, TableIsSlid, EntryIsSlid
  <1>2. ASSUME NEW o \in DOMAIN c.words
        PROVE  IF c.fileoff + o + 8 <= HeadSize
                 THEN s.mapped_addr + o \in DOMAIN mem /\ mem[s.mapped_addr + o] = c.words[o]
                 ELSE s.mapped_addr + o \notin DOMAIN mem
    <2>1. s.mapped_addr + o = HeadPlace(img_addr, k, o)
      BY <1>1, InStepPlaces
    <2>2. IF InHead(k, o)
            THEN /\ HeadPlace(img_addr, k, o) \in DOMAIN mem
                 /\ mem[HeadPlace(img_addr, k, o)] = c.words[o]
            ELSE HeadPlace(img_addr, k, o) \notin DOMAIN mem
      BY <1>1 DEF HeadInv, MemoryIsHead
    <2> QED
      BY <2>1, <2>2 DEF InHead
  <1> QED
    BY <1>1, <1>2

(* In every state of the 32-bit loader, for every linked file and every     *)
(* base: a segment of the table that lies in memory as in the file has its  *)
(* address by the slide of __TEXT, and of its words just those in the first *)
(* HeadSize bytes of the file are there (load_segment).                     *)
THEOREM HeadIsLoadedHolds == Loader32Spec /\ LinkedHead(file) => []HeadIsLoaded
  BY HeadInvariant, InvHeadIsLoaded, PTL

----------------------------------------------------------------------------
(* The entry point of the 32-bit loader.                                    *)
Entry32Inv ==
  /\ OneSymbolTable(file) /\ EntryIsMain
  /\ lpc = "refused" => c_load_command = 0 \/ c_load_command >= Len(file.cmds)

(* A step that reads no symbol table leaves the entry point as it should be.*)
LEMMA Entry32Stays ==
  ASSUME HeadInv, Entry32Inv,
         \/ LoadText \/ LoadOther
         \/ UNCHANGED <<img_addr, v_addr, segments>>,
         UNCHANGED <<file, entry_point>>,
         \A j \in SymbolTables(file) : Passed(j)' => Passed(j),
         \A k \in SegmentsOf(file) : Passed(k) => Passed(k)'
  PROVE  EntryIsMain'
  <1>1. SegmentsOf(file) \subseteq Nat /\ SymbolTables(file) \subseteq Nat /\ c_load_command \in Nat
        /\ file \in Files /\ segments \in Seq(SegmentInfo)
    BY FilesAssumption DEF SegmentsOf, SymbolTables, IsFile, HeadInv, Walk
  <1>2. /\ TableGrows \/ UNCHANGED segments
        /\ img_addr # Null => img_addr' = img_addr /\ v_addr' = v_addr
    <2>1. CASE LoadText \/ LoadOther
      <3>1. Walk(32)'
        BY <2>1, Loader32Walks DEF HeadInv, Loader32Next, Loader32Step
      <3> QED
        BY <2>1, <3>1, Segment32KeepsInv, Map32
    <2> QED
      BY <2>1
  <1>3. \A j \in SymbolTables(file) : Passed(j) => (TextBefore(j)' => TextBefore(j))
    <2> SUFFICES ASSUME NEW j \in SymbolTables(file), Passed(j), TextBefore(j)'
                 PROVE  TextBefore(j)
      OBVIOUS
    <2>1. PICK k \in SegmentsOf(file) : k < j /\ file.cmds[k].segname = "__TEXT" /\ Recorded(k)'
      BY DEF TextBefore
    <2>2. Passed(k)
      BY <1>1, <2>1 DEF Passed
    <2>3. Recorded(k)
      BY <1>1, <1>2, <2>1, <2>2, EntriesStay
    <2> QED
      BY <2>1, <2>3 DEF TextBefore
  <1>4. ASSUME NEW j \in SymbolTables(file), TextBefore(j) PROVE \A a : Slid(a)' = Slid(a)
    <2>1. PICK k \in SegmentsOf(file) : Recorded(k)
      BY <1>4 DEF TextBefore
    <2>2. img_addr # Null
      BY <2>1 DEF Recorded, SegmentNo, HeadInv, TableIsSlid, EntryIsSlid
    <2> QED
      BY <1>2, <2>2 DEF Slid
  <1> QED
    BY <1>3, <1>4 DEF Entry32Inv, EntryIsMain

LEMMA FindMain32Sets ==
  ASSUME HeadInv, Entry32Inv, FindMain32
  PROVE  EntryIsMain'
  <1>1. PICK j : j = c_load_command + 1
    OBVIOUS
  <1>2. /\ lpc = "command" /\ c_load_command < Len(file.cmds) /\ command.cmd = "LC_SYMTAB"
        /\ UNCHANGED <<file, img_addr, v_addr>>
    BY DEF FindMain32, FindMain, AtCommand, context
  <1>3. /\ j \in 1 .. Len(file.cmds) /\ command = file.cmds[j] /\ file \in Files
    BY <1>1, <1>2, AtTheCommand DEF HeadInv, Walk
  <1>4. j \in SymbolTables(file)
    BY <1>2, <1>3, FilesAssumption DEF SymbolTables, IsFile
  <1>5. ASSUME NEW l \in SymbolTables(file), NEW n \in DOMAIN file.cmds[l].syms, LastMain(file.cmds[l], n)
        PROVE  entry_point' = Slid(file.cmds[l].syms[n].n_value)
    <2>1. file.cmds[l].syms = file.cmds[j].syms
      BY <1>4 DEF Entry32Inv, OneSymbolTable
    <2>2. n \in DOMAIN file.cmds[j].syms /\ LastMain(file.cmds[j], n)
      BY <1>5, <2>1 DEF LastMain, IsMain
    <2> DEFINE mains == {m \in DOMAIN file.cmds[j].syms : file.cmds[j].syms[m].name = "_main"}
    <2>3. mains # {} /\ Max(mains) = n
      BY <1>3, <1>4, <2>2, LastIsMax
    <2>4. entry_point' = IF mains = {} THEN entry_point ELSE Slid(file.cmds[j].syms[Max(mains)].n_value)
      BY <1>3 DEF FindMain32, FindMain
    <2> HIDE DEF mains
    <2> QED
      BY <2>1, <2>3, <2>4
  <1>6. \A a : Slid(a)' = Slid(a)
    BY <1>2 DEF Slid
  <1> QED
    BY <1>2, <1>5, <1>6 DEF EntryIsMain

(* The steps that read no symbol table pass none. *)
LEMMA Others32PassNoTable ==
  ASSUME HeadInv, Entry32Inv, Loader32Step \/ UNCHANGED loader_vars, ~FindMain32
  PROVE  /\ UNCHANGED <<file, entry_point>>
         /\ c_load_command' = c_load_command \/ c_load_command' = c_load_command + 1
         /\ \A j \in SymbolTables(file) : Passed(j)' => Passed(j)
         /\ lpc' = "refused" => c_load_command' = 0 \/ c_load_command' >= Len(file.cmds)
  <1>1. file \in Files /\ c_load_command \in Nat /\ SymbolTables(file) \subseteq Nat
    BY FilesAssumption DEF SymbolTables, IsFile, HeadInv, Walk
  <1>2. ASSUME c_load_command' = c_load_command \/ c_load_command' = c_load_command + 1,
               c_load_command' = c_load_command + 1 =>
                 c_load_command + 1 \notin SymbolTables(file)
        PROVE  \A j \in SymbolTables(file) : Passed(j)' => Passed(j)
    BY <1>1, <1>2 DEF Passed
  <1>3. ASSUME lpc \in {"command", "binds"}, c_load_command < Len(file.cmds),
               command.cmd # "LC_SYMTAB"
        PROVE  c_load_command + 1 \notin SymbolTables(file)
    BY <1>3, Command32AtHand DEF SymbolTables
  <1>4. CASE \/ ReadHeader \/ EndCommands32 \/ CrashInText \/ CallBinds32 \/ RunBinds
             \/ UNCHANGED loader_vars
    <2>1. UNCHANGED <<file, entry_point, c_load_command>>
      BY <1>4 DEF ReadHeader, EndCommands32, CrashInText, CallBinds32, CallBinds, RunBinds,
                  loader_state, loader_vars
    <2>2. lpc' = "refused" => c_load_command' = 0 \/ c_load_command' >= Len(file.cmds)
      BY <1>4 DEF ReadHeader, EndCommands32, CrashInText, CallBinds32, CallBinds, RunBinds,
                  loader_state, loader_vars, Entry32Inv, HeadInv, Walk
    <2>3. c_load_command' # c_load_command + 1
      BY <1>1, <2>1
    <2> QED
      BY <1>2, <2>1, <2>2, <2>3
  <1>5. CASE LoadText \/ LoadOther \/ LoadDylib32 \/ PassCommand32
    <2>1. /\ UNCHANGED <<file, entry_point>> /\ lpc' # "refused" /\ lpc = "command"
          /\ c_load_command' = c_load_command + 1 /\ c_load_command < Len(file.cmds)
          /\ command.cmd # "LC_SYMTAB"
      BY <1>5 DEF LoadText, LoadOther, AtText, AfterLoadSegment, LoadDylib32, LoadDylib, PassCommand32,
                  AtCommand, NextCommand
    <2> QED
      BY <1>2, <1>3, <2>1
  <1>6. CASE ReturnBinds
    <2>1. /\ UNCHANGED <<file, entry_point>> /\ lpc' # "refused" /\ lpc = "binds"
          /\ c_load_command' = c_load_command + 1
      BY <1>6 DEF ReturnBinds, NextCommand
    <2>2. c_load_command < Len(file.cmds) /\ command.cmd # "LC_SYMTAB"
      BY <2>1, Command32AtHand DEF HeadInv, Walk
    <2> QED
      BY <1>2, <1>3, <2>1, <2>2
  <1> QED
    BY <1>4, <1>5, <1>6 DEF Loader32Step

LEMMA Entry32Step == HeadInv /\ Entry32Inv /\ [Loader32Next]_loader_vars => Entry32Inv'
  <1> SUFFICES ASSUME HeadInv, Entry32Inv, [Loader32Next]_loader_vars PROVE Entry32Inv'
    OBVIOUS
  <1>1. CASE FindMain32
    <2>1. file' = file /\ lpc' = "command"
      BY <1>1 DEF FindMain32, FindMain, AtCommand
    <2> QED
      BY <1>1, <2>1, FindMain32Sets DEF Entry32Inv
  <1>2. CASE (Loader32Step \/ UNCHANGED loader_vars) /\ ~FindMain32
    <2>1. /\ UNCHANGED <<file, entry_point>>
          /\ c_load_command' = c_load_command \/ c_load_command' = c_load_command + 1
          /\ \A j \in SymbolTables(file) : Passed(j)' => Passed(j)
          /\ lpc' = "refused" => c_load_command' = 0 \/ c_load_command' >= Len(file.cmds)
      BY <1>2, Others32PassNoTable
    <2>2. LoadText \/ LoadOther \/ UNCHANGED <<img_addr, v_addr, segments>>
      BY <1>2, Aside32Is DEF Loader32Step, Aside32Step, Aside32
    <2>3. c_load_command \in Nat /\ SegmentsOf(file) \subseteq Nat
      BY FilesAssumption DEF SegmentsOf, IsFile, HeadInv, Walk
    <2>4. \A k \in SegmentsOf(file) : Passed(k) => Passed(k)'
      BY <2>1, <2>3 DEF Passed
    <2>5. EntryIsMain'
      BY <2>1, <2>2, <2>4, Entry32Stays
    <2> QED
      BY <2>1, <2>5 DEF Entry32Inv
  <1> QED
    BY <1>1, <1>2 DEF Loader32Next, Loaded32

LEMMA Entry32Begins == Loader32Init /\ OneSymbolTable(file) => Entry32Inv
  <1> SUFFICES ASSUME Loader32Init, OneSymbolTable(file) PROVE Entry32Inv
    OBVIOUS
  <1>1. file \in Files /\ lpc = "header" /\ c_load_command = 0
    BY DEF Loader32Init, LoaderInit
  <1>2. \A j \in SymbolTables(file) : ~Passed(j)
    BY <1>1, FilesAssumption DEF SymbolTables, IsFile, Passed
  <1> QED
    BY <1>1, <1>2 DEF Entry32Inv, EntryIsMain

LEMMA InvMainInHead == HeadInv /\ Entry32Inv => MainInHead
  <1> SUFFICES ASSUME HeadInv, Entry32Inv, lpc = "refused",
                      NEW j \in SymbolTables(file), NEW k \in SegmentsOf(file), k < j,
                      file.cmds[k].segname = "__TEXT", Recorded(k), InStep(k),
                      NEW n \in DOMAIN file.cmds[j].syms, NEW at,
                      at = file.cmds[j].syms[n].n_value - file.cmds[k].vmaddr,
                      LastMain(file.cmds[j], n), at \in DOMAIN file.cmds[k].words, InHead(k, at)
               PROVE  entry_point \in DOMAIN mem /\ mem[entry_point] = file.cmds[k].words[at]
    BY Zenon DEF MainInHead, SymbolTables, SegmentCommands, InHead
  <1>1. file \in Files /\ LinkedHead(file) /\ c_load_command \in Nat
    BY DEF HeadInv, Walk
  <1>2. Passed(j)
    <2>1. j \in 1 .. Len(file.cmds) /\ Len(file.cmds) \in Nat
      BY <1>1, FilesAssumption DEF SymbolTables, IsFile
    <2>2. k \in Nat \ {0} /\ k <= c_load_command
      BY <1>1, NumberGrows DEF Recorded, Passed
    <2>3. c_load_command >= Len(file.cmds)
      BY <1>1, <2>2 DEF Entry32Inv
    <2> QED
      BY <1>1, <2>1, <2>3 DEF Passed
  <1>3. entry_point = Slid(file.cmds[j].syms[n].n_value)
    BY <1>2 DEF Entry32Inv, EntryIsMain, TextBefore
  <1>4. file.cmds[j].syms[n].n_value = file.cmds[k].vmaddr + at
    <2>1. IsCommand(file.cmds[j]) /\ file.cmds[j].cmd = "LC_SYMTAB"
      BY <1>1, FilesAssumption DEF SymbolTables, IsFile
    <2>2. PICK v \in Nat : v = file.cmds[j].syms[n].n_value
      BY <2>1, WidthAssumption DEF IsCommand, symtab_command, nlist, Addr, Word
    <2>3. file.cmds[k].vmaddr \in Nat
      BY <1>1, Segment32Is
    <2> QED
      BY <2>2, <2>3
  <1>5. entry_point = HeadPlace(img_addr, k, at)
    BY <1>3, <1>4, InStepPlaces
  <1>6. img_addr # Null
    BY InStepPlaces, BasesAre
  <1> QED
    BY <1>5, <1>6 DEF HeadInv, MemoryIsHead

(* For every linked 32-bit file with one symbol table, every base: if       *)
(* __TEXT came before LC_SYMTAB and the last _main is a word of it in the   *)
(* head of the file, the entry point loader leaves is that word's place.    *)
THEOREM MainInHeadHolds ==
  Loader32Spec /\ LinkedHead(file) /\ OneSymbolTable(file) => []MainInHead
  BY Entry32Begins, Entry32Step, InvMainInHead, HeadInvariant, PTL DEF Loader32Spec

----------------------------------------------------------------------------
(* The binds of the 32-bit loader.                                          *)
LEMMA TableIsSlid32 == HeadInv => TableSlid
  BY DEF HeadInv, TableIsSlid, EntryIsSlid, TableSlid, Recorded, SegmentNo

LEMMA Binds32Step ==
  HeadInv /\ Typed(32) /\ BindsInv /\ [Loader32Next]_loader_vars => BindsInv'
  <1> SUFFICES ASSUME HeadInv, Typed(32), BindsInv, [Loader32Next]_loader_vars PROVE BindsInv'
    OBVIOUS
  <1>1. TableSlid /\ c_load_command \in Nat
    BY TableIsSlid32 DEF HeadInv, Walk
  <1> USE DEF context, lists, binds_state
  <1>2. CASE LoadText \/ LoadOther
    <2>1. Walk(32)'
      BY <1>2, Loader32Walks DEF HeadInv, Loader32Next, Loader32Step
    <2>2. TableGrows /\ (img_addr # Null => img_addr' = img_addr /\ v_addr' = v_addr)
      BY <1>2, <2>1, Segment32KeepsInv, Map32
    <2>3. /\ lpc = "command" /\ lpc' = "command" /\ c_load_command' = c_load_command + 1
          /\ UNCHANGED <<file, targets, b_list>>
      BY <1>2 DEF LoadText, LoadOther, AtText, AtCommand, AfterLoadSegment
    <2> QED
      BY <1>1, <2>2, <2>3, NoBindKeeps
  <1>3. CASE ReadHeader \/ EndCommands32 \/ CrashInText
    <2>1. /\ lpc # "binds" /\ lpc' # "binds" /\ c_load_command' = c_load_command
          /\ UNCHANGED <<file, targets, b_list, segments, img_addr, v_addr>>
      BY <1>3 DEF ReadHeader, EndCommands32, CrashInText, AtText, AtCommand
    <2> QED
      BY <1>1, <2>1, NoBindKeeps
  <1>4. CASE FindMain32 \/ LoadDylib32 \/ PassCommand32 \/ ReturnBinds
    <2>1. /\ lpc' = "command" /\ c_load_command' = c_load_command + 1
          /\ UNCHANGED <<file, targets, b_list, segments, img_addr, v_addr>>
      BY <1>4 DEF FindMain32, LoadDylib32, FindMain, LoadDylib, PassCommand32, ReturnBinds,
                  AtCommand, NextCommand
    <2> QED
      BY <1>1, <2>1, NoBindKeeps
  <1>5. CASE CallBinds32
    BY <1>5, CallBindsKeeps DEF CallBinds32
  <1>6. CASE RunBinds
    BY <1>6, RunBindsKeeps
  <1>7. CASE UNCHANGED loader_vars
    BY <1>7, StutterKeepsBinds
  <1> QED
    BY <1>2, <1>3, <1>4, <1>5, <1>6, <1>7 DEF Loader32Next, Loader32Step, Loaded32

(* For every linked 32-bit file, every base: each bind collected has the    *)
(* linker's name, and the place of its target if its segment had one in the *)
(* table when it was read, and none only if it had not (bind_list_retriever).*)
THEOREM BindsFollowTableHolds ==
  Loader32Spec /\ LinkedHead(file) /\ LinkedBinds(file) => []BindsFollowTable
<1> DEFINE Inv == HeadInv /\ Typed(32) /\ BindsInv
<1>1. Loader32Init /\ LinkedHead(file) /\ LinkedBinds(file) => Inv
  BY HeadBegins, TypedBegins, BindsBegin DEF Loader32Init
<1>2. Inv /\ [Loader32Next]_loader_vars => Inv'
  BY HeadStep, Loader32Typed, Binds32Step
<1>3. Inv => BindsFollowTable
  <2>1. Inv => BindsPlaced
    BY InvPlaced, TableIsSlid32
  <2> QED
    BY <2>1 DEF BindsPlaced, BindsFollowTable, SegmentCommands, SegmentNo
<1> QED
  BY <1>1, <1>2, <1>3, PTL DEF Loader32Spec
=============================================================================
