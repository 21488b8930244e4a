------------------------------ MODULE Loader64 ------------------------------
(***************************************************************************)
(* loader_64 (main.c): the walk over the load commands of a 64-bit         *)
(* executable.  It maps the image, copies and records the segments, finds  *)
(* _main, collects the libraries, and calls the two interpreters in        *)
(* between: the chained fixups and the bind opcodes run inside the command *)
(* that asks for them, over whatever the earlier commands have loaded.     *)
(***************************************************************************)
EXTENDS LoadCommands

VARIABLES
  file,         \* memblock: the file
  lpc,          \* where loader_64 is
  ptr,          \* context->ptr, as an offset in the file
  c_load_command,
  v_addr,       \* the lowest address the image asked for, Null until mapped
  entry_point

loader_state == <<file, lpc, ptr, c_load_command, v_addr, entry_point>>
loader_vars == <<context, fixups_state, binds_state, loader_state>>

----------------------------------------------------------------------------
NoPayload == [datasize |-> 0, starts_offset |-> 0, imports_format |-> IMPORT,
              imports |-> << >>, segs |-> << >>]

(* What is read at ptr: the command that starts there. *)
IsCommandAt(q) == \E k \in DOMAIN file.cmds : file.cmds[k].off = q
CommandAt(q) == file.cmds[CHOOSE k \in DOMAIN file.cmds : file.cmds[k].off = q]
command == CommandAt(ptr)

AtCommand(cmds) ==
  /\ lpc = "command" /\ c_load_command < Len(file.cmds)
  /\ IsCommandAt(ptr) /\ command.cmd \in cmds

(* The end of the loop's body for a command without sections. *)
NextCommand ==
  /\ ptr' = ptr + command.cmdsize
  /\ c_load_command' = c_load_command + 1

----------------------------------------------------------------------------
(* ensure_image_mapping_64: one mapping from the lowest to the highest      *)
(* address of any segment but __PAGEZERO.                                   *)
Mappable(f) ==
  {k \in DOMAIN f.cmds : /\ f.cmds[k].cmd = "LC_SEGMENT_64"
                         /\ f.cmds[k].segname # "__PAGEZERO" /\ f.cmds[k].vmsize # 0}

(* A bug the runs must find: the last segment's size is left out. *)
max_vmaddr_NoSize(f) == Max({f.cmds[k].vmaddr : k \in Mappable(f)})

min_vmaddr(f) == Min({f.cmds[k].vmaddr : k \in Mappable(f)})
max_vmaddr(f) == Max({(f.cmds[k].vmaddr + f.cmds[k].vmsize) % AddrMod : k \in Mappable(f)})

alignMemory(pointer, alignment) ==
  ((pointer + alignment - 1) \div alignment) * alignment

map_size(f) == alignMemory(max_vmaddr(f) - min_vmaddr(f), HostPage)

MappingWanted ==
  Mappable(file) # {} /\ max_vmaddr(file) > min_vmaddr(file)

(* mmap takes the lowest address as a hint and may put the image elsewhere, *)
(* or fail; the caller goes on either way, and the next segment tries again.*)
EnsureImageMapping ==
  \/ UNCHANGED <<img_addr, v_addr>>
  \/ /\ img_addr = Null /\ MappingWanted
     /\ img_addr' \in HostBases
     /\ v_addr' = min_vmaddr(file)

(* The place of a virtual address in the mapping. *)
Slid(a) == (img_addr + a - v_addr) % AddrMod

(* A bug the runs must find: the segment is copied before the mapping is    *)
(* made sure of.                                                            *)
CopySegment_Early ==
  IF /\ command.segname # "__PAGEZERO" /\ command.filesize # 0
     /\ img_addr # Null /\ v_addr # Null
    THEN LET dest == Slid(command.vmaddr)
             copied == {dest + o : o \in DOMAIN command.words}
         IN  mem' = [a \in DOMAIN mem \cup copied |->
                       IF a \in copied THEN command.words[a - dest] ELSE mem[a]]
    ELSE UNCHANGED mem

(* The copy of load_segment_64. *)
CopySegment ==
  IF /\ command.segname # "__PAGEZERO" /\ command.filesize # 0
     /\ img_addr' # Null /\ v_addr' # Null
    THEN LET dest == (img_addr' + command.vmaddr - v_addr') % AddrMod
             copied == {dest + o : o \in DOMAIN command.words}
         IN  mem' = [a \in DOMAIN mem \cup copied |->
                       IF a \in copied THEN command.words[a - dest] ELSE mem[a]]
    ELSE UNCHANGED mem

MappedAddr ==
  CASE command.segname = "__PAGEZERO" -> Null
    [] command.segname = "__TEXT" -> img_addr'
    [] OTHER -> IF img_addr' # Null /\ v_addr' # Null
                  THEN (img_addr' + command.vmaddr - v_addr') % AddrMod ELSE Null

(* A bug the runs must find: the table has no end. *)
RecordSegment_NoLimit ==
  segments' = Append(segments, [segname |-> command.segname, vmaddr |-> command.vmaddr,
                                vmsize |-> command.vmsize, mapped_addr |-> MappedAddr])

RecordSegment ==
  segments' =
    IF Len(segments) < MaxSegments
      THEN Append(segments, [segname |-> command.segname, vmaddr |-> command.vmaddr,
                             vmsize |-> command.vmsize, mapped_addr |-> MappedAddr])
      ELSE segments

(* A bug the runs must find: the sections are not passed over. *)
AfterSegment_NoSections ==
  ptr + (IF command.nsects # 0 THEN SizeofSegmentCommand(Bits(file)) ELSE command.cmdsize)

(* After a segment command with sections, ptr is moved by the sizes of the  *)
(* structures read; after one without, by cmdsize.                          *)
AfterSegment ==
  ptr + (IF command.nsects # 0
           THEN SizeofSegmentCommand(Bits(file)) + command.nsects * SizeofSection(Bits(file))
           ELSE command.cmdsize)

LoadSegment ==
  /\ AtCommand({"LC_SEGMENT_64"})
  /\ EnsureImageMapping
  /\ CopySegment
  /\ RecordSegment
  /\ ptr' = AfterSegment
  /\ c_load_command' = c_load_command + 1
  /\ UNCHANGED <<lists, file, lpc, entry_point, fixups_state, binds_state>>

(* A bug the runs must find: the first symbol called _main is taken. *)
FindMain_First ==
  /\ AtCommand({"LC_SYMTAB"})
  /\ LET mains == {n \in DOMAIN command.syms : command.syms[n].name = "_main"}
     IN  entry_point' = IF mains = {} THEN entry_point ELSE Slid(command.syms[Min(mains)].n_value)
  /\ NextCommand
  /\ UNCHANGED <<context, file, lpc, v_addr, fixups_state, binds_state>>

(* LC_SYMTAB: the last symbol called _main is the entry point. *)
FindMain ==
  /\ AtCommand({"LC_SYMTAB"})
  /\ LET mains == {n \in DOMAIN command.syms : command.syms[n].name = "_main"}
     IN  entry_point' = IF mains = {} THEN entry_point ELSE Slid(command.syms[Max(mains)].n_value)
  /\ NextCommand
  /\ UNCHANGED <<context, file, lpc, v_addr, fixups_state, binds_state>>

(* LC_LOAD_DYLIB: dylib_list_retriever *)
LoadDylib ==
  /\ AtCommand({"LC_LOAD_DYLIB"})
  /\ d_list' = Append(d_list, command.dylib)
  /\ NextCommand
  /\ UNCHANGED <<img_addr, segments, mem, b_list, file, lpc, v_addr, entry_point,
                 fixups_state, binds_state>>

(* A bug the runs must find: the loop goes on without the next command. *)
PassCommand_Stuck ==
  /\ AtCommand(LC \ {"LC_SEGMENT_64", "LC_SYMTAB", "LC_LOAD_DYLIB", "LC_DYLD_INFO",
                     "LC_DYLD_CHAINED_FIXUPS"})
  /\ UNCHANGED loader_vars

(* The commands that are only printed, LC_SEGMENT of 32-bit files too. *)
PassCommand ==
  /\ AtCommand(LC \ {"LC_SEGMENT_64", "LC_SYMTAB", "LC_LOAD_DYLIB", "LC_DYLD_INFO",
                     "LC_DYLD_CHAINED_FIXUPS"})
  /\ NextCommand
  /\ UNCHANGED <<context, file, lpc, v_addr, entry_point, fixups_state, binds_state>>

(* LC_DYLD_CHAINED_FIXUPS: dump_chained_fixups runs to its end. *)
CallFixups ==
  /\ AtCommand({"LC_DYLD_CHAINED_FIXUPS"})
  /\ fixups' = command.fixups /\ fpc' = "begin"
  /\ lpc' = "fixups"
  /\ UNCHANGED <<context, cursor, counters, visited, binds_state,
                 file, ptr, c_load_command, v_addr, entry_point>>

RunFixups ==
  /\ lpc = "fixups"
  /\ FixupsStep
  /\ UNCHANGED <<binds_state, loader_state>>

ReturnFixups ==
  /\ lpc = "fixups" /\ fpc = "return"
  /\ lpc' = "command"
  /\ NextCommand
  /\ UNCHANGED <<context, file, v_addr, entry_point, fixups_state, binds_state>>

(* LC_DYLD_INFO: bind_list_retriever runs on the two streams. *)
CallBinds ==
  /\ AtCommand({"LC_DYLD_INFO"})
  /\ streams' = command.streams /\ targets' = targets \o command.targets
  /\ pass' = 1 /\ bpc' = "begin"
  /\ lpc' = "binds"
  /\ UNCHANGED <<context, p, registers, times, b_list, fixups_state,
                 file, ptr, c_load_command, v_addr, entry_point>>

RunBinds ==
  /\ lpc = "binds"
  /\ BindsStep
  /\ UNCHANGED <<fixups_state, loader_state>>

ReturnBinds ==
  /\ lpc = "binds" /\ bpc = "return"
  /\ lpc' = "command"
  /\ NextCommand
  /\ UNCHANGED <<context, file, v_addr, entry_point, fixups_state, binds_state>>

(* The header: only an executable is loaded. *)
ReadHeader ==
  /\ lpc = "header"
  /\ IF file.filetype = "MH_EXECUTE"
       THEN lpc' = "command" /\ ptr' = SizeofMachHeader(Bits(file))
       ELSE lpc' = "refused" /\ UNCHANGED ptr
  /\ UNCHANGED <<context, fixups_state, binds_state,
                 file, c_load_command, v_addr, entry_point>>

EndCommands ==
  /\ lpc = "command" /\ c_load_command >= Len(file.cmds)
  /\ lpc' = "done"
  /\ UNCHANGED <<context, fixups_state, binds_state,
                 file, ptr, c_load_command, v_addr, entry_point>>

LoaderStep ==
  \/ ReadHeader \/ EndCommands
  \/ LoadSegment \/ FindMain \/ LoadDylib \/ PassCommand
  \/ CallFixups \/ RunFixups \/ ReturnFixups
  \/ CallBinds \/ RunBinds \/ ReturnBinds

(* loader_64 has returned to main. *)
Loaded == lpc \in {"done", "refused"} /\ UNCHANGED loader_vars

LoaderNext == LoaderStep \/ Loaded

LoaderInit ==
  /\ file \in Files
  /\ lpc = "header" /\ ptr = 0 /\ c_load_command = 0
  /\ img_addr = Null /\ v_addr = Null /\ entry_point = Null
  /\ segments = << >> /\ mem = << >> /\ d_list = << >>
  /\ fixups = NoPayload /\ fpc = "return"
  /\ seg_i = 1 /\ page = 1 /\ loc = 0 /\ chain_count = 0
  /\ chained_rebase_count = 0 /\ chained_bind_count = 0
  /\ chained_unresolved_bind_count = 0
  /\ visited = {}
  /\ streams = << << >>, << >> >> /\ targets = << >>
  /\ pass = 1 /\ bpc = "return" /\ p = 1
  /\ symbol_name = NoName /\ segment_index = -1 /\ segment_offset = 0
  /\ count = 0 /\ skip = 0
  /\ b_list = << >>

(* main calls loader_64 for a file of 64 bits. *)
Loader64Init == LoaderInit /\ Bits(file) = 64

(* One thread, which runs until loader_64 returns. *)
LoaderSpec ==
  /\ Loader64Init
  /\ [][LoaderNext]_loader_vars /\ WF_loader_vars(LoaderStep)

----------------------------------------------------------------------------
LoaderTypeOK ==
  /\ FixupsTypeOK /\ BindsTypeOK
  /\ lpc \in {"header", "command", "fixups", "binds", "done", "refused", "crashed"}
  /\ ptr \in Nat /\ c_load_command \in 0 .. Len(file.cmds)
  /\ v_addr \in Addr /\ entry_point \in Addr
  /\ d_list \in Seq(Dylibs)

SegmentsOf(f) == {k \in DOMAIN f.cmds : f.cmds[k].cmd \in {"LC_SEGMENT", "LC_SEGMENT_64"}}

(* Segment command k is the n-th of the file. *)
Number(f, k) == Cardinality({j \in SegmentsOf(f) : j <= k})

SegmentCommands == SegmentsOf(file)
SegmentNo(k) == Number(file, k)

(* What a linker guarantees of an executable of 64 bits and a host of its   *)
(* memory: the segments have their addresses to themselves, __TEXT lowest   *)
(* and not at 0, and there is room for all of them behind every base.       *)
Offset(f, k) == f.cmds[k].vmaddr - min_vmaddr(f)

LinkedSegments(f) ==
  /\ \A k \in SegmentsOf(f) :
       /\ f.cmds[k].cmd = "LC_SEGMENT_64"
       /\ f.cmds[k].segname = "__PAGEZERO" => DOMAIN f.cmds[k].words = {}
       /\ f.cmds[k].segname = "__TEXT" =>
            k \in Mappable(f) /\ \A j \in Mappable(f) : f.cmds[k].vmaddr <= f.cmds[j].vmaddr
  /\ \A k \in Mappable(f) :
       /\ f.cmds[k].vmaddr > 0 /\ f.cmds[k].vmaddr + f.cmds[k].vmsize < AddrMod
       /\ \A j \in Mappable(f) \ {k} :
            \/ f.cmds[j].vmaddr + f.cmds[j].vmsize <= f.cmds[k].vmaddr
            \/ f.cmds[k].vmaddr + f.cmds[k].vmsize <= f.cmds[j].vmaddr
  /\ Mappable(f) # {} => \A b \in HostBases : b + map_size(f) <= AddrMod

(* It writes one command of chained fixups at most, and the words they link *)
(* are those of the segment they are listed for.                            *)
FixupsCommands(f) == {j \in DOMAIN f.cmds : f.cmds[j].cmd = "LC_DYLD_CHAINED_FIXUPS"}

LinkedFixups(f) ==
  /\ \A j, l \in FixupsCommands(f) : j = l
  /\ \A j \in FixupsCommands(f) :
       LET fx == f.cmds[j].fixups IN
       \A i \in 1 .. Len(fx.segs) : \A q \in 1 .. Len(fx.segs[i].chain) :
         \A n \in 1 .. Len(fx.segs[i].chain[q]) :
           LET e == FixupAt(fx, i, q, n) IN
           \E k \in Mappable(f) :
             /\ Number(f, k) = i /\ e.off - Offset(f, k) \in DOMAIN f.cmds[k].words
             /\ f.cmds[k].words[e.off - Offset(f, k)] = e.raw

Linked(f) == LinkedSegments(f) /\ LinkedFixups(f)

(* The fixups keep to what the walk over them implements, and each is in a  *)
(* page it goes into when the segment is there.                             *)
SupportedFixups(f) ==
  \A j \in FixupsCommands(f) :
    LET fx == f.cmds[j].fixups IN
    /\ HeaderFits(fx) /\ SupportedPayload(fx)
    /\ \A i \in 1 .. Len(fx.segs) : \A q \in 1 .. Len(fx.segs[i].chain) :
         fx.segs[i].chain[q] # << >> => HasStarts(fx, i) /\ PageHasChain(fx.segs[i].page_start[q])

(* There is one symbol table at most, and the _main of it that counts is a  *)
(* word of __TEXT which no fixup changes.                                   *)
IsMain(c, n) == n \in DOMAIN c.syms /\ c.syms[n].name = "_main"
LastMain(c, n) == IsMain(c, n) /\ \A m \in DOMAIN c.syms : IsMain(c, m) => m <= n

SymbolTables(f) == {j \in DOMAIN f.cmds : f.cmds[j].cmd = "LC_SYMTAB"}

LinkedMain(f) ==
  /\ \A j, l \in SymbolTables(f) : j = l
  /\ \A j \in SymbolTables(f) : \A n \in DOMAIN f.cmds[j].syms :
       LastMain(f.cmds[j], n) =>
         \A k \in SegmentsOf(f) : f.cmds[k].segname = "__TEXT" =>
           LET at == f.cmds[j].syms[n].n_value - f.cmds[k].vmaddr IN
           /\ at \in DOMAIN f.cmds[k].words
           /\ \A l \in FixupsCommands(f) :
                LET fx == f.cmds[l].fixups IN
                \A i \in 1 .. Len(fx.segs) : \A q \in 1 .. Len(fx.segs[i].chain) :
                  \A r \in 1 .. Len(fx.segs[i].chain[q]) :
                    FixupAt(fx, i, q, r).off # Offset(f, k) + at

(* It writes one command of bind opcodes at most, and keeps account of it.  *)
BindsCommands(f) == {j \in DOMAIN f.cmds : f.cmds[j].cmd = "LC_DYLD_INFO"}

LinkedBinds(f) ==
  /\ \A j, l \in BindsCommands(f) : j = l
  /\ \A j \in BindsCommands(f) : Encodes(f.cmds[j].streams, f.cmds[j].code, f.cmds[j].targets)

(* No two of its binds are for the same place, and a program that has some  *)
(* has no chained fixups.                                                   *)
IsInSegment(f, t, k) == k \in SegmentsOf(f) /\ Number(f, k) = t.seg + 1

BindsApart(f) ==
  \A j \in BindsCommands(f) :
    LET ts == f.cmds[j].targets IN
    /\ \A m, n \in 1 .. Len(ts) : \A k, l \in SegmentsOf(f) :
         IsInSegment(f, ts[m], k) /\ IsInSegment(f, ts[n], l) =>
           /\ f.cmds[k].vmaddr + ts[m].off < AddrMod
           /\ f.cmds[k].vmaddr + ts[m].off = f.cmds[l].vmaddr + ts[n].off => m = n
    /\ ts # << >> =>
         \A l \in FixupsCommands(f) : \A i \in 1 .. Len(f.cmds[l].fixups.segs) :
           \A q \in 1 .. Len(f.cmds[l].fixups.segs[i].chain) :
             f.cmds[l].fixups.segs[i].chain[q] = << >>

(* Each of its binds is for a word the file has.                            *)
BindsInWords(f) ==
  \A j \in BindsCommands(f) : \A n \in 1 .. Len(f.cmds[j].targets) : \A k \in SegmentsOf(f) :
    IsInSegment(f, f.cmds[j].targets[n], k) =>
      f.cmds[j].targets[n].off \in DOMAIN f.cmds[k].words

(* The loop is past command k. *)
Passed(k) == k <= c_load_command

(* Segment command k has its entry in the table, with an address. *)
Recorded(k) ==
  Passed(k) /\ SegmentNo(k) <= Len(segments) /\ segments[SegmentNo(k)].mapped_addr # Null

(* ptr is at the command c_load_command counts: the two ways the loop moves *)
(* on agree with the sizes the commands state, by which the walk of         *)
(* ensure_image_mapping_64 goes.                                            *)
PtrAtCommand ==
  lpc \notin {"header", "refused"} /\ c_load_command < Len(file.cmds) =>
    ptr = file.cmds[c_load_command + 1].off

(* Entry n of the table is the n-th segment command, by which number the    *)
(* chained fixups and the bind opcodes know a segment; what has an address  *)
(* in it is at that address, whole: every word is the file's or has been    *)
(* processed by the fixups.  Also when mmap failed for the first segments.  *)
RecordedIsLoaded ==
  \A k \in SegmentCommands : Recorded(k) =>
    LET s == segments[SegmentNo(k)]
        c == file.cmds[k]
    IN  /\ s.segname = c.segname /\ s.mapped_addr = Slid(c.vmaddr)
        /\ \A o \in DOMAIN c.words :
             /\ s.mapped_addr + o \in DOMAIN mem
             /\ s.mapped_addr + o \notin visited => mem[s.mapped_addr + o] = c.words[o]

(* Nothing is written outside the one mapping, by copies or by fixups. *)
WritesInMapping ==
  \A a \in DOMAIN mem : img_addr # Null /\ a >= img_addr /\ a + 8 <= img_addr + map_size(file)

(* The word the file has for an offset of the image. *)
Holder(off) ==
  {k \in SegmentCommands :
     off - (file.cmds[k].vmaddr - min_vmaddr(file)) \in DOMAIN file.cmds[k].words}
FileWord(off) ==
  LET k == CHOOSE k \in Holder(off) : TRUE
  IN  file.cmds[k].words[off - (file.cmds[k].vmaddr - min_vmaddr(file))]

(* The fixups command j was reached with segment i of its payload mapped    *)
(* and in the table.                                                        *)
Reached(j, i) ==
  \E k \in SegmentCommands : k < j /\ SegmentNo(k) = i /\ Recorded(k)

(* When the loader returns, the fixups of a segment are all applied if the  *)
(* segment was loaded, recorded and before the command, and otherwise its   *)
(* words are exactly the file's: a segment beyond MACH_LOADER_MAX_SEGMENTS, *)
(* after the command, or passed before mmap succeeded is silently left      *)
(* encoded, never half-way.                                                 *)
FixupsAllOrNone ==
  lpc = "done" =>
    \A j \in {k \in DOMAIN file.cmds : file.cmds[k].cmd = "LC_DYLD_CHAINED_FIXUPS"} :
      LET fx == file.cmds[j].fixups IN
      \A i \in DOMAIN fx.segs : \A q \in DOMAIN fx.segs[i].chain :
        \A k \in DOMAIN fx.segs[i].chain[q] :
          LET e == FixupAt(fx, i, q, k)
              a == img_addr + e.off
          IN  IF Reached(j, i) THEN Load(a) = FormatValue(fx, img_addr, e.raw)
              ELSE a \in DOMAIN mem => mem[a] = e.raw

(* The entry point is the word of __TEXT that the file has at _main, at     *)
(* whatever base, provided __TEXT was mapped before LC_SYMTAB was read.     *)
MainIsLoaded ==
  lpc = "done" =>
    \A j \in DOMAIN file.cmds, k \in SegmentCommands :
      /\ file.cmds[j].cmd = "LC_SYMTAB" /\ k < j
      /\ file.cmds[k].segname = "__TEXT" /\ Recorded(k)
      => \A n \in DOMAIN file.cmds[j].syms :
           LastMain(file.cmds[j], n) =>
              /\ entry_point \in DOMAIN mem
              /\ mem[entry_point] = FileWord(file.cmds[j].syms[n].n_value - min_vmaddr(file))

(* A bind whose segment was recorded before the opcodes were read is not    *)
(* dropped: it has the place the linker named.                              *)
NoBindDropped ==
  \A n \in 1 .. Len(b_list), k \in SegmentCommands, j \in BindsCommands(file) :
    SegmentNo(k) = targets[n].seg + 1 /\ Recorded(k) /\ k < j =>
      b_list[n].address = Slid(file.cmds[k].vmaddr + targets[n].off)

(* Every address do_bind will store to is one of a word the loader copied,  *)
(* the one the linker named, or Null; and Null only if the segment of the   *)
(* bind is not in the table with an address, or came behind the opcodes.    *)
BindsHitLoadedWords ==
  /\ NoBindDropped
  /\ \A n \in DOMAIN b_list : b_list[n].address # Null =>
       /\ b_list[n].address \in DOMAIN mem
       /\ \E k \in SegmentCommands :
            /\ SegmentNo(k) = targets[n].seg + 1
            /\ b_list[n].address = Slid(file.cmds[k].vmaddr + targets[n].off)

(* An image of LC_DYLD_INFO that the host put at another base than the one  *)
(* it was linked for has every pointer its rebase information names moved   *)
(* by the distance (loader.h of LC_DYLD_INFO's rebase_off).                 *)
PointersAreRebased ==
  lpc = "done" =>
    \A j \in {k \in DOMAIN file.cmds : file.cmds[k].cmd = "LC_DYLD_INFO"} :
      \A r \in file.cmds[j].rebases : \A k \in SegmentCommands :
        SegmentNo(k) = r.seg + 1 /\ Recorded(k) =>
          mem[Slid(file.cmds[k].vmaddr + r.off)]
            = (file.cmds[k].words[r.off] + img_addr - v_addr) % AddrMod

(* A segment that is in the table with an address is mapped into memory     *)
(* with what it has in the file (loader.h of segment_command_64), whatever  *)
(* address it was linked for.                                               *)
SegmentsAreMapped ==
  lpc = "done" =>
    \A k \in Mappable(file) : Recorded(k) =>
      \A o \in DOMAIN file.cmds[k].words :
        LET a == Slid(file.cmds[k].vmaddr + o)
        IN  a \in DOMAIN mem /\ mem[a] = file.cmds[k].words[o]

(* Every library the file asks for, also one that is allowed to be missing  *)
(* (loader.h of LC_LOAD_WEAK_DYLIB), is in the list do_bind goes through.   *)
LibrariesAreListed ==
  lpc = "done" =>
    \A k \in DOMAIN file.cmds :
      file.cmds[k].cmd \in {"LC_LOAD_DYLIB", "LC_LOAD_WEAK_DYLIB"} =>
        \E n \in DOMAIN d_list : d_list[n] = file.cmds[k].dylib

(* The walk over the commands ends, whatever it runs in between. *)
LoaderReturns == <>(lpc \in {"done", "refused"})

----------------------------------------------------------------------------
(* The abstract program of a file: the words of each segment but            *)
(* __PAGEZERO by their offset in the image, and the payloads of its fixups. *)
ProgramOf(f) ==
  [parts |-> {LET c == f.cmds[k]
                  at == c.vmaddr - min_vmaddr(f)
              IN  [o \in {at + w : w \in DOMAIN c.words} |-> c.words[o - at]] : k \in Mappable(f)},
   payloads |-> {f.cmds[k].fixups :
                   k \in {j \in DOMAIN f.cmds : f.cmds[j].cmd = "LC_DYLD_CHAINED_FIXUPS"}}]

Image == INSTANCE ImageLoading WITH
  program <- ProgramOf(file),
  base <- img_addr,
  contents <- [o \in {a - img_addr : a \in DOMAIN mem} |-> mem[img_addr + o]],
  settled <- {a - img_addr : a \in visited}

(* The loader keeps that promise: its copies never meet a word that is      *)
(* there, nor undo a fixup, and every store of the chain walk is a fixup of *)
(* the file applied for the base the image has.                             *)
ImplementsImageLoading == Image!ImageSpec
=============================================================================
