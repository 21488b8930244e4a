---------------------------- MODULE LoadCommands ----------------------------
(***************************************************************************)
(* The load commands of an executable, as mach-o/loader.h and              *)
(* mach-o/nlist.h declare them and as far as the loaders read them.        *)
(* off is where a command starts in the file; what a command points to     *)
(* with an offset into the file, it carries here.                          *)
(***************************************************************************)
EXTENDS ChainedFixups, BindOpcodes, FiniteSetsExt

CONSTANTS
  Files,        \* the executables
  HostPage      \* the alignment of mappings: 0x1000

ASSUME HostPageAssumption == HostPage \in Nat \ {0}

\* sizeof: headers, segment commands and sections of the two architectures.
SizeofMachHeader(bits) == IF bits = 64 THEN 32 ELSE 28
SizeofSegmentCommand(bits) == IF bits = 64 THEN 72 ELSE 56
SizeofSection(bits) == IF bits = 64 THEN 80 ELSE 68

(* cmdsize "includes sizeof section structs". *)
segment_command_size(c, bits) ==
  c.cmdsize = SizeofSegmentCommand(bits) + c.nsects * SizeofSection(bits)

(* The words of a segment are the part of the file it maps, by their offset *)
(* in the segment; the rest of the segment's memory is zero fill.           *)
IsSegment(c, bits) ==
  /\ segment_command_size(c, bits)
  /\ c.segname \in SegmentNames /\ c.nsects \in Nat
  /\ c.vmaddr \in Addr /\ c.vmsize \in Nat /\ c.fileoff \in Nat /\ c.filesize \in Nat
  /\ \A o \in DOMAIN c.words : o \in Nat /\ o + 8 <= c.filesize /\ c.words[o] \in Word
  /\ c.segname # "__PAGEZERO" => c.filesize <= c.vmsize

segment_command(c) == c.cmd = "LC_SEGMENT" => IsSegment(c, 32)

segment_command_64(c) == c.cmd = "LC_SEGMENT_64" => IsSegment(c, 64)

(* A symbol of the table at symoff; its name is one of the pool at stroff.  *)
nlist(s) == s.n_value \in Addr

symtab_command(c) ==
  c.cmd = "LC_SYMTAB" =>
    /\ Len(c.syms) \in Nat /\ DOMAIN c.syms = 1 .. Len(c.syms)
    /\ \A n \in DOMAIN c.syms : nlist(c.syms[n])

(* The path name of a library, for the strong and the weak ones. *)
dylib_command(c) == c.cmd \in {"LC_LOAD_DYLIB", "LC_LOAD_WEAK_DYLIB"} => c.dylib \in Dylibs

(* The streams at bind_off and lazy_bind_off, with the tuples they stand    *)
(* for (and code, the linker's account of them); the pointers of the stream *)
(* at rebase_off.                                                           *)
dyld_info_command(c) ==
  c.cmd = "LC_DYLD_INFO" =>
    /\ c.streams \in Seq(Seq(StreamItem)) /\ Len(c.streams) = 2
    /\ c.targets \in Seq([name : Names \cup {NoName}, seg : 0 .. 15, off : Addr, addend : Int])
    /\ c.rebases \subseteq [seg : 0 .. 15, off : Addr]

(* dataoff and datasize of LC_DYLD_CHAINED_FIXUPS: its payload. *)
linkedit_data_command(c) ==
  c.cmd = "LC_DYLD_CHAINED_FIXUPS" => c.fixups \in FixupsPayload /\ WellLinked(c.fixups)

entry_point_command(c) == c.cmd = "LC_MAIN" => c.entryoff \in Nat

LC ==
  {"LC_SEGMENT", "LC_SYMTAB", "LC_DYSYMTAB", "LC_LOAD_DYLIB", "LC_LOAD_DYLINKER",
   "LC_LOAD_WEAK_DYLIB", "LC_SEGMENT_64", "LC_DYLD_INFO", "LC_MAIN", "LC_DYLD_EXPORTS_TRIE",
   "LC_DYLD_CHAINED_FIXUPS"}

load_command(c) == c.cmd \in LC /\ c.off \in Nat /\ c.cmdsize \in Nat \ {0}

IsCommand(c) ==
  /\ load_command(c)
  /\ segment_command(c) /\ segment_command_64(c) /\ symtab_command(c) /\ dylib_command(c)
  /\ dyld_info_command(c) /\ linkedit_data_command(c) /\ entry_point_command(c)

(* determineBit *)
Bits(f) == IF f.magic = "MH_MAGIC" THEN 32 ELSE 64

(* The commands lie behind the header, each where the one before it ends.   *)
LaidOut(f) ==
  /\ Len(f.cmds) > 0 => f.cmds[1].off = SizeofMachHeader(Bits(f))
  /\ \A k \in 1 .. Len(f.cmds) - 1 : f.cmds[k + 1].off = f.cmds[k].off + f.cmds[k].cmdsize
  /\ \A j, k \in 1 .. Len(f.cmds) : f.cmds[j].off = f.cmds[k].off => j = k

(* At most one segment is called __TEXT.                                    *)
OneText(f) ==
  \A j, k \in 1 .. Len(f.cmds) :
    /\ f.cmds[j].cmd \in {"LC_SEGMENT", "LC_SEGMENT_64"} /\ f.cmds[j].segname = "__TEXT"
    /\ f.cmds[k].cmd \in {"LC_SEGMENT", "LC_SEGMENT_64"} /\ f.cmds[k].segname = "__TEXT"
    => j = k

(* A Mach-O file: its architecture and type, its commands. *)
IsFile(f) ==
  /\ f.magic \in {"MH_MAGIC", "MH_MAGIC_64", "other"}
  /\ f.filetype \in {"MH_EXECUTE", "MH_DYLIB"}
  /\ Len(f.cmds) \in Nat /\ DOMAIN f.cmds = 1 .. Len(f.cmds)
  /\ \A k \in 1 .. Len(f.cmds) : IsCommand(f.cmds[k])
  /\ LaidOut(f) /\ OneText(f)

ASSUME FilesAssumption == \A f \in Files : IsFile(f)
=============================================================================
