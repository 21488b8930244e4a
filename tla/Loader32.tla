------------------------------ MODULE Loader32 ------------------------------
(***************************************************************************)
(* loader (main.c): the walk over the load commands of a 32-bit executable,*)
(* which the code calls not implemented.  It maps __TEXT only, copies the  *)
(* head of the file into it, and reports failure when it is through; main  *)
(* goes on all the same.  What is the same code as in loader_64 is the     *)
(* same action here; places are 8 bytes apart here as there.               *)
(***************************************************************************)
EXTENDS Loader64

CONSTANT HeadSize     \* how much of the file is copied: 0x3000

ASSUME HeadSizeAssumption == HeadSize \in Nat

----------------------------------------------------------------------------
AtText == AtCommand({"LC_SEGMENT"}) /\ command.segname = "__TEXT"

(* The words of the file in its first n bytes, by their offset in the file. *)
WordsAt(k, n) == {q \in {file.cmds[k].fileoff + o : o \in DOMAIN file.cmds[k].words} : q + 8 <= n}
FileHead(n) ==
  [q \in UNION {WordsAt(k, n) : k \in SegmentCommands} |->
     LET k == CHOOSE k \in SegmentCommands : q \in WordsAt(k, n)
     IN  file.cmds[k].words[q - file.cmds[k].fileoff]]

(* A bug the runs must find: only what __TEXT has in the file is copied. *)
CopyHead_TextOnly ==
  LET head == FileHead(command.filesize) IN
  mem' = [a \in DOMAIN mem \cup {img_addr' + q : q \in DOMAIN head} |->
            IF a - img_addr' \in DOMAIN head THEN head[a - img_addr'] ELSE mem[a]]

CopyHead ==
  LET head == FileHead(HeadSize) IN
  mem' = [a \in DOMAIN mem \cup {img_addr' + q : q \in DOMAIN head} |->
            IF a - img_addr' \in DOMAIN head THEN head[a - img_addr'] ELSE mem[a]]

AfterLoadSegment ==
  /\ RecordSegment
  /\ ptr' = AfterSegment
  /\ c_load_command' = c_load_command + 1
  /\ UNCHANGED <<lists, file, lpc, entry_point, fixups_state, binds_state>>

(* load_segment of __TEXT: its address is a hint to mmap.  What lies behind *)
(* the end of a short file is no word of it, and left out, and so is the    *)
(* size of the mapping, alignMemory(filesize + 0x3000, 0x1000): a later     *)
(* store of do_bind beyond it succeeds here, where the process may fault.   *)
LoadText ==
  /\ AtText
  /\ img_addr' \in HostBases /\ v_addr' = command.vmaddr
  /\ CopyHead
  /\ AfterLoadSegment

(* A failed mmap is printed, and the copy goes to MAP_FAILED; the copy of a *)
(* file shorter than HeadSize may leave what is mapped of it.               *)
CrashInText ==
  /\ AtText
  /\ lpc' = "crashed"
  /\ UNCHANGED <<context, fixups_state, binds_state, file, ptr, c_load_command, v_addr, entry_point>>

(* A bug the runs must find: every segment starts a new mapping. *)
LoadOther_Mapped ==
  /\ AtCommand({"LC_SEGMENT"}) /\ command.segname # "__TEXT"
  /\ v_addr' = command.vmaddr
  /\ UNCHANGED <<img_addr, mem>>
  /\ AfterLoadSegment

(* load_segment of any other: only the table. *)
LoadOther ==
  /\ AtCommand({"LC_SEGMENT"}) /\ command.segname # "__TEXT"
  /\ UNCHANGED <<img_addr, v_addr, mem>>
  /\ AfterLoadSegment

(* The symbol table, the libraries and the bind opcodes. *)
FindMain32 == FindMain
LoadDylib32 == LoadDylib
CallBinds32 == CallBinds

(* A bug the runs must find: the loop goes on without the next command. *)
PassCommand32_Stuck ==
  /\ AtCommand(LC \ {"LC_SEGMENT", "LC_SYMTAB", "LC_LOAD_DYLIB", "LC_DYLD_INFO"})
  /\ UNCHANGED loader_vars

(* Everything else is only printed, the chained fixups too. *)
PassCommand32 ==
  /\ AtCommand(LC \ {"LC_SEGMENT", "LC_SYMTAB", "LC_LOAD_DYLIB", "LC_DYLD_INFO"})
  /\ NextCommand
  /\ UNCHANGED <<context, file, lpc, v_addr, entry_point, fixups_state, binds_state>>

(* The loader returns -1 when it is through. *)
EndCommands32 ==
  /\ lpc = "command" /\ c_load_command >= Len(file.cmds)
  /\ lpc' = "refused"
  /\ UNCHANGED <<context, fixups_state, binds_state,
                 file, ptr, c_load_command, v_addr, entry_point>>

Loader32Step ==
  \/ ReadHeader \/ EndCommands32
  \/ LoadText \/ CrashInText \/ LoadOther \/ FindMain32 \/ LoadDylib32 \/ PassCommand32
  \/ CallBinds32 \/ RunBinds \/ ReturnBinds

(* loader has returned to main, or the process is gone. *)
Loaded32 == lpc \in {"refused", "crashed"} /\ UNCHANGED loader_vars

Loader32Next == Loader32Step \/ Loaded32

Loader32Init == LoaderInit /\ Bits(file) = 32

(* One thread, which runs until loader returns or the process dies. *)
Loader32Spec ==
  /\ Loader32Init
  /\ [][Loader32Next]_loader_vars /\ WF_loader_vars(Loader32Step)

----------------------------------------------------------------------------
(* Segment command k lies in memory as it lies in the file, from __TEXT on. *)
InStep(k) == file.cmds[k].vmaddr - v_addr = file.cmds[k].fileoff

(* What a linker guarantees of an executable of 32 bits and a host of its   *)
(* memory: a place in the file has one word, and there is room for the file *)
(* behind every base.                                                       *)
LinkedHead(f) ==
  /\ \A k \in SegmentsOf(f) : f.cmds[k].cmd = "LC_SEGMENT"
  /\ \A j, k \in SegmentsOf(f) : \A o \in DOMAIN f.cmds[j].words, q \in DOMAIN f.cmds[k].words :
       f.cmds[j].fileoff + o = f.cmds[k].fileoff + q => f.cmds[j].words[o] = f.cmds[k].words[q]
  /\ \A b \in HostBases, k \in SegmentsOf(f) : b + f.cmds[k].fileoff + f.cmds[k].filesize <= AddrMod

(* Every command of the symbol table leads to the same one. *)
OneSymbolTable(f) == \A j, l \in SymbolTables(f) : f.cmds[j].syms = f.cmds[l].syms

(* A segment of the table that lies in memory as in the file (InStep; of    *)
(* others this says nothing) has its address by __TEXT's slide, as in       *)
(* loader_64, but only the head of the file is behind it: a word of it is   *)
(* there if and only if it is in the first HeadSize bytes.                  *)
HeadIsLoaded ==
  \A k \in SegmentCommands : Recorded(k) /\ InStep(k) =>
    LET s == segments[SegmentNo(k)]
        c == file.cmds[k]
    IN  /\ s.segname = c.segname /\ s.mapped_addr = Slid(c.vmaddr)
        /\ \A o \in DOMAIN c.words :
             IF c.fileoff + o + 8 <= HeadSize
               THEN s.mapped_addr + o \in DOMAIN mem /\ mem[s.mapped_addr + o] = c.words[o]
               ELSE s.mapped_addr + o \notin DOMAIN mem

(* Each bind collected is at the place the linker named, if its segment was *)
(* in the table with an address by then, and otherwise at Null, where       *)
(* do_bind does not store.                                                  *)
BindsFollowTable ==
  /\ NoBindDropped
  /\ \A n \in 1 .. Len(b_list) :
       LET a == b_list[n].address IN
       /\ b_list[n].func_name = targets[n].name
       /\ a # Null => \E k \in SegmentCommands :
                        /\ SegmentNo(k) = targets[n].seg + 1 /\ Recorded(k)
                        /\ a = Slid(file.cmds[k].vmaddr + targets[n].off)

(* The entry point is the word the file has at its last _main, if __TEXT    *)
(* came before the symbols and the word is in the head of the file.         *)
MainInHead ==
  lpc = "refused" =>
    \A j \in DOMAIN file.cmds, k \in SegmentCommands :
      /\ file.cmds[j].cmd = "LC_SYMTAB" /\ k < j
      /\ file.cmds[k].segname = "__TEXT" /\ Recorded(k) /\ InStep(k)
      => \A n \in DOMAIN file.cmds[j].syms :
           LET at == file.cmds[j].syms[n].n_value - file.cmds[k].vmaddr IN
           /\ LastMain(file.cmds[j], n)
           /\ at \in DOMAIN file.cmds[k].words /\ file.cmds[k].fileoff + at + 8 <= HeadSize
           => entry_point \in DOMAIN mem /\ mem[entry_point] = file.cmds[k].words[at]

(* The walk ends, whatever mmap does. *)
Loader32Returns == <>(lpc \in {"refused", "crashed"})
=============================================================================
