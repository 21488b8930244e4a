---------------------------- MODULE MachContext ----------------------------
(***************************************************************************)
(* The part of mach_context (machctrl.h) the components share, with the    *)
(* memory of the process.  loader_64 fills it in, the chained fixups and   *)
(* the bind opcodes read it; the fixups and do_bind write the memory.      *)
(***************************************************************************)
EXTENDS MachO

CONSTANT NoName    \* func_name = NULL: no opcode has named a symbol yet

VARIABLES
  img_addr,   \* where the image is mapped, Null until mmap succeeds
  segments,   \* segments[0 .. n_segment_info - 1], counted from 1 here
  mem,        \* the words the loader has put in the mapping, by address
  b_list,     \* the binds collected for do_bind
  d_list      \* the libraries named for do_bind

lists == <<b_list, d_list>>
context == <<img_addr, segments, mem, lists>>

SegmentNames == {"__PAGEZERO", "__TEXT", "__DATA_CONST", "__DATA", "__LINKEDIT"}

SegmentInfo ==
  [segname : SegmentNames, vmaddr : Addr, vmsize : Nat, mapped_addr : Addr]

BindInfo == [func_name : Names \cup {NoName}, address : Addr]

(* The anonymous mapping is zero where no word was copied. *)
Load(a) == IF a \in DOMAIN mem THEN mem[a] ELSE 0

(* *(uint64_t * )a = w *)
Store(a, w) == mem' = [x \in DOMAIN mem \cup {a} |-> IF x = a THEN w ELSE mem[x]]

ContextTypeOK ==
  /\ img_addr \in Addr
  /\ segments \in Seq(SegmentInfo) /\ Len(segments) <= MaxSegments
  /\ DOMAIN mem \subseteq Nat /\ \A a \in DOMAIN mem : mem[a] \in Word
=============================================================================
