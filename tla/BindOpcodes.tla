---------------------------- MODULE BindOpcodes ----------------------------
(***************************************************************************)
(* The LC_DYLD_INFO branch of loader_64 (main.c) with bind_list_retriever  *)
(* (bind.c): the bind and the lazy-bind opcode streams of the file are     *)
(* interpreted into b_list, the list of symbols and places do_bind works   *)
(* off later.  The streams are read byte by byte; a symbol name is one item *)
(* of a stream, for its characters with the NUL behind them.               *)
(***************************************************************************)
EXTENDS MachContext

CONSTANTS
  WordBits,     \* the width of uint64_t: 64
  BindImages    \* what the interpreter can find loaded, with its streams

ASSUME WordBitsAssumption == WordBits \in Nat /\ AddrMod = 2^WordBits

(* What is at a place of a stream: a byte, or a name. *)
StreamItem == [byte : 0 .. 255, name : Names \cup {NoName}]

(* The table the loader leaves, and streams of bytes and names. *)
ASSUME BindImagesAssumption ==
  \A im \in BindImages :
    /\ im.img_addr \in Addr
    /\ im.segments \in Seq(SegmentInfo) /\ Len(im.segments) <= MaxSegments
    /\ im.streams \in Seq(Seq(StreamItem)) /\ Len(im.streams) = 2

VARIABLES
  streams,      \* what is at bind_off and at lazy_bind_off
  pass,         \* which of the two is being interpreted
  bpc,          \* where the interpreter is
  p,            \* the place in it, from 1
  symbol_name, segment_index, segment_offset,
  count, skip,  \* what is left of DO_BIND_ULEB_TIMES_SKIPPING_ULEB
  targets       \* history: the binds the linker put in the streams

registers == <<symbol_name, segment_index, segment_offset>>
times == <<count, skip>>
binds_state == <<streams, pass, bpc, p, registers, times, targets>>
binds_vars == <<context, binds_state>>

pointer_size == 8

(* BIND_OPCODE_DONE .. BIND_OPCODE_DO_BIND_ULEB_TIMES_SKIPPING_ULEB, 0x00   *)
(* to 0xC0; the three numbers behind them are unknown to the interpreter.   *)
Opcodes ==
  <<"DONE", "SET_DYLIB_ORDINAL_IMM", "SET_DYLIB_ORDINAL_ULEB", "SET_DYLIB_SPECIAL_IMM",
    "SET_SYMBOL_TRAILING_FLAGS_IMM", "SET_TYPE_IMM", "SET_ADDEND_SLEB",
    "SET_SEGMENT_AND_OFFSET_ULEB", "ADD_ADDR_ULEB", "DO_BIND", "DO_BIND_ADD_ADDR_ULEB",
    "DO_BIND_ADD_ADDR_IMM_SCALED", "DO_BIND_ULEB_TIMES_SKIPPING_ULEB">>

(* The opcodes without an effect here: DONE, which ends one lazy record,    *)
(* the ones that select a library, the type and the unknown ones; the ones  *)
(* whose operand is read and dropped, addends among them; the single binds. *)
NoEffect ==
  {"DONE", "SET_DYLIB_ORDINAL_IMM", "SET_DYLIB_SPECIAL_IMM", "SET_TYPE_IMM", "UNKNOWN"}
Dropped == {"SET_DYLIB_ORDINAL_ULEB", "SET_ADDEND_SLEB"}
SingleBinds == {"DO_BIND", "DO_BIND_ADD_ADDR_ULEB", "DO_BIND_ADD_ADDR_IMM_SCALED"}

----------------------------------------------------------------------------
(* A bug the runs must find: the table is indexed from 1. *)
bind_address_FromOne(index, offset) ==
  IF index \in 1 .. Len(segments) /\ segments[index].mapped_addr # Null
    THEN (segments[index].mapped_addr + offset) % AddrMod
    ELSE Null

(* Null when the index is out of the table or the segment is not mapped. *)
bind_address_for_segment_offset(index, offset) ==
  IF index \in 0 .. Len(segments) - 1 /\ segments[index + 1].mapped_addr # Null
    THEN (segments[index + 1].mapped_addr + offset) % AddrMod
    ELSE Null

append_bind_info ==
  /\ b_list' = Append(b_list,
       [func_name |-> symbol_name,
        address |-> bind_address_for_segment_offset(segment_index, segment_offset)])
  /\ UNCHANGED <<img_addr, segments, mem, d_list>>

stream == streams[pass]

(* read_uleb128 at q: the bytes up to the first without its top bit, or to  *)
(* the end; each gives seven bits, or-ed in at its shift.  A shift count of *)
(* 64 or more is taken modulo 64, as the hosts' shift instructions do.      *)
UlebBytes(q) == {k \in q .. Len(stream) : \A j \in q .. k - 1 : stream[j].byte >= 128}
UlebBits(q) ==
  {b \in 0 .. WordBits - 1 : \E k \in UlebBytes(q) :
     \E i \in 0 .. 6 : (stream[k].byte \div 2^i) % 2 = 1 /\ b = ((7 * (k - q)) % WordBits) + i}

(* The number of these bits, from the top one down.                          *)
NumberOf(bits) ==
  LET n[k \in 0 .. WordBits] ==
        IF k = 0 THEN 0
                 ELSE (2 * n[k - 1] + (IF WordBits - k \in bits THEN 1 ELSE 0)) % AddrMod
  IN  n[WordBits]

(* A bug the runs must find: the last byte's group is left out. *)
Uleb_NoLast(q) == NumberOf({b \in UlebBits(q) : b < 7 * (Cardinality(UlebBytes(q)) - 1)})

Uleb(q) == NumberOf(UlebBits(q))
AfterUleb(q) == q + Cardinality(UlebBytes(q))

(* BIND_OPCODE_MASK and BIND_IMMEDIATE_MASK. *)
OpcodeOf(item) ==
  LET n == item.byte \div 16 + 1 IN IF n <= Len(Opcodes) THEN Opcodes[n] ELSE "UNKNOWN"
ImmediateOf(item) == item.byte % 16

opcode == OpcodeOf(stream[p])
immediate == ImmediateOf(stream[p])

(* The operand behind the opcode. *)
operand == Uleb(p + 1)
AfterOperand == AfterUleb(p + 1)

At(ops) == bpc = "opcode" /\ p <= Len(stream) /\ opcode \in ops

(* bind_list_retriever starts from no symbol, no segment and offset 0. *)
BeginStream ==
  /\ bpc = "begin"
  /\ bpc' = "opcode" /\ p' = 1
  /\ symbol_name' = NoName /\ segment_index' = -1 /\ segment_offset' = 0
  /\ UNCHANGED <<context, streams, pass, times, targets>>

(* After the bind stream, the lazy-bind stream. *)
EndStream ==
  /\ bpc = "opcode" /\ p > Len(stream)
  /\ IF pass = 1 THEN pass' = 2 /\ bpc' = "begin"
                 ELSE bpc' = "return" /\ UNCHANGED pass
  /\ UNCHANGED <<context, streams, p, registers, times, targets>>

(* A bug the runs must find: the opcode is not consumed. *)
Ignore_Stuck == At(NoEffect) /\ UNCHANGED binds_vars

Ignore ==
  /\ At(NoEffect)
  /\ p' = p + 1
  /\ UNCHANGED <<context, streams, pass, bpc, registers, times, targets>>

(* An addend is signed and read as if it was not, which is as many bytes;   *)
(* "this loader does not use addends yet".                                  *)
DropOperand ==
  /\ At(Dropped)
  /\ p' = AfterOperand
  /\ UNCHANGED <<context, streams, pass, bpc, registers, times, targets>>

(* Behind the end of a stream the file goes on with what may be any name.   *)
NamesAt(q) == IF q \in DOMAIN stream THEN {stream[q].name} ELSE Names

SetSymbol ==
  /\ At({"SET_SYMBOL_TRAILING_FLAGS_IMM"})
  /\ symbol_name' \in NamesAt(p + 1)
  /\ p' = p + 2
  /\ UNCHANGED <<context, streams, pass, bpc, segment_index, segment_offset, times, targets>>

SetSegmentAndOffset ==
  /\ At({"SET_SEGMENT_AND_OFFSET_ULEB"})
  /\ segment_index' = immediate /\ segment_offset' = operand
  /\ p' = AfterOperand
  /\ UNCHANGED <<context, streams, pass, bpc, symbol_name, times, targets>>

(* A bug the runs must find: the offset does not wrap. *)
AddAddr_Unwrapped ==
  /\ At({"ADD_ADDR_ULEB"})
  /\ segment_offset' = segment_offset + operand
  /\ p' = AfterOperand
  /\ UNCHANGED <<context, streams, pass, bpc, symbol_name, segment_index, times, targets>>

(* A distance backwards is one that wraps around 2^64. *)
AddAddr ==
  /\ At({"ADD_ADDR_ULEB"})
  /\ segment_offset' = (segment_offset + operand) % AddrMod
  /\ p' = AfterOperand
  /\ UNCHANGED <<context, streams, pass, bpc, symbol_name, segment_index, times, targets>>

(* How far the three single binds move on, over the pointer they bound. *)
BindAdvance ==
  CASE opcode = "DO_BIND" -> 0
    [] opcode = "DO_BIND_ADD_ADDR_ULEB" -> operand
    [] opcode = "DO_BIND_ADD_ADDR_IMM_SCALED" -> immediate * pointer_size

AfterBind == IF opcode = "DO_BIND_ADD_ADDR_ULEB" THEN AfterOperand ELSE p + 1

(* A bug the runs must find: a bind does not move on over its pointer. *)
DoBind_NoPointer ==
  /\ At(SingleBinds)
  /\ append_bind_info
  /\ segment_offset' = (segment_offset + BindAdvance) % AddrMod
  /\ p' = AfterBind
  /\ UNCHANGED <<streams, pass, bpc, symbol_name, segment_index, times, targets>>

DoBind ==
  /\ At(SingleBinds)
  /\ append_bind_info
  /\ segment_offset' = (segment_offset + pointer_size + BindAdvance) % AddrMod
  /\ p' = AfterBind
  /\ UNCHANGED <<streams, pass, bpc, symbol_name, segment_index, times, targets>>

(* Its count, and the skip behind the count. *)
DoBindTimes ==
  /\ At({"DO_BIND_ULEB_TIMES_SKIPPING_ULEB"})
  /\ count' = operand /\ skip' = Uleb(AfterOperand)
  /\ bpc' = "times" /\ p' = AfterUleb(AfterOperand)
  /\ UNCHANGED <<context, streams, pass, registers, targets>>

BindOneOfTimes ==
  /\ bpc = "times" /\ count > 0
  /\ append_bind_info
  /\ segment_offset' = (segment_offset + pointer_size + skip) % AddrMod
  /\ count' = count - 1
  /\ UNCHANGED <<streams, pass, bpc, p, symbol_name, segment_index, skip, targets>>

EndTimes ==
  /\ bpc = "times" /\ count = 0
  /\ bpc' = "opcode"
  /\ UNCHANGED <<context, streams, pass, p, registers, times, targets>>

(* The LC_DYLD_INFO branch is over. *)
BindsReturned == bpc = "return" /\ UNCHANGED binds_vars

BindsStep ==
  \/ BeginStream \/ EndStream \/ Ignore \/ DropOperand
  \/ SetSymbol \/ SetSegmentAndOffset \/ AddAddr
  \/ DoBind \/ DoBindTimes \/ BindOneOfTimes \/ EndTimes

BindsNext == BindsStep \/ BindsReturned

(* The segments are loaded and recorded when the command is reached. *)
BindsInit ==
  /\ \E im \in BindImages :
       /\ img_addr = im.img_addr /\ segments = im.segments /\ mem = << >>
       /\ streams = im.streams /\ targets = im.targets
  /\ pass = 1 /\ bpc = "begin" /\ p = 1
  /\ symbol_name = NoName /\ segment_index = -1 /\ segment_offset = 0
  /\ count = 0 /\ skip = 0
  /\ b_list = << >> /\ d_list = << >>

(* One thread, straight through the streams. *)
BindsSpec == BindsInit /\ [][BindsNext]_binds_vars /\ WF_binds_vars(BindsStep)

----------------------------------------------------------------------------
(* What a linker writes (mach-o/loader.h of dyld_info_command): a table of  *)
(* binds, as opcodes that say what changes from one to the next.  A target  *)
(* is a row of the table: its symbol, segment, offset and addend.  (The     *)
(* type is always a pointer's; the ordinal of the library is in Binding.)   *)
(* Its account of a stream has a record for each opcode and one for the     *)
(* end: the place of the opcode, its numbers (those of                      *)
(* DO_BIND_ULEB_TIMES_... are times, and from mid on arg), the binds before *)
(* it and the offset in the segment they have come to.                      *)
Instruction == [at : Nat, mid : Nat, times : Word, arg : Word, n : Nat, off : Word]

(* A ULEB128 from q up to e; the number v in one, in groups of seven bits,  *)
(* with as many groups of none behind it as the linker likes.               *)
IsNumber(s, q, e) ==
  q < e /\ e <= Len(s) + 1 /\ \A k \in q .. e - 1 : s[k].byte >= 128 <=> k < e - 1

Septet(v, j) == IF 7 * j < WordBits THEN (v \div 2^(7 * j)) % 128 ELSE 0

IsUleb(s, q, e, v) ==
  /\ IsNumber(s, q, e)
  /\ \A k \in q .. e - 1 : s[k].byte % 128 = Septet(v, k - q)
  /\ \A j \in e - q .. WordBits : Septet(v, j) = 0

(* A SLEB128 of the number v, of either sign: in septets of its two's       *)
(* complement, the last of which has its sign.                              *)
IsSleb(s, q, e, v) ==
  /\ IsNumber(s, q, e)
  /\ \A k \in q .. e - 1 : s[k].byte % 128 = (v \div 2^(7 * (k - q))) % 128
  /\ v \div 2^(7 * (e - q) - 1) \in {0, -1}

BIND_TYPE_POINTER == 1

OpAt(s, c) == OpcodeOf(s[c.at])
ImmAt(s, c) == ImmediateOf(s[c.at])

(* Opcode c is written from its place up to e. *)
Written(s, c, e) ==
  CASE OpAt(s, c) \in Dropped -> IsNumber(s, c.at + 1, e)
    [] OpAt(s, c) \in {"SET_SEGMENT_AND_OFFSET_ULEB", "ADD_ADDR_ULEB", "DO_BIND_ADD_ADDR_ULEB"} ->
         IsUleb(s, c.at + 1, e, c.arg)
    [] OpAt(s, c) = "DO_BIND_ULEB_TIMES_SKIPPING_ULEB" ->
         IsUleb(s, c.at + 1, c.mid, c.times) /\ IsUleb(s, c.mid, e, c.arg)
    [] OpAt(s, c) = "SET_SYMBOL_TRAILING_FLAGS_IMM" -> e = c.at + 2 /\ e <= Len(s) + 1
    [] OTHER -> /\ OpAt(s, c) # "UNKNOWN" /\ e = c.at + 1
                /\ OpAt(s, c) = "SET_TYPE_IMM" => ImmAt(s, c) = BIND_TYPE_POINTER

(* The binds it makes, how far apart, and the offset it leaves. *)
Made(s, c) ==
  CASE OpAt(s, c) \in SingleBinds -> 1
    [] OpAt(s, c) = "DO_BIND_ULEB_TIMES_SKIPPING_ULEB" -> c.times
    [] OTHER -> 0

Stride(s, c) ==
  pointer_size + (CASE OpAt(s, c) = "DO_BIND" -> 0
                    [] OpAt(s, c) = "DO_BIND_ADD_ADDR_IMM_SCALED" -> ImmAt(s, c) * pointer_size
                    [] OTHER -> c.arg)

OffsetOf(s, c, m) == (c.off + m * Stride(s, c)) % AddrMod

Left(s, c) ==
  CASE OpAt(s, c) = "SET_SEGMENT_AND_OFFSET_ULEB" -> c.arg
    [] OpAt(s, c) = "ADD_ADDR_ULEB" -> (c.off + c.arg) % AddrMod
    [] OTHER -> OffsetOf(s, c, Made(s, c))

(* The symbol, the segment and the addend that were set last before opcode  *)
(* k; the addend is 0 before it is set.                                     *)
SetBefore(s, code, j, k, op) ==
  OpAt(s, code[j]) = op /\ \A i \in j + 1 .. k - 1 : OpAt(s, code[i]) # op

SymbolAt(s, code, k, name) ==
  LET set == "SET_SYMBOL_TRAILING_FLAGS_IMM" IN
  \/ \E j \in 1 .. k - 1 : SetBefore(s, code, j, k, set) /\ name = s[code[j].at + 1].name
  \/ name = NoName /\ \A j \in 1 .. k - 1 : OpAt(s, code[j]) # set

SegmentAt(s, code, k, seg) ==
  \E j \in 1 .. k - 1 :
    SetBefore(s, code, j, k, "SET_SEGMENT_AND_OFFSET_ULEB") /\ seg = ImmAt(s, code[j])

AddendAt(s, code, k, addend) ==
  LET set == "SET_ADDEND_SLEB" IN
  \/ \E j \in 1 .. k - 1 :
       SetBefore(s, code, j, k, set) /\ IsSleb(s, code[j].at + 1, code[j + 1].at, addend)
  \/ addend = 0 /\ \A j \in 1 .. k - 1 : OpAt(s, code[j]) # set

(* The account is of stream s, and the binds in it are those of ts. *)
EncodedAs(s, code, ts) ==
  /\ code \in Seq(Instruction) /\ code # << >>
  /\ code[1].at = 1 /\ code[1].off = 0 /\ code[Len(code)].at = Len(s) + 1
  /\ \A k \in 1 .. Len(code) - 1 :
       LET c == code[k] IN
       /\ c.at <= Len(s) /\ Written(s, c, code[k + 1].at)
       /\ code[k + 1].n = c.n + Made(s, c) /\ code[k + 1].off = Left(s, c)
       /\ code[k + 1].n <= Len(ts)
       /\ \A m \in 1 .. Made(s, c) :
            LET t == ts[c.n + m] IN
            SymbolAt(s, code, k, t.name) /\ SegmentAt(s, code, k, t.seg)
            /\ t.off = OffsetOf(s, c, m - 1) /\ AddendAt(s, code, k, t.addend)

(* So are the two streams: the binds of the first, then those of the other. *)
Encodes(ss, code, ts) ==
  /\ EncodedAs(ss[1], code[1], ts) /\ EncodedAs(ss[2], code[2], ts)
  /\ code[1][1].n = 0 /\ code[2][1].n = code[1][Len(code[1])].n
  /\ code[2][Len(code[2])].n = Len(ts)

(* The binds the loader supports have no addend. *)
NoAddends(ts) == \A n \in 1 .. Len(ts) : ts[n].addend = 0

----------------------------------------------------------------------------
BindsTypeOK ==
  /\ ContextTypeOK
  /\ streams \in Seq(Seq(StreamItem)) /\ Len(streams) = 2 /\ pass \in {1, 2}
  /\ bpc \in {"begin", "opcode", "times", "return"}
  /\ p \in Nat \ {0} /\ (bpc \in {"opcode", "times"} => p <= Len(stream) + 2)
  /\ symbol_name \in Names \cup {NoName}
  /\ segment_index \in -1 .. 15 /\ segment_offset \in Word
  /\ count \in Word /\ skip \in Word
  /\ b_list \in Seq(BindInfo)

(* Where a target of the linker is in memory: do_bind passes over the ones  *)
(* whose segment is not mapped or not in the table.                         *)
TargetInfo(t) ==
  [func_name |-> t.name, address |-> bind_address_for_segment_offset(t.seg, t.off)]

(* However the linker encoded its binds, with whatever of the opcodes for   *)
(* runs, strides and distances in either direction, the list grows through  *)
(* them in order and ends with all of them: none is lost, doubled, given    *)
(* another symbol or addend or put at another place.  An entry of the list  *)
(* has no addend, for bind_list_retriever drops it, and do_bind stores the  *)
(* symbol's address as it is: it stands for a bind whose addend is 0, and   *)
(* of a target with any other the property is false.                        *)
BindListMatches ==
  /\ Len(b_list) <= Len(targets)
  /\ \A n \in 1 .. Len(b_list) :
       b_list[n] = TargetInfo(targets[n]) /\ targets[n].addend = 0
  /\ bpc = "return" => Len(b_list) = Len(targets)

(* Every stream is interpreted to its end. *)
BindsReturn == <>(bpc = "return")
=============================================================================
