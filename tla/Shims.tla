------------------------------- MODULE Shims -------------------------------
(***************************************************************************)
(* The two shims of bind.c that do work of their own when the loaded       *)
(* program calls them: mmap with Darwin's flags and memset_pattern16.  The *)
(* program calls them one after the other; memset_pattern16 stores a byte  *)
(* at a time, over a pattern that may lie in what it fills.                *)
(***************************************************************************)
EXTENDS Integers

CONSTANTS
  PatternSize,  \* 16
  MemSize,      \* how much memory the program has
  Memories,     \* what may be in it
  Flags,        \* Darwin's flags but MAP_ANON, each by its bit
  DarwinAnon,   \* DARWIN_MAP_ANON, the bit 0x1000
  HostAnon      \* MAP_ANONYMOUS, the host's bit for it; Darwin may use it for another

Places == 0 .. MemSize - 1

ASSUME ShimsAssumption ==
  /\ PatternSize \in Nat \ {0} /\ MemSize \in Nat
  /\ DarwinAnon \notin Flags /\ DarwinAnon # HostAnon
  /\ \A m \in Memories : DOMAIN m = Places

VARIABLES
  spc,          \* where the call is
  bytes,        \* the program's memory
  old,          \* what it was when the call began
  dst, pattern16, len,  \* the arguments of memset_pattern16
  i,            \* its loop
  flags,        \* the flags of the last mmap
  host_flags    \* what the host was asked for

arguments == <<dst, pattern16, len>>
shims_vars == <<spc, bytes, old, arguments, i, flags, host_flags>>

----------------------------------------------------------------------------
(* A bug the runs must find: Darwin's bit goes to the host as well. *)
CallMmap_Kept(fs) ==
  /\ spc = "program"
  /\ flags' = fs
  /\ host_flags' = IF DarwinAnon \in fs THEN fs \cup {HostAnon} ELSE fs
  /\ UNCHANGED <<spc, bytes, old, arguments, i>>

(* host_mmap_for_darwin; a set of flags is the set of its bits.  Only       *)
(* MAP_ANON is translated: every other bit goes to the host as it is,       *)
(* whatever the host means by it.                                           *)
CallMmap(fs) ==
  /\ spc = "program"
  /\ flags' = fs
  /\ host_flags' = IF DarwinAnon \in fs THEN (fs \ {DarwinAnon}) \cup {HostAnon} ELSE fs
  /\ UNCHANGED <<spc, bytes, old, arguments, i>>

(* mal_memset_pattern16, up to its loop. *)
CallMemsetPattern16(d, p, n) ==
  /\ spc = "program"
  /\ dst' = d /\ pattern16' = p /\ len' = n /\ i' = 0
  /\ old' = bytes
  /\ spc' = "loop"
  /\ UNCHANGED <<bytes, flags, host_flags>>

(* A bug the runs must find: the last byte of the pattern is left out. *)
StoreByte_Short ==
  /\ spc = "loop" /\ i < len
  /\ bytes' = [bytes EXCEPT ![dst + i] = bytes[pattern16 + (i % (PatternSize - 1))]]
  /\ i' = i + 1
  /\ UNCHANGED <<spc, old, arguments, flags, host_flags>>

(* A bug the runs must find: the place is not moved on. *)
StoreByte_Stuck ==
  /\ spc = "loop" /\ i < len
  /\ bytes' = [bytes EXCEPT ![dst + i] = bytes[pattern16 + (i % PatternSize)]]
  /\ UNCHANGED <<spc, old, arguments, i, flags, host_flags>>

(* d[i] = p[i & 15] *)
StoreByte ==
  /\ spc = "loop" /\ i < len
  /\ bytes' = [bytes EXCEPT ![dst + i] = bytes[pattern16 + (i % PatternSize)]]
  /\ i' = i + 1
  /\ UNCHANGED <<spc, old, arguments, flags, host_flags>>

ReturnMemset ==
  /\ spc = "loop" /\ i >= len
  /\ spc' = "done"
  /\ UNCHANGED <<bytes, old, arguments, i, flags, host_flags>>

MemsetStep == StoreByte \/ ReturnMemset

MmapCalls == \E fs \in SUBSET (Flags \cup {DarwinAnon}) : CallMmap(fs)

MemsetCalls ==
  \E d, p \in Places : \E n \in 0 .. MemSize - d :
    p + PatternSize <= MemSize /\ CallMemsetPattern16(d, p, n)

(* The program has its memory filled once. *)
ShimsNext == MmapCalls \/ MemsetCalls \/ MemsetStep

ShimsInit ==
  /\ spc = "program"
  /\ bytes \in Memories
  /\ old = bytes
  /\ dst = 0 /\ pattern16 = 0 /\ len = 0 /\ i = 0
  /\ flags = {} /\ host_flags = {}

----------------------------------------------------------------------------
(* The arguments and the loop stay in the memory, and Darwin's bit for      *)
(* MAP_ANON does not reach the host (host_mmap_for_darwin clears it; the    *)
(* other bits do, whatever they mean there).                                *)
ShimsTypeOK ==
  /\ spc \in {"program", "loop", "done"}
  /\ DOMAIN bytes = Places /\ old \in Memories
  /\ dst \in Nat /\ pattern16 \in Nat /\ len \in Nat /\ i \in 0 .. len
  /\ spc # "program" => pattern16 + PatternSize <= MemSize /\ dst + len <= MemSize
  /\ flags \subseteq Flags \cup {DarwinAnon} /\ host_flags \subseteq Flags \cup {HostAnon}

(* No byte of the pattern is stored over before its last reading, or only   *)
(* by itself.                                                               *)
PatternSurvives ==
  \/ dst + len <= pattern16 \/ pattern16 + PatternSize <= dst
  \/ (dst - pattern16) % PatternSize = 0
  \/ dst <= pattern16 /\ len <= PatternSize

(* memset_pattern16 fills its len bytes with the pattern as it was, also    *)
(* where the two lie over each other in a way that spares the pattern, and  *)
(* stores nowhere else.                                                     *)
PatternRepeated ==
  spc = "done" =>
    \A a \in Places :
      IF a \in dst .. dst + len - 1
        THEN PatternSurvives => bytes[a] = old[pattern16 + ((a - dst) % PatternSize)]
        ELSE bytes[a] = old[a]

(* A call of memset_pattern16 returns. *)
MemsetReturns == spc = "loop" ~> spc = "done"
=============================================================================
