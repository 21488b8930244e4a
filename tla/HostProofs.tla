----------------------------- MODULE HostProofs -----------------------------
(***************************************************************************)
(* Proofs about the two parts that stand between the program and its host, *)
(* as Imports puts them together.  Resolver, for every set of names and    *)
(* hosts: its type invariant, that an answer is the meaning of the name,   *)
(* and that the two ways a file can be bound agree on names that have one  *)
(* version.  Shims, for every size of memory and pattern and every set of  *)
(* flags: what memset_pattern16 fills is the pattern again and again, also *)
(* where it lies across the pattern it reads.                              *)
(***************************************************************************)
EXTENDS Imports, TLAPS

USE DEF Named, Places

----------------------------------------------------------------------------
(* A step of the two together is one of each, or leaves it as it is. *)
LEMMA ImportsSteps ==
  ASSUME [ImportsNext]_imports_vars
  PROVE  [ResolverNext]_resolver_vars /\ [ShimsNext]_shims_vars
  BY DEF ImportsNext, Resolve, EnterChained, EnterBound, CallShim, RunMemset, Outside,
         ShimsNext, imports_vars

----------------------------------------------------------------------------
(* Resolver. *)

(* A name, normalised, is a name a host can have. *)
LEMMA NormalizedIsHostName ==
  ASSUME NEW name \in MachoNames
  PROVE  normalize_macho_symbol_name(name) \in HostName
  <1>1. name \in MachoName
    BY NamesAssumption
  <1>2. name.score \in 0 .. 3 /\ name.stem \in Stems
    BY <1>1 DEF MachoName
  <1>3. Cut[name.stem] \in Stems
    BY <1>2, NamesAssumption
  <1> QED
    BY <1>2, <1>3 DEF normalize_macho_symbol_name, HostName

(* A library of a host gives a host's name a function or none. *)
LEMMA InLibraryType ==
  ASSUME host \in Hosts, NEW l, NEW n \in HostName
  PROVE  InLibrary(l, n) \in Addresses \cup {Null}
  <1>1. CASE Has(l)
    <2>1. host.libs[l] \in [HostName -> Addresses \cup {Null}]
      BY <1>1, HostsAssumption DEF Has, Table
    <2> QED
      BY <1>1, <2>1 DEF InLibrary
  <1>2. CASE ~Has(l)
    BY <1>2 DEF InLibrary
  <1> QED
    BY <1>1, <1>2

LEMMA FoundType ==
  ASSUME host \in Hosts, NEW l, NEW handle, NEW n \in HostName
  PROVE  Found(l, handle, n) \in Addresses \cup {Null}
  BY InLibraryType DEF Found

LEMMA ExeType ==
  ASSUME host \in Hosts, NEW n \in HostName
  PROVE  host.exe[n] \in Addresses \cup {Null}
  <1>1. host.exe \in [HostName -> Addresses \cup {Null}]
    BY HostsAssumption DEF Table
  <1> QED
    BY <1>1

LEMMA ShimType ==
  ASSUME NEW name \in MachoNames, IsShim(name)
  PROVE  Shim[normalize_macho_symbol_name(name)] \in Addresses
  BY FunctionsAssumption DEF IsShim

(* dlopen gives a handle only for a library that is there. *)
LEMMA OpenedIsThere ==
  ASSUME NEW l, NEW handle \in BOOLEAN, handle => Has(l), NEW h \in Opened(l, handle)
  PROVE  h \in BOOLEAN /\ (h => Has(l))
  BY DEF Opened

(* The type invariant of the resolver. *)
THEOREM ResolverTyped == ImportsSpec => []ResolverTypeOK
  <1>1. ImportsInit => ResolverTypeOK
    <2> SUFFICES ASSUME ResolverInit PROVE ResolverTypeOK
      BY DEF ImportsInit
    <2>1. answer \in [name : MachoNames \cup {NoName}, function : Addresses \cup {Null},
                      missed : BOOLEAN]
      BY DEF ResolverInit
    <2> QED
      BY <2>1 DEF ResolverInit, ResolverTypeOK
  <1>2. ResolverTypeOK /\ [ImportsNext]_imports_vars => ResolverTypeOK'
    <2> SUFFICES ASSUME ResolverTypeOK, [ResolverNext]_resolver_vars
                 PROVE  ResolverTypeOK'
      BY ImportsSteps
    <2>1. CASE AnswerNoName
      BY <2>1 DEF AnswerNoName, Answer, ResolverTypeOK, handles, Has
    <2>2. ASSUME NEW name \in MachoNames, AnswerShim(name)
          PROVE  ResolverTypeOK'
      BY <2>2, ShimType DEF AnswerShim, Answer, ResolverTypeOK, handles, Has
    <2>3. ASSUME NEW name \in MachoNames, LookInLibc(name)
          PROVE  ResolverTypeOK'
      <3> DEFINE n == normalize_macho_symbol_name(name)
                 found == Found("libc.so.6", libc_handle', n)
      <3>1. n \in HostName
        BY NormalizedIsHostName
      <3>2. found \in Addresses \cup {Null}
        BY <3>1, FoundType DEF ResolverTypeOK
      <3>3. answer' = [name |-> name, function |-> found, missed |-> FALSE]
        BY <2>3 DEF LookInLibc, Answer
      <3>4. libc_handle' \in BOOLEAN /\ (libc_handle' => Has("libc.so.6"))
        BY <2>3, OpenedIsThere DEF LookInLibc, open_host_libc, ResolverTypeOK
      <3>5. host' = host /\ libm_handle' = libm_handle
        BY <2>3 DEF LookInLibc
      <3> QED
        BY <3>2, <3>3, <3>4, <3>5 DEF ResolverTypeOK, Has
    <2>4. ASSUME NEW name \in MachoNames, PastLibc(name)
          PROVE  /\ libc_handle' \in BOOLEAN /\ (libc_handle' => Has("libc.so.6"))
                 /\ libm_handle' \in BOOLEAN /\ (libm_handle' => Has("libm.so.6"))
                 /\ host' = host /\ Missed \in BOOLEAN
      BY <2>4, OpenedIsThere
      DEF PastLibc, open_host_libc, open_host_libm, ResolverTypeOK, Missed, Refused
    <2>5. ASSUME NEW name \in MachoNames, LookInLibm(name)
          PROVE  ResolverTypeOK'
      <3> DEFINE n == normalize_macho_symbol_name(name)
                 found == Found("libm.so.6", libm_handle', n)
      <3>1. n \in HostName
        BY NormalizedIsHostName
      <3>2. found \in Addresses \cup {Null}
        BY <3>1, FoundType DEF ResolverTypeOK
      <3>3. answer' = [name |-> name, function |-> found, missed |-> Missed]
        BY <2>5 DEF LookInLibm, Answer
      <3> QED
        BY <2>4, <2>5, <3>2, <3>3 DEF ResolverTypeOK, Has, LookInLibm
    <2>6. ASSUME NEW name \in MachoNames, LookInDefault(name)
          PROVE  ResolverTypeOK'
      <3> DEFINE n == normalize_macho_symbol_name(name)
      <3>1. host.exe[n] \in Addresses \cup {Null}
        BY NormalizedIsHostName, ExeType DEF ResolverTypeOK
      <3>2. answer' = [name |-> name, function |-> host.exe[n], missed |-> Missed]
        BY <2>6 DEF LookInDefault, Answer
      <3> QED
        BY <2>4, <2>6, <3>1, <3>2 DEF ResolverTypeOK, Has, LookInDefault
    <2>7. CASE UNCHANGED resolver_vars
      BY <2>7 DEF resolver_vars, handles, ResolverTypeOK, Has
    <2> QED
      BY <2>1, <2>2, <2>3, <2>5, <2>6, <2>7 DEF ResolverNext
  <1> QED
    BY <1>1, <1>2, PTL DEF ImportsSpec

(* A name whose two libraries were looked into gets its meaning. *)
LEMMA FoundIsInLibrary ==
  ASSUME NEW l, NEW handle \in BOOLEAN, NEW n,
         ~Refused(l, handle)
  PROVE  Found(l, handle, n) = InLibrary(l, n)
  BY DEF Refused, Found, InLibrary

(* The resolver is a function of the name: in a call in which dlopen failed *)
(* for no library that is there, a name gets what it stands for.            *)
THEOREM ResolverAnswersMeanings == ImportsSpec => []AnswersAreMeanings
  <1>1. ImportsInit => AnswersAreMeanings
    BY DEF ImportsInit, ResolverInit, AnswersAreMeanings
  <1>2. ResolverTypeOK /\ AnswersAreMeanings /\ [ImportsNext]_imports_vars
          => AnswersAreMeanings'
    <2> SUFFICES ASSUME ResolverTypeOK, AnswersAreMeanings, [ResolverNext]_resolver_vars
                 PROVE  AnswersAreMeanings'
      BY ImportsSteps
    <2>1. CASE AnswerNoName
      BY <2>1 DEF AnswerNoName, Answer, AnswersAreMeanings
    <2>2. ASSUME NEW name \in MachoNames, AnswerShim(name)
          PROVE  AnswersAreMeanings'
      BY <2>2 DEF AnswerShim, Answer, AnswersAreMeanings, Meaning, IsShim,
                  normalize_macho_symbol_name
    <2>3. ASSUME NEW name \in MachoNames, LookInLibc(name)
          PROVE  AnswersAreMeanings'
      <3> DEFINE n == normalize_macho_symbol_name(name)
                 found == Found("libc.so.6", libc_handle', n)
      <3>1. answer' = [name |-> name, function |-> found, missed |-> FALSE]
            /\ ~IsShim(name) /\ found # Null /\ host' = host
        BY <2>3 DEF LookInLibc, Answer
      <3>2. found = InLibrary("libc.so.6", n)
        BY <3>1 DEF Found
      <3>3. Meaning(name) = found
        BY <3>1, <3>2 DEF Meaning
      <3>4. Meaning(name)' = Meaning(name)
        BY <3>1 DEF Meaning, IsShim, normalize_macho_symbol_name, InLibrary, Has
      <3> QED
        BY <3>1, <3>3, <3>4 DEF AnswersAreMeanings
    <2>4. ASSUME NEW name \in MachoNames, PastLibc(name), ~Missed
          PROVE  LET n == normalize_macho_symbol_name(name) IN
                 /\ ~IsShim(name) /\ host' = host
                 /\ InLibrary("libc.so.6", n) = Null
                 /\ Found("libm.so.6", libm_handle', n) = InLibrary("libm.so.6", n)
      <3>1. libc_handle' \in BOOLEAN /\ libm_handle' \in BOOLEAN
        BY <2>4, OpenedIsThere DEF PastLibc, open_host_libc, open_host_libm, ResolverTypeOK
      <3> QED
        BY <2>4, <3>1, FoundIsInLibrary DEF PastLibc, Missed
    <2>5. ASSUME NEW name \in MachoNames, host' = host
          PROVE  Meaning(name)' = Meaning(name)
      BY <2>5 DEF Meaning, IsShim, normalize_macho_symbol_name, InLibrary, Has
    <2>6. ASSUME NEW name \in MachoNames, LookInLibm(name)
          PROVE  AnswersAreMeanings'
      <3> DEFINE n == normalize_macho_symbol_name(name)
                 found == Found("libm.so.6", libm_handle', n)
      <3>1. answer' = [name |-> name, function |-> found, missed |-> Missed]
            /\ PastLibc(name) /\ found # Null
        BY <2>6 DEF LookInLibm, Answer
      <3>2. ASSUME ~Missed PROVE found = Meaning(name) /\ host' = host
        BY <3>1, <3>2, <2>4 DEF Meaning
      <3> QED
        BY <3>1, <3>2, <2>5 DEF AnswersAreMeanings
    <2>7. ASSUME NEW name \in MachoNames, LookInDefault(name)
          PROVE  AnswersAreMeanings'
      <3> DEFINE n == normalize_macho_symbol_name(name)
      <3>1. answer' = [name |-> name, function |-> host.exe[n], missed |-> Missed]
            /\ PastLibc(name) /\ Found("libm.so.6", libm_handle', n) = Null
        BY <2>7 DEF LookInDefault, Answer
      <3>2. ASSUME ~Missed PROVE host.exe[n] = Meaning(name) /\ host' = host
        BY <3>1, <3>2, <2>4 DEF Meaning
      <3> QED
        BY <3>1, <3>2, <2>5 DEF AnswersAreMeanings
    <2>8. CASE UNCHANGED resolver_vars
      BY <2>8 DEF resolver_vars, handles, AnswersAreMeanings, Meaning, IsShim,
                  normalize_macho_symbol_name, InLibrary, Has
    <2> QED
      BY <2>1, <2>2, <2>3, <2>6, <2>7, <2>8 DEF ResolverNext
  <1> QED
    BY <1>1, <1>2, ResolverTyped, PTL DEF ImportsSpec

(* The chained fixups and do_bind give a plain name of one version, in libc *)
(* or libm or both, the same function, though they look in opposite orders. *)
THEOREM ResolverPathsAgree == ImportsSpec => []PathsAgree
  <1>1. ResolverTypeOK /\ AnswersAreMeanings => PathsAgree
    <2> SUFFICES ASSUME ResolverTypeOK, AnswersAreMeanings,
                        answer.name # NoName, ~answer.missed,
                        Plain(answer.name), OneVersion(BindName(answer.name))
                 PROVE  answer.function = BoundTo(answer.name)
      BY DEF PathsAgree
    <2> DEFINE n == BindName(answer.name)
    <2>1. normalize_macho_symbol_name(answer.name) = n
      BY DEF normalize_macho_symbol_name, BindName, Plain
    <2>2. answer.function = Meaning(answer.name) /\ ~IsShim(answer.name)
      BY DEF AnswersAreMeanings, Plain
    <2>3. PICK f \in Addresses :
            {InLibrary("libc.so.6", n), InLibrary("libm.so.6", n)} \in {{f}, {f, Null}}
      BY DEF OneVersion
    <2>4. f # Null
      BY FunctionsAssumption
    <2>5. answer.function = f
      BY <2>1, <2>2, <2>3, <2>4 DEF Meaning
    <2>6. n # Named(0, "mmap") /\ ~answer.name.suffix /\ n # Named(2, "stack_chk_guard")
      BY <2>1, <2>2 DEF Plain, IsShim, ShimNames
    <2>7. BoundTo(answer.name) = f
      BY <2>3, <2>4, <2>6 DEF BoundTo
    <2> QED
      BY <2>5, <2>7
  <1> QED
    BY <1>1, ResolverTyped, ResolverAnswersMeanings, PTL

----------------------------------------------------------------------------
(* Shims. *)

(* The index p[i & 15] takes, one pattern further on or back. *)

LEMMA DivMod ==
  ASSUME NEW x \in Int, NEW n \in Nat \ {0}
  PROVE  x = n * (x \div n) + (x % n) /\ x \div n \in Int /\ x % n \in 0 .. n - 1
  OBVIOUS

LEMMA RestUnique ==
  ASSUME NEW n \in Nat \ {0}, NEW a \in Int, NEW r \in 0 .. n - 1, NEW s \in 0 .. n - 1,
         r = n * a + s
  PROVE  r = s
  <1>1. CASE a = 0
    BY <1>1
  <1>2. CASE a >= 1
    <2>1. n * a >= n
      BY <1>2
    <2> QED
      BY <2>1
  <1>3. CASE a <= -1
    <2>1. n * a <= -n
      BY <1>3
    <2> QED
      BY <2>1
  <1> QED
    BY <1>1, <1>2, <1>3

LEMMA RestShifted ==
  ASSUME NEW n \in Nat \ {0}, NEW c \in Int, NEW s \in 0 .. n - 1
  PROVE  (s - n * c) % n = s
  <1> DEFINE x == s - n * c
             a == x \div n
             r == x % n
  <1>1. x \in Int
    OBVIOUS
  <1>2. x = n * a + r /\ a \in Int /\ r \in 0 .. n - 1
    BY <1>1, DivMod
  <1>3. x = s - n * c
    OBVIOUS
  <1> HIDE DEF x, a, r
  <1>4. n * (0 - c - a) = 0 - n * c - n * a /\ 0 - c - a \in Int
    BY <1>2
  <1>5. r = n * (0 - c - a) + s
    BY <1>2, <1>3, <1>4
  <1>6. r = s
    BY <1>2, <1>4, <1>5, RestUnique
  <1> QED
    BY <1>6 DEF r, x

----------------------------------------------------------------------------
(* The inductive invariant: i bytes are filled, and as much of the pattern  *)
(* as is still to be read is as it was.                                     *)

FilledSoFar ==
  \A a \in Places :
    IF a \in dst .. dst + i - 1
      THEN PatternSurvives => bytes[a] = old[pattern16 + ((a - dst) % PatternSize)]
      ELSE bytes[a] = old[a]

ShimsInv ==
  /\ ShimsTypeOK
  /\ spc = "program" => bytes \in Memories
  /\ spc # "program" => FilledSoFar
  /\ spc = "done" => i = len

(* The byte of the pattern the loop reads is the one the call began with. *)
LEMMA ReadsOld ==
  ASSUME ShimsInv, spc = "loop", i < len, PatternSurvives
  PROVE  bytes[pattern16 + (i % PatternSize)] = old[pattern16 + (i % PatternSize)]
  <1> DEFINE r == i % PatternSize
             q == pattern16 + r
  <1>1. /\ dst \in Nat /\ pattern16 \in Nat /\ len \in Nat /\ i \in 0 .. len
        /\ pattern16 + PatternSize <= MemSize /\ dst + len <= MemSize
        /\ PatternSize \in Nat \ {0} /\ MemSize \in Nat
    BY ShimsAssumption DEF ShimsInv, ShimsTypeOK
  <1>2. r \in 0 .. PatternSize - 1 /\ i = PatternSize * (i \div PatternSize) + r
    BY <1>1, DivMod
  <1>3. i < PatternSize => r = i
    BY <1>1
  <1>4. FilledSoFar
    BY DEF ShimsInv
  <1>5. PatternSurvives => dst + len <= pattern16 \/ pattern16 + PatternSize <= dst
                           \/ (dst - pattern16) % PatternSize = 0
                           \/ (dst <= pattern16 /\ len <= PatternSize)
    BY DEF PatternSurvives
  <1> HIDE DEF r
  <1>6. q \in Places
    BY <1>1, <1>2
  <1>7. CASE q \notin dst .. dst + i - 1
    BY <1>4, <1>6, <1>7 DEF FilledSoFar, r
  <1>8. CASE q \in dst .. dst + i - 1
    <2>1. (dst - pattern16) % PatternSize = 0
      BY <1>1, <1>2, <1>3, <1>5, <1>8
    <2> DEFINE c == (dst - pattern16) \div PatternSize
    <2>2. dst - pattern16 \in Int
      BY <1>1
    <2>3. c \in Int /\ dst - pattern16 = PatternSize * c + 0
      BY <1>1, <2>1, <2>2, DivMod
    <2> HIDE DEF c
    <2>4. q - dst = r - PatternSize * c
      BY <1>1, <1>2, <2>3
    <2>5. (q - dst) % PatternSize = r
      BY <1>1, <1>2, <2>3, <2>4, RestShifted
    <2>6. bytes[q] = old[pattern16 + ((q - dst) % PatternSize)]
      BY <1>4, <1>6, <1>8 DEF FilledSoFar
    <2> QED
      BY <2>5, <2>6 DEF r
  <1> QED
    BY <1>7, <1>8

LEMMA StoreKeepsInv ==
  ASSUME ShimsInv, StoreByte
  PROVE  ShimsInv'
  <1> DEFINE q == pattern16 + (i % PatternSize)
  <1>1. /\ spc = "loop" /\ i < len /\ i' = i + 1
        /\ bytes' = [bytes EXCEPT ![dst + i] = bytes[q]]
        /\ UNCHANGED <<spc, old, dst, pattern16, len, flags, host_flags>>
    BY DEF StoreByte, arguments
  <1>2. /\ dst \in Nat /\ pattern16 \in Nat /\ len \in Nat /\ i \in 0 .. len
        /\ dst + len <= MemSize /\ DOMAIN bytes = Places /\ MemSize \in Nat
    BY <1>1, ShimsAssumption DEF ShimsInv, ShimsTypeOK
  <1>3. ShimsTypeOK'
    BY <1>1, <1>2 DEF ShimsInv, ShimsTypeOK
  <1>4. FilledSoFar'
    <2> SUFFICES ASSUME NEW a \in Places
                 PROVE  IF a \in dst .. dst + i
                          THEN PatternSurvives =>
                                 bytes'[a] = old[pattern16 + ((a - dst) % PatternSize)]
                          ELSE bytes'[a] = old[a]
      BY <1>1, <1>2 DEF FilledSoFar, PatternSurvives
    <2>1. FilledSoFar
      BY <1>1 DEF ShimsInv
    <2>2. CASE a = dst + i
      <3>1. bytes'[a] = bytes[q] /\ a - dst = i /\ a \in dst .. dst + i
        BY <1>1, <1>2, <2>2
      <3>2. PatternSurvives => bytes[q] = old[q]
        BY <1>1, ReadsOld
      <3> QED
        BY <3>1, <3>2
    <2>3. CASE a # dst + i
      <3>1. bytes'[a] = bytes[a] /\ (a \in dst .. dst + i <=> a \in dst .. dst + i - 1)
        BY <1>1, <1>2, <2>3
      <3> QED
        BY <2>1, <3>1 DEF FilledSoFar
    <2> QED
      BY <2>2, <2>3
  <1> QED
    BY <1>1, <1>3, <1>4 DEF ShimsInv

LEMMA ShimsStep == ShimsInv /\ [ImportsNext]_imports_vars => ShimsInv'
  <1> SUFFICES ASSUME ShimsInv, [ShimsNext]_shims_vars PROVE ShimsInv'
    BY ImportsSteps
  <1> USE DEF ShimsInv, ShimsTypeOK
  <1>1. CASE StoreByte
    BY <1>1, StoreKeepsInv
  <1>2. CASE ReturnMemset
    <2>1. /\ spc = "loop" /\ i >= len /\ spc' = "done"
          /\ UNCHANGED <<bytes, old, dst, pattern16, len, i, flags, host_flags>>
      BY <1>2 DEF ReturnMemset, arguments
    <2>2. FilledSoFar' /\ i = len
      BY <2>1 DEF FilledSoFar, PatternSurvives
    <2> QED
      BY <2>1, <2>2
  <1>3. ASSUME NEW fs \in SUBSET (Flags \cup {DarwinAnon}), CallMmap(fs)
        PROVE  ShimsInv'
    <2>1. /\ spc = "program" /\ flags' = fs
          /\ UNCHANGED <<spc, bytes, old, dst, pattern16, len, i>>
          /\ host_flags' \subseteq Flags \cup {HostAnon}
      BY <1>3 DEF CallMmap, arguments
    <2> QED
      BY <2>1
  <1>4. ASSUME NEW d \in Places, NEW pt \in Places, NEW n \in 0 .. MemSize - d,
               pt + PatternSize <= MemSize, CallMemsetPattern16(d, pt, n)
        PROVE  ShimsInv'
    <2>1. /\ spc = "program" /\ spc' = "loop"
          /\ dst' = d /\ pattern16' = pt /\ len' = n /\ i' = 0
          /\ old' = bytes /\ UNCHANGED <<bytes, flags, host_flags>>
      BY <1>4 DEF CallMemsetPattern16
    <2>2. d \in Nat /\ pt \in Nat /\ n \in Nat /\ d + n <= MemSize /\ d .. d + 0 - 1 = {}
      BY ShimsAssumption
    <2>3. FilledSoFar'
      BY <2>1, <2>2 DEF FilledSoFar
    <2> QED
      BY <1>4, <2>1, <2>2, <2>3
  <1>5. CASE UNCHANGED shims_vars
    BY <1>5 DEF shims_vars, arguments, FilledSoFar, PatternSurvives
  <1> QED
    BY <1>1, <1>2, <1>3, <1>4, <1>5 DEF ShimsNext, MmapCalls, MemsetCalls, MemsetStep

LEMMA InitShims == ImportsInit => ShimsInv
  BY ShimsAssumption DEF ImportsInit, ShimsInit, ShimsInv, ShimsTypeOK

(* The call is where its loop says, whatever the memory and the flags. *)
THEOREM ShimsInvariant == ImportsSpec => []ShimsInv
  BY InitShims, ShimsStep, PTL DEF ImportsSpec

(* The loop of mal_memset_pattern16 stays in what it was given, and Darwin's*)
(* bit for MAP_ANON does not reach the host's mmap.                         *)
THEOREM ShimsTypeCorrect == ImportsSpec => []ShimsTypeOK
  <1>1. ShimsInv => ShimsTypeOK
    BY DEF ShimsInv
  <1> QED
    BY <1>1, ShimsInvariant, PTL

(* mal_memset_pattern16 fills its len bytes with the pattern as it was when *)
(* it was called, for every size and every way the two lie over each other  *)
(* that spares the pattern, and stores nowhere else.                        *)
THEOREM PatternRepeatedHolds == ImportsSpec => []PatternRepeated
  <1>1. ShimsInv => PatternRepeated
    BY DEF ShimsInv, PatternRepeated, FilledSoFar
  <1> QED
    BY <1>1, ShimsInvariant, PTL
=============================================================================
