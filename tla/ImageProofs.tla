----------------------------- MODULE ImageProofs -----------------------------
(***************************************************************************)
(* What loader_64 puts in memory, for every file a linker can have made,   *)
(* every base and every order of failures of mmap: what the table gives an *)
(* address is there, nothing lies outside the mapping, the chained fixups  *)
(* of a segment are all applied or none, those left are counted; and it    *)
(* implements ImageLoading.                                                *)
(***************************************************************************)
EXTENDS LoaderProofs, FormatProofs

USE DEF Word, Addr, Null

----------------------------------------------------------------------------
(* What a linker guarantees of the segments' places.                        *)

LEMMA Remainder ==
  ASSUME NEW y \in Nat, NEW n \in Nat \ {0}
  PROVE  y < n * (y \div n) + n
  OBVIOUS

(* Rounding up to whole pages loses nothing. *)
LEMMA AlignCovers ==
  ASSUME NEW x \in Nat, NEW n \in Nat \ {0}
  PROVE  alignMemory(x, n) \in Nat /\ x <= alignMemory(x, n)
  <1>1. PICK y \in Nat : y = x + n - 1
    OBVIOUS
  <1>2. PICK d \in Nat : d = y \div n
    BY DivNat
  <1>3. alignMemory(x, n) = d * n
    BY <1>1, <1>2 DEF alignMemory
  <1>4. PICK m \in Nat : m = n * d
    BY ProductNat
  <1>5. y < m + n
    BY <1>2, <1>4, Remainder
  <1>6. d * n = m
    BY <1>4
  <1> QED
    BY <1>1, <1>3, <1>5, <1>6

----------------------------------------------------------------------------
(* The segments of a file as they are linked.                               *)

LEMMA SegmentIs ==
  ASSUME NEW f \in Files, NEW k \in DOMAIN f.cmds, f.cmds[k].cmd = "LC_SEGMENT_64"
  PROVE  /\ k \in 1 .. Len(f.cmds) /\ Len(f.cmds) \in Nat
         /\ f.cmds[k].segname \in SegmentNames
         /\ f.cmds[k].vmaddr \in Addr /\ f.cmds[k].vmsize \in Nat /\ f.cmds[k].filesize \in Nat
         /\ \A o \in DOMAIN f.cmds[k].words :
              o \in Nat /\ o + 8 <= f.cmds[k].filesize /\ f.cmds[k].words[o] \in Word
         /\ f.cmds[k].segname # "__PAGEZERO" => f.cmds[k].filesize <= f.cmds[k].vmsize
  <1>1. /\ Len(f.cmds) \in Nat /\ DOMAIN f.cmds = 1 .. Len(f.cmds)
        /\ \A j \in 1 .. Len(f.cmds) : IsCommand(f.cmds[j])
    BY FilesAssumption DEF IsFile
  <1>2. IsSegment(f.cmds[k], 64)
    BY <1>1 DEF IsCommand, segment_command_64
  <1> QED
    BY <1>1, <1>2 DEF IsSegment

(* Where a mapped segment lies in the image, and the image in memory. *)
LEMMA LinkedRange ==
  ASSUME NEW f \in Files, LinkedSegments(f), NEW k \in Mappable(f)
  PROVE  /\ f.cmds[k].vmaddr \in Nat /\ f.cmds[k].vmsize \in Nat \ {0}
         /\ min_vmaddr(f) \in Nat \ {0} /\ Offset(f, k) \in Nat
         /\ f.cmds[k].vmaddr = min_vmaddr(f) + Offset(f, k)
         /\ max_vmaddr(f) \in Nat /\ max_vmaddr(f) > min_vmaddr(f)
         /\ map_size(f) \in Nat /\ Offset(f, k) + f.cmds[k].vmsize <= map_size(f)
         /\ min_vmaddr(f) \in Addr
         /\ \A j \in Mappable(f) : min_vmaddr(f) <= f.cmds[j].vmaddr
         /\ \E j \in Mappable(f) : min_vmaddr(f) = f.cmds[j].vmaddr
  <1>1. \A j \in Mappable(f) :
          /\ f.cmds[j].vmaddr \in Nat \ {0} /\ f.cmds[j].vmsize \in Nat \ {0}
          /\ f.cmds[j].vmaddr \in Addr
          /\ f.cmds[j].vmaddr + f.cmds[j].vmsize < AddrMod
    BY SegmentIs, WidthAssumption DEF Mappable, LinkedSegments
  <1> DEFINE lows == {f.cmds[j].vmaddr : j \in Mappable(f)}
             ends == {(f.cmds[j].vmaddr + f.cmds[j].vmsize) % AddrMod : j \in Mappable(f)}
  <1>2. lows \subseteq Nat /\ lows # {}
    BY <1>1
  <1>3. min_vmaddr(f) \in lows /\ \A y \in lows : min_vmaddr(f) <= y
    BY <1>2, MinIsLeast DEF min_vmaddr
  <1>4. \A j \in Mappable(f) :
          (f.cmds[j].vmaddr + f.cmds[j].vmsize) % AddrMod = f.cmds[j].vmaddr + f.cmds[j].vmsize
    <2> SUFFICES ASSUME NEW j \in Mappable(f)
                 PROVE  (f.cmds[j].vmaddr + f.cmds[j].vmsize) % AddrMod
                          = f.cmds[j].vmaddr + f.cmds[j].vmsize
      OBVIOUS
    <2>1. PICK s \in Nat : s = f.cmds[j].vmaddr + f.cmds[j].vmsize
      BY <1>1
    <2> QED
      BY <1>1, <2>1, ModOfSmall, WidthAssumption
  <1>5. ends \subseteq Nat /\ ends # {} /\ \A y \in ends : y <= AddrMod
    BY <1>1, <1>4, WidthAssumption
  <1>6. max_vmaddr(f) \in ends /\ \A y \in ends : y <= max_vmaddr(f)
    BY <1>5, MaxIsGreatest, WidthAssumption DEF max_vmaddr
  <1>7. /\ min_vmaddr(f) \in Nat \ {0} /\ min_vmaddr(f) <= f.cmds[k].vmaddr
        /\ max_vmaddr(f) \in Nat /\ f.cmds[k].vmaddr + f.cmds[k].vmsize <= max_vmaddr(f)
    BY <1>1, <1>3, <1>4, <1>5, <1>6
  <1>8. max_vmaddr(f) - min_vmaddr(f) \in Nat
    BY <1>1, <1>7
  <1>9. map_size(f) \in Nat /\ max_vmaddr(f) - min_vmaddr(f) <= map_size(f)
    BY <1>8, AlignCovers, HostPageAssumption DEF map_size
  <1>10. Offset(f, k) = f.cmds[k].vmaddr - min_vmaddr(f)
    BY DEF Offset
  <1>11. Offset(f, k) \in Nat /\ Offset(f, k) + f.cmds[k].vmsize <= map_size(f)
    BY <1>1, <1>7, <1>9, <1>10
  <1>12. \A j \in Mappable(f) : min_vmaddr(f) <= f.cmds[j].vmaddr
    BY <1>3
  <1>13. \E j \in Mappable(f) : min_vmaddr(f) = f.cmds[j].vmaddr
    BY <1>3
  <1>14. f.cmds[k].vmaddr = min_vmaddr(f) + Offset(f, k)
    BY <1>1, <1>7, <1>10
  <1>15. f.cmds[k].vmaddr \in Nat /\ f.cmds[k].vmsize \in Nat \ {0} /\ min_vmaddr(f) \in Addr
    BY <1>1, <1>13
  <1>16. max_vmaddr(f) > min_vmaddr(f)
    BY <1>7, <1>15
  <1> QED
    BY <1>7, <1>9, <1>11, <1>12, <1>13, <1>14, <1>15, <1>16

----------------------------------------------------------------------------
(* The words of a linked file in the image.                                 *)

(* Only a mapped segment has words, and a file size. *)
LEMMA OnlyMappableHasWords ==
  ASSUME NEW f \in Files, LinkedSegments(f), NEW k \in SegmentsOf(f)
  PROVE  /\ f.cmds[k].cmd = "LC_SEGMENT_64" /\ k \in DOMAIN f.cmds
         /\ \A o \in DOMAIN f.cmds[k].words :
              k \in Mappable(f) /\ f.cmds[k].filesize # 0 /\ o \in Nat
              /\ o + 8 <= f.cmds[k].vmsize /\ f.cmds[k].words[o] \in Word
  <1>1. k \in DOMAIN f.cmds /\ f.cmds[k].cmd = "LC_SEGMENT_64"
        /\ (f.cmds[k].segname = "__PAGEZERO" => DOMAIN f.cmds[k].words = {})
    BY DEF LinkedSegments, SegmentsOf
  <1>2. ASSUME NEW o \in DOMAIN f.cmds[k].words
        PROVE  /\ o \in Nat /\ o + 8 <= f.cmds[k].filesize /\ f.cmds[k].words[o] \in Word
               /\ f.cmds[k].filesize <= f.cmds[k].vmsize
               /\ f.cmds[k].filesize \in Nat /\ f.cmds[k].vmsize \in Nat
               /\ f.cmds[k].segname # "__PAGEZERO"
    BY <1>1, SegmentIs
  <1>3. ASSUME NEW o \in DOMAIN f.cmds[k].words
        PROVE  f.cmds[k].filesize # 0 /\ f.cmds[k].vmsize # 0 /\ o + 8 <= f.cmds[k].vmsize
    BY <1>2
  <1> QED
    BY <1>1, <1>2, <1>3 DEF Mappable

LEMMA MappableIsSegment ==
  ASSUME NEW f, NEW k \in Mappable(f)
  PROVE  k \in SegmentsOf(f)
  BY DEF Mappable, SegmentsOf

(* A word of the image is of one segment. *)
LEMMA OneHolder ==
  ASSUME NEW f \in Files, LinkedSegments(f), NEW j \in SegmentsOf(f), NEW k \in SegmentsOf(f),
         NEW o \in DOMAIN f.cmds[j].words, NEW q \in DOMAIN f.cmds[k].words,
         Offset(f, j) + o = Offset(f, k) + q
  PROVE  j = k /\ o = q
  <1>1. /\ j \in Mappable(f) /\ k \in Mappable(f) /\ o \in Nat /\ q \in Nat
        /\ o + 8 <= f.cmds[j].vmsize /\ q + 8 <= f.cmds[k].vmsize
    BY OnlyMappableHasWords
  <1>2. /\ f.cmds[j].vmaddr \in Nat /\ f.cmds[j].vmsize \in Nat /\ Offset(f, j) \in Nat
        /\ f.cmds[k].vmaddr \in Nat /\ f.cmds[k].vmsize \in Nat /\ Offset(f, k) \in Nat
        /\ min_vmaddr(f) \in Nat
        /\ f.cmds[j].vmaddr = min_vmaddr(f) + Offset(f, j)
        /\ f.cmds[k].vmaddr = min_vmaddr(f) + Offset(f, k)
    BY <1>1, LinkedRange
  <1>3. f.cmds[j].vmaddr + o = f.cmds[k].vmaddr + q
    BY <1>1, <1>2
  <1>4. j # k => \/ f.cmds[j].vmaddr + f.cmds[j].vmsize <= f.cmds[k].vmaddr
                 \/ f.cmds[k].vmaddr + f.cmds[k].vmsize <= f.cmds[j].vmaddr
    BY <1>1 DEF LinkedSegments
  <1>5. j = k
    BY <1>1, <1>2, <1>3, <1>4
  <1> QED
    BY <1>1, <1>2, <1>5

(* Where a word is at a base, inside the mapping. *)
LEMMA WordInside ==
  ASSUME NEW f \in Files, LinkedSegments(f), NEW b \in HostBases, NEW k \in SegmentsOf(f),
         NEW o \in DOMAIN f.cmds[k].words
  PROVE  /\ b + Offset(f, k) + o \in Nat /\ b + Offset(f, k) + o >= b
         /\ b + Offset(f, k) + o + 8 <= b + map_size(f)
         /\ (b + Offset(f, k) + o) - b = Offset(f, k) + o
         /\ f.cmds[k].words[o] \in Word
  <1>1. k \in Mappable(f) /\ o \in Nat /\ o + 8 <= f.cmds[k].vmsize /\ f.cmds[k].words[o] \in Word
    BY OnlyMappableHasWords
  <1>2. /\ Offset(f, k) \in Nat /\ f.cmds[k].vmsize \in Nat /\ map_size(f) \in Nat
        /\ Offset(f, k) + f.cmds[k].vmsize <= map_size(f)
    BY <1>1, LinkedRange
  <1>3. b \in Nat
    BY HostAssumption, WidthAssumption
  <1> QED
    BY <1>1, <1>2, <1>3

(* The place the loader computes for a segment. *)
LEMMA SlidToOffset ==
  ASSUME NEW f \in Files, LinkedSegments(f), NEW b \in HostBases, NEW k \in Mappable(f)
  PROVE  /\ (b + f.cmds[k].vmaddr - min_vmaddr(f)) % AddrMod = b + Offset(f, k)
         /\ b + Offset(f, k) \in Addr
  <1>1. /\ f.cmds[k].vmaddr \in Nat /\ f.cmds[k].vmsize \in Nat \ {0}
        /\ Offset(f, k) \in Nat /\ map_size(f) \in Nat /\ min_vmaddr(f) \in Nat
        /\ f.cmds[k].vmaddr = min_vmaddr(f) + Offset(f, k)
        /\ Offset(f, k) + f.cmds[k].vmsize <= map_size(f)
    BY LinkedRange
  <1>2. b \in Nat /\ b + map_size(f) <= AddrMod
    BY HostAssumption, WidthAssumption DEF LinkedSegments
  <1>3. PICK a \in Nat : a = b + Offset(f, k)
    BY <1>1, <1>2
  <1>4. a < AddrMod
    BY <1>1, <1>2, <1>3, WidthAssumption
  <1>5. b + f.cmds[k].vmaddr - min_vmaddr(f) = a
    BY <1>1, <1>2, <1>3
  <1> QED
    BY <1>3, <1>4, <1>5, ModOfSmall, WidthAssumption

----------------------------------------------------------------------------
(* The inductive invariant of loader_64 over a linked file.                 *)

(* Where word o of segment command k belongs. *)
WordAt(k, o) == img_addr + Offset(file, k) + o

(* The image is nowhere, or where the host put it for the file's addresses. *)
Mapped ==
  \/ img_addr = Null /\ v_addr = Null
  \/ img_addr \in HostBases /\ v_addr = min_vmaddr(file) /\ Mappable(file) # {}

(* Memory holds words of the segments passed, and nothing else... *)
MemoryIsOfFile ==
  \A a \in DOMAIN mem :
    /\ img_addr # Null
    /\ \E k \in SegmentsOf(file) :
         Passed(k) /\ \E o \in DOMAIN file.cmds[k].words : a = WordAt(k, o)

(* ...as they are in the file, up to the walk over the fixups. *)
MemoryIsAsInFile ==
  \A k \in SegmentsOf(file) : \A o \in DOMAIN file.cmds[k].words :
    WordAt(k, o) \in DOMAIN mem /\ WordAt(k, o) \notin visited =>
      mem[WordAt(k, o)] = file.cmds[k].words[o]

(* An entry of the table that has an address is in memory. *)
InTable(k) ==
  LET s == segments[Number(file, k)] IN
  /\ s.segname = file.cmds[k].segname
  /\ s.mapped_addr # Null =>
       /\ img_addr # Null
       /\ s.mapped_addr = Slid(file.cmds[k].vmaddr)
       /\ \A o \in DOMAIN file.cmds[k].words : WordAt(k, o) \in DOMAIN mem

TableIsOfFile ==
  \A k \in SegmentsOf(file) : Passed(k) /\ Number(file, k) <= Len(segments) => InTable(k)

(* The walk over the fixups is called once, in the command it belongs to.   *)
FixupsOfFile ==
  /\ lpc = "fixups" =>
       /\ file.cmds[c_load_command + 1].cmd = "LC_DYLD_CHAINED_FIXUPS"
       /\ fixups = file.cmds[c_load_command + 1].fixups
       /\ FixupsInv
  /\ lpc # "fixups" /\ (\A j \in FixupsCommands(file) : ~Passed(j)) => visited = {}
  /\ visited \subseteq DOMAIN mem

(* And the bind opcodes in theirs. *)
BindsOfFile == lpc = "binds" => file.cmds[c_load_command + 1].cmd = "LC_DYLD_INFO"

LoadInv ==
  /\ Walk(64) /\ Linked(file)
  /\ Mapped /\ MemoryIsOfFile /\ MemoryIsAsInFile
  /\ TableLength /\ TableIsOfFile
  /\ FixupsTypeOK /\ FixupsOfFile /\ BindsOfFile

----------------------------------------------------------------------------
(* A segment command: what it does to the mapping and to memory.            *)
NewWords(b, k) ==
  IF b = Null THEN {} ELSE {b + Offset(file, k) + o : o \in DOMAIN file.cmds[k].words}

LEMMA SegmentAtHand ==
  ASSUME LoadInv, LoadSegment
  PROVE  /\ file' = file /\ c_load_command' = c_load_command + 1 /\ lpc' = "command" /\ lpc = "command"
         /\ c_load_command \in Nat /\ c_load_command < Len(file.cmds)
         /\ c_load_command + 1 \in SegmentsOf(file)
         /\ command = file.cmds[c_load_command + 1]
         /\ file \in Files /\ LinkedSegments(file)
         /\ UNCHANGED fixups_state
  <1>1. /\ lpc = "command" /\ c_load_command < Len(file.cmds) /\ command.cmd = "LC_SEGMENT_64"
        /\ file' = file /\ c_load_command' = c_load_command + 1 /\ lpc' = lpc
        /\ UNCHANGED fixups_state
    BY DEF LoadSegment, AtCommand
  <1>2. /\ c_load_command + 1 \in 1 .. Len(file.cmds)
        /\ command = file.cmds[c_load_command + 1]
    BY <1>1, AtTheCommand DEF LoadInv
  <1>3. file \in Files /\ LinkedSegments(file) /\ c_load_command \in Nat
    BY DEF LoadInv, Walk, Linked
  <1>4. c_load_command + 1 \in SegmentsOf(file)
    BY <1>1, <1>2, <1>3, FilesAssumption DEF IsFile, SegmentsOf
  <1> QED
    BY <1>1, <1>2, <1>3, <1>4

(* The mapping is made once, and stays. *)
LEMMA MappingStays ==
  ASSUME LoadInv, LoadSegment
  PROVE  /\ Mapped'
         /\ img_addr # Null => img_addr' = img_addr /\ v_addr' = v_addr
         /\ \/ img_addr' = img_addr
            \/ img_addr = Null /\ img_addr' \in HostBases
  <1>1. \/ img_addr' = img_addr /\ v_addr' = v_addr
        \/ /\ img_addr = Null /\ img_addr' \in HostBases
           /\ v_addr' = min_vmaddr(file) /\ Mappable(file) # {}
    BY DEF LoadSegment, EnsureImageMapping, MappingWanted
  <1>2. file' = file
    BY SegmentAtHand
  <1> QED
    BY <1>1, <1>2 DEF LoadInv, Mapped

LEMMA SegmentCopied ==
  ASSUME LoadInv, LoadSegment, NEW k, k = c_load_command + 1
  PROVE  /\ DOMAIN mem' = DOMAIN mem \cup NewWords(img_addr', k)
         /\ DOMAIN mem \cap NewWords(img_addr', k) = {}
         /\ \A a \in DOMAIN mem : mem'[a] = mem[a]
         /\ img_addr' # Null =>
              \A o \in DOMAIN file.cmds[k].words :
                mem'[img_addr' + Offset(file, k) + o] = file.cmds[k].words[o]
  <1> DEFINE c == file.cmds[k]
  <1>1. /\ file \in Files /\ LinkedSegments(file) /\ k \in SegmentsOf(file) /\ command = c
        /\ c_load_command \in Nat
    BY SegmentAtHand
  <1>2. CopySegment
    BY DEF LoadSegment
  <1>3. CASE DOMAIN c.words = {}
    <2>1. NewWords(img_addr', k) = {}
      BY <1>3 DEF NewWords
    <2> DEFINE dest == (img_addr' + c.vmaddr - v_addr') % AddrMod
               copied == {dest + o : o \in DOMAIN c.words}
    <2>2. \/ mem' = mem
          \/ mem' = [a \in DOMAIN mem \cup copied |->
                       IF a \in copied THEN c.words[a - dest] ELSE mem[a]]
      BY <1>1, <1>2 DEF CopySegment
    <2> HIDE DEF dest
    <2>3. copied = {}
      BY <1>3
    <2> HIDE DEF copied
    <2>4. DOMAIN mem' = DOMAIN mem /\ \A a \in DOMAIN mem : mem'[a] = mem[a]
      BY <2>2, <2>3
    <2> QED
      BY <1>3, <2>1, <2>4
  <1>4. CASE DOMAIN c.words # {}
    <2>1. k \in Mappable(file) /\ c.filesize # 0 /\ c.segname # "__PAGEZERO"
      BY <1>1, <1>4, OnlyMappableHasWords DEF Mappable
    <2>2. CASE img_addr' = Null
      BY <1>1, <1>2, <2>1, <2>2 DEF CopySegment, NewWords
    <2>3. CASE img_addr' # Null
      <3>1. img_addr' \in HostBases /\ v_addr' = min_vmaddr(file)
        BY <1>1, <2>3, MappingStays, SegmentAtHand DEF Mapped
      <3>2. PICK b \in HostBases : b = img_addr'
        BY <3>1
      <3>3. v_addr' # Null
        BY <1>1, <2>1, <3>1, LinkedRange
      <3>4. PICK d \in Nat : d = b + Offset(file, k)
        BY <1>1, <2>1, SlidToOffset, WidthAssumption
      <3>5. (img_addr' + c.vmaddr - v_addr') % AddrMod = d
        BY <1>1, <2>1, <3>1, <3>2, <3>4, SlidToOffset
      <3>6. NewWords(img_addr', k) = {d + o : o \in DOMAIN c.words}
        BY <2>3, <3>2, <3>4 DEF NewWords
      <3>7. mem' = [a \in DOMAIN mem \cup {d + o : o \in DOMAIN c.words} |->
                      IF a \in {d + o : o \in DOMAIN c.words} THEN c.words[a - d] ELSE mem[a]]
        BY <1>1, <1>2, <2>1, <2>3, <3>3, <3>5 DEF CopySegment
      <3>8. \A o \in DOMAIN c.words : (d + o) - d = o
        BY <1>1, OnlyMappableHasWords
      <3>9. ASSUME NEW a \in DOMAIN mem, NEW o \in DOMAIN c.words, a = d + o
            PROVE  FALSE
        <4>0. PICK j \in SegmentsOf(file) :
                Passed(j) /\ img_addr # Null /\ \E q \in DOMAIN file.cmds[j].words : a = WordAt(j, q)
          BY DEF LoadInv, MemoryIsOfFile
        <4>1. PICK q \in DOMAIN file.cmds[j].words :
                Passed(j) /\ img_addr # Null /\ a = WordAt(j, q)
          BY <4>0
        <4>2. img_addr = b
          BY <3>2, <4>1, MappingStays
        <4>3. b + Offset(file, j) + q = b + Offset(file, k) + o
          BY <3>4, <3>9, <4>1, <4>2 DEF WordAt
        <4>4. Offset(file, j) + q = Offset(file, k) + o
          BY <1>1, <4>3, WordInside
        <4>5. j = k
          BY <1>1, <4>4, OneHolder
        <4> QED
          BY <1>1, <4>1, <4>5 DEF Passed
      <3> HIDE DEF c
      <3>10. DOMAIN mem' = DOMAIN mem \cup NewWords(img_addr', k)
        BY <3>6, <3>7
      <3>11. DOMAIN mem \cap NewWords(img_addr', k) = {}
        BY <3>6, <3>9
      <3>12. \A a \in DOMAIN mem : mem'[a] = mem[a]
        BY <3>7, <3>9
      <3>13. \A o \in DOMAIN c.words : mem'[d + o] = c.words[o]
        BY <3>7, <3>8
      <3> QED
        BY <3>2, <3>4, <3>10, <3>11, <3>12, <3>13 DEF c
    <2> QED
      BY <2>2, <2>3
  <1> QED
    BY <1>3, <1>4

(* The address a segment gets in the table is where its words are. *)
LEMMA TextIsLowest ==
  ASSUME NEW f \in Files, LinkedSegments(f), NEW k \in SegmentsOf(f),
         f.cmds[k].segname = "__TEXT"
  PROVE  k \in Mappable(f) /\ Offset(f, k) = 0
  <1>1. k \in Mappable(f) /\ \A j \in Mappable(f) : f.cmds[k].vmaddr <= f.cmds[j].vmaddr
    BY DEF LinkedSegments
  <1>2. PICK j \in Mappable(f) : min_vmaddr(f) = f.cmds[j].vmaddr
    BY <1>1, LinkedRange
  <1>3. /\ min_vmaddr(f) \in Nat /\ f.cmds[k].vmaddr \in Nat
        /\ f.cmds[k].vmaddr <= min_vmaddr(f) /\ min_vmaddr(f) <= f.cmds[k].vmaddr
    BY <1>1, <1>2, LinkedRange
  <1>4. f.cmds[k].vmaddr - min_vmaddr(f) = 0
    BY <1>3
  <1> QED
    BY <1>1, <1>4 DEF Offset

LEMMA MappedAddrIs ==
  ASSUME LoadInv, LoadSegment, NEW k, k = c_load_command + 1
  PROVE  /\ MappedAddr \in Addr
         /\ MappedAddr # Null =>
              /\ img_addr' # Null
              /\ MappedAddr = (img_addr' + file.cmds[k].vmaddr - v_addr') % AddrMod
  <1> DEFINE c == file.cmds[k]
             slid == (img_addr' + c.vmaddr - v_addr') % AddrMod
  <1>1. /\ file \in Files /\ LinkedSegments(file) /\ k \in SegmentsOf(file) /\ command = c
        /\ file' = file
    BY SegmentAtHand
  <1>2. \/ img_addr' = Null
        \/ img_addr' \in HostBases /\ v_addr' = min_vmaddr(file) /\ Mappable(file) # {}
    BY <1>1, MappingStays DEF Mapped
  <1>3. c.vmaddr \in Nat
    BY <1>1, OnlyMappableHasWords, SegmentIs, WidthAssumption
  <1>4. ASSUME img_addr' # Null
        PROVE  img_addr' \in Nat /\ v_addr' \in Nat /\ slid \in Addr /\ img_addr' \in Addr
    <2>1. PICK j \in Mappable(file) : TRUE
      BY <1>2, <1>4
    <2>2. img_addr' \in Nat /\ v_addr' \in Nat /\ img_addr' \in Addr
      BY <1>1, <1>2, <1>4, <2>1, LinkedRange, HostAssumption, WidthAssumption
    <2>3. img_addr' + c.vmaddr - v_addr' \in Int
      BY <1>3, <2>2
    <2> QED
      BY <2>2, <2>3, WordSum
  <1>5. CASE c.segname = "__PAGEZERO"
    BY <1>1, <1>5, WidthAssumption DEF MappedAddr
  <1>6. CASE c.segname = "__TEXT"
    <2>1. MappedAddr = img_addr'
      BY <1>1, <1>6 DEF MappedAddr
    <2>2. k \in Mappable(file) /\ Offset(file, k) = 0
      BY <1>1, <1>6, TextIsLowest
    <2>3. CASE img_addr' = Null
      BY <2>1, <2>3, WidthAssumption
    <2>4. CASE img_addr' # Null
      <3>1. slid = img_addr' + Offset(file, k)
        BY <1>1, <1>2, <2>2, <2>4, SlidToOffset
      <3>2. slid = img_addr'
        BY <1>4, <2>2, <2>4, <3>1
      <3> QED
        BY <1>4, <2>1, <2>4, <3>2
    <2> QED
      BY <2>3, <2>4
  <1>7. CASE c.segname # "__PAGEZERO" /\ c.segname # "__TEXT"
    <2>1. MappedAddr = IF img_addr' # Null /\ v_addr' # Null THEN slid ELSE Null
      BY <1>1, <1>7 DEF MappedAddr
    <2> QED
      BY <1>4, <2>1, WidthAssumption
  <1> QED
    BY <1>5, <1>6, <1>7

(* Its entry. *)
LEMMA SegmentRecorded ==
  ASSUME LoadInv, LoadSegment, NEW k, k = c_load_command + 1
  PROVE  /\ TableGrows /\ TableLength'
         /\ Number(file, k) <= Len(segments') => segments'[Number(file, k)] = Entry(k)
  <1>1. /\ file \in Files /\ LinkedSegments(file) /\ k \in SegmentsOf(file)
        /\ command = file.cmds[k] /\ file' = file /\ c_load_command' = k
        /\ c_load_command \in Nat /\ c_load_command < Len(file.cmds)
    BY SegmentAtHand
  <1>2. segments \in Seq(SegmentInfo) /\ Len(segments) <= MaxSegments /\ TableLength
    BY DEF LoadInv, FixupsTypeOK, ContextTypeOK
  <1>3. Entry(k) \in SegmentInfo
    <2>1. /\ file.cmds[k].segname \in SegmentNames /\ file.cmds[k].vmaddr \in Addr
          /\ file.cmds[k].vmsize \in Nat
      BY <1>1, OnlyMappableHasWords, SegmentIs
    <2> QED
      BY <2>1, MappedAddrIs DEF Entry, SegmentInfo
  <1> QED
    BY <1>1, <1>2, <1>3, RecordGrowsTable DEF LoadSegment

LEMMA SegmentKeepsInv ==
  ASSUME LoadInv, LoadSegment
  PROVE  LoadInv'
  <1> DEFINE c == c_load_command
  <1>1. PICK k : k = c + 1
    OBVIOUS
  <1>2. /\ file \in Files /\ LinkedSegments(file) /\ k \in SegmentsOf(file)
        /\ file' = file /\ c_load_command' = k /\ c \in Nat /\ lpc' = "command" /\ lpc = "command"
        /\ UNCHANGED fixups_state
    BY <1>1, SegmentAtHand
  <1>3. visited' = visited /\ fixups' = fixups
    BY <1>2 DEF fixups_state
  <1>4. /\ Mapped'
        /\ img_addr # Null => img_addr' = img_addr /\ v_addr' = v_addr
    BY MappingStays
  <1>5. img_addr' # Null => img_addr' \in HostBases
    BY <1>2, <1>4 DEF Mapped
  <1>6. /\ DOMAIN mem' = DOMAIN mem \cup NewWords(img_addr', k)
        /\ \A a \in DOMAIN mem : mem'[a] = mem[a]
        /\ img_addr' # Null =>
             \A o \in DOMAIN file.cmds[k].words :
               mem'[img_addr' + Offset(file, k) + o] = file.cmds[k].words[o]
    BY <1>1, SegmentCopied
  <1>7. /\ \A j, o : WordAt(j, o)' = img_addr' + Offset(file, j) + o
        /\ \A j : Passed(j)' <=> j <= k
        /\ \A a : Slid(a)' = (img_addr' + a - v_addr') % AddrMod
        /\ img_addr # Null => (\A j, o : WordAt(j, o)' = WordAt(j, o)) /\ (\A a : Slid(a)' = Slid(a))
    BY <1>2, <1>4 DEF WordAt, Passed, Slid
  <1>8. DOMAIN mem # {} => img_addr # Null
    BY DEF LoadInv, MemoryIsOfFile
  <1>9. \A j \in SegmentsOf(file) : /\ (j <= k <=> j <= c \/ j = k) /\ (Passed(j) <=> j <= c)
    <2>1. SegmentsOf(file) \subseteq Nat
      BY <1>2, NumberGrows
    <2> QED
      BY <1>1, <1>2, <2>1 DEF Passed
  <1>10. MemoryIsOfFile'
    <2> SUFFICES ASSUME NEW a \in DOMAIN mem'
                 PROVE  /\ img_addr' # Null
                        /\ \E j \in SegmentsOf(file) : j <= k /\
                             \E o \in DOMAIN file.cmds[j].words : a = img_addr' + Offset(file, j) + o
      BY <1>2, <1>7 DEF MemoryIsOfFile
    <2>1. CASE a \in DOMAIN mem
      <3>1. PICK j \in SegmentsOf(file) :
              Passed(j) /\ img_addr # Null /\ \E o \in DOMAIN file.cmds[j].words : a = WordAt(j, o)
        BY <2>1 DEF LoadInv, MemoryIsOfFile
      <3>2. j <= k /\ img_addr' = img_addr
        BY <1>4, <1>9, <3>1
      <3> QED
        BY <3>1, <3>2 DEF WordAt
    <2>2. CASE a \in NewWords(img_addr', k)
      BY <1>2, <1>9, <2>2 DEF NewWords
    <2> QED
      BY <1>6, <2>1, <2>2
  <1>11. MemoryIsAsInFile'
    <2> SUFFICES ASSUME NEW j \in SegmentsOf(file), NEW o \in DOMAIN file.cmds[j].words,
                        NEW a, a = img_addr' + Offset(file, j) + o,
                        a \in DOMAIN mem', a \notin visited
                 PROVE  mem'[a] = file.cmds[j].words[o]
      BY <1>2, <1>3, <1>7 DEF MemoryIsAsInFile
    <2>1. CASE a \in DOMAIN mem
      <3>1. a = WordAt(j, o)
        BY <1>4, <1>8, <2>1 DEF WordAt
      <3>2. mem[a] = file.cmds[j].words[o]
        BY <2>1, <3>1 DEF LoadInv, MemoryIsAsInFile
      <3> QED
        BY <1>6, <2>1, <3>2
    <2>2. CASE a \in NewWords(img_addr', k)
      <3>1. img_addr' # Null /\ \E q \in DOMAIN file.cmds[k].words : a = img_addr' + Offset(file, k) + q
        BY <2>2 DEF NewWords
      <3>2. PICK q \in DOMAIN file.cmds[k].words : a = img_addr' + Offset(file, k) + q
        BY <3>1
      <3>3. PICK b \in HostBases : b = img_addr'
        BY <1>5, <3>1
      <3>4. Offset(file, j) + o = Offset(file, k) + q
        <4>1. (b + Offset(file, j) + o) - b = Offset(file, j) + o
          BY <1>2, WordInside
        <4>2. (b + Offset(file, k) + q) - b = Offset(file, k) + q
          BY <1>2, WordInside
        <4> QED
          BY <3>2, <3>3, <4>1, <4>2
      <3>5. j = k /\ o = q
        BY <1>2, <3>4, OneHolder
      <3> QED
        BY <1>6, <3>1, <3>2, <3>5
    <2> QED
      BY <1>6, <2>1, <2>2
  <1>12. /\ TableLength' /\ segments' \in Seq(SegmentInfo) /\ Len(segments') <= MaxSegments
         /\ \A n \in 1 .. Len(segments) : segments'[n] = segments[n]
         /\ \A j \in SegmentsOf(file) : Passed(j) /\ Number(file, j) <= Len(segments') =>
              Number(file, j) \in 1 .. Len(segments)
         /\ Number(file, k) <= Len(segments') => segments'[Number(file, k)] = Entry(k)
    BY <1>1, SegmentRecorded DEF TableGrows
  <1>13. TableIsOfFile'
    <2> SUFFICES ASSUME NEW j \in SegmentsOf(file), j <= k, Number(file, j) <= Len(segments')
                 PROVE  InTable(j)'
      BY <1>2, <1>7 DEF TableIsOfFile
    <2>1. CASE j = k
      <3>1. segments'[Number(file, k)] = Entry(k)
        BY <1>12, <2>1
      <3>2. /\ Entry(k).segname = file.cmds[k].segname
            /\ Entry(k).mapped_addr # Null =>
                 /\ img_addr' # Null
                 /\ Entry(k).mapped_addr = (img_addr' + file.cmds[k].vmaddr - v_addr') % AddrMod
        BY <1>1, MappedAddrIs DEF Entry
      <3>3. img_addr' # Null =>
              \A o \in DOMAIN file.cmds[k].words : img_addr' + Offset(file, k) + o \in DOMAIN mem'
        BY <1>6 DEF NewWords
      <3> QED
        BY <1>2, <1>7, <2>1, <3>1, <3>2, <3>3 DEF InTable
    <2>2. CASE j <= c
      <3>1. Passed(j) /\ Number(file, j) \in 1 .. Len(segments)
        BY <1>9, <1>12, <2>2
      <3>2. Number(file, j) <= Len(segments)
        BY <3>1
      <3>3. InTable(j) /\ segments'[Number(file, j)] = segments[Number(file, j)]
        BY <1>12, <3>1, <3>2 DEF LoadInv, TableIsOfFile
      <3> QED
        BY <1>2, <1>4, <1>6, <1>7, <3>3 DEF InTable
    <2> QED
      BY <1>9, <2>1, <2>2
  <1>14. FixupsTypeOK'
    <2>1. img_addr' \in Addr
      BY <1>5, HostAssumption, WidthAssumption
    <2>2. ASSUME NEW a \in DOMAIN mem' PROVE a \in Nat /\ mem'[a] \in Word
      <3>1. CASE a \in DOMAIN mem
        BY <1>6, <3>1 DEF LoadInv, FixupsTypeOK, ContextTypeOK
      <3>2. CASE a \in NewWords(img_addr', k)
        <4>1. PICK o \in DOMAIN file.cmds[k].words : img_addr' # Null /\ a = img_addr' + Offset(file, k) + o
          BY <3>2 DEF NewWords
        <4> QED
          BY <1>2, <1>5, <1>6, <4>1, WordInside
      <3> QED
        BY <1>6, <3>1, <3>2
    <2> QED
      BY <1>2, <1>12, <2>1, <2>2
      DEF LoadInv, FixupsTypeOK, ContextTypeOK, fixups_state, cursor, counters
  <1>15. FixupsOfFile'
    <2>1. visited \subseteq DOMAIN mem'
      BY <1>6 DEF LoadInv, FixupsOfFile
    <2>2. (\A j \in FixupsCommands(file) : ~(j <= k)) => visited = {}
      <3>1. FixupsCommands(file) \subseteq Nat
        BY <1>2, FilesAssumption DEF FixupsCommands, IsFile
      <3> QED
        BY <1>1, <1>2, <3>1 DEF LoadInv, FixupsOfFile, Passed
    <2> QED
      BY <1>2, <1>3, <1>7, <2>1, <2>2 DEF FixupsOfFile
  <1>16. Walk(64)'
    BY Loader64Walks DEF LoadInv, LoaderNext, LoaderStep
  <1>17. BindsOfFile'
    BY <1>2 DEF BindsOfFile
  <1> QED
    BY <1>2, <1>4, <1>10, <1>11, <1>12, <1>13, <1>14, <1>15, <1>16, <1>17 DEF LoadInv

----------------------------------------------------------------------------
(* The steps that leave the image alone leave the loop where it is, or at  *)
(* the next command after one that is no segment.                          *)
Aside ==
  /\ UNCHANGED <<file, img_addr, segments, mem, v_addr, fixups_state>>
  /\ lpc' # "fixups" /\ (lpc = "fixups" => c_load_command' # c_load_command)
  /\ \/ c_load_command' = c_load_command
     \/ /\ c_load_command' = c_load_command + 1
        /\ c_load_command + 1 \notin SegmentsOf(file)
  /\ BindsOfFile'

AsideStep ==
  \/ ReadHeader \/ EndCommands \/ FindMain \/ LoadDylib \/ PassCommand
  \/ ReturnFixups \/ CallBinds \/ RunBinds \/ ReturnBinds

(* The command at hand, and what it is not. *)
LEMMA CommandAtHand ==
  ASSUME LoadInv, lpc \in {"command", "fixups", "binds"}, c_load_command < Len(file.cmds)
  PROVE  /\ command = file.cmds[c_load_command + 1] /\ c_load_command \in Nat
         /\ command.cmd # "LC_SEGMENT_64" => c_load_command + 1 \notin SegmentsOf(file)
  <1>1. command = file.cmds[c_load_command + 1] /\ c_load_command \in Nat
    BY AtTheCommand DEF LoadInv, Walk
  <1> QED
    BY <1>1 DEF LoadInv, Linked, LinkedSegments

LEMMA AsideIs ==
  ASSUME LoadInv, AsideStep
  PROVE  Aside
  <1> USE DEF context, BindsOfFile
  <1>1. CASE ReadHeader \/ EndCommands
    BY <1>1 DEF ReadHeader, EndCommands, Aside
  <1>2. CASE FindMain \/ LoadDylib \/ PassCommand
    <2>1. /\ UNCHANGED <<file, img_addr, segments, mem, v_addr, fixups_state, lpc>>
          /\ lpc = "command" /\ c_load_command < Len(file.cmds) /\ command.cmd # "LC_SEGMENT_64"
          /\ c_load_command' = c_load_command + 1
      BY <1>2 DEF FindMain, LoadDylib, PassCommand, AtCommand, NextCommand
    <2> QED
      BY <2>1, CommandAtHand DEF Aside
  <1>3. CASE ReturnFixups
    <2>1. /\ UNCHANGED <<file, img_addr, segments, mem, v_addr, fixups_state>>
          /\ lpc = "fixups" /\ lpc' = "command" /\ c_load_command' = c_load_command + 1
      BY <1>3 DEF ReturnFixups, NextCommand
    <2>2. c_load_command < Len(file.cmds) /\ command.cmd = "LC_DYLD_CHAINED_FIXUPS"
      BY <2>1, CommandAtHand DEF LoadInv, Walk, FixupsOfFile
    <2> QED
      BY <2>1, <2>2, CommandAtHand DEF Aside
  <1>4. CASE CallBinds
    <2>1. /\ UNCHANGED <<file, img_addr, segments, mem, v_addr, fixups_state, c_load_command>>
          /\ lpc = "command" /\ lpc' = "binds" /\ c_load_command < Len(file.cmds)
          /\ command.cmd = "LC_DYLD_INFO"
      BY <1>4 DEF CallBinds, AtCommand
    <2> QED
      BY <2>1, CommandAtHand DEF Aside
  <1>5. CASE RunBinds
    <2>1. /\ UNCHANGED <<file, img_addr, segments, mem, v_addr, fixups_state, c_load_command, lpc>>
          /\ lpc = "binds"
      BY <1>5, BindsKeepImage DEF RunBinds, loader_state
    <2> QED
      BY <2>1 DEF Aside, LoadInv
  <1>6. CASE ReturnBinds
    <2>1. /\ UNCHANGED <<file, img_addr, segments, mem, v_addr, fixups_state>>
          /\ lpc = "binds" /\ lpc' = "command" /\ c_load_command' = c_load_command + 1
      BY <1>6 DEF ReturnBinds, NextCommand
    <2>2. c_load_command < Len(file.cmds) /\ command.cmd = "LC_DYLD_INFO"
      BY <2>1, CommandAtHand DEF LoadInv, Walk
    <2> QED
      BY <2>1, <2>2, CommandAtHand DEF Aside
  <1> QED
    BY <1>1, <1>2, <1>3, <1>4, <1>5, <1>6 DEF AsideStep

LEMMA AsideKeepsInv ==
  ASSUME LoadInv, Aside, Walk(64)'
  PROVE  LoadInv'
  <1>1. /\ UNCHANGED <<file, img_addr, segments, mem, v_addr>> /\ UNCHANGED <<fixups, visited>>
        /\ lpc' # "fixups" /\ (lpc = "fixups" => c_load_command' # c_load_command)
        /\ \/ c_load_command' = c_load_command
           \/ /\ c_load_command' = c_load_command + 1
              /\ c_load_command + 1 \notin SegmentsOf(file)
    BY DEF Aside, fixups_state
  <1>2. file \in Files /\ c_load_command \in Nat
    BY DEF LoadInv, Walk
  <1>3. SegmentsOf(file) \subseteq Nat /\ FixupsCommands(file) \subseteq Nat
    BY <1>2, FilesAssumption DEF SegmentsOf, FixupsCommands, IsFile
  <1>4. /\ \A k \in SegmentsOf(file) : Passed(k)' <=> Passed(k)
        /\ \A j \in Nat : Passed(j) => Passed(j)'
    BY <1>1, <1>2, <1>3 DEF Passed
  <1>5. Number(file, c_load_command)' = Number(file, c_load_command)
    <2>1. CASE c_load_command' = c_load_command
      BY <1>1, <2>1
    <2>2. CASE c_load_command' # c_load_command
      <3>1. c_load_command < Len(file.cmds)
        <4>1. c_load_command + 1 \in 0 .. Len(file.cmds)
          BY <1>1, <2>2 DEF Walk
        <4> QED
          BY <1>2, <4>1, FilesAssumption DEF IsFile
      <3>2. Number(file, c_load_command + 1) = Number(file, c_load_command)
        BY <1>1, <1>2, <2>2, <3>1, NumberOfNext
      <3> QED
        BY <1>1, <2>2, <3>2
    <2> QED
      BY <2>1, <2>2
  <1>6. Mapped' /\ MemoryIsAsInFile' /\ Linked(file)'
    BY <1>1 DEF LoadInv, Mapped, MemoryIsAsInFile, WordAt
  <1>7. MemoryIsOfFile'
    BY <1>1, <1>4 DEF LoadInv, MemoryIsOfFile, WordAt
  <1>8. TableLength'
    BY <1>1, <1>5 DEF LoadInv, TableLength
  <1>9. TableIsOfFile'
    BY <1>1, <1>4 DEF LoadInv, TableIsOfFile, InTable, WordAt, Slid
  <1>10. FixupsTypeOK'
    BY DEF Aside, LoadInv, FixupsTypeOK, ContextTypeOK, fixups_state, cursor, counters
  <1>11. FixupsOfFile'
    <2>1. ASSUME \A j \in FixupsCommands(file) : ~Passed(j)'
          PROVE  visited = {}
      <3>1. \A j \in FixupsCommands(file) : ~Passed(j)
        BY <1>3, <1>4, <2>1
      <3>2. lpc # "fixups"
        <4> SUFFICES ASSUME lpc = "fixups" PROVE FALSE
          OBVIOUS
        <4>1. c_load_command' = c_load_command + 1 /\ c_load_command + 1 \in 1 .. Len(file.cmds)
          BY <1>1, <1>2, FilesAssumption DEF LoadInv, Walk, IsFile
        <4>2. c_load_command + 1 \in FixupsCommands(file)
          BY <1>2, <4>1, FilesAssumption DEF LoadInv, FixupsOfFile, FixupsCommands, IsFile
        <4> QED
          BY <1>2, <2>1, <4>1, <4>2 DEF Passed
      <3> QED
        BY <3>1, <3>2 DEF LoadInv, FixupsOfFile
    <2> QED
      BY <1>1, <2>1 DEF LoadInv, FixupsOfFile
  <1> QED
    BY <1>6, <1>7, <1>8, <1>9, <1>10, <1>11 DEF LoadInv, Aside

----------------------------------------------------------------------------
(* The walk over the fixups: it starts on what the file says...             *)
LEMMA PayloadFixup ==
  ASSUME NEW fx \in FixupsPayload, NEW i \in 1 .. Len(fx.segs),
         NEW q \in 1 .. Len(fx.segs[i].chain), NEW n \in 1 .. Len(fx.segs[i].chain[q])
  PROVE  FixupAt(fx, i, q, n).off \in Nat /\ FixupAt(fx, i, q, n).raw \in Word
  <1>1. fx.segs \in Seq(StartsInSegment)
    BY DEF FixupsPayload
  <1>2. PICK s \in StartsInSegment : fx.segs[i] = s
    BY <1>1
  <1>3. PICK chains \in Seq(Seq(Fixup)) : s.chain = chains
    BY DEF StartsInSegment
  <1>4. PICK c \in Seq(Fixup) : chains[q] = c
    BY <1>2, <1>3
  <1>5. PICK e \in Fixup : c[n] = e
    BY <1>2, <1>3, <1>4
  <1>6. FixupAt(fx, i, q, n) = e
    BY <1>2, <1>3, <1>4, <1>5 DEF FixupAt
  <1> QED
    BY <1>6 DEF Fixup

(* The word the linker put at a fixup, by the segment that holds it. *)
WrittenAt(f, fx, i, q, n) ==
  \E k \in SegmentsOf(f) : \E o \in DOMAIN f.cmds[k].words :
    /\ Number(f, k) = i
    /\ FixupAt(fx, i, q, n).off = Offset(f, k) + o
    /\ \A b \in Nat : b + Offset(f, k) + o = b + FixupAt(fx, i, q, n).off
    /\ f.cmds[k].words[o] = FixupAt(fx, i, q, n).raw

(* Each fixup of a payload is at a word of a segment that can be mapped. *)
FixupsAtWords(f, fx) ==
  \A i \in 1 .. Len(fx.segs) : \A q \in 1 .. Len(fx.segs[i].chain) :
    \A n \in 1 .. Len(fx.segs[i].chain[q]) :
      LET e == FixupAt(fx, i, q, n) IN
      \E k \in Mappable(f) :
        /\ Number(f, k) = i /\ e.off - Offset(f, k) \in DOMAIN f.cmds[k].words
        /\ f.cmds[k].words[e.off - Offset(f, k)] = e.raw

LEMMA LinkedAtWords ==
  ASSUME NEW f, Linked(f), NEW j \in FixupsCommands(f), NEW fx, fx = f.cmds[j].fixups
  PROVE  FixupsAtWords(f, fx)
  <1>1. LinkedFixups(f)
    BY DEF Linked
  <1>2. FixupsAtWords(f, f.cmds[j].fixups)
    BY <1>1, Zenon DEF LinkedFixups, FixupsAtWords
  <1> QED
    BY <1>2

LEMMA FixupIsWord ==
  ASSUME NEW f \in Files, Linked(f), NEW j \in FixupsCommands(f), NEW fx, fx = f.cmds[j].fixups,
         NEW i \in 1 .. Len(fx.segs), NEW q \in 1 .. Len(fx.segs[i].chain),
         NEW n \in 1 .. Len(fx.segs[i].chain[q])
  PROVE  /\ fx \in FixupsPayload /\ WellLinked(fx)
         /\ WrittenAt(f, fx, i, q, n)
  <1> DEFINE e == FixupAt(fx, i, q, n)
  <1>1. f.cmds[j].cmd = "LC_DYLD_CHAINED_FIXUPS" /\ IsCommand(f.cmds[j])
    BY FilesAssumption DEF FixupsCommands, IsFile
  <1>2. fx \in FixupsPayload /\ WellLinked(fx)
    BY <1>1 DEF IsCommand, linkedit_data_command
  <1>3. e.off \in Nat
    BY <1>2, PayloadFixup
  <1>4. PICK k \in Mappable(f) : /\ Number(f, k) = i
                                /\ e.off - Offset(f, k) \in DOMAIN f.cmds[k].words
                                /\ f.cmds[k].words[e.off - Offset(f, k)] = e.raw
    <2>1. FixupsAtWords(f, fx)
      BY LinkedAtWords
    <2> QED
      BY <2>1, Zenon DEF FixupsAtWords
  <1>5. k \in SegmentsOf(f) /\ Offset(f, k) \in Nat
    BY MappableIsSegment, LinkedRange DEF Linked
  <1>6. PICK o \in DOMAIN f.cmds[k].words : o = e.off - Offset(f, k)
    BY <1>4
  <1>7. o \in Nat
    BY <1>5, OnlyMappableHasWords DEF Linked
  <1> HIDE DEF e
  <1>8. e.off = Offset(f, k) + o /\ \A b \in Nat : b + Offset(f, k) + o = b + e.off
    BY <1>3, <1>5, <1>6, <1>7
  <1> QED
    BY <1>2, <1>4, <1>5, <1>6, <1>8 DEF e, WrittenAt

(* A segment of the table with an address is the one of the file with that  *)
(* number, passed and in memory.                                            *)
LEMMA TableGivesWords ==
  ASSUME LoadInv, NEW k \in SegmentsOf(file), Number(file, k) <= Len(segments)
  PROVE  Passed(k) /\ InTable(k) /\ Recorded(k) = (segments[Number(file, k)].mapped_addr # Null)
  <1>1. file \in Files /\ c_load_command \in Nat
    BY DEF LoadInv, Walk
  <1>2. /\ Number(file, k) \in Nat /\ Number(file, c_load_command) \in Nat /\ k \in Nat
        /\ c_load_command < k => Number(file, c_load_command) < Number(file, k)
    BY <1>1, NumberGrows
  <1>3. Len(segments) <= Number(file, c_load_command) /\ Len(segments) \in Nat
    BY <1>2, LimitAssumption DEF LoadInv, TableLength
  <1>4. Passed(k)
    BY <1>1, <1>2, <1>3 DEF Passed
  <1> QED
    BY <1>4 DEF LoadInv, TableIsOfFile, Recorded, SegmentNo

LEMMA FixupsCalled ==
  ASSUME LoadInv, CallFixups
  PROVE  /\ c_load_command + 1 \in FixupsCommands(file) /\ c_load_command < Len(file.cmds)
         /\ fixups' = file.cmds[c_load_command + 1].fixups
         /\ fixups' \in FixupsPayload /\ WellLinked(fixups')
         /\ UNCHANGED <<file, c_load_command, v_addr, context, cursor, counters, visited>>
         /\ lpc = "command" /\ lpc' = "fixups" /\ fpc' = "begin" /\ visited = {}
  <1>1. /\ lpc = "command" /\ c_load_command < Len(file.cmds)
        /\ command.cmd = "LC_DYLD_CHAINED_FIXUPS" /\ fixups' = command.fixups
        /\ lpc' = "fixups" /\ fpc' = "begin"
        /\ UNCHANGED <<file, c_load_command, v_addr, context, cursor, counters, visited>>
    BY DEF CallFixups, AtCommand
  <1>2. /\ command = file.cmds[c_load_command + 1] /\ IsCommand(command)
        /\ c_load_command + 1 \in 1 .. Len(file.cmds)
    BY <1>1, AtTheCommand DEF LoadInv
  <1>3. fixups' \in FixupsPayload /\ WellLinked(fixups')
    BY <1>1, <1>2 DEF IsCommand, linkedit_data_command
  <1>4. c_load_command + 1 \in FixupsCommands(file)
    BY <1>1, <1>2, FilesAssumption DEF FixupsCommands, LoadInv, Walk, IsFile
  <1>5. visited = {}
    <2>1. \A j \in FixupsCommands(file) : ~Passed(j)
      BY <1>4 DEF LoadInv, Walk, Linked, LinkedFixups, Passed
    <2> QED
      BY <1>1, <2>1 DEF LoadInv, FixupsOfFile
  <1> QED
    BY <1>1, <1>2, <1>3, <1>4, <1>5

LEMMA CallKeepsInv ==
  ASSUME LoadInv, CallFixups
  PROVE  LoadInv'
  <1>1. /\ c_load_command + 1 \in FixupsCommands(file) /\ c_load_command < Len(file.cmds)
        /\ fixups' = file.cmds[c_load_command + 1].fixups
        /\ fixups' \in FixupsPayload /\ WellLinked(fixups')
        /\ UNCHANGED <<file, c_load_command, v_addr, context, cursor, counters, visited>>
        /\ lpc = "command" /\ lpc' = "fixups" /\ fpc' = "begin" /\ visited = {}
    BY FixupsCalled
  <1>2. UNCHANGED <<img_addr, segments, mem>>
    BY <1>1 DEF context
  <1>3. Walk(64)'
    BY Loader64Walks DEF LoadInv, LoaderNext, LoaderStep
  <1>4. FixupsTypeOK'
    BY <1>1, <1>2 DEF LoadInv, FixupsTypeOK, ContextTypeOK, cursor, counters
  <1>5. HeldUntilVisited'
    <2> SUFFICES ASSUME NEW i \in Nat, NEW q \in Nat, NEW n \in Nat, IsFixup(i, q, n)', Walked(i)'
                 PROVE  /\ PlaceOf(i, q, n)' \in DOMAIN mem
                        /\ mem[PlaceOf(i, q, n)'] = RawAt(i, q, n)'
      BY <1>2 DEF HeldUntilVisited
    <2> DEFINE e == FixupAt(fixups', i, q, n)
    <2>1. /\ i \in 1 .. Len(fixups'.segs) /\ q \in 1 .. Len(fixups'.segs[i].chain)
          /\ n \in 1 .. Len(fixups'.segs[i].chain[q])
          /\ i <= Len(segments) /\ segments[i].mapped_addr # Null
          /\ PlaceOf(i, q, n)' = img_addr + e.off /\ RawAt(i, q, n)' = e.raw
      BY <1>2 DEF IsFixup, Walked, PlaceOf, RawAt
    <2>2. file \in Files /\ Linked(file)
      BY DEF LoadInv, Walk
    <2>0. PICK j, fx : j \in FixupsCommands(file) /\ fx = fixups' /\ fx = file.cmds[j].fixups
      BY <1>1
    <2> HIDE DEF e
    <2>10. /\ i \in 1 .. Len(fx.segs) /\ q \in 1 .. Len(fx.segs[i].chain)
           /\ n \in 1 .. Len(fx.segs[i].chain[q]) /\ e = FixupAt(fx, i, q, n)
      BY <2>0, <2>1 DEF e
    <2>11. \E k \in SegmentsOf(file) : \E o \in DOMAIN file.cmds[k].words :
              /\ Number(file, k) = i
              /\ FixupAt(fx, i, q, n).off = Offset(file, k) + o
              /\ \A b \in Nat : b + Offset(file, k) + o = b + FixupAt(fx, i, q, n).off
              /\ file.cmds[k].words[o] = FixupAt(fx, i, q, n).raw
      <3>1. WrittenAt(file, fx, i, q, n)
        BY <2>0, <2>2, <2>10, FixupIsWord
      <3> QED
        BY <3>1 DEF WrittenAt
    <2>3. PICK k \in SegmentsOf(file) :
            \E o \in DOMAIN file.cmds[k].words :
              /\ Number(file, k) = i
              /\ \A b \in Nat : b + Offset(file, k) + o = b + e.off
              /\ file.cmds[k].words[o] = e.raw
      BY <2>10, <2>11
    <2>4. PICK o \in DOMAIN file.cmds[k].words :
              /\ Number(file, k) = i
              /\ \A b \in Nat : b + Offset(file, k) + o = b + e.off
              /\ file.cmds[k].words[o] = e.raw
      BY <2>3
    <2>5. InTable(k)
      BY <2>1, <2>4, TableGivesWords
    <2>6. WordAt(k, o) \in DOMAIN mem
      BY <2>1, <2>4, <2>5 DEF InTable
    <2>7. img_addr \in Nat
      BY WidthAssumption DEF LoadInv, FixupsTypeOK, ContextTypeOK
    <2>8. WordAt(k, o) = img_addr + e.off
      BY <2>4, <2>7 DEF WordAt
    <2>9. mem[WordAt(k, o)] = e.raw
      BY <1>1, <2>4, <2>6 DEF LoadInv, MemoryIsAsInFile
    <2> QED
      BY <2>1, <2>6, <2>8, <2>9
  <1>6. FixupsInv'
    <2>1. SegmentInRange' /\ CursorAtFixup'
      BY <1>1 DEF SegmentInRange, CursorAtFixup
    <2>2. VisitedBehind' /\ CountOK'
      BY <1>1, FS_EmptySet DEF VisitedBehind, CountOK, EachPlaceOnce
    <2> QED
      BY <1>1, <1>4, <1>5, <2>1, <2>2 DEF FixupsInv
  <1>7. FixupsOfFile'
    <2>1. file.cmds[c_load_command + 1].cmd = "LC_DYLD_CHAINED_FIXUPS"
      BY <1>1 DEF FixupsCommands
    <2> QED
      BY <1>1, <1>2, <1>6, <2>1 DEF FixupsOfFile
  <1>8. Mapped' /\ MemoryIsOfFile' /\ MemoryIsAsInFile' /\ Linked(file)'
    BY <1>1, <1>2 DEF LoadInv, Mapped, MemoryIsOfFile, MemoryIsAsInFile, WordAt, Passed
  <1>9. TableLength' /\ TableIsOfFile' /\ BindsOfFile'
    BY <1>1, <1>2 DEF LoadInv, TableLength, TableIsOfFile, InTable, WordAt, Passed, Slid, BindsOfFile
  <1> QED
    BY <1>3, <1>4, <1>7, <1>8, <1>9 DEF LoadInv

(* ...and changes only words that are there, each once. *)
LEMMA FixupsEffect ==
  ASSUME FixupsInv, FixupsStep
  PROVE  /\ UNCHANGED <<img_addr, segments, fixups>> /\ DOMAIN mem' = DOMAIN mem
         /\ \/ visited' = visited /\ mem' = mem
            \/ /\ ProcessStep /\ fpc = "chain" /\ loc \in DOMAIN mem \ visited
               /\ visited' = visited \cup {loc}
               /\ \A a \in DOMAIN mem : a # loc => mem'[a] = mem[a]
  <1>1. CASE MoveStep
    BY <1>1 DEF MoveStep, BeginFixups, SkipSegment, EnterSegment, EndSegments, SkipPage, EnterPage,
             EndPages, context, counters, cursor, FixupsInv, VisitedBehind
  <1>2. CASE ProcessStep
    BY <1>2, ProcessEffect, AtFixup
  <1> QED
    BY <1>1, <1>2 DEF FixupsStep, MoveStep, ProcessStep

LEMMA RunKeepsInv ==
  ASSUME LoadInv, RunFixups
  PROVE  LoadInv'
  <1>1. lpc = "fixups" /\ FixupsStep /\ UNCHANGED <<file, lpc, c_load_command, v_addr>>
    BY DEF RunFixups, loader_state
  <1>2. FixupsInv
    BY <1>1 DEF LoadInv, FixupsOfFile
  <1>3. FixupsInv'
    BY <1>1, <1>2, StepInv DEF FixupsNext
  <1>4. /\ UNCHANGED <<img_addr, segments, fixups>> /\ DOMAIN mem' = DOMAIN mem
        /\ visited \subseteq visited' /\ visited' \subseteq visited \cup DOMAIN mem
        /\ \A a \in DOMAIN mem : a \notin visited' => mem'[a] = mem[a]
    BY <1>1, <1>2, FixupsEffect
  <1>5. Walk(64)'
    BY Loader64Walks DEF LoadInv, LoaderNext, LoaderStep
  <1>6. FixupsTypeOK'
    BY <1>3 DEF FixupsInv
  <1>7. FixupsOfFile'
    BY <1>1, <1>3, <1>4 DEF LoadInv, FixupsOfFile
  <1>8. MemoryIsAsInFile'
    BY <1>1, <1>4 DEF LoadInv, MemoryIsAsInFile, WordAt
  <1>9. Mapped' /\ MemoryIsOfFile' /\ Linked(file)'
    BY <1>1, <1>4 DEF LoadInv, Mapped, MemoryIsOfFile, WordAt, Passed
  <1>10. TableLength' /\ TableIsOfFile' /\ BindsOfFile'
    BY <1>1, <1>4 DEF LoadInv, TableLength, TableIsOfFile, InTable, WordAt, Passed, Slid, BindsOfFile
  <1> QED
    BY <1>5, <1>6, <1>7, <1>8, <1>9, <1>10 DEF LoadInv

LEMMA StutterKeepsInv ==
  ASSUME LoadInv, UNCHANGED loader_vars
  PROVE  LoadInv'
  <1>1. /\ UNCHANGED <<file, lpc, ptr, c_load_command, v_addr, img_addr, segments, mem>>
        /\ UNCHANGED <<fixups, fpc, seg_i, page, loc, chain_count, visited>>
        /\ UNCHANGED <<chained_rebase_count, chained_bind_count, chained_unresolved_bind_count>>
        /\ UNCHANGED fixups_vars
    BY DEF loader_vars, loader_state, fixups_vars, fixups_state, context, cursor, counters
  <1>2. Walk(64)'
    BY Loader64Walks DEF LoadInv
  <1>3. FixupsTypeOK'
    BY <1>1 DEF LoadInv, FixupsTypeOK, ContextTypeOK
  <1>4. FixupsInv => FixupsInv'
    BY <1>1, StepInv
  <1>5. FixupsOfFile'
    BY <1>1, <1>4 DEF LoadInv, FixupsOfFile, Passed
  <1>6. Mapped' /\ MemoryIsOfFile' /\ MemoryIsAsInFile' /\ Linked(file)'
    BY <1>1 DEF LoadInv, Mapped, MemoryIsOfFile, MemoryIsAsInFile, WordAt, Passed
  <1>7. TableLength' /\ TableIsOfFile' /\ BindsOfFile'
    BY <1>1 DEF LoadInv, TableLength, TableIsOfFile, InTable, WordAt, Passed, Slid, BindsOfFile
  <1> QED
    BY <1>2, <1>3, <1>5, <1>6, <1>7 DEF LoadInv

LEMMA LoadStep == LoadInv /\ [LoaderNext]_loader_vars => LoadInv'
  <1> SUFFICES ASSUME LoadInv, [LoaderNext]_loader_vars PROVE LoadInv'
    OBVIOUS
  <1>1. CASE LoadSegment
    BY <1>1, SegmentKeepsInv
  <1>2. CASE AsideStep
    BY <1>2, AsideIs, AsideKeepsInv, Loader64Walks DEF LoadInv
  <1>3. CASE CallFixups
    BY <1>3, CallKeepsInv
  <1>4. CASE RunFixups
    BY <1>4, RunKeepsInv
  <1>5. CASE UNCHANGED loader_vars
    BY <1>5, StutterKeepsInv
  <1> QED
    BY <1>1, <1>2, <1>3, <1>4, <1>5 DEF LoaderNext, LoaderStep, Loaded, AsideStep

LEMMA LoadBegins == Loader64Init /\ Linked(file) => LoadInv
  <1> SUFFICES ASSUME Loader64Init, Linked(file) PROVE LoadInv
    OBVIOUS
  <1>1. /\ file \in Files /\ lpc = "header" /\ c_load_command = 0
        /\ img_addr = Null /\ v_addr = Null /\ segments = << >> /\ mem = << >>
        /\ fixups = NoPayload /\ fpc = "return" /\ seg_i = 1 /\ page = 1 /\ loc = 0
        /\ chain_count = 0 /\ chained_rebase_count = 0 /\ chained_bind_count = 0
        /\ chained_unresolved_bind_count = 0 /\ visited = {}
    BY DEF Loader64Init, LoaderInit
  <1>2. Walk(64)
    BY WalkBegins DEF Loader64Init
  <1>3. NoPayload \in FixupsPayload
    BY DEF NoPayload, FixupsPayload, IMPORT
  <1>4. DOMAIN mem = {}
    BY <1>1
  <1>5. segments \in Seq(SegmentInfo) /\ Len(segments) = 0
    BY <1>1
  <1>6. FixupsTypeOK
    BY <1>1, <1>3, <1>4, <1>5, LimitAssumption, ChainLimitAssumption, WidthAssumption
    DEF FixupsTypeOK, ContextTypeOK
  <1>7. Number(file, 0) = 0
    <2>1. SegmentsOf(file) \subseteq Nat \ {0}
      BY <1>1, FilesAssumption DEF IsFile, SegmentsOf
    <2>2. {j \in SegmentsOf(file) : j <= 0} = {}
      BY <2>1
    <2> QED
      BY <2>2, FS_EmptySet DEF Number
  <1>8. TableLength /\ TableIsOfFile
    <2>1. \A k \in SegmentsOf(file) : ~Passed(k)
      BY <1>1, FilesAssumption DEF IsFile, SegmentsOf, Passed
    <2> QED
      BY <1>1, <1>5, <1>7, <2>1, LimitAssumption DEF TableLength, TableIsOfFile
  <1>9. Mapped /\ MemoryIsOfFile /\ MemoryIsAsInFile /\ FixupsOfFile /\ BindsOfFile
    BY <1>1, <1>4 DEF Mapped, MemoryIsOfFile, MemoryIsAsInFile, FixupsOfFile, BindsOfFile
  <1> QED
    BY <1>2, <1>6, <1>8, <1>9 DEF LoadInv

(* Whatever the linked file, the base and the order in which mmap fails.    *)
THEOREM LoadInvariant == LoaderSpec /\ Linked(file) => []LoadInv
  BY LoadBegins, LoadStep, PTL DEF LoaderSpec

----------------------------------------------------------------------------
LEMMA InvRecordedIsLoaded == LoadInv => RecordedIsLoaded
  <1> SUFFICES ASSUME LoadInv, NEW k \in SegmentsOf(file), Recorded(k),
                      NEW s, s = segments[Number(file, k)], NEW c, c = file.cmds[k]
               PROVE  /\ s.segname = c.segname /\ s.mapped_addr = Slid(c.vmaddr)
                      /\ \A o \in DOMAIN c.words :
                           /\ s.mapped_addr + o \in DOMAIN mem
                           /\ s.mapped_addr + o \notin visited => mem[s.mapped_addr + o] = c.words[o]
    BY DEF RecordedIsLoaded, SegmentCommands, SegmentNo
  <1>1. InTable(k) /\ s.mapped_addr # Null
    BY DEF LoadInv, TableIsOfFile, Recorded, SegmentNo
  <1>2. /\ img_addr # Null /\ s.segname = c.segname /\ s.mapped_addr = Slid(c.vmaddr)
        /\ \A o \in DOMAIN c.words : WordAt(k, o) \in DOMAIN mem
    BY <1>1 DEF InTable
  <1>3. ASSUME NEW o \in DOMAIN c.words
        PROVE  s.mapped_addr + o = WordAt(k, o)
    <2>1. file \in Files /\ LinkedSegments(file) /\ img_addr \in HostBases /\ v_addr = min_vmaddr(file)
      BY <1>2 DEF LoadInv, Walk, Linked, Mapped
    <2>2. k \in Mappable(file)
      BY <2>1, OnlyMappableHasWords
    <2>3. s.mapped_addr = img_addr + Offset(file, k)
      BY <1>2, <2>1, <2>2, SlidToOffset DEF Slid
    <2> QED
      BY <2>3 DEF WordAt
  <1>4. ASSUME NEW o \in DOMAIN c.words, WordAt(k, o) \notin visited
        PROVE  mem[WordAt(k, o)] = c.words[o]
    BY <1>2, <1>4 DEF LoadInv, MemoryIsAsInFile
  <1> QED
    BY <1>2, <1>3, <1>4

(* In every state of loader_64: entry n of the segment table is the n-th    *)
(* segment command, by which number the fixups and the bind opcodes know a  *)
(* segment, and one with an address is in memory whole, also when mmap      *)
(* failed for the first segments (load_segment_64, append_segment_info).    *)
THEOREM RecordedIsLoadedHolds == LoaderSpec /\ Linked(file) => []RecordedIsLoaded
  BY LoadInvariant, InvRecordedIsLoaded, PTL

LEMMA InvWritesInMapping == LoadInv => WritesInMapping
  <1> SUFFICES ASSUME LoadInv, NEW a \in DOMAIN mem
               PROVE  img_addr # Null /\ a >= img_addr /\ a + 8 <= img_addr + map_size(file)
    BY DEF WritesInMapping
  <1>1. PICK k \in SegmentsOf(file) :
          img_addr # Null /\ \E o \in DOMAIN file.cmds[k].words : a = WordAt(k, o)
    BY DEF LoadInv, MemoryIsOfFile
  <1>2. PICK o \in DOMAIN file.cmds[k].words : a = WordAt(k, o)
    BY <1>1
  <1>3. file \in Files /\ LinkedSegments(file) /\ img_addr \in HostBases
    BY <1>1 DEF LoadInv, Walk, Linked, Mapped
  <1> QED
    BY <1>1, <1>2, <1>3, WordInside DEF WordAt

(* Nothing load_segment_64 copies or the fixups rewrite lies outside what   *)
(* ensure_image_mapping_64 mapped.                                          *)
THEOREM WritesInMappingHolds == LoaderSpec /\ Linked(file) => []WritesInMapping
  BY LoadInvariant, InvWritesInMapping, PTL
----------------------------------------------------------------------------
(* What main decides its warning by, through the whole of loader_64: what   *)
(* was left encoded is counted when the walk is over as well, and no copy   *)
(* of a segment covers it.  Nothing is counted before the walk.             *)
Counted ==
  /\ UnresolvedAreLeft /\ IsFiniteSet(visited)
  /\ lpc = "fixups" /\ fpc = "begin" => visited = {}

LEMMA CountStays ==
  ASSUME LoadInv, UnresolvedAreLeft, UNCHANGED <<visited, chained_unresolved_bind_count>>,
         \A a \in DOMAIN mem : a \in DOMAIN mem' /\ mem'[a] = mem[a]
  PROVE  UnresolvedAreLeft'
  <1>1. \A a \in visited : Load(a)' = Load(a)
    BY DEF Load, LoadInv, FixupsOfFile
  <1>2. {a \in visited : chained64_is_bind(Load(a))}' = {a \in visited : chained64_is_bind(Load(a))}
    BY <1>1 DEF chained64_is_bind
  <1> QED
    BY <1>2 DEF UnresolvedAreLeft

(* A step of the walk, with the image mapped or not. *)
LEMMA RunCounts ==
  ASSUME LoadInv, Counted, RunFixups
  PROVE  Counted'
  <1>1. lpc = "fixups" /\ FixupsStep /\ FixupsInv
    BY DEF RunFixups, LoadInv, FixupsOfFile
  <1>2. CASE img_addr \in HostBases
    <2>1. CountInv
      BY <1>1, <1>2 DEF CountInv, Counted
    <2>2. CountInv' /\ FixupsInv'
      BY <1>1, <2>1, StepCountInv, StepInv DEF FixupsNext
    <2> QED
      BY <2>2 DEF CountInv, FixupsInv, CountOK, Counted
  <1>3. CASE img_addr = Null
    <2>1. DOMAIN mem = {}
      BY <1>3 DEF LoadInv, MemoryIsOfFile
    <2>2. visited' = visited /\ mem' = mem /\ visited = {}
      BY <1>1, <2>1, FixupsEffect DEF LoadInv, FixupsOfFile
    <2>3. ~ProcessStep
      BY <1>1, <2>1, <2>2, ProcessEffect, AtFixup
    <2>4. chained_unresolved_bind_count' = chained_unresolved_bind_count
      BY <1>1, <2>3 DEF FixupsStep, ProcessStep, BeginFixups, SkipSegment, EnterSegment, EndSegments,
                        SkipPage, EnterPage, EndPages, counters
    <2>5. UnresolvedAreLeft'
      BY <2>2, <2>4, CountStays DEF Counted
    <2> QED
      BY <2>2, <2>5 DEF Counted
  <1> QED
    BY <1>2, <1>3 DEF LoadInv, Mapped

LEMMA CountStep == LoadInv /\ Counted /\ [LoaderNext]_loader_vars => Counted'
  <1> SUFFICES ASSUME LoadInv, Counted, [LoaderNext]_loader_vars PROVE Counted'
    OBVIOUS
  <1>1. CASE LoadSegment
    <2>1. lpc' = "command" /\ UNCHANGED <<visited, chained_unresolved_bind_count>>
      BY <1>1, SegmentAtHand DEF fixups_state, counters
    <2>2. \A a \in DOMAIN mem : a \in DOMAIN mem' /\ mem'[a] = mem[a]
      BY <1>1, SegmentCopied
    <2> QED
      BY <2>1, <2>2, CountStays DEF Counted
  <1>2. CASE AsideStep
    <2>1. lpc' # "fixups" /\ mem' = mem /\ UNCHANGED <<visited, chained_unresolved_bind_count>>
      BY <1>2, AsideIs DEF Aside, fixups_state, counters
    <2> QED
      BY <2>1, CountStays DEF Counted
  <1>3. CASE CallFixups
    <2>1. visited = {} /\ mem' = mem /\ UNCHANGED <<visited, chained_unresolved_bind_count>>
      BY <1>3, FixupsCalled DEF context, counters
    <2> QED
      BY <2>1, CountStays DEF Counted
  <1>4. CASE RunFixups
    BY <1>4, RunCounts
  <1>5. CASE UNCHANGED loader_vars
    <2>1. /\ mem' = mem /\ UNCHANGED <<visited, chained_unresolved_bind_count>>
          /\ UNCHANGED <<lpc, fpc>>
      BY <1>5 DEF loader_vars, loader_state, context, fixups_state, counters
    <2> QED
      BY <2>1, CountStays DEF Counted
  <1> QED
    BY <1>1, <1>2, <1>3, <1>4, <1>5 DEF LoaderNext, LoaderStep, Loaded, AsideStep

LEMMA CountBegins == LoaderInit => Counted
  <1> SUFFICES ASSUME LoaderInit PROVE Counted
    OBVIOUS
  <1>1. visited = {} /\ chained_unresolved_bind_count = 0
    BY DEF LoaderInit
  <1>2. {a \in visited : chained64_is_bind(Load(a))} = {}
    BY <1>1
  <1> QED
    BY <1>1, <1>2, FS_EmptySet DEF Counted, UnresolvedAreLeft

(* In every state of loader_64 over a linked file, also where the image is  *)
(* not mapped or the walk is over, chained_unresolved_bind_count is the     *)
(* number of words the walk went over that still hold an encoded bind.      *)
THEOREM LoaderCountsLeft == LoaderSpec /\ Linked(file) => []UnresolvedAreLeft
  <1>1. Loader64Init => Counted
    BY CountBegins DEF Loader64Init
  <1>2. Counted => UnresolvedAreLeft
    BY DEF Counted
  <1> QED
    BY <1>1, <1>2, CountStep, LoadInvariant, PTL DEF LoaderSpec

----------------------------------------------------------------------------
(* ImplementsImageLoading.  The image is memory, counted from the base.     *)
Shift(m, b) == [o \in {a - b : a \in DOMAIN m} |-> m[b + o]]

LEMMA ShiftIs ==
  ASSUME NEW m, NEW b \in Nat, DOMAIN m \subseteq Nat
  PROVE  /\ DOMAIN Shift(m, b) = {a - b : a \in DOMAIN m}
         /\ \A a \in DOMAIN m : a - b \in DOMAIN Shift(m, b) /\ Shift(m, b)[a - b] = m[a]
  <1>1. DOMAIN Shift(m, b) = {a - b : a \in DOMAIN m}
    BY DEF Shift
  <1>2. ASSUME NEW a \in DOMAIN m PROVE a - b \in DOMAIN Shift(m, b) /\ Shift(m, b)[a - b] = m[a]
    <2>1. b + (a - b) = a
      OBVIOUS
    <2> QED
      BY <2>1 DEF Shift
  <1> QED
    BY <1>1, <1>2

LEMMA ShiftSame ==
  ASSUME NEW m, NEW n, NEW b \in Nat, DOMAIN m \subseteq Nat, DOMAIN n = DOMAIN m,
         \A a \in DOMAIN m : n[a] = m[a]
  PROVE  Shift(n, b) = Shift(m, b)
  <1>1. \A o \in {a - b : a \in DOMAIN m} : m[b + o] = n[b + o]
    <2> SUFFICES ASSUME NEW a \in DOMAIN m PROVE m[b + (a - b)] = n[b + (a - b)]
      OBVIOUS
    <2>1. b + (a - b) = a
      OBVIOUS
    <2> QED
      BY <2>1
  <1> QED
    BY <1>1 DEF Shift

(* Empty memory is the same from anywhere. *)
LEMMA ShiftEmpty ==
  ASSUME NEW m, NEW b, DOMAIN m = {}
  PROVE  Shift(m, b) = << >>
  BY DEF Shift

(* One word changes, or a part comes in. *)
LEMMA ShiftFix ==
  ASSUME NEW m, NEW n, NEW b \in Nat, DOMAIN m \subseteq Nat, DOMAIN n = DOMAIN m,
         NEW l \in DOMAIN m, \A a \in DOMAIN m : a # l => n[a] = m[a]
  PROVE  Shift(n, b) = [Shift(m, b) EXCEPT ![l - b] = n[l]]
  <1>1. \A o \in {a - b : a \in DOMAIN m} : n[b + o] = IF o = l - b THEN n[l] ELSE m[b + o]
    <2> SUFFICES ASSUME NEW a \in DOMAIN m
                 PROVE  n[b + (a - b)] = IF a - b = l - b THEN n[l] ELSE m[b + (a - b)]
      OBVIOUS
    <2>1. b + (a - b) = a /\ (a - b = l - b => a = l)
      OBVIOUS
    <2> QED
      BY <2>1
  <1>2. [Shift(m, b) EXCEPT ![l - b] = n[l]]
          = [o \in {a - b : a \in DOMAIN m} |-> IF o = l - b THEN n[l] ELSE m[b + o]]
    BY DEF Shift
  <1> QED
    BY <1>1, <1>2 DEF Shift

Moved(part, b) == {b + o : o \in DOMAIN part}

Joined(part, rest) ==
  [o \in DOMAIN part \cup DOMAIN rest |-> IF o \in DOMAIN part THEN part[o] ELSE rest[o]]

LEMMA ShiftPut ==
  ASSUME NEW m, NEW n, NEW b \in Nat, NEW part, DOMAIN m \subseteq Nat, DOMAIN part \subseteq Nat,
         DOMAIN n = DOMAIN m \cup Moved(part, b), DOMAIN m \cap Moved(part, b) = {},
         \A a \in DOMAIN m : n[a] = m[a], \A o \in DOMAIN part : n[b + o] = part[o]
  PROVE  /\ DOMAIN part \cap DOMAIN Shift(m, b) = {}
         /\ Shift(n, b) = Joined(part, Shift(m, b))
  <1> USE DEF Moved
  <1>1. DOMAIN Shift(m, b) = {a - b : a \in DOMAIN m} /\ DOMAIN Shift(n, b) = {a - b : a \in DOMAIN n}
    BY DEF Shift
  <1>2. ASSUME NEW a \in DOMAIN m, a - b \in DOMAIN part PROVE FALSE
    <2>1. b + (a - b) = a
      OBVIOUS
    <2> QED
      BY <1>2, <2>1
  <1>3. DOMAIN Shift(n, b) = DOMAIN part \cup DOMAIN Shift(m, b)
    <2>1. \A o \in DOMAIN part : (b + o) - b = o
      OBVIOUS
    <2> QED
      BY <1>1, <2>1
  <1>4. ASSUME NEW o \in DOMAIN part \cup DOMAIN Shift(m, b)
        PROVE  n[b + o] = IF o \in DOMAIN part THEN part[o] ELSE Shift(m, b)[o]
    <2>1. CASE o \in DOMAIN part
      BY <2>1
    <2>2. CASE o \notin DOMAIN part
      <3>1. PICK a \in DOMAIN m : o = a - b
        BY <1>1, <2>2
      <3>2. b + o = a
        BY <3>1
      <3> QED
        <4>1. Shift(m, b)[a - b] = m[a]
          BY ShiftIs, Zenon
        <4> QED
          BY <2>2, <3>1, <3>2, <4>1, Zenon
    <2> QED
      BY <2>1, <2>2
  <1>5. Shift(n, b) = [o \in DOMAIN part \cup DOMAIN Shift(m, b) |-> n[b + o]]
    BY <1>1, <1>3 DEF Shift
  <1> QED
    BY <1>1, <1>2, <1>4, <1>5 DEF Joined

----------------------------------------------------------------------------
LEMMA ImageBegins == LoaderInit => Image!ImageInit
  <1> SUFFICES ASSUME LoaderInit PROVE Image!ImageInit
    OBVIOUS
  <1>1. img_addr = Null /\ DOMAIN mem = {} /\ visited = {}
    BY DEF LoaderInit
  <1>2. Shift(mem, img_addr) = << >> /\ {a - img_addr : a \in visited} = {}
    BY <1>1, ShiftEmpty
  <1> QED
    BY <1>1, <1>2 DEF Image!ImageInit, Image!Null, Shift

LEMMA ImageSame ==
  ASSUME UNCHANGED <<file, img_addr, mem, visited>>
  PROVE  UNCHANGED Image!image_vars
  BY DEF Image!image_vars

(* The promise's state before a segment is copied, at the base it gets. *)
LEMMA SameImageAtBase ==
  ASSUME LoadInv, LoadSegment
  PROVE  /\ Shift(mem, img_addr') = Shift(mem, img_addr)
         /\ {a - img_addr' : a \in visited'} = {a - img_addr : a \in visited}
         /\ DOMAIN mem \subseteq Nat /\ img_addr' \in Nat
         /\ ProgramOf(file') = ProgramOf(file)
         /\ Image!Based
  <1>1. visited' = visited /\ file' = file
    BY SegmentAtHand DEF fixups_state
  <1>2. \/ img_addr' = img_addr
        \/ img_addr = Null /\ img_addr' \in HostBases
    BY MappingStays
  <1>3. img_addr = Null => DOMAIN mem = {} /\ visited = {}
    BY DEF LoadInv, MemoryIsOfFile, FixupsOfFile
  <1>4. img_addr' \in Nat /\ DOMAIN mem \subseteq Nat
    BY <1>2, HostAssumption, WidthAssumption DEF LoadInv, FixupsTypeOK, ContextTypeOK
  <1>5. Image!Based
    BY <1>2 DEF Image!Based, Image!Null
  <1>6. CASE img_addr' = img_addr
    BY <1>1, <1>4, <1>5, <1>6
  <1>7. CASE img_addr = Null
    <2>1. Shift(mem, img_addr') = << >> /\ Shift(mem, img_addr) = << >>
      BY <1>3, <1>7, ShiftEmpty
    <2>2. {a - img_addr' : a \in visited'} = {} /\ {a - img_addr : a \in visited} = {}
      BY <1>1, <1>3, <1>7
    <2> QED
      BY <1>1, <1>4, <1>5, <2>1, <2>2
  <1> QED
    BY <1>2, <1>6, <1>7

PartOf(f, k) ==
  LET c == f.cmds[k]
      at == c.vmaddr - min_vmaddr(f)
  IN  [o \in {at + w : w \in DOMAIN c.words} |-> c.words[o - at]]

LEMMA PartIs ==
  ASSUME NEW f \in Files, LinkedSegments(f), NEW k \in SegmentsOf(f), DOMAIN f.cmds[k].words # {}
  PROVE  /\ PartOf(f, k) \in ProgramOf(f).parts
         /\ DOMAIN PartOf(f, k) = {Offset(f, k) + w : w \in DOMAIN f.cmds[k].words}
         /\ \A w \in DOMAIN f.cmds[k].words : PartOf(f, k)[Offset(f, k) + w] = f.cmds[k].words[w]
         /\ DOMAIN PartOf(f, k) \subseteq Nat
  <1>1. k \in Mappable(f) /\ \A w \in DOMAIN f.cmds[k].words : w \in Nat
    BY OnlyMappableHasWords
  <1>2. PartOf(f, k) \in ProgramOf(f).parts
    BY <1>1 DEF PartOf, ProgramOf
  <1>3. PICK at \in Nat : at = Offset(f, k) /\ at = f.cmds[k].vmaddr - min_vmaddr(f)
    BY <1>1, LinkedRange DEF Offset
  <1>4. PartOf(f, k) = [o \in {at + w : w \in DOMAIN f.cmds[k].words} |-> f.cmds[k].words[o - at]]
    BY <1>3 DEF PartOf
  <1>5. \A w \in DOMAIN f.cmds[k].words : (at + w) - at = w /\ at + w \in Nat
    BY <1>1
  <1> QED
    BY <1>2, <1>3, <1>4, <1>5

(* A segment command maps the image, or puts its part in. *)
LEMMA SegmentIsPart ==
  ASSUME LoadInv, LoadSegment
  PROVE  Image!MapImage \/ Image!PutPart
  <1>1. PICK k : k = c_load_command + 1
    OBVIOUS
  <1>2. file \in Files /\ LinkedSegments(file) /\ k \in SegmentsOf(file)
    BY <1>1, SegmentAtHand
  <1>3. /\ DOMAIN mem' = DOMAIN mem \cup NewWords(img_addr', k)
        /\ DOMAIN mem \cap NewWords(img_addr', k) = {}
        /\ \A a \in DOMAIN mem : mem'[a] = mem[a]
        /\ img_addr' # Null =>
             \A o \in DOMAIN file.cmds[k].words :
               mem'[img_addr' + Offset(file, k) + o] = file.cmds[k].words[o]
    BY <1>1, SegmentCopied
  <1>4. /\ Shift(mem, img_addr') = Shift(mem, img_addr)
        /\ {a - img_addr' : a \in visited'} = {a - img_addr : a \in visited}
        /\ DOMAIN mem \subseteq Nat /\ img_addr' \in Nat
        /\ ProgramOf(file') = ProgramOf(file)
        /\ Image!Based
    BY SameImageAtBase
  <1>5. CASE NewWords(img_addr', k) = {}
    <2>1. Shift(mem', img_addr') = Shift(mem, img_addr')
      BY <1>3, <1>4, <1>5, ShiftSame
    <2> QED
      BY <1>4, <2>1 DEF Image!MapImage, Shift
  <1>6. CASE NewWords(img_addr', k) # {}
    <2>1. img_addr' # Null /\ DOMAIN file.cmds[k].words # {}
      BY <1>6 DEF NewWords
    <2>2. PICK part \in ProgramOf(file).parts :
            /\ DOMAIN part = {Offset(file, k) + w : w \in DOMAIN file.cmds[k].words}
            /\ \A w \in DOMAIN file.cmds[k].words : part[Offset(file, k) + w] = file.cmds[k].words[w]
            /\ DOMAIN part \subseteq Nat
      BY <1>2, <2>1, PartIs
    <2>3. PICK b \in Nat : b = img_addr'
      BY <1>4
    <2>4. \A w \in DOMAIN file.cmds[k].words :
            b + (Offset(file, k) + w) = b + Offset(file, k) + w
      <3>1. k \in Mappable(file) /\ \A w \in DOMAIN file.cmds[k].words : w \in Nat
        BY <1>2, <2>1, OnlyMappableHasWords
      <3>2. Offset(file, k) \in Nat
        BY <1>2, <3>1, LinkedRange
      <3> QED
        BY <3>1, <3>2
    <2>5. NewWords(img_addr', k) = Moved(part, b)
      BY <2>1, <2>2, <2>3, <2>4 DEF NewWords, Moved
    <2>6. \A o \in DOMAIN part : mem'[b + o] = part[o]
      BY <1>3, <2>1, <2>2, <2>3, <2>4
    <2>7. DOMAIN part \cap DOMAIN Shift(mem, b) = {} /\ Shift(mem', b) = Joined(part, Shift(mem, b))
      BY <1>3, <1>4, <2>2, <2>5, <2>6, ShiftPut
    <2>8. /\ DOMAIN part \cap DOMAIN Shift(mem, img_addr) = {}
          /\ Shift(mem', img_addr') = Joined(part, Shift(mem, img_addr))
      BY <1>4, <2>3, <2>7
    <2> QED
      BY <1>4, <2>1, <2>2, <2>8 DEF Image!PutPart, Image!Null, Shift, Joined
  <1> QED
    BY <1>5, <1>6

----------------------------------------------------------------------------
(* A fixup of a payload, as the promise lists them. *)
LEMMA FixupsListed ==
  ASSUME NEW fx \in FixupsPayload
  PROVE  \A e : e \in Image!FixupsOf(fx) <=>
           \E i \in 1 .. Len(fx.segs) : \E q \in 1 .. Len(fx.segs[i].chain) :
             \E n \in 1 .. Len(fx.segs[i].chain[q]) : e = FixupAt(fx, i, q, n)
  <1> DEFINE OfPage(a, b) == {Image!FixupAt(fx, a, b, k) : k \in DOMAIN fx.segs[a].chain[b]}
             OfSegment(a) == UNION {OfPage(a, b) : b \in DOMAIN fx.segs[a].chain}
  <1>1. DOMAIN fx.segs = 1 .. Len(fx.segs) /\ fx.segs \in Seq(StartsInSegment)
    BY DEF FixupsPayload
  <1>2. ASSUME NEW i \in 1 .. Len(fx.segs)
        PROVE  /\ DOMAIN fx.segs[i].chain = 1 .. Len(fx.segs[i].chain)
               /\ \A q \in 1 .. Len(fx.segs[i].chain) :
                    DOMAIN fx.segs[i].chain[q] = 1 .. Len(fx.segs[i].chain[q])
    <2>1. PICK s \in StartsInSegment : fx.segs[i] = s
      BY <1>1
    <2>2. PICK chains \in Seq(Seq(Fixup)) : s.chain = chains
      BY DEF StartsInSegment
    <2>3. \A q \in 1 .. Len(chains) : chains[q] \in Seq(Fixup)
      OBVIOUS
    <2> QED
      BY <2>1, <2>2, <2>3
  <1>3. \A e : e \in Image!FixupsOf(fx) <=> \E i \in DOMAIN fx.segs : e \in OfSegment(i)
    BY DEF Image!FixupsOf
  <1>4. \A i, e : e \in OfSegment(i) <=> \E q \in DOMAIN fx.segs[i].chain : e \in OfPage(i, q)
    OBVIOUS
  <1>5. \A i, q, e : e \in OfPage(i, q) <=>
          \E n \in DOMAIN fx.segs[i].chain[q] : e = FixupAt(fx, i, q, n)
    BY DEF Image!FixupAt, FixupAt
  <1> HIDE DEF OfPage, OfSegment
  <1>6. ASSUME NEW i \in 1 .. Len(fx.segs), NEW e
        PROVE  e \in OfSegment(i) <=>
                 \E q \in 1 .. Len(fx.segs[i].chain) :
                   \E n \in 1 .. Len(fx.segs[i].chain[q]) : e = FixupAt(fx, i, q, n)
    <2>1. \A q \in 1 .. Len(fx.segs[i].chain) :
            e \in OfPage(i, q) <=> \E n \in 1 .. Len(fx.segs[i].chain[q]) : e = FixupAt(fx, i, q, n)
      BY <1>2, <1>5
    <2>2. e \in OfSegment(i) <=> \E q \in 1 .. Len(fx.segs[i].chain) : e \in OfPage(i, q)
      BY <1>2, <1>4
    <2> QED
      BY <2>1, <2>2
  <1>7. \A e : e \in Image!FixupsOf(fx) <=> \E i \in 1 .. Len(fx.segs) : e \in OfSegment(i)
    BY <1>1, <1>3
  <1> HIDE DEF OfSegment
  <1> SUFFICES ASSUME NEW e
               PROVE  e \in Image!FixupsOf(fx) <=>
                        \E i \in 1 .. Len(fx.segs) : \E q \in 1 .. Len(fx.segs[i].chain) :
                          \E n \in 1 .. Len(fx.segs[i].chain[q]) : e = FixupAt(fx, i, q, n)
    OBVIOUS
  <1>8. CASE e \in Image!FixupsOf(fx)
    BY <1>6, <1>7, <1>8
  <1>9. CASE e \notin Image!FixupsOf(fx)
    <2>1. ASSUME NEW i \in 1 .. Len(fx.segs)
          PROVE  ~\E q \in 1 .. Len(fx.segs[i].chain) :
                    \E n \in 1 .. Len(fx.segs[i].chain[q]) : e = FixupAt(fx, i, q, n)
      BY <1>6, <1>7, <1>9
    <2> QED
      BY <1>9, <2>1
  <1> QED
    BY <1>8, <1>9

LEMMA FixupIsListed ==
  ASSUME FixupsTypeOK, NEW i, NEW q, NEW n, IsFixup(i, q, n)
  PROVE  FixupAt(fixups, i, q, n) \in Image!FixupsOf(fixups)
  BY FixupsListed DEF FixupsTypeOK, IsFixup

(* Where the linker put the fixup at hand, and that the file supports it. *)
LEMMA SupportedPayloadAtHand ==
  ASSUME LoadInv, SupportedFixups(file), lpc = "fixups"
  PROVE  /\ FixupsInv /\ fixups \in ProgramOf(file).payloads
         /\ HeaderFits(fixups) /\ SupportedPayload(fixups)
  <1>1. /\ file.cmds[c_load_command + 1].cmd = "LC_DYLD_CHAINED_FIXUPS"
        /\ fixups = file.cmds[c_load_command + 1].fixups /\ FixupsInv
    BY DEF LoadInv, FixupsOfFile
  <1>2. c_load_command + 1 \in FixupsCommands(file)
    <2>1. c_load_command \in Nat /\ c_load_command < Len(file.cmds) /\ file \in Files
      BY CommandAtHand DEF LoadInv, Walk
    <2>2. c_load_command + 1 \in DOMAIN file.cmds
      BY <2>1, FilesAssumption DEF IsFile
    <2> QED
      BY <1>1, <2>2 DEF FixupsCommands
  <1>3. PICK j \in FixupsCommands(file) : fixups = file.cmds[j].fixups
    BY <1>1, <1>2
  <1>4. HeaderFits(fixups) /\ SupportedPayload(fixups)
    BY <1>3 DEF SupportedFixups
  <1>5. fixups \in ProgramOf(file).payloads
    BY <1>3 DEF ProgramOf, FixupsCommands
  <1> QED
    BY <1>1, <1>4, <1>5

(* Both modules take the format from MachO. *)
LEMMA SameFormatValue ==
  ASSUME NEW fx, NEW base, NEW raw
  PROVE  Image!FormatValue(fx, base, raw) = FormatValue(fx, base, raw)
  BY DEF Image!FormatValue, FormatValue, Image!chained64_is_bind, chained64_is_bind,
         Image!chained64_bind_ordinal, chained64_bind_ordinal, Image!bind_addend, bind_addend,
         Image!chained64_rebase_target, chained64_rebase_target, Image!rebase_high8, rebase_high8,
         Image!IMPORT, IMPORT, Image!Null, Null

(* A step of the walk over the fixups does one of them, or moves the cursor. *)
LEMMA RunIsFix ==
  ASSUME LoadInv, SupportedFixups(file), RunFixups
  PROVE  Image!Fix \/ UNCHANGED Image!image_vars
  <1>1. lpc = "fixups" /\ FixupsStep /\ file' = file
    BY DEF RunFixups, loader_state
  <1>2. FixupsInv /\ fixups \in ProgramOf(file).payloads /\ SupportedPayload(fixups)
    BY <1>1, SupportedPayloadAtHand
  <1>3. /\ UNCHANGED <<img_addr, segments, fixups>> /\ DOMAIN mem' = DOMAIN mem
        /\ \/ visited' = visited /\ mem' = mem
           \/ /\ ProcessStep /\ fpc = "chain" /\ loc \in DOMAIN mem \ visited
              /\ visited' = visited \cup {loc}
              /\ \A a \in DOMAIN mem : a # loc => mem'[a] = mem[a]
    BY <1>1, <1>2, FixupsEffect
  <1>4. CASE visited' = visited /\ mem' = mem
    BY <1>1, <1>3, <1>4, ImageSame
  <1>5. CASE /\ ProcessStep /\ fpc = "chain" /\ loc \in DOMAIN mem \ visited
             /\ visited' = visited \cup {loc}
             /\ \A a \in DOMAIN mem : a # loc => mem'[a] = mem[a]
    <2>1. PICK n : n = chain_count + 1
      OBVIOUS
    <2>2. PICK e : e = FixupAt(fixups, seg_i, page, n)
      OBVIOUS
    <2>3. /\ IsFixup(seg_i, page, n) /\ loc = img_addr + e.off
          /\ e.raw = RawAt(seg_i, page, n)
      BY <1>2, <1>5, <2>1, <2>2 DEF FixupsInv, CursorAtFixup, PlaceOf, RawAt
    <2>4. e.off \in Nat /\ img_addr \in Nat /\ DOMAIN mem \subseteq Nat /\ visited \subseteq Nat
      BY <1>2, <2>2, <2>3, FixupType, WidthAssumption DEF FixupsInv, FixupsTypeOK, ContextTypeOK
    <2>5. e.off = loc - img_addr
      BY <2>3, <2>4
    <2>6. e \in Image!FixupsOf(fixups)
      BY <1>2, <2>2, <2>3, FixupIsListed DEF FixupsInv
    <2>7. mem[loc] = e.raw
      BY <1>2, <1>5, <2>1, <2>3, AtFixup DEF Load
    <2>8. mem'[loc] = Image!FormatValue(fixups, img_addr, e.raw)
      BY <1>2, <1>5, <2>1, <2>3, ProcessIsFormat, SameFormatValue
    <2>9. /\ e.off \in DOMAIN Shift(mem, img_addr) /\ Shift(mem, img_addr)[e.off] = e.raw
      <3>1. /\ loc - img_addr \in DOMAIN Shift(mem, img_addr)
            /\ Shift(mem, img_addr)[loc - img_addr] = mem[loc]
        BY <1>5, <2>4, ShiftIs
      <3> QED
        BY <2>5, <2>7, <3>1
    <2>10. Shift(mem', img_addr) = [Shift(mem, img_addr) EXCEPT ![e.off] = mem'[loc]]
      <3>1. PICK after : after = mem'
        OBVIOUS
      <3>2. Shift(after, img_addr) = [Shift(mem, img_addr) EXCEPT ![loc - img_addr] = after[loc]]
        BY <1>3, <1>5, <2>4, <3>1, ShiftFix
      <3> QED
        BY <2>5, <3>1, <3>2
    <2>11. {a - img_addr : a \in visited'} = {a - img_addr : a \in visited} \cup {e.off}
      BY <1>5, <2>5
    <2>12. e.off \notin {a - img_addr : a \in visited}
      <3> SUFFICES ASSUME NEW a \in visited, e.off = a - img_addr PROVE FALSE
        OBVIOUS
      <3>1. a = loc
        BY <2>3, <2>4
      <3> QED
        BY <1>5, <3>1
    <2>13. Shift(mem', img_addr') = [Shift(mem, img_addr) EXCEPT ![e.off] = mem'[loc]]
      BY <1>3, <2>10
    <2>14. {a - img_addr' : a \in visited'} = {a - img_addr : a \in visited} \cup {e.off}
      BY <1>3, <2>11
    <2>15. ProgramOf(file') = ProgramOf(file) /\ img_addr' = img_addr
      BY <1>1, <1>3
    <2> QED
      BY <1>2, <2>6, <2>8, <2>9, <2>12, <2>13, <2>14, <2>15 DEF Image!Fix, Shift
  <1> QED
    BY <1>3, <1>4, <1>5

LEMMA LoaderStepIsImageStep ==
  ASSUME LoadInv, SupportedFixups(file), [LoaderNext]_loader_vars
  PROVE  [Image!ImageNext]_(Image!image_vars)
  <1>1. CASE LoadSegment
    BY <1>1, SegmentIsPart DEF Image!ImageNext
  <1>2. CASE AsideStep
    BY <1>2, AsideIs, ImageSame DEF Aside, fixups_state
  <1>3. CASE CallFixups
    BY <1>3, FixupsCalled, ImageSame DEF context
  <1>4. CASE RunFixups
    BY <1>4, RunIsFix DEF Image!ImageNext
  <1>5. CASE UNCHANGED loader_vars
    BY <1>5, ImageSame DEF loader_vars, loader_state, fixups_state, context
  <1> QED
    BY <1>1, <1>2, <1>3, <1>4, <1>5 DEF LoaderNext, LoaderStep, Loaded, AsideStep

LEMMA FileStays == [LoaderNext]_loader_vars => file' = file
  BY DEF LoaderNext, LoaderStep, Loaded, ReadHeader, EndCommands, LoadSegment, FindMain, LoadDylib,
         PassCommand, CallFixups, RunFixups, ReturnFixups, CallBinds, RunBinds, ReturnBinds,
         loader_vars, loader_state

(* loader_64 keeps the promise of ImageLoading: for every linked file whose *)
(* fixups the walk supports, its copies put in each part once, whole, where *)
(* nothing was; every store of the chain walk is a fixup of the file, done  *)
(* once and for the base the image has; and no other step touches the image.*)
THEOREM ImplementsImageLoadingHolds ==
  LoaderSpec /\ Linked(file) /\ SupportedFixups(file) => ImplementsImageLoading
  <1>1. Loader64Init => Image!ImageInit
    BY ImageBegins DEF Loader64Init
  <1>2. SupportedFixups(file) /\ [LoaderNext]_loader_vars => SupportedFixups(file)'
    BY FileStays
  <1>3. LoadInv /\ SupportedFixups(file) /\ [LoaderNext]_loader_vars
          => [Image!ImageNext]_(Image!image_vars)
    BY LoaderStepIsImageStep
  <1> QED
    BY <1>1, <1>2, <1>3, LoadInvariant, PTL
    DEF LoaderSpec, ImplementsImageLoading, Image!ImageSpec

----------------------------------------------------------------------------
(* What the one command of fixups leaves to the end.                        *)

(* Fixup e of segment i of command j is applied, or was never touched. *)
Settled(j, i, e) ==
  IF Reached(j, i)
    THEN /\ img_addr + e.off \in DOMAIN mem
         /\ mem[img_addr + e.off] = FormatValue(file.cmds[j].fixups, img_addr, e.raw)
    ELSE img_addr + e.off \notin visited

AllSettled(j) ==
  LET fx == file.cmds[j].fixups IN
  \A i \in 1 .. Len(fx.segs) : \A q \in 1 .. Len(fx.segs[i].chain) :
    \A n \in 1 .. Len(fx.segs[i].chain[q]) : Settled(j, i, FixupAt(fx, i, q, n))

NotCalled == \A j \in FixupsCommands(file) : ~Passed(j)

(* Before the command the walk's index is where FixupsInit has it, during   *)
(* it the walk's own invariant holds, after it every fixup is settled.      *)
DoneInv ==
  /\ SupportedFixups(file)
  /\ lpc # "fixups" /\ NotCalled => seg_i = 1
  /\ lpc = "fixups" => FormatInv
  /\ lpc # "fixups" => \A j \in FixupsCommands(file) : Passed(j) => AllSettled(j)
  /\ lpc = "done" => c_load_command >= Len(file.cmds)

LEMMA RecordedStays ==
  ASSUME LoadInv, LoadSegment \/ UNCHANGED segments, file' = file,
         NEW k \in SegmentsOf(file), Passed(k), Passed(k)'
  PROVE  Recorded(k)' <=> Recorded(k)
  <1>1. file \in Files /\ c_load_command \in Nat /\ segments \in Seq(SegmentInfo)
    BY DEF LoadInv, FixupsTypeOK, ContextTypeOK, Walk
  <1>2. TableGrows \/ UNCHANGED segments
    BY SegmentRecorded
  <1> QED
    BY <1>1, <1>2, EntriesStay

(* What is settled stays so, whatever is loaded after. *)
LEMMA SettledStays ==
  ASSUME LoadInv, LoadSegment \/ UNCHANGED segments, UNCHANGED <<file, visited>>,
         img_addr # Null => img_addr' = img_addr,
         DOMAIN mem \subseteq DOMAIN mem', \A a \in DOMAIN mem : mem'[a] = mem[a],
         \A k \in SegmentsOf(file) : Passed(k) => Passed(k)',
         NEW j \in FixupsCommands(file), Passed(j), AllSettled(j)
  PROVE  AllSettled(j)'
  <1>1. SegmentsOf(file) \subseteq Nat /\ j \in Nat /\ c_load_command \in Nat
    BY FilesAssumption DEF SegmentsOf, FixupsCommands, IsFile, LoadInv, Walk
  <1>2. \A k \in SegmentsOf(file) : k < j => Passed(k) /\ (Recorded(k)' <=> Recorded(k))
    BY <1>1, RecordedStays DEF Passed
  <1>3. \A i : Reached(j, i)' <=> Reached(j, i)
    BY <1>2 DEF Reached, SegmentNo, SegmentCommands
  <1>4. ASSUME NEW i, Reached(j, i) PROVE img_addr # Null
    <2>1. PICK k \in SegmentsOf(file) : Recorded(k)
      BY <1>4 DEF Reached, SegmentCommands
    <2>2. Passed(k) /\ Number(file, k) <= Len(segments) /\ segments[Number(file, k)].mapped_addr # Null
      BY <2>1 DEF Recorded, SegmentNo
    <2> QED
      BY <2>2 DEF LoadInv, TableIsOfFile, InTable
  <1>5. img_addr = Null => visited = {}
    BY DEF LoadInv, FixupsOfFile, MemoryIsOfFile
  <1>6. ASSUME NEW i, NEW e, Settled(j, i, e) PROVE Settled(j, i, e)'
    <2>1. CASE Reached(j, i)
      BY <1>3, <1>4, <1>6, <2>1 DEF Settled
    <2>2. CASE ~Reached(j, i)
      BY <1>3, <1>5, <1>6, <2>2 DEF Settled
    <2> QED
      BY <2>1, <2>2
  <1>7. file' = file
    OBVIOUS
  <1> QED
    BY <1>6, <1>7 DEF AllSettled

LEMMA SegmentKeepsDone ==
  ASSUME LoadInv, DoneInv, LoadSegment
  PROVE  DoneInv'
  <1>1. /\ file' = file /\ c_load_command' = c_load_command + 1 /\ lpc' = "command" /\ lpc = "command"
        /\ c_load_command \in Nat /\ c_load_command + 1 \in SegmentsOf(file) /\ file \in Files
        /\ UNCHANGED <<visited, seg_i>>
    BY SegmentAtHand DEF fixups_state, cursor
  <1>2. PICK k : k = c_load_command + 1
    OBVIOUS
  <1>3. DOMAIN mem \subseteq DOMAIN mem' /\ \A a \in DOMAIN mem : mem'[a] = mem[a]
    BY <1>2, SegmentCopied
  <1>4. img_addr # Null => img_addr' = img_addr
    BY MappingStays
  <1>5. SegmentsOf(file) \subseteq Nat /\ FixupsCommands(file) \subseteq Nat
        /\ c_load_command + 1 \notin FixupsCommands(file)
    BY <1>1, FilesAssumption DEF SegmentsOf, FixupsCommands, IsFile
  <1>6. /\ \A l \in SegmentsOf(file) : Passed(l) => Passed(l)'
        /\ \A j \in FixupsCommands(file) : Passed(j)' <=> Passed(j)
    BY <1>1, <1>5 DEF Passed
  <1>7. \A j \in FixupsCommands(file) : Passed(j)' => AllSettled(j)'
    BY <1>1, <1>3, <1>4, <1>6, SettledStays DEF DoneInv
  <1>8. NotCalled' => seg_i' = 1
    BY <1>1, <1>6 DEF NotCalled, DoneInv
  <1> QED
    BY <1>1, <1>7, <1>8 DEF DoneInv

(* The other steps, but the ones that belong to the fixups. *)
LEMMA AsideKeepsDone ==
  ASSUME LoadInv, DoneInv, AsideStep, ~ReturnFixups
  PROVE  DoneInv'
  <1>1. /\ UNCHANGED <<file, img_addr, segments, mem, visited, seg_i>> /\ lpc' # "fixups"
        /\ \/ c_load_command' = c_load_command
           \/ /\ c_load_command' = c_load_command + 1
              /\ c_load_command + 1 \notin SegmentsOf(file)
    BY AsideIs DEF Aside, fixups_state, cursor
  <1>2. /\ lpc # "fixups"
        /\ \/ c_load_command' = c_load_command
           \/ lpc \in {"command", "binds"} /\ c_load_command < Len(file.cmds)
                /\ command.cmd # "LC_DYLD_CHAINED_FIXUPS"
    <2>1. CASE ReadHeader \/ EndCommands \/ CallBinds
      BY <2>1 DEF ReadHeader, EndCommands, CallBinds, AtCommand
    <2>2. CASE FindMain \/ LoadDylib \/ PassCommand
      BY <2>2 DEF FindMain, LoadDylib, PassCommand, AtCommand
    <2>3. CASE RunBinds
      BY <2>3 DEF RunBinds, loader_state
    <2>4. CASE ReturnBinds
      <3>1. lpc = "binds" /\ c_load_command < Len(file.cmds)
        BY <2>4 DEF ReturnBinds, LoadInv, Walk
      <3>2. command.cmd = "LC_DYLD_INFO"
        BY <3>1, CommandAtHand DEF LoadInv, BindsOfFile
      <3> QED
        BY <3>1, <3>2
    <2> QED
      BY <2>1, <2>2, <2>3, <2>4 DEF AsideStep
  <1>3. file \in Files /\ c_load_command \in Nat
    BY DEF LoadInv, Walk
  <1>4. SegmentsOf(file) \subseteq Nat /\ FixupsCommands(file) \subseteq Nat
    BY <1>3, FilesAssumption DEF SegmentsOf, FixupsCommands, IsFile
  <1>5. \/ c_load_command' = c_load_command
        \/ c_load_command' = c_load_command + 1 /\ c_load_command + 1 \notin FixupsCommands(file)
    BY <1>1, <1>2, CommandAtHand DEF FixupsCommands
  <1>6. /\ \A l \in SegmentsOf(file) : Passed(l) => Passed(l)'
        /\ \A j \in FixupsCommands(file) : Passed(j)' <=> Passed(j)
    BY <1>3, <1>4, <1>5 DEF Passed
  <1>7. \A j \in FixupsCommands(file) : Passed(j)' => AllSettled(j)'
    BY <1>1, <1>2, <1>6, SettledStays DEF DoneInv
  <1>8. NotCalled' => seg_i' = 1
    BY <1>1, <1>2, <1>6 DEF NotCalled, DoneInv
  <1>9. lpc' = "done" => c_load_command' >= Len(file.cmds)
    BY DEF AsideStep, ReadHeader, EndCommands, FindMain, LoadDylib, PassCommand, ReturnFixups,
           CallBinds, RunBinds, ReturnBinds, loader_state, AtCommand
  <1> QED
    BY <1>1, <1>7, <1>8, <1>9 DEF DoneInv

(* The walk starts behind nothing. *)
LEMMA CallKeepsDone ==
  ASSUME LoadInv, DoneInv, CallFixups
  PROVE  DoneInv'
  <1>1. /\ c_load_command + 1 \in FixupsCommands(file)
        /\ fixups' = file.cmds[c_load_command + 1].fixups
        /\ UNCHANGED <<file, c_load_command, context, cursor, visited>>
        /\ lpc = "command" /\ lpc' = "fixups" /\ fpc' = "begin" /\ visited = {}
    BY FixupsCalled
  <1>2. seg_i' = 1
    <2>1. NotCalled
      <3>1. c_load_command \in Nat
        BY DEF LoadInv, Walk
      <3> QED
        BY <1>1, <3>1 DEF NotCalled, LoadInv, Linked, LinkedFixups, Passed
    <2> QED
      BY <1>1, <2>1 DEF DoneInv, cursor
  <1>3. PICK fx : fx = fixups' /\ SupportedPayload(fx)
    BY <1>1 DEF DoneInv, SupportedFixups
  <1>4. SupportedPayload(fixups)'
    BY <1>3
  <1>5. FixupsTypeOK'
    BY CallKeepsInv DEF LoadInv
  <1>6. BehindIsVisited'
    <2> SUFFICES ASSUME NEW i \in Nat, NEW q \in Nat, NEW n \in Nat,
                        IsFixup(i, q, n)', Behind(i, q, n)'
                 PROVE  FALSE
      BY DEF BehindIsVisited, InWalkedPage
    <2>1. i \in Nat \ {0}
      BY DEF IsFixup
    <2> QED
      BY <1>1, <1>2, <2>1 DEF Behind
  <1>7. VisitedIsRight' /\ ReturnIsBehind'
    BY <1>1, <1>2 DEF VisitedIsRight, ReturnIsBehind
  <1>8. FormatInv'
    BY <1>4, <1>6, <1>7 DEF FormatInv
  <1> QED
    BY <1>1, <1>8 DEF DoneInv

LEMMA RunKeepsDone ==
  ASSUME LoadInv, DoneInv, RunFixups
  PROVE  DoneInv'
  <1>1. lpc = "fixups" /\ lpc' = "fixups" /\ FixupsStep /\ file' = file
    BY DEF RunFixups, loader_state
  <1>2. FixupsInv /\ FormatInv
    BY <1>1 DEF LoadInv, FixupsOfFile, DoneInv
  <1>3. FormatInv'
    BY <1>1, <1>2, StepFormat DEF FixupsNext
  <1> QED
    BY <1>1, <1>3 DEF DoneInv

(* A payload lists its fixups for segments the file has. *)
LEMMA FixupHasSegment ==
  ASSUME NEW f \in Files, Linked(f), NEW j \in FixupsCommands(f), NEW fx, fx = f.cmds[j].fixups,
         NEW i \in 1 .. Len(fx.segs), NEW q \in 1 .. Len(fx.segs[i].chain),
         NEW n \in 1 .. Len(fx.segs[i].chain[q])
  PROVE  \E k \in SegmentsOf(f) : Number(f, k) = i
  <1>1. PICK k \in Mappable(f) : Number(f, k) = i
    <2>1. FixupsAtWords(f, fx)
      BY LinkedAtWords
    <2> QED
      BY <2>1, Zenon DEF FixupsAtWords
  <1> QED
    BY <1>1, MappableIsSegment DEF Linked

(* When the walk returns, each fixup of a segment it walked is applied and  *)
(* it visited no other place.                                               *)
LEMMA ReturnSettles ==
  ASSUME LoadInv, DoneInv, lpc = "fixups", fpc = "return", NEW j, j = c_load_command + 1,
         NEW i \in 1 .. Len(fixups.segs), NEW q \in 1 .. Len(fixups.segs[i].chain),
         NEW n \in 1 .. Len(fixups.segs[i].chain[q])
  PROVE  IF \E k \in SegmentsOf(file) : k < j /\ Number(file, k) = i /\ Recorded(k)
           THEN /\ PlaceOf(i, q, n) \in DOMAIN mem
                /\ mem[PlaceOf(i, q, n)] = FormatValue(fixups, img_addr, RawAt(i, q, n))
           ELSE PlaceOf(i, q, n) \notin visited
  <1>1. /\ FixupsInv /\ FormatInv /\ HeaderFits(fixups)
        /\ file.cmds[j].cmd = "LC_DYLD_CHAINED_FIXUPS" /\ fixups = file.cmds[j].fixups
    BY SupportedPayloadAtHand DEF DoneInv, LoadInv, FixupsOfFile
  <1>2. j \in FixupsCommands(file) /\ file \in Files /\ Linked(file) /\ c_load_command \in Nat
    <2>1. c_load_command \in Nat /\ c_load_command < Len(file.cmds) /\ file \in Files /\ Linked(file)
      BY DEF LoadInv, Walk
    <2>2. j \in DOMAIN file.cmds
      BY <2>1, FilesAssumption DEF IsFile
    <2> QED
      BY <1>1, <2>1, <2>2 DEF FixupsCommands
  <1>3. HasStarts(fixups, i) /\ PageHasChain(fixups.segs[i].page_start[q])
    <2>1. PICK fx : fx = file.cmds[j].fixups /\ fx = fixups
      BY <1>1
    <2>2. fx.segs[i].chain[q] # << >>
      BY <2>1
    <2> QED
      BY <1>2, <2>1, <2>2 DEF DoneInv, SupportedFixups
  <1>4. IsFixup(i, q, n)
    BY DEF IsFixup
  <1>5. i \in Nat /\ q \in Nat /\ n \in Nat
    BY <1>1, <1>4, FixupType DEF FixupsInv
  <1>6. CASE Walked(i)
    <2>1. PICK l, fx : l \in FixupsCommands(file) /\ fx = file.cmds[l].fixups /\ fx = fixups
      BY <1>1, <1>2
    <2>2. PICK k \in SegmentsOf(file) : Number(file, k) = i
      <3>1. /\ i \in 1 .. Len(fx.segs) /\ q \in 1 .. Len(fx.segs[i].chain)
            /\ n \in 1 .. Len(fx.segs[i].chain[q])
        BY <2>1
      <3> QED
        BY <1>2, <2>1, <3>1, FixupHasSegment
    <2>3. Passed(k) /\ Recorded(k)
      BY <1>6, <2>2, TableGivesWords DEF Walked
    <2>4. k < j
      BY <1>2, <2>3, FilesAssumption DEF Passed, SegmentsOf, IsFile
    <2>5. PlaceOf(i, q, n) \in DOMAIN mem
      BY <1>1, <1>4, <1>5, <1>6 DEF FixupsInv, HeldUntilVisited
    <2>6. Load(PlaceOf(i, q, n)) = FormatValue(fixups, img_addr, RawAt(i, q, n))
      BY <1>1, <1>3, <1>6, FormatAtReturn DEF FixupsMatchFormat, HeaderOK, RawAt
    <2> QED
      BY <2>2, <2>3, <2>4, <2>5, <2>6 DEF Load
  <1>7. CASE ~Walked(i)
    <2>1. ~ \E k \in SegmentsOf(file) : k < j /\ Number(file, k) = i /\ Recorded(k)
      BY <1>3, <1>7 DEF Walked, Recorded, SegmentNo
    <2>2. PlaceOf(i, q, n) \notin visited
      <3> SUFFICES ASSUME PlaceOf(i, q, n) \in visited PROVE FALSE
        OBVIOUS
      <3>1. PICK i2 \in Nat, q2 \in Nat, n2 \in Nat :
              IsFixup(i2, q2, n2) /\ Walked(i2) /\ PlaceOf(i, q, n) = PlaceOf(i2, q2, n2)
        BY <1>1 DEF FixupsInv, VisitedBehind
      <3>2. i = i2
        BY <1>1, <1>4, <3>1, OnePlaceEach DEF FixupsInv
      <3> QED
        BY <1>7, <3>1, <3>2
    <2> QED
      BY <2>1, <2>2
  <1> QED
    BY <1>6, <1>7

LEMMA ReturnKeepsDone ==
  ASSUME LoadInv, DoneInv, ReturnFixups
  PROVE  DoneInv'
  <1>1. /\ UNCHANGED <<file, img_addr, segments, mem>> /\ visited' = visited /\ seg_i' = seg_i
        /\ lpc = "fixups" /\ fpc = "return" /\ lpc' = "command"
        /\ c_load_command' = c_load_command + 1
    BY DEF ReturnFixups, NextCommand, context, fixups_state, cursor
  <1>2. PICK j : j = c_load_command + 1
    OBVIOUS
  <1>3. /\ file \in Files /\ Linked(file) /\ c_load_command \in Nat
        /\ file.cmds[j].cmd = "LC_DYLD_CHAINED_FIXUPS" /\ fixups = file.cmds[j].fixups
        /\ j \in FixupsCommands(file)
    <2>1. /\ file \in Files /\ Linked(file) /\ c_load_command \in Nat
          /\ c_load_command < Len(file.cmds)
          /\ file.cmds[j].cmd = "LC_DYLD_CHAINED_FIXUPS" /\ fixups = file.cmds[j].fixups
      BY <1>1, <1>2 DEF LoadInv, Walk, FixupsOfFile
    <2>2. j \in DOMAIN file.cmds
      BY <1>2, <2>1, FilesAssumption DEF IsFile
    <2> QED
      BY <2>1, <2>2 DEF FixupsCommands
  <1>4. SegmentsOf(file) \subseteq Nat /\ \A l \in FixupsCommands(file) : l = j
    BY <1>3, FilesAssumption DEF SegmentsOf, IsFile, Linked, LinkedFixups
  <1>5. \A i : Reached(j, i)' <=>
                 \E k \in SegmentsOf(file) : k < j /\ Number(file, k) = i /\ Recorded(k)
    <2>1. \A k \in SegmentsOf(file) : k < j => (Recorded(k)' <=> Recorded(k))
      BY <1>1, <1>2, <1>3, <1>4 DEF Recorded, Passed, SegmentNo
    <2> QED
      BY <1>1, <2>1 DEF Reached, SegmentNo, SegmentCommands
  <1>6. AllSettled(j)'
    <2>1. PICK fx : fx = file.cmds[j].fixups /\ fx = fixups /\ fx = file'.cmds[j].fixups
      BY <1>1, <1>3
    <2> SUFFICES ASSUME NEW i \in 1 .. Len(fx.segs), NEW q \in 1 .. Len(fx.segs[i].chain),
                        NEW n \in 1 .. Len(fx.segs[i].chain[q])
                 PROVE  Settled(j, i, FixupAt(fx, i, q, n))'
      BY <2>1 DEF AllSettled
    <2>2. PICK a, raw : a = PlaceOf(i, q, n) /\ raw = RawAt(i, q, n)
      OBVIOUS
    <2>3. IF Reached(j, i)' THEN a \in DOMAIN mem /\ mem[a] = FormatValue(fx, img_addr, raw)
                            ELSE a \notin visited
      <3>1. /\ i \in 1 .. Len(fixups.segs) /\ q \in 1 .. Len(fixups.segs[i].chain)
            /\ n \in 1 .. Len(fixups.segs[i].chain[q])
        BY <2>1
      <3>2. IF \E k \in SegmentsOf(file) : k < j /\ Number(file, k) = i /\ Recorded(k)
              THEN /\ PlaceOf(i, q, n) \in DOMAIN mem
                   /\ mem[PlaceOf(i, q, n)] = FormatValue(fixups, img_addr, RawAt(i, q, n))
              ELSE PlaceOf(i, q, n) \notin visited
        BY <1>1, <1>2, <3>1, ReturnSettles
      <3> QED
        BY <1>5, <2>1, <2>2, <3>2
    <2>4. a = img_addr + FixupAt(fx, i, q, n).off /\ raw = FixupAt(fx, i, q, n).raw
      BY <2>1, <2>2 DEF PlaceOf, RawAt
    <2>5. PICK e : e = FixupAt(fx, i, q, n)
      OBVIOUS
    <2>6. Settled(j, i, e)'
      BY <1>1, <2>1, <2>3, <2>4, <2>5 DEF Settled
    <2> QED
      BY <2>5, <2>6
  <1>7. SupportedFixups(file)' /\ Passed(j)'
    BY <1>1, <1>2, <1>3 DEF DoneInv, Passed
  <1>8. ~NotCalled'
    BY <1>1, <1>3, <1>7 DEF NotCalled
  <1>9. \A l \in FixupsCommands(file)' : AllSettled(l)'
    BY <1>1, <1>4, <1>6
  <1> QED
    BY <1>1, <1>7, <1>8, <1>9 DEF DoneInv

LEMMA DoneStep == LoadInv /\ DoneInv /\ [LoaderNext]_loader_vars => DoneInv'
  <1> SUFFICES ASSUME LoadInv, DoneInv, [LoaderNext]_loader_vars PROVE DoneInv'
    OBVIOUS
  <1>1. CASE LoadSegment
    BY <1>1, SegmentKeepsDone
  <1>2. CASE AsideStep /\ ~ReturnFixups
    BY <1>2, AsideKeepsDone
  <1>3. CASE ReturnFixups
    BY <1>3, ReturnKeepsDone
  <1>4. CASE CallFixups
    BY <1>4, CallKeepsDone
  <1>5. CASE RunFixups
    BY <1>5, RunKeepsDone
  <1>6. CASE UNCHANGED loader_vars
    <2>1. /\ UNCHANGED <<file, lpc, c_load_command, img_addr, segments, mem, visited, seg_i>>
          /\ UNCHANGED fixups_vars
      BY <1>6 DEF loader_vars, loader_state, fixups_vars, fixups_state, context, cursor
    <2>2. \A k : Passed(k)' <=> Passed(k)
      BY <2>1 DEF Passed
    <2>3. lpc # "fixups" => \A j \in FixupsCommands(file) : Passed(j)' => AllSettled(j)'
      BY <2>1, <2>2, SettledStays DEF DoneInv
    <2>4. lpc = "fixups" => FormatInv'
      BY <2>1, StepFormat DEF DoneInv, LoadInv, FixupsOfFile
    <2> QED
      BY <2>1, <2>2, <2>3, <2>4 DEF DoneInv, NotCalled
  <1> QED
    BY <1>1, <1>2, <1>3, <1>4, <1>5, <1>6 DEF LoaderNext, LoaderStep, Loaded, AsideStep

LEMMA DoneBegins == Loader64Init /\ SupportedFixups(file) => DoneInv
  <1> SUFFICES ASSUME Loader64Init, SupportedFixups(file) PROVE DoneInv
    OBVIOUS
  <1>1. file \in Files /\ lpc = "header" /\ c_load_command = 0 /\ seg_i = 1
    BY DEF Loader64Init, LoaderInit
  <1>2. \A j \in FixupsCommands(file) : ~Passed(j)
    BY <1>1, FilesAssumption DEF FixupsCommands, IsFile, Passed
  <1> QED
    BY <1>1, <1>2 DEF DoneInv

(* At the end the command of fixups is passed, so its fixups are settled;   *)
(* and what was never touched is the file's.                                *)
LEMMA InvAllOrNone == LoadInv /\ DoneInv => FixupsAllOrNone
  <1> SUFFICES ASSUME LoadInv, DoneInv, lpc = "done", NEW j \in FixupsCommands(file),
                      NEW i \in DOMAIN file.cmds[j].fixups.segs,
                      NEW q \in DOMAIN file.cmds[j].fixups.segs[i].chain,
                      NEW n \in DOMAIN file.cmds[j].fixups.segs[i].chain[q]
               PROVE  LET e == FixupAt(file.cmds[j].fixups, i, q, n)
                          a == img_addr + e.off
                      IN  IF Reached(j, i)
                            THEN Load(a) = FormatValue(file.cmds[j].fixups, img_addr, e.raw)
                            ELSE a \in DOMAIN mem => mem[a] = e.raw
    BY Zenon DEF FixupsAllOrNone, FixupsCommands
  <1>0. PICK fx, e, a : /\ fx = file.cmds[j].fixups /\ e = FixupAt(fx, i, q, n)
                        /\ a = img_addr + e.off
    OBVIOUS
  <1> SUFFICES IF Reached(j, i) THEN Load(a) = FormatValue(fx, img_addr, e.raw)
                                ELSE a \in DOMAIN mem => mem[a] = e.raw
    BY <1>0
  <1>1. file \in Files /\ Linked(file) /\ c_load_command \in Nat /\ img_addr \in Nat
    BY WidthAssumption DEF LoadInv, Walk, FixupsTypeOK, ContextTypeOK
  <1>2. fx \in FixupsPayload
    <2>1. IsCommand(file.cmds[j]) /\ file.cmds[j].cmd = "LC_DYLD_CHAINED_FIXUPS"
      BY <1>1, FilesAssumption DEF FixupsCommands, IsFile
    <2> QED
      BY <1>0, <2>1 DEF IsCommand, linkedit_data_command
  <1>3. /\ i \in 1 .. Len(fx.segs) /\ q \in 1 .. Len(fx.segs[i].chain)
        /\ n \in 1 .. Len(fx.segs[i].chain[q])
    <2>1. i \in 1 .. Len(fx.segs) /\ fx.segs[i] \in StartsInSegment
      BY <1>0, <1>2 DEF FixupsPayload
    <2>2. PICK chains \in Seq(Seq(Fixup)) : fx.segs[i].chain = chains
      BY <2>1 DEF StartsInSegment
    <2>3. PICK c \in Seq(Fixup) : fx.segs[i].chain[q] = c
      BY <1>0, <2>2
    <2> QED
      BY <1>0, <2>1, <2>2, <2>3
  <1>4. Passed(j)
    <2>1. j \in 1 .. Len(file.cmds)
      BY <1>1, FilesAssumption DEF FixupsCommands, IsFile
    <2>2. Len(file.cmds) \in Nat /\ c_load_command >= Len(file.cmds)
      BY <1>1, FilesAssumption DEF IsFile, DoneInv
    <2> QED
      BY <1>1, <2>1, <2>2 DEF Passed
  <1>5. AllSettled(j)
    BY <1>4 DEF DoneInv
  <1>6. Settled(j, i, e)
    BY <1>0, <1>3, <1>5 DEF AllSettled
  <1>7. CASE Reached(j, i)
    BY <1>0, <1>6, <1>7 DEF Settled, Load
  <1>8. CASE ~Reached(j, i) /\ a \in DOMAIN mem
    <2>1. a \notin visited
      BY <1>0, <1>6, <1>8 DEF Settled
    <2>2. \E k \in SegmentsOf(file) : \E o \in DOMAIN file.cmds[k].words :
            /\ Number(file, k) = i
            /\ FixupAt(fx, i, q, n).off = Offset(file, k) + o
            /\ \A b \in Nat : b + Offset(file, k) + o = b + FixupAt(fx, i, q, n).off
            /\ file.cmds[k].words[o] = FixupAt(fx, i, q, n).raw
      <3>1. fx = file.cmds[j].fixups
        BY <1>0
      <3>2. WrittenAt(file, fx, i, q, n)
        BY <1>1, <1>3, <3>1, FixupIsWord
      <3> QED
        BY <3>2 DEF WrittenAt
    <2>3. PICK k \in SegmentsOf(file) :
            \E o \in DOMAIN file.cmds[k].words :
              WordAt(k, o) = a /\ file.cmds[k].words[o] = e.raw
      BY <1>0, <1>1, <2>2 DEF WordAt
    <2>4. PICK o \in DOMAIN file.cmds[k].words : WordAt(k, o) = a /\ file.cmds[k].words[o] = e.raw
      BY <2>3
    <2> QED
      BY <1>8, <2>1, <2>4 DEF LoadInv, MemoryIsAsInFile
  <1> QED
    BY <1>7, <1>8

(* For every linked file whose fixups the walk supports, wherever the image *)
(* is and whenever mmap succeeds: when loader_64 returns, the fixups of a   *)
(* segment that was in the table with an address before the command are all *)
(* applied, those of any other are all as the file has them.                *)
THEOREM FixupsAllOrNoneHolds ==
  LoaderSpec /\ Linked(file) /\ SupportedFixups(file) => []FixupsAllOrNone
  BY DoneBegins, DoneStep, InvAllOrNone, LoadInvariant, PTL DEF LoaderSpec

----------------------------------------------------------------------------
(* The entry point, from the symbol table to the end.                       *)

(* A place the walk over the fixups has visited is a fixup of the file.     *)
FixupPlace(b, a) ==
  \E l \in FixupsCommands(file) :
    LET fx == file.cmds[l].fixups IN
    \E i \in 1 .. Len(fx.segs) : \E q \in 1 .. Len(fx.segs[i].chain) :
      \E r \in 1 .. Len(fx.segs[i].chain[q]) : a = b + FixupAt(fx, i, q, r).off

VisitedAreFixups == \A a \in visited : FixupPlace(img_addr, a)

EntryInv ==
  /\ LinkedMain(file) /\ VisitedAreFixups /\ EntryIsMain
  /\ lpc = "done" => c_load_command >= Len(file.cmds)

(* The visited places, step by step. *)
LEMMA FixupsAreFixups ==
  ASSUME LoadInv, lpc = "fixups"
  PROVE  VisitedAreFixups
  <1>1. /\ file.cmds[c_load_command + 1].cmd = "LC_DYLD_CHAINED_FIXUPS"
        /\ fixups = file.cmds[c_load_command + 1].fixups /\ FixupsInv
    BY DEF LoadInv, FixupsOfFile
  <1>2. c_load_command + 1 \in FixupsCommands(file)
    <2>1. c_load_command \in Nat /\ c_load_command < Len(file.cmds) /\ file \in Files
      BY DEF LoadInv, Walk
    <2>2. c_load_command + 1 \in DOMAIN file.cmds
      BY <2>1, FilesAssumption DEF IsFile
    <2> QED
      BY <1>1, <2>2 DEF FixupsCommands
  <1>3. PICK l, fx : l \in FixupsCommands(file) /\ fx = file.cmds[l].fixups /\ fx = fixups
    BY <1>1, <1>2
  <1> SUFFICES ASSUME NEW a \in visited PROVE FixupPlace(img_addr, a)
    BY DEF VisitedAreFixups
  <1>4. PICK i \in Nat, q \in Nat, r \in Nat : IsFixup(i, q, r) /\ a = PlaceOf(i, q, r)
    BY <1>1 DEF FixupsInv, VisitedBehind
  <1>5. /\ i \in 1 .. Len(fx.segs) /\ q \in 1 .. Len(fx.segs[i].chain)
        /\ r \in 1 .. Len(fx.segs[i].chain[q]) /\ a = img_addr + FixupAt(fx, i, q, r).off
    BY <1>3, <1>4 DEF IsFixup, PlaceOf
  <1> QED
    BY <1>3, <1>5, Zenon DEF FixupPlace

(* Every step but that of the symbol table leaves the entry point, and what *)
(* it rests on, alone.                                                      *)
LEMMA EntryStays ==
  ASSUME LoadInv, EntryInv, LoadSegment \/ UNCHANGED <<img_addr, v_addr, segments>>,
         UNCHANGED <<file, entry_point>>,
         \A j \in SymbolTables(file) : Passed(j)' => Passed(j),
         \A k \in SegmentsOf(file) : Passed(k) => Passed(k)'
  PROVE  EntryIsMain'
  <1>1. SegmentsOf(file) \subseteq Nat /\ SymbolTables(file) \subseteq Nat /\ c_load_command \in Nat
    BY FilesAssumption DEF SegmentsOf, SymbolTables, IsFile, LoadInv, Walk
  <1>2. \A j \in SymbolTables(file) : Passed(j) => (TextBefore(j)' => TextBefore(j))
    <2> SUFFICES ASSUME NEW j \in SymbolTables(file), Passed(j), TextBefore(j)'
                 PROVE  TextBefore(j)
      OBVIOUS
    <2>1. PICK k \in SegmentsOf(file) : k < j /\ file.cmds[k].segname = "__TEXT" /\ Recorded(k)'
      BY DEF TextBefore
    <2>2. Passed(k)
      BY <1>1, <2>1 DEF Passed
    <2>3. Recorded(k)
      BY <2>1, <2>2, RecordedStays
    <2> QED
      BY <2>1, <2>3 DEF TextBefore
  <1>3. ASSUME NEW j \in SymbolTables(file), TextBefore(j) PROVE \A a : Slid(a)' = Slid(a)
    <2>1. PICK k \in SegmentsOf(file) : Recorded(k)
      BY <1>3 DEF TextBefore
    <2>2. img_addr # Null
      BY <2>1 DEF Recorded, SegmentNo, LoadInv, TableIsOfFile, InTable
    <2>3. img_addr' = img_addr /\ v_addr' = v_addr
      BY <2>2, MappingStays
    <2> QED
      BY <2>3 DEF Slid
  <1> QED
    BY <1>2, <1>3 DEF EntryInv, EntryIsMain

(* The symbol table sets it, if it has a _main. *)
LEMMA FindMainFinds ==
  ASSUME LoadInv, EntryInv, FindMain, NEW j, j = c_load_command + 1
  PROVE  /\ j \in SymbolTables(file) /\ \A l \in SymbolTables(file) : l = j
         /\ UNCHANGED <<file, img_addr, v_addr>> /\ lpc = "command" /\ lpc' = "command"
         /\ c_load_command \in Nat /\ c_load_command' = c_load_command + 1
         /\ \A n \in DOMAIN file.cmds[j].syms :
              LastMain(file.cmds[j], n) => entry_point' = Slid(file.cmds[j].syms[n].n_value)
         /\ \/ entry_point' = entry_point
            \/ \E n \in DOMAIN file.cmds[j].syms : LastMain(file.cmds[j], n)
  <1> DEFINE mains == {m \in DOMAIN file.cmds[j].syms : file.cmds[j].syms[m].name = "_main"}
  <1>1. /\ lpc = "command" /\ lpc' = "command" /\ c_load_command < Len(file.cmds)
        /\ command.cmd = "LC_SYMTAB" /\ c_load_command' = c_load_command + 1
        /\ UNCHANGED <<file, img_addr, v_addr>>
    BY DEF FindMain, AtCommand, NextCommand, context
  <1>2. /\ j \in 1 .. Len(file.cmds) /\ command = file.cmds[j] /\ file \in Files
        /\ c_load_command \in Nat
    BY <1>1, AtTheCommand DEF LoadInv, Walk
  <1>3. j \in SymbolTables(file) /\ \A l \in SymbolTables(file) : l = j
    BY <1>1, <1>2, FilesAssumption DEF SymbolTables, IsFile, EntryInv, LinkedMain
  <1>4. entry_point' = IF mains = {} THEN entry_point ELSE Slid(file.cmds[j].syms[Max(mains)].n_value)
    BY <1>2 DEF FindMain
  <1>5. ASSUME NEW n \in DOMAIN file.cmds[j].syms, LastMain(file.cmds[j], n)
        PROVE  entry_point' = Slid(file.cmds[j].syms[n].n_value)
    <2>1. mains # {} /\ Max(mains) = n
      BY <1>2, <1>3, <1>5, LastIsMax
    <2> HIDE DEF mains
    <2> QED
      BY <1>4, <2>1
  <1>6. mains # {} => \E n \in DOMAIN file.cmds[j].syms : LastMain(file.cmds[j], n)
    <2> SUFFICES ASSUME mains # {} PROVE \E n \in DOMAIN file.cmds[j].syms : LastMain(file.cmds[j], n)
      OBVIOUS
    <2>1. IsCommand(file.cmds[j])
      BY <1>2, FilesAssumption DEF IsFile
    <2>2. Len(file.cmds[j].syms) \in Nat /\ DOMAIN file.cmds[j].syms = 1 .. Len(file.cmds[j].syms)
      BY <1>3, <2>1 DEF IsCommand, symtab_command, SymbolTables
    <2>3. mains \subseteq Nat /\ \A m \in mains : m <= Len(file.cmds[j].syms)
      BY <2>2
    <2>4. Max(mains) \in mains /\ \A m \in mains : m <= Max(mains)
      BY <2>2, <2>3, MaxIsGreatest
    <2>5. PICK n \in mains : \A m \in mains : m <= n
      BY <2>4
    <2>7. \A m \in DOMAIN file.cmds[j].syms : file.cmds[j].syms[m].name = "_main" => m <= n
      BY <2>5
    <2> QED
      BY <2>5, <2>7 DEF LastMain, IsMain
  <1> HIDE DEF mains
  <1> QED
    BY <1>1, <1>2, <1>3, <1>4, <1>5, <1>6

LEMMA FindMainSets ==
  ASSUME LoadInv, EntryInv, FindMain
  PROVE  EntryIsMain'
  <1>1. PICK j : j = c_load_command + 1
    OBVIOUS
  <1>2. \A a : Slid(a)' = Slid(a)
    BY <1>1, FindMainFinds DEF Slid
  <1> QED
    BY <1>1, <1>2, FindMainFinds DEF EntryIsMain

(* The steps that do not read the symbol table pass none. *)
LEMMA OthersPassNoTable ==
  ASSUME LoadInv, EntryInv, LoaderStep, ~FindMain
  PROVE  /\ UNCHANGED <<file, entry_point>>
         /\ \A j \in SymbolTables(file) : Passed(j)' => Passed(j)
         /\ lpc' = "done" => c_load_command' >= Len(file.cmds)
  <1>1. file \in Files /\ c_load_command \in Nat /\ SymbolTables(file) \subseteq Nat
    BY FilesAssumption DEF SymbolTables, IsFile, LoadInv, Walk
  <1>2. ASSUME c_load_command' = c_load_command \/ c_load_command' = c_load_command + 1,
               c_load_command' = c_load_command + 1 =>
                 c_load_command + 1 \notin SymbolTables(file)
        PROVE  \A j \in SymbolTables(file) : Passed(j)' => Passed(j)
    BY <1>1, <1>2 DEF Passed
  <1>3. ASSUME lpc \in {"command", "fixups", "binds"}, c_load_command < Len(file.cmds),
               command.cmd # "LC_SYMTAB"
        PROVE  c_load_command + 1 \notin SymbolTables(file)
    BY <1>3, CommandAtHand DEF SymbolTables
  <1>4. CASE ReadHeader \/ EndCommands \/ CallFixups \/ CallBinds \/ RunFixups \/ RunBinds
    <2>1. UNCHANGED <<file, entry_point, c_load_command>>
      BY <1>4 DEF ReadHeader, EndCommands, CallFixups, CallBinds, RunFixups, RunBinds, loader_state
    <2>2. lpc' = "done" => c_load_command' >= Len(file.cmds)
      BY <1>4 DEF ReadHeader, EndCommands, CallFixups, CallBinds, RunFixups, RunBinds, loader_state,
                  EntryInv
    <2>3. c_load_command' # c_load_command + 1
      BY <1>1, <2>1
    <2> QED
      BY <1>2, <2>1, <2>2, <2>3
  <1>5. CASE LoadSegment \/ LoadDylib \/ PassCommand
    <2>1. /\ UNCHANGED <<file, entry_point>> /\ lpc' # "done" /\ lpc = "command"
          /\ c_load_command' = c_load_command + 1 /\ c_load_command < Len(file.cmds)
          /\ command.cmd # "LC_SYMTAB"
      BY <1>5 DEF LoadSegment, LoadDylib, PassCommand, AtCommand, NextCommand
    <2> QED
      BY <1>2, <1>3, <2>1
  <1>6. CASE ReturnFixups
    <2>1. /\ UNCHANGED <<file, entry_point>> /\ lpc' # "done" /\ lpc = "fixups"
          /\ c_load_command' = c_load_command + 1
      BY <1>6 DEF ReturnFixups, NextCommand
    <2>2. c_load_command < Len(file.cmds) /\ command.cmd # "LC_SYMTAB"
      BY <2>1, CommandAtHand DEF LoadInv, Walk, FixupsOfFile
    <2> QED
      BY <1>2, <1>3, <2>1, <2>2
  <1>7. CASE ReturnBinds
    <2>1. /\ UNCHANGED <<file, entry_point>> /\ lpc' # "done" /\ lpc = "binds"
          /\ c_load_command' = c_load_command + 1
      BY <1>7 DEF ReturnBinds, NextCommand
    <2>2. c_load_command < Len(file.cmds) /\ command.cmd # "LC_SYMTAB"
      BY <2>1, CommandAtHand DEF LoadInv, Walk, BindsOfFile
    <2> QED
      BY <1>2, <1>3, <2>1, <2>2
  <1> QED
    BY <1>4, <1>5, <1>6, <1>7 DEF LoaderStep

LEMMA EntryStep == LoadInv /\ EntryInv /\ [LoaderNext]_loader_vars => EntryInv'
  <1> SUFFICES ASSUME LoadInv, EntryInv, [LoaderNext]_loader_vars PROVE EntryInv'
    OBVIOUS
  <1>1. file' = file /\ LoadInv'
    BY FileStays, LoadStep
  <1>2. LinkedMain(file)'
    BY <1>1 DEF EntryInv
  <1>3. VisitedAreFixups'
    <2>1. CASE lpc' = "fixups"
      <3>1. (LoadInv /\ lpc = "fixups" => VisitedAreFixups)'
        BY FixupsAreFixups, PTL
      <3> QED
        BY <1>1, <2>1, <3>1
    <2>2. CASE lpc' # "fixups"
      <3>1. visited' = visited /\ (img_addr # Null => img_addr' = img_addr)
        <4>1. CASE LoadSegment
          BY <4>1, MappingStays, SegmentAtHand DEF fixups_state
        <4>2. CASE AsideStep
          BY <4>2, AsideIs DEF Aside, fixups_state
        <4>3. CASE CallFixups \/ RunFixups
          BY <2>2, <4>3 DEF CallFixups, RunFixups, loader_state
        <4>4. CASE UNCHANGED loader_vars
          BY <4>4 DEF loader_vars, context, fixups_state
        <4> QED
          BY <4>1, <4>2, <4>3, <4>4 DEF LoaderNext, LoaderStep, Loaded, AsideStep
      <3>2. img_addr = Null => visited = {}
        BY DEF LoadInv, FixupsOfFile, MemoryIsOfFile
      <3>3. \A a \in visited : FixupPlace(img_addr, a)
        BY DEF EntryInv, VisitedAreFixups
      <3>4. \A b, a : FixupPlace(b, a)' <=> FixupPlace(b, a)
        BY <1>1 DEF FixupPlace
      <3> QED
        BY <3>1, <3>2, <3>3, <3>4 DEF VisitedAreFixups
    <2> QED
      BY <2>1, <2>2
  <1>4. EntryIsMain' /\ (lpc' = "done" => c_load_command' >= Len(file'.cmds))
    <2>1. CASE FindMain
      BY <2>1, FindMainSets DEF FindMain, AtCommand
    <2>2. CASE LoaderStep /\ ~FindMain
      <3>1. /\ UNCHANGED <<file, entry_point>>
            /\ \A j \in SymbolTables(file) : Passed(j)' => Passed(j)
            /\ lpc' = "done" => c_load_command' >= Len(file.cmds)
        BY <2>2, OthersPassNoTable
      <3>2. LoadSegment \/ UNCHANGED <<img_addr, v_addr, segments>>
        <4>1. CASE AsideStep
          BY <4>1, AsideIs DEF Aside
        <4>2. CASE CallFixups
          BY <4>2 DEF CallFixups, context
        <4>3. CASE RunFixups
          BY <4>3, FixupsEffect DEF RunFixups, loader_state, LoadInv, FixupsOfFile
        <4> QED
          BY <2>2, <4>1, <4>2, <4>3 DEF LoaderStep, AsideStep
      <3>3. c_load_command \in Nat /\ SegmentsOf(file) \subseteq Nat
        BY FilesAssumption DEF SegmentsOf, IsFile, LoadInv, Walk
      <3>4. c_load_command' = c_load_command \/ c_load_command' = c_load_command + 1
        BY <2>2 DEF LoaderStep, ReadHeader, EndCommands, LoadSegment, LoadDylib, PassCommand,
                    CallFixups, RunFixups, ReturnFixups, CallBinds, RunBinds, ReturnBinds,
                    NextCommand, loader_state
      <3>5. \A k \in SegmentsOf(file) : Passed(k) => Passed(k)'
        BY <3>3, <3>4 DEF Passed
      <3> QED
        BY <3>1, <3>2, <3>5, EntryStays
    <2>3. CASE UNCHANGED loader_vars
      <3>1. /\ UNCHANGED <<img_addr, v_addr, segments, file, entry_point, lpc, c_load_command>>
        BY <2>3 DEF loader_vars, loader_state, context
      <3>2. \A k : Passed(k)' <=> Passed(k)
        BY <3>1 DEF Passed
      <3> QED
        BY <3>1, <3>2, EntryStays DEF EntryInv
    <2> QED
      BY <1>1, <2>1, <2>2, <2>3 DEF LoaderNext, Loaded
  <1> QED
    BY <1>2, <1>3, <1>4 DEF EntryInv

LEMMA EntryBegins == Loader64Init /\ LinkedMain(file) => EntryInv
  <1> SUFFICES ASSUME Loader64Init, LinkedMain(file) PROVE EntryInv
    OBVIOUS
  <1>1. file \in Files /\ lpc = "header" /\ c_load_command = 0 /\ visited = {}
    BY DEF Loader64Init, LoaderInit
  <1>2. \A j \in SymbolTables(file) : ~Passed(j)
    BY <1>1, FilesAssumption DEF SymbolTables, IsFile, Passed
  <1> QED
    BY <1>1, <1>2 DEF EntryInv, EntryIsMain, VisitedAreFixups

(* The word the file has for an offset that a segment has a word for. *)
LEMMA FileWordIs ==
  ASSUME file \in Files, LinkedSegments(file), NEW k \in SegmentsOf(file),
         NEW o \in DOMAIN file.cmds[k].words, NEW off, off = Offset(file, k) + o
  PROVE  FileWord(off) = file.cmds[k].words[o]
  <1>1. /\ Offset(file, k) \in Nat /\ o \in Nat
    BY OnlyMappableHasWords, LinkedRange
  <1>2. off - Offset(file, k) = o
    BY <1>1
  <1>3. k \in Holder(off)
    BY <1>2 DEF Holder, Offset, SegmentCommands
  <1>4. PICK h : h = CHOOSE x \in Holder(off) : TRUE
    OBVIOUS
  <1>5. h \in SegmentsOf(file) /\ off - Offset(file, h) \in DOMAIN file.cmds[h].words
    BY <1>3, <1>4 DEF Holder, Offset, SegmentCommands
  <1>6. PICK q \in DOMAIN file.cmds[h].words : q = off - Offset(file, h)
    BY <1>5
  <1>7. Offset(file, h) \in Nat /\ q \in Nat
    BY <1>5, OnlyMappableHasWords, LinkedRange
  <1>8. Offset(file, h) + q = Offset(file, k) + o
    BY <1>1, <1>6, <1>7
  <1>9. h = k /\ q = o
    BY <1>5, <1>8, OneHolder
  <1>10. FileWord(off) = file.cmds[h].words[off - Offset(file, h)]
    BY <1>4 DEF FileWord, Offset
  <1> QED
    BY <1>6, <1>9, <1>10

(* The address of a word of a segment, slid. *)
LEMMA SlidIsWordAt ==
  ASSUME file \in Files, LinkedSegments(file), img_addr \in HostBases, v_addr = min_vmaddr(file),
         NEW k \in SegmentsOf(file), NEW o \in DOMAIN file.cmds[k].words
  PROVE  Slid(file.cmds[k].vmaddr + o) = WordAt(k, o)
  <1>1. /\ k \in Mappable(file) /\ o \in Nat /\ file.cmds[k].vmaddr \in Nat
        /\ Offset(file, k) \in Nat /\ min_vmaddr(file) \in Nat
        /\ file.cmds[k].vmaddr = min_vmaddr(file) + Offset(file, k)
        /\ map_size(file) \in Nat
    BY OnlyMappableHasWords, LinkedRange
  <1>2. img_addr \in Nat /\ img_addr + map_size(file) <= AddrMod
    BY <1>1, HostAssumption, WidthAssumption DEF LinkedSegments
  <1>3. PICK a \in Nat : a = img_addr + Offset(file, k) + o
    BY <1>1, <1>2
  <1>4. a + 8 <= img_addr + map_size(file)
    BY <1>3, WordInside
  <1>5. a < AddrMod
    BY <1>1, <1>2, <1>3, <1>4, WidthAssumption
  <1>6. PICK v \in Nat : v = file.cmds[k].vmaddr + o
    BY <1>1
  <1>7. img_addr + v - v_addr = a
    BY <1>1, <1>2, <1>3, <1>6
  <1>8. Slid(v) = a
    BY <1>5, <1>7, ModOfSmall, WidthAssumption DEF Slid
  <1> QED
    BY <1>3, <1>6, <1>8 DEF WordAt

(* The symbol that counts is a word of __TEXT. *)
LEMMA MainIsWord ==
  ASSUME file \in Files, LinkedSegments(file), LinkedMain(file),
         NEW j \in SymbolTables(file), NEW k \in SegmentsOf(file), file.cmds[k].segname = "__TEXT",
         NEW n \in DOMAIN file.cmds[j].syms, LastMain(file.cmds[j], n)
  PROVE  \E at \in DOMAIN file.cmds[k].words :
           /\ file.cmds[j].syms[n].n_value = file.cmds[k].vmaddr + at
           /\ file.cmds[j].syms[n].n_value - min_vmaddr(file) = Offset(file, k) + at
           /\ \A l \in FixupsCommands(file) :
                LET fx == file.cmds[l].fixups IN
                \A i \in 1 .. Len(fx.segs) : \A q \in 1 .. Len(fx.segs[i].chain) :
                  \A r \in 1 .. Len(fx.segs[i].chain[q]) :
                    FixupAt(fx, i, q, r).off # Offset(file, k) + at
  <1>1. PICK at, v : v = file.cmds[j].syms[n].n_value /\ at = v - file.cmds[k].vmaddr
    OBVIOUS
  <1>2. /\ at \in DOMAIN file.cmds[k].words
        /\ \A l \in FixupsCommands(file) :
             LET fx == file.cmds[l].fixups IN
             \A i \in 1 .. Len(fx.segs) : \A q \in 1 .. Len(fx.segs[i].chain) :
               \A r \in 1 .. Len(fx.segs[i].chain[q]) :
                 FixupAt(fx, i, q, r).off # Offset(file, k) + at
    BY <1>1, Zenon DEF LinkedMain
  <1>3. /\ k \in Mappable(file) /\ at \in Nat /\ file.cmds[k].vmaddr \in Nat
        /\ Offset(file, k) \in Nat /\ min_vmaddr(file) \in Nat
        /\ file.cmds[k].vmaddr = min_vmaddr(file) + Offset(file, k)
    BY <1>2, OnlyMappableHasWords, LinkedRange
  <1>4. v \in Nat
    <2>1. IsCommand(file.cmds[j]) /\ file.cmds[j].cmd = "LC_SYMTAB"
      BY FilesAssumption DEF SymbolTables, IsFile
    <2> QED
      BY <1>1, <2>1, WidthAssumption DEF IsCommand, symtab_command, nlist
  <1>5. v = file.cmds[k].vmaddr + at /\ v - min_vmaddr(file) = Offset(file, k) + at
    BY <1>1, <1>3, <1>4
  <1> QED
    BY <1>1, <1>2, <1>5

LEMMA InvMainIsLoaded == LoadInv /\ EntryInv => MainIsLoaded
  <1> SUFFICES ASSUME LoadInv, EntryInv, lpc = "done",
                      NEW j \in SymbolTables(file), NEW k \in SegmentsOf(file), k < j,
                      file.cmds[k].segname = "__TEXT", Recorded(k),
                      NEW n \in DOMAIN file.cmds[j].syms, LastMain(file.cmds[j], n)
               PROVE  /\ entry_point \in DOMAIN mem
                      /\ mem[entry_point] = FileWord(file.cmds[j].syms[n].n_value - min_vmaddr(file))
    BY Zenon DEF MainIsLoaded, SymbolTables, SegmentCommands
  <1>1. file \in Files /\ LinkedSegments(file) /\ c_load_command \in Nat
    BY DEF LoadInv, Linked, Walk
  <1>2. Passed(j)
    <2>1. j \in 1 .. Len(file.cmds) /\ Len(file.cmds) \in Nat /\ c_load_command >= Len(file.cmds)
      BY <1>1, FilesAssumption DEF SymbolTables, IsFile, EntryInv
    <2> QED
      BY <1>1, <2>1 DEF Passed
  <1>3. entry_point = Slid(file.cmds[j].syms[n].n_value)
    BY <1>2 DEF EntryInv, EntryIsMain, TextBefore
  <1>5. PICK at \in DOMAIN file.cmds[k].words :
          /\ file.cmds[j].syms[n].n_value = file.cmds[k].vmaddr + at
          /\ file.cmds[j].syms[n].n_value - min_vmaddr(file) = Offset(file, k) + at
          /\ \A l \in FixupsCommands(file) :
               LET fx == file.cmds[l].fixups IN
               \A i \in 1 .. Len(fx.segs) : \A q \in 1 .. Len(fx.segs[i].chain) :
                 \A r \in 1 .. Len(fx.segs[i].chain[q]) :
                   FixupAt(fx, i, q, r).off # Offset(file, k) + at
    BY <1>1, MainIsWord, Zenon DEF EntryInv
  <1>6. at \in Nat /\ Offset(file, k) \in Nat
    BY <1>1, OnlyMappableHasWords, LinkedRange
  <1>9. /\ img_addr \in HostBases /\ v_addr = min_vmaddr(file) /\ img_addr \in Nat
        /\ \A o \in DOMAIN file.cmds[k].words : WordAt(k, o) \in DOMAIN mem
    <2>1. InTable(k) /\ segments[Number(file, k)].mapped_addr # Null
      BY DEF LoadInv, TableIsOfFile, Recorded, SegmentNo
    <2>2. img_addr # Null
      BY <2>1 DEF InTable
    <2> QED
      BY <2>1, <2>2, HostAssumption, WidthAssumption DEF InTable, LoadInv, Mapped
  <1>10. entry_point = WordAt(k, at)
    BY <1>1, <1>3, <1>5, <1>9, SlidIsWordAt
  <1>11. entry_point \notin visited
    <2> SUFFICES ASSUME entry_point \in visited PROVE FALSE
      OBVIOUS
    <2>1. FixupPlace(img_addr, entry_point)
      BY DEF EntryInv, VisitedAreFixups
    <2>2. PICK l, fx :
            /\ l \in FixupsCommands(file)
            /\ fx = file.cmds[l].fixups
            /\ \E i \in 1 .. Len(fx.segs) : \E q \in 1 .. Len(fx.segs[i].chain) :
                 \E r \in 1 .. Len(fx.segs[i].chain[q]) :
                   entry_point = img_addr + FixupAt(fx, i, q, r).off
      BY <2>1, Zenon DEF FixupPlace
    <2>3. PICK i \in 1 .. Len(fx.segs) : \E q \in 1 .. Len(fx.segs[i].chain) :
            \E r \in 1 .. Len(fx.segs[i].chain[q]) :
              entry_point = img_addr + FixupAt(fx, i, q, r).off
      BY <2>2
    <2>4. PICK q \in 1 .. Len(fx.segs[i].chain) : \E r \in 1 .. Len(fx.segs[i].chain[q]) :
            entry_point = img_addr + FixupAt(fx, i, q, r).off
      BY <2>3
    <2>5. PICK r \in 1 .. Len(fx.segs[i].chain[q]) :
            entry_point = img_addr + FixupAt(fx, i, q, r).off
      BY <2>4
    <2>6. PICK off : off = FixupAt(fx, i, q, r).off
      OBVIOUS
    <2>7. fx \in FixupsPayload
      <3>1. IsCommand(file.cmds[l]) /\ file.cmds[l].cmd = "LC_DYLD_CHAINED_FIXUPS"
        BY <1>1, <2>2, FilesAssumption DEF FixupsCommands, IsFile
      <3> QED
        BY <2>2, <3>1 DEF IsCommand, linkedit_data_command
    <2>8. off \in Nat
      BY <2>3, <2>4, <2>5, <2>6, <2>7, PayloadFixup
    <2>9. off = Offset(file, k) + at
      <3>1. PICK x \in Nat, y \in Nat : x = Offset(file, k) /\ y = at
        BY <1>6
      <3>2. img_addr + x + y = img_addr + off
        BY <1>10, <2>5, <2>6, <3>1 DEF WordAt
      <3>3. off = x + y
        BY <1>9, <2>8, <3>2
      <3> QED
        BY <3>1, <3>3
    <2>10. off # Offset(file, k) + at
      BY <1>5, <2>2, <2>6
    <2> QED
      BY <2>9, <2>10
  <1>12. mem[entry_point] = file.cmds[k].words[at]
    BY <1>5, <1>9, <1>10, <1>11 DEF LoadInv, MemoryIsAsInFile
  <1>13. FileWord(file.cmds[j].syms[n].n_value - min_vmaddr(file)) = file.cmds[k].words[at]
    BY <1>1, <1>5, FileWordIs
  <1> QED
    BY <1>5, <1>9, <1>10, <1>12, <1>13

(* For every linked file with one symbol table, whose last _main is a word  *)
(* of __TEXT that no fixup changes: if __TEXT was in the table with an      *)
(* address before LC_SYMTAB, the entry point loader_64 returns with is that *)
(* word's place at the base the image has.                                  *)
THEOREM MainIsLoadedHolds == LoaderSpec /\ Linked(file) /\ LinkedMain(file) => []MainIsLoaded
  BY EntryBegins, EntryStep, InvMainIsLoaded, LoadInvariant, PTL DEF LoaderSpec

----------------------------------------------------------------------------
(* The binds loader_64 collects.                                            *)
LEMMA TableIsSlid64 == LoadInv => TableSlid
  BY DEF LoadInv, TableIsOfFile, InTable, TableSlid, Recorded, SegmentNo, FixupsTypeOK, ContextTypeOK

LEMMA Binds64Step == LoadInv /\ Typed(64) /\ BindsInv /\ [LoaderNext]_loader_vars => BindsInv'
  <1> SUFFICES ASSUME LoadInv, Typed(64), BindsInv, [LoaderNext]_loader_vars PROVE BindsInv'
    OBVIOUS
  <1>1. TableSlid /\ c_load_command \in Nat
    BY TableIsSlid64 DEF LoadInv, Walk
  <1> USE DEF context, lists, binds_state
  <1>2. CASE LoadSegment
    <2>1. TableGrows /\ (img_addr # Null => img_addr' = img_addr /\ v_addr' = v_addr)
      BY <1>2, SegmentRecorded, MappingStays
    <2>2. /\ lpc = "command" /\ lpc' = "command" /\ c_load_command' = c_load_command + 1
          /\ UNCHANGED <<file, targets, b_list>>
      BY <1>2 DEF LoadSegment, AtCommand
    <2> QED
      BY <1>1, <2>1, <2>2, NoBindKeeps
  <1>3. CASE ReadHeader \/ EndCommands \/ CallFixups
    <2>1. /\ lpc # "binds" /\ lpc' # "binds" /\ c_load_command' = c_load_command
          /\ UNCHANGED <<file, targets, b_list, segments, img_addr, v_addr>>
      BY <1>3 DEF ReadHeader, EndCommands, CallFixups, AtCommand
    <2> QED
      BY <1>1, <2>1, NoBindKeeps
  <1>4. CASE FindMain \/ LoadDylib \/ PassCommand \/ ReturnFixups \/ ReturnBinds
    <2>1. /\ lpc' = "command" /\ c_load_command' = c_load_command + 1
          /\ UNCHANGED <<file, targets, b_list, segments, img_addr, v_addr>>
      BY <1>4 DEF FindMain, LoadDylib, PassCommand, ReturnFixups, ReturnBinds, AtCommand, NextCommand
    <2> QED
      BY <1>1, <2>1, NoBindKeeps
  <1>5. CASE RunFixups
    <2>1. /\ lpc = "fixups" /\ lpc' = "fixups" /\ c_load_command' = c_load_command
          /\ UNCHANGED <<file, targets, v_addr>>
      BY <1>5 DEF RunFixups, loader_state
    <2>2. UNCHANGED <<segments, img_addr, b_list>>
      BY <1>5 DEF RunFixups, FixupsStep, BeginFixups, SkipSegment, EnterSegment, EndSegments,
         SkipPage, EnterPage, EndPages, ApplyRebase, ApplyBind, LeaveBind, Advance
    <2> QED
      BY <1>1, <2>1, <2>2, NoBindKeeps
  <1>6. CASE CallBinds
    BY <1>6, CallBindsKeeps
  <1>7. CASE RunBinds
    BY <1>7, RunBindsKeeps
  <1>8. CASE UNCHANGED loader_vars
    BY <1>8, StutterKeepsBinds
  <1> QED
    BY <1>2, <1>3, <1>4, <1>5, <1>6, <1>7, <1>8 DEF LoaderNext, LoaderStep, Loaded

LEMMA Binds64Begin == Loader64Init /\ LinkedBinds(file) => Typed(64) /\ BindsInv
  BY TypedBegins, BindsBegin DEF Loader64Init

(* A bind at a word of its segment. *)
LEMMA InvBindsHit ==
  LoadInv /\ Typed(64) /\ BindsInv /\ BindsInWords(file) => BindsHitLoadedWords
  <1>0. ASSUME Typed(64), BindsInv, LoadInv
        PROVE  NoBindDropped
    BY <1>0, InvPlaced, TableIsSlid64 DEF BindsPlaced
  <1> SUFFICES ASSUME LoadInv, Typed(64), BindsInv, BindsInWords(file),
                      NEW n \in 1 .. Len(b_list), NEW a, a = b_list[n].address, a # Null,
                      NEW t, t = targets[n]
               PROVE  /\ a \in DOMAIN mem
                      /\ \E k \in SegmentsOf(file) :
                           Number(file, k) = t.seg + 1 /\ a = Slid(file.cmds[k].vmaddr + t.off)
    <2>1. DOMAIN b_list = 1 .. Len(b_list)
      BY DEF Typed, LoaderTypeOK, BindsTypeOK
    <2> QED
      BY <1>0, <2>1 DEF BindsHitLoadedWords, SegmentCommands, SegmentNo
  <1>1. BindsPlaced /\ Len(b_list) \in Nat
    BY InvPlaced, TableIsSlid64 DEF Typed, LoaderTypeOK, BindsTypeOK
  <1>2. PICK k \in SegmentsOf(file) :
          Number(file, k) = t.seg + 1 /\ Recorded(k) /\ a = Slid(file.cmds[k].vmaddr + t.off)
    BY <1>1 DEF BindsPlaced
  <1>3. PICK j \in BindsCommands(file) : targets = file.cmds[j].targets
    BY <1>1 DEF BindsPlaced, BindsInv
  <1>4. file \in Files /\ LinkedSegments(file)
    BY DEF LoadInv, Walk, Linked
  <1>5. n \in 1 .. Len(targets)
    <2>1. IsCommand(file.cmds[j]) /\ file.cmds[j].cmd = "LC_DYLD_INFO"
      BY <1>3, <1>4, FilesAssumption DEF BindsCommands, IsFile
    <2>2. Len(targets) \in Nat
      BY <1>3, <2>1 DEF IsCommand, dyld_info_command
    <2> QED
      BY <1>1, <2>2 DEF BindsPlaced
  <1>6. t.off \in DOMAIN file.cmds[k].words
    BY <1>2, <1>3, <1>5 DEF BindsInWords, IsInSegment
  <1>7. InTable(k) /\ segments[Number(file, k)].mapped_addr # Null
    BY <1>2 DEF LoadInv, TableIsOfFile, Recorded, SegmentNo
  <1>8. img_addr # Null /\ WordAt(k, t.off) \in DOMAIN mem
    BY <1>6, <1>7 DEF InTable
  <1>9. img_addr \in HostBases /\ v_addr = min_vmaddr(file)
    BY <1>8 DEF LoadInv, Mapped
  <1>10. a = WordAt(k, t.off)
    BY <1>2, <1>4, <1>6, <1>9, SlidIsWordAt
  <1> QED
    BY <1>2, <1>8, <1>10

(* For every linked file whose binds are for words it has, every base and   *)
(* every order of failures of mmap: each address loader_64 collects is that *)
(* of a word it has copied, the one the linker named, and no bind of a      *)
(* segment that was in the table is dropped (bind_list_retriever,           *)
(* bind_address_for_segment_offset).                                        *)
THEOREM BindsHitLoadedWordsHolds ==
  LoaderSpec /\ Linked(file) /\ LinkedBinds(file) /\ BindsInWords(file) => []BindsHitLoadedWords
<1> DEFINE Inv == LoadInv /\ Typed(64) /\ BindsInv /\ BindsInWords(file)
<1>1. Loader64Init /\ Linked(file) /\ LinkedBinds(file) /\ BindsInWords(file) => Inv
  BY LoadBegins, Binds64Begin
<1>2. Inv /\ [LoaderNext]_loader_vars => Inv'
  <2>1. BindsInWords(file) /\ [LoaderNext]_loader_vars => BindsInWords(file)'
    BY FileStays
  <2> QED
    BY <2>1, LoadStep, Loader64Typed, Binds64Step
<1>3. Inv => BindsHitLoadedWords
  BY InvBindsHit
<1> QED
  BY <1>1, <1>2, <1>3, PTL DEF LoaderSpec
=============================================================================
