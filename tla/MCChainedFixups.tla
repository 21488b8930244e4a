-------------------------- MODULE MCChainedFixups --------------------------
(***************************************************************************)
(* The images the chained-fixup walk is run on.  A page of 32 bytes holds  *)
(* as many 8-byte pointers as the walk's limit of 4, as a page of 0x1000   *)
(* holds 512.                                                              *)
(***************************************************************************)
EXTENDS ChainedFixups, MCMachO

PageSize == 32
DataOff == 64     \* __DATA, in the image
TextSize == 64

\* Where the pointers of the two pages of __DATA are.
FirstPage == <<0, 8, 16, 24>>
SecondPage == <<4, 20>>

NoChains == [seg_info_off |-> 0, page_size |-> 0, pointer_format |-> 0,
             segment_offset |-> 0, page_start |-> << >>, chain |-> << >>]

Starts(info_off, format, size, offset, starts, chains) ==
  [seg_info_off |-> info_off, page_size |-> size, pointer_format |-> format,
   segment_offset |-> offset, page_start |-> starts, chain |-> chains]

\* __DATA with the given slots on its two pages.
DataStarts(s1, s2, size, at1) ==
  Starts(48, PTR_64_OFFSET, size, DataOff,
         <<StartOf(s1, at1), StartOf(s2, SecondPage)>>,
         <<LinkChain(s1, at1, DataOff), LinkChain(s2, SecondPage, DataOff + size)>>)

Imports == << [name |-> "_puts", addend |-> 0], [name |-> "_missing", addend |-> 0],
              [name |-> "_exit", addend |-> 1] >>

Payload(datasize, starts_offset, format, segs) ==
  [datasize |-> datasize, starts_offset |-> starts_offset, imports_format |-> format,
   imports |-> Imports, segs |-> segs]

\* Every word the payload's chains place, by its offset in the image.
WordsOf(segs) ==
  LET placed == UNION {UNION {{segs[i].chain[p][k] : k \in 1 .. Len(segs[i].chain[p])}
                              : p \in 1 .. Len(segs[i].chain)} : i \in 1 .. Len(segs)}
  IN  [o \in {e.off : e \in placed} |-> (CHOOSE e \in placed : e.off = o).raw]

Segs(mapped) ==
  << [segname |-> "__PAGEZERO", vmaddr |-> 0, vmsize |-> 256, mapped |-> FALSE],
     [segname |-> "__TEXT", vmaddr |-> 256, vmsize |-> TextSize, mapped |-> TRUE],
     [segname |-> "__DATA", vmaddr |-> 256 + DataOff, vmsize |-> 64, mapped |-> mapped] >>

Image(payload, segs) ==
  [v_addr |-> 256, segs |-> segs, fixups |-> payload, words |-> WordsOf(payload.segs)]

----------------------------------------------------------------------------
\* Pages of every mix of four slots; the second page is one of three.
Slots == {Plain, Rebase(96, 0), Bind(0, 1), Bind(1, 0), Bind(5, 0)}
SecondSlots == {<<Plain, Plain>>, <<Rebase(68, 0), Bind(2, 3)>>, <<Plain, Bind(1, 2)>>}

PageMixes ==
  {Image(Payload(200, 28, IMPORT,
           <<NoChains, NoChains, DataStarts(s1, s2, PageSize, FirstPage)>>), Segs(TRUE)) :
     s1 \in [1 .. 4 -> Slots], s2 \in SecondSlots}

\* Payloads the walk refuses in whole or in part: bad headers, segments of
\* another format, out of bounds, unmapped or missing from the table, pages
\* with several starts.
S1 == <<Rebase(80, 0), Bind(0, 2), Plain, Rebase(72, 0)>>
S2 == <<Bind(2, 1), Rebase(64, 0)>>
Data == DataStarts(S1, S2, PageSize, FirstPage)

Refused ==
  {Image(Payload(size, off, IMPORT, <<NoChains, NoChains, Data>>), Segs(TRUE)) :
     size \in {20, 28, 31, 99, 100, 200}, off \in {0, 28, 40}}
  \cup
  {Image(Payload(200, 28, IMPORT, <<NoChains, text, data>>), table) :
     text \in {NoChains, Starts(24, 2, PageSize, 0, <<8>>, << <<[off |-> 8, raw |-> 0]>> >>),
               Starts(24, PTR_64_OFFSET, PageSize, 0, <<START_MULTI + 1, 8>>,
                      << <<>>, <<[off |-> 40, raw |-> 32]>> >>)},
     data \in {Data, [Data EXCEPT !.seg_info_off = 149]},
     table \in {Segs(TRUE), Segs(FALSE), SubSeq(Segs(TRUE), 1, 2)}}

MCImages == PageMixes \cup Refused

\* Of what the walk implements, and so is every payload of the run that holds.
ASSUME MCImagesSupported == \A im \in MCImages : SupportedPayload(im.fixups)

----------------------------------------------------------------------------
\* Words that use what the runs above leave out, one kind at a time.

\* A page of 4 times the size, as 0x4000 is of 0x1000, all of it pointers.
LongPage == <<0, 8, 16, 24, 32, 40>>
LongPageImages ==
  {Image(Payload(200, 28, IMPORT,
           <<NoChains, NoChains, DataStarts(s1, S2, 128, LongPage)>>), Segs(TRUE)) :
     s1 \in [1 .. 6 -> {Rebase(96, 0), Plain}]}

\* Addends 0 .. 7, as 0 .. 255.
AddendImages ==
  {Image(Payload(200, 28, IMPORT,
           <<NoChains, NoChains, DataStarts(<<Bind(0, a), Bind(2, b), Plain, Plain>>, S2,
                                            PageSize, FirstPage)>>), Segs(TRUE)) :
     a, b \in 0 .. 7}

\* Pointers with a top byte.
HighImages ==
  {Image(Payload(200, 28, IMPORT,
           <<NoChains, NoChains, DataStarts(<<Rebase(96, a), Rebase(64, b), Plain, Plain>>, S2,
                                            PageSize, FirstPage)>>), Segs(TRUE)) :
     a, b \in 0 .. 3}

\* The two wider import tables.
ImportImages ==
  {Image(Payload(200, 28, f,
           <<NoChains, NoChains, DataStarts(<<Bind(a, 0), Bind(b, 0), Plain, Plain>>, S2,
                                            PageSize, FirstPage)>>), Segs(TRUE)) :
     f \in {IMPORT_ADDEND, IMPORT_ADDEND64}, a, b \in 0 .. 2}
=============================================================================
