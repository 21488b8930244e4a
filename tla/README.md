# maloader in TLA+

maloader loads a Mach-O executable into a Linux process and jumps into it. This
directory models the loader, checks the models with TLC and proves with TLAPS, for
every file a linker can have made, every host and every order of failures, all that
the runs check but for termination: of the chained fixups, the bind opcodes, both
loaders, `do_bind`, the resolver, the shims and `main`. The code is `src/main.c` and
`src/bind.c`; `src/machctrl.h` declares the one structure, `mach_context`, through which
its parts talk to each other.

## The system

The program is one thread and a sequence of procedures. What is hard in it is
neither concurrency nor messages: it is that every part reads state an earlier part
may or may not have established, that each part carries on after a failure, and that
the chained fixups are linked through the memory they overwrite.

| Part | Code | State | Operations | What makes it correct |
|---|---|---|---|---|
| main | main.c 27-61, 874-940 | the whole context, argc/argv | open and map the file, choose the loader by magic, check, `do_bind`, enter | a program that is entered was loaded; each check has a consequence |
| 64-bit load commands | main.c 619-758, 290-307 | `ptr`, `c_load_command`, `entry_point`, `d_list` | one branch per kind of load command | `ptr` is always at a command; the entry point is `_main` where it was loaded |
| segment mapping | main.c 95-161, 213-277 | `img_addr`, `v_addr`, `segments`, the memory | reserve the image once, copy a segment, record it | what the table gives an address is at that address, whole; nothing is written outside the mapping |
| chained fixups | main.c 368-617, bind.c 243-272 | the memory, three counters | walk segments, pages and chains; rebase or bind each word | each linked word is rewritten exactly once, to what the format asks for; nothing else is touched |
| bind opcodes | main.c 660-681, bind.c 349-515 | `b_list` | interpret the bind and lazy-bind streams | the list is the linker's list of binds |
| do_bind | bind.c 279-347 | the memory, `d_list` | for each library and bind, look up and store | a bind the host can satisfy is satisfied, from the right library |
| symbol resolver | bind.c 61-241 | library handles | normalise a name, shims, libc, libm, default scope | the shims win over the host's symbols |
| 32-bit loader | main.c 163-211, 760-872 | the same context | map `__TEXT`, copy the head of the file, record segments, collect binds | what the table, the binds and the entry say agrees with the head that was copied |
| shims | bind.c 33-99 | the loaded program's memory | called by the loaded program, through the imports that were bound to them | as the Darwin functions |

They interact by calls and through the context. `main` calls `loader_64`, then
`do_bind`, then the program. `loader_64` calls `load_segment_64` for each segment
command, and the two interpreters inside the command that asks for them; they run
over whatever the earlier commands have loaded. The chained fixups and `do_bind` ask
the resolver or `dlsym` for host addresses. The environment is the file, `mmap`, which
may fail or put the image at another base, and the host's libraries, which may not
have a symbol.

The behaviours that are hard to test:

- **Partial failure.** The result of `ensure_image_mapping_64` is dropped, and the
  next segment tries `mmap` again: after a transient failure the earlier segments
  stay uncopied beside later ones that are there. All checks of `main` only print.
- **Order of load commands.** Fixups, binds and the entry point use the segments
  loaded so far. An order a linker does not write loses pointers without an error.
- **Reading what is being rewritten.** A chain's next word is found from the word
  about to be overwritten; a second visit would rebase a rebased pointer.
- **Limits.** 32 segments in the table, 512 words of a chain.
- **Encodings.** Field widths and signs, strides of tables, distances that go
  backwards by wrapping around 2^64, registers that carry over between opcodes, operands
  that are read and not used.
- **What was kept from an earlier call.** The resolver keeps the handles of two
  libraries; `dlopen` may fail for one name and not for the next.
- **Two ways to bind.** Chained fixups and bind opcodes look a name up in different
  places, in different orders.
- **Two walks over one list.** `ensure_image_mapping_64` moves by `cmdsize`,
  `loader_64` over a segment by the structures it reads.

`PROJECT.json` lists them one by one at their lines, with the properties that cover
each.

## Modules

| Module | Models |
|---|---|
| `MachO` | the words and payloads of the file: bit fields as the code extracts them and as `fixup-chains.h` declares them, what a linker guarantees (`WellLinked`), what the format asks for (`FormatValue`); the constants and their assumptions |
| `MachContext` | the shared part of `mach_context` and the memory: `img_addr`, `segments`, `mem`, `b_list`, `d_list` |
| `ChainedFixups` | `dump_chained_fixups`, `dump_chained_64_offset_entries`, `apply_chained_bind` |
| `BindOpcodes` | the `LC_DYLD_INFO` branch, `bind_list_retriever` and `read_uleb128`; what it is for two streams to encode a list of binds (`Encodes`) |
| `LoadCommands` | what a file is and the parts both loaders have: the header, the walk, the table of segments, `LC_SYMTAB`, `LC_LOAD_DYLIB`, the call of the bind opcodes |
| `Loader64` | `loader_64` with segment mapping; extends the three above and runs their steps inside its commands |
| `Loader32` | `loader` with `load_segment`; extends `Loader64` and has its own segments and its own end |
| `Binding` | `do_bind` |
| `Main` | `main`; extends `Loader32` (and with it `Loader64`) and `Binding` and runs one loader, then `do_bind`, over the one context |
| `Resolver` | `resolve_macho_import_symbol`, `normalize_macho_symbol_name`, the handles of libc and libm |
| `Shims` | `host_mmap_for_darwin` and `mal_memset_pattern16`, called by the loaded program |
| `Imports` | an import from the question for its name to its call; extends `Resolver` and `Shims` |
| `ImageLoading` | abstract: what the loader promises of the image |
| `Handoff` | abstract: what `main` promises of its stages |
| `ChainedFixupsProofs` | proofs: the types of the walk; it processes each word once, and declared words only |
| `FormatProofs` | proofs: the value each fixup gets, and the count of what was left |
| `BindOpcodesProofs` | proofs: the types of the interpreter, whatever bytes it reads; a ULEB128 is read as the number written; the list is the linker's list |
| `BindingProofs` | proofs: the types of `do_bind`, what each place holds, where it stores |
| `LoaderProofs` | proofs: both walks stay on the commands; types; the binds of both loaders; the head, the entry and the binds of a 32-bit file |
| `ImageProofs` | proofs: what `loader_64` puts in memory and where its binds are; `Loader64` implements `ImageLoading` |
| `MainProofs` | proofs: types; `Main` implements `Handoff`; what silence means; that each bind has a place to itself; what is entered |
| `HostProofs` | proofs: the resolver's answers; the memory the shims fill |
| `MCMachO` | short words and the linker's side of a chain, for the runs |
| `MCStreams` | the linker's side of a bind stream: instructions as bytes, and the account of a stream read back from its bytes |
| `MCChainedFixups`, `MCBindOpcodes`, `MCLoader64`, `MCLoader32`, `MCBinding`, `MCImports`, `MCMain` | the inputs of the runs |

### How state and actions correspond to the code

`mem` maps the address of each 64-bit word the loader has put in the image to its
value; an address without an entry reads 0, as in an anonymous mapping. Words are
naturals below `AddrMod`, and every sum of the code is taken modulo it. A file is a
sequence of load commands, each with its place, its size and what its offsets lead to;
a segment carries the words of its content by offset. `Resolve` is what
`resolve_macho_import_symbol` returns for each name, 0 for none; that it may be a
function is what `AnswersAreMeanings` of `Resolver` says.

*ChainedFixups.* `fpc` is where the two nested procedures are: `begin` (before the
header checks), `segment` (head of the segment loop), `page` (head of the page loop),
`chain` (about to read the word at `loc`), `return`. `BeginFixups` resets two counters
and makes the three header checks. `SkipSegment` stands for every reason a segment is
passed over: no chains, starts out of bounds, another pointer format, not in the
table, not mapped; `Walked` names the conditions. `SkipPage` is a page without fixups
or with several starts, `EnterPage` computes the first `loc`. One word of a chain is
one step: `ApplyRebase`, `ApplyBind`, or `LeaveBind` (bad ordinal or unknown name),
each ending in `Advance`, the `next` field read before the rewrite, the limit, and the
move to the next page. `visited` is a history variable. Only messages are left out.

*BindOpcodes.* A stream is a sequence of bytes and names, and `p` is the place in it. An
opcode and its immediate are the halves of a byte. `Uleb` reads the bytes up to the first
without its top bit, or to the end of the stream, and or-s their seven bits in at a shift
that is taken modulo `WordBits`, as the hosts' shift instructions take it. One opcode with
its operands is one step; the loop of `DO_BIND_ULEB_TIMES_SKIPPING_ULEB` takes one step
per bind (`BindOneOfTimes`), with `count` and `skip` its local variables. An opcode the
code does not know is one byte long, whatever operand follows. `targets` is a history
variable: the binds the linker put in. `BeginStream` and `EndStream` are the two calls for
the bind and the lazy-bind stream, which share nothing but the list.

The last part of the module, `Encodes`, says from `dyld_info_command` and the opcodes of
`loader.h` when streams stand for a list of binds: the linker keeps an account of each
opcode it writes (its place, its numbers, how many binds come before it and at what
offset), each number is some ULEB128 of its value (`IsUleb`), and each bind has the
symbol, the segment and the addend that were set last (`SymbolAt`, `SegmentAt`,
`AddendAt`) and the offset its opcode has come to. Its type is a pointer, the one type the
code knows. It has no recursion: an account says of each record what the next one
has to be. The library ordinal, the other column of the tuple of `loader.h:1403`, is not in
the account: it is `linked` of `Binding`. `SET_ADDEND_SLEB` is consumed like a ULEB and its
number dropped (bind.c:449-455), so an entry of `b_list` has no addend; `BindListMatches`
demands the addend of each target be 0 where the list is said to be the linker's, and is
false of any other stream (`MCBindAddend.cfg`). An offset moves by the host's pointer, 8 bytes, in 32-bit files too, since
that is how the code reads them.

*Loader64.* `ptr` is an offset in the file, and a command is found by it. `LoadSegment`
is the whole of `load_segment_64` with the advance behind it: `EnsureImageMapping`
(which may succeed at any base of `HostBases`, fail, or find the image mapped),
`CopySegment`, `RecordSegment`, `AfterSegment`. The comparison of `command.cmd & 0xFF`
with `LC_DYLD_INFO` covers the `_ONLY` form. `CallFixups`, `RunFixups`, `ReturnFixups`,
and the same for the binds, are a call, its body one step at a time, and the advance
behind it. All branches that only print, those of commands the code does not know included (a
library loaded weakly is one), are `PassCommand`.

*Loader32.* What is the same code in `loader` is the same action: `FindMain`,
`LoadDylib`, `CallBinds`, `RecordSegment`. `LoadText` maps `__TEXT` at any base of
`HostBases` and copies the first `HeadSize` bytes of the file (`CopyHead`), whatever
segment they belong to; `LoadOther` only records. A failed `mmap` is printed and the
copy then goes to `MAP_FAILED`; a short file ends the copy beyond what is mapped:
`CrashInText`. The size of the mapping, `alignMemory(filesize + 0x3000, 0x1000)`
(main.c:170), is left out: a store of `do_bind` beyond it succeeds here, where the process
may fault. Chained fixups are printed only, and `EndCommands32` returns -1, which
`main` passes over.

*Binding.* A host is a set of libraries that open, each with the address `dlsym` finds
in it for each name of the file; which of the file's names lose their underscore is
part of that function. `lib_i` and `bind_j` are the two loop variables, from 1.
`BeginBinding` appends the two default libraries; a turn of the outer loop is
`SkipLibrary` (not there) or `OpenLibrary` to `EndBinds`; a turn of the inner loop is
`PassUnfit`, `StoreSymbol` or `MissSymbol`, or `CrashUnnamed` for a bind collected before
any symbol name, whose `func_name` is NULL. `unbound` is a history variable, the memory
before `do_bind`; `linked`, also history, names the library the linker found each bind
in. The host keeps its libraries and their symbols while `do_bind` runs.

*Main.* A call without a file name ends at once. `OpenExec` ends the process for a file
with another magic, and otherwise its magic chooses the loader. `RunLoader` and
`RunBinding` are steps of `Loader64` or `Loader32`, and of `Binding`; between them `CheckLoaded` makes the
four checks, whose only effect is what they print, kept in `warnings`. `Enter` is the
call of `entry_point`, after which the process is the program's.

*Resolver.* A name is a record: how many underscores it begins with, its stem, whether
it has a `$` suffix; `normalize_macho_symbol_name` drops one underscore and the suffix
and cuts the stem to the buffer (`Cut`). One call is one step, by where it ends:
`AnswerNoName`, `AnswerShim`, `LookInLibc`, `LookInLibm`, `LookInDefault`. The two static
handles are `libc_handle` and `libm_handle`, kept from call to call; `dlopen` of a library
the host has may still fail (`Opened`), and `missed` remembers that the last call met
such a failure. `host.exe` is what the default scope has beyond the two libraries.

*Imports.* The program is followed through one import: names are asked for one after
the other (`Resolve`, a step of `Resolver`) until it is entered with the answer to the last
one (`EnterChained`), or it has no chained fixups and is entered with what `do_bind` stored
for a name (`EnterBound`, `BoundTo`). From then on `import` is the name and the function it
calls through: a shim of `Shims` if that is what was bound (`CallShim`, `RunMemset`),
anything else is `Outside`. So `memset_pattern16` is called only as an import the chained
fixups bound, and `host_mmap_for_darwin` only as one `do_bind` bound; that the other path
gives the program the bare `mmap` of the host is what `MmapIsWrapped` and
`MCMmapChained.cfg` show.

*Handoff.* Three stages. While the program is loaded, places to bind are collected and
kept; in the next stage memory changes at these places only, each time to a symbol some
library of the program has under that name; the program is entered when each place that
can be bound is. The refinement maps `stage` to `mpc`, `places` to the binds of `b_list`
behind the start of the image, and `symbols` to what the libraries of `d_list` and the
host's two have.

*Shims.* The memory is a function of byte places; `mal_memset_pattern16` stores one byte
per step, from a pattern that is in the same memory. A set of `mmap` flags is the set of
its bits. The wrapper translates `MAP_ANON` alone; every other bit of Darwin's goes to the
host as it is, whatever the host means by it: `MAP_RENAME` (0x20) is the host's
`MAP_ANONYMOUS`, and is among the flags of the run.

*ImageLoading.* The image gets one base; a part of the program is put in it once,
whole, where nothing is yet; a word that has a fixup changes once more, to what the
format asks for at that base; nothing else changes. It knows no order of commands, no
table and no cursor. The refinement maps `contents` to `mem` relative to `img_addr`
and `settled` to `visited`.

## Runs

| Run | Question | Result |
|---|---|---|
| `chained_fixups` | Over all mixes of five kinds of slots on a full page, three second pages, two bases, and 35 refused payloads: does the walk process each linked word once, leave the format's value, count what it left, write nowhere else, and return? | holds |
| `bind_opcodes` | Over the encodings of lists of binds without addends (some set an addend and set it back to 0), with runs, strides and distances both ways, with padded ULEBs, with lazy records, with a table that is cut short: does the list grow through the linker's binds in order? | holds |
| `loader64` | Over 18 executables in two dozen orders of commands and sizes of table, at both bases, with `mmap` failing any number of times: is what is recorded loaded, are the fixups of a segment all applied or none, is the entry point the word at `_main`, are writes in the mapping and binds on loaded words; does it implement `ImageLoading`? | holds |
| `do_bind` | For 36 hosts and 270 lists of binds and libraries: does each place at every moment hold what the last library that had its symbol gave, are other words left alone, a NULL place among them? | holds |
| `loader32` | Over 32-bit executables with data in the head of the file, across its end and behind it, in step with memory and not, in several orders: is exactly the head loaded, and do the table, the binds and the entry agree with it? | holds |
| `imports` | Over hosts with libc, libm, both or neither, a name in two libraries, a name that is cut, and `dlopen` failing for a while: does every sequence of calls give a name what it stands for, and what `do_bind` would where the two can agree? And in a program bound to a shim, over every place, length and overlap of a pattern in a small memory: is the range filled with the pattern as it was, and nothing else touched? | holds |
| `main` | Over the executables of both loaders, and some the host has every symbol for: is a program whose segments were all recorded entered with every word final, and if main was silent, inside its image with no pointer left encoded? Has each bind a place to itself? Does `main` implement `Handoff`? (The binds have no addends.) | holds |
| `addend` | Does the walk leave the format's value for every addend of 0 thru 255 (`fixup-chains.h:222`)? | violated |
| `rebase` | Are the pointers of an image with rebase opcodes moved to its base (`loader.h:1384`, `README.md:5`)? | violated |
| `bind_addend` | Is a word bound by the opcodes the symbol plus the addend of its bind (`loader.h:1403`)? | violated |
| `two_level` | Is a bind to the library its ordinal names (`loader.h:1403`)? | violated |
| `entry_of_main` | Is a program entered where `LC_MAIN` says (`loader.h:1605`)? | violated |

Eight more configurations are kept beside the runs, each of which leaves what the code
supports in one way and finds the property violated:

| Configuration | Module | Property | What it leaves |
|---|---|---|---|
| `MCLongPage.cfg` | `MCChainedFixups` | `FixupsMatchFormat` | a page of four times the size; `fixup-chains.h:61` allows 0x4000 |
| `MCHigh.cfg` | `MCChainedFixups` | `FixupsMatchFormat` | pointers with a top byte (`fixup-chains.h:165`) |
| `MCImport.cfg` | `MCChainedFixups` | `FixupsMatchFormat` | the wider import tables (`fixup-chains.h:44`) |
| `MCThreaded.cfg` | `MCBindOpcodes` | `BindListMatches` | a stream with `BIND_OPCODE_THREADED` and its operand (`loader.h:1532`) |
| `MCBindAddend.cfg` | `MCBindOpcodes` | `BindListMatches` | binds with an addend, which the list has no field for (`loader.h:1403`) |
| `MCMmapChained.cfg` | `MCImports` | `MmapIsWrapped` | an import of `mmap` bound by the chained fixups (bind.c:313 wraps `do_bind`'s only) |
| `MCLinkedAtZero.cfg` | `MCLoader64` | `SegmentsAreMapped` | an image linked at 0, whose segments are never copied (`loader.h:394`) |
| `MCWeakLibrary.cfg` | `MCLoader64` | `LibrariesAreListed` | a weakly loaded library, which `do_bind` never looks into (`loader.h:308`) |

`FixupsMatchFormat` is one property: `chained_fixups` shows it for images that stay
within what the loader implements, `addend` and the first three of these each leave that
in one way. So it is with `EnteredWhole`: `main` shows it of programs without addends of
binds, `bind_addend` of one that has them.

**Bounds.** `MCMachO` gives words of 20 bits with the fields in the real order; host
addresses stay below the `next` field, as user addresses stay below bit 51. `ChainLimit`
is 4 and a page holds four pointers, the ratio of 512 to a 0x1000 page, so the limit is
met exactly by a full page and exceeded by a larger one. `MaxSegments` is 4: the five
and six segment files overflow it, with a fixed-up segment on either side of the limit
(in `main` it is 5, so that files of both kinds, within it and beyond, reach the entry).
Two bases, the preferred one and another, tell slid from unslid. `HeadSize`
is 192, so that a segment of 128 bytes lies in the head, across its end or behind it.
The pattern of `Shims` has three bytes in a memory of nine, enough for every order of the
two ranges and every overlap, a whole pattern and a part of one. The resolver's hosts have
two functions for a name two libraries have, so that it shows which one was asked. Every loop
of the code runs zero, one and several times within them, and each branch of each handler
is taken. That the files are ones a linker makes is said by the predicates the theorems
assume, and TLC evaluates these on the files of the runs (`MCImagesSupported`,
`MCImagesEncoded`, `MCAddendsEncoded`, `MCFilesLinked`, `MCFiles32Linked`,
`MCMainFilesLinked`, `MCAddendFilesLinked`); the account
of a stream is read back from its bytes, not handed down from the encoder.

**Fairness.** The specifications have weak fairness of their step relation and nothing
else: the loader is one thread that nothing blocks, so it goes on while it can. In `Imports`
it is only that a call of `memset_pattern16` that has begun is carried out.
`FixupsReturn`, `BindsReturn`, `LoaderReturns`, `Loader32Returns`, `BindingReturns`,
`MemsetReturns` and `MainEnds` rest on
that; that `mmap` ever succeeds
is not assumed. The stuttering disjunct at the end of each next-state relation is the
procedure having returned or the process having ended, and deadlock is checked everywhere.

`AnswersAreMeanings` and `PathsAgree` speak of calls in which `dlopen` refused no
library that is there (`~missed`): it is what happened in earlier calls that must not
show. Of a call in which it did refuse one they say nothing. `PathsAgree` leaves out the
names only one of the two paths knows (`Plain`), and those that have two versions.
`HeadIsLoaded` says both what is there and what is not, so that it describes the
32-bit loader as it is and not as it should be; its file calls that loader not
implemented. It speaks of the segments that lie in memory as in the file (`InStep`).

`BindsHitLoadedWords` and `BindsFollowTable` say which binds get a NULL address, and so are
never stored: those whose segment has no address in the table or came behind the opcodes
(`NoBindDropped`). That these are lost is what the code does, and no property says it
should not. The termination of `loader`, `do_bind` and `main` counts a crash as an end.

`EnteredWhole` and `QuietMeansReady` have hypotheses, and they are the content: what
`main` prints is not enough to know that the image is whole. A segment reached while
`mmap` failed is passed over, and when a later segment's `mmap` succeeds nothing is
printed; hence `AllRecorded` in the one, and in the other the claim only about the
words the fixups went over. A bind no library has is left as the file has it, also in
silence: `IsFinal` allows it, as `BindsAreCurrent` does.

## Proofs

Every theorem holds for all values of the constants that meet the assumptions the modules
name, and for all behaviours, whatever `mmap`, `dlopen` and `dlsym` answer in them:

| Assumption | What it says |
|---|---|
| `WidthAssumption`, `WordBitsAssumption`, `LimitAssumption`, `ChainLimitAssumption`, `HeadSizeAssumption`, `HostPageAssumption` | sizes and limits are positive, a word has `WordBits` bits |
| `HostAssumption`, `HostsAssumption`, `FunctionsAssumption` | what a host can answer; its symbols, and the image, lie below the bind bit |
| `ImagesAssumption`, `FilesAssumption`, `BindImagesAssumption` | what a file is: its commands lie one behind the other, a segment command has the size of its sections, chains are linked as the format says, no two fixups share a place |
| `BindTasksAssumption`, `DylibsAssumption`, `NoNameAssumption`, `NamesAssumption`, `ShimsAssumption` | what the parts are called with |

What only a linker's file has, and not any file, is a hypothesis of the theorem that needs
it: `Linked` (segments apart and below the end of memory, `__TEXT` lowest, one payload of
fixups, each a word of its segment), `LinkedMain`
(one symbol table, whose `_main` is a word of `__TEXT` without a fixup), `SupportedFixups`
(the part of the chained-fixup format the code implements), `LinkedBinds` (one
`LC_DYLD_INFO` at most, whose streams encode its binds), `BindsInWords` (each bind is for
a word of its segment), `BindsApart` (no two binds are for one place, and a file that has
binds has no chained fixups, which replace them), `LinkedHead` and
`OneSymbolTable` for 32-bit files, `LinkedProgram`, which joins these for `main`, and
`NoAddends` and `WithoutAddends` (no bind has an addend other than 0), without which
`BindListMatches` and `EnteredWhole` are false. TLC
evaluates the assumptions and the hypotheses on the inputs of the runs.

### The chained fixups

`ChainedFixupsProofs` proves `FixupsTypeOK`, `EachPlaceOnce` and `RewritesDeclaredOnce`.
Neither of the last two is inductive. That a place is new when it is processed depends on
where the cursor is, and where it goes next depends on the word at the cursor still being
the one the linker wrote. `FixupsInv` therefore joins: the cursor is at a linked fixup of
a walked page, by its number in its chain (`CursorAtFixup`); every visited place belongs
to a fixup behind the cursor in the order of segments, pages and chains
(`VisitedBehind`); every fixup not visited still holds its encoded word
(`HeldUntilVisited`); and the counters count the visited set (`CountOK`). Distinct fixups
have distinct places (`OnePlaceEach`), so the one at the cursor is not among those behind
it; its word is intact, so `next` leads to the one after it (`AtFixup`). It speaks of the
segments that are walked only: inside `loader_64` those of a segment not mapped may be
written over by a later copy. The steps split in two: those that move the cursor and touch
no memory (`MoveKeepsInv`) and those that process a word (`ProcessKeepsInv`).

`FormatProofs` proves `FixupsMatchFormat` under `SupportedPayload`, by the converse of
`VisitedBehind`: every fixup behind the cursor of a page with a chain has been visited
(`BehindIsVisited`), and what has been visited holds what the format asks for
(`VisitedIsRight`); at the return everything is behind the cursor. Each condition of
`SupportedPayload` is needed: the run `addend` and the configurations `MCLongPage`,
`MCHigh` and `MCImport` drop one each, and TLC finds the property violated.

It also proves `UnresolvedAreLeft`: `main`'s warning counts the words that still hold an
encoded bind. The argument is arithmetic: a rebase stores `img_addr` plus a target, a bind
a host symbol plus a signed addend, and by `HostAssumption` both lie below the bind bit
(`RebaseIsNoBind`, `BoundIsNoBind`), so no processed word looks like a bind unless it was
left. Each step then adds to the count and to the set, or to neither.

### The loaders

`LoaderProofs` proves `PtrAtCommand` and `LoaderTypeOK` of both loaders. The inductive
`Walk(bits)` adds to the first which file is loaded, that nothing is counted before the
header, and that a call inside a command stands at a command; `SegmentsAreWhole` is where
the two ways of moving, by `cmdsize` and by the structures, meet. `Typed(bits)` carries
the type invariants of the two interpreters through the loader's own steps.

Of the 32-bit loader it proves `HeadIsLoaded` under `LinkedHead`, and `MainInHead` under
`OneSymbolTable` as well. In
`HeadInv` the memory is the head of the file and nothing else, and each entry of the table
is a segment's place plus the base; `LinkedHead` says that where the contents of two
segments overlap in the file they are the same. `EntryIsMain` says that once a symbol table
behind `__TEXT` has been passed, the entry point is its last `_main`, moved with the image.

The binds are collected by the same code in both loaders, and the argument is one.
`BindsInv` says that before the command of the opcodes nothing is collected; while the
interpreter runs, it follows the account of that command (`Follows`, below), for the table
as it is; and behind it each bind has the linker's name and is where the table says its
segment is, or nowhere if it had no address then (`BindsPlaced`). The step out of the interpreter is where the
second becomes the third: a number of a segment up to the length of the table is that of a
segment command passed (`NumberReached`, by the least command that reaches it), and an
entry, once there, stays (`EntriesStay`), so what was looked up then is what the table says
now. With what each loader's own invariant says of its entries (`TableSlid`) this gives
`BindsFollowTable` of the 32-bit loader here, under `LinkedHead` and `LinkedBinds`.

`ImageProofs` proves of `loader_64`, under `Linked`, that `RecordedIsLoaded`,
`WritesInMapping` and `UnresolvedAreLeft` always hold. `LoadInv` says of each word in
memory of which segment it is (`MemoryIsOfFile`), that it is as in the file unless a
fixup went over it (`MemoryIsAsInFile`), and of each entry of the table of which segment
it is. The difficult step is the copy of a segment after fixups have been applied: it lies
apart from all that was copied, so it covers none of them.

Under `SupportedFixups` it proves `FixupsAllOrNone`: `DoneInv` keeps of every payload
whose command has been passed that each of its segments was settled or not walked, from
`FormatInv` at the return of the walk. Under `LinkedMain`, `EntryInv` gives
`MainIsLoaded`: no fixup changes the word the entry is at.

`ImplementsImageLoadingHolds` is the refinement: every step of `Loader64` puts one part in
the image, settles one fixup, or is a stutter of `ImageLoading`. Addresses become offsets
by `Shift`, the first successful `mmap` is `MapImage`, the copy of a segment is `PutPart`,
of a word without a holder yet (`OneHolder`), and a step of the walk is `Fix`, with the
value from `VisitedIsRight`.

`BindsHitLoadedWords` joins `BindsInv` with `LoadInv`, under `LinkedBinds` and
`BindsInWords` too: a bind has an address only if its segment is recorded, which is only
when it was copied, and the bind is for one of its words.

### The bind opcodes and do_bind

`BindOpcodesProofs` proves `BindsTypeOK`, for streams of any bytes: registers stay in
range and the place is at most two items behind the end. What `read_uleb128` returns is a
recursive function of the bits it reads; that it is a word is proved by an induction the
module derives from well-foundedness (`LeastNatural`, `InductionUpTo`). So is `UlebDecodes`:
whatever number was written, with however many bytes of padding, is what is read, and the
cursor stops behind it. The bits of a septet never meet those of another, at a shift below
`WordBits` (`BitsOfUleb`), and a number is the sum of its bits (`NumberOfBits`).

`BindListMatchesHolds` then says that for streams of any length, in any opcodes, that give
no bind an addend, the list grows through the linker's binds in order and ends with all of them. `Follows` is the
invariant: between opcodes the cursor is at a record of the account, the registers hold
what was set last before it, and the list is as long as the record says
(`InAccount`, `BeforeOpcode`); inside the loop of `DO_BIND_ULEB_TIMES_SKIPPING_ULEB` they
stand so many strides behind the record (`InRun`). Each opcode moves from one record to the
next because its operands are read as they were written; all sums are modulo the word,
so that distances that go backwards by wrapping are no special case.

`BindingProofs` proves `BindingTypeOK`, `BindsAreCurrent` and `StoresAtBinds`.
`BindsAreCurrent` speaks of the libraries a bind has been `Through`, which differs for the
binds before and behind the inner loop's cursor; with the type invariant and `LibraryOpen`
(the inner loop runs over a library that opened) it is inductive. `HavingGrows` says what
one more library adds, `OthersStay` that the step of one bind leaves the others alone:
this is where the places have to differ (`PlacesDiffer`), which the property assumes.

### main

`MainProofs` proves, with no hypothesis on the file, `MainTypeOK` and that `Main`
implements `Handoff`, for the steps of both loaders and of `do_bind`. `LoadingInv` is what
the loaders keep (binds and libraries are only appended, the mapping is made once), and
`BindingStage` that each bind some library passed had a symbol for holds such a symbol,
of the libraries passed so far, also when two binds share a place; at the end of the outer
loop this is the condition of `Enter`.

`QuietMeansReadyHolds` joins what the parts promise when nothing was printed: the entry
point was found and is `_main` (`EntryFound`), the count was 0 so no visited word is a
bind (`Counted`), and `do_bind` stores host addresses, below the bind bit, so this stays
(`Quiet`).

`PlacesApartHolds` says that each bind has a place to itself. While a loader runs,
`Placed` is its `BindsInv`; from then on only `BindsPlaced` is kept, whose table, targets
and base no later step touches. Two binds at one place have targets at one address, since
both were moved by the same distance and lie below the end of memory (`SlidIsApart`), and
the linker has no two such (`BindsApart`); nor has it a fixup where it has a bind.

`EnteredWholeHolds` says what is in memory when the program is entered: after loading,
every word is as the file has it or as its fixup asks; `unbound` keeps that memory,
`do_bind` changes it at the binds' places only, and `BindsAreCurrent` says to what
(`WholeInv`). That a bind's place is no other bind's and no fixup's is `PlacesApart`, so
the theorem assumes nothing of the state. `IsFinal` asks for the symbol plus the addend of
the bind; the theorem is about programs `WithoutAddends`, whose words are their symbols
(`SymbolIsWhole`).

### The host

`HostProofs` is about `Imports`, a step of which is one of the resolver or of the shims, or
neither (`ImportsSteps`). It proves of the resolver, for every set of names, every host and every sequence
of calls, `ResolverTypeOK`, `AnswersAreMeanings` and `PathsAgree`. The type invariant,
that a kept handle is of a library that is there, carries the other two: an answer depends
on the handles after the opening, and these are of libraries that are there, unless
`dlopen` refused one in this very call.

Of the shims it proves `ShimsTypeOK` and `PatternRepeated`. In `ShimsInv` the bytes filled
so far repeat the pattern as it was before the call, where the pattern survives the
filling (`PatternSurvives`), and all other bytes are unchanged (`FilledSoFar`).

### Not proved

- Termination (`FixupsReturn`, `BindsReturn`, `LoaderReturns`, `Loader32Returns`,
  `BindingReturns`, `MemsetReturns`, `MainEnds`): liveness under fairness is beyond the
  prover here and stays with TLC.
- That every list of binds has streams and an account: this is about the encoders of
  `MCStreams`, which are recursive operators. TLC shows it of the lists of the runs.
- What the violated runs refute.

## Divergences from the documents

The five violated runs are disagreements between the code and the format's headers or
the repository's README, of which `PROJECT.json` quotes both sides; the eight further
configurations are others. They share a cause: the
loader implements the subset current toolchains emit for small programs, without
refusing what is outside of it.

## Plan

All modules of the table above are built, and each safety property and refinement that a
passing run checks is proved. What is left is to prove what `QuietMeansReady` leaves open:
which words of a program some segment of which was passed over are still encoded when it
is entered in silence.

## Not modelled

- The shims that return an address, a constant or the result of one call of the host
  (`atexit`, `errno`, `environ`, the check of an `fd_set`).
- Reads outside the file or outside a payload (offsets and counts of the file that
  lead elsewhere): files are ones a linker can have made. The payload sizes the code
  does check are modelled and exercised. What lies behind the end of a short file in the
  32-bit loader's copy is no word of it, and left out.
- The size of the 32-bit loader's mapping (main.c:170): a store of `do_bind` beyond it
  succeeds in the model.
- Binds of another type than a pointer (`BIND_TYPE_TEXT_ABSOLUTE32` and `_PCREL32`): the
  code drops the type, and the files of the model have none.
- Places of 32-bit pointers: `do_bind` stores 8 bytes for either kind of file, so the
  word behind a 32-bit place goes with it; places are 8 bytes apart in both models.
- Images that wrap around the end of the address space.
- Most of `loader.h`, `nlist.h`, `machine.h` and `vm_prot.h`: declarations the code
  never reads.
- What is printed, but for the warnings of `main`.
