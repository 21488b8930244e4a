----------------------------- MODULE MCImports -----------------------------
(***************************************************************************)
(* Small hosts to resolve names on: a library missing, one function under  *)
(* two libraries, two functions under one name, functions of the scope of  *)
(* the loader itself.  A program with a memory of nine bytes, all          *)
(* different, and a pattern of three: the pattern before, behind and in    *)
(* every way across what is filled.                                        *)
(***************************************************************************)
EXTENDS Imports, TLC

\* "longname" and "long" stand for a stem of more than 255 characters, cut.
MCStems == {"NSGetEnviron", "error", "stack_chk_guard", "stdinp", "stdoutp", "stderrp",
            "chkstk_darwin", "darwin_check_fd_set_overflow", "memset_pattern16", "h_errno",
            "atexit", "mmap", "sin", "exit", "puts", "longname", "long"}
MCCut == [s \in MCStems |-> IF s = "longname" THEN "long" ELSE s]

Import(n, stem, suffix) == [score |-> n, stem |-> stem, suffix |-> suffix]

MCMachoNames ==
  {Import(1, "sin", FALSE), Import(0, "sin", FALSE), Import(1, "puts", TRUE),
   Import(1, "mmap", FALSE), Import(1, "longname", FALSE), Import(1, "memset_pattern16", FALSE),
   Import(2, "exit", FALSE), Import(2, "error", FALSE), Import(3, "error", FALSE)}

MCShim == [n \in ShimNames |-> IF n = Named(0, "memset_pattern16") THEN 93 ELSE 90]
MCAddresses == 1 .. 10 \cup {90, 91, 92, 93}

TableOf(has) == [n \in HostName |-> IF n \in DOMAIN has THEN has[n] ELSE Null]
Entry(n, stem, f) == Named(n, stem) :> f

LibcTables ==
  {TableOf(Entry(0, "puts", 1) @@ Entry(0, "mmap", 2) @@ Entry(1, "exit", 3) @@ Entry(0, "exit", 4)
           @@ Entry(0, "long", 5)),
   TableOf(Entry(0, "puts", 1) @@ Entry(1, "error", 6) @@ Entry(0, "sin", 7))}
LibmTables ==
  {TableOf(Entry(0, "sin", 7)), TableOf(Entry(0, "sin", 8) @@ Entry(1, "exit", 3))}
ExeTables == {TableOf(Entry(0, "sin", 9) @@ Entry(1, "exit", 10)), TableOf(Entry(0, "puts", 1))}

MCHosts ==
  [exe : ExeTables,
   libs : {<< >>} \cup {"libc.so.6" :> c : c \in LibcTables} \cup {"libm.so.6" :> m : m \in LibmTables}
          \cup {"libc.so.6" :> c @@ "libm.so.6" :> m : c \in LibcTables, m \in LibmTables}]

MCMemories == {[a \in 0 .. 8 |-> 100 + a]}

\* MAP_SHARED, MAP_PRIVATE and MAP_FIXED, which the two systems share, and
\* three that mean something else on the host: Darwin's MAP_RENAME is the
\* host's MAP_ANONYMOUS.
MCFlags == {1, 2, 16, 32, 64, 2048}
=============================================================================
