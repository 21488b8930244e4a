------------------------------ MODULE Resolver ------------------------------
(***************************************************************************)
(* resolve_macho_import_symbol (bind.c): the function of the host a chained*)
(* bind gets for the name of an import.  Functions of the loader's own     *)
(* stand before the host's; the handles of libc and libm are kept from     *)
(* call to call.                                                           *)
(***************************************************************************)
EXTENDS Integers, Sequences, FiniteSets

CONSTANTS
  MachoNames,   \* the names of imports
  NoName,       \* the NULL pointer
  Stems,        \* what is left of them without underscores and suffix
  Cut,          \* what 255 characters leave of a stem
  Addresses,    \* of functions
  Shim,         \* the functions and variables the resolver has of its own
  HostMmap,     \* the address of host_mmap_for_darwin
  Guard,        \* the address of guard
  Hosts         \* the libraries and the default scope of the host

Null == 0

(* A name: its underscores in front, its stem, and whether a Darwin suffix  *)
(* ($DARWIN_EXTSN) follows.  The host's names have no suffix.               *)
MachoName == [score : 0 .. 3, stem : Stems, suffix : BOOLEAN]
HostName == [score : 0 .. 2, stem : Stems]
Table == [HostName -> Addresses \cup {Null}]

Named(n, stem) == [score |-> n, stem |-> stem]

(* The names with an answer of the loader's own, as normalised. *)
ShimNames ==
  {Named(1, "NSGetEnviron"), Named(2, "NSGetEnviron"), Named(2, "error"),
   Named(2, "stack_chk_guard"), Named(2, "stdinp"), Named(2, "stdoutp"), Named(2, "stderrp"),
   Named(2, "chkstk_darwin"), Named(2, "darwin_check_fd_set_overflow"),
   Named(0, "memset_pattern16"), Named(0, "h_errno"), Named(0, "atexit")}

ASSUME NamesAssumption ==
  /\ MachoNames \subseteq MachoName
  /\ NoName \notin MachoNames
  /\ Cut \in [Stems -> Stems]

ASSUME FunctionsAssumption ==
  /\ Null \notin Addresses
  /\ Shim \in [ShimNames -> Addresses]
  /\ HostMmap \in Addresses /\ Guard \in Addresses

\* libs: the libraries dlopen finds; exe: the scope the loader itself runs in.
ASSUME HostsAssumption ==
  \A h \in Hosts : /\ h.exe \in Table
                   /\ \A l \in DOMAIN h.libs : h.libs[l] \in Table

VARIABLES
  host,
  libc_handle, libm_handle,   \* open or not
  answer        \* history: the name asked for last, what was answered, and whether
                \* dlopen failed on the way for a library that is there

handles == <<libc_handle, libm_handle>>
resolver_vars == <<host, handles, answer>>

----------------------------------------------------------------------------
(* A bug the runs must find: every underscore is dropped. *)
normalize_AllUnderscores(name) == Named(0, Cut[name.stem])

(* normalize_macho_symbol_name: one underscore and the suffix are dropped,  *)
(* and all but 255 characters.                                              *)
normalize_macho_symbol_name(name) ==
  Named(IF name.score = 0 THEN 0 ELSE name.score - 1, Cut[name.stem])

IsShim(name) == normalize_macho_symbol_name(name) \in ShimNames

Has(l) == l \in DOMAIN host.libs

(* A bug the runs must find: a library that is missing counts as opened. *)
Opened_Missing(l, handle) == {TRUE}

(* A handle once open is kept, and while there is none dlopen is called     *)
(* again: it fails for a library that is missing, and can for one that is.  *)
Opened(l, handle) ==
  CASE handle            -> {TRUE}
    [] ~handle /\ Has(l) -> BOOLEAN
    [] OTHER             -> {FALSE}

open_host_libc == libc_handle' \in Opened("libc.so.6", libc_handle)
open_host_libm == libm_handle' \in Opened("libm.so.6", libm_handle)

InLibrary(l, n) == IF Has(l) THEN host.libs[l][n] ELSE Null

(* dlsym in a library, when it was opened. *)
Found(l, handle, n) == IF handle THEN InLibrary(l, n) ELSE Null

Refused(l, handle) == Has(l) /\ ~handle

Answer(name, a, missed) == answer' = [name |-> name, function |-> a, missed |-> missed]

AnswerNoName ==
  /\ Answer(NoName, Null, FALSE)
  /\ UNCHANGED <<host, handles>>

AnswerShim(name) ==
  /\ IsShim(name)
  /\ Answer(name, Shim[normalize_macho_symbol_name(name)], FALSE)
  /\ UNCHANGED <<host, handles>>

LookInLibc(name) ==
  LET found == Found("libc.so.6", libc_handle', normalize_macho_symbol_name(name)) IN
  /\ ~IsShim(name)
  /\ open_host_libc
  /\ found # Null /\ Answer(name, found, FALSE)
  /\ UNCHANGED <<host, libm_handle>>

Missed == Refused("libc.so.6", libc_handle') \/ Refused("libm.so.6", libm_handle')

(* Not in libc, or libc not opened. *)
PastLibc(name) ==
  /\ ~IsShim(name)
  /\ open_host_libc
  /\ Found("libc.so.6", libc_handle', normalize_macho_symbol_name(name)) = Null
  /\ open_host_libm
  /\ UNCHANGED host

LookInLibm(name) ==
  LET found == Found("libm.so.6", libm_handle', normalize_macho_symbol_name(name)) IN
  /\ PastLibc(name)
  /\ found # Null /\ Answer(name, found, Missed)

(* A bug the runs must find: the default scope is not asked without libm. *)
LookInDefault_NeedsLibm(name) ==
  LET n == normalize_macho_symbol_name(name) IN
  /\ PastLibc(name)
  /\ Found("libm.so.6", libm_handle', n) = Null
  /\ Answer(name, IF libm_handle' THEN host.exe[n] ELSE Null, Missed)

(* After libm, or without it, RTLD_DEFAULT: the loader's own scope, for the *)
(* libraries opened RTLD_GLOBAL were asked already.                         *)
LookInDefault(name) ==
  LET n == normalize_macho_symbol_name(name) IN
  /\ PastLibc(name)
  /\ Found("libm.so.6", libm_handle', n) = Null
  /\ Answer(name, host.exe[n], Missed)

ResolverNext ==
  \/ AnswerNoName
  \/ \E name \in MachoNames :
       AnswerShim(name) \/ LookInLibc(name) \/ LookInLibm(name) \/ LookInDefault(name)

ResolverInit ==
  /\ host \in Hosts
  /\ libc_handle = FALSE /\ libm_handle = FALSE
  /\ answer = [name |-> NoName, function |-> Null, missed |-> FALSE]

----------------------------------------------------------------------------
ResolverTypeOK ==
  /\ host \in Hosts
  /\ libc_handle \in BOOLEAN /\ (libc_handle => Has("libc.so.6"))
  /\ libm_handle \in BOOLEAN /\ (libm_handle => Has("libm.so.6"))
  /\ answer \in [name : MachoNames \cup {NoName}, function : Addresses \cup {Null},
                missed : BOOLEAN]

(* The function a name stands for on this host, whatever was asked before.  *)
Meaning(name) ==
  LET n == normalize_macho_symbol_name(name) IN
  CASE IsShim(name) -> Shim[n]
    [] ~IsShim(name) /\ InLibrary("libc.so.6", n) # Null -> InLibrary("libc.so.6", n)
    [] ~IsShim(name) /\ InLibrary("libc.so.6", n) = Null /\ InLibrary("libm.so.6", n) # Null ->
         InLibrary("libm.so.6", n)
    [] OTHER -> host.exe[n]

(* The two kept handles do not show, nor what was asked before: a call in   *)
(* which dlopen refused no library that is there gives a name the function  *)
(* it stands for, also after calls in which dlopen did; so that the         *)
(* resolver is a function of the name, as the chained fixups use it.        *)
AnswersAreMeanings ==
  answer.name # NoName /\ ~answer.missed => answer.function = Meaning(answer.name)

(* The name do_bind looks up: one underscore is dropped, and no suffix.     *)
BindName(name) == Named(IF name.score = 0 THEN 0 ELSE name.score - 1, name.stem)

(* What do_bind stores for a name of a program that names no library: the   *)
(* answer of the last of the two default libraries that has it.             *)
BoundTo(name) ==
  LET n == BindName(name)
      At(l) == IF name.suffix THEN Null ELSE InLibrary(l, n)
  IN  CASE n = Named(0, "mmap") /\ ~name.suffix -> HostMmap
        [] n = Named(2, "stack_chk_guard") /\ ~name.suffix -> Guard
        [] OTHER -> IF At("libm.so.6") # Null THEN At("libm.so.6") ELSE At("libc.so.6")

(* What only one of the two paths knows: suffixes, the loader's functions,  *)
(* the wrapper of mmap, and a buffer of 256 bytes.                          *)
Plain(name) ==
  /\ ~name.suffix /\ ~IsShim(name) /\ BindName(name) # Named(0, "mmap")
  /\ Cut[name.stem] = name.stem

(* libc and libm have one function under a name, in one of them or both. *)
OneVersion(n) ==
  \E f \in Addresses : {InLibrary("libc.so.6", n), InLibrary("libm.so.6", n)} \in {{f}, {f, Null}}

(* The chained fixups and do_bind look for a name in the two libraries in   *)
(* opposite orders; where it has one version they bind the same function.   *)
PathsAgree ==
  /\ answer.name # NoName /\ ~answer.missed
  /\ Plain(answer.name) /\ OneVersion(BindName(answer.name))
  => answer.function = BoundTo(answer.name)
=============================================================================
