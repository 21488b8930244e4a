------------------------------ MODULE Imports ------------------------------
(***************************************************************************)
(* The imports of a program, up to their calls: names are asked for while  *)
(* the chained fixups are gone over, or bound by do_bind; then the program *)
(* is entered, and what it calls through an import is a shim of bind.c     *)
(* where the import was bound to one.  One import is followed.             *)
(***************************************************************************)
EXTENDS Resolver, Shims

VARIABLE import   \* the one the running program calls through: its name and its function

NoImport == [name |-> NoName, function |-> Null]

imports_vars == <<resolver_vars, shims_vars, import>>

Running == import # NoImport

----------------------------------------------------------------------------
(* dump_chained_fixups asks for one import after the other. *)
Resolve ==
  /\ ~Running
  /\ ResolverNext
  /\ UNCHANGED <<shims_vars, import>>

(* The program is entered with an import the chained fixups bound, the last *)
(* they asked for, without an addend.                                       *)
EnterChained ==
  /\ ~Running
  /\ answer.name # NoName
  /\ import' = [name |-> answer.name, function |-> answer.function]
  /\ UNCHANGED <<resolver_vars, shims_vars>>

(* The program is entered with an import do_bind bound; it has no chained   *)
(* fixups.                                                                  *)
EnterBound(name) ==
  /\ ~Running
  /\ answer.name = NoName
  /\ import' = [name |-> name, function |-> BoundTo(name)]
  /\ UNCHANGED <<resolver_vars, shims_vars>>

MemsetPattern16 == Shim[Named(0, "memset_pattern16")]

CallShim ==
  /\ Running
  /\ \/ import.function = HostMmap /\ MmapCalls
     \/ import.function = MemsetPattern16 /\ MemsetCalls
  /\ UNCHANGED <<resolver_vars, import>>

RunMemset == MemsetStep /\ UNCHANGED <<resolver_vars, import>>

(* A call of anything else, or through an import no function was found for  *)
(* (Null here; its word is left as the file has it), is outside, as is what *)
(* follows the one call of memset_pattern16.                                *)
Outside ==
  /\ Running
  /\ import.function \notin {HostMmap, MemsetPattern16} \/ spc = "done"
  /\ UNCHANGED imports_vars

ImportsNext ==
  \/ Resolve \/ EnterChained
  \/ \E name \in MachoNames : EnterBound(name)
  \/ CallShim \/ RunMemset \/ Outside

ImportsInit == ResolverInit /\ ShimsInit /\ import = NoImport

(* A call of memset_pattern16 that has begun is carried out; whether a name *)
(* is asked for, the program entered or a call made is up to the file.      *)
ImportsSpec == ImportsInit /\ [][ImportsNext]_imports_vars /\ WF_imports_vars(RunMemset)

----------------------------------------------------------------------------
(* An import of mmap is called through the wrapper that knows Darwin's      *)
(* flags.  do_bind sees to that (bind.c:313); the resolver of the chained   *)
(* fixups has no such name and gives it the mmap of the host.               *)
MmapIsWrapped ==
  Running /\ normalize_macho_symbol_name(import.name) = Named(0, "mmap") =>
    import.function = HostMmap
=============================================================================
