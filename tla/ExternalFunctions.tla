------------------------- MODULE ExternalFunctions -------------------------
(***************************************************************************)
(* LOAD(), UNLOAD(), OPSYN() and calls of external functions: s_lod,       *)
(* b_efc and dffnc of the runtime (sbl.min) with sysld.c, sysul.c,         *)
(* sysex.c, syslinux.c (loadDll, loadef, unldef) and callef.c of osint.    *)
(*                                                                         *)
(* A function name holds a function block.  An EFBLK counts the names that *)
(* hold it (efuse) and points to an XNBLK (efcod), which is in the static  *)
(* region, keeps the handle of the library, and goes to a free list when   *)
(* the count drops to zero.  The heap is a set of EFBLKs: collecting one   *)
(* that nothing reaches returns nothing to the library or the free list.   *)
(***************************************************************************)
EXTENDS Integers, Sequences, FiniteSets

CONSTANTS
  Names,      (* The function and operator names of the program.           *)
  Protected,  (* The names of system functions, not to be redefined.       *)
  Blocks,     (* The places an EFBLK may have in the dynamic region.       *)
  Nodes,      (* The places an XNBLK may have in the static region.        *)
  Libs,       (* The libraries on disk.                                    *)
  Sigs,       (* Prototypes: eftar (a sequence of codes) and efrsl.        *)
  Undefined,  (* stndf, the undefined function.                            *)
  Internal,   (* Any function block that is not an EFBLK.                  *)
  None,       (* A null pointer.                                           *)
  MaxUse      (* Bound: use counts that refused definitions may reach.     *)

ASSUME ExternalFunctionsAssumption ==
  /\ Protected \subseteq Names /\ IsFiniteSet(Names)
  /\ Undefined \notin Blocks /\ Internal \notin Blocks
  /\ None \notin Nodes \cup Blocks
  /\ Sigs # {} /\ Sigs \subseteq [eftar : Seq(Nat), efrsl : Nat]
  /\ MaxUse \in Nat

String == 1   Integer == 2   Real == 3     (* The codes of eftar and efrsl. *)
MaxArg == 4                                (* EF_MAXARG                     *)

VARIABLES
  vrfnc,    (* The function block each name holds.                         *)
  heap,     (* The EFBLKs in the dynamic region.                           *)
  efuse,    (* Their use counts,                                           *)
  efcod,    (* XNBLKs, None when the function is not loaded,               *)
  sig,      (* and prototypes.                                             *)
  static,   (* The XNBLKs ever allocated.                                  *)
  xnfree,   (* The stack of free ones, linked through xnpfn.               *)
  xnhand,   (* The library handle in each XNBLK.                           *)
  refs,     (* External: the system's reference count of each library.     *)
  job,      (* The operation in progress: its step, the name and the block *)
            (* it works on, the library, the argument it has reached and   *)
            (* the argument copies that malloc gave it.                    *)
  refused   (* History: the XNBLKs whose block dffnc counted for a name    *)
            (* that error 248 then refused to redefine.                    *)

vars == <<vrfnc, heap, efuse, efcod, sig, static, xnfree, xnhand, refs, job,
          refused>>
tables == <<vrfnc, heap, efuse, efcod, sig, static, xnfree, xnhand, refs,
            refused>>

Steps == {"idle", "load", "node", "define", "convert", "marshal", "invoke",
          "box", "copied"}
Idle == [at |-> "idle", name |-> None, block |-> None, lib |-> None,
         arg |-> 1, copies |-> {}, alias |-> 0]

InUse == {vrfnc[n] : n \in Names} \cup {job.block}
Free == {xnfree[i] : i \in DOMAIN xnfree}

IsExternal(b) == b \in Blocks

(***************************************************************************)
(* s_lod: the prototype is scanned, an EFBLK allocated, the library found  *)
(* by sysld, and the name defined.                                         *)
(***************************************************************************)
BeginLoad(n, l, s, b) ==
  /\ job.at = "idle" /\ b \notin heap
  /\ xnfree # <<>> \/ static # Nodes    (* Bound: XNBLKs are left for it. *)
  /\ heap' = heap \cup {b}
  /\ efuse' = [efuse EXCEPT ![b] = 0]
  /\ efcod' = [efcod EXCEPT ![b] = None]
  /\ sig' = [sig EXCEPT ![b] = s]
  /\ job' = [Idle EXCEPT !.at = "load", !.name = n, !.block = b, !.lib = l]
  /\ UNCHANGED <<vrfnc, static, xnfree, xnhand, refs, refused>>

(* loadDll: no such library, or no such function in it (the library is     *)
(* freed again): error 142.                                                *)
LoadMissing ==
  /\ job.at = "load"
  /\ job' = Idle /\ UNCHANGED tables

LoadDll ==
  /\ job.at = "load"
  /\ refs' = [refs EXCEPT ![job.lib] = @ + 1]
  /\ job' = [job EXCEPT !.at = "node"]
  /\ UNCHANGED <<vrfnc, heap, efuse, efcod, sig, static, xnfree, xnhand,
                 refused>>

(* loadef: take a free XNBLK, or allocate one from the static region; the  *)
(* EFBLK gets it when sysld returns.                                       *)
FillNode(k) ==
  /\ xnhand' = [xnhand EXCEPT ![k] = job.lib]
  /\ efcod' = [efcod EXCEPT ![job.block] = k]
  /\ job' = [job EXCEPT !.at = "define"]
  /\ UNCHANGED <<vrfnc, heap, efuse, sig, refs, refused>>

LoadEfFree ==
  /\ job.at = "node" /\ xnfree # <<>>
  /\ xnfree' = Tail(xnfree)
  /\ FillNode(Head(xnfree))
  /\ UNCHANGED static

LoadEfNew(k) ==
  /\ job.at = "node" /\ xnfree = <<>> /\ k \notin static
  /\ static' = static \cup {k}
  /\ FillNode(k)
  /\ UNCHANGED xnfree

(***************************************************************************)
(* dffnc: count the use of the new block, uncount that of the old one,     *)
(* unload the old one when it has no use left, and only then see whether   *)
(* the name may be redefined.                                              *)
(***************************************************************************)
Counted(new) == IF IsExternal(new) THEN [efuse EXCEPT ![new] = @ + 1] ELSE efuse

(* Mutant: the block has no use left, whoever else holds it. *)
UncountedAll(count, old) ==
  IF IsExternal(old) THEN [count EXCEPT ![old] = 0] ELSE count

(* Mutant: the use count only grows. *)
UncountedNot(count, old) == count

Uncounted(count, old) ==
  IF IsExternal(old) THEN [count EXCEPT ![old] = @ - 1] ELSE count

(* Mutant: the XNBLK is not put on the free list. *)
UnloadUnlinked(b) ==
  /\ efcod' = [efcod EXCEPT ![b] = None]
  /\ refs' = [refs EXCEPT ![xnhand[efcod[b]]] = @ - 1]
  /\ xnfree' = xnfree

(* unldef, called through sysul. *)
Unload(b) ==
  /\ efcod' = [efcod EXCEPT ![b] = None]
  /\ refs' = [refs EXCEPT ![xnhand[efcod[b]]] = @ - 1]
  /\ xnfree' = <<efcod[b]>> \o xnfree

Define(n, new) ==
  LET old == vrfnc[n] IN
  /\ n \in Protected /\ IsExternal(new) => efuse[new] < MaxUse     (* Bound *)
  /\ efuse' = Uncounted(Counted(new), old)
  /\ IF IsExternal(old) /\ efuse'[old] = 0 /\ efcod[old] # None
     THEN Unload(old)
     ELSE UNCHANGED <<efcod, refs, xnfree>>
  /\ vrfnc' = IF n \in Protected THEN vrfnc ELSE [vrfnc EXCEPT ![n] = new]
  /\ refused' = IF n \in Protected /\ IsExternal(new)
                THEN refused \cup {efcod[new]} ELSE refused
  /\ job' = Idle
  /\ UNCHANGED <<heap, sig, static, xnhand>>

EndLoad == job.at = "define" /\ Define(job.name, job.block)

(* s_ops (the new meaning of n is that of m), s_unl and s_def. *)
Opsyn(n, m)      == job.at = "idle" /\ Define(n, vrfnc[m])
UnloadName(n)    == job.at = "idle" /\ Define(n, Undefined)
DefineProgram(n) == job.at = "idle" /\ Define(n, Internal)

(***************************************************************************)
(* b_efc, sysex and callef: convert the arguments (an error ends the       *)
(* call), copy the strings, call, and make a block of the result.          *)
(***************************************************************************)
Call(n) ==
  /\ job.at = "idle" /\ IsExternal(vrfnc[n])
  /\ job' = [Idle EXCEPT !.at = "convert", !.name = n, !.block = vrfnc[n]]
  /\ UNCHANGED tables

ConvertFails == job.at = "convert" /\ job' = Idle /\ UNCHANGED tables

(* More than EF_MAXARG arguments are refused before anything is copied. *)
Convert ==
  /\ job.at = "convert"
  /\ job' = IF Len(sig[job.block].eftar) > MaxArg THEN Idle
            ELSE [job EXCEPT !.at = "marshal"]
  /\ UNCHANGED tables

Args == sig[job.block].eftar
Result == sig[job.block].efrsl

(* Mutant: the loop stops one short. *)
FreeArgsButLast(copies) == copies \ 1..(MaxArg - 1)

(* ef_freeargs: free every copy. *)
FreeArgs(copies) == copies \ 1..MaxArg
Return == [Idle EXCEPT !.copies = FreeArgs(job.copies)]

MarshalString(ok) ==
  /\ job.at = "marshal" /\ job.arg <= Len(Args) /\ Args[job.arg] = String
  /\ job' = IF ok THEN [job EXCEPT !.copies = @ \cup {job.arg}, !.arg = @ + 1]
                  ELSE Return                                       (* -1 *)
  /\ UNCHANGED tables

MarshalValue ==
  /\ job.at = "marshal" /\ job.arg <= Len(Args) /\ Args[job.arg] # String
  /\ job' = [job EXCEPT !.arg = @ + 1]
  /\ UNCHANGED tables

(* EF_CALL.  A string result may be one of the copies.  Numbers are in     *)
(* registers, so their copies go at once; an unsupported result makes no   *)
(* call at all.                                                            *)
Invoke(alias) ==
  /\ job.at = "marshal" /\ job.arg > Len(Args)
  /\ alias \in (IF Result = String THEN job.copies ELSE {}) \cup {0}
  /\ job' = CASE Result \in {Integer, Real} ->
                  [job EXCEPT !.at = "box", !.copies = FreeArgs(@)]
              [] Result = String -> [job EXCEPT !.at = "box", !.alias = alias]
              [] OTHER -> Return                                    (* -2 *)
  /\ UNCHANGED tables

(* ef_alloc and the copy of the result into the block it returns. *)
Box ==
  /\ job.at = "box"
  /\ job' = [job EXCEPT !.at = "copied"]
  /\ UNCHANGED tables

EndCall ==
  /\ job.at = "copied"
  /\ job' = Return
  /\ UNCHANGED tables

(* A garbage collection, at any allocation of the runtime: an EFBLK stays  *)
(* when a name or the operation in progress holds it.                      *)
Collect ==
  /\ heap' = heap \cap InUse
  /\ heap' # heap
  /\ UNCHANGED <<vrfnc, efuse, efcod, sig, static, xnfree, xnhand, refs, job,
                 refused>>

Init ==
  /\ vrfnc = [n \in Names |-> IF n \in Protected THEN Internal ELSE Undefined]
  /\ heap = {} /\ static = {} /\ xnfree = <<>> /\ refused = {}
  /\ efuse = [b \in Blocks |-> 0]
  /\ efcod = [b \in Blocks |-> None]
  /\ sig = [b \in Blocks |-> CHOOSE s \in Sigs : TRUE]
  /\ xnhand = [k \in Nodes |-> None]
  /\ refs = [l \in Libs |-> 0]
  /\ job = Idle

EFNext ==
  \/ \E n \in Names, l \in Libs, s \in Sigs, b \in Blocks : BeginLoad(n, l, s, b)
  \/ LoadMissing \/ LoadDll \/ LoadEfFree \/ \E k \in Nodes : LoadEfNew(k)
  \/ EndLoad
  \/ \E n, m \in Names : Opsyn(n, m)
  \/ \E n \in Names : UnloadName(n) \/ DefineProgram(n) \/ Call(n)
  \/ ConvertFails \/ Convert
  \/ \E ok \in BOOLEAN : MarshalString(ok)
  \/ MarshalValue
  \/ \E alias \in 0..MaxArg : Invoke(alias)
  \/ Box \/ EndCall \/ Collect

EFSpec == Init /\ [][EFNext]_vars

-----------------------------------------------------------------------------
Jobs == [at : Steps, name : Names \cup {None}, block : Blocks \cup {None},
         lib : Libs \cup {None}, arg : Nat, copies : SUBSET Nat, alias : 0..MaxArg]

(* Type correctness of the tables and of the operation in progress. *)
TypeOK ==
  /\ vrfnc \in [Names -> Blocks \cup {Undefined, Internal}]
  /\ heap \subseteq Blocks
  /\ efuse \in [Blocks -> Int]
  /\ efcod \in [Blocks -> Nodes \cup {None}]
  /\ sig \in [Blocks -> Sigs]
  /\ static \subseteq Nodes /\ xnfree \in Seq(static)
  /\ xnhand \in [Nodes -> Libs \cup {None}]
  /\ refs \in [Libs -> Int]
  /\ job \in Jobs
  /\ refused \subseteq Nodes

(* A function that a name holds, or that is being called, is in the heap,  *)
(* and its code is loaded: callef follows efcod without looking.           *)
Callable(b) == b \in heap /\ efcod[b] \in Nodes /\ efcod[b] \notin Free

LoadedWhenCalled ==
  /\ \A n \in Names : IsExternal(vrfnc[n]) => Callable(vrfnc[n])
  /\ job.at \in {"convert", "marshal", "box", "copied"} => Callable(job.block)

(* A function counts at least the names that hold it, and exactly those    *)
(* unless error 248 ended a definition of a system function by it.         *)
Holders(b) == {n \in Names : vrfnc[n] = b}

UseCounts ==
  \A b \in heap :
    /\ efuse[b] >= Cardinality(Holders(b))
    /\ efcod[b] \in Nodes \ refused => efuse[b] = Cardinality(Holders(b))

(* No XNBLK is lost or used twice: it is on the free list once, or one     *)
(* EFBLK has it, or error 248 stranded it.  The library is held as many    *)
(* times as there are XNBLKs in use with its handle.                       *)
NodesAccounted ==
  /\ \A i, j \in DOMAIN xnfree : xnfree[i] = xnfree[j] => i = j
  /\ \A b, c \in heap : efcod[b] = efcod[c] /\ efcod[b] # None => b = c
  /\ \A b \in heap : efcod[b] \notin Free
  /\ static = Free \cup {efcod[b] : b \in heap \ {c \in heap : efcod[c] = None}}
                   \cup refused
  /\ \A l \in Libs :
       refs[l] = Cardinality({k \in static \ Free : xnhand[k] = l})
                 + IF job.at = "node" /\ job.lib = l THEN 1 ELSE 0

(* No argument copy outlives its call, and a string result that is one of  *)
(* them is still there when it is copied to its block.                     *)
ArgumentCopies ==
  /\ job.at = "idle" => job.copies = {}
  /\ job.at = "copied" /\ job.alias # 0 => job.alias \in job.copies
=============================================================================
