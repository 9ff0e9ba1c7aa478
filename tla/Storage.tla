------------------------------- MODULE Storage -------------------------------
(***************************************************************************)
(* Storage of the runtime: alloc and alost of sbl.min with the collector,  *)
(* sysmm, and a program that builds and drops blocks.                      *)
(*                                                                         *)
(* The program's roots are cells of memory.  Its steps, taken when no call *)
(* of the allocator is under way, are: ask for a block and fill it in, trim*)
(* the block just obtained, move a pointer between a root and a field,     *)
(* forget a root, ask for static storage, and collect.                     *)
(***************************************************************************)
EXTENDS GarbageCollector

CONSTANTS
  Bottom,      (* Where the dynamic area starts.                               *)
  FirstName,   (* The end of the memory the program starts with.               *)
  MaxName,     (* Bound: the end of the memory sysmm can ever supply.          *)
  Grants,      (* The amounts sysmm may supply.                                *)
  Static,      (* Where the static area ends at first (state).                 *)
  Chunks,      (* The lengths asked of the static area.                        *)
  ESts,        (* The least amount the dynamic area is moved up by (e_sts).    *)
  AlfSf,       (* The factor of the free store test (alfsf).                   *)
  RsMem,       (* The reserve added once memory overflows (rsmem).             *)
  Shapes       (* The blocks built: [entry |-> their entry word, size |-> their words]. *)

(* The memory sysmm can supply has nothing else in it. *)
ASSUME StorageAssumption ==
  /\ Static \in Nat /\ Aligned(Bottom) /\ FirstName \in Nat /\ MaxName \in Nat
  /\ Static < Bottom /\ Bottom <= FirstName /\ FirstName <= MaxName
  /\ \A a \in Bottom .. MaxName - W : Aligned(a) => a \in Cells
  /\ \A a \in RootCells \cup {GbcNm, GbcNs} : a < Bottom
  /\ 0 \notin Grants /\ Grants \subseteq Nat
  /\ \A n \in Chunks : Aligned(n)
  /\ Aligned(ESts) /\ ESts # 0 /\ AlfSf \in Nat /\ RsMem \in Nat
  /\ \A s \in Shapes :
       s.size \in Nat /\ s.entry \in DOMAIN Kind /\ (Kind[s.entry].len = 0 \/ Kind[s.entry].len = s.size)
       /\ (Kind[s.entry].len = 0 => s.size > Kind[s.entry].from /\ s.size > 1)

VARIABLES
  dname,     (* last available location + 1                                    *)
  state,     (* next available location of the static area                     *)
  apc,       (* where the call of alloc or alost is, "idle" between two         *)
  caller,    (* who asked: "alloc", "alost" or "collect"                        *)
  want,      (* wa: the length asked of alloc                                   *)
  shape,     (* the block to build                                              *)
  need,      (* alsta: the length asked of alost                                *)
  newsed     (* wb: the sediment size to record                                 *)

allocVars == <<dname, state, apc, caller, want, shape, need, newsed>>
vars == <<gcVars, allocVars>>

NoShape == [entry |-> 0, size |-> 0]

Init ==
  /\ mem = [a \in Cells |-> 0]
  /\ dnamb = Bottom /\ dnamp = Bottom /\ dnams = 0 /\ dname = FirstName
  /\ GcInit
  /\ state = Static /\ apc = "idle" /\ caller = "none"
  /\ want = 0 /\ shape = NoShape /\ need = 0 /\ newsed = 0

-----------------------------------------------------------------------------
(* The program. *)

RootPointers == { mem[a] : a \in RootCells } \ {0}

Request(s) ==
  /\ apc = "idle"
  /\ apc' = "alloc1" /\ caller' = "alloc" /\ want' = s.size * W /\ shape' = s
  /\ UNCHANGED <<gcVars, dname, state, need, newsed>>

RequestStatic(n) ==
  /\ apc = "idle"
  /\ apc' = "static1" /\ caller' = "alost" /\ need' = n
  /\ UNCHANGED <<gcVars, dname, state, want, shape, newsed>>

(* collect(): the sediment is collected too. *)
RequestCollection ==
  /\ apc = "idle"
  /\ Enter(0, 0)
  /\ apc' = "collecting" /\ caller' = "collect"
  /\ UNCHANGED <<dname, state, want, shape, need, newsed>>

SetCell(a, w) ==
  /\ apc = "idle" /\ mem[a] # w
  /\ mem' = [mem EXCEPT ![a] = w]
  /\ UNCHANGED <<dnamb, dnamp, dnams, gpc, xr, wa, wc, stk, segs, gbcsd, gbcsf, gbclm, up, before,
                 allocVars>>

Forget == \E a \in RootCells : SetCell(a, 0)

Load ==
  /\ apc = "idle"
  /\ \E a \in RootCells, x \in RootPointers : \E c \in FieldCells(mem, x) : SetCell(a, mem[c])

Store ==
  /\ apc = "idle"
  /\ \E a \in RootCells, x \in RootPointers : \E c \in FieldCells(mem, x) : SetCell(c, mem[a])

-----------------------------------------------------------------------------
(* alloc. *)

(* The words of a block of n words at x, its fields filled in by the program. *)
Fresh(x, n, w) ==
  [a \in Cells |->
     IF a = x THEN shape.entry
     ELSE IF a = x + W /\ Kind[shape.entry].len = 0 THEN n * W
     ELSE IF x < a /\ a < x + n * W
       THEN IF HasFields(shape.entry) /\ a >= FirstField(shape.entry, x)
               /\ (Kind[shape.entry].len = 0 \/ a < x + Kind[shape.entry].to * W)
              THEN w ELSE 0
     ELSE mem[a]]

(* The lengths a block may be cut to before anything else is allocated: trimr *)
(* does it to a string, down to nothing.                                      *)
Kept(s) == IF Kind[s.entry].len = 0 /\ ~HasFields(s.entry) THEN {0} \cup (2 .. s.size) ELSE {s.size}

(* aloc1: the next available location is moved past the block. *)
Build ==
  /\ apc = "alloc1" /\ caller = "alloc" /\ dnamp + want <= dname
  /\ \E a \in RootCells, w \in RootPointers \cup {0}, n \in Kept(shape) :
       /\ mem' = IF n = 0 THEN mem ELSE [Fresh(dnamp, n, w) EXCEPT ![a] = dnamp]
       /\ dnamp' = dnamp + n * W
  /\ apc' = "idle" /\ caller' = "none" /\ want' = 0 /\ shape' = NoShape
  /\ UNCHANGED <<dnamb, dnams, gpc, xr, wa, wc, stk, segs, gbcsd, gbcsf, gbclm, up, before,
                 dname, state, need, newsed>>

(* aloc2: no room, collect. *)
NoRoom ==
  /\ apc = "alloc1" /\ dnamp + want > dname
  /\ Enter(0, dnams)
  /\ apc' = "collecting"
  /\ UNCHANGED <<dname, state, caller, want, shape, need, newsed>>

(* aloc3: is there room now? *)
Retry ==
  /\ apc = "alloc3"
  /\ apc' = IF dnamp + want < dname THEN "alloc4" ELSE "sysmm"
  /\ UNCHANGED <<gcVars, dname, state, caller, want, shape, need, newsed>>

(* sbrk, which gives memory out of one region. *)
Sbrk(n) == dname + n <= MaxName

(* moremem: some amount that sbrk has given, in one piece or several. *)
Obtained(n) == n \in Grants /\ Sbrk(n)

More ==
  /\ apc = "sysmm"
  /\ \E n \in Grants : Obtained(n) /\ dname' = dname + n
  /\ apc' = "alloc3"
  /\ UNCHANGED <<gcVars, state, caller, want, shape, need, newsed>>

(* Mutant: dnams is not zeroed before the second collection. *)
CollectSedimentAgain ==
  /\ apc = "sysmm" /\ dnams # 0
  /\ Enter(0, dnams)
  /\ apc' = "collecting"
  /\ UNCHANGED <<dname, state, caller, want, shape, need, newsed>>

(* alc3a: no more memory, so the sediment is collected, unless there was none. *)
CollectSediment ==
  /\ apc = "sysmm" /\ dnams # 0
  /\ Enter(0, 0)
  /\ apc' = "collecting"
  /\ UNCHANGED <<dname, state, caller, want, shape, need, newsed>>

(* Mutant: without the test for a sediment. *)
OverflowWithSediment ==
  /\ apc = "sysmm"
  /\ apc' = "overflow" /\ dname' = dname + RsMem
  /\ UNCHANGED <<gcVars, state, caller, want, shape, need, newsed>>

(* alc3b: error 204, memory overflow, with the reserve added. *)
Overflow ==
  /\ apc = "sysmm" /\ dnams = 0
  /\ apc' = "overflow" /\ dname' = dname + RsMem
  /\ UNCHANGED <<gcVars, state, caller, want, shape, need, newsed>>

(* aloc4: the new sediment size is recorded, and memory asked for if little is free. *)
Settle ==
  /\ apc = "alloc4"
  /\ dnams' = newsed /\ newsed' = 0
  /\ LET free == (dname - dnamp) \div W
         all  == (dname - dnamb) \div W
     IN  IF free * AlfSf > all THEN dname' = dname
         ELSE \E n \in Grants \cup {0} : (n = 0 \/ Obtained(n)) /\ dname' = dname + n
  /\ apc' = "alloc1"
  /\ UNCHANGED <<mem, dnamb, dnamp, gpc, xr, wa, wc, stk, segs, gbcsd, gbcsf, gbclm, up, before,
                 state, caller, want, shape, need>>

-----------------------------------------------------------------------------
(* alost. *)

(* Mutant: the static area may end where the dynamic area begins. *)
ExtendUpTo ==
  /\ apc = "static1" /\ state + need <= dnamb
  /\ state' = state + need
  /\ apc' = "idle" /\ caller' = "none" /\ need' = 0 /\ want' = 0
  /\ UNCHANGED <<gcVars, dname, shape, newsed>>

(* alst1: there is room below the dynamic area, ... *)
Extend ==
  /\ apc = "static1" /\ state + need < dnamb
  /\ state' = state + need
  /\ apc' = "idle" /\ caller' = "none" /\ need' = 0 /\ want' = 0
  /\ UNCHANGED <<gcVars, dname, shape, newsed>>

(* ... or alloc makes sure that there is room to move that area up, ... *)
MakeRoom ==
  /\ apc = "static1" /\ state + need >= dnamb
  /\ want' = IF need >= ESts THEN need ELSE ESts
  /\ apc' = "alloc1"
  /\ UNCHANGED <<gcVars, dname, state, caller, shape, need, newsed>>

(* Mutant: without the block that ensures room. *)
MoveUpAtOnce ==
  /\ apc = "alloc1" /\ caller = "alost"
  /\ Enter(want, dnams)
  /\ apc' = "collecting"
  /\ UNCHANGED <<dname, state, caller, want, shape, need, newsed>>

(* ... its block is deleted, and the collector moves the area up. *)
MoveUp ==
  /\ apc = "alloc1" /\ caller = "alost" /\ dnamp + want <= dname
  /\ Enter(want, dnams)
  /\ apc' = "collecting"
  /\ UNCHANGED <<dname, state, caller, want, shape, need, newsed>>

-----------------------------------------------------------------------------
(* gbcol returns to its caller.  What is above dnamp is written before it is *)
(* read again, so it is cleared here.                                        *)
GcReturns ==
  /\ gpc = "exit" /\ gpc' = "out"
  /\ mem' = [a \in Cells |-> IF a \in RootCells \/ InDynamic(a) THEN mem[a] ELSE 0]
  /\ IF up > 0 THEN dnams' = xr /\ apc' = "static1" /\ newsed' = newsed /\ caller' = caller
     ELSE IF caller = "collect" THEN dnams' = xr /\ apc' = "idle" /\ newsed' = newsed /\ caller' = "none"
     ELSE newsed' = xr /\ apc' = "alloc3" /\ dnams' = dnams /\ caller' = caller
  /\ xr' = 0 /\ wa' = 0 /\ wc' = 0 /\ gbcsd' = 0 /\ gbcsf' = 0 /\ gbclm' = 0 /\ up' = 0
  /\ before' = [mem |-> mem', dnamb |-> dnamb, dnamp |-> dnamp, dnams |-> 0]
  /\ UNCHANGED <<dnamb, dnamp, stk, segs, dname, state, want, shape, need>>

Program == (\E s \in Shapes : Request(s)) \/ (\E n \in Chunks : RequestStatic(n))
           \/ RequestCollection \/ Forget \/ Load \/ Store

Allocator == Build \/ NoRoom \/ Retry \/ More \/ CollectSediment \/ Overflow \/ Settle
             \/ Extend \/ MakeRoom \/ MoveUp \/ GcReturns

Collector == Collect /\ UNCHANGED allocVars

Next == Program \/ Allocator \/ Collector

(* One thread: a call that has begun runs to its end. *)
Spec == Init /\ [][Next]_vars /\ WF_vars(Allocator \/ Collector)

-----------------------------------------------------------------------------
(* Properties.                                                             *)

(* The variables of the allocator and of the collector hold values of their *)
(* types; memory holds addresses, lengths and entry words, marked or not.   *)
TypeOK ==
  /\ mem \in [Cells -> Nat]
  /\ dnamb \in Nat /\ dnamp \in Nat /\ dnams \in Nat /\ dname \in Nat /\ state \in Nat
  /\ gpc \in {"out", "fields", "sediment", "used", "chain", "unused", "move", "up", "exit"}
  /\ apc \in {"idle", "alloc1", "static1", "collecting", "alloc3", "sysmm", "alloc4", "overflow"}
  /\ caller \in {"none", "alloc", "alost", "collect"}
  /\ (apc = "idle") = (caller = "none")
  /\ (apc = "collecting") = (gpc # "out")
  /\ \A i \in 1 .. Len(stk) : stk[i].field \in Cells \cup {0} /\ stk[i].limit \in Nat

(* Between two calls the dynamic area can be scanned from block to block up *)
(* to dnamp, the sediment ends between two blocks, and the roots and the    *)
(* fields of the blocks in use point to blocks.                             *)
HeapIsBlocks ==
  apc = "idle" =>
    LET starts == Starts(mem, dnamb, dnamp)
        inUse  == Reachable(mem, dnamb, dnamp)
    IN  /\ dnamp \in starts /\ \A x \in starts : x <= dnamp
        /\ dnamb + dnams \in starts
        /\ inUse \subseteq starts \ {dnamp}
        /\ \A a \in RootCells : mem[a] \in {0} \cup inUse

(* sbl.min 17327: "the coding ensures that the resulting value of state is  *)
(* always less than dnamb.  this fact is used in testing a variable name    *)
(* for being in the static region".                                         *)
StaticBelowDynamic == state < dnamb

(* A block handed out, and the area moved up, end within the memory there is. *)
WithinMemory == dnamp <= dname

(* Memory overflows only when the blocks in use leave too little room: the  *)
(* sediment has been collected, and nothing free is left in it.             *)
OverflowOnlyWhenFull ==
  apc = "overflow" =>
    SumLen(mem, Reachable(mem, dnamb, dnamp)) + want >= dname - RsMem - dnamb

(* A call for storage ends, with the storage or with the overflow.          *)
CallEnds == apc # "idle" ~> apc \in {"idle", "overflow"}
=============================================================================
