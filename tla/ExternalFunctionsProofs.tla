----------------------- MODULE ExternalFunctionsProofs -----------------------
(* What holds of loaded functions, of their use counts, of the XNBLKs and   *)
(* of the argument copies, for any names, blocks, nodes, libraries and      *)
(* prototypes, and any number of loads, redefinitions and calls.            *)
EXTENDS ExternalFunctions, FiniteSetTheorems, TLAPS

Loading == {"load", "node", "define"}
Calling == {"convert", "marshal", "box", "copied"}

(* No name of a system function ever holds anything but its own block, so   *)
(* a refused definition uncounts nothing.                                   *)
ProtectedInv == \A n \in Protected : vrfnc[n] = Internal

(* The block being loaded is new: it is in the heap, no name holds it, it   *)
(* counts no use and it has its XNBLK only after loadef.                    *)
LoadInv ==
  job.at \in Loading =>
    /\ job.name \in Names /\ job.lib \in Libs
    /\ job.block \in heap /\ efuse[job.block] = 0
    /\ \A n \in Names : vrfnc[n] # job.block
    /\ IF job.at = "define"
       THEN efcod[job.block] \in Nodes /\ efcod[job.block] \notin Free
       ELSE efcod[job.block] = None

(* A block with an XNBLK has a use: what a collection takes away has none   *)
(* left, unless the count is off.                                           *)
LoadedInUse ==
  \A b \in heap :
    efcod[b] # None => efuse[b] > 0 \/ (job.at = "define" /\ b = job.block)

(* The copies are those of arguments below the one in hand, all of them     *)
(* within reach of ef_freeargs, and only a call in its last steps aliases.  *)
CopyInv ==
  /\ job.copies \subseteq 1..MaxArg
  /\ job.at \notin {"marshal", "box", "copied"} => job.copies = {}
  /\ job.arg >= 1
  /\ job.at = "marshal" => Len(Args) <= MaxArg
  /\ job.alias # 0 => job.at \in {"box", "copied"} /\ job.alias \in job.copies

IInv ==
  /\ TypeOK /\ IsFiniteSet(static)
  /\ LoadedWhenCalled /\ UseCounts /\ NodesAccounted /\ ArgumentCopies
  /\ ProtectedInv /\ LoadInv /\ LoadedInUse /\ CopyInv

(* The parts of NodesAccounted, which the steps disturb one at a time.      *)
FreeOnce == \A i, j \in DOMAIN xnfree : xnfree[i] = xnfree[j] => i = j
OneEach  == \A b, c \in heap : efcod[b] = efcod[c] /\ efcod[b] # None => b = c
NotFree  == \A b \in heap : efcod[b] \notin Free
NoneLost == static = Free \cup {efcod[b] : b \in heap \ {c \in heap : efcod[c] = None}}
                     \cup refused
Held(l)  == {k \in static \ Free : xnhand[k] = l}
LibsCounted ==
  \A l \in Libs : refs[l] = Cardinality(Held(l))
                            + IF job.at = "node" /\ job.lib = l THEN 1 ELSE 0

-----------------------------------------------------------------------------
(* Counting the names that hold a block, and the XNBLKs with a handle.      *)
LEMMA HoldersFinite ==
  ASSUME NEW b
  PROVE  /\ IsFiniteSet(Holders(b)) /\ Cardinality(Holders(b)) \in Nat
         /\ Cardinality(Holders(b)) = 0 <=> Holders(b) = {}
<1>1. IsFiniteSet(Holders(b))
  BY ExternalFunctionsAssumption, FS_Subset DEF Holders
<1> QED BY <1>1, FS_CardinalityType, FS_EmptySet

(* Giving a name another block moves one count from the old block to the    *)
(* new one.                                                                 *)
LEMMA HoldersChange ==
  ASSUME NEW n \in Names, NEW new, new # vrfnc[n],
         vrfnc \in [Names -> Blocks \cup {Undefined, Internal}],
         vrfnc' = [vrfnc EXCEPT ![n] = new], NEW b
  PROVE  Cardinality(Holders(b))' = Cardinality(Holders(b))
           + (IF b = new THEN 1 ELSE 0) - (IF b = vrfnc[n] THEN 1 ELSE 0)
<1>0. IsFiniteSet(Holders(b)) /\ Cardinality(Holders(b)) \in Nat  BY HoldersFinite
<1>1. CASE b = new
  <2>1. Holders(b)' = Holders(b) \cup {n} /\ n \notin Holders(b)  BY <1>1 DEF Holders
  <2>2. Cardinality(Holders(b) \cup {n}) = Cardinality(Holders(b)) + 1
    BY <1>0, <2>1, FS_AddElement
  <2> QED BY <1>0, <1>1, <2>1, <2>2
<1>2. CASE b = vrfnc[n]
  <2>1. Holders(b)' = Holders(b) \ {n} /\ n \in Holders(b)  BY <1>2 DEF Holders
  <2>2. Cardinality(Holders(b) \ {n}) = Cardinality(Holders(b)) - 1
    BY <1>0, <2>1, FS_RemoveElement
  <2> QED BY <1>0, <1>2, <2>1, <2>2
<1>3. CASE b # new /\ b # vrfnc[n]
  <2>1. Holders(b)' = Holders(b)  BY <1>3 DEF Holders
  <2> QED BY <1>0, <1>3, <2>1
<1> QED BY <1>1, <1>2, <1>3

(* The XNBLKs in use with a handle are finitely many.                       *)
LEMMA HeldFinite ==
  ASSUME IsFiniteSet(static), NEW l
  PROVE  IsFiniteSet(Held(l)) /\ Cardinality(Held(l)) \in Nat
<1>1. Held(l) \in SUBSET static  BY DEF Held
<1>2. IsFiniteSet(Held(l))  BY <1>1, FS_Subset
<1> QED BY <1>2, FS_CardinalityType

(* The free list is a stack: pushing adds one node to the free ones,        *)
(* popping takes its first away.                                            *)
LEMMA PushFree ==
  ASSUME NEW S, xnfree \in Seq(S), NEW k \in S, k \notin Free, FreeOnce,
         xnfree' = <<k>> \o xnfree
  PROVE  xnfree' \in Seq(S) /\ Free' = Free \cup {k} /\ FreeOnce'
<1>1. /\ xnfree' \in Seq(S) /\ Len(xnfree') = Len(xnfree) + 1
      /\ xnfree'[1] = k
      /\ \A i \in 2..Len(xnfree') : xnfree'[i] = xnfree[i - 1]
  OBVIOUS
<1>2. /\ DOMAIN xnfree = 1..Len(xnfree) /\ Len(xnfree) \in Nat
      /\ DOMAIN xnfree' = 1..(Len(xnfree) + 1)
  BY <1>1
<1>3. \A i \in DOMAIN xnfree : xnfree'[i + 1] = xnfree[i] /\ i + 1 \in DOMAIN xnfree'
  BY <1>1, <1>2
<1>4. \A i \in DOMAIN xnfree' : i = 1 \/ (i - 1 \in DOMAIN xnfree /\ xnfree'[i] = xnfree[i - 1])
  BY <1>1, <1>2
<1>5. Free' = Free \cup {k}
  <2>1. Free' \subseteq Free \cup {k}  BY <1>1, <1>4 DEF Free
  <2>2. Free \subseteq Free'  BY <1>3 DEF Free
  <2>3. k \in Free'  BY <1>1, <1>2 DEF Free
  <2> QED BY <2>1, <2>2, <2>3
<1>6. FreeOnce'
  <2> SUFFICES ASSUME NEW i \in DOMAIN xnfree', NEW j \in DOMAIN xnfree',
                      xnfree'[i] = xnfree'[j]
               PROVE  i = j
    BY DEF FreeOnce
  <2>1. \A m \in DOMAIN xnfree : xnfree[m] # k  BY DEF Free
  <2>2. CASE i = 1  BY <1>1, <1>4, <2>1, <2>2
  <2>3. CASE j = 1  BY <1>1, <1>4, <2>1, <2>3
  <2>4. CASE i # 1 /\ j # 1
    <3>1. i - 1 = j - 1  BY <1>4, <2>4 DEF FreeOnce
    <3> QED BY <3>1, <1>2
  <2> QED BY <2>2, <2>3, <2>4
<1> QED BY <1>1, <1>5, <1>6

(* And loadef takes the first of them.                                      *)
LEMMA PopFree ==
  ASSUME NEW S, xnfree \in Seq(S), xnfree # <<>>, FreeOnce, xnfree' = Tail(xnfree)
  PROVE  /\ xnfree' \in Seq(S) /\ Head(xnfree) \in Free
         /\ Free' = Free \ {Head(xnfree)} /\ FreeOnce'
<1>1. /\ xnfree' \in Seq(S) /\ Len(xnfree) \in Nat \ {0}
      /\ Len(xnfree') = Len(xnfree) - 1
      /\ Head(xnfree) = xnfree[1]
      /\ \A i \in 1..Len(xnfree') : xnfree'[i] = xnfree[i + 1]
  OBVIOUS
<1>2. DOMAIN xnfree = 1..Len(xnfree) /\ DOMAIN xnfree' = 1..(Len(xnfree) - 1)
  BY <1>1
<1>3. \A i \in DOMAIN xnfree : i = 1 \/ (i - 1 \in DOMAIN xnfree' /\ xnfree'[i - 1] = xnfree[i])
  BY <1>1, <1>2
<1>4. \A i \in DOMAIN xnfree' : i + 1 \in DOMAIN xnfree /\ i + 1 # 1 /\ xnfree'[i] = xnfree[i + 1]
  BY <1>1, <1>2
<1>5. Head(xnfree) \in Free  BY <1>1, <1>2 DEF Free
<1>6. Free' = Free \ {Head(xnfree)}
  <2>1. Free' \subseteq Free  BY <1>4 DEF Free
  <2>2. Head(xnfree) \notin Free'  BY <1>1, <1>2, <1>4 DEF Free, FreeOnce
  <2>3. Free \subseteq Free' \cup {Head(xnfree)}  BY <1>1, <1>3 DEF Free
  <2> QED BY <2>1, <2>2, <2>3
<1>7. FreeOnce'
  <2> SUFFICES ASSUME NEW i \in DOMAIN xnfree', NEW j \in DOMAIN xnfree',
                      xnfree'[i] = xnfree'[j]
               PROVE  i = j
    BY DEF FreeOnce
  <2>1. i + 1 = j + 1  BY <1>4 DEF FreeOnce
  <2> QED BY <2>1, <1>2
<1> QED BY <1>1, <1>5, <1>6, <1>7

(* Nothing else is in NodesAccounted.                                       *)
LEMMA NodesParts ==
  NodesAccounted <=> FreeOnce /\ OneEach /\ NotFree /\ NoneLost /\ LibsCounted
BY DEF NodesAccounted, FreeOnce, OneEach, NotFree, NoneLost, LibsCounted, Held

-----------------------------------------------------------------------------
(* The idle operation.                                                      *)
LEMMA IdleIsJob ==
  /\ Idle \in Jobs /\ Idle.at = "idle" /\ Idle.arg = 1 /\ Idle.copies = {} /\ Idle.alias = 0
BY DEF Idle, Jobs, Steps, MaxArg

(* Nothing is loaded and nothing is under way at the start.                 *)
LEMMA InitHolds == Init => IInv
<1> SUFFICES ASSUME Init PROVE IInv  OBVIOUS
<1>1. (CHOOSE t \in Sigs : TRUE) \in Sigs  BY ExternalFunctionsAssumption
<1>3. TypeOK  BY <1>1, IdleIsJob, ExternalFunctionsAssumption DEF Init, TypeOK
<1>4. IsFiniteSet(static)  BY FS_EmptySet DEF Init
<1>5. Free = {} /\ static = {} /\ heap = {} /\ refused = {}  BY DEF Init, Free
<1>6. FreeOnce /\ OneEach /\ NotFree /\ NoneLost
  BY <1>5 DEF Init, FreeOnce, OneEach, NotFree, NoneLost
<1>7. LibsCounted
  <2> SUFFICES ASSUME NEW l \in Libs PROVE refs[l] = Cardinality(Held(l)) /\ job.at # "node"
    BY DEF Init, LibsCounted
  <2>1. Held(l) = {}  BY <1>5 DEF Held
  <2>2. refs[l] = 0 /\ job.at # "node"  BY IdleIsJob DEF Init
  <2> QED BY <2>1, <2>2, FS_EmptySet
<1>8. LoadedWhenCalled /\ ArgumentCopies /\ ProtectedInv /\ LoadInv /\ CopyInv
  BY ExternalFunctionsAssumption
  DEF Init, Idle, IsExternal, LoadedWhenCalled, ArgumentCopies, ProtectedInv, LoadInv,
      Loading, CopyInv
<1>9. UseCounts /\ LoadedInUse  BY <1>5 DEF UseCounts, LoadedInUse
<1> QED BY <1>3, <1>4, <1>6, <1>7, <1>8, <1>9, NodesParts DEF IInv

(* A step of the operation in progress that leaves the tables alone.  No    *)
(* block gains or loses a name, so only the operation's own facts are due.  *)
LEMMA JobStepHolds ==
  ASSUME IInv, UNCHANGED tables, job' \in Jobs, job.at \notin {"node", "define"},
         job'.at \notin Loading,
         job'.at \in Calling => Callable(job'.block), CopyInv', ArgumentCopies'
  PROVE  IInv'
<1>1. TypeOK' /\ IsFiniteSet(static)'  BY DEF IInv, TypeOK, tables
<1>2. Free' = Free /\ \A b : Callable(b)' <=> Callable(b)
  BY DEF tables, Free, Callable
<1>3. LoadedWhenCalled'
  BY <1>2 DEF IInv, LoadedWhenCalled, tables, Calling, IsExternal
<1>4. UseCounts'  BY DEF IInv, UseCounts, Holders, tables
<1>5. NodesAccounted'
  <2>1. FreeOnce' /\ OneEach' /\ NotFree' /\ NoneLost'
    BY <1>2, NodesParts DEF IInv, FreeOnce, OneEach, NotFree, NoneLost, tables
  <2>2. LibsCounted'
    <3>1. \A l : Held(l)' = Held(l)  BY <1>2 DEF Held, tables
    <3> QED BY <3>1, NodesParts DEF IInv, LibsCounted, tables, Loading
  <2>3. (FreeOnce /\ OneEach /\ NotFree /\ NoneLost /\ LibsCounted)' => NodesAccounted'
    BY DEF NodesAccounted, FreeOnce, OneEach, NotFree, NoneLost, LibsCounted, Held
  <2> QED BY <2>1, <2>2, <2>3
<1>6. ProtectedInv' /\ LoadInv' /\ LoadedInUse'
  BY DEF IInv, ProtectedInv, LoadInv, LoadedInUse, Loading, tables
<1> QED BY <1>1, <1>3, <1>4, <1>5, <1>6 DEF IInv

(* The prototype of the function called is one of Sigs.                     *)
LEMMA SigOfCall ==
  ASSUME IInv, job.at \in Calling
  PROVE  Args \in Seq(Nat) /\ Len(Args) \in Nat /\ Callable(job.block)
<1>1. Callable(job.block) /\ job.block \in Blocks
  BY DEF IInv, LoadedWhenCalled, Callable, TypeOK, Calling
<1>2. sig[job.block] \in [eftar : Seq(Nat), efrsl : Nat]
  BY <1>1, ExternalFunctionsAssumption DEF IInv, TypeOK
<1>3. Args \in Seq(Nat)  BY <1>2 DEF Args
<1> QED BY <1>1, <1>3

(* What a return leaves: no copy, the call over.                            *)
LEMMA ReturnIsIdle ==
  ASSUME job.copies \subseteq 1..MaxArg
  PROVE  Return = Idle
<1>1. FreeArgs(job.copies) = {}  BY DEF FreeArgs
<1> QED BY <1>1 DEF Return, Idle

(* Any step that ends the operation before a library is held.               *)
LEMMA EndsHolds ==
  ASSUME IInv, UNCHANGED tables, job' = Idle, job.at \notin {"node", "define"}
  PROVE  IInv'
<1>1. job' \in Jobs /\ job'.at \notin Loading /\ job'.at \notin Calling
  BY IdleIsJob DEF Loading, Calling
<1>2. CopyInv' /\ ArgumentCopies'
  BY IdleIsJob DEF CopyInv, ArgumentCopies, MaxArg
<1> QED BY <1>1, <1>2, JobStepHolds

(* A call starts with a block that a name holds, so with a loaded one.      *)
LEMMA CallHolds == ASSUME IInv, NEW n \in Names, Call(n) PROVE IInv'
<1>1. job' = [Idle EXCEPT !.at = "convert", !.name = n, !.block = vrfnc[n]] /\ UNCHANGED tables
  BY DEF Call
<1>2. Callable(vrfnc[n]) /\ vrfnc[n] \in Blocks
  BY DEF IInv, LoadedWhenCalled, Call, IsExternal
<1>3. job' \in Jobs  BY <1>1, <1>2, IdleIsJob DEF Jobs, Steps
<1>4. CopyInv' /\ ArgumentCopies'  BY <1>1 DEF Idle, CopyInv, ArgumentCopies, MaxArg
<1>5. job.at = "idle"  BY DEF Call
<1>6. job'.at = "convert" /\ job'.block = vrfnc[n]  BY <1>1 DEF Idle
<1> QED BY <1>1, <1>2, <1>3, <1>4, <1>5, <1>6, JobStepHolds DEF Loading

(* More than EF_MAXARG arguments never reach the copies.                    *)
LEMMA ConvertHolds == ASSUME IInv, Convert PROVE IInv'
<1>1. CASE Len(sig[job.block].eftar) > MaxArg
  BY <1>1, EndsHolds DEF Convert
<1>2. CASE ~(Len(sig[job.block].eftar) > MaxArg)
  <2>1. job.at = "convert" /\ job' = [job EXCEPT !.at = "marshal"] /\ UNCHANGED tables
    BY <1>2 DEF Convert
  <2>2. Callable(job.block) /\ Len(Args) \in Nat  BY <2>1, SigOfCall DEF Calling
  <2>3. job \in Jobs /\ CopyInv  BY DEF IInv, TypeOK
  <2>4. job' \in Jobs /\ job'.at = "marshal" /\ job'.block = job.block
        /\ job'.copies = job.copies /\ job'.alias = job.alias /\ job'.arg = job.arg
    BY <2>1, <2>3 DEF Jobs, Steps
  <2>5. Len(Args)' = Len(Args) /\ Len(Args) <= MaxArg
    BY <1>2, <2>1, <2>2, <2>4 DEF Args, tables, MaxArg
  <2>6. CopyInv' /\ ArgumentCopies'
    BY <2>1, <2>3, <2>4, <2>5 DEF CopyInv, ArgumentCopies
  <2> QED BY <2>1, <2>2, <2>4, <2>6, JobStepHolds DEF Loading
<1> QED BY <1>1, <1>2

(* A copy is made for an argument within EF_MAXARG, or every copy goes.     *)
LEMMA MarshalStringHolds ==
  ASSUME IInv, NEW ok \in BOOLEAN, MarshalString(ok)
  PROVE  IInv'
<1>0. /\ job.at = "marshal" /\ job.arg <= Len(Args) /\ UNCHANGED tables
      /\ job \in Jobs /\ CopyInv
  BY DEF MarshalString, IInv, TypeOK
<1>1. CASE ~ok
  <2>1. job' = Idle  BY <1>0, <1>1, ReturnIsIdle DEF MarshalString, CopyInv
  <2> QED BY <1>0, <2>1, EndsHolds
<1>2. CASE ok
  <2>1. job' = [job EXCEPT !.copies = @ \cup {job.arg}, !.arg = @ + 1]
    BY <1>2 DEF MarshalString
  <2>2. job' \in Jobs /\ job'.at = "marshal" /\ job'.block = job.block
        /\ job'.copies = job.copies \cup {job.arg} /\ job'.alias = job.alias
        /\ job'.arg = job.arg + 1
    <3>1. job.copies \cup {job.arg} \in SUBSET Nat /\ job.arg + 1 \in Nat
      BY <1>0 DEF Jobs
    <3>2. [job EXCEPT !.copies = job.copies \cup {job.arg}] \in Jobs
      BY <1>0, <3>1 DEF Jobs
    <3> QED BY <1>0, <2>1, <3>1, <3>2 DEF Jobs
  <2>3. Callable(job.block) /\ Len(Args) \in Nat /\ Args' = Args
    BY <1>0, <2>2, SigOfCall DEF Calling, Args, tables
  <2>4. job.arg \in 1..MaxArg
    <3>1. job.arg \in Nat /\ job.arg >= 1 /\ Len(Args) <= 4  BY <1>0 DEF CopyInv, Jobs, MaxArg
    <3> QED BY <1>0, <2>3, <3>1 DEF MaxArg
  <2>5. CopyInv' /\ ArgumentCopies'
    BY <1>0, <2>2, <2>3, <2>4 DEF CopyInv, ArgumentCopies
  <2> QED BY <1>0, <2>2, <2>3, <2>5, JobStepHolds DEF Loading
<1> QED BY <1>1, <1>2

(* An argument passed by value adds no copy.                                *)
LEMMA MarshalValueHolds == ASSUME IInv, MarshalValue PROVE IInv'
<1>0. /\ job.at = "marshal" /\ UNCHANGED tables /\ job' = [job EXCEPT !.arg = @ + 1]
      /\ job \in Jobs /\ CopyInv
  BY DEF MarshalValue, IInv, TypeOK
<1>1. job' \in Jobs /\ job'.at = "marshal" /\ job'.block = job.block
      /\ job'.copies = job.copies /\ job'.alias = job.alias /\ job'.arg = job.arg + 1
  BY <1>0 DEF Jobs
<1>2. Callable(job.block) /\ Args' = Args
  BY <1>0, <1>1, SigOfCall DEF Calling, Args, tables
<1>3. job.arg \in Nat  BY <1>0 DEF Jobs
<1>4. CopyInv' /\ ArgumentCopies'
  BY <1>0, <1>1, <1>2, <1>3 DEF CopyInv, ArgumentCopies
<1> QED BY <1>0, <1>1, <1>2, <1>4, JobStepHolds DEF Loading

(* The call keeps the copies only for a string result, and what the result  *)
(* aliases is one of them.                                                  *)
LEMMA InvokeHolds ==
  ASSUME IInv, NEW alias \in 0..MaxArg, Invoke(alias)
  PROVE  IInv'
<1>0. /\ job.at = "marshal" /\ UNCHANGED tables
      /\ job \in Jobs /\ CopyInv
      /\ alias \in (IF Result = String THEN job.copies ELSE {}) \cup {0}
  BY DEF Invoke, IInv, TypeOK
<1>1. Callable(job.block)  BY <1>0, SigOfCall DEF Calling
<1>2. CASE Result \in {Integer, Real}
  <2>1. job' = [job EXCEPT !.at = "box", !.copies = FreeArgs(job.copies)]
    BY <1>2 DEF Invoke, String, Integer, Real
  <2>2. job.alias = 0 /\ FreeArgs(job.copies) = {}  BY <1>0 DEF CopyInv, FreeArgs
  <2>3. job' \in Jobs /\ job'.at = "box" /\ job'.block = job.block /\ job'.copies = {}
        /\ job'.alias = 0 /\ job'.arg = job.arg
    BY <1>0, <2>1, <2>2 DEF Jobs, Steps
  <2>4. CopyInv' /\ ArgumentCopies'  BY <1>0, <2>3 DEF CopyInv, ArgumentCopies
  <2> QED BY <1>0, <1>1, <2>3, <2>4, JobStepHolds DEF Loading
<1>3. CASE Result = String
  <2>1. job' = [job EXCEPT !.at = "box", !.alias = alias]
    BY <1>3 DEF Invoke, String, Integer, Real
  <2>2. job' \in Jobs /\ job'.at = "box" /\ job'.block = job.block
        /\ job'.copies = job.copies /\ job'.alias = alias /\ job'.arg = job.arg
    BY <1>0, <2>1 DEF Jobs, Steps
  <2>3. alias # 0 => alias \in job.copies  BY <1>0
  <2>4. CopyInv' /\ ArgumentCopies'  BY <1>0, <2>2, <2>3 DEF CopyInv, ArgumentCopies
  <2> QED BY <1>0, <1>1, <2>2, <2>4, JobStepHolds DEF Loading
<1>4. CASE Result \notin {Integer, Real} /\ Result # String
  <2>1. job' = Return  BY <1>4 DEF Invoke
  <2>2. Return = Idle  BY <1>0, ReturnIsIdle DEF CopyInv
  <2> QED BY <1>0, <2>1, <2>2, EndsHolds
<1> QED BY <1>2, <1>3, <1>4

(* The copies outlive the copy of the result.                               *)
LEMMA BoxHolds == ASSUME IInv, Box PROVE IInv'
<1>0. /\ job.at = "box" /\ UNCHANGED tables /\ job' = [job EXCEPT !.at = "copied"]
      /\ job \in Jobs /\ CopyInv
  BY DEF Box, IInv, TypeOK
<1>1. job' \in Jobs /\ job'.at = "copied" /\ job'.block = job.block
      /\ job'.copies = job.copies /\ job'.alias = job.alias /\ job'.arg = job.arg
  BY <1>0 DEF Jobs, Steps
<1>2. Callable(job.block)  BY <1>0, SigOfCall DEF Calling
<1>3. CopyInv' /\ ArgumentCopies'  BY <1>0, <1>1 DEF CopyInv, ArgumentCopies
<1> QED BY <1>0, <1>1, <1>2, <1>3, JobStepHolds DEF Loading

(* And then all of them are freed.                                          *)
LEMMA EndCallHolds == ASSUME IInv, EndCall PROVE IInv'
<1>1. Return = Idle  BY ReturnIsIdle DEF IInv, CopyInv
<1> QED BY <1>1, EndsHolds DEF EndCall

-----------------------------------------------------------------------------
(* A collection takes away blocks that no name and no operation holds: none *)
(* of them is the owner of an XNBLK that nothing else accounts for.         *)
LEMMA CollectHolds == ASSUME IInv, Collect PROVE IInv'
<1>0. /\ heap' = heap \cap InUse
      /\ UNCHANGED <<vrfnc, efuse, efcod, sig, static, xnfree, xnhand, refs, job, refused>>
  BY DEF Collect
<1>1. Free' = Free /\ job' = job /\ heap' \subseteq heap  BY <1>0 DEF Free
<1>2. TypeOK' /\ IsFiniteSet(static)'  BY <1>0, <1>1 DEF IInv, TypeOK
<1>3. \A n \in Names : vrfnc[n] \in heap => vrfnc[n] \in heap'  BY <1>0 DEF InUse
<1>4. job.block \in heap => job.block \in heap'  BY <1>0 DEF InUse
<1>5. LoadedWhenCalled'
  BY <1>0, <1>1, <1>3, <1>4 DEF IInv, LoadedWhenCalled, Callable, IsExternal
<1>6. UseCounts'  BY <1>0, <1>1 DEF IInv, UseCounts, Holders
<1>7. \A b \in heap \ heap' : efcod[b] = None \/ efcod[b] \in refused
  <2> SUFFICES ASSUME NEW b \in heap \ heap', efcod[b] # None, efcod[b] \notin refused
               PROVE  FALSE
    OBVIOUS
  <2>1. b # job.block /\ \A n \in Names : vrfnc[n] # b  BY <1>0 DEF InUse
  <2>2. Holders(b) = {}  BY <2>1 DEF Holders
  <2>3. efcod[b] \in Nodes \ refused  BY DEF IInv, TypeOK
  <2>4. efuse[b] = 0  BY <2>2, <2>3, FS_EmptySet DEF IInv, UseCounts
  <2> QED BY <2>1, <2>4 DEF IInv, LoadedInUse
<1>8. NodesAccounted'
  <2>1. FreeOnce' /\ OneEach' /\ NotFree'
    BY <1>0, <1>1, NodesParts DEF IInv, FreeOnce, OneEach, NotFree
  <2>2. NoneLost'
    BY <1>0, <1>1, <1>7, NodesParts DEF IInv, NoneLost
  <2>3. LibsCounted'
    BY <1>0, <1>1, NodesParts DEF IInv, LibsCounted, Held
  <2> QED BY <2>1, <2>2, <2>3
    DEF NodesAccounted, FreeOnce, OneEach, NotFree, NoneLost, LibsCounted, Held
<1>9. ArgumentCopies' /\ ProtectedInv' /\ LoadInv' /\ LoadedInUse' /\ CopyInv'
  BY <1>0, <1>1, <1>4 DEF IInv, ArgumentCopies, ProtectedInv, LoadInv, LoadedInUse, CopyInv, Args
<1> QED BY <1>2, <1>5, <1>6, <1>8, <1>9 DEF IInv

-----------------------------------------------------------------------------
(* The new EFBLK takes a place no block of the heap has, so no name holds   *)
(* it and the tables keep what they say of the other blocks.                *)
LEMMA BeginLoadHolds ==
  ASSUME IInv, NEW n \in Names, NEW l \in Libs, NEW s \in Sigs, NEW b \in Blocks,
         BeginLoad(n, l, s, b)
  PROVE  IInv'
<1>0. /\ job.at = "idle" /\ b \notin heap /\ heap' = heap \cup {b}
      /\ efuse' = [efuse EXCEPT ![b] = 0] /\ efcod' = [efcod EXCEPT ![b] = None]
      /\ sig' = [sig EXCEPT ![b] = s]
      /\ job' = [Idle EXCEPT !.at = "load", !.name = n, !.block = b, !.lib = l]
      /\ UNCHANGED <<vrfnc, static, xnfree, xnhand, refs, refused>>
      /\ TypeOK /\ None \notin Nodes
  BY ExternalFunctionsAssumption DEF BeginLoad, IInv
<1>1. job' \in Jobs /\ job'.at = "load" /\ job'.name = n /\ job'.block = b /\ job'.lib = l
      /\ job'.copies = {} /\ job'.alias = 0 /\ job'.arg = 1
  BY <1>0, IdleIsJob DEF Jobs, Steps
<1>2. Free' = Free  BY <1>0 DEF Free
<1>3. \A c \in heap : c # b /\ efuse'[c] = efuse[c] /\ efcod'[c] = efcod[c]
  BY <1>0 DEF TypeOK
<1>4. efuse'[b] = 0 /\ efcod'[b] = None  BY <1>0 DEF TypeOK
<1>5. \A m \in Names : vrfnc[m] # b
  BY <1>0 DEF IInv, LoadedWhenCalled, Callable, IsExternal
<1>6. TypeOK' /\ IsFiniteSet(static)'  BY <1>0, <1>1 DEF IInv, TypeOK
<1>7. LoadedWhenCalled'
  <2> SUFFICES ASSUME NEW m \in Names, vrfnc[m] \in Blocks
               PROVE  Callable(vrfnc[m])'
    BY <1>0, <1>1 DEF LoadedWhenCalled, IsExternal
  <2>1. Callable(vrfnc[m])  BY DEF IInv, LoadedWhenCalled, IsExternal
  <2> QED BY <1>0, <1>2, <1>3, <2>1 DEF Callable
<1>8. UseCounts'
  <2>1. \A c : Holders(c)' = Holders(c)  BY <1>0 DEF Holders
  <2>2. Holders(b) = {}  BY <1>5 DEF Holders
  <2>3. \A c \in heap : efuse'[c] = efuse[c] /\ efcod'[c] = efcod[c]
          /\ Cardinality(Holders(c))' = Cardinality(Holders(c))
    BY <1>3, <2>1
  <2>4. Cardinality(Holders(b))' = 0  BY <2>1, <2>2, FS_EmptySet
  <2> QED BY <1>0, <1>4, <2>3, <2>4 DEF IInv, UseCounts
<1>9. NodesAccounted'
  <2>1. FreeOnce'  BY <1>0, NodesParts DEF IInv, FreeOnce
  <2>2. OneEach' /\ NotFree'
    <3>1. None \notin Free  BY <1>0 DEF TypeOK, Free
    <3> QED BY <1>0, <1>2, <1>3, <1>4, <3>1, NodesParts DEF IInv, OneEach, NotFree
  <2>3. NoneLost'  BY <1>0, <1>2, <1>3, <1>4, NodesParts DEF IInv, NoneLost
  <2>4. LibsCounted'
    <3>1. \A k : Held(k)' = Held(k)  BY <1>0, <1>2 DEF Held
    <3> QED BY <1>0, <1>1, <3>1, NodesParts DEF IInv, LibsCounted
  <2> QED BY <2>1, <2>2, <2>3, <2>4
    DEF NodesAccounted, FreeOnce, OneEach, NotFree, NoneLost, LibsCounted, Held
<1>10. ArgumentCopies' /\ CopyInv'  BY <1>1 DEF ArgumentCopies, CopyInv
<1>11. ProtectedInv' /\ LoadInv'
  BY <1>0, <1>1, <1>4, <1>5 DEF IInv, ProtectedInv, LoadInv
<1>12. LoadedInUse'  BY <1>0, <1>3, <1>4 DEF IInv, LoadedInUse
<1> QED BY <1>6, <1>7, <1>8, <1>9, <1>10, <1>11, <1>12 DEF IInv

(* loadDll holds the library before it has an XNBLK: the one the count is   *)
(* ahead by until loadef.                                                   *)
LEMMA LoadDllHolds == ASSUME IInv, LoadDll PROVE IInv'
<1>0. /\ job.at = "load" /\ refs' = [refs EXCEPT ![job.lib] = @ + 1]
      /\ job' = [job EXCEPT !.at = "node"]
      /\ UNCHANGED <<vrfnc, heap, efuse, efcod, sig, static, xnfree, xnhand, refused>>
      /\ TypeOK /\ job \in Jobs
  BY DEF LoadDll, IInv, TypeOK
<1>1. job' \in Jobs /\ job'.at = "node" /\ job'.name = job.name /\ job'.block = job.block
      /\ job'.lib = job.lib /\ job'.copies = job.copies /\ job'.alias = job.alias
      /\ job'.arg = job.arg
  BY <1>0 DEF Jobs, Steps
<1>2. Free' = Free  BY <1>0 DEF Free
<1>3. TypeOK' /\ IsFiniteSet(static)'
  <2>1. job.lib \in Libs  BY <1>0 DEF IInv, LoadInv, Loading
  <2>2. refs' \in [Libs -> Int]  BY <1>0, <2>1 DEF TypeOK
  <2> QED BY <1>0, <1>1, <2>2 DEF IInv, TypeOK
<1>4. LoadedWhenCalled' /\ UseCounts'
  BY <1>0, <1>1, <1>2 DEF IInv, LoadedWhenCalled, UseCounts, Callable, IsExternal, Holders
<1>5. NodesAccounted'
  <2>1. FreeOnce' /\ OneEach' /\ NotFree' /\ NoneLost'
    BY <1>0, <1>2, NodesParts DEF IInv, FreeOnce, OneEach, NotFree, NoneLost
  <2>2. LibsCounted'
    <3> SUFFICES ASSUME NEW l \in Libs
                 PROVE  refs'[l] = Cardinality(Held(l))' + (IF job.lib = l THEN 1 ELSE 0)
      BY <1>1 DEF LibsCounted
    <3>1. Held(l)' = Held(l)  BY <1>0, <1>2 DEF Held
    <3>2. refs[l] = Cardinality(Held(l)) + 0  BY <1>0, NodesParts DEF IInv, LibsCounted
    <3>3. Cardinality(Held(l)) \in Nat  BY HeldFinite DEF IInv
    <3> QED BY <1>0, <3>1, <3>2, <3>3 DEF TypeOK
  <2> QED BY <2>1, <2>2
    DEF NodesAccounted, FreeOnce, OneEach, NotFree, NoneLost, LibsCounted, Held
<1>6. ArgumentCopies' /\ CopyInv'  BY <1>0, <1>1 DEF IInv, ArgumentCopies, CopyInv
<1>7. ProtectedInv' /\ LoadInv' /\ LoadedInUse'
  BY <1>0, <1>1 DEF IInv, ProtectedInv, LoadInv, LoadedInUse, Loading
<1> QED BY <1>3, <1>4, <1>5, <1>6, <1>7 DEF IInv

(* loadef gives the block an XNBLK that was free or did not exist, and the  *)
(* library's count is even again.                                           *)
LEMMA FillNodeHolds ==
  ASSUME IInv, NEW k \in Nodes, job.at = "node", FillNode(k),
         static' = static \cup {k}, xnfree' \in Seq(static'), FreeOnce',
         Free' = Free \ {k}, k \in Free \/ k \notin static
  PROVE  IInv'
<1>0. /\ xnhand' = [xnhand EXCEPT ![k] = job.lib]
      /\ efcod' = [efcod EXCEPT ![job.block] = k]
      /\ job' = [job EXCEPT !.at = "define"]
      /\ UNCHANGED <<vrfnc, heap, efuse, sig, refs, refused>>
      /\ TypeOK /\ job \in Jobs /\ None \notin Nodes
  BY ExternalFunctionsAssumption DEF FillNode, IInv, TypeOK
<1>1. job' \in Jobs /\ job'.at = "define" /\ job'.name = job.name /\ job'.block = job.block
      /\ job'.lib = job.lib /\ job'.copies = job.copies /\ job'.alias = job.alias
      /\ job'.arg = job.arg
  BY <1>0 DEF Jobs, Steps
<1>2. /\ job.name \in Names /\ job.lib \in Libs /\ job.block \in heap /\ job.block \in Blocks
      /\ efuse[job.block] = 0 /\ efcod[job.block] = None
      /\ \A n \in Names : vrfnc[n] # job.block
  BY <1>0 DEF IInv, LoadInv, Loading, TypeOK
<1>3. efcod'[job.block] = k /\ \A c \in Blocks \ {job.block} : efcod'[c] = efcod[c]
  BY <1>0, <1>2 DEF TypeOK
<1>4. TypeOK' /\ IsFiniteSet(static)'
  BY <1>0, <1>1, <1>2, FS_AddElement DEF IInv, TypeOK
<1>5. \A c \in heap : efcod[c] # k
  BY <1>0, <1>2, NodesParts DEF IInv, NotFree, NoneLost
<1>6. LoadedWhenCalled'
  <2> SUFFICES ASSUME NEW m \in Names, vrfnc[m] \in Blocks
               PROVE  Callable(vrfnc[m])'
    BY <1>0, <1>1 DEF LoadedWhenCalled, IsExternal
  <2>1. Callable(vrfnc[m]) /\ vrfnc[m] # job.block
    BY <1>2 DEF IInv, LoadedWhenCalled, IsExternal
  <2> QED BY <1>0, <1>3, <2>1 DEF Callable
<1>7. UseCounts'
  <2>1. \A c : Holders(c)' = Holders(c)  BY <1>0 DEF Holders
  <2>2. Holders(job.block) = {}  BY <1>2 DEF Holders
  <2>3. Cardinality(Holders(job.block)) = 0  BY <2>2, FS_EmptySet
  <2>4. \A c \in heap : c # job.block => efcod'[c] = efcod[c]  BY <1>0, <1>3 DEF TypeOK
  <2> QED BY <1>0, <1>2, <2>1, <2>3, <2>4 DEF IInv, UseCounts
<1>8. NodesAccounted'
  <2>1. heap \subseteq Blocks  BY <1>0 DEF TypeOK
  <2>2. OneEach' /\ NotFree'
    BY <1>0, <1>2, <1>3, <1>5, <2>1, NodesParts DEF IInv, OneEach, NotFree
  <2>3. NoneLost'
    <3>1. static = Free \cup {efcod[c] : c \in heap \ {d \in heap : efcod[d] = None}} \cup refused
      BY NodesParts DEF IInv, NoneLost
    <3>2. {efcod'[c] : c \in heap' \ {d \in heap' : efcod'[d] = None}}
            = {efcod[c] : c \in heap \ {d \in heap : efcod[d] = None}} \cup {k}
      BY <1>0, <1>2, <1>3, <2>1
    <3> QED BY <1>0, <3>1, <3>2 DEF NoneLost
  <2>4. LibsCounted'
    <3> SUFFICES ASSUME NEW l \in Libs PROVE refs[l] = Cardinality(Held(l))' + 0
      BY <1>0, <1>1 DEF LibsCounted
    <3>1. refs[l] = Cardinality(Held(l)) + IF job.lib = l THEN 1 ELSE 0
      BY NodesParts DEF IInv, LibsCounted
    <3>2. k \notin Held(l) /\ IsFiniteSet(Held(l)) /\ Cardinality(Held(l)) \in Nat
      BY HeldFinite DEF IInv, Held
    <3>3. Held(l)' = IF job.lib = l THEN Held(l) \cup {k} ELSE Held(l)
      BY <1>0 DEF Held, TypeOK
    <3>4. Cardinality(Held(l) \cup {k}) = Cardinality(Held(l)) + 1
      BY <3>2, FS_AddElement
    <3> QED BY <3>1, <3>2, <3>3, <3>4
  <2> QED BY <2>2, <2>3, <2>4
    DEF NodesAccounted, FreeOnce, OneEach, NotFree, NoneLost, LibsCounted, Held
<1>9. ArgumentCopies' /\ CopyInv'  BY <1>0, <1>1 DEF IInv, ArgumentCopies, CopyInv
<1>10. ProtectedInv' /\ LoadInv'
  BY <1>0, <1>1, <1>2, <1>3 DEF IInv, ProtectedInv, LoadInv
<1>11. LoadedInUse'
  BY <1>0, <1>1, <1>3 DEF IInv, LoadedInUse, TypeOK
<1> QED BY <1>4, <1>6, <1>7, <1>8, <1>9, <1>10, <1>11 DEF IInv

(* The XNBLK comes off the free list,                                       *)
LEMMA LoadEfFreeHolds == ASSUME IInv, LoadEfFree PROVE IInv'
<1>0. /\ job.at = "node" /\ xnfree # <<>> /\ xnfree' = Tail(xnfree)
      /\ FillNode(Head(xnfree)) /\ static' = static
      /\ xnfree \in Seq(static) /\ FreeOnce /\ static \subseteq Nodes
  BY NodesParts DEF LoadEfFree, IInv, TypeOK
<1>1. /\ xnfree' \in Seq(static) /\ Head(xnfree) \in Free
      /\ Free' = Free \ {Head(xnfree)} /\ FreeOnce'
  BY <1>0, PopFree
<1>2. Free \subseteq static  BY <1>0 DEF Free
<1>3. static' = static \cup {Head(xnfree)} /\ Head(xnfree) \in Nodes  BY <1>0, <1>1, <1>2
<1> QED BY <1>0, <1>1, <1>3, FillNodeHolds

(* or from the static region when the list is empty.                        *)
LEMMA LoadEfNewHolds == ASSUME IInv, NEW k \in Nodes, LoadEfNew(k) PROVE IInv'
<1>0. /\ job.at = "node" /\ xnfree = <<>> /\ k \notin static /\ static' = static \cup {k}
      /\ FillNode(k) /\ xnfree' = xnfree
  BY DEF LoadEfNew
<1>1. Free = {} /\ Free' = {} /\ xnfree' \in Seq(static')  BY <1>0 DEF Free
<1>2. FreeOnce'  BY <1>0 DEF FreeOnce
<1> QED BY <1>0, <1>1, <1>2, FillNodeHolds

-----------------------------------------------------------------------------
(* What a definition does to the counts: one more for the new block, one    *)
(* less for the old one, none when they are the same.                       *)
LEMMA DefineCounts ==
  ASSUME TypeOK, NEW n \in Names, NEW new, Define(n, new)
  PROVE  /\ efuse' \in [Blocks -> Int]
         /\ \A b \in Blocks : efuse'[b] = efuse[b] + (IF b = new THEN 1 ELSE 0)
                                          - (IF b = vrfnc[n] THEN 1 ELSE 0)
<1>1. efuse \in [Blocks -> Int]  BY DEF TypeOK
<1>2. efuse' = Uncounted(Counted(new), vrfnc[n])  BY DEF Define
<1>3. /\ Counted(new) \in [Blocks -> Int]
      /\ \A b \in Blocks : Counted(new)[b] = efuse[b] + IF b = new THEN 1 ELSE 0
  BY <1>1 DEF Counted, IsExternal
<1>4. CASE vrfnc[n] \in Blocks
  <2>1. efuse' = [Counted(new) EXCEPT ![vrfnc[n]] = @ - 1]
    BY <1>2, <1>4 DEF Uncounted, IsExternal
  <2> QED BY <1>1, <1>3, <1>4, <2>1
<1>5. CASE vrfnc[n] \notin Blocks
  <2>1. efuse' = Counted(new)  BY <1>2, <1>5 DEF Uncounted, IsExternal
  <2> QED BY <1>1, <1>3, <1>5, <2>1
<1> QED BY <1>4, <1>5

(* A definition that goes through: the old block gives the name up to the   *)
(* new one, and keeps its XNBLK while it has another name.                  *)
LEMMA DefineFreeHolds ==
  ASSUME IInv, NEW n \in Names \ Protected, NEW new \in Blocks \cup {Undefined, Internal},
         Define(n, new), job.at \in {"idle", "define"},
         new \in Blocks => Callable(new), job.at = "define" => new = job.block
  PROVE  IInv'
<1> DEFINE old == vrfnc[n]
           freed == old \in Blocks /\ efuse'[old] = 0 /\ efcod[old] # None
<1>0. /\ vrfnc' = [vrfnc EXCEPT ![n] = new] /\ refused' = refused /\ job' = Idle
      /\ UNCHANGED <<heap, sig, static, xnhand>>
      /\ IF freed
         THEN /\ efcod' = [efcod EXCEPT ![old] = None]
              /\ refs' = [refs EXCEPT ![xnhand[efcod[old]]] = @ - 1]
              /\ xnfree' = <<efcod[old]>> \o xnfree
         ELSE UNCHANGED <<efcod, refs, xnfree>>
      /\ TypeOK /\ None \notin Nodes /\ heap \subseteq Blocks
  BY ExternalFunctionsAssumption DEF Define, Unload, IsExternal, IInv, TypeOK
<1>1. /\ efuse' \in [Blocks -> Int]
      /\ \A b \in Blocks : efuse'[b] = efuse[b] + (IF b = new THEN 1 ELSE 0)
                                       - (IF b = old THEN 1 ELSE 0)
  BY <1>0, DefineCounts
<1>2. /\ FreeOnce /\ OneEach /\ NotFree /\ NoneLost /\ LibsCounted
      /\ IsFiniteSet(static) /\ UseCounts /\ LoadedInUse
  BY NodesParts DEF IInv
<1>3. old \in Blocks => Callable(old)  BY DEF IInv, LoadedWhenCalled, IsExternal
<1>4. freed => /\ efcod[old] \in Nodes /\ efcod[old] \notin Free /\ efcod[old] \in static
               /\ \A b \in heap : b # old => efcod[b] # efcod[old]
  BY <1>2, <1>3 DEF Callable, NoneLost, OneEach
<1>5. /\ freed => efcod'[old] = None
      /\ \A b \in Blocks : ~(freed /\ b = old) => efcod'[b] = efcod[b]
  BY <1>0 DEF TypeOK
<1>6. /\ xnfree' \in Seq(static) /\ FreeOnce'
      /\ Free' = IF freed THEN Free \cup {efcod[old]} ELSE Free
  <2>1. xnfree \in Seq(static)  BY <1>0 DEF TypeOK
  <2>2. CASE freed  BY <1>0, <1>2, <1>4, <2>1, <2>2, PushFree
  <2>3. CASE ~freed  BY <1>0, <1>2, <2>1, <2>3 DEF Free, FreeOnce
  <2> QED BY <2>2, <2>3
<1>7. \A b \in heap : efuse'[b] - efuse[b] = Cardinality(Holders(b))' - Cardinality(Holders(b))
  <2> SUFFICES ASSUME NEW b \in heap
               PROVE  efuse'[b] - efuse[b]
                        = Cardinality(Holders(b))' - Cardinality(Holders(b))
    OBVIOUS
  <2>1. efuse[b] \in Int /\ Cardinality(Holders(b)) \in Nat
    BY <1>0, HoldersFinite DEF TypeOK
  <2>2. CASE new = old
    <3>1. vrfnc' = vrfnc  BY <1>0, <2>2 DEF TypeOK
    <3>2. Holders(b)' = Holders(b)  BY <3>1 DEF Holders
    <3>3. efuse'[b] = efuse[b]  BY <1>0, <1>1, <2>1, <2>2
    <3> QED BY <2>1, <3>2, <3>3
  <2>3. CASE new # old
    <3>1. vrfnc \in [Names -> Blocks \cup {Undefined, Internal}] /\ n \in Names
          /\ vrfnc' = [vrfnc EXCEPT ![n] = new] /\ new # vrfnc[n]
      BY <1>0, <2>3 DEF TypeOK
    <3>2. Cardinality(Holders(b))' = Cardinality(Holders(b))
            + (IF b = new THEN 1 ELSE 0) - (IF b = vrfnc[n] THEN 1 ELSE 0)
      BY <3>1, HoldersChange, ZenonT(90)
    <3> QED BY <1>0, <1>1, <2>1, <3>2
  <2> QED BY <2>2, <2>3
<1>8. UseCounts'
  <2> SUFFICES ASSUME NEW b \in heap
               PROVE  /\ efuse'[b] >= Cardinality(Holders(b))'
                      /\ efcod'[b] \in Nodes \ refused => efuse'[b] = Cardinality(Holders(b))'
    BY <1>0 DEF UseCounts
  <2>1. /\ efuse[b] \in Int /\ efuse'[b] \in Int /\ Cardinality(Holders(b)) \in Nat
        /\ efuse'[b] - efuse[b] = Cardinality(Holders(b))' - Cardinality(Holders(b))
    BY <1>0, <1>1, <1>7, HoldersFinite DEF TypeOK
  <2>2. Cardinality(Holders(b))' \in Nat
    <3>1. IsFiniteSet({m \in Names : vrfnc'[m] = b})
      BY ExternalFunctionsAssumption, FS_Subset
    <3> QED BY <3>1, FS_CardinalityType DEF Holders
  <2>3. efcod'[b] \in Nodes => efcod'[b] = efcod[b]  BY <1>0, <1>5
  <2> QED BY <1>2, <2>1, <2>2, <2>3 DEF UseCounts
<1>9. freed => \A m \in Names : vrfnc'[m] # old
  <2> SUFFICES ASSUME NEW b \in heap, b = old, efuse'[b] = 0,
                      NEW m \in Names, vrfnc'[m] = b
               PROVE  FALSE
    BY <1>3 DEF Callable
  <2>1. m \in Holders(b)' /\ IsFiniteSet(Holders(b)')
    BY ExternalFunctionsAssumption, FS_Subset DEF Holders
  <2>2. Cardinality(Holders(b)') \in Nat \ {0}
    BY <2>1, FS_CardinalityType, FS_EmptySet
  <2> QED BY <1>0, <1>8, <2>2 DEF UseCounts
<1>10. TypeOK' /\ IsFiniteSet(static)'
  <2>1. vrfnc' \in [Names -> Blocks \cup {Undefined, Internal}]  BY <1>0 DEF TypeOK
  <2>2. efcod' \in [Blocks -> Nodes \cup {None}] /\ refs' \in [Libs -> Int]
    <3>1. efcod \in [Blocks -> Nodes \cup {None}] /\ refs \in [Libs -> Int]
      BY <1>0 DEF TypeOK
    <3>2. CASE freed  BY <1>0, <3>1, <3>2
    <3>3. CASE ~freed  BY <1>0, <3>1, <3>3
    <3> QED BY <3>2, <3>3
  <2>3. job' \in Jobs  BY <1>0, IdleIsJob
  <2> QED BY <1>0, <1>1, <1>2, <1>6, <2>1, <2>2, <2>3 DEF TypeOK
<1>11. LoadedWhenCalled'
  <2> SUFFICES ASSUME NEW m \in Names, NEW b \in Blocks, vrfnc'[m] = b
               PROVE  b \in heap /\ efcod'[b] \in Nodes /\ efcod'[b] \notin Free'
    BY <1>0, IdleIsJob DEF LoadedWhenCalled, IsExternal, Callable
  <2>1. b = new \/ vrfnc[m] = b  BY <1>0 DEF TypeOK
  <2>2. Callable(b)  BY <2>1 DEF IInv, LoadedWhenCalled, IsExternal
  <2>3. freed => b # old  BY <1>9
  <2>4. efcod'[b] = efcod[b]  BY <1>5, <2>3
  <2>5. freed => efcod[b] # efcod[old]  BY <1>4, <2>2, <2>3 DEF Callable
  <2> QED BY <1>0, <1>6, <2>2, <2>4, <2>5 DEF Callable
<1>12. OneEach' /\ NotFree' /\ NoneLost'
  <2>1. CASE freed
    <3>1. old \in heap  BY <1>3, <2>1 DEF Callable
    <3>2. efcod'[old] = None /\ \A b \in heap : b # old => efcod'[b] = efcod[b]
      BY <1>0, <1>5, <2>1
    <3>3. None \notin Free'
      BY <1>0, <1>4, <1>6, <2>1 DEF TypeOK, Free
    <3>4. OneEach'
      <4> SUFFICES ASSUME NEW b \in heap, NEW c \in heap,
                          efcod'[b] = efcod'[c], efcod'[b] # None
                   PROVE  b = c
        BY <1>0 DEF OneEach
      <4>1. b # old /\ c # old  BY <3>2
      <4> QED BY <1>2, <3>2, <4>1 DEF OneEach
    <3>5. NotFree'
      <4> SUFFICES ASSUME NEW b \in heap PROVE efcod'[b] \notin Free \cup {efcod[old]}
        BY <1>0, <1>6, <2>1 DEF NotFree
      <4>1. CASE b = old  BY <1>0, <1>6, <2>1, <3>2, <3>3, <4>1
      <4>2. CASE b # old  BY <1>2, <1>4, <2>1, <3>2, <4>2 DEF NotFree
      <4> QED BY <4>1, <4>2
    <3>6. {efcod[b] : b \in heap \ {c \in heap : efcod[c] = None}}
            = {efcod'[b] : b \in heap \ {c \in heap : efcod'[c] = None}} \cup {efcod[old]}
      BY <1>4, <2>1, <3>1, <3>2
    <3>7. NoneLost'  BY <1>0, <1>2, <1>6, <2>1, <3>6 DEF NoneLost
    <3> QED BY <3>4, <3>5, <3>7
  <2>2. CASE ~freed
    BY <1>0, <1>2, <1>6, <2>2 DEF OneEach, NotFree, NoneLost
  <2> QED BY <2>1, <2>2
<1>13. LibsCounted'
  <2> SUFFICES ASSUME NEW l \in Libs
               PROVE  refs'[l] = Cardinality(Held(l))' + 0
    BY <1>0, IdleIsJob DEF LibsCounted
  <2>1. refs[l] = Cardinality(Held(l)) + 0  BY <1>2 DEF LibsCounted
  <2>2. IsFiniteSet(Held(l)) /\ Cardinality(Held(l)) \in Nat  BY <1>2, HeldFinite
  <2>3. CASE freed /\ xnhand[efcod[old]] = l
    <3>1. Held(l)' = Held(l) \ {efcod[old]} /\ efcod[old] \in Held(l)
      BY <1>0, <1>4, <1>6, <2>3 DEF Held
    <3>2. Cardinality(Held(l) \ {efcod[old]}) = Cardinality(Held(l)) - 1
      BY <2>2, <3>1, FS_RemoveElement
    <3>3. refs'[l] = refs[l] - 1  BY <1>0, <2>3 DEF TypeOK
    <3> QED BY <2>1, <2>2, <3>1, <3>2, <3>3
  <2>4. CASE ~(freed /\ xnhand[efcod[old]] = l)
    <3>1. Held(l)' = Held(l)
      BY <1>0, <1>4, <1>6, <2>4 DEF Held
    <3>2. refs'[l] = refs[l]  BY <1>0, <2>4 DEF TypeOK
    <3> QED BY <2>1, <3>1, <3>2
  <2> QED BY <2>3, <2>4
<1>14. NodesAccounted'
  BY <1>6, <1>12, <1>13
  DEF NodesAccounted, FreeOnce, OneEach, NotFree, NoneLost, LibsCounted, Held
<1>15. LoadedInUse'
  <2> SUFFICES ASSUME NEW b \in heap, efcod'[b] # None PROVE efuse'[b] > 0
    BY <1>0 DEF LoadedInUse
  <2>1. ~(freed /\ b = old) /\ efcod[b] # None  BY <1>0, <1>5
  <2>2. efuse[b] > 0 \/ (b = new /\ job.at = "define" /\ b = job.block)
    BY <1>2, <2>1 DEF LoadedInUse
  <2>3. efuse[b] \in Int /\ efuse'[b] \in Int
        /\ efuse'[b] = efuse[b] + (IF b = new THEN 1 ELSE 0) - (IF b = old THEN 1 ELSE 0)
    BY <1>0, <1>1 DEF TypeOK
  <2>4. efuse[b] > 0 => efuse'[b] >= 0  BY <2>3
  <2>5. b = old => efuse'[b] # 0  BY <1>0, <2>1
  <2>6. job.at = "define" /\ b = job.block => efuse[b] = 0 /\ b # old
    BY DEF IInv, LoadInv, Loading
  <2> QED BY <2>2, <2>3, <2>4, <2>5, <2>6
<1>16. ArgumentCopies' /\ CopyInv' /\ LoadInv'
  BY <1>0, IdleIsJob DEF ArgumentCopies, CopyInv, LoadInv, Loading
<1>17. ProtectedInv'
  BY <1>0 DEF IInv, ProtectedInv, TypeOK
<1> QED BY <1>8, <1>10, <1>11, <1>14, <1>15, <1>16, <1>17 DEF IInv

(* A definition that error 248 refuses: the new block has been counted for  *)
(* the name all the same, and its XNBLK goes down as stranded.              *)
LEMMA DefineRefusedHolds ==
  ASSUME IInv, NEW n \in Protected, NEW new \in Blocks \cup {Undefined, Internal},
         Define(n, new), job.at \in {"idle", "define"},
         new \in Blocks => Callable(new), job.at = "define" => new = job.block
  PROVE  IInv'
<1>0. /\ n \in Names /\ vrfnc[n] \notin Blocks /\ TypeOK /\ heap \subseteq Blocks
  BY ExternalFunctionsAssumption DEF IInv, ProtectedInv, TypeOK
<1>1. /\ vrfnc' = vrfnc /\ job' = Idle
      /\ refused' = IF new \in Blocks THEN refused \cup {efcod[new]} ELSE refused
      /\ UNCHANGED <<heap, sig, static, xnhand, efcod, refs, xnfree>>
  BY <1>0 DEF Define, IsExternal
<1>2. /\ efuse' \in [Blocks -> Int]
      /\ \A b \in Blocks : efuse'[b] = efuse[b] + IF b = new THEN 1 ELSE 0
  <2>1. \A b \in Blocks : b # vrfnc[n]  BY <1>0
  <2>2. \A b \in Blocks : efuse[b] \in Int  BY <1>0 DEF TypeOK
  <2> QED BY <1>0, <2>1, <2>2, DefineCounts
<1>3. Free' = Free /\ \A b : Holders(b)' = Holders(b)  BY <1>1 DEF Free, Holders
<1>4. new \in Blocks => efcod[new] \in Nodes /\ efcod[new] \in static
  <2>1. NoneLost /\ (None \notin Nodes)
    BY NodesParts, ExternalFunctionsAssumption DEF IInv
  <2> QED BY <2>1 DEF NoneLost, Callable
<1>5. TypeOK' /\ IsFiniteSet(static)'
  <2>1. refused' \subseteq Nodes  BY <1>0, <1>1, <1>4 DEF TypeOK
  <2> QED BY <1>0, <1>1, <1>2, <2>1, IdleIsJob DEF IInv, TypeOK
<1>6. LoadedWhenCalled'
  BY <1>1, <1>3, IdleIsJob DEF IInv, LoadedWhenCalled, Callable, IsExternal
<1>7. UseCounts'
  <2> SUFFICES ASSUME NEW b \in heap
               PROVE  /\ efuse'[b] >= Cardinality(Holders(b))
                      /\ efcod[b] \in Nodes \ refused' => efuse'[b] = Cardinality(Holders(b))
    BY <1>1, <1>3 DEF UseCounts
  <2>1. efuse[b] \in Int /\ Cardinality(Holders(b)) \in Nat
    BY <1>0, HoldersFinite DEF TypeOK
  <2>2. efuse'[b] = efuse[b] + IF b = new THEN 1 ELSE 0  BY <1>0, <1>2
  <2>3. b = new => efcod[b] \in refused'  BY <1>0, <1>1
  <2>4. refused \subseteq refused'  BY <1>1
  <2> QED BY <2>1, <2>2, <2>3, <2>4 DEF IInv, UseCounts
<1>8. NodesAccounted'
  <2>1. FreeOnce' /\ OneEach' /\ NotFree'
    BY <1>1, <1>3, NodesParts DEF IInv, FreeOnce, OneEach, NotFree
  <2>2. NoneLost'  BY <1>1, <1>3, <1>4, NodesParts DEF IInv, NoneLost
  <2>3. LibsCounted'
    <3>1. \A l : Held(l)' = Held(l)  BY <1>1, <1>3 DEF Held
    <3> QED BY <1>1, <3>1, IdleIsJob, NodesParts DEF IInv, LibsCounted
  <2> QED BY <2>1, <2>2, <2>3
    DEF NodesAccounted, FreeOnce, OneEach, NotFree, NoneLost, LibsCounted, Held
<1>9. LoadedInUse'
  <2> SUFFICES ASSUME NEW b \in heap, efcod[b] # None PROVE efuse'[b] > 0
    BY <1>1 DEF LoadedInUse
  <2>1. efuse[b] \in Int /\ efuse'[b] = efuse[b] + IF b = new THEN 1 ELSE 0
    BY <1>0, <1>2 DEF TypeOK
  <2>2. efuse[b] > 0 \/ b = new  BY DEF IInv, LoadedInUse
  <2>3. b = new => efuse[b] >= 0
    <3>1. efuse[b] >= Cardinality(Holders(b)) /\ Cardinality(Holders(b)) \in Nat
      BY HoldersFinite DEF IInv, UseCounts
    <3> QED BY <2>1, <3>1
  <2> QED BY <2>1, <2>2, <2>3
<1>10. ArgumentCopies' /\ CopyInv' /\ LoadInv' /\ ProtectedInv'
  BY <1>1, IdleIsJob DEF IInv, ArgumentCopies, CopyInv, LoadInv, Loading, ProtectedInv
<1> QED BY <1>5, <1>6, <1>7, <1>8, <1>9, <1>10 DEF IInv

(* The definitions of s_lod, s_ops, s_unl and s_def.                        *)
LEMMA DefineHolds ==
  ASSUME IInv, NEW n \in Names, NEW new \in Blocks \cup {Undefined, Internal},
         Define(n, new), job.at \in {"idle", "define"},
         new \in Blocks => Callable(new), job.at = "define" => new = job.block
  PROVE  IInv'
<1>1. CASE n \in Protected  BY <1>1, DefineRefusedHolds
<1>2. CASE n \notin Protected  BY <1>2, DefineFreeHolds
<1> QED BY <1>1, <1>2

(* s_lod defines the name with the block it has just loaded.                *)
LEMMA EndLoadHolds == ASSUME IInv, EndLoad PROVE IInv'
<1>1. job.at = "define" /\ Define(job.name, job.block)  BY DEF EndLoad
<1>2. job.name \in Names /\ job.block \in Blocks /\ Callable(job.block)
  BY <1>1 DEF IInv, LoadInv, Loading, Callable, TypeOK
<1> QED BY <1>1, <1>2, DefineHolds

(* s_ops defines it with the block of another name, or of the same one.     *)
LEMMA OpsynHolds == ASSUME IInv, NEW n \in Names, NEW m \in Names, Opsyn(n, m) PROVE IInv'
<1>1. job.at = "idle" /\ Define(n, vrfnc[m])  BY DEF Opsyn
<1>2. /\ vrfnc[m] \in Blocks \cup {Undefined, Internal}
      /\ vrfnc[m] \in Blocks => Callable(vrfnc[m])
  BY DEF IInv, TypeOK, LoadedWhenCalled, IsExternal
<1> QED BY <1>1, <1>2, DefineHolds

(* s_unl and s_def define it with a block that is never unloaded.           *)
LEMMA UnloadNameHolds ==
  ASSUME IInv, NEW n \in Names, UnloadName(n) \/ DefineProgram(n)
  PROVE  IInv'
<1>1. Undefined \notin Blocks /\ Internal \notin Blocks  BY ExternalFunctionsAssumption
<1>2. CASE UnloadName(n)  BY <1>1, <1>2, DefineHolds DEF UnloadName
<1>3. CASE DefineProgram(n)  BY <1>1, <1>3, DefineHolds DEF DefineProgram
<1> QED BY <1>2, <1>3

-----------------------------------------------------------------------------
(* Every step keeps the inductive invariant.                                *)
LEMMA NextHolds == ASSUME IInv, [EFNext]_vars PROVE IInv'
<1>1. CASE EFNext
  <2>1. CASE \E n \in Names, l \in Libs, s \in Sigs, b \in Blocks : BeginLoad(n, l, s, b)
    BY <2>1, BeginLoadHolds
  <2>2. CASE LoadMissing  BY <2>2, EndsHolds DEF LoadMissing
  <2>3. CASE LoadDll  BY <2>3, LoadDllHolds
  <2>4. CASE LoadEfFree  BY <2>4, LoadEfFreeHolds
  <2>5. CASE \E k \in Nodes : LoadEfNew(k)  BY <2>5, LoadEfNewHolds
  <2>6. CASE EndLoad  BY <2>6, EndLoadHolds
  <2>7. CASE \E n, m \in Names : Opsyn(n, m)  BY <2>7, OpsynHolds
  <2>8. CASE \E n \in Names : UnloadName(n) \/ DefineProgram(n)  BY <2>8, UnloadNameHolds
  <2>9. CASE \E n \in Names : Call(n)  BY <2>9, CallHolds
  <2>10. CASE ConvertFails  BY <2>10, EndsHolds DEF ConvertFails
  <2>11. CASE Convert  BY <2>11, ConvertHolds
  <2>12. CASE \E ok \in BOOLEAN : MarshalString(ok)  BY <2>12, MarshalStringHolds
  <2>13. CASE MarshalValue  BY <2>13, MarshalValueHolds
  <2>14. CASE \E alias \in 0..MaxArg : Invoke(alias)  BY <2>14, InvokeHolds
  <2>15. CASE Box  BY <2>15, BoxHolds
  <2>16. CASE EndCall  BY <2>16, EndCallHolds
  <2>17. CASE Collect  BY <2>17, CollectHolds
  <2> QED BY <1>1, <2>1, <2>2, <2>3, <2>4, <2>5, <2>6, <2>7, <2>8, <2>9, <2>10, <2>11, <2>12,
             <2>13, <2>14, <2>15, <2>16, <2>17 DEF EFNext
<1>2. CASE UNCHANGED vars
  <2>1. Free' = Free /\ Args' = Args  BY <1>2 DEF vars, Free, Args
  <2>2. TypeOK' /\ IsFiniteSet(static)' /\ ArgumentCopies' /\ CopyInv'
    BY <1>2, <2>1 DEF IInv, vars, TypeOK, ArgumentCopies, CopyInv
  <2>3. LoadedWhenCalled' /\ ProtectedInv' /\ LoadInv' /\ LoadedInUse'
    BY <1>2, <2>1
    DEF IInv, vars, LoadedWhenCalled, Callable, IsExternal, ProtectedInv, LoadInv, LoadedInUse
  <2>4. UseCounts'  BY <1>2 DEF IInv, vars, UseCounts, Holders
  <2>5. NodesAccounted'  BY <1>2, <2>1 DEF IInv, vars, NodesAccounted
  <2> QED BY <2>2, <2>3, <2>4, <2>5 DEF IInv
<1> QED BY <1>1, <1>2

(* So it holds in every state.                                              *)
LEMMA Invariance == EFSpec => []IInv
BY InitHolds, NextHolds, PTL DEF EFSpec

(* The tables and the operation in progress keep their types.               *)
THEOREM TypeCorrect == EFSpec => []TypeOK
<1>1. IInv => TypeOK  BY DEF IInv
<1> QED BY <1>1, Invariance, PTL

(* callef never follows an efcod that unldef has cleared, nor an EFBLK that *)
(* a collection took.                                                       *)
THEOREM CallsAreLoaded == EFSpec => []LoadedWhenCalled
<1>1. IInv => LoadedWhenCalled  BY DEF IInv
<1> QED BY <1>1, Invariance, PTL

(* dffnc's count is never below the names that hold the block, and is exact *)
(* unless error 248 came in between.                                        *)
THEOREM CountsAreUses == EFSpec => []UseCounts
<1>1. IInv => UseCounts  BY DEF IInv
<1> QED BY <1>1, Invariance, PTL

(* loadef and unldef lose no XNBLK, give none to two functions, and leave   *)
(* each library held once for each XNBLK in use.                            *)
THEOREM NodesAreAccounted == EFSpec => []NodesAccounted
<1>1. IInv => NodesAccounted  BY DEF IInv
<1> QED BY <1>1, Invariance, PTL

(* callef frees every argument copy on every way out, and none of them      *)
(* before a result that points into it is copied.                           *)
THEOREM CopiesAreFreed == EFSpec => []ArgumentCopies
<1>1. IInv => ArgumentCopies  BY DEF IInv
<1> QED BY <1>1, Invariance, PTL
=============================================================================
