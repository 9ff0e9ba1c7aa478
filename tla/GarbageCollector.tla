-------------------------- MODULE GarbageCollector --------------------------
(***************************************************************************)
(* The storage collector of the runtime: gbcol, gbcpf and blkln of sbl.min.*)
(*                                                                         *)
(* Memory is a function from word addresses to words.  An address is even; *)
(* the first word of a block, its entry word, is odd and says what kind of *)
(* block it is.  The collector uses the entry word of a block in use as    *)
(* the head of a chain through the fields that point to the block, the     *)
(* entry word itself at the end of it.  Blocks below gbcsd, the sediment,  *)
(* stay where they are and are marked by making their entry word even.     *)
(*                                                                         *)
(* Pass one (Field, Pop) chains the fields; pass two (Sediment, Used,      *)
(* Chain, Unused) gives every field its block's new address and builds a   *)
(* descriptor before each run of blocks in use; pass three (Move, Up)      *)
(* moves the runs.  One action is one turn of a loop.                      *)
(***************************************************************************)
EXTENDS Integers, Sequences, FiniteSets, FiniteSetsExt

CONSTANTS
  W,         (* The bytes of a word.                                             *)
  Cells,     (* The addresses of memory: the roots, gbcnm and the dynamic area.  *)
  Roots,     (* The sequence of root segments <<first cell, cell past the last>>.*)
  GbcNm,     (* The address of the word gbcnm; gbcns follows it.                 *)
  Kind,      (* For an entry word: len, from and to, the words of a block, its   *)
             (* first relocatable field and the one past its last; len = 0 says  *)
             (* that the length is in the second word and the fields go up to it,*)
             (* from = 0 that the block has no relocatable field.                *)
  GbSed      (* The factor that decides whether the sediment is kept (gbsed).    *)

Even(w) == w % 2 = 0

(* A word's address is a number of whole words. *)
Aligned(a) == a \in Nat /\ a % W = 0

RootCells == UNION { { a \in Cells : s[1] <= a /\ a < s[2] } : s \in { Roots[i] : i \in DOMAIN Roots } }

GbcNs == GbcNm + W

(* A block has at least two words, its entry word is no field, and its     *)
(* length word is none either; the segments of roots do not overlap.       *)
ASSUME GarbageCollectorAssumption ==
  /\ W \in Nat \ {0} /\ Even(W)
  /\ IsFiniteSet(Cells) /\ \A a \in Cells : Aligned(a)
  /\ Roots \in Seq(Nat \X Nat) /\ Roots # <<>>
  /\ \A i \in DOMAIN Roots :
       /\ Aligned(Roots[i][1]) /\ Aligned(Roots[i][2]) /\ Roots[i][1] < Roots[i][2]
       /\ \A a \in Roots[i][1] .. Roots[i][2] - 1 : Aligned(a) => a \in Cells
       /\ \A j \in DOMAIN Roots : i # j => Roots[i][2] <= Roots[j][1] \/ Roots[j][2] <= Roots[i][1]
  /\ {GbcNm, GbcNs} \subseteq Cells \ RootCells
  /\ \A e \in DOMAIN Kind :
       /\ e \in Nat /\ ~Even(e)
       /\ Kind[e].len \in Nat \ {1} /\ Kind[e].from \in Nat /\ Kind[e].to \in Nat
       /\ Kind[e].from # 0 /\ Kind[e].len # 0 => Kind[e].from < Kind[e].to /\ Kind[e].to <= Kind[e].len
       /\ Kind[e].from # 0 /\ Kind[e].len = 0 => Kind[e].from >= 2
  /\ GbSed \in Nat

VARIABLES
  mem,       (* the words of memory                                              *)
  dnamb,     (* start of the dynamic area                                        *)
  dnamp,     (* next available location in it                                    *)
  dnams,     (* size of the sediment                                             *)
  gpc,       (* the loop the collector is in, "out" between two collections      *)
  xr,        (* the field or the block it is at; gbcol's result                  *)
  wa,        (* pass two: the next link of the chain                             *)
  wc,        (* pass two: the eventual location                                  *)
  stk,       (* gbcpf's stack, innermost level first                             *)
  segs,      (* the root segments left                                           *)
  gbcsd,     (* first location past the sediment                                 *)
  gbcsf,     (* size of the free blocks in the sediment                          *)
  gbclm,     (* the last move descriptor                                         *)
  up,        (* gbsvb: the bytes to move up                                      *)
  before     (* memory as the collection found it, for the properties            *)

gcVars == <<mem, dnamb, dnamp, dnams, gpc, xr, wa, wc, stk, segs, gbcsd, gbcsf, gbclm, up, before>>

-----------------------------------------------------------------------------
(* Blocks. *)

(* blkln: the length of the block at x of memory m whose entry word is e. *)
BlkLn(m, e, x) == IF Kind[e].len = 0 THEN m[x + W] ELSE Kind[e].len * W

(* The fields of that block which gbcpf processes. *)
FirstField(e, x)   == x + Kind[e].from * W
PastField(m, e, x) == IF Kind[e].len = 0 THEN x + m[x + W] ELSE x + Kind[e].to * W

HasFields(e) == Kind[e].from # 0

InDynamic(w) == dnamb <= w /\ w < dnamp

-----------------------------------------------------------------------------
GcInit ==
  /\ gpc = "out"
  /\ xr = 0 /\ wa = 0 /\ wc = 0 /\ stk = <<>> /\ segs = <<>>
  /\ gbcsd = 0 /\ gbcsf = 0 /\ gbclm = 0 /\ up = 0
  /\ before = [mem |-> mem, dnamb |-> dnamb, dnamp |-> dnamp, dnams |-> 0]

(* The level gbcpf starts at on a segment: no field to come back to. *)
Level(field, limit) == [field |-> field, limit |-> limit]

(* gbcol is entered, to move the dynamic area up by n bytes, with a        *)
(* sediment of s bytes.                                                    *)
EnterAt(n, s) ==
  /\ gpc = "out"
  /\ gpc' = "fields"
  /\ up' = n /\ dnams' = s /\ gbcsd' = dnamb + s
  /\ segs' = Tail(Roots) /\ xr' = Roots[1][1] /\ stk' = <<Level(0, Roots[1][2])>>
  /\ before' = [mem |-> mem, dnamb |-> dnamb, dnamp |-> dnamp, dnams |-> s]
  /\ UNCHANGED <<mem, dnamb, dnamp, wa, wc, gbcsf, gbclm>>

(* Mutant: the sediment is kept although the area is moved. *)
EnterWithSediment(n, sediment) == EnterAt(n, sediment)

(* It collects the sediment too when it has to move it. *)
Enter(n, sediment) == EnterAt(n, IF n = 0 THEN sediment ELSE 0)

-----------------------------------------------------------------------------
(* Pass one: gbcpf.  Its loop tests for the end after a field, as if every   *)
(* segment and every block with relocatable fields had one: they have.       *)

(* Mutant: the fields that point to a block of the sediment are chained too. *)
LinkedAlways(x, w) == [mem EXCEPT ![x] = xr, ![xr] = w]

(* The field at xr, whose block is at x and has first word w, put on x's chain. *)
Linked(x, w) == IF x >= gbcsd THEN [mem EXCEPT ![x] = xr, ![xr] = w] ELSE mem

(* A block met for the first time: one of the sediment is marked. *)
Marked(x, w) == IF x < gbcsd THEN [mem EXCEPT ![x] = w + 1] ELSE Linked(x, w)

Field ==
  /\ gpc = "fields" /\ xr # stk[1].limit
  /\ LET x == mem[xr]
         w == mem[x]
     IN  IF ~InDynamic(x)
           THEN mem' = mem /\ xr' = xr + W /\ stk' = stk
         ELSE IF Even(w)
           THEN mem' = Linked(x, w) /\ xr' = xr + W /\ stk' = stk
         ELSE /\ mem' = Marked(x, w)
              /\ IF HasFields(w)
                   THEN /\ stk' = <<Level(xr, PastField(mem, w, x))>> \o stk
                        /\ xr' = FirstField(w, x)
                   ELSE stk' = stk /\ xr' = xr + W
  /\ UNCHANGED <<dnamb, dnamp, dnams, gpc, wa, wc, segs, gbcsd, gbcsf, gbclm, up, before>>

(* A block, or a segment of roots, is finished. *)
Pop ==
  /\ gpc = "fields" /\ xr = stk[1].limit
  /\ IF Len(stk) > 1
       THEN xr' = stk[1].field + W /\ stk' = Tail(stk) /\ UNCHANGED <<segs, gpc, gbcsf>>
     ELSE IF segs # <<>>
       THEN xr' = segs[1][1] /\ stk' = <<Level(0, segs[1][2])>> /\ segs' = Tail(segs)
          /\ UNCHANGED <<gpc, gbcsf>>
     ELSE xr' = dnamb /\ gbcsf' = 0 /\ stk' = <<>> /\ segs' = segs /\ gpc' = "sediment"
  /\ UNCHANGED <<mem, dnamb, dnamp, dnams, wa, wc, gbcsd, gbclm, up, before>>

-----------------------------------------------------------------------------
(* Pass two. *)

(* The sediment is scanned for its free blocks; then the blocks above it,   *)
(* the first run of which has gbcnm and gbcns for its descriptor.           *)
Sediment ==
  /\ gpc = "sediment"
  /\ IF xr # gbcsd
       THEN LET w == mem[xr] IN
            /\ mem' = IF Even(w) THEN [mem EXCEPT ![xr] = w - 1] ELSE mem
            /\ LET n == BlkLn(mem', mem'[xr], xr) IN
               xr' = xr + n /\ gbcsf' = IF Even(w) THEN gbcsf ELSE gbcsf + n
            /\ UNCHANGED <<gpc, wc, gbclm>>
       ELSE /\ gpc' = "used" /\ wc' = xr + up /\ gbclm' = GbcNm
            /\ mem' = [mem EXCEPT ![GbcNm] = 0, ![GbcNs] = xr]
            /\ UNCHANGED <<xr, gbcsf>>
  /\ UNCHANGED <<dnamb, dnamp, dnams, wa, stk, segs, gbcsd, up, before>>

(* Mutant: the operands of sub are exchanged. *)
RunLengthReversed == mem[gbclm + W] - xr

(* The length of the run that ends at xr: its descriptor holds its start. *)
RunLength == xr - mem[gbclm + W]

(* The next block of a run, or the end of the run, whose length is stored. *)
Used ==
  /\ gpc = "used"
  /\ IF xr # dnamp /\ Even(mem[xr])
       THEN gpc' = "chain" /\ wa' = mem[xr] /\ mem' = mem
       ELSE /\ gpc' = "unused" /\ wa' = wa
            /\ mem' = [mem EXCEPT ![gbclm + W] = RunLength]
  /\ UNCHANGED <<dnamb, dnamp, dnams, xr, wc, stk, segs, gbcsd, gbcsf, gbclm, up, before>>

(* A field of the chain gets the new address; at its end the entry word goes back. *)
Chain ==
  /\ gpc = "chain"
  /\ IF Even(wa)
       THEN mem' = [mem EXCEPT ![wa] = wc] /\ wa' = mem[wa] /\ UNCHANGED <<gpc, xr, wc>>
       ELSE /\ mem' = [mem EXCEPT ![xr] = wa]
            /\ LET n == BlkLn(mem', wa, xr) IN xr' = xr + n /\ wc' = wc + n
            /\ gpc' = "used" /\ wa' = wa
  /\ UNCHANGED <<dnamb, dnamp, dnams, stk, segs, gbcsd, gbcsf, gbclm, up, before>>

(* gbc10: pass three starts past the first run, which is in its place. *)
FirstGap == gbcsd + mem[GbcNs]

(* The next free block, or the next run: its descriptor is the two words before it. *)
Unused ==
  /\ gpc = "unused"
  /\ IF xr = dnamp
       THEN gpc' = "move" /\ xr' = FirstGap /\ UNCHANGED <<mem, wa, gbclm>>
     ELSE IF Even(mem[xr])
       THEN /\ gpc' = "chain" /\ wa' = mem[xr] /\ gbclm' = xr - 2 * W
            /\ mem' = [mem EXCEPT ![gbclm] = xr - 2 * W, ![xr - 2 * W] = 0, ![xr - W] = xr]
            /\ xr' = xr
     ELSE xr' = xr + BlkLn(mem, mem[xr], xr) /\ UNCHANGED <<gpc, mem, wa, gbclm>>
  /\ UNCHANGED <<dnamb, dnamp, dnams, wc, stk, segs, gbcsd, gbcsf, up, before>>

-----------------------------------------------------------------------------
(* Pass three. *)

(* mvw and mwb: n bytes from one place to another, whichever overlaps the other. *)
Moved(m, from, to, n) == [a \in Cells |-> IF to <= a /\ a < to + n THEN m[a - to + from] ELSE m[a]]

Move ==
  /\ gpc = "move"
  /\ LET d == mem[GbcNm] IN
     IF d = 0
       THEN gpc' = "up" /\ dnamp' = xr /\ UNCHANGED <<mem, xr>>
       ELSE /\ mem' = Moved([mem EXCEPT ![GbcNm] = mem[d]], d + 2 * W, xr, mem[d + W])
            /\ xr' = xr + mem[d + W]
            /\ UNCHANGED <<gpc, dnamp>>
  /\ UNCHANGED <<dnamb, dnams, wa, wc, stk, segs, gbcsd, gbcsf, gbclm, up, before>>

(* Mutant: only what is in use of the sediment counts. *)
SuggestedInUse(top, bottom) ==
  IF (gbcsf \div W) * GbSed > (top - bottom) \div W THEN 0 ELSE top - bottom - gbcsf
(* The value gbcol suggests for dnams: no sediment when much of it was free. *)
Suggested(top, bottom) ==
  IF (gbcsf \div W) * GbSed > (top - bottom) \div W THEN 0 ELSE top - bottom

Up ==
  /\ gpc = "up"
  /\ mem' = IF up = 0 THEN mem ELSE Moved(mem, dnamb, dnamb + up, dnamp - dnamb)
  /\ dnamb' = dnamb + up /\ dnamp' = dnamp + up
  /\ xr' = Suggested(dnamp', dnamb')
  /\ gbcsf' = (dnamp' - dnamb') \div W
  /\ gpc' = "exit"
  /\ UNCHANGED <<dnams, wa, wc, stk, segs, gbcsd, gbclm, up, before>>

Collect == Field \/ Pop \/ Sediment \/ Used \/ Chain \/ Unused \/ Move \/ Up

-----------------------------------------------------------------------------
(* What a collection is to do.                                             *)

(* The fields of the block at x of the memory m that gbcpf processes. *)
FieldCells(m, x) ==
  IF HasFields(m[x]) THEN { a \in Cells : FirstField(m[x], x) <= a /\ a < PastField(m, m[x], x) } ELSE {}

(* The blocks of m between two addresses: the starts met in scanning it. *)
Starts(m, bottom, top) ==
  LET Scan(S) == S \cup { x + BlkLn(m, m[x], x) : x \in { y \in S : y < top /\ m[y] \in DOMAIN Kind } }
      S[i \in 0 .. (top - bottom) \div W] == IF i = 0 THEN {bottom} ELSE Scan(S[i - 1])
  IN  S[(top - bottom) \div W]

Pointers(m, cells, bottom, top) == { m[a] : a \in cells } \cap (bottom .. top - 1)

(* The blocks a program can reach. *)
Reachable(m, bottom, top) ==
  LET Follow(S) == S \cup UNION { Pointers(m, FieldCells(m, x), bottom, top) : x \in S }
      R[i \in 0 .. (top - bottom) \div W] ==
        IF i = 0 THEN Pointers(m, RootCells, bottom, top) ELSE Follow(R[i - 1])
  IN  R[(top - bottom) \div W]

(* What the blocks at some places of m occupy together. *)
SumLen(m, S) == MapThenSumSet(LAMBDA x : BlkLn(m, m[x], x), S)

(* The blocks before the collection, those it kept in place, those in use. *)
OldBlocks == Starts(before.mem, before.dnamb, before.dnamp) \ {before.dnamp}
InUse     == Reachable(before.mem, before.dnamb, before.dnamp)
OldLen(x) == BlkLn(before.mem, before.mem[x], x)

SedimentEnd == before.dnamb + before.dnams

(* Where a block in use is to go: down on the blocks in use below it. *)
NewAddress(x) ==
  IF x < SedimentEnd THEN x + up
  ELSE SedimentEnd + SumLen(before.mem, { y \in InUse : SedimentEnd <= y /\ y < x }) + up

NewWord(w) == IF w \in InUse THEN NewAddress(w) ELSE w

-----------------------------------------------------------------------------
(* Properties.                                                             *)

(* When gbcol returns, every block in use is at its new address with the   *)
(* words it had, its pointers and those of the roots follow the blocks     *)
(* they pointed to, nothing lies between the blocks above the sediment,    *)
(* and the sediment can still be scanned.                                  *)
Compacted ==
  gpc = "exit" =>
    /\ \A x \in InUse :
         LET fields == FieldCells(before.mem, x) IN
         \A i \in 0 .. (OldLen(x) \div W) - 1 :
           LET a == x + i * W IN
           mem[NewAddress(x) + i * W] = IF a \in fields THEN NewWord(before.mem[a]) ELSE before.mem[a]
    /\ \A a \in RootCells : mem[a] = NewWord(before.mem[a])
    /\ dnamb = before.dnamb + up
    /\ dnamp = SedimentEnd + SumLen(before.mem, { x \in InUse : SedimentEnd <= x }) + up
    /\ \A x \in OldBlocks : x < SedimentEnd => mem[x + up] = before.mem[x]

(* The cells on the chain of the block at x, and the word at its end.      *)
ChainCells(x) ==
  LET Follow(S) == S \cup { mem[a] : a \in S \cap Cells }
      C[i \in 0 .. Cardinality(Cells)] == IF i = 0 THEN {mem[x]} ELSE Follow(C[i - 1])
  IN  C[Cardinality(Cells)]

(* In pass one a chain goes through fields that pointed to its block and   *)
(* ends in the entry word; a field or root of a block in use either still  *)
(* points to its block or is on its chain; blocks of the sediment have no  *)
(* chain; and no other word has changed.                                   *)
ChainsWellFormed ==
  gpc = "fields" =>
    LET above   == { x \in OldBlocks : x >= SedimentEnd }
        onChain == [x \in above |-> ChainCells(x)]
        fields  == RootCells \cup UNION { FieldCells(before.mem, x) : x \in InUse }
    IN  /\ \A x \in above :
             /\ before.mem[x] \in onChain[x]
             /\ \A a \in onChain[x] \ {before.mem[x]} : a \in fields /\ before.mem[a] = x
        /\ \A a \in fields : mem[a] = before.mem[a] \/ \E x \in above : a \in onChain[x]
        /\ \A a \in Cells \ (fields \cup OldBlocks) : mem[a] = before.mem[a]
=============================================================================
