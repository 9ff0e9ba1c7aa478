-------------------------- MODULE BufferedFileProofs --------------------------
(* The buffer stays consistent and typed through every call on the file, for *)
(* every buffer size, record size and number of failures; each record read   *)
(* or written, each SET, BACKSPACE and append does what it is to do; and the *)
(* buffered file implements the file without a buffer.                       *)
EXTENDS BufferedFile, TLAPS

-----------------------------------------------------------------------------
(* What the buffering primitives preserve, for every buffer size and file. *)

Good(fl) == fl \in FileState /\ Consistent(fl)

(* Only whether the file may be written tells a writer from a reader. *)
SameBuffer(fl, g) ==
  /\ g.data = fl.data /\ g.eof = fl.eof /\ g.buf = fl.buf /\ g.fill = fl.fill
  /\ g.next = fl.next /\ g.offset = fl.offset /\ g.dirty = fl.dirty

(* A descriptor moved within the file, and curpos with it, disturbs nothing. *)
LEMMA LseekGood ==
  ASSUME NEW fl, Good(fl), NEW p \in 0..MaxPos
  PROVE  Good(Lseek(fl, p)) /\ SameBuffer(fl, Lseek(fl, p)) /\ Lseek(fl, p).pos = p /\ Lseek(fl, p).curpos = p
  BY FileBufferAssumption
  DEF Good, FileState, Consistent, Layout, Tracked, Coherent, ReadOnly, InWindow, Lseek, SameBuffer

(* fsyncio moves the descriptor to the start of the buffer and nothing else. *)
LEMMA FsyncIOGood ==
  ASSUME NEW fl, Good(fl)
  PROVE  /\ Good(FsyncIO(fl)) /\ SameBuffer(fl, FsyncIO(fl))
         /\ FsyncIO(fl).pos = fl.offset /\ FsyncIO(fl).curpos = fl.offset
<1>1. fl.offset \in 0..MaxPos
  BY DEF Good, FileState
<1>2. Good(Lseek(fl, fl.offset)) /\ SameBuffer(fl, Lseek(fl, fl.offset))
      /\ Lseek(fl, fl.offset).pos = fl.offset /\ Lseek(fl, fl.offset).curpos = fl.offset
  BY <1>1, LseekGood
<1> QED
  BY <1>2 DEF FsyncIO, SameBuffer, Good, Consistent, Tracked

(* write puts n bytes of src at the descriptor. *)
LEMMA WriteGood ==
  ASSUME NEW fl, fl \in FileState, Tracked(fl),
         NEW k \in Nat, NEW src \in [0 .. k - 1 -> Byte],
         NEW n \in 0..k, fl.pos + n <= MaxPos
  PROVE  LET g == Write(fl, src, n) IN
         /\ g \in FileState /\ Tracked(g)
         /\ g.pos = fl.pos + n /\ fl.eof <= g.eof /\ (n > 0 => g.pos <= g.eof)
         /\ g.buf = fl.buf /\ g.fill = fl.fill /\ g.next = fl.next /\ g.offset = fl.offset
         /\ g.dirty = fl.dirty
         /\ \A i \in Positions :
              g.data[i] = IF fl.pos <= i /\ i < fl.pos + n THEN src[i - fl.pos] ELSE fl.data[i]
<1>1. CASE n = 0
  BY <1>1, FileBufferAssumption DEF Write, FileState, Positions, Tracked
<1>2. CASE n # 0
  <2> DEFINE data == [i \in Positions |->
                       IF fl.pos <= i /\ i < fl.pos + n THEN src[i - fl.pos] ELSE fl.data[i]]
  <2>0. fl.data \in [Positions -> Byte] /\ fl.pos \in Int
    BY FileBufferAssumption DEF FileState
  <2>1. data \in [Positions -> Byte]
    <3>1. \A i \in Positions : fl.pos <= i /\ i < fl.pos + n => src[i - fl.pos] \in Byte
      BY <2>0 DEF Positions
    <3> QED
      BY <2>0, <3>1
  <2>2. MaxOf(fl.eof, fl.pos + n) \in 0..MaxPos /\ MaxOf(fl.eof, fl.pos + n) >= fl.eof
        /\ MaxOf(fl.eof, fl.pos + n) >= fl.pos + n
    BY FileBufferAssumption DEF MaxOf, FileState
  <2>3. Write(fl, src, n) = [fl EXCEPT !.data = data, !.eof = MaxOf(fl.eof, fl.pos + n),
                                     !.pos = fl.pos + n, !.curpos = fl.curpos + n]
    BY <1>2 DEF Write
  <2> HIDE DEF data
  <2>4. fl.pos + n \in 0..MaxPos /\ fl.curpos + n = fl.pos + n
    BY FileBufferAssumption DEF FileState, Tracked
  <2>5. Write(fl, src, n) \in FileState /\ Write(fl, src, n).data = data
        /\ Write(fl, src, n).pos = fl.pos + n /\ Write(fl, src, n).curpos = fl.pos + n
        /\ Write(fl, src, n).eof = MaxOf(fl.eof, fl.pos + n)
    BY <2>1, <2>2, <2>3, <2>4 DEF FileState
  <2> QED
    BY <2>2, <2>3, <2>5 DEF Tracked, FileState, data
<1> QED
  BY <1>1, <1>2

(* flush empties the buffer and advances past it, however the write went. *)
LEMMA FlushGood ==
  ASSUME NEW fl, Good(fl), NEW w \in 0..fl.fill
  PROVE  LET g == Flush(fl, w) IN
         /\ Good(g)
         /\ g.fill = 0 /\ g.next = 0 /\ ~g.dirty
         /\ g.offset = fl.offset + fl.fill /\ g.buf = fl.buf /\ fl.eof <= g.eof
         /\ (~fl.dirty => g.data = fl.data /\ g.eof = fl.eof)
<1> DEFINE s == IF fl.dirty THEN (IF fl.fill = 0 THEN FsyncIO(fl) ELSE Write(FsyncIO(fl), fl.buf, w))
                ELSE fl
<1>1. s \in FileState /\ Tracked(s) /\ s.buf = fl.buf /\ s.fill = fl.fill /\ s.offset = fl.offset
      /\ fl.eof <= s.eof /\ (~fl.dirty => s = fl)
  <2>1. CASE ~fl.dirty
    BY <2>1 DEF Good, Consistent, FileState
  <2>2. CASE fl.dirty /\ fl.fill = 0
    BY <2>2, FsyncIOGood DEF Good, Consistent, SameBuffer, FileState
  <2>3. CASE fl.dirty /\ fl.fill # 0
    <3> DEFINE e == FsyncIO(fl)
    <3>1. e \in FileState /\ Tracked(e) /\ SameBuffer(fl, e) /\ e.pos = fl.offset
      BY FsyncIOGood DEF Good, Consistent
    <3> HIDE DEF e
    <3>2. fl.buf \in [0 .. Size - 1 -> Byte] /\ w \in 0..Size /\ fl.offset + w <= MaxPos /\ Size \in Nat
      BY FileBufferAssumption DEF Good, FileState, BufIndex, Consistent, Layout
    <3>3. Write(e, fl.buf, w) \in FileState /\ Tracked(Write(e, fl.buf, w))
          /\ Write(e, fl.buf, w).buf = e.buf /\ Write(e, fl.buf, w).fill = e.fill
          /\ Write(e, fl.buf, w).offset = e.offset /\ e.eof <= Write(e, fl.buf, w).eof
      BY <3>1, <3>2, WriteGood
    <3>4. s = Write(e, fl.buf, w)
      BY <2>3 DEF e
    <3> QED
      BY <3>1, <3>3, <3>4, <2>3 DEF SameBuffer
  <2> QED
    BY <2>1, <2>2, <2>3 DEF Good, FileState
<1> DEFINE g == [s EXCEPT !.dirty = FALSE, !.offset = fl.offset + fl.fill, !.next = 0, !.fill = 0]
<1>2. Flush(fl, w) = g
  BY DEF Flush
<1> HIDE DEF s
<1>3. fl.offset + fl.fill \in 0..MaxPos
  BY FileBufferAssumption DEF Good, FileState, Consistent, Layout
<1>4. g \in FileState
  <2>1. 0 \in 0..Size /\ FALSE \in BOOLEAN
    BY FileBufferAssumption
  <2> QED
    BY <1>1, <1>3, <2>1 DEF FileState
<1>5. g.fill = 0 /\ g.next = 0 /\ ~g.dirty /\ g.offset = fl.offset + fl.fill /\ g.buf = s.buf
      /\ g.data = s.data /\ g.eof = s.eof /\ g.pos = s.pos /\ g.curpos = s.curpos
  BY <1>1 DEF FileState
<1>6. Consistent(g)
  BY <1>1, <1>3, <1>4, <1>5 DEF Consistent, Layout, Tracked, Coherent, ReadOnly, InWindow, Positions, FileState
<1> QED
  BY <1>1, <1>2, <1>4, <1>5, <1>6 DEF Good

(* fillbuf loads an empty buffer with what the file holds at its offset. *)
LEMMA FillBufGood ==
  ASSUME NEW fl, Good(fl), fl.fill = 0
  PROVE  LET g == FillBuf(fl) IN
         /\ Good(g)
         /\ g.next = 0 /\ g.offset = fl.offset /\ g.dirty = fl.dirty
         /\ g.data = fl.data /\ g.eof = fl.eof
         /\ g.fill = Size \/ g.eof <= g.offset + g.fill
<1> DEFINE s == FsyncIO(fl)
           n == Available(s)
           b == [i \in BufIndex |-> IF i < n THEN s.data[s.pos + i] ELSE s.buf[i]]
           g == [s EXCEPT !.buf = b, !.pos = s.pos + n, !.curpos = s.curpos + n,
                          !.next = 0, !.fill = n]
<1>1. s \in FileState /\ SameBuffer(fl, s) /\ s.pos = fl.offset /\ s.curpos = fl.offset
  BY FsyncIOGood DEF Good, Consistent
<1>2. FillBuf(fl) = g
  BY DEF FillBuf
<1> HIDE DEF s
<1>3. n \in 0..Size /\ (n > 0 => s.pos + n <= s.eof) /\ s.pos + n <= MaxPos
      /\ (n = Size \/ s.eof <= s.pos + n)
  BY <1>1, FileBufferAssumption DEF Available, MinOf, FileState
<1> HIDE DEF n
<1>4. b \in [BufIndex -> Byte]
  BY <1>1, <1>3, FileBufferAssumption DEF BufIndex, FileState, Positions
<1>5. \A i \in Positions : s.pos <= i /\ i < s.pos + n => b[i - s.pos] = s.data[i]
  BY <1>1, <1>3, FileBufferAssumption DEF BufIndex, FileState, Positions
<1> HIDE DEF b
<1>6. g \in FileState
  <2>1. 0 \in 0..Size /\ s.pos + n \in 0..MaxPos /\ s.curpos = s.pos
    BY <1>1, <1>3, FileBufferAssumption DEF FileState
  <2> QED
    BY <1>1, <1>3, <1>4, <2>1 DEF FileState
<1>7. g.buf = b /\ g.pos = s.pos + n /\ g.curpos = s.pos + n /\ g.next = 0 /\ g.fill = n
      /\ g.offset = s.offset /\ g.data = s.data /\ g.eof = s.eof /\ g.dirty = s.dirty
  BY <1>1 DEF FileState
<1>8. s.offset = s.pos /\ (~IoOup => ~s.dirty) /\ n >= 0 /\ s.data = fl.data /\ s.eof = fl.eof
      /\ s.dirty = fl.dirty /\ s.offset = fl.offset
  BY <1>1, <1>3 DEF SameBuffer, Good, Consistent, ReadOnly
<1>9. Consistent(g)
  BY <1>3, <1>5, <1>7, <1>8 DEF Consistent, Layout, Tracked, Coherent, ReadOnly, InWindow, FileState
<1> QED
  BY <1>2, <1>3, <1>6, <1>7, <1>8, <1>9 DEF Good

-----------------------------------------------------------------------------
(* The start of the block that holds a position. *)
LEMMA BlockStart ==
  ASSUME NEW t \in Nat
  PROVE  /\ (t \div Size) * Size \in 0..t
         /\ t < (t \div Size) * Size + Size
<1>1. Size \in Nat /\ Size > 0
  BY FileBufferAssumption
<1> QED
  BY <1>1

(* A flushed file moved to the block of its target has an empty buffer there. *)
LEMMA AtBlockGood ==
  ASSUME NEW fl, Good(fl), fl.fill = 0, ~fl.dirty, NEW t \in 0..MaxPos
  PROVE  LET g == AtBlock(fl, t) IN
         /\ Good(g) /\ g.fill = 0 /\ ~g.dirty
         /\ g.offset \in 0..t /\ t < g.offset + Size
<1> DEFINE p == (t \div Size) * Size
           m == IF p # fl.curpos THEN Lseek(fl, p) ELSE fl
           g == [m EXCEPT !.offset = p]
<1>1. p \in 0..t /\ t < p + Size /\ p \in 0..MaxPos
  BY BlockStart, FileBufferAssumption
<1>2. AtBlock(fl, t) = g
  BY DEF AtBlock
<1> HIDE DEF p
<1>3. m \in FileState /\ Tracked(m) /\ SameBuffer(fl, m)
  BY <1>1, LseekGood DEF Good, Consistent, SameBuffer
<1> HIDE DEF m
<1>4. fl.next = 0 /\ fl.fill = 0 /\ ~fl.dirty
  BY DEF Good, Consistent, Layout, FileState
<1>5. g \in FileState /\ g.offset = p /\ g.fill = 0 /\ g.next = 0 /\ g.dirty = fl.dirty
      /\ g.pos = m.pos /\ g.curpos = m.curpos
  BY <1>1, <1>3, <1>4 DEF FileState, SameBuffer
<1>6. Consistent(g)
  BY <1>1, <1>3, <1>4, <1>5, FileBufferAssumption
  DEF Consistent, Layout, Tracked, Coherent, ReadOnly, InWindow, Positions
<1> QED
  BY <1>1, <1>2, <1>4, <1>5, <1>6 DEF Good

(* next set inside the buffer, or an output buffer stretched over a gap. *)
LEMMA PositionedGood ==
  ASSUME NEW fl, Good(fl), NEW t \in 0..MaxPos, fl.offset <= t, t < fl.offset + Size,
         fl.fill = Size \/ fl.eof <= fl.offset + fl.fill
  PROVE  LET g == Positioned(fl, t) IN Good(g) /\ Position(g) <= t
<1> DEFINE n == t - fl.offset
<1>1. n \in 0..Size /\ fl.offset + n = t /\ fl.fill \in 0..Size /\ fl.offset \in 0..MaxPos
  BY FileBufferAssumption DEF Good, FileState
<1> HIDE DEF n
<1>2. CASE n <= fl.fill
  <2>1. Positioned(fl, t) = [fl EXCEPT !.next = n]
    BY <1>2 DEF Positioned, n
  <2>2. [fl EXCEPT !.next = n] \in FileState
    BY <1>1 DEF Good, FileState
  <2> QED
    BY <1>1, <1>2, <2>1, <2>2
    DEF Good, FileState, Consistent, Layout, Tracked, Coherent, ReadOnly, InWindow, Position
<1>3. CASE n > fl.fill /\ IoOup
  <2>1. Positioned(fl, t) = [fl EXCEPT !.next = n, !.fill = n]
    BY <1>1, <1>3 DEF Positioned, n
  <2> DEFINE g == [fl EXCEPT !.next = n, !.fill = n]
  <2>2. g \in FileState
    BY <1>1 DEF Good, FileState
  <2>3. g.next = n /\ g.fill = n /\ g.offset = fl.offset /\ g.data = fl.data /\ g.eof = fl.eof
        /\ g.buf = fl.buf /\ g.pos = fl.pos /\ g.curpos = fl.curpos /\ g.dirty = fl.dirty
    BY DEF Good, FileState
  <2>4. fl.eof <= fl.offset + fl.fill /\ fl.eof \in Nat /\ n \in Nat
    BY <1>1, <1>3, FileBufferAssumption DEF Good, FileState, n
  <2>5. Coherent(g)
    BY <1>1, <1>3, <2>3, <2>4 DEF Good, Consistent, Coherent, InWindow, Positions
  <2> HIDE DEF g
  <2> QED
    BY <1>1, <1>3, <2>1, <2>2, <2>3, <2>5
    DEF g, Good, FileState, Consistent, Layout, Tracked, Coherent, ReadOnly, InWindow, Position
<1>4. CASE n > fl.fill /\ ~IoOup
  <2>1. Positioned(fl, t) = [fl EXCEPT !.next = fl.fill]
    BY <1>1, <1>4 DEF Positioned, n
  <2>2. [fl EXCEPT !.next = fl.fill] \in FileState
    BY <1>1 DEF Good, FileState
  <2> QED
    BY <1>1, <1>4, <2>1, <2>2
    DEF Good, FileState, Consistent, Layout, Tracked, Coherent, ReadOnly, InWindow, Position
<1> QED
  BY <1>1, <1>2, <1>3, <1>4

(* doset leaves a consistent buffer even when its write or its read fails, *)
(* and when it does not fail never goes beyond its target.                 *)
LEMMA DoSetGood ==
  ASSUME NEW fl, Good(fl), NEW t \in 0..MaxPos, NEW w \in 0..fl.fill, NEW r \in BOOLEAN
  PROVE  /\ Good(DoSet(fl, t, w, r))
         /\ ~DoSetFails(fl, t, w, r) => Position(DoSet(fl, t, w, r)) <= t
<1>1. CASE InBuffer(fl, t)
  <2>1. DoSet(fl, t, w, r) = [fl EXCEPT !.next = t - fl.offset]
    BY <1>1 DEF DoSet
  <2>2. t - fl.offset \in 0..Size /\ t - fl.offset <= fl.fill
    BY <1>1, FileBufferAssumption DEF InBuffer, Good, FileState
  <2>3. [fl EXCEPT !.next = t - fl.offset] \in FileState
    BY <2>2 DEF Good, FileState
  <2> QED
    BY <2>1, <2>2, <2>3, FileBufferAssumption
    DEF Good, FileState, Consistent, Layout, Tracked, Coherent, ReadOnly, InWindow, Position
<1>2. CASE ~InBuffer(fl, t)
  <2> DEFINE s == Flush(fl, w)
             b == AtBlock(s, t)
  <2>1. Good(s) /\ s.fill = 0 /\ ~s.dirty
    BY FlushGood
  <2>2. Good(b) /\ b.fill = 0 /\ b.offset \in 0..t /\ t < b.offset + Size
    BY <2>1, AtBlockGood
  <2>3. Good(FsyncIO(b)) /\ Good(FillBuf(b)) /\ FillBuf(b).offset = b.offset
        /\ (FillBuf(b).fill = Size \/ FillBuf(b).eof <= FillBuf(b).offset + FillBuf(b).fill)
    BY <2>2, FsyncIOGood, FillBufGood
  <2>4. FillBuf(b).offset <= t /\ t < FillBuf(b).offset + Size
    BY <2>2, <2>3
  <2>5. Good(Positioned(FillBuf(b), t)) /\ Position(Positioned(FillBuf(b), t)) <= t
    BY <2>3, <2>4, PositionedGood
  <2> HIDE DEF s, b
  <2>6. DoSet(fl, t, w, r) = IF FlushFails(fl, w) THEN s
                            ELSE IF ~r THEN FsyncIO(b) ELSE Positioned(FillBuf(b), t)
    BY <1>2 DEF DoSet, s, b
  <2>7. ~DoSetFails(fl, t, w, r) => DoSet(fl, t, w, r) = Positioned(FillBuf(b), t)
    BY <1>2, <2>6 DEF DoSetFails
  <2> QED
    BY <2>1, <2>3, <2>5, <2>6, <2>7
<1> QED
  BY <1>1, <1>2

-----------------------------------------------------------------------------
(* What the program sees of the file: its stored length and its bytes. *)
Keeps(fl, g) ==
  /\ KeptLength(g) = KeptLength(fl)
  /\ \A i \in 0 .. KeptLength(fl) - 1 : ByteAt(g, i) = ByteAt(fl, i)

(* The lengths of a consistent file, and which bytes the buffer hides. *)
LEMMA LengthFacts ==
  ASSUME NEW fl, Good(fl)
  PROVE  /\ KeptLength(fl) \in 0..MaxPos /\ SeenLength(fl) \in 0..MaxPos
         /\ fl.eof <= KeptLength(fl) /\ KeptLength(fl) <= SeenLength(fl)
         /\ fl.fill > 0 => SeenLength(fl) = MaxOf(fl.eof, fl.offset + fl.fill)
         /\ fl.fill = 0 => SeenLength(fl) = fl.eof /\ KeptLength(fl) = fl.eof
         /\ ~fl.dirty => KeptLength(fl) = fl.eof
         /\ fl.dirty => KeptLength(fl) = SeenLength(fl)
         /\ MaxPos \in Nat /\ Size \in Nat \ {0}
         /\ fl.offset \in 0..MaxPos /\ fl.fill \in 0..Size /\ fl.next \in 0..fl.fill
         /\ fl.eof \in 0..MaxPos /\ fl.offset + fl.fill <= MaxPos /\ fl.dirty \in BOOLEAN
         /\ Position(fl) \in 0..MaxPos
<1>1. /\ fl.offset \in 0..MaxPos /\ fl.fill \in 0..Size /\ fl.next \in 0..fl.fill
      /\ fl.eof \in 0..MaxPos /\ fl.offset + fl.fill <= MaxPos /\ MaxPos \in Nat
      /\ Size \in Nat \ {0}
  BY FileBufferAssumption DEF Good, FileState, Consistent, Layout
<1>2. fl.dirty \in BOOLEAN
  BY Zenon DEF Good, FileState
<1>3. EofPos(fl) = MaxOf(fl.eof, fl.offset + fl.fill) /\ MaxOf(fl.eof, fl.offset + fl.fill) \in 0..MaxPos
      /\ fl.eof <= MaxOf(fl.eof, fl.offset + fl.fill)
  BY <1>1 DEF EofPos, MaxOf
<1>4. /\ fl.fill > 0 => SeenLength(fl) = MaxOf(fl.eof, fl.offset + fl.fill)
      /\ fl.fill = 0 => SeenLength(fl) = fl.eof
  BY <1>1, <1>3 DEF SeenLength
<1>5. SeenLength(fl) \in 0..MaxPos /\ fl.eof <= SeenLength(fl)
  BY <1>1, <1>3, <1>4
<1>6. (fl.dirty => KeptLength(fl) = SeenLength(fl)) /\ (~fl.dirty => KeptLength(fl) = fl.eof)
  BY <1>2, Zenon DEF KeptLength
<1>7. KeptLength(fl) \in 0..MaxPos /\ fl.eof <= KeptLength(fl) /\ KeptLength(fl) <= SeenLength(fl)
  BY <1>1, <1>2, <1>5, <1>6
<1> QED
  BY <1>1, <1>2, <1>4, <1>5, <1>6, <1>7 DEF Position

(* A state that differs in the descriptor alone shows the same file. *)
LEMMA SameBufferKeeps ==
  ASSUME NEW fl, NEW g, SameBuffer(fl, g)
  PROVE  Keeps(fl, g) /\ SeenLength(g) = SeenLength(fl) /\ Position(g) = Position(fl)
<1>1. KeptLength(g) = KeptLength(fl) /\ SeenLength(g) = SeenLength(fl) /\ Position(g) = Position(fl)
  BY DEF SameBuffer, KeptLength, SeenLength, EofPos, Position
<1>2. \A i : ByteAt(g, i) = ByteAt(fl, i)
  BY DEF SameBuffer, ByteAt, InWindow
<1> QED
  BY <1>1, <1>2 DEF Keeps

(* What is kept through two steps is kept through both. *)
LEMMA KeepsTwice ==
  ASSUME NEW fl, NEW g, NEW h, Keeps(fl, g), Keeps(g, h)
  PROVE  Keeps(fl, h)
  BY DEF Keeps

(* Moving next inside the buffer shows the same file at another position. *)
LEMMA NextMoves ==
  ASSUME NEW fl, Good(fl), NEW n \in 0..fl.fill
  PROVE  LET g == [fl EXCEPT !.next = n] IN
         /\ Good(g) /\ Keeps(fl, g) /\ SeenLength(g) = SeenLength(fl)
         /\ Position(g) = fl.offset + n
         /\ g.next = n /\ g.fill = fl.fill /\ g.offset = fl.offset /\ g.buf = fl.buf /\ g.eof = fl.eof
         /\ g.dirty = fl.dirty /\ g.data = fl.data
<1> DEFINE g == [fl EXCEPT !.next = n]
<1>1. n \in 0..Size /\ n <= fl.fill
  BY FileBufferAssumption DEF Good, FileState
<1>2. g \in FileState /\ g.next = n /\ g.fill = fl.fill /\ g.offset = fl.offset /\ g.buf = fl.buf
      /\ g.eof = fl.eof /\ g.data = fl.data /\ g.pos = fl.pos /\ g.curpos = fl.curpos
  BY <1>1 DEF Good, FileState
<1>3. g.dirty = fl.dirty
  BY Zenon DEF Good, FileState
<1> HIDE DEF g
<1>4. Consistent(g)
  BY <1>1, <1>2, <1>3 DEF Good, Consistent, Layout, Tracked, Coherent, ReadOnly, InWindow
<1>5. KeptLength(g) = KeptLength(fl) /\ SeenLength(g) = SeenLength(fl)
  BY <1>2, <1>3 DEF KeptLength, SeenLength, EofPos
<1>6. \A i : ByteAt(g, i) = ByteAt(fl, i)
  BY <1>2 DEF ByteAt, InWindow
<1> QED
  BY <1>2, <1>3, <1>4, <1>5, <1>6 DEF Good, Keeps, Position, g

(* A byte inside the buffer is read from it. *)
LEMMA BufferByte ==
  ASSUME NEW fl, Good(fl), NEW i \in 0 .. fl.fill - 1
  PROVE  ByteAt(fl, fl.offset + i) = fl.buf[i]
<1>1. fl.offset \in Nat /\ fl.fill \in Nat
  BY LengthFacts, FileBufferAssumption
<1> QED
  BY <1>1 DEF ByteAt, InWindow

(* fillbuf shows the file as it was, and every byte it loads is a byte of it. *)
LEMMA FillBufKeeps ==
  ASSUME NEW fl, Good(fl), fl.fill = 0
  PROVE  LET g == FillBuf(fl) IN
         /\ Keeps(fl, g) /\ SeenLength(g) = fl.eof /\ Position(g) = fl.offset
         /\ g.fill > 0 => g.offset + g.fill <= g.eof
         /\ g.fill = 0 => g.eof <= g.offset
<1> DEFINE s == FsyncIO(fl)
           n == Available(s)
           b == [i \in BufIndex |-> IF i < n THEN s.data[s.pos + i] ELSE s.buf[i]]
           g == [s EXCEPT !.buf = b, !.pos = s.pos + n, !.curpos = s.curpos + n,
                          !.next = 0, !.fill = n]
<1>1. s \in FileState /\ SameBuffer(fl, s) /\ s.pos = fl.offset
  BY FsyncIOGood DEF Good, Consistent
<1>2. FillBuf(fl) = g
  BY DEF FillBuf
<1> HIDE DEF s
<1>3. n \in 0..Size /\ (n > 0 => s.pos + n <= s.eof) /\ (n = 0 => s.eof <= s.pos)
  BY <1>1, FileBufferAssumption DEF Available, MinOf, FileState
<1> HIDE DEF n
<1>4. \A i \in Int : s.pos <= i /\ i < s.pos + n => b[i - s.pos] = s.data[i]
  BY <1>1, <1>3, FileBufferAssumption DEF BufIndex, FileState
<1> HIDE DEF b
<1>5. g.buf = b /\ g.fill = n /\ g.offset = s.offset /\ g.data = s.data /\ g.eof = s.eof
      /\ g.next = 0
  BY <1>1 DEF FileState
<1>6. g.dirty = fl.dirty
  BY <1>1, Zenon DEF FileState, SameBuffer
<1> HIDE DEF g
<1>7. g.offset = fl.offset /\ g.offset = s.pos /\ g.data = fl.data /\ g.eof = fl.eof
  BY <1>1, <1>5 DEF SameBuffer
<1>8. Good(g)
  BY <1>2, FillBufGood
<1>9. SeenLength(g) = fl.eof
  BY <1>3, <1>5, <1>7, <1>8, LengthFacts DEF MaxOf
<1>10. KeptLength(g) = fl.eof /\ KeptLength(fl) = fl.eof
  BY <1>6, <1>7, <1>8, <1>9, LengthFacts
<1>11. \A i \in 0 .. KeptLength(fl) - 1 : ByteAt(g, i) = ByteAt(fl, i)
  <2> SUFFICES ASSUME NEW i \in 0 .. KeptLength(fl) - 1 PROVE ByteAt(g, i) = ByteAt(fl, i)
    OBVIOUS
  <2>1. i \in Int /\ fl.offset \in Int /\ n \in Int
    BY <1>3, LengthFacts
  <2>2. ByteAt(fl, i) = fl.data[i]
    BY <2>1 DEF ByteAt, InWindow
  <2>3. ByteAt(g, i) = g.data[i]
    BY <1>4, <1>5, <1>7, <2>1 DEF ByteAt, InWindow
  <2> QED
    BY <1>7, <2>2, <2>3
<1>12. Position(g) = fl.offset
  BY <1>1, <1>5, <1>7, FileBufferAssumption DEF Position, FileState
<1> QED
  BY <1>2, <1>3, <1>5, <1>7, <1>9, <1>10, <1>11, <1>12 DEF Keeps

(* flush stores what the program sees, all of it when its write is whole; *)
(* a write cut short stores no more than that.                            *)
LEMMA FlushKeeps ==
  ASSUME NEW fl, Good(fl), NEW w \in 0..fl.fill
  PROVE  LET g == Flush(fl, w) IN
         /\ ~FlushFails(fl, w) => Keeps(fl, g)
         /\ KeptLength(g) <= KeptLength(fl) /\ KeptLength(g) = g.eof
         /\ Position(g) = fl.offset + fl.fill
<1> DEFINE g == Flush(fl, w)
<1>0. Good(g) /\ g.fill = 0 /\ g.next = 0 /\ ~g.dirty /\ g.offset = fl.offset + fl.fill
      /\ (~fl.dirty => g.data = fl.data /\ g.eof = fl.eof)
  BY FlushGood
<1>1. KeptLength(g) = g.eof /\ Position(g) = fl.offset + fl.fill
  BY <1>0, LengthFacts DEF Position
<1>2. \A i \in Int : ByteAt(g, i) = g.data[i]
  <2>1. g.offset \in Int /\ g.offset + g.fill = g.offset
    BY <1>0, LengthFacts
  <2> HIDE DEF g
  <2> QED
    BY <2>1 DEF ByteAt, InWindow
<1>3. CASE ~fl.dirty
  <2>1. KeptLength(fl) = fl.eof
    BY <1>3, LengthFacts
  <2>2. \A i \in 0 .. fl.eof - 1 : ByteAt(fl, i) = fl.data[i]
    <3>1. fl.eof <= MaxPos /\ fl.eof \in Nat /\ MaxPos \in Nat
      BY LengthFacts
    <3> QED
      BY <1>3, <3>1 DEF ByteAt, Good, Consistent, Coherent, Positions
  <2> QED
    BY <1>0, <1>1, <1>2, <1>3, <2>1, <2>2, LengthFacts DEF Keeps
<1>4. CASE fl.dirty /\ fl.fill = 0
  <2>1. g.data = fl.data /\ g.eof = fl.eof
    <3> DEFINE e == FsyncIO(fl)
    <3>1. e \in FileState /\ SameBuffer(fl, e)
      BY FsyncIOGood DEF Good
    <3> HIDE DEF e
    <3>2. g = [e EXCEPT !.dirty = FALSE, !.offset = fl.offset + fl.fill, !.next = 0, !.fill = 0]
      BY <1>4 DEF Flush, e
    <3> QED
      BY <3>1, <3>2 DEF FileState, SameBuffer
  <2>2. KeptLength(fl) = fl.eof /\ \A i \in Int : ByteAt(fl, i) = fl.data[i]
    BY <1>4, LengthFacts DEF ByteAt, InWindow
  <2> QED
    BY <1>1, <1>2, <2>1, <2>2, LengthFacts DEF Keeps
<1>5. CASE fl.dirty /\ fl.fill # 0
  <2> DEFINE e == FsyncIO(fl)
             s == Write(e, fl.buf, w)
  <2>1. e \in FileState /\ Tracked(e) /\ SameBuffer(fl, e) /\ e.pos = fl.offset
    BY FsyncIOGood DEF Good, Consistent
  <2> HIDE DEF e
  <2>2. fl.buf \in [0 .. Size - 1 -> Byte] /\ w \in 0..Size /\ e.pos + w <= MaxPos /\ Size \in Nat
    BY <2>1, LengthFacts, SMTT(30) DEF Good, FileState, BufIndex
  <2>3. s \in FileState
        /\ \A i \in Positions :
             s.data[i] = IF e.pos <= i /\ i < e.pos + w THEN fl.buf[i - e.pos] ELSE e.data[i]
    BY <2>1, <2>2, WriteGood
  <2>4. s.eof = IF w = 0 THEN fl.eof ELSE MaxOf(fl.eof, fl.offset + w)
    BY <2>1 DEF Write, FileState, SameBuffer
  <2>5. g = [s EXCEPT !.dirty = FALSE, !.offset = fl.offset + fl.fill, !.next = 0, !.fill = 0]
    BY <1>5 DEF Flush, e
  <2> HIDE DEF s, g
  <2>6. g.data = s.data /\ g.eof = s.eof
    BY <2>3, <2>5 DEF FileState
  <2>7. KeptLength(fl) = MaxOf(fl.eof, fl.offset + fl.fill) /\ w \in Nat /\ w <= fl.fill
    BY <1>5, LengthFacts
  <2>8. KeptLength(g) <= KeptLength(fl)
    BY <1>1, <2>4, <2>6, <2>7, LengthFacts DEF MaxOf
  <2>9. ASSUME ~FlushFails(fl, w) PROVE Keeps(fl, g)
    <3>1. w = fl.fill
      BY <1>5, <2>7, <2>9, LengthFacts DEF FlushFails
    <3>2. KeptLength(g) = KeptLength(fl)
      BY <1>1, <1>5, <2>4, <2>6, <2>7, <3>1
    <3>3. ASSUME NEW i \in 0 .. KeptLength(fl) - 1 PROVE ByteAt(g, i) = ByteAt(fl, i)
      <4>1. i \in Positions
        BY <3>3, LengthFacts DEF Positions
      <4>2. g.data[i] = IF fl.offset <= i /\ i < fl.offset + fl.fill THEN fl.buf[i - fl.offset]
                        ELSE fl.data[i]
        BY <2>1, <2>3, <2>6, <3>1, <4>1 DEF SameBuffer
      <4> QED
        BY <1>2, <4>2 DEF ByteAt, InWindow
    <3> QED
      BY <3>2, <3>3 DEF Keeps
  <2> QED
    BY <1>1, <2>8, <2>9 DEF g
<1> QED
  BY <1>3, <1>4, <1>5

(* Moving an empty buffer to another block shows the same file. *)
LEMMA AtBlockKeeps ==
  ASSUME NEW fl, Good(fl), fl.fill = 0, ~fl.dirty, NEW t \in 0..MaxPos
  PROVE  Keeps(fl, AtBlock(fl, t)) /\ AtBlock(fl, t).eof = fl.eof
<1> DEFINE p == (t \div Size) * Size
           m == IF p # fl.curpos THEN Lseek(fl, p) ELSE fl
           g == [m EXCEPT !.offset = p]
<1>1. p \in 0..MaxPos
  BY BlockStart, FileBufferAssumption
<1>2. AtBlock(fl, t) = g
  BY DEF AtBlock
<1> HIDE DEF p
<1>3. m \in FileState /\ SameBuffer(fl, m)
  BY <1>1, LseekGood DEF Good, SameBuffer
<1> HIDE DEF m
<1>4. g.data = fl.data /\ g.eof = fl.eof
  BY <1>3 DEF FileState, SameBuffer
<1> HIDE DEF g
<1>6. Good(g) /\ g.fill = 0 /\ ~g.dirty
  BY <1>2, AtBlockGood
<1>5. \A i \in Int : ByteAt(g, i) = ByteAt(fl, i)
  <2>1. fl.offset \in Int /\ g.offset \in Int
    BY <1>6, LengthFacts
  <2> QED
    BY <1>4, <1>6, <2>1 DEF ByteAt, InWindow
<1> QED
  BY <1>2, <1>4, <1>5, <1>6, LengthFacts DEF Keeps

(* Setting next in a clean buffer of its block keeps the stored bytes, and *)
(* gets to the target where the file has bytes or may be given them.       *)
LEMMA PositionedKeeps ==
  ASSUME NEW fl, Good(fl), ~fl.dirty, NEW t \in 0..MaxPos, fl.offset <= t, t < fl.offset + Size,
         fl.fill = Size \/ fl.eof <= fl.offset + fl.fill,
         fl.fill > 0 => fl.offset + fl.fill <= fl.eof
  PROVE  LET g == Positioned(fl, t) IN
         /\ Keeps(fl, g) /\ g.eof = fl.eof
         /\ IoOup \/ t <= fl.eof => Position(g) = t
         /\ t < fl.eof => g.next < g.fill
         /\ SeenLength(g) \in {fl.eof, t} \cup {SeenLength(fl)}
<1> DEFINE n == t - fl.offset
<1>1. n \in 0..Size /\ fl.offset + n = t /\ n < Size /\ fl.fill \in 0..Size /\ fl.offset \in 0..MaxPos
      /\ fl.eof \in 0..MaxPos /\ MaxPos \in Nat /\ Size \in Nat
  BY LengthFacts
<1> HIDE DEF n
<1>2. CASE n <= fl.fill
  <2>1. Positioned(fl, t) = [fl EXCEPT !.next = n] /\ n \in 0..fl.fill
    BY <1>1, <1>2 DEF Positioned, n
  <2>2. t < fl.eof => n < fl.fill
    BY <1>1, <1>2
  <2> QED
    BY <1>1, <2>1, <2>2, NextMoves
<1>3. CASE n > fl.fill /\ IoOup
  <2> DEFINE g == [fl EXCEPT !.next = n, !.fill = n]
  <2>1. Positioned(fl, t) = g
    BY <1>1, <1>3 DEF Positioned, n
  <2>2. g.next = n /\ g.fill = n /\ g.offset = fl.offset /\ g.data = fl.data /\ g.eof = fl.eof
        /\ g.buf = fl.buf
    BY DEF Good, FileState
  <2>3. g.dirty = fl.dirty
    BY Zenon DEF Good, FileState
  <2>4. Good(g)
    BY <2>1, PositionedGood
  <2> HIDE DEF g
  <2>5. fl.eof <= fl.offset + fl.fill /\ fl.eof < t
    BY <1>1, <1>3
  <2>6. KeptLength(g) = fl.eof /\ KeptLength(fl) = fl.eof /\ SeenLength(g) = t
    BY <1>1, <1>3, <2>2, <2>3, <2>4, <2>5, LengthFacts DEF MaxOf
  <2>7. ASSUME NEW i \in 0 .. fl.eof - 1 PROVE ByteAt(g, i) = ByteAt(fl, i)
    BY <1>1, <1>3, <2>2, <2>5, <2>7 DEF ByteAt, InWindow
  <2> QED
    BY <1>1, <2>1, <2>2, <2>5, <2>6, <2>7 DEF Keeps, Position
<1>4. CASE n > fl.fill /\ ~IoOup
  <2>1. Positioned(fl, t) = [fl EXCEPT !.next = fl.fill]
    BY <1>1, <1>4 DEF Positioned, n
  <2>2. fl.eof < t
    BY <1>1, <1>4
  <2> QED
    BY <1>1, <1>4, <2>1, <2>2, NextMoves
<1> QED
  BY <1>1, <1>2, <1>3, <1>4

(* doset that does not fail keeps every stored byte and gets to its target *)
(* where the file has bytes or may be given them; one that fails may store *)
(* less than the program saw, never more.                                  *)
LEMMA DoSetKeeps ==
  ASSUME NEW fl, Good(fl), NEW t \in 0..MaxPos, NEW w \in 0..fl.fill, NEW r \in BOOLEAN
  PROVE  LET g == DoSet(fl, t, w, r) IN
         /\ KeptLength(g) <= KeptLength(fl)
         /\ ~DoSetFails(fl, t, w, r) =>
              /\ Keeps(fl, g)
              /\ SeenLength(g) \in {KeptLength(fl), SeenLength(fl), t}
              /\ IoOup \/ t <= KeptLength(fl) => Position(g) = t
              /\ ~InBuffer(fl, t) /\ t < KeptLength(fl) => g.next < g.fill
<1>1. CASE InBuffer(fl, t)
  <2>1. DoSet(fl, t, w, r) = [fl EXCEPT !.next = t - fl.offset]
    BY <1>1 DEF DoSet
  <2>2. t - fl.offset \in 0..fl.fill /\ fl.offset + (t - fl.offset) = t
    BY <1>1, LengthFacts DEF InBuffer
  <2>3. LET g == DoSet(fl, t, w, r) IN Keeps(fl, g) /\ SeenLength(g) = SeenLength(fl) /\ Position(g) = t
    BY <2>1, <2>2, NextMoves
  <2> QED
    BY <1>1, <2>3, LengthFacts DEF Keeps
<1>2. CASE ~InBuffer(fl, t)
  <2> DEFINE s == Flush(fl, w)
             b == AtBlock(s, t)
             u == FillBuf(b)
             p == Positioned(u, t)
  <2>1. Good(s) /\ s.fill = 0 /\ ~s.dirty
    BY FlushGood
  <2>2. KeptLength(s) <= KeptLength(fl) /\ KeptLength(s) = s.eof
        /\ (~FlushFails(fl, w) => Keeps(fl, s))
    BY FlushKeeps
  <2>3. Good(b) /\ b.fill = 0 /\ ~b.dirty /\ b.offset \in 0..t /\ t < b.offset + Size
    BY <2>1, AtBlockGood
  <2>4. Keeps(s, b) /\ b.eof = s.eof
    BY <2>1, AtBlockKeeps
  <2>5. Good(u) /\ u.offset = b.offset /\ u.eof = b.eof /\ (u.fill = Size \/ u.eof <= u.offset + u.fill)
    BY <2>3, FillBufGood
  <2>6. u.dirty = b.dirty
    BY <2>3, FillBufGood
  <2>7. Keeps(b, u) /\ (u.fill > 0 => u.offset + u.fill <= u.eof) /\ SeenLength(u) = b.eof
    BY <2>3, FillBufKeeps
  <2>8. ~u.dirty /\ u.offset <= t /\ t < u.offset + Size
    BY <2>3, <2>5, <2>6
  <2> HIDE DEF u
  <2>9. /\ Keeps(u, p) /\ p.eof = u.eof /\ (IoOup \/ t <= u.eof => Position(p) = t)
        /\ (t < u.eof => p.next < p.fill) /\ SeenLength(p) \in {u.eof, t} \cup {SeenLength(u)}
    BY <2>5, <2>7, <2>8, PositionedKeeps
  <2>10. Keeps(b, FsyncIO(b))
    BY <2>3, FsyncIOGood, SameBufferKeeps
  <2> HIDE DEF s, b, p
  <2>11. DoSet(fl, t, w, r) = IF FlushFails(fl, w) THEN s
                             ELSE IF ~r THEN FsyncIO(b) ELSE p
    BY <1>2 DEF DoSet, s, b, u, p
  <2>12. ASSUME ~DoSetFails(fl, t, w, r)
         PROVE  DoSet(fl, t, w, r) = p /\ Keeps(fl, s)
    BY <1>2, <2>2, <2>11, <2>12 DEF DoSetFails
  <2>13. KeptLength(b) = KeptLength(s) /\ KeptLength(FsyncIO(b)) = KeptLength(b)
         /\ KeptLength(u) = KeptLength(b) /\ KeptLength(p) = KeptLength(u)
    BY <2>4, <2>7, <2>9, <2>10 DEF Keeps
  <2>14. KeptLength(DoSet(fl, t, w, r)) <= KeptLength(fl)
    BY <2>2, <2>11, <2>13
  <2>15. ASSUME ~DoSetFails(fl, t, w, r)
         PROVE  LET g == DoSet(fl, t, w, r) IN
                /\ Keeps(fl, g)
                /\ SeenLength(g) \in {KeptLength(fl), SeenLength(fl), t}
                /\ IoOup \/ t <= KeptLength(fl) => Position(g) = t
                /\ ~InBuffer(fl, t) /\ t < KeptLength(fl) => g.next < g.fill
    <3>1. Keeps(fl, p)
      <4>1. Keeps(fl, b)  BY <2>4, <2>12, <2>15, KeepsTwice
      <4>2. Keeps(fl, u)  BY <2>7, <4>1, KeepsTwice
      <4> QED  BY <2>9, <4>2, KeepsTwice
    <3>2. u.eof = KeptLength(fl) /\ SeenLength(u) = u.eof
      BY <2>2, <2>4, <2>5, <2>7, <2>12, <2>15 DEF Keeps
    <3> QED
      BY <2>9, <2>12, <2>15, <3>1, <3>2
  <2> QED
    BY <2>14, <2>15
<1> QED
  BY <1>1, <1>2

(* A seek inside the buffer leaves it dirty or clean; one that reloads it leaves *)
(* it clean, and a clean file keeps its length.                                  *)
LEMMA DoSetClean ==
  ASSUME NEW fl, Good(fl), NEW t \in 0..MaxPos, NEW w \in 0..fl.fill, NEW r \in BOOLEAN
  PROVE  LET g == DoSet(fl, t, w, r) IN
         /\ g.dirty => fl.dirty /\ InBuffer(fl, t)
         /\ ~fl.dirty => g.eof = fl.eof
<1>1. CASE InBuffer(fl, t)
  <2>1. DoSet(fl, t, w, r) = [fl EXCEPT !.next = t - fl.offset]
    BY <1>1 DEF DoSet
  <2>2. t - fl.offset \in 0..fl.fill
    BY <1>1, LengthFacts DEF InBuffer
  <2>3. DoSet(fl, t, w, r).dirty = fl.dirty /\ DoSet(fl, t, w, r).eof = fl.eof
    BY <2>1, <2>2, NextMoves
  <2> QED
    BY <1>1, <2>3, Zenon
<1>2. CASE ~InBuffer(fl, t)
  <2> DEFINE s == Flush(fl, w)
             b == AtBlock(s, t)
             u == FillBuf(b)
             p == Positioned(u, t)
  <2>1. Good(s) /\ s.fill = 0 /\ ~s.dirty /\ (~fl.dirty => s.eof = fl.eof)
    BY FlushGood
  <2>2. Good(b) /\ b.fill = 0 /\ ~b.dirty
    BY <2>1, AtBlockGood
  <2>3. b.eof = s.eof
    BY <2>1, AtBlockKeeps
  <2>4. Good(u) /\ u.eof = b.eof /\ u.dirty = b.dirty
    BY <2>2, FillBufGood
  <2>5. FsyncIO(b).eof = b.eof /\ FsyncIO(b).dirty = b.dirty
    BY <2>2, FsyncIOGood DEF SameBuffer
  <2> HIDE DEF s, b, u
  <2>6. p.eof = u.eof
    BY <2>4 DEF Positioned, Good, FileState
  <2>7. p.dirty = u.dirty
    BY <2>4, Zenon DEF Positioned, Good, FileState
  <2>8. ~u.dirty /\ ~FsyncIO(b).dirty
    BY <2>2, <2>4, <2>5
  <2> HIDE DEF p
  <2>9. DoSet(fl, t, w, r) = IF FlushFails(fl, w) THEN s
                            ELSE IF ~r THEN FsyncIO(b) ELSE p
    BY <1>2 DEF DoSet, s, b, u, p
  <2> QED
    BY <2>1, <2>3, <2>4, <2>5, <2>6, <2>7, <2>8, <2>9
<1> QED
  BY <1>1, <1>2

(* A seek that fails to read, from a clean buffer, shows what is stored. *)
LEMMA DoSetFailsKeeps ==
  ASSUME NEW fl, Good(fl), ~fl.dirty, NEW t \in 0..MaxPos, NEW w \in 0..fl.fill, NEW r \in BOOLEAN,
         DoSetFails(fl, t, w, r)
  PROVE  LET g == DoSet(fl, t, w, r) IN Keeps(fl, g) /\ SeenLength(g) = KeptLength(fl)
<1> DEFINE s == Flush(fl, w)
           b == AtBlock(s, t)
<1>1. ~FlushFails(fl, w) /\ ~InBuffer(fl, t) /\ ~r
  BY DEF FlushFails, DoSetFails
<1>2. Good(s) /\ s.fill = 0 /\ ~s.dirty /\ Keeps(fl, s)
  BY <1>1, FlushGood, FlushKeeps
<1>3. Good(b) /\ b.fill = 0 /\ Keeps(s, b)
  BY <1>2, AtBlockGood, AtBlockKeeps
<1>4. Keeps(b, FsyncIO(b)) /\ SeenLength(FsyncIO(b)) = SeenLength(b)
  BY <1>3, FsyncIOGood, SameBufferKeeps
<1>5. DoSet(fl, t, w, r) = FsyncIO(b)
  BY <1>1 DEF DoSet
<1> HIDE DEF b, s
<1>6. SeenLength(b) = KeptLength(b)
  BY <1>3, LengthFacts
<1>7. Keeps(fl, b)
  BY <1>2, <1>3, KeepsTwice
<1>8. Keeps(fl, FsyncIO(b))
  BY <1>4, <1>7, KeepsTwice
<1> QED
  BY <1>4, <1>5, <1>6, <1>7, <1>8 DEF Keeps

-----------------------------------------------------------------------------
(* The calls on the file.                                                   *)

(* The parts of IInv, and what they say of the arguments of a call. *)
LEMMA IInvFacts ==
  ASSUME IInv
  PROVE  /\ Good(f)
         /\ f.fill \in 0..Size /\ f.next \in 0..f.fill /\ f.offset \in 0..MaxPos
         /\ f.eof \in 0..MaxPos /\ f.buf \in [BufIndex -> Byte]
         /\ Position(f) \in 0..MaxPos /\ EofPos(f) \in 0..MaxPos
         /\ Size \in Nat \ {0} /\ MaxPos \in Nat
<1>1. Good(f)
  BY DEF IInv, TypeOK, BufferConsistent, Good
<1>2. Size \in Nat \ {0} /\ MaxPos \in Nat
  BY FileBufferAssumption
<1>3. f.fill \in 0..Size /\ f.next \in 0..f.fill /\ f.offset \in 0..MaxPos
      /\ f.eof \in 0..MaxPos /\ f.buf \in [BufIndex -> Byte] /\ f.offset + f.fill <= MaxPos
  BY <1>1, <1>2 DEF Good, FileState, Consistent, Layout
<1> QED
  BY <1>1, <1>2, <1>3 DEF Position, EofPos, MaxOf

(* What is known of a call in progress.                                     *)
LEMMA CallFacts ==
  ASSUME IInv
  PROVE  /\ call.op = "input" => call.mode \in {0, 1} /\ call.rsz \in RecSizes
         /\ call.op = "output" => call.mode \in {0, 1} /\ call.rsz \in RecSizes
         /\ call.op = "backspace" => call.mode \in {0, 1} /\ call.rsz \in RecSizes
         /\ call.op = "set" => call.off \in Int /\ call.whence \in Whence
         /\ RecSizes \subseteq Nat \ {0}
  BY BufferedFileAssumption DEF IInv, TypeOK, Calls, NoCall

(* The outcomes of a system call are within its bounds, and it fails only  *)
(* while failures are left.                                                *)
LEMMA OutcomeFacts ==
  ASSUME IInv
  PROVE  /\ \A n \in Nat : \A w \in Outcomes(n) : w \in 0..n /\ (w # n => faults + 1 \in 0..MaxFaults)
         /\ \A r \in ReadOutcomes : r \in BOOLEAN /\ (~r => faults + 1 \in 0..MaxFaults)
         /\ faults \in 0..MaxFaults
<1>1. faults \in 0..MaxFaults /\ MaxFaults \in Nat
  BY BufferedFileAssumption DEF IInv, TypeOK
<1>2. ASSUME NEW n \in Nat, NEW w \in Outcomes(n)
      PROVE  w \in 0..n /\ (w # n => faults + 1 \in 0..MaxFaults)
  BY <1>1 DEF Outcomes
<1>3. ASSUME NEW r \in ReadOutcomes
      PROVE  r \in BOOLEAN /\ (~r => faults + 1 \in 0..MaxFaults)
  <2>1. CASE faults < MaxFaults
    <3>1. faults + 1 \in 0..MaxFaults
      BY <1>1, <2>1
    <3> QED
      BY <1>3, <2>1, <3>1, Zenon DEF ReadOutcomes
  <2>2. CASE ~(faults < MaxFaults)
    BY <1>3, <2>2, Zenon DEF ReadOutcomes
  <2> QED
    BY <2>1, <2>2
<1> QED
  BY <1>1, <1>2, <1>3

(* A seek of the file keeps the invariant, and counts its failure. *)
LEMMA DoSetStep ==
  ASSUME IInv, NEW s, Good(s), s.fill = f.fill,
         NEW t \in 0..MaxPos, NEW w \in Outcomes(f.fill), NEW r \in ReadOutcomes
  PROVE  /\ Good(DoSet(s, t, w, r))
         /\ ~DoSetFails(s, t, w, r) => Position(DoSet(s, t, w, r)) <= t
         /\ DoSetFails(s, t, w, r) => faults + 1 \in 0..MaxFaults
<1>1. w \in 0..f.fill /\ r \in BOOLEAN /\ (w # f.fill => faults + 1 \in 0..MaxFaults)
      /\ (~r => faults + 1 \in 0..MaxFaults)
  BY OutcomeFacts, IInvFacts
<1> QED
  BY <1>1, IInvFacts, DoSetGood DEF DoSetFails, FlushFails

-----------------------------------------------------------------------------
(* The beginnings of the calls. *)
LEMMA BeginsKeepIInv ==
  ASSUME IInv, BeginCall
  PROVE  IInv'
<1> USE IInvFacts DEF IInv, TypeOK, BufferConsistent, Begin, Labels
<1>1. CASE BeginOpen
  BY <1>1, FileBufferAssumption, BufferedFileAssumption DEF BeginOpen, CallInv, Calls
<1>2. CASE BeginInput
  <2> PICK m \in {0, 1}, z \in RecSizes :
        open /\ IoInp /\ Begin([op |-> "input", mode |-> m, rsz |-> z, start |-> Position(f)],
                               IF m = 1 THEN "copy" ELSE "raw")
    BY <1>2 DEF BeginInput
  <2> DEFINE c == [op |-> "input", mode |-> m, rsz |-> z, start |-> Position(f)]
  <2>1. c \in Calls /\ c.op = "input" /\ c.rsz \in Nat
    BY BufferedFileAssumption DEF Calls
  <2>2. Len(got) = 0
    BY <1>2 DEF CallInv
  <2> HIDE DEF c
  <2> QED
    BY <2>1, <2>2 DEF CallInv, c
<1>3. CASE BeginOutput
  BY <1>3, BufferedFileAssumption DEF BeginOutput, CallInv, Calls
<1>4. CASE BeginSet
  <2> PICK h \in Whence, off \in -MaxPos .. MaxPos :
        /\ Target(f, off, h) <= MaxPos
        /\ Begin([op |-> "set", off |-> off, whence |-> h, start |-> Position(f), end |-> SeenLength(f)],
                 "seek")
    BY <1>4 DEF BeginSet
  <2> DEFINE c == [op |-> "set", off |-> off, whence |-> h, start |-> Position(f), end |-> SeenLength(f)]
  <2>1. c \in Calls /\ c.op = "set" /\ c.off = off /\ c.whence = h
    BY DEF Calls, SeenLength
  <2>2. UNCHANGED <<f, open, got, line, rest, ret, faults>> /\ pc' = "seek" /\ call' = c
    OBVIOUS
  <2> HIDE DEF c
  <2>3. Target(f', call'.off, call'.whence) <= MaxPos
    BY <2>1, <2>2
  <2> QED
    BY <2>1, <2>2, <2>3 DEF CallInv
<1>5. CASE BeginRewind
  BY <1>5 DEF BeginRewind, CallInv, Calls
<1>6. CASE BeginBackspace
  BY <1>6 DEF BeginBackspace, CallInv, Calls
<1>7. CASE BeginEndfile
  BY <1>7 DEF BeginEndfile, CallInv, Calls
<1> QED
  BY <1>1, <1>2, <1>3, <1>4, <1>5, <1>6, <1>7 DEF BeginCall

-----------------------------------------------------------------------------
(* The steps of osread. *)
LEMMA RefillKeepsIInv ==
  ASSUME IInv, Refill
  PROVE  IInv'
<1> USE DEF IInv, TypeOK, BufferConsistent
<1>1. PICK w \in Outcomes(f.fill), r \in ReadOutcomes :
        LET s == Flush(f, w) IN
        IF FlushFails(f, w) THEN f' = s /\ Abort(2)
        ELSE IF ~r          THEN f' = FsyncIO(s) /\ Abort(2)
        ELSE /\ f' = FillBuf(s)
             /\ IF f'.fill = 0 THEN Finish(EofExit) ELSE UNCHANGED <<pc, ret>>
             /\ faults' = faults
  BY DEF Refill
<1>2. w \in 0..f.fill /\ (w # f.fill => faults + 1 \in 0..MaxFaults)
      /\ (~r => faults + 1 \in 0..MaxFaults)
  BY OutcomeFacts, IInvFacts
<1>3. Good(Flush(f, w)) /\ Flush(f, w).fill = 0
  BY <1>2, IInvFacts, FlushGood
<1>4. Good(FsyncIO(Flush(f, w))) /\ Good(FillBuf(Flush(f, w)))
  BY <1>3, FsyncIOGood, FillBufGood
<1>5. Good(f')
  BY <1>1, <1>3, <1>4
<1>6. faults' \in 0..MaxFaults
  BY <1>1, <1>2, OutcomeFacts DEF Abort, FlushFails
<1>7. pc' \in {pc, "done"} /\ ret' \in 0..5 /\ pc \in {"copy", "discard", "raw"}
  BY <1>1 DEF Refill, Reading, Abort, Finish, EofExit
<1>8. UNCHANGED <<open, call, got, line, rest>>
  BY DEF Refill
<1> QED
  BY <1>5, <1>6, <1>7, <1>8 DEF CallInv, Good, Labels

(* Bytes taken from inside the buffer lengthen the record. *)
LEMMA TakenFacts ==
  ASSUME IInv, NEW n \in Nat, f.next + n <= f.fill
  PROVE  /\ got \o Taken(n) \in Seq(Byte)
         /\ Len(got \o Taken(n)) = Len(got) + n
         /\ Taken(n) \in Seq(Byte) /\ Len(Taken(n)) = n
         /\ Good([f EXCEPT !.next = f.next + n])
<1>1. ASSUME NEW i \in 1..n PROVE f.buf[f.next + i - 1] \in Byte
  <2>1. /\ f.next \in 0..f.fill /\ f.fill \in 0..Size /\ Size \in Nat
        /\ f.buf \in [BufIndex -> Byte]
    BY IInvFacts
  <2>2. f.next + i - 1 \in BufIndex
    BY <2>1 DEF BufIndex
  <2> QED
    BY <2>1, <2>2
<1>2. Taken(n) \in Seq(Byte) /\ Len(Taken(n)) = n
  <2>1. Taken(n) \in [1..n -> Byte]
    BY <1>1, Zenon DEF Taken
  <2>2. \A t \in [1..n -> Byte] : t \in Seq(Byte) /\ Len(t) = n
    OBVIOUS
  <2> QED
    BY <2>1, <2>2
<1>3. [f EXCEPT !.next = f.next + n] \in FileState
  BY IInvFacts DEF Good, FileState
<1>4. Good([f EXCEPT !.next = f.next + n])
  BY <1>3, IInvFacts
  DEF Good, FileState, Consistent, Layout, Tracked, Coherent, ReadOnly, InWindow
<1>5. got \in Seq(Byte)
  BY DEF IInv, TypeOK
<1> QED
  BY <1>2, <1>4, <1>5

(* Copying a line keeps it.                                                 *)
LEMMA CopyLineKeepsIInv ==
  ASSUME IInv, CopyLine
  PROVE  IInv'
<1> USE DEF IInv, TypeOK, BufferConsistent
<1> DEFINE most == MinOf(call.rsz - Len(got), f.fill - f.next)
<1>1. PICK n \in 0..most :
        /\ got' = got \o Taken(n)
        /\ f' = [f EXCEPT !.next = f.next + n]
        /\ pc' = IF n = most /\ Len(got) + n < call.rsz THEN "copy" ELSE "discard"
  BY DEF CopyLine
<1>2. call.rsz \in Nat /\ Len(got) \in Nat /\ pc = "copy" /\ call.op = "input"
  BY CallFacts DEF CopyLine, CallInv
<1>0. f.fill \in Nat /\ f.next \in 0..f.fill
  BY IInvFacts
<1> HIDE DEF IInv, TypeOK, BufferConsistent
<1>3. n \in Nat /\ f.next + n <= f.fill /\ Len(got) + n <= call.rsz
  BY <1>0, <1>2 DEF MinOf
<1> USE DEF IInv, TypeOK, BufferConsistent
<1>4. got' \in Seq(Byte) /\ Len(got') = Len(got) + n /\ Good(f')
  BY <1>1, <1>3, TakenFacts
<1>5. pc' \in {"copy", "discard"}
  BY <1>1
<1>6. UNCHANGED <<open, call, line, rest, ret, faults>>
  BY DEF CopyLine
<1> QED
  BY <1>2, <1>3, <1>4, <1>5, <1>6 DEF CallInv, Good, Labels

(* Discarding the rest of a line keeps it.                                  *)
LEMMA DiscardKeepsIInv ==
  ASSUME IInv, Discard
  PROVE  IInv'
<1> USE DEF IInv, TypeOK, BufferConsistent
<1>1. f.next + 1 <= f.fill
  BY IInvFacts DEF Discard
<1>2. Good(f')
  BY <1>1, TakenFacts DEF Discard
<1>3. pc' \in {"discard", "done"} /\ ret' \in 0..5 /\ pc = "discard"
      /\ UNCHANGED <<open, call, got, line, rest, faults>>
  BY DEF Discard, Finish
<1> QED
  BY <1>2, <1>3 DEF CallInv, Good, Labels

(* Copying a raw record keeps it.                                           *)
LEMMA CopyRawKeepsIInv ==
  ASSUME IInv, CopyRaw
  PROVE  IInv'
<1> USE DEF IInv, TypeOK, BufferConsistent
<1> DEFINE n == MinOf(call.rsz - Len(got), f.fill - f.next)
<1>1. call.rsz \in Nat /\ Len(got) \in Nat /\ pc = "raw" /\ Len(got) <= call.rsz /\ call.op = "input"
  BY CallFacts DEF CopyRaw, CallInv
<1>0. f.fill \in Nat /\ f.next \in 0..f.fill
  BY IInvFacts
<1> HIDE DEF IInv, TypeOK, BufferConsistent
<1>2. n \in Nat /\ f.next + n <= f.fill /\ Len(got) + n <= call.rsz
  BY <1>0, <1>1 DEF MinOf
<1> USE DEF IInv, TypeOK, BufferConsistent
<1>3. got' = got \o Taken(n) /\ f' = [f EXCEPT !.next = f.next + n]
      /\ pc' \in {"raw", "done"} /\ ret' \in 0..5
      /\ UNCHANGED <<open, call, line, rest, faults>>
  BY DEF CopyRaw, Finish
<1> HIDE DEF n
<1>4. got' \in Seq(Byte) /\ Len(got') = Len(got) + n /\ Good(f')
  BY <1>2, <1>3, TakenFacts
<1> QED
  BY <1>1, <1>2, <1>3, <1>4 DEF CallInv, Good, Labels

-----------------------------------------------------------------------------
(* The steps of oswrite. *)
LEMMA NextLineKeepsIInv ==
  ASSUME IInv, NextLine
  PROVE  IInv'
<1> DEFINE n == IF call.mode = 1 THEN MinOf(call.rsz, Len(rest)) ELSE Len(rest)
<1>1. /\ pc = "line" /\ pc' = "put"
      /\ line' = SubSeq(rest, 1, n) \o (IF call.mode = 1 THEN <<EOL>> ELSE <<>>)
      /\ rest' = SubSeq(rest, n + 1, Len(rest))
      /\ Position(f) + Len(line') <= MaxPos
      /\ UNCHANGED <<f, open, call, got, ret, faults>>
  BY DEF NextLine
<1>2. call.op = "output" /\ IoOup /\ call.rsz \in Nat /\ rest \in Seq(Byte)
  BY <1>1, CallFacts DEF IInv, TypeOK, CallInv
<1>3. n \in 0..Len(rest)
  BY <1>2 DEF MinOf
<1> HIDE DEF n
<1>4. SubSeq(rest, 1, n) \in Seq(Byte) /\ rest' \in Seq(Byte)
  BY <1>1, <1>2, <1>3
<1>5. line' \in Seq(Byte)
  <2>1. CASE call.mode = 1
    BY <1>1, <1>4, <2>1, FileBufferAssumption
  <2>2. CASE call.mode # 1
    BY <1>1, <1>4, <2>2
  <2> QED
    BY <2>1, <2>2
<1> QED
  BY <1>1, <1>2, <1>4, <1>5
  DEF IInv, TypeOK, BufferConsistent, CallInv, Labels, Position

(* Ending a line keeps it.                                                  *)
LEMMA EndLineKeepsIInv ==
  ASSUME IInv, EndLine
  PROVE  IInv'
  BY DEF IInv, TypeOK, BufferConsistent, CallInv, Labels, EndLine, Finish

(* Writing a full buffer keeps it.                                          *)
LEMMA PutFlushKeepsIInv ==
  ASSUME IInv, PutFlush
  PROVE  IInv'
<1>1. PICK w \in Outcomes(f.fill) :
        /\ f' = Flush(f, w)
        /\ IF FlushFails(f, w) THEN Abort(2) ELSE UNCHANGED <<pc, ret, faults>>
  BY DEF PutFlush
<1>2. w \in 0..f.fill /\ (w # f.fill => faults + 1 \in 0..MaxFaults)
  BY OutcomeFacts, IInvFacts
<1>3. Good(f') /\ f'.offset = f.offset + f.fill /\ f'.next = 0
  BY <1>1, <1>2, IInvFacts, FlushGood
<1>4. f.next = Size /\ pc = "put" /\ UNCHANGED <<open, call, got, line, rest>>
  BY DEF PutFlush
<1>5. Position(f') = Position(f)
  BY <1>3, <1>4, IInvFacts DEF Position
<1>6. pc' \in {"put", "done"} /\ ret' \in 0..5 /\ faults' \in 0..MaxFaults
  BY <1>1, <1>2, <1>4, OutcomeFacts DEF Abort, Finish, FlushFails, IInv, TypeOK
<1> QED
  BY <1>3, <1>4, <1>5, <1>6 DEF IInv, TypeOK, BufferConsistent, CallInv, Good, Labels

(* Bytes copied into a consistent buffer of an output file leave it so. *)
LEMMA StoredGood ==
  ASSUME NEW s, Good(s), IoOup, line \in Seq(Byte),
         NEW n \in Nat, n <= Len(line), s.next + n <= Size, s.offset + s.next + n <= MaxPos
  PROVE  Good(Stored(s, n)) /\ Position(Stored(s, n)) = Position(s) + n
<1> DEFINE b == [i \in BufIndex |-> IF s.next <= i /\ i < s.next + n
                                    THEN line[i - s.next + 1] ELSE s.buf[i]]
           m == MaxOf(s.fill, s.next + n)
           g == [s EXCEPT !.buf = b, !.next = s.next + n, !.fill = m, !.dirty = TRUE]
<1>1. Stored(s, n) = g
  BY DEF Stored
<1>2. s.buf \in [BufIndex -> Byte] /\ s.next \in Nat /\ s.fill \in 0..Size /\ s.offset \in Nat
      /\ Size \in Nat /\ MaxPos \in Nat /\ s.offset + s.fill <= MaxPos
  BY FileBufferAssumption DEF Good, FileState, Consistent, Layout
<1>3. \A i \in BufIndex : s.next <= i /\ i < s.next + n => line[i - s.next + 1] \in Byte
  BY <1>2 DEF BufIndex
<1>4. b \in [BufIndex -> Byte]
  BY <1>2, <1>3
<1>5. m \in 0..Size /\ s.next + n <= m /\ s.offset + m <= MaxPos /\ s.next + n \in 0..Size
  BY <1>2 DEF MaxOf
<1> HIDE DEF b, m
<1>6. g \in FileState
  BY <1>4, <1>5 DEF Good, FileState
<1>7. g.next = s.next + n /\ g.fill = m /\ g.dirty /\ g.offset = s.offset /\ g.pos = s.pos
      /\ g.curpos = s.curpos
  BY DEF Good, FileState
<1> HIDE DEF g
<1>8. Consistent(g)
  BY <1>5, <1>7 DEF Good, Consistent, Layout, Tracked, Coherent, ReadOnly
<1> QED
  BY <1>1, <1>2, <1>6, <1>7, <1>8 DEF Good, Position

(* Copying to the buffer keeps it.                                          *)
LEMMA PutCopyKeepsIInv ==
  ASSUME IInv, PutCopy
  PROVE  IInv'
<1> DEFINE load == f.fill = 0 /\ IoInp
           s == IF load THEN FillBuf(f) ELSE f
           n == MinOf(Size - s.next, Len(line))
<1>1. PICK r \in IF load THEN ReadOutcomes ELSE {TRUE} :
        IF ~r THEN f' = FsyncIO(f) /\ Abort(2) /\ line' = line
        ELSE /\ f' = Stored(s, n)
             /\ line' = SubSeq(line, n + 1, Len(line))
             /\ UNCHANGED <<pc, ret, faults>>
  BY DEF PutCopy
<1>2. pc = "put" /\ line # <<>> /\ UNCHANGED <<open, call, got, rest>>
  BY DEF PutCopy
<1>3. ~r => faults + 1 \in 0..MaxFaults
  <2>1. CASE load
    BY <2>1, <1>1, OutcomeFacts
  <2>2. CASE ~load
    BY <2>2, <1>1
  <2> QED
    BY <2>1, <2>2
<1>4. IoOup /\ line \in Seq(Byte) /\ Position(f) + Len(line) <= MaxPos /\ call.op = "output"
  BY <1>2 DEF IInv, TypeOK, CallInv
<1>5. Good(s) /\ Position(s) = Position(f)
  <2>1. CASE load
    BY <2>1, IInvFacts, FillBufGood DEF Position
  <2>2. CASE ~load
    BY <2>2, IInvFacts
  <2> QED
    BY <2>1, <2>2
<1> HIDE DEF s
<1>6. s.next \in 0..Size /\ s.offset \in Nat /\ Len(line) \in Nat /\ Size \in Nat
      /\ f.next \in Nat /\ f.offset \in Nat
  BY <1>4, <1>5, FileBufferAssumption, IInvFacts DEF Good, FileState
<1>7. n \in Nat /\ n <= Len(line) /\ s.next + n <= Size
  BY <1>6 DEF MinOf
<1> HIDE DEF n
<1>8. s.offset + s.next + n <= MaxPos /\ MaxPos \in Nat
  BY <1>4, <1>5, <1>6, <1>7, FileBufferAssumption DEF Position
<1>9. Good(Stored(s, n)) /\ Position(Stored(s, n)) = Position(f) + n
  BY <1>4, <1>5, <1>7, <1>8, StoredGood
<1>10. CASE ~r
  <2>1. Good(f') /\ pc' = "done" /\ ret' = 2 /\ faults' \in 0..MaxFaults /\ line' = line
    BY <1>1, <1>3, <1>10, IInvFacts, FsyncIOGood DEF Abort, Finish
  <2> QED
    BY <1>2, <2>1 DEF IInv, TypeOK, BufferConsistent, CallInv, Good, Labels
<1>11. CASE r
  <2>1. f' = Stored(s, n) /\ line' = SubSeq(line, n + 1, Len(line)) /\ UNCHANGED <<pc, ret, faults>>
    BY <1>1, <1>11
  <2>2. line' \in Seq(Byte) /\ Len(line') = Len(line) - n
    BY <1>4, <1>7, <2>1
  <2>3. Position(f') + Len(line') <= MaxPos
    BY <1>4, <1>6, <1>7, <1>9, <2>1, <2>2, IInvFacts
  <2> QED
    BY <1>2, <1>4, <1>9, <2>1, <2>2, <2>3 DEF IInv, TypeOK, BufferConsistent, CallInv, Good, Labels
<1> QED
  BY <1>10, <1>11

(* Writing past the buffer keeps it.                                        *)
LEMMA PutBypassKeepsIInv ==
  ASSUME IInv, PutBypass
  PROVE  IInv'
<1> DEFINE e == FsyncIO(f)
           s == [e EXCEPT !.fill = 0]
           n == (Len(line) \div Size) * Size
           src == [i \in 0 .. n - 1 |-> line[i + 1]]
<1>1. PICK m \in Outcomes(n) :
        /\ f' = [Write(s, src, m) EXCEPT !.offset = s.offset + m]
        /\ line' = SubSeq(line, m + 1, Len(line))
        /\ IF m # n THEN Abort(2) ELSE UNCHANGED <<pc, ret, faults>>
  BY DEF PutBypass
<1>2. pc = "put" /\ f.next = 0 /\ UNCHANGED <<open, call, got, rest>>
  BY DEF PutBypass
<1>3. IoOup /\ line \in Seq(Byte) /\ Position(f) + Len(line) <= MaxPos /\ call.op = "output"
  BY <1>2 DEF IInv, TypeOK, CallInv
<1>4. n \in 0..Len(line)
  BY <1>3, BlockStart
<1> HIDE DEF n
<1>5. m \in 0..n /\ m \in 0..Len(line) /\ (m # n => faults + 1 \in 0..MaxFaults) /\ n \in Nat
  BY <1>3, <1>4, OutcomeFacts
<1>6. src \in [0 .. n - 1 -> Byte]
  BY <1>3, <1>4
<1> HIDE DEF src
<1>7. Good(e) /\ SameBuffer(f, e) /\ e.pos = f.offset /\ e.curpos = f.offset
  BY IInvFacts, FsyncIOGood
<1> HIDE DEF e
<1>8. s \in FileState /\ Tracked(s) /\ s.fill = 0 /\ s.next = 0 /\ s.offset = f.offset
      /\ s.pos = f.offset
  <2>1. 0 \in 0..Size
    BY FileBufferAssumption
  <2> QED
    BY <1>2, <1>7, <2>1 DEF Good, FileState, Tracked, SameBuffer
<1> HIDE DEF s
<1>9. f.offset + m <= MaxPos /\ f.offset \in 0..MaxPos /\ MaxPos \in Nat
  BY <1>2, <1>3, <1>5, IInvFacts DEF Position
<1> DEFINE g == Write(s, src, m)
<1>10. g \in FileState /\ Tracked(g) /\ g.fill = 0 /\ g.next = 0
  BY <1>5, <1>6, <1>8, <1>9, WriteGood
<1> HIDE DEF g
<1>11. f' = [g EXCEPT !.offset = f.offset + m]
  BY <1>1, <1>8 DEF g
<1>12. f.offset + m \in 0..MaxPos
  BY <1>5, <1>9
<1>13. f' \in FileState /\ f'.fill = 0 /\ f'.next = 0 /\ f'.offset = f.offset + m
       /\ f'.pos = g.pos /\ f'.curpos = g.curpos
  BY <1>10, <1>11, <1>12 DEF FileState
<1>14. Good(f')
  BY <1>3, <1>9, <1>12, <1>13, <1>10
  DEF Good, FileState, Consistent, Layout, Tracked, Coherent, ReadOnly, InWindow, Positions
<1>15. line' \in Seq(Byte) /\ Len(line') = Len(line) - m
  BY <1>1, <1>3, <1>5
<1>16. Position(f') + Len(line') <= MaxPos
  BY <1>2, <1>3, <1>5, <1>9, <1>13, <1>15 DEF Position
<1>17. pc' \in {"put", "done"} /\ ret' \in 0..5 /\ faults' \in 0..MaxFaults
  BY <1>1, <1>2, <1>5, OutcomeFacts DEF Abort, Finish, IInv, TypeOK
<1> QED
  BY <1>2, <1>3, <1>14, <1>15, <1>16, <1>17 DEF IInv, TypeOK, BufferConsistent, CallInv, Good, Labels

-----------------------------------------------------------------------------
(* SET, REWIND and BACKSPACE. *)
LEMMA SeekKeepsIInv ==
  ASSUME IInv, NEW s, Good(s), s.fill = f.fill, NEW t \in 0..MaxPos, NEW x \in 0..5, Seek(s, t, x)
  PROVE  IInv'
<1>1. PICK w \in Outcomes(f.fill), r \in ReadOutcomes :
        /\ f' = DoSet(s, t, w, r)
        /\ IF DoSetFails(s, t, w, r) THEN Abort(x) ELSE Finish(0) /\ faults' = faults
  BY DEF Seek
<1>2. Good(f') /\ faults' \in 0..MaxFaults /\ pc' = "done" /\ ret' \in 0..5
  BY <1>1, DoSetStep, OutcomeFacts DEF Abort, Finish
<1>3. UNCHANGED <<open, call, got, line, rest>>
  BY DEF Seek
<1> QED
  BY <1>2, <1>3 DEF IInv, TypeOK, BufferConsistent, CallInv, Good, Labels

(* Seeking keeps it.                                                        *)
LEMMA SeeksKeepIInv ==
  ASSUME IInv, Set \/ Rewind \/ BackRaw
  PROVE  IInv'
<1>1. CASE Set
  <2> DEFINE s == Targeted(f, call.whence)
             t == Target(f, call.off, call.whence)
  <2>1. Good(s) /\ s.fill = f.fill
    BY IInvFacts, LseekGood DEF Targeted, SeekEnd, SameBuffer
  <2>2. call.off \in Int /\ call.whence \in Whence /\ t <= MaxPos
    BY <1>1, CallFacts DEF Set, IInv, CallInv
  <2>3. t \in 0..MaxPos
    BY <2>2, IInvFacts DEF Target, MaxOf, Whence
  <2> HIDE DEF s, t
  <2>4. Seek(s, t, 5)
    BY <1>1 DEF Set, s, t
  <2> QED
    BY <2>1, <2>3, <2>4, SeekKeepsIInv
<1>2. CASE Rewind
  <2>1. 0 \in 0..MaxPos
    BY FileBufferAssumption
  <2> QED
    BY <1>2, <2>1, IInvFacts, SeekKeepsIInv DEF Rewind
<1>3. CASE BackRaw
  <2>1. call.rsz \in Nat
    BY <1>3, CallFacts DEF BackRaw, IInv, CallInv
  <2>2. Target(f, -call.rsz, 1) = MaxOf(0, -call.rsz + Position(f))
    BY DEF Target
  <2>3. Target(f, -call.rsz, 1) \in 0..MaxPos
    BY <2>1, <2>2, IInvFacts DEF MaxOf
  <2> QED
    BY <1>3, <2>3, IInvFacts, SeekKeepsIInv DEF BackRaw
<1> QED
  BY <1>1, <1>2, <1>3

(* Going back a record keeps it.                                            *)
LEMMA BackKeepsIInv ==
  ASSUME IInv, Back
  PROVE  IInv'
<1>1. pc \in {"back", "scan"} /\ call.op = "backspace" /\ UNCHANGED <<open, call, got, line, rest>>
  BY DEF Back, IInv, CallInv
<1>2. CASE AtBeginning
  <2>1. pc' = "done" /\ ret' = 0 /\ UNCHANGED <<f, faults>>
    BY <1>2 DEF Back, Finish
  <2> QED
    BY <1>1, <2>1 DEF IInv, TypeOK, BufferConsistent, CallInv, Labels
<1>3. CASE ~AtBeginning
  <2>1. PICK w \in Outcomes(f.fill), r \in ReadOutcomes :
          /\ f' = Backed(w, r)
          /\ IF BackFails(w, r) THEN Abort(3)
             ELSE /\ pc' \in {"scan", "forward"}
                  /\ UNCHANGED <<ret, faults>>
    BY <1>3 DEF Back
  <2>2. Good(f') /\ (BackFails(w, r) => faults + 1 \in 0..MaxFaults)
        /\ (~BackFails(w, r) => Position(f') < MaxPos)
    <3>1. CASE f.next > 0
      <4>1. f' = [f EXCEPT !.next = f.next - 1] /\ ~BackFails(w, r)
        BY <2>1, <3>1 DEF Backed, BackFails
      <4>2. f.next - 1 \in 0..Size /\ f.next - 1 < f.fill /\ f.offset + f.fill <= MaxPos
        BY <3>1, IInvFacts DEF Good, Consistent, Layout
      <4>3. f' \in FileState /\ f'.next = f.next - 1 /\ f'.offset = f.offset /\ f'.fill = f.fill
        BY <4>1, <4>2, IInvFacts DEF Good, FileState
      <4>4. Consistent(f')
        BY <4>1, <4>2, IInvFacts
        DEF Good, FileState, Consistent, Layout, Tracked, Coherent, ReadOnly, InWindow
      <4> QED
        BY <4>1, <4>2, <4>3, <4>4, IInvFacts DEF Good, Position
    <3>2. CASE f.next = 0
      <4>1. f' = DoSet(f, f.offset - 1, w, r) /\ (BackFails(w, r) <=> DoSetFails(f, f.offset - 1, w, r))
        BY <2>1, <3>2 DEF Backed, BackFails
      <4>2. f.offset - 1 \in 0..MaxPos /\ f.offset - 1 < MaxPos
        BY <1>3, <3>2, IInvFacts DEF AtBeginning
      <4>3. Good(f') /\ (~BackFails(w, r) => Position(f') <= f.offset - 1)
            /\ (BackFails(w, r) => faults + 1 \in 0..MaxFaults)
        BY <4>1, <4>2, IInvFacts, DoSetStep
      <4>4. Position(f') \in Int
        BY <4>3, FileBufferAssumption DEF Good, FileState, Position
      <4> QED
        BY <4>2, <4>3, <4>4, IInvFacts
    <3> QED
      BY <3>1, <3>2, IInvFacts
  <2>3. pc' \in {"scan", "forward", "done"} /\ ret' \in 0..5 /\ faults' \in 0..MaxFaults
    BY <2>1, <2>2, OutcomeFacts DEF Abort, Finish, IInv, TypeOK
  <2>4. pc' = "forward" => Position(f') < MaxPos
    BY <2>1, <2>2 DEF Abort, Finish
  <2> QED
    BY <1>1, <2>2, <2>3, <2>4 DEF IInv, TypeOK, BufferConsistent, CallInv, Good, Labels
<1> QED
  BY <1>2, <1>3

(* Going forward keeps it.                                                  *)
LEMMA ForwardKeepsIInv ==
  ASSUME IInv, Forward
  PROVE  IInv'
<1>1. PICK w \in Outcomes(f.fill), r \in ReadOutcomes :
        /\ f' = DoSet(f, Position(f) + 1, w, r)
        /\ faults' = IF DoSetFails(f, Position(f) + 1, w, r) THEN faults + 1 ELSE faults
  BY DEF Forward
<1>2. pc = "forward" /\ pc' = "done" /\ ret' = 0 /\ UNCHANGED <<open, call, got, line, rest>>
  BY DEF Forward, Finish
<1>3. Position(f) + 1 \in 0..MaxPos
  BY <1>2, IInvFacts DEF IInv, CallInv
<1>4. Good(f') /\ faults' \in 0..MaxFaults
  BY <1>1, <1>3, IInvFacts, DoSetStep, OutcomeFacts
<1> QED
  BY <1>2, <1>4 DEF IInv, TypeOK, BufferConsistent, CallInv, Good, Labels

-----------------------------------------------------------------------------
(* An association begins with an empty, clean buffer at byte 0, and an       *)
(* append association then seeks from there to the end of the file.          *)
LEMMA OpenFacts ==
  ASSUME IInv, Open
  PROVE  /\ pc = "open" /\ pc' = "done" /\ ret' = 0 /\ open' = TRUE
         /\ UNCHANGED <<call, got, line, rest>>
         /\ \E g \in Garbage, r \in BOOLEAN :
              LET s == Associated(g)
                  t == Targeted(s, 2)
              IN  /\ Good(s) /\ s.fill = 0 /\ s.next = 0 /\ s.offset = 0 /\ ~s.dirty
                  /\ Good(t) /\ SameBuffer(s, t) /\ EofPos(s) = s.eof /\ s.eof \in 0..MaxPos
                  /\ ~r => faults + 1 \in 0..MaxFaults
                  /\ DoSetFails(t, EofPos(s), 0, r) => ~r
                  /\ IF IoOup /\ call.app
                       THEN /\ f' = DoSet(t, EofPos(s), 0, r)
                            /\ faults' = IF DoSetFails(t, EofPos(s), 0, r) THEN faults + 1
                                         ELSE faults
                       ELSE f' = s /\ faults' = faults
<1>1. PICK g \in Garbage, r \in ReadOutcomes :
        LET s == Associated(g)
            t == Targeted(s, 2)
        IN  IF IoOup /\ call.app
              THEN /\ f' = DoSet(t, EofPos(s), 0, r)
                   /\ faults' = IF DoSetFails(t, EofPos(s), 0, r) THEN faults + 1 ELSE faults
              ELSE f' = s /\ faults' = faults /\ r
  BY DEF Open
<1> DEFINE s == Associated(g)
           t == Targeted(s, 2)
           d == IF IoOup /\ ~IoInp /\ ~call.app
                  THEN [f EXCEPT !.eof = 0, !.data = [i \in Positions |-> Zero]] ELSE f
<1>2. d \in FileState /\ d.eof \in 0..MaxPos
  <2>1. [i \in Positions |-> Zero] \in [Positions -> Byte] /\ 0 \in 0..MaxPos
    BY FileBufferAssumption
  <2>2. f \in FileState
    BY DEF IInv, TypeOK
  <2> QED
    BY <2>1, <2>2 DEF FileState
<1>3. s = [d EXCEPT !.pos = 0, !.curpos = 0, !.offset = 0, !.next = 0, !.fill = 0,
                    !.dirty = FALSE, !.buf = g]
  BY DEF Associated
<1> HIDE DEF d
<1>4. s \in FileState /\ s.fill = 0 /\ s.next = 0 /\ s.offset = 0 /\ s.pos = 0 /\ s.curpos = 0
      /\ ~s.dirty /\ s.eof \in 0..MaxPos
  <2>1. g \in [BufIndex -> Byte] /\ 0 \in 0..MaxPos /\ 0 \in 0..Size
    BY FileBufferAssumption, BufferedFileAssumption
  <2> QED
    BY <1>2, <1>3, <2>1 DEF FileState
<1> HIDE DEF s
<1>5. Good(s)
  BY <1>4, FileBufferAssumption
  DEF Good, Consistent, Layout, Tracked, Coherent, ReadOnly, InWindow, Positions
<1>6. Good(t) /\ SameBuffer(s, t) /\ t.fill = 0
  BY <1>4, <1>5, LseekGood DEF Targeted, SeekEnd, SameBuffer
<1>7. EofPos(s) = s.eof
  BY <1>4, FileBufferAssumption DEF EofPos, MaxOf
<1>8. r \in BOOLEAN /\ (~r => faults + 1 \in 0..MaxFaults)
  BY OutcomeFacts
<1>9. DoSetFails(t, EofPos(s), 0, r) => ~r
  BY <1>6 DEF DoSetFails, FlushFails
<1>10. pc = "open" /\ pc' = "done" /\ ret' = 0 /\ open' = TRUE
       /\ UNCHANGED <<call, got, line, rest>>
  BY DEF Open, Finish
<1>11. IF IoOup /\ call.app
         THEN /\ f' = DoSet(t, EofPos(s), 0, r)
              /\ faults' = IF DoSetFails(t, EofPos(s), 0, r) THEN faults + 1 ELSE faults
         ELSE f' = s /\ faults' = faults
  BY <1>1 DEF s
<1> QED
  BY <1>4, <1>5, <1>6, <1>7, <1>8, <1>9, <1>10, <1>11 DEF s

(* Opening, closing and returning. *)
LEMMA OpenKeepsIInv ==
  ASSUME IInv, Open
  PROVE  IInv'
<1>1. PICK g \in Garbage, r \in BOOLEAN :
        LET s == Associated(g)
            t == Targeted(s, 2)
        IN  /\ Good(s) /\ s.fill = 0 /\ s.next = 0 /\ s.offset = 0 /\ ~s.dirty
            /\ Good(t) /\ SameBuffer(s, t) /\ EofPos(s) = s.eof /\ s.eof \in 0..MaxPos
            /\ ~r => faults + 1 \in 0..MaxFaults
            /\ DoSetFails(t, EofPos(s), 0, r) => ~r
            /\ IF IoOup /\ call.app
                 THEN /\ f' = DoSet(t, EofPos(s), 0, r)
                      /\ faults' = IF DoSetFails(t, EofPos(s), 0, r) THEN faults + 1 ELSE faults
                 ELSE f' = s /\ faults' = faults
  BY OpenFacts
<1> DEFINE s == Associated(g)
           t == Targeted(s, 2)
<1>2. Good(s) /\ Good(t) /\ t.fill = 0 /\ EofPos(s) \in 0..MaxPos
  BY <1>1 DEF SameBuffer
<1> HIDE DEF s, t
<1>3. Good(DoSet(t, EofPos(s), 0, r))
  <2>1. 0 \in 0..t.fill
    BY <1>2
  <2> QED
    BY <1>2, <2>1, DoSetGood
<1>4. faults \in 0..MaxFaults
  BY OutcomeFacts
<1>5. Good(f') /\ faults' \in 0..MaxFaults
  BY <1>1, <1>2, <1>3, <1>4 DEF s, t
<1>6. open' = TRUE /\ pc' = "done" /\ ret' = 0 /\ UNCHANGED <<call, got, line, rest>>
  BY OpenFacts
<1> QED
  BY <1>5, <1>6 DEF IInv, TypeOK, BufferConsistent, CallInv, Good, Labels

(* Closing keeps it.                                                        *)
LEMMA CloseKeepsIInv ==
  ASSUME IInv, Close
  PROVE  IInv'
<1>1. PICK w \in Outcomes(f.fill), c \in ReadOutcomes :
        /\ f' = IF IoOup THEN Flush(f, w) ELSE f
        /\ IF ~c \/ (IoOup /\ FlushFails(f, w)) THEN Abort(3) ELSE Finish(0) /\ faults' = faults
  BY DEF Close
<1>2. w \in 0..f.fill /\ (w # f.fill => faults + 1 \in 0..MaxFaults)
      /\ (~c => faults + 1 \in 0..MaxFaults) /\ faults \in 0..MaxFaults
  BY OutcomeFacts, IInvFacts
<1>3. Good(f')
  BY <1>1, <1>2, IInvFacts, FlushGood
<1>4. pc' = "done" /\ ret' \in 0..5 /\ faults' \in 0..MaxFaults
  BY <1>1, <1>2 DEF Abort, Finish, FlushFails
<1>5. open' = FALSE /\ UNCHANGED <<call, got, line, rest>>
  BY DEF Close
<1> QED
  BY <1>3, <1>4, <1>5 DEF IInv, TypeOK, BufferConsistent, CallInv, Good, Labels

(* The end of a call keeps it.                                              *)
LEMMA ReturnKeepsIInv ==
  ASSUME IInv, Return
  PROVE  IInv'
  BY DEF IInv, TypeOK, BufferConsistent, CallInv, Labels, Calls, Return

-----------------------------------------------------------------------------
(* The buffer is consistent when the program starts. *)
LEMMA InitIInv ==
  ASSUME Init
  PROVE  IInv
<1>1. PICK s \in Contents, g \in Garbage : f = OnDisk(s, g)
  BY DEF Init
<1>2. s \in Seq(Byte) /\ Len(s) \in 0..MaxPos /\ g \in [BufIndex -> Byte]
      /\ 0 \in 0..MaxPos /\ 0 \in 0..Size
  BY BufferedFileAssumption, FileBufferAssumption
<1>3. [i \in Positions |-> IF i < Len(s) THEN s[i + 1] ELSE Zero] \in [Positions -> Byte]
  <2>1. \A i \in Positions : i < Len(s) => s[i + 1] \in Byte
    BY <1>2 DEF Positions
  <2> QED
    BY <2>1, FileBufferAssumption
<1>4. f \in FileState
  BY <1>1, <1>2, <1>3 DEF OnDisk, FileState
<1>5. Consistent(f)
  BY <1>1, <1>2, FileBufferAssumption
  DEF OnDisk, Consistent, Layout, Tracked, Coherent, ReadOnly, InWindow, Positions
<1>6. 0 \in 0..MaxFaults
  BY BufferedFileAssumption
<1>7. open \in BOOLEAN /\ pc = "idle" /\ call = NoCall /\ got = <<>> /\ line = <<>> /\ rest = <<>>
      /\ ret = 0 /\ faults = 0
  BY DEF Init
<1>8. call \in Calls
  BY <1>7 DEF Calls
<1>9. CallInv
  BY <1>7 DEF CallInv
<1> QED
  BY <1>4, <1>5, <1>6, <1>7, <1>8, <1>9 DEF IInv, TypeOK, BufferConsistent, Labels

(* IInv is inductive. *)
THEOREM InvariantHolds == Spec => []IInv
<1>1. Init => IInv
  BY InitIInv
<1>2. IInv /\ [Next]_vars => IInv'
  <2> SUFFICES ASSUME IInv, [Next]_vars PROVE IInv'
    OBVIOUS
  <2>1. CASE BeginCall
    BY <2>1, BeginsKeepIInv
  <2>2. CASE Open \/ Close \/ Return
    BY <2>2, OpenKeepsIInv, CloseKeepsIInv, ReturnKeepsIInv
  <2>3. CASE Refill \/ CopyLine \/ Discard \/ CopyRaw
    BY <2>3, RefillKeepsIInv, CopyLineKeepsIInv, DiscardKeepsIInv, CopyRawKeepsIInv
  <2>4. CASE NextLine \/ EndLine \/ PutFlush \/ PutCopy \/ PutBypass
    BY <2>4, NextLineKeepsIInv, EndLineKeepsIInv, PutFlushKeepsIInv, PutCopyKeepsIInv,
       PutBypassKeepsIInv
  <2>5. CASE Set \/ Rewind \/ BackRaw
    BY <2>5, SeeksKeepIInv
  <2>6. CASE Back \/ Forward
    BY <2>6, BackKeepsIInv, ForwardKeepsIInv
  <2>7. CASE UNCHANGED vars
    BY <2>7 DEF vars, IInv, TypeOK, BufferConsistent, CallInv
  <2> QED
    BY <2>1, <2>2, <2>3, <2>4, <2>5, <2>6, <2>7 DEF Next, Step
<1> QED
  BY <1>1, <1>2, PTL DEF Spec

(* Every variable keeps its type: positions stay in the file, next and     *)
(* fill in the buffer, and an exit is one the runtime knows.               *)
THEOREM TypeCorrect == Spec => []TypeOK
<1>1. IInv => TypeOK
  BY DEF IInv
<1> QED
  BY <1>1, InvariantHolds, PTL

(* The buffer agrees with its file after any sequence of calls and failures. *)
THEOREM BufferAlwaysConsistent == Spec => []BufferConsistent
<1>1. IInv => BufferConsistent
  BY DEF IInv
<1> QED
  BY <1>1, InvariantHolds, PTL

-----------------------------------------------------------------------------
(* What a call has done so far.  The invariant below adds to IInv, for each *)
(* operation, what its loop has achieved when it stands at a label, and the *)
(* properties of its result; the parts of one operation say nothing of the  *)
(* others, so that a step has to be looked at in one part only.             *)

(* An operation stands at one of its own labels, or is done. *)
Matches ==
  /\ call.op = "none"      => pc = "idle"
  /\ call.op = "input"     => pc \in {"copy", "discard", "raw", "done"}
  /\ call.op = "output"    => pc \in {"line", "put", "done"}
  /\ call.op = "set"       => pc \in {"seek", "done"}
  /\ call.op = "backspace" => pc \in {"back", "scan", "forward", "backraw", "done"}
  /\ call.op = "rewind"    => pc \in {"rewind", "done"}
  /\ call.op = "endfile"   => pc \in {"close", "done"}
  /\ call.op = "open"      => pc \in {"open", "done"}

(* The operations there are. *)
LEMMA KnownOps ==
  ASSUME IInv
  PROVE  call.op \in {"none", "input", "output", "set", "backspace", "rewind", "endfile", "open"}
  BY DEF IInv, TypeOK, Calls, NoCall

(* A call begins at a label of its own, with nothing done. *)
LEMMA BeginsMatch ==
  ASSUME BeginCall
  PROVE  Matches' /\ pc = "idle" /\ pc' # "done"
<1> USE DEF Matches, Begin
<1>1. CASE BeginOpen       BY <1>1 DEF BeginOpen
<1>2. CASE BeginInput      BY <1>2 DEF BeginInput
<1>3. CASE BeginOutput     BY <1>3 DEF BeginOutput
<1>4. CASE BeginSet        BY <1>4 DEF BeginSet
<1>5. CASE BeginRewind     BY <1>5 DEF BeginRewind
<1>6. CASE BeginBackspace  BY <1>6 DEF BeginBackspace
<1>7. CASE BeginEndfile    BY <1>7 DEF BeginEndfile
<1> QED
  BY <1>1, <1>2, <1>3, <1>4, <1>5, <1>6, <1>7 DEF BeginCall

(* A step belongs to the operation in progress and keeps to its labels. *)
LEMMA StepsMatch ==
  ASSUME IInv, Matches, Step
  PROVE  /\ Matches'
         /\ Return \/ call' = call
         /\ call.op = "input" => Refill \/ CopyLine \/ Discard \/ CopyRaw \/ Return
         /\ call.op = "output" => NextLine \/ EndLine \/ PutFlush \/ PutCopy \/ PutBypass \/ Return
         /\ call.op = "set" => Set \/ Return
         /\ call.op = "backspace" => BackRaw \/ Back \/ Forward \/ Return
         /\ call.op = "rewind" => Rewind \/ Return
         /\ call.op = "endfile" => Close \/ Return
         /\ call.op = "open" => Open \/ Return
         /\ call.op # "none"
<1> USE KnownOps DEF Matches, Finish, Abort
<1>1. CASE Open       BY <1>1 DEF Open
<1>2. CASE Refill     BY <1>2 DEF Refill, Reading
<1>3. CASE CopyLine   BY <1>3 DEF CopyLine
<1>4. CASE Discard    BY <1>4 DEF Discard
<1>5. CASE CopyRaw    BY <1>5 DEF CopyRaw
<1>6. CASE NextLine   BY <1>6 DEF NextLine
<1>7. CASE EndLine    BY <1>7 DEF EndLine
<1>8. CASE PutFlush   BY <1>8 DEF PutFlush
<1>9. CASE PutCopy    BY <1>9 DEF PutCopy
<1>10. CASE PutBypass BY <1>10 DEF PutBypass
<1>11. CASE Set       BY <1>11 DEF Set, Seek
<1>12. CASE Rewind    BY <1>12 DEF Rewind, Seek
<1>13. CASE BackRaw   BY <1>13 DEF BackRaw, Seek
<1>14. CASE Back      BY <1>14 DEF Back
<1>15. CASE Forward   BY <1>15 DEF Forward
<1>16. CASE Close     BY <1>16 DEF Close
<1>17. CASE Return    BY <1>17 DEF Return, NoCall
<1> QED
  BY <1>1, <1>2, <1>3, <1>4, <1>5, <1>6, <1>7, <1>8, <1>9, <1>10, <1>11, <1>12, <1>13,
     <1>14, <1>15, <1>16, <1>17 DEF Step

(* The parts of the file a call may rely on are those that stay stored. *)
NoEOL(a, b) == \A i \in a .. b - 1 : i < KeptLength(f) => ByteAt(f, i) # EOL

(* osread: the record so far is what lies from the start of the call on. *)
Delivered ==
  /\ call.start + Len(got) <= Position(f)
  /\ \A i \in 1..Len(got) :
       call.start + i <= KeptLength(f) => got[i] = ByteAt(f, call.start + i - 1)

(* A line has no EOL so far; in its second phase the record is full, or the *)
(* next character is the EOL that ends it.                                  *)
ReadUnderway ==
  /\ pc \in {"copy", "raw", "discard"} => call.start \in Nat /\ Delivered
  /\ pc \in {"copy", "raw"} => Position(f) = call.start + Len(got) /\ Len(got) < call.rsz
  /\ pc = "raw" => call.mode = 0
  /\ pc \in {"copy", "discard"} => call.mode = 1 /\ NoEOL(call.start, Position(f))
  /\ pc = "discard" => /\ Len(got) = MinOf(call.rsz, Position(f) - call.start)
                       /\ Len(got) < call.rsz => f.next < f.fill /\ f.buf[f.next] = EOL

ReadInv ==
  call.op = "input" => ReadUnderway /\ LineRecordRead /\ RawRecordRead /\ EofAtEnd

(* The bytes the program sees are kept, and so is what it knows of them. *)
LEMMA KeepsBytes ==
  ASSUME IInv, Keeps(f, f')
  PROVE  /\ KeptLength(f') = KeptLength(f) /\ KeptLength(f) \in Nat
         /\ \A i \in Nat : i < KeptLength(f) => ByteAt(f', i) = ByteAt(f, i)
<1>1. KeptLength(f) \in Nat
  BY IInvFacts, LengthFacts
<1> QED
  BY <1>1 DEF Keeps

(* A read begins with nothing read. *)
LEMMA ReadBegins ==
  ASSUME IInv, BeginInput
  PROVE  ReadInv'
<1>1. PICK m \in {0, 1}, z \in RecSizes :
        Begin([op |-> "input", mode |-> m, rsz |-> z, start |-> Position(f)],
              IF m = 1 THEN "copy" ELSE "raw")
  BY DEF BeginInput
<1>2. call'.start = Position(f) /\ call'.mode = m /\ call'.rsz = z /\ f' = f /\ got' = got
      /\ pc' = IF m = 1 THEN "copy" ELSE "raw"
  BY <1>1 DEF Begin
<1>3. got = <<>> /\ z \in Nat \ {0} /\ Position(f) \in Nat
  <2>1. got = <<>>
    BY <1>1 DEF Begin, IInv, CallInv
  <2> QED
    BY <2>1, IInvFacts, BufferedFileAssumption
<1>4. Len(got) = 0
  BY <1>3
<1>5. ReadUnderway'
  BY <1>2, <1>3, <1>4 DEF ReadUnderway, Delivered, NoEOL
<1>6. pc' # "done"
  BY <1>2
<1> QED
  BY <1>5, <1>6 DEF ReadInv, LineRecordRead, RawRecordRead, EofAtEnd, Done

(* Refilling the buffer loses no byte and leaves the position where it was. *)
LEMMA RefillFacts ==
  ASSUME IInv, Refill
  PROVE  /\ UNCHANGED <<open, call, got, line, rest>> /\ f.next = f.fill
         /\ \/ pc' = "done" /\ ret' = 2
            \/ /\ Keeps(f, f') /\ Position(f') = Position(f) /\ KeptLength(f') = f'.eof
               /\ SeenLength(f') = f'.eof
               /\ \/ f'.fill = 0 /\ f'.eof <= Position(f) /\ pc' = "done" /\ ret' = EofExit
                  \/ f'.fill # 0 /\ UNCHANGED <<pc, ret>>
<1>1. PICK w \in Outcomes(f.fill), r \in ReadOutcomes :
        LET s == Flush(f, w) IN
        IF FlushFails(f, w) THEN f' = s /\ Abort(2)
        ELSE IF ~r          THEN f' = FsyncIO(s) /\ Abort(2)
        ELSE /\ f' = FillBuf(s)
             /\ IF f'.fill = 0 THEN Finish(EofExit) ELSE UNCHANGED <<pc, ret>>
             /\ faults' = faults
  BY DEF Refill
<1>2. Good(f) /\ w \in 0..f.fill
  BY OutcomeFacts, IInvFacts
<1>3. UNCHANGED <<open, call, got, line, rest>> /\ f.next = f.fill
  BY IInvFacts DEF Refill
<1>4. CASE FlushFails(f, w) \/ ~r
  BY <1>1, <1>3, <1>4 DEF Abort, Finish
<1>5. CASE ~FlushFails(f, w) /\ r
  <2> DEFINE s == Flush(f, w)
  <2>1. Good(s) /\ s.fill = 0 /\ ~s.dirty /\ Keeps(f, s) /\ s.offset = f.offset + f.fill
    BY <1>2, <1>5, FlushGood, FlushKeeps
  <2>2. f' = FillBuf(s) /\ (f'.fill = 0 => Finish(EofExit))
        /\ (f'.fill # 0 => UNCHANGED <<pc, ret>>)
    BY <1>1, <1>5
  <2> HIDE DEF s
  <2>3. Keeps(s, f') /\ Position(f') = s.offset /\ Good(f') /\ f'.dirty = s.dirty
        /\ (f'.fill = 0 => f'.eof <= f'.offset) /\ f'.offset = s.offset
        /\ SeenLength(f') = s.eof /\ f'.eof = s.eof
    BY <2>1, <2>2, FillBufKeeps, FillBufGood
  <2>4. Keeps(f, f')
    BY <2>1, <2>3, KeepsTwice
  <2>5. Position(f') = Position(f)
    BY <1>3, <2>1, <2>3 DEF Position
  <2>6. KeptLength(f') = f'.eof
    BY <2>1, <2>3, LengthFacts
  <2> QED
    BY <1>3, <2>1, <2>2, <2>3, <2>4, <2>5, <2>6 DEF Finish
<1> QED
  BY <1>4, <1>5

(* A refill keeps what was delivered; when it finds no more, the record is *)
(* what is left of the file.                                               *)
LEMMA RefillReads ==
  ASSUME IInv, ReadInv, Refill
  PROVE  ReadInv'
<1>1. call' = call /\ got' = got /\ f.next = f.fill
  BY RefillFacts
<1>2. CASE pc' = "done" /\ ret' = 2
  BY <1>2 DEF ReadInv, ReadUnderway, LineRecordRead, RawRecordRead, EofAtEnd, Done
<1>3. CASE Keeps(f, f') /\ Position(f') = Position(f) /\ f'.fill # 0 /\ UNCHANGED <<pc, ret>>
  <2>0. pc \in {"copy", "discard", "raw"} /\ call.op = "input" /\ ReadUnderway
    BY DEF Refill, Reading, ReadInv, IInv, CallInv
  <2>1. call.start \in Nat /\ Delivered /\ got \in Seq(Byte)
    BY <2>0 DEF ReadUnderway, IInv, TypeOK
  <2>2. Delivered'
    BY <1>1, <1>3, <2>1, KeepsBytes DEF Delivered
  <2>3. ASSUME pc \in {"copy", "discard"} PROVE NoEOL(call.start, Position(f))'
    BY <1>1, <1>3, <2>0, <2>1, <2>3, KeepsBytes, IInvFacts DEF ReadUnderway, NoEOL
  <2>4. pc # "discard" \/ ~(Len(got) < call.rsz)
    <3>1. ~(f.next < f.fill)
      BY <1>1, IInvFacts, LengthFacts
    <3> QED
      BY <2>0, <3>1 DEF ReadUnderway
  <2>5. ReadUnderway'
    BY <1>1, <1>3, <2>0, <2>1, <2>2, <2>3, <2>4 DEF ReadUnderway
  <2> QED
    BY <1>3, <2>0, <2>5 DEF ReadInv, LineRecordRead, RawRecordRead, EofAtEnd, Done
<1>4. CASE /\ Keeps(f, f') /\ Position(f') = Position(f) /\ KeptLength(f') = f'.eof
           /\ f'.eof <= Position(f) /\ pc' = "done" /\ ret' = EofExit
  <2>0. pc \in {"copy", "discard", "raw"} /\ call.op = "input" /\ ReadUnderway
    BY DEF Refill, Reading, ReadInv, IInv, CallInv
  <2>1. call.start \in Nat /\ Delivered /\ got \in Seq(Byte) /\ call.rsz \in Nat
        /\ Position(f) \in Nat
    BY <2>0, CallFacts, IInvFacts DEF ReadUnderway, IInv, TypeOK
  <2>2. EofAtEnd'
    BY <1>1, <1>4 DEF EofAtEnd, Done, EofExit
  <2>3. \A i \in 1..Len(got) : call.start + i <= KeptLength(f') =>
           got[i] = ByteAt(f', call.start + i - 1)
    BY <1>4, <2>1, KeepsBytes DEF Delivered
  <2>4. CASE pc = "raw"
    <3>1. call.mode = 0 /\ Position(f) = call.start + Len(got)
      BY <2>0, <2>4 DEF ReadUnderway
    <3>2. RawRecordRead'
      BY <1>1, <1>4, <2>1, <2>3, <3>1 DEF RawRecordRead
    <3> QED
      BY <1>1, <1>4, <2>2, <3>1, <3>2 DEF ReadInv, ReadUnderway, LineRecordRead
  <2>5. CASE pc \in {"copy", "discard"}
    <3>1. call.mode = 1 /\ NoEOL(call.start, Position(f)) /\ call.start <= Position(f)
      BY <2>0, <2>1, <2>5 DEF ReadUnderway, Delivered
    <3>2. \A i \in call.start .. Position(f) - 1 : i < KeptLength(f') => ByteAt(f', i) # EOL
      BY <1>4, <2>1, <3>1, KeepsBytes DEF NoEOL
    <3>3. Len(got) = MinOf(call.rsz, Position(f) - call.start)
      BY <2>0, <2>1, <2>5 DEF ReadUnderway, MinOf
    <3>4. ASSUME Position(f') <= KeptLength(f')
          PROVE  /\ Position(f') = KeptLength(f')
                 /\ ~(Position(f') > call.start /\ ByteAt(f', Position(f') - 1) = EOL)
                 /\ \A i \in 1..Len(got) : got[i] = ByteAt(f', call.start + i - 1)
      <4>1. Position(f') = KeptLength(f') /\ KeptLength(f') \in Nat
        BY <1>4, <2>1, <3>4, KeepsBytes
      <4>2. \A i \in 1..Len(got) : call.start + i <= KeptLength(f')
        BY <1>4, <2>1, <3>3, <4>1 DEF MinOf
      <4>3. \A i \in 1..Len(got) : got[i] = ByteAt(f', call.start + i - 1)
        BY <2>3, <4>2
      <4>4. ASSUME Position(f') > call.start PROVE ByteAt(f', Position(f') - 1) # EOL
        <5>1. Position(f) - 1 \in call.start .. Position(f) - 1 /\ Position(f) - 1 < KeptLength(f')
          BY <1>4, <2>1, <4>1, <4>4
        <5> QED
          BY <1>4, <3>2, <5>1
      <4> QED
        BY <4>1, <4>3, <4>4
    <3>5. LineRecordRead'
      BY <1>1, <1>4, <2>1, <3>1, <3>2, <3>3, <3>4, KeepsBytes DEF LineRecordRead
    <3> QED
      BY <1>1, <1>4, <2>2, <3>1, <3>5 DEF ReadInv, ReadUnderway, RawRecordRead
  <2> QED
    BY <2>0, <2>4, <2>5
<1> QED
  BY <1>2, <1>3, <1>4, RefillFacts

(* The k-th of n bytes that lie in the buffer lies there too. *)
LEMMA Offsets ==
  ASSUME NEW a \in Nat, NEW b \in Nat, NEW c \in Nat, NEW n \in Nat, b + n <= c,
         NEW k \in 0 .. n - 1
  PROVE  b + k \in 0 .. c - 1 /\ a + (b + k) = (a + b) + k
  OBVIOUS

(* got takes the next n bytes of the buffer. *)
Takes(n) ==
  /\ f.next + n <= f.fill
  /\ got' = got \o Taken(n)
  /\ f' = [f EXCEPT !.next = f.next + n]

(* Bytes taken from the buffer are those of the file at the position. *)
LEMMA TakenDelivered ==
  ASSUME IInv, NEW n \in Nat, Takes(n), call' = call,
         call.start \in Nat, Delivered, Position(f) = call.start + Len(got)
  PROVE  /\ Delivered' /\ Len(got') = Len(got) + n /\ Keeps(f, f')
         /\ Position(f') = call.start + Len(got') /\ Position(f') = Position(f) + n
         /\ f'.next = f.next + n /\ f'.fill = f.fill /\ f'.buf = f.buf
<1>0. /\ Good(f) /\ f.offset \in Nat /\ f.fill \in Nat /\ f.next \in Nat /\ f.next + n <= f.fill
      /\ Position(f) = f.offset + f.next /\ got \in Seq(Byte) /\ Len(got) \in Nat
      /\ f.fill <= Size /\ Size \in Nat
  <2>1. Good(f) /\ f.next \in 0..f.fill /\ f.fill \in 0..Size /\ f.offset \in 0..MaxPos
        /\ Size \in Nat /\ MaxPos \in Nat
    BY IInvFacts
  <2>2. Position(f) = f.offset + f.next /\ f.next + n <= f.fill
    BY DEF Position, Takes
  <2>3. got \in Seq(Byte)
    BY DEF IInv, TypeOK
  <2>4. Len(got) \in Nat
    BY <2>3
  <2> QED
    BY <2>1, <2>2, <2>3, <2>4
<1>1. f.next + n \in 0..f.fill
  BY <1>0
<1>2. /\ Keeps(f, f') /\ Position(f') = f.offset + (f.next + n) /\ f'.next = f.next + n
      /\ f'.fill = f.fill /\ f'.buf = f.buf
  BY <1>0, <1>1, NextMoves DEF Takes
<1>3. Len(got') = Len(got) + n
  BY <1>0, TakenFacts DEF Takes
<1>4. Taken(n) \in Seq(Byte) /\ Len(Taken(n)) = n
  BY <1>0, TakenFacts
<1>5. /\ KeptLength(f') = KeptLength(f) /\ KeptLength(f) \in Nat
      /\ \A j \in Nat : j < KeptLength(f) => ByteAt(f', j) = ByteAt(f, j)
  BY <1>2, KeepsBytes
<1>6. ASSUME NEW i \in 1..Len(got'), call.start + i <= KeptLength(f')
      PROVE  got'[i] = ByteAt(f', call.start + i - 1)
  <2>1. i \in Nat /\ i > 0 /\ call.start + i - 1 \in Nat /\ call.start + i - 1 < KeptLength(f)
    BY <1>0, <1>3, <1>5, <1>6
  <2>2. ByteAt(f', call.start + i - 1) = ByteAt(f, call.start + i - 1)
    BY <1>5, <2>1
  <2>3. CASE i <= Len(got)
    <3>1. got'[i] = got[i] /\ i \in 1..Len(got)
      BY <1>0, <1>3, <1>4, <2>1, <2>3 DEF Takes
    <3> QED
      BY <1>5, <1>6, <2>2, <3>1 DEF Delivered
  <2>4. CASE i > Len(got)
    <3>1. PICK k \in 0 .. n - 1 : i = Len(got) + (k + 1)
      <4>1. i - Len(got) - 1 \in 0 .. n - 1 /\ i = Len(got) + ((i - Len(got) - 1) + 1)
        BY <1>0, <1>3, <2>1, <2>4
      <4> QED
        BY <4>1, Zenon
    <3>2. got'[i] = Taken(n)[k + 1]
      BY <1>0, <1>4, <3>1 DEF Takes
    <3>3. Taken(n)[k + 1] = f.buf[f.next + k]
      <4>1. k + 1 \in 1..n /\ f.next + (k + 1) - 1 = f.next + k
        BY <1>0, <3>1
      <4>2. Taken(n)[k + 1] = f.buf[f.next + (k + 1) - 1]
        BY <4>1, Zenon DEF Taken
      <4> QED
        BY <4>1, <4>2
    <3>4. f.next + k \in 0 .. f.fill - 1 /\ f.offset + (f.next + k) = Position(f) + k
      <4>1. f.offset \in Nat /\ f.next \in Nat /\ f.fill \in Nat /\ f.next + n <= f.fill
        BY <1>0
      <4>2. f.next + k \in 0 .. f.fill - 1 /\ f.offset + (f.next + k) = (f.offset + f.next) + k
        BY <3>1, <4>1, Offsets, SMTT(30)
      <4> QED
        BY <1>0, <4>2
    <3>5. Position(f) + k = call.start + i - 1
      BY <1>0, <3>1
    <3>6. ByteAt(f, f.offset + (f.next + k)) = f.buf[f.next + k]
      BY <1>0, <3>4, BufferByte
    <3> QED
      BY <2>2, <3>2, <3>3, <3>4, <3>5, <3>6
  <2> QED
    BY <1>0, <2>1, <2>3, <2>4
<1>7. Position(f') = call.start + Len(got') /\ Position(f') = Position(f) + n
  BY <1>0, <1>2, <1>3
<1>8. Delivered'
  <2>1. call'.start + Len(got') <= Position(f')
    BY <1>0, <1>3, <1>7
  <2> QED
    BY <1>6, <2>1 DEF Delivered
<1> QED
  BY <1>2, <1>3, <1>7, <1>8

(* The first phase of a line takes no EOL. *)
LEMMA CopyLineReads ==
  ASSUME IInv, ReadInv, CopyLine
  PROVE  ReadInv'
<1> DEFINE most == MinOf(call.rsz - Len(got), f.fill - f.next)
<1>0. PICK n \in 0..most :
        /\ FreeOfEOL(n)
        /\ n < most => f.buf[f.next + n] = EOL
        /\ got' = got \o Taken(n)
        /\ f' = [f EXCEPT !.next = f.next + n]
        /\ pc' = IF n = most /\ Len(got) + n < call.rsz THEN "copy" ELSE "discard"
  BY DEF CopyLine
<1>1. pc = "copy" /\ call' = call /\ call.op = "input" /\ call.rsz \in Nat /\ ReadUnderway
  BY CallFacts DEF CopyLine, ReadInv, IInv, CallInv
<1>2. /\ call.start \in Nat /\ Delivered /\ Position(f) = call.start + Len(got)
      /\ Len(got) < call.rsz /\ call.mode = 1 /\ NoEOL(call.start, Position(f))
  BY <1>1 DEF ReadUnderway
<1>3. /\ Good(f) /\ f.offset \in Nat /\ f.fill \in Nat /\ f.next \in 0..f.fill
      /\ Position(f) = f.offset + f.next /\ Len(got) \in Nat /\ Position(f) \in Nat
  BY IInvFacts, LengthFacts DEF Position, IInv, TypeOK
<1>4. n \in Nat /\ f.next + n <= f.fill /\ Len(got) + n <= call.rsz
      /\ (n < most => f.next + n < f.fill /\ Len(got) + n < call.rsz)
  BY <1>1, <1>3 DEF MinOf
<1>5. /\ Delivered' /\ Len(got') = Len(got) + n /\ Keeps(f, f')
      /\ Position(f') = call.start + Len(got') /\ Position(f') = Position(f) + n
      /\ f'.next = f.next + n /\ f'.fill = f.fill /\ f'.buf = f.buf
  <2>1. Takes(n)
    BY <1>0, <1>4 DEF Takes
  <2> QED
    BY <1>1, <1>2, <1>4, <2>1, TakenDelivered
<1>6. NoEOL(call.start, Position(f))'
  <2> SUFFICES ASSUME NEW i \in call.start .. Position(f') - 1, i < KeptLength(f')
               PROVE  ByteAt(f', i) # EOL
    BY <1>1 DEF NoEOL
  <2>1. i \in Nat /\ i < KeptLength(f) /\ ByteAt(f', i) = ByteAt(f, i)
    BY <1>2, <1>5, KeepsBytes
  <2>2. CASE i < Position(f)
    BY <1>2, <1>3, <2>1, <2>2 DEF NoEOL
  <2>3. CASE i >= Position(f)
    <3>0. PICK k \in 0 .. n - 1 : i = Position(f) + k
      <4>1. i - Position(f) \in 0 .. n - 1
        BY <1>3, <1>4, <1>5, <2>1, <2>3
      <4> QED
        BY <1>3, <2>1, <4>1
    <3>1. f.next + k \in 0 .. f.fill - 1 /\ f.offset + (f.next + k) = i
      <4>1. f.offset \in Nat /\ f.next \in Nat /\ f.fill \in Nat
        BY <1>3
      <4> QED
        BY <1>3, <1>4, <3>0, <4>1, Offsets, SMTT(30)
    <3>2. ByteAt(f, i) = f.buf[f.next + k]
      BY <1>3, <3>1, BufferByte
    <3> QED
      BY <1>0, <2>1, <3>1, <3>2 DEF FreeOfEOL
  <2> QED
    BY <1>3, <2>1, <2>2, <2>3
<1>7. CASE pc' = "copy"
  <2>1. Len(got') < call.rsz
    BY <1>0, <1>5, <1>7
  <2> QED
    BY <1>1, <1>2, <1>5, <1>6, <1>7, <2>1
    DEF ReadInv, ReadUnderway, LineRecordRead, RawRecordRead, EofAtEnd, Done
<1>8. CASE pc' = "discard"
  <2>1. Position(f') - call.start = Len(got') /\ Len(got') \in Nat
    BY <1>2, <1>3, <1>4, <1>5
  <2>2. Len(got') = MinOf(call.rsz, Len(got'))
    BY <1>1, <1>4, <1>5, <2>1 DEF MinOf
  <2>3. n < most \/ Len(got) + n = call.rsz
    <3>1. ~(n = most /\ Len(got) + n < call.rsz)
      BY <1>0, <1>8, Zenon
    <3>2. n \in 0..most /\ most \in Int
      BY <1>0, <1>1, <1>3 DEF MinOf
    <3> HIDE DEF most
    <3> QED
      BY <1>1, <1>3, <1>4, <3>1, <3>2
  <2>4. Len(got') < call.rsz => f'.next < f'.fill /\ f'.buf[f'.next] = EOL
    BY <1>0, <1>1, <1>4, <1>5, <2>1, <2>3
  <2> QED
    BY <1>1, <1>2, <1>5, <1>6, <1>8, <2>1, <2>2, <2>4
    DEF ReadInv, ReadUnderway, LineRecordRead, RawRecordRead, EofAtEnd, Done
<1> QED
  BY <1>0, <1>7, <1>8

(* The second phase drops characters up to an EOL, the first it meets. *)
LEMMA DiscardReads ==
  ASSUME IInv, ReadInv, Discard
  PROVE  ReadInv'
<1>1. /\ pc = "discard" /\ call' = call /\ got' = got /\ call.op = "input" /\ call.rsz \in Nat
      /\ ReadUnderway /\ f' = [f EXCEPT !.next = f.next + 1] /\ f.next < f.fill
      /\ IF f.buf[f.next] = EOL THEN pc' = "done" /\ ret' = 0 ELSE pc' = pc
  BY CallFacts DEF Discard, Finish, ReadInv, IInv, CallInv
<1>2. /\ call.start \in Nat /\ Delivered /\ call.mode = 1 /\ NoEOL(call.start, Position(f))
      /\ Len(got) = MinOf(call.rsz, Position(f) - call.start)
      /\ (Len(got) < call.rsz => f.buf[f.next] = EOL)
  BY <1>1 DEF ReadUnderway
<1>3. /\ Good(f) /\ f.offset \in Nat /\ f.fill \in Nat /\ f.next \in 0..f.fill
      /\ Position(f) = f.offset + f.next /\ Len(got) \in Nat /\ Position(f) \in Nat
      /\ call.start + Len(got) <= Position(f)
  BY <1>2, IInvFacts, LengthFacts DEF Position, IInv, TypeOK, Delivered
<1>4. f.next + 1 \in 0..f.fill /\ f.next \in 0 .. f.fill - 1
  BY <1>1, <1>3
<1>5. /\ Keeps(f, f') /\ Position(f') = Position(f) + 1
  BY <1>1, <1>3, <1>4, NextMoves
<1>6. KeptLength(f') = KeptLength(f) /\ KeptLength(f) \in Nat
      /\ \A i \in Nat : i < KeptLength(f) => ByteAt(f', i) = ByteAt(f, i)
  BY <1>5, KeepsBytes
<1>7. \A i \in 1..Len(got) : call.start + i <= KeptLength(f') =>
        got[i] = ByteAt(f', call.start + i - 1)
  BY <1>2, <1>3, <1>6 DEF Delivered
<1>8. Delivered'
  <2>1. call'.start + Len(got') <= Position(f')
    BY <1>1, <1>2, <1>3, <1>5
  <2> QED
    BY <1>1, <1>7, <2>1 DEF Delivered
<1>9. ByteAt(f, Position(f)) = f.buf[f.next]
  BY <1>3, <1>4, BufferByte
<1>10. \A i \in call.start .. Position(f) - 1 : i < KeptLength(f') => ByteAt(f', i) # EOL
  BY <1>2, <1>6 DEF NoEOL
<1>11. CASE f.buf[f.next] = EOL
  <2>1. ASSUME Position(f') <= KeptLength(f')
        PROVE  /\ Position(f') > call.start /\ ByteAt(f', Position(f') - 1) = EOL
               /\ Position(f') - 1 = Position(f)
               /\ \A i \in 1..Len(got) : got[i] = ByteAt(f', call.start + i - 1)
               /\ \A i \in call.start .. Position(f) - 1 : ByteAt(f', i) # EOL
    <3>1. Position(f') - 1 = Position(f) /\ Position(f) < KeptLength(f) /\ Position(f') > call.start
      BY <1>2, <1>3, <1>5, <1>6, <2>1
    <3>2. ByteAt(f', Position(f)) = EOL
      BY <1>3, <1>6, <1>9, <1>11, <3>1
    <3>3. \A i \in 1..Len(got) : call.start + i <= KeptLength(f')
      BY <1>2, <1>3, <1>6, <3>1
    <3>4. \A i \in call.start .. Position(f) - 1 : i < KeptLength(f')
      BY <1>2, <1>3, <1>6, <3>1
    <3> QED
      BY <1>7, <1>10, <3>1, <3>2, <3>3, <3>4
  <2>2. LineRecordRead'
    BY <1>1, <1>2, <2>1 DEF LineRecordRead
  <2> QED
    BY <1>1, <1>2, <1>11, <2>2 DEF ReadInv, ReadUnderway, RawRecordRead, EofAtEnd, Done
<1>12. CASE f.buf[f.next] # EOL
  <2>1. Len(got) = call.rsz
    BY <1>1, <1>2, <1>3, <1>12 DEF MinOf
  <2>2. Len(got) = MinOf(call.rsz, Position(f') - call.start)
    BY <1>1, <1>2, <1>3, <1>5, <2>1 DEF MinOf
  <2>3. NoEOL(call.start, Position(f))'
    <3> SUFFICES ASSUME NEW i \in call.start .. Position(f') - 1, i < KeptLength(f')
                 PROVE  ByteAt(f', i) # EOL
      BY <1>1 DEF NoEOL
    <3>1. CASE i = Position(f)
      BY <1>3, <1>6, <1>9, <1>12, <3>1
    <3>2. CASE i # Position(f)
      BY <1>2, <1>3, <1>5, <1>10, <3>2
    <3> QED
      BY <3>1, <3>2
  <2> QED
    BY <1>1, <1>2, <1>8, <1>12, <2>1, <2>2, <2>3
    DEF ReadInv, ReadUnderway, LineRecordRead, RawRecordRead, EofAtEnd, Done
<1> QED
  BY <1>11, <1>12

(* Raw mode takes the next bytes, whatever they are. *)
LEMMA CopyRawReads ==
  ASSUME IInv, ReadInv, CopyRaw
  PROVE  ReadInv'
<1> DEFINE n == MinOf(call.rsz - Len(got), f.fill - f.next)
<1>1. /\ pc = "raw" /\ call' = call /\ call.op = "input" /\ call.rsz \in Nat /\ ReadUnderway
      /\ got' = got \o Taken(n) /\ f' = [f EXCEPT !.next = f.next + n]
      /\ IF Len(got) + n = call.rsz THEN pc' = "done" /\ ret' = 0 ELSE pc' = pc
  BY CallFacts DEF CopyRaw, Finish, ReadInv, IInv, CallInv
<1>2. /\ call.start \in Nat /\ Delivered /\ Position(f) = call.start + Len(got)
      /\ Len(got) < call.rsz /\ call.mode = 0
  BY <1>1 DEF ReadUnderway
<1>3. f.fill \in Nat /\ f.next \in 0..f.fill /\ Len(got) \in Nat
  BY IInvFacts, LengthFacts DEF IInv, TypeOK
<1>4. n \in Nat /\ f.next + n <= f.fill /\ Len(got) + n <= call.rsz
  BY <1>1, <1>2, <1>3 DEF MinOf
<1> HIDE DEF n
<1>5. /\ Delivered' /\ Len(got') = Len(got) + n /\ Position(f') = call.start + Len(got')
  <2>1. Takes(n)
    BY <1>1, <1>4 DEF Takes
  <2> QED
    BY <1>1, <1>2, <1>4, <2>1, TakenDelivered
<1>6. CASE Len(got) + n = call.rsz
  <2>1. RawRecordRead'
    BY <1>1, <1>2, <1>5, <1>6 DEF RawRecordRead, Delivered
  <2> QED
    BY <1>1, <1>2, <1>6, <2>1 DEF ReadInv, ReadUnderway, LineRecordRead, EofAtEnd, Done
<1>7. CASE Len(got) + n # call.rsz
  <2>1. Len(got') < call.rsz
    BY <1>1, <1>3, <1>4, <1>5, <1>7
  <2> QED
    BY <1>1, <1>2, <1>5, <1>7, <2>1
    DEF ReadInv, ReadUnderway, LineRecordRead, RawRecordRead, EofAtEnd, Done
<1> QED
  BY <1>6, <1>7

(* What a read has delivered is inductive. *)
LEMMA ReadKeeps ==
  ASSUME IInv, Matches, ReadInv, [Next]_vars
  PROVE  ReadInv'
<1>1. CASE BeginCall
  <2>1. CASE BeginInput
    BY <2>1, ReadBegins
  <2>2. CASE ~BeginInput
    <3>1. call'.op # "input"
      BY <1>1, <2>2
      DEF BeginCall, BeginOpen, BeginOutput, BeginSet, BeginRewind, BeginBackspace, BeginEndfile,
          Begin
    <3> QED
      BY <3>1 DEF ReadInv
  <2> QED
    BY <2>1, <2>2
<1>2. CASE Step
  <2>1. CASE Return
    BY <2>1 DEF Return, ReadInv, NoCall
  <2>2. CASE ~Return /\ call.op # "input"
    BY <1>2, <2>2, StepsMatch DEF ReadInv
  <2>3. CASE ~Return /\ call.op = "input"
    BY <1>2, <2>3, StepsMatch, RefillReads, CopyLineReads, DiscardReads, CopyRawReads
  <2> QED
    BY <2>1, <2>2, <2>3
<1>3. CASE UNCHANGED vars
  BY <1>3
  DEF vars, ReadInv, ReadUnderway, Delivered, NoEOL, LineRecordRead, RawRecordRead, EofAtEnd, Done
<1> QED
  BY <1>1, <1>2, <1>3 DEF Next

-----------------------------------------------------------------------------
(* Division, as oswrite's framing uses it. *)
LEMMA DivMod ==
  ASSUME NEW m \in Nat \ {0}, NEW q \in Nat, NEW j \in 0 .. m - 1
  PROVE  (q * m + j) \div m = q /\ (q * m + j) % m = j
<1> DEFINE i == q * m + j
<1>0. q * m \in Nat /\ i \in Nat
  OBVIOUS
<1> HIDE DEF i
<1>1. PICK d \in Nat : d = i \div m
  BY <1>0
<1>2. i = m * d + (i % m) /\ i % m \in 0 .. m - 1
  BY <1>0, <1>1
<1>3. i = q * m + j
  BY DEF i
<1>4. ~(d < q)
  <2> SUFFICES ASSUME d < q PROVE FALSE
    OBVIOUS
  <2>1. PICK k \in Nat : q = d + 1 + k
    <3>1. q - d - 1 \in Nat /\ q = d + 1 + (q - d - 1)
      BY <1>1
    <3> QED
      BY <3>1, Zenon
  <2>2. q * m = m * d + m + k * m /\ k * m \in Nat
    BY <1>1, <2>1
  <2> QED
    BY <1>1, <1>2, <1>3, <2>2
<1>5. ~(q < d)
  <2> SUFFICES ASSUME q < d PROVE FALSE
    OBVIOUS
  <2>1. PICK k \in Nat : d = q + 1 + k
    <3>1. d - q - 1 \in Nat /\ d = q + 1 + (d - q - 1)
      BY <1>1
    <3> QED
      BY <3>1, Zenon
  <2>2. m * d = q * m + m + k * m /\ k * m \in Nat
    BY <1>1, <2>1
  <2> QED
    BY <1>1, <1>2, <1>3, <2>2
<1>6. d = q
  BY <1>1, <1>4, <1>5
<1>7. i % m = j
  BY <1>0, <1>2, <1>3, <1>6
<1> QED
  BY <1>1, <1>6, <1>7 DEF i

(* The bytes a record of n takes in line mode when q whole lines and one of *)
(* r bytes make it up.                                                     *)
LEMMA FootprintOfLines ==
  ASSUME NEW z \in Nat \ {0}, NEW q \in Nat, NEW r \in 0..z, r = 0 => q = 0
  PROVE  Footprint(1, q * z + r, z) = q * (z + 1) + r + 1
<1>1. q * z \in Nat /\ q * (z + 1) = q * z + q
  OBVIOUS
<1>2. CASE r = 0
  <2>1. q * z + r = 0 /\ q * (z + 1) + r + 1 = 1
    BY <1>2
  <2> QED
    BY <2>1 DEF Footprint, Lines
<1>3. CASE r # 0
  <2>1. q * z + r + z - 1 = (q + 1) * z + (r - 1) /\ r - 1 \in 0 .. z - 1 /\ q * z + r # 0
    BY <1>1, <1>3
  <2>2. ((q + 1) * z + (r - 1)) \div z = q + 1
    BY <2>1, DivMod
  <2>3. Lines(q * z + r, z) = q + 1
    BY <2>1, <2>2 DEF Lines
  <2> QED
    BY <1>1, <2>3 DEF Footprint
<1> QED
  BY <1>2, <1>3

(* A record longer than q whole lines takes more than they do. *)
LEMMA FootprintBeyond ==
  ASSUME NEW z \in Nat \ {0}, NEW q \in Nat, NEW n \in Nat, q * z < n
  PROVE  q * (z + 1) < Footprint(1, n, z)
<1>1. PICK d \in Nat, r \in 0 .. z - 1 : n - 1 = d * z + r
  <2>1. n - 1 \in Nat
    BY SMT
  <2>2. (n - 1) \div z \in Nat /\ (n - 1) % z \in 0 .. z - 1
        /\ n - 1 = z * ((n - 1) \div z) + ((n - 1) % z)
    BY <2>1
  <2>3. n - 1 = ((n - 1) \div z) * z + ((n - 1) % z)
    BY <2>2
  <2> QED
    BY <2>2, <2>3, Zenon
<1>2. n = d * z + (r + 1) /\ r + 1 \in 0..z /\ r + 1 # 0
  BY <1>1
<1>3. Footprint(1, n, z) = d * (z + 1) + (r + 1) + 1
  BY <1>2, FootprintOfLines
<1>4. q <= d
  <2> SUFFICES ASSUME d < q PROVE FALSE
    OBVIOUS
  <2>1. PICK k \in Nat : q = d + 1 + k
    <3>1. q - d - 1 \in Nat /\ q = d + 1 + (q - d - 1)
      OBVIOUS
    <3> QED
      BY <3>1, Zenon
  <2>2. q * z = d * z + z + k * z /\ k * z \in Nat /\ d * z \in Nat
    BY <2>1
  <2> QED
    BY <1>1, <1>2, <2>2
<1>5. PICK k \in Nat : d = q + k
  <2>1. d - q \in Nat /\ d = q + (d - q)
    BY <1>4
  <2> QED
    BY <2>1, Zenon
<1>6. d * (z + 1) = q * (z + 1) + k * (z + 1) /\ k * (z + 1) \in Nat /\ q * (z + 1) \in Nat
  BY <1>5
<1> QED
  BY <1>2, <1>3, <1>6

-----------------------------------------------------------------------------
(* oswrite: where its loops stand.  The bytes of the call that are in the   *)
(* file are those of the framed record, from the start of the call on.     *)
Landed ==
  /\ call.start <= Position(f)
  /\ call.start < Position(f) => Position(f) <= KeptLength(f)
  /\ \A i \in call.start .. Position(f) - 1 : ByteAt(f, i) = FramedByte(call, i - call.start)

(* q whole lines make up d bytes, and rest is the record after them. *)
AfterLines(q, d) ==
  /\ d = q * (call.rsz + 1)
  /\ Len(call.rec) = q * call.rsz + Len(rest)
  /\ \A j \in 1..Len(rest) : rest[j] = call.rec[q * call.rsz + j]
  /\ q > 0 => call.mode = 1 /\ rest # <<>>

LinesDone(d) == \E q \in Nat : AfterLines(q, d)

Total == Footprint(call.mode, Len(call.rec), call.rsz)

(* The line at cp is the next of the framed record. *)
LineIsNext ==
  \A j \in 1..Len(line) : line[j] = FramedByte(call, Position(f) - call.start + j - 1)

WriteUnderway ==
  /\ pc \in {"line", "put"} => call.start \in Nat /\ call.rec \in Seq(Byte) /\ Landed
  /\ pc = "line" => LinesDone(Position(f) - call.start)
  /\ pc = "put" => LineIsNext
  /\ pc = "put" => IF rest = <<>> THEN Position(f) - call.start + Len(line) = Total
                   ELSE LinesDone(Position(f) - call.start + Len(line))

WriteInv == call.op = "output" => WriteUnderway /\ RecordStored

(* A write begins with all of the record to come. *)
LEMMA WriteBegins ==
  ASSUME IInv, BeginOutput
  PROVE  WriteInv'
<1>1. PICK m \in {0, 1}, z \in RecSizes, r \in Records :
        /\ pc' = "line" /\ rest' = r /\ f' = f
        /\ call' = [op |-> "output", mode |-> m, rsz |-> z, rec |-> r, start |-> Position(f)]
  BY DEF BeginOutput
<1>2. call'.start = Position(f) /\ call'.rec = r /\ call'.rsz = z /\ call'.mode = m
  BY <1>1
<1>3. r \in Seq(Byte) /\ z \in Nat /\ Position(f) \in Nat /\ Len(r) \in Nat
  BY IInvFacts, BufferedFileAssumption
<1>4. Landed'
  BY <1>1, <1>2, <1>3 DEF Landed
<1>5. AfterLines(0, 0)'
  BY <1>1, <1>2, <1>3 DEF AfterLines
<1>6. Position(f') - call'.start = 0
  BY <1>1, <1>2, <1>3
<1>7. LinesDone(Position(f) - call.start)'
  BY <1>5, <1>6 DEF LinesDone
<1> QED
  BY <1>1, <1>2, <1>3, <1>4, <1>7 DEF WriteInv, WriteUnderway, RecordStored, Done

(* What is known of a write at the start of a step. *)
LEMMA WriteFacts ==
  ASSUME IInv, WriteInv, pc \in {"line", "put"}
  PROVE  /\ call.op = "output" /\ call.mode \in {0, 1} /\ call.rsz \in Nat \ {0}
         /\ call.start \in Nat /\ call.rec \in Seq(Byte) /\ Landed
         /\ rest \in Seq(Byte) /\ line \in Seq(Byte) /\ Len(rest) \in Nat /\ Len(line) \in Nat
         /\ Len(call.rec) \in Nat /\ Position(f) \in Nat /\ call.start <= Position(f)
<1>1. call.op = "output"
  BY DEF IInv, CallInv
<1>2. call.mode \in {0, 1} /\ call.rsz \in Nat \ {0} /\ rest \in Seq(Byte) /\ line \in Seq(Byte)
  BY <1>1, CallFacts DEF IInv, TypeOK
<1>3. call.start \in Nat /\ call.rec \in Seq(Byte) /\ Landed
  BY <1>1 DEF WriteInv, WriteUnderway
<1> QED
  BY <1>1, <1>2, <1>3, IInvFacts DEF Landed

(* The next line of the record: its bytes, and what is left after it. *)
LEMMA NextLineWrites ==
  ASSUME IInv, WriteInv, NextLine
  PROVE  WriteInv'
<1> DEFINE n == IF call.mode = 1 THEN MinOf(call.rsz, Len(rest)) ELSE Len(rest)
           z == call.rsz
           L == Len(call.rec)
           d == Position(f) - call.start
<1>1. /\ pc = "line" /\ pc' = "put" /\ f' = f /\ call' = call
      /\ line' = SubSeq(rest, 1, n) \o (IF call.mode = 1 THEN <<EOL>> ELSE <<>>)
      /\ rest' = SubSeq(rest, n + 1, Len(rest))
  BY DEF NextLine
<1>2. /\ call.op = "output" /\ call.mode \in {0, 1} /\ z \in Nat \ {0}
      /\ call.start \in Nat /\ call.rec \in Seq(Byte) /\ Landed
      /\ rest \in Seq(Byte) /\ Len(rest) \in Nat /\ L \in Nat /\ d \in Nat
  BY <1>1, WriteFacts
<1>3. PICK q \in Nat : AfterLines(q, d)
  BY <1>1, <1>2 DEF WriteInv, WriteUnderway, LinesDone
<1>4. /\ d = q * (z + 1) /\ L = q * z + Len(rest) /\ (q > 0 => call.mode = 1 /\ rest # <<>>)
      /\ \A j \in 1..Len(rest) : rest[j] = call.rec[q * z + j]
  BY <1>3 DEF AfterLines
<1>5. n \in 0..Len(rest) /\ (call.mode = 1 => n <= z /\ (n < z => n = Len(rest)))
  BY <1>2 DEF MinOf
<1>6. call.mode # 1 => n = Len(rest)
  OBVIOUS
<1> HIDE DEF n
<1>7. /\ SubSeq(rest, 1, n) \in Seq(Byte) /\ Len(SubSeq(rest, 1, n)) = n
      /\ \A j \in 1..n : SubSeq(rest, 1, n)[j] = rest[j]
  BY <1>2, <1>5
<1>8. /\ rest' \in Seq(Byte) /\ Len(rest') = Len(rest) - n
      /\ \A j \in 1..Len(rest') : rest'[j] = rest[n + j]
  BY <1>1, <1>2, <1>5
<1>9. Landed'
  BY <1>1, <1>2 DEF Landed
<1> HIDE DEF z, L, d
<1>10. CASE call.mode = 0
  <2>1. q = 0 /\ n = Len(rest) /\ d = 0 /\ L = n
    BY <1>2, <1>4, <1>6, <1>10
  <2>2. line' = SubSeq(rest, 1, n)
    BY <1>1, <1>7, <1>10
  <2>3. Len(line') = n /\ \A j \in 1..n : line'[j] = call.rec[j]
    <3>1. \A j \in 1..n : q * z + j = j
      BY <1>2, <1>5, <2>1
    <3> QED
      BY <1>4, <1>7, <2>1, <2>2, <3>1
  <2>4. \A j \in 1..n : FramedByte(call, 0 + j - 1) = call.rec[j]
    BY <1>10, <2>1 DEF FramedByte
  <2>5. LineIsNext'
    BY <1>1, <2>1, <2>3, <2>4 DEF LineIsNext, d
  <2>6. rest' = <<>> /\ Total = n
    BY <1>8, <1>10, <2>1 DEF Total, Footprint, L
  <2>7. Position(f') - call'.start + Len(line') = Total'
    <3>1. Total' = Total
      BY <1>1 DEF Total
    <3>2. Position(f') - call'.start = d
      BY <1>1 DEF d
    <3> QED
      BY <1>5, <2>1, <2>3, <2>6, <3>1, <3>2
  <2> QED
    BY <1>1, <1>2, <1>9, <2>5, <2>6, <2>7 DEF WriteInv, WriteUnderway, RecordStored, Done
<1>11. CASE call.mode = 1
  <2>1. /\ line' \in Seq(Byte) /\ Len(line') = n + 1 /\ line'[n + 1] = EOL
        /\ \A j \in 1..n : line'[j] = call.rec[q * z + j]
    <3>1. line' = SubSeq(rest, 1, n) \o <<EOL>>
      BY <1>1, <1>11
    <3>2. <<EOL>> \in Seq(Byte)
      BY FileBufferAssumption
    <3> QED
      BY <1>4, <1>5, <1>7, <3>1, <3>2
  <2>2. d \in Nat /\ q * z \in Nat /\ d + n + 1 = q * (z + 1) + n + 1 /\ n \in Nat
    BY <1>2, <1>4, <1>5
  <2>3. Total = Footprint(1, L, z)
    BY <1>11 DEF Total, L, z
  <2>4. n = Len(rest) => Total = d + n + 1
    <3>1. ASSUME n = Len(rest) PROVE Footprint(1, q * z + n, z) = q * (z + 1) + n + 1
      <4>1. n \in 0..z /\ (n = 0 => q = 0)
        BY <1>2, <1>4, <1>5, <1>11, <3>1
      <4> QED
        BY <1>2, <4>1, FootprintOfLines
    <3> QED
      BY <1>4, <2>2, <2>3, <3>1
  <2>5. n # Len(rest) => n = z /\ d + n + 1 = (q + 1) * (z + 1) /\ d + n + 1 < Total
    <3> SUFFICES ASSUME n # Len(rest)
                 PROVE  n = z /\ d + n + 1 = (q + 1) * (z + 1) /\ d + n + 1 < Total
      OBVIOUS
    <3>1. n = z /\ z < Len(rest)
      BY <1>2, <1>5, <1>11
    <3>2. (q + 1) * (z + 1) = q * (z + 1) + z + 1 /\ (q + 1) * z = q * z + z
      BY <1>2
    <3>3. (q + 1) * z < L
      BY <1>2, <1>4, <3>1, <3>2
    <3>4. (q + 1) * (z + 1) < Footprint(1, L, z)
      <4>1. q + 1 \in Nat
        OBVIOUS
      <4> QED
        BY <1>2, <3>3, <4>1, FootprintBeyond
    <3> QED
      BY <1>4, <2>2, <2>3, <3>1, <3>2, <3>4
  <2>6. d + n + 1 <= Total /\ Total \in Nat
    <3>1. d + n + 1 \in Nat
      BY <2>2
    <3>2. CASE n = Len(rest)
      BY <2>4, <3>1, <3>2
    <3>3. CASE n # Len(rest)
      <4>1. Total \in Nat
        <5>1. (L + z - 1) \div z \in Nat
          BY <1>2
        <5> QED
          BY <1>2, <2>3, <5>1 DEF Footprint, Lines
      <4> QED
        BY <2>5, <3>1, <3>3, <4>1
    <3> QED
      BY <3>2, <3>3
  <2>7. ASSUME NEW j \in 1..n + 1 PROVE line'[j] = FramedByte(call, d + j - 1)
    <3>1. j - 1 \in 0 .. (z + 1) - 1 /\ j \in Nat
      BY <1>2, <1>5, <1>11, <2>2
    <3>2. d + j - 1 = q * (z + 1) + (j - 1)
      BY <1>2, <1>4, <2>2, <3>1
    <3>3. (d + j - 1) \div (z + 1) = q /\ (d + j - 1) % (z + 1) = j - 1
      <4>1. z + 1 \in Nat \ {0}
        BY <1>2
      <4>2. /\ (q * (z + 1) + (j - 1)) \div (z + 1) = q
            /\ (q * (z + 1) + (j - 1)) % (z + 1) = j - 1
        BY <3>1, <4>1, DivMod
      <4> QED
        BY <3>2, <4>2
    <3>4. FramedByte(call, d + j - 1) =
            IF j - 1 = z \/ d + j - 1 = Total - 1 THEN EOL ELSE call.rec[q * z + (j - 1) + 1]
      BY <1>11, <2>3, <3>3 DEF FramedByte, L, z
    <3>5. CASE j = n + 1
      <4>1. j - 1 = z \/ d + j - 1 = Total - 1
        BY <2>2, <2>4, <2>5, <2>6, <3>5
      <4> QED
        BY <2>1, <3>4, <3>5, <4>1
    <3>6. CASE j # n + 1
      <4>1. j \in 1..n /\ ~(j - 1 = z \/ d + j - 1 = Total - 1) /\ q * z + (j - 1) + 1 = q * z + j
        BY <1>2, <1>5, <1>11, <2>2, <2>6, <3>1, <3>6
      <4> QED
        BY <2>1, <3>4, <4>1
    <3> QED
      BY <3>5, <3>6
  <2>8. LineIsNext'
    BY <1>1, <2>1, <2>7 DEF LineIsNext, d
  <2>9. CASE n = Len(rest)
    <3>1. rest' = <<>>
      BY <1>2, <1>8, <2>9
    <3>2. Position(f') - call'.start + Len(line') = Total'
      <4>1. Total' = Total
        BY <1>1 DEF Total
      <4>2. Position(f') - call'.start = d
        BY <1>1 DEF d
      <4> QED
        BY <1>5, <2>1, <2>2, <2>4, <2>9, <4>1, <4>2
    <3> QED
      BY <1>1, <1>2, <1>9, <2>8, <3>1, <3>2 DEF WriteInv, WriteUnderway, RecordStored, Done
  <2>10. CASE n # Len(rest)
    <3>1. rest' # <<>> /\ Len(rest') = Len(rest) - z /\ n = z
      BY <1>2, <1>5, <1>8, <2>5, <2>10
    <3>2. (q + 1) * z = q * z + z
      BY <1>2
    <3>3. L = (q + 1) * z + Len(rest')
      BY <1>2, <1>4, <2>2, <3>1, <3>2
    <3>4. ASSUME NEW j \in 1..Len(rest') PROVE rest'[j] = call.rec[(q + 1) * z + j]
      <4>1. n + j \in 1..Len(rest) /\ q * z + (n + j) = (q + 1) * z + j
        BY <1>2, <1>5, <1>8, <2>2, <3>1, <3>2
      <4> QED
        BY <1>4, <1>8, <4>1
    <3>5. PICK e : e = d + n + 1
      OBVIOUS
    <3>6. AfterLines(q + 1, e)'
      <4>1. e = (q + 1) * (call'.rsz + 1)
        BY <1>1, <2>5, <2>10, <3>5 DEF z
      <4>2. Len(call'.rec) = (q + 1) * call'.rsz + Len(rest')
        BY <1>1, <3>3 DEF z, L
      <4>3. \A j \in 1..Len(rest') : rest'[j] = call'.rec[(q + 1) * call'.rsz + j]
        BY <1>1, <3>4 DEF z
      <4> QED
        BY <1>1, <1>11, <3>1, <4>1, <4>2, <4>3 DEF AfterLines
    <3>7. Position(f') - call'.start + Len(line') = e
      <4>1. Position(f') - call'.start = d
        BY <1>1 DEF d
      <4> QED
        BY <1>5, <2>1, <2>2, <3>5, <4>1
    <3>8. q + 1 \in Nat
      OBVIOUS
    <3>9. LinesDone(Position(f) - call.start + Len(line))'
      BY <3>6, <3>7, <3>8 DEF LinesDone
    <3> QED
      BY <1>1, <1>2, <1>9, <2>8, <3>1, <3>9 DEF WriteInv, WriteUnderway, RecordStored, Done
  <2> QED
    BY <2>9, <2>10
<1> QED
  BY <1>2, <1>10, <1>11

(* n bytes of the line go to the file at the position, and no other byte of *)
(* the file changes.                                                       *)
Placed(n) ==
  /\ Position(f') = Position(f) + n
  /\ SeenLength(f') = MaxOf(SeenLength(f), Position(f) + n) /\ KeptLength(f') = SeenLength(f')
  /\ \A i \in Nat :
       IF Position(f) <= i /\ i < Position(f) + n THEN ByteAt(f', i) = line[i - Position(f) + 1]
       ELSE i < SeenLength(f) => ByteAt(f', i) = ByteAt(f, i)

(* Placing the next bytes of the line brings the call forward by as many. *)
LEMMA PlacedWrites ==
  ASSUME IInv, WriteInv, pc = "put", NEW n \in 1..Len(line), Placed(n),
         line' = SubSeq(line, n + 1, Len(line)), UNCHANGED <<pc, call, rest>>
  PROVE  WriteInv'
<1> DEFINE d == Position(f) - call.start
<1>1. /\ call.op = "output" /\ call.start \in Nat /\ Landed /\ line \in Seq(Byte)
      /\ Len(line) \in Nat /\ Position(f) \in Nat /\ call.start <= Position(f)
      /\ call.rec \in Seq(Byte) /\ n \in Nat /\ n > 0
  BY WriteFacts
<1>2. /\ Position(f') = Position(f) + n /\ Position(f') <= KeptLength(f')
      /\ KeptLength(f') = SeenLength(f') /\ SeenLength(f) <= SeenLength(f')
      /\ SeenLength(f) \in Nat /\ KeptLength(f) <= SeenLength(f) /\ KeptLength(f) \in Nat
      /\ SeenLength(f') \in Nat
  <2>1. SeenLength(f) \in Nat /\ KeptLength(f) <= SeenLength(f) /\ KeptLength(f) \in Nat
    BY IInvFacts, LengthFacts
  <2>2. /\ Position(f') = Position(f) + n
        /\ SeenLength(f') = MaxOf(SeenLength(f), Position(f) + n) /\ KeptLength(f') = SeenLength(f')
    BY DEF Placed
  <2> QED
    BY <1>1, <2>1, <2>2 DEF MaxOf
<1>3. /\ \A j \in 1..Len(line) : line[j] = FramedByte(call, d + j - 1)
      /\ IF rest = <<>> THEN d + Len(line) = Total ELSE LinesDone(d + Len(line))
  BY <1>1 DEF WriteInv, WriteUnderway, LineIsNext
<1>4. /\ line' \in Seq(Byte) /\ Len(line') = Len(line) - n
      /\ \A j \in 1..Len(line') : line'[j] = line[n + j]
  BY <1>1
<1>5. Position(f') - call'.start = d + n /\ d \in Nat
  BY <1>1, <1>2
<1>6. ASSUME NEW i \in call.start .. Position(f') - 1
      PROVE  ByteAt(f', i) = FramedByte(call, i - call.start)
  <2>1. i \in Nat /\ i < SeenLength(f') /\ i < Position(f) + n
    BY <1>1, <1>2
  <2>2. IF Position(f) <= i /\ i < Position(f) + n THEN ByteAt(f', i) = line[i - Position(f) + 1]
        ELSE i < SeenLength(f) => ByteAt(f', i) = ByteAt(f, i)
    BY <2>1 DEF Placed
  <2>3. CASE i < Position(f)
    <3>1. i \in call.start .. Position(f) - 1 /\ ~(Position(f) <= i) /\ i < SeenLength(f)
      BY <1>1, <1>2, <2>1, <2>3 DEF Landed
    <3> QED
      BY <1>1, <2>2, <3>1 DEF Landed
  <2>4. CASE Position(f) <= i
    <3>1. i - Position(f) + 1 \in 1..Len(line)
      BY <1>1, <2>1, <2>4
    <3>2. d + (i - Position(f) + 1) - 1 = i - call.start
      BY <1>1, <2>1
    <3> HIDE DEF d
    <3> QED
      BY <1>3, <2>1, <2>2, <2>4, <3>1, <3>2
  <2> QED
    BY <1>1, <2>1, <2>3, <2>4
<1>7. Landed'
  BY <1>1, <1>2, <1>6 DEF Landed
<1> HIDE DEF d
<1>8. ASSUME NEW j \in 1..Len(line')
      PROVE  line'[j] = FramedByte(call, d + n + j - 1)
  <2>1. n + j \in 1..Len(line) /\ d + (n + j) - 1 = d + n + j - 1
    BY <1>1, <1>4, <1>5
  <2> QED
    BY <1>3, <1>4, <2>1
<1>9. LineIsNext'
  BY <1>5, <1>8 DEF LineIsNext
<1>10. Position(f') - call'.start + Len(line') = d + Len(line)
  BY <1>1, <1>4, <1>5
<1>11. Total' = Total /\ \A e : LinesDone(e) => LinesDone(e)'
  BY DEF Total, LinesDone, AfterLines
<1>12. IF rest' = <<>> THEN Position(f') - call'.start + Len(line') = Total'
       ELSE LinesDone(Position(f) - call.start + Len(line))'
  <2>1. CASE rest = <<>>
    BY <1>3, <1>10, <1>11, <2>1
  <2>2. CASE rest # <<>>
    <3>1. PICK e : e = d + Len(line)
      OBVIOUS
    <3>2. LinesDone(e)'
      BY <1>3, <1>11, <2>2, <3>1
    <3> QED
      BY <1>10, <2>2, <3>1, <3>2
  <2> QED
    BY <2>1, <2>2
<1> QED
  BY <1>1, <1>7, <1>9, <1>12 DEF WriteInv, WriteUnderway, RecordStored, Done

(* Emptying a full buffer changes nothing the program sees. *)
LEMMA PutFlushWrites ==
  ASSUME IInv, WriteInv, PutFlush
  PROVE  WriteInv'
<1>1. PICK w \in Outcomes(f.fill) :
        /\ f' = Flush(f, w)
        /\ IF FlushFails(f, w) THEN Abort(2) ELSE UNCHANGED <<pc, ret, faults>>
  BY DEF PutFlush
<1>2. pc = "put" /\ f.next = Size /\ UNCHANGED <<call, line, rest>>
  BY DEF PutFlush
<1>3. Good(f) /\ w \in 0..f.fill
  BY OutcomeFacts, IInvFacts
<1>4. CASE FlushFails(f, w)
  BY <1>1, <1>2, <1>4 DEF WriteInv, WriteUnderway, RecordStored, Done, Abort, Finish
<1>5. CASE ~FlushFails(f, w)
  <2>1. Keeps(f, f') /\ Position(f') = f.offset + f.fill /\ pc' = pc
    BY <1>1, <1>3, <1>5, FlushKeeps
  <2>2. Position(f') = Position(f)
    BY <1>2, <1>3, <2>1, LengthFacts DEF Position
  <2>3. call.start \in Nat /\ Landed /\ Position(f) \in Nat /\ call.op = "output"
        /\ call.rec \in Seq(Byte)
    BY <1>2, WriteFacts
  <2>4. Landed'
    <3>1. \A i \in call.start .. Position(f) - 1 : i \in Nat /\ i < KeptLength(f)
      BY <2>3, <1>3, LengthFacts DEF Landed
    <3>2. \A i \in call.start .. Position(f) - 1 : ByteAt(f', i) = FramedByte(call, i - call.start)
      BY <2>1, <2>3, <3>1, KeepsBytes DEF Landed
    <3>3. call.start < Position(f') => Position(f') <= KeptLength(f')
      BY <2>1, <2>2, <2>3, KeepsBytes DEF Landed
    <3> QED
      BY <1>2, <2>2, <2>3, <3>2, <3>3 DEF Landed
  <2>5. /\ LineIsNext' /\ Total' = Total
        /\ \A e : LinesDone(e)' <=> LinesDone(e)
    BY <1>2, <2>2, <2>3 DEF LineIsNext, Total, LinesDone, AfterLines, WriteInv, WriteUnderway
  <2>6. IF rest' = <<>> THEN Position(f') - call'.start + Len(line') = Total'
        ELSE LinesDone(Position(f) - call.start + Len(line))'
    <3>1. PICK e : e = Position(f) - call.start + Len(line)
      OBVIOUS
    <3>2. IF rest = <<>> THEN e = Total ELSE LinesDone(e)
      BY <1>2, <2>3, <3>1 DEF WriteInv, WriteUnderway
    <3> QED
      BY <1>2, <2>2, <2>5, <3>1, <3>2
  <2> QED
    BY <1>2, <2>1, <2>3, <2>4, <2>5, <2>6 DEF WriteInv, WriteUnderway, RecordStored, Done
<1> QED
  BY <1>4, <1>5

(* Where an index of the file lies in a buffer at offset o. *)
LEMMA WindowIndex ==
  ASSUME NEW o \in Nat, NEW x \in Nat, NEW n \in Nat, NEW m \in Nat, x + n <= m,
         NEW i \in Nat, o + x <= i, i < o + x + n
  PROVE  /\ i - o \in Nat /\ x <= i - o /\ i - o < x + n /\ i - o < m /\ o <= i /\ i < o + m
         /\ (i - o) - x + 1 = i - (o + x) + 1
  OBVIOUS

(* What a copy into the buffer shows: the line at the position, and all the *)
(* rest as it was.                                                         *)
LEMMA StoredShows ==
  ASSUME NEW s, Good(s), IoOup, line \in Seq(Byte),
         NEW n \in Nat, n > 0, n <= Len(line), s.next + n <= Size, s.offset + s.next + n <= MaxPos
  PROVE  LET g == Stored(s, n) IN
         /\ Position(g) = Position(s) + n
         /\ SeenLength(g) = MaxOf(SeenLength(s), Position(s) + n) /\ KeptLength(g) = SeenLength(g)
         /\ \A i \in Nat : ByteAt(g, i) = IF Position(s) <= i /\ i < Position(s) + n
                                          THEN line[i - Position(s) + 1] ELSE ByteAt(s, i)
<1> DEFINE b == [i \in BufIndex |-> IF s.next <= i /\ i < s.next + n
                                    THEN line[i - s.next + 1] ELSE s.buf[i]]
           m == MaxOf(s.fill, s.next + n)
           g == [s EXCEPT !.buf = b, !.next = s.next + n, !.fill = m, !.dirty = TRUE]
<1>1. Stored(s, n) = g
  BY DEF Stored
<1>2. /\ s.next \in Nat /\ s.fill \in Nat /\ s.next <= s.fill /\ s.fill <= Size /\ s.offset \in Nat
      /\ Size \in Nat /\ s.eof \in Nat /\ Position(s) = s.offset + s.next
  BY FileBufferAssumption, LengthFacts DEF Position
<1>3. m \in Nat /\ m > 0 /\ s.fill <= m /\ s.next + n <= m /\ m <= Size
      /\ (m = s.fill \/ m = s.next + n)
  BY <1>2 DEF MaxOf
<1>4. \A i \in 0 .. Size - 1 : b[i] = IF s.next <= i /\ i < s.next + n
                                      THEN line[i - s.next + 1] ELSE s.buf[i]
  BY DEF BufIndex
<1> HIDE DEF b, m
<1>5. g.next = s.next + n /\ g.fill = m /\ g.offset = s.offset /\ g.eof = s.eof /\ g.buf = b
      /\ g.data = s.data
  BY DEF Good, FileState
<1>6. g.dirty
  BY DEF Good, FileState
<1>7. Good(g) /\ Position(g) = Position(s) + n
  BY <1>1, StoredGood
<1> HIDE DEF g
<1>8. SeenLength(g) = MaxOf(s.eof, s.offset + m) /\ KeptLength(g) = SeenLength(g)
  BY <1>3, <1>5, <1>6, <1>7, LengthFacts
<1>9. SeenLength(g) = MaxOf(SeenLength(s), Position(s) + n)
  <2>1. CASE s.fill = 0
    <3>1. SeenLength(s) = s.eof /\ m = n /\ s.next = 0
      BY <1>2, <1>3, <2>1, LengthFacts
    <3> QED
      BY <1>2, <1>8, <3>1
  <2>2. CASE s.fill # 0
    <3>1. SeenLength(s) = MaxOf(s.eof, s.offset + s.fill)
      BY <1>2, <2>2, LengthFacts
    <3>2. SeenLength(g) = MaxOf(s.eof, s.offset + m) /\ s.offset + s.fill <= s.offset + m
          /\ Position(s) + n = s.offset + (s.next + n)
      BY <1>2, <1>3, <1>8
    <3>3. CASE m = s.fill
      BY <1>2, <1>3, <3>1, <3>2, <3>3 DEF MaxOf
    <3>4. CASE m = s.next + n
      BY <1>2, <1>3, <3>1, <3>2, <3>4 DEF MaxOf
    <3> QED
      BY <1>3, <3>3, <3>4
  <2> QED
    BY <2>1, <2>2
<1>10. ASSUME NEW i \in Nat
       PROVE  ByteAt(g, i) = IF Position(s) <= i /\ i < Position(s) + n
                             THEN line[i - Position(s) + 1] ELSE ByteAt(s, i)
  <2>1. CASE Position(s) <= i /\ i < Position(s) + n
    <3> DEFINE k == i - s.offset
    <3>1. s.offset + s.next <= i /\ i < s.offset + s.next + n
      BY <1>2, <2>1, Zenon
    <3>2. s.next <= k /\ k < s.next + n /\ k < m /\ k \in 0 .. Size - 1 /\ s.offset <= i
          /\ i < s.offset + m /\ k - s.next + 1 = i - Position(s) + 1
      <4>1. /\ k \in Nat /\ s.next <= k /\ k < s.next + n /\ k < m /\ s.offset <= i
            /\ i < s.offset + m /\ k - s.next + 1 = i - (s.offset + s.next) + 1
        BY <1>2, <1>3, <3>1, WindowIndex, SMTT(30)
      <4>2. k < Size
        BY <1>2, <1>3, <4>1
      <4> HIDE DEF k
      <4> QED
        BY <1>2, <4>1, <4>2
    <3>3. ByteAt(g, i) = b[k]
      BY <1>5, <3>2 DEF ByteAt, InWindow
    <3> HIDE DEF k
    <3> QED
      BY <1>4, <2>1, <3>2, <3>3
  <2>2. CASE ~(Position(s) <= i /\ i < Position(s) + n)
    <3>1. InWindow(g, i) <=> InWindow(s, i)
      BY <1>2, <1>3, <1>5, <2>2 DEF InWindow
    <3>2. CASE InWindow(s, i)
      <4>1. PICK k \in Nat : k = i - s.offset
        <5>1. i - s.offset \in Nat
          BY <1>2, <3>2 DEF InWindow
        <5> QED
          BY <5>1
      <4>2. k \in 0 .. Size - 1 /\ ~(s.next <= k /\ k < s.next + n)
        BY <1>2, <2>2, <3>2, <4>1, SMTT(30) DEF InWindow
      <4>3. b[k] = s.buf[k]
        BY <1>4, <4>2
      <4> QED
        BY <1>5, <2>2, <3>1, <3>2, <4>1, <4>3 DEF ByteAt
    <3>3. CASE ~InWindow(s, i)
      BY <1>5, <2>2, <3>1, <3>3 DEF ByteAt
    <3> QED
      BY <3>2, <3>3
  <2> QED
    BY <2>1, <2>2
<1> QED
  BY <1>1, <1>7, <1>8, <1>9, <1>10

(* The buffer takes what it has room for: so many bytes are placed. *)
LEMMA PutCopyPlaces ==
  ASSUME IInv, PutCopy
  PROVE  \/ pc' = "done" /\ ret' = 2 /\ call' = call
         \/ \E n \in 1..Len(line) : /\ Placed(n) /\ line' = SubSeq(line, n + 1, Len(line))
                                    /\ UNCHANGED <<open, pc, call, got, rest, ret>>
<1> DEFINE load == f.fill = 0 /\ IoInp
           s == IF load THEN FillBuf(f) ELSE f
           n == MinOf(Size - s.next, Len(line))
<1>1. PICK r \in IF load THEN ReadOutcomes ELSE {TRUE} :
        IF ~r THEN f' = FsyncIO(f) /\ Abort(2) /\ line' = line
        ELSE /\ f' = Stored(s, n)
             /\ line' = SubSeq(line, n + 1, Len(line))
             /\ UNCHANGED <<pc, ret, faults>>
  BY DEF PutCopy
<1>2. /\ pc = "put" /\ line # <<>> /\ UNCHANGED <<open, call, got, rest>>
      /\ f.next # Size /\ Good(f)
  BY IInvFacts DEF PutCopy
<1>3. IoOup /\ line \in Seq(Byte) /\ Position(f) + Len(line) <= MaxPos
  BY <1>2 DEF IInv, TypeOK, CallInv
<1>4. /\ Good(s) /\ Position(s) = Position(f) /\ s.next # Size
      /\ SeenLength(s) = SeenLength(f)
      /\ \A i \in Nat : i < SeenLength(f) => ByteAt(s, i) = ByteAt(f, i)
  <2>1. CASE load
    <3>1. s = FillBuf(f)
      BY <2>1
    <3> HIDE DEF s
    <3>2. Good(s) /\ s.next = 0 /\ Keeps(f, s) /\ SeenLength(s) = f.eof /\ Position(s) = f.offset
      BY <1>2, <2>1, <3>1, FillBufGood, FillBufKeeps
    <3>3. f.next = 0 /\ Position(f) = f.offset /\ SeenLength(f) = f.eof /\ KeptLength(f) = f.eof
      BY <1>2, <2>1, LengthFacts DEF Position
    <3>4. \A i \in Nat : i < f.eof => i \in 0 .. KeptLength(f) - 1
      BY <1>2, <3>3, LengthFacts
    <3> QED
      BY <3>2, <3>3, <3>4, FileBufferAssumption DEF Keeps
  <2>2. CASE ~load
    <3>1. s = f
      BY <2>2
    <3> QED
      BY <1>2, <3>1
  <2> QED
    BY <2>1, <2>2
<1> HIDE DEF s
<1>5. /\ s.next \in Nat /\ s.next < Size /\ s.offset \in Nat /\ Len(line) \in Nat /\ Size \in Nat
      /\ Len(line) > 0 /\ MaxPos \in Nat /\ Position(s) = s.offset + s.next
  <2>1. Len(line) \in Nat /\ Len(line) > 0
    BY <1>2, <1>3
  <2>2. s.next \in Nat /\ s.next <= s.fill /\ s.fill \in 0..Size /\ s.offset \in Nat /\ Size \in Nat
        /\ MaxPos \in Nat /\ Position(s) = s.offset + s.next
    BY <1>4, LengthFacts DEF Position
  <2>3. s.next < Size
    <3>1. s.next # Size
      BY <1>4, Zenon
    <3> QED
      BY <2>2, <3>1
  <2> QED
    BY <2>1, <2>2, <2>3, Zenon
<1>6. n \in Nat /\ n > 0 /\ n <= Len(line) /\ s.next + n <= Size
      /\ s.offset + s.next + n <= MaxPos
  BY <1>3, <1>4, <1>5 DEF MinOf
<1> HIDE DEF n
<1>7. CASE ~r
  BY <1>1, <1>2, <1>7 DEF Abort, Finish
<1>8. CASE r
  <2>1. f' = Stored(s, n) /\ line' = SubSeq(line, n + 1, Len(line)) /\ UNCHANGED <<pc, ret>>
    BY <1>1, <1>8
  <2>2. /\ Position(f') = Position(f) + n
        /\ SeenLength(f') = MaxOf(SeenLength(f), Position(f) + n)
        /\ KeptLength(f') = SeenLength(f')
        /\ \A i \in Nat : ByteAt(f', i) = IF Position(f) <= i /\ i < Position(f) + n
                                          THEN line[i - Position(f) + 1] ELSE ByteAt(s, i)
    BY <1>3, <1>4, <1>6, <2>1, StoredShows
  <2>3. Placed(n)
    BY <1>4, <2>2 DEF Placed
  <2>4. n \in 1..Len(line)
    BY <1>5, <1>6
  <2> QED
    BY <1>2, <2>1, <2>3, <2>4
<1> QED
  BY <1>7, <1>8

(* Whole buffers go straight to the file: so many bytes are placed. *)
LEMMA PutBypassPlaces ==
  ASSUME IInv, PutBypass
  PROVE  \/ pc' = "done" /\ ret' = 2 /\ call' = call
         \/ \E n \in 1..Len(line) : /\ Placed(n) /\ line' = SubSeq(line, n + 1, Len(line))
                                    /\ UNCHANGED <<open, pc, call, got, rest, ret>>
<1> DEFINE e == FsyncIO(f)
           s == [e EXCEPT !.fill = 0]
           n == (Len(line) \div Size) * Size
           src == [i \in 0 .. n - 1 |-> line[i + 1]]
<1>1. PICK m \in Outcomes(n) :
        /\ f' = [Write(s, src, m) EXCEPT !.offset = s.offset + m]
        /\ line' = SubSeq(line, m + 1, Len(line))
        /\ IF m # n THEN Abort(2) ELSE UNCHANGED <<pc, ret, faults>>
  BY DEF PutBypass
<1>2. pc = "put" /\ f.next = 0 /\ Len(line) >= Size /\ UNCHANGED <<open, call, got, rest>>
  BY DEF PutBypass
<1>3. /\ IoOup /\ line \in Seq(Byte) /\ Position(f) + Len(line) <= MaxPos /\ Len(line) \in Nat
      /\ Good(f) /\ Size \in Nat \ {0} /\ MaxPos \in Nat
  BY <1>2, IInvFacts DEF IInv, TypeOK, CallInv
<1>4. n \in 0..Len(line) /\ n >= Size
  <2>1. n \in 0..Len(line) /\ Len(line) < n + Size
    BY <1>3, BlockStart
  <2>2. PICK q \in Nat : q = Len(line) \div Size
    BY <1>3
  <2>3. q # 0
    BY <1>2, <1>3, <2>1, <2>2
  <2>4. q * Size >= Size
    <3>1. PICK k \in Nat : q = k + 1
      <4>1. q - 1 \in Nat /\ q = (q - 1) + 1
        BY <2>3
      <4> QED
        BY <4>1, Zenon
    <3>2. q * Size = k * Size + Size /\ k * Size \in Nat
      BY <1>3, <3>1
    <3> QED
      BY <1>3, <3>2
  <2> QED
    BY <2>1, <2>2, <2>4
<1>5. src \in [0 .. n - 1 -> Byte] /\ \A i \in 0 .. n - 1 : src[i] = line[i + 1]
  BY <1>3, <1>4
<1> HIDE DEF n, src
<1>6. CASE m # n
  BY <1>1, <1>2, <1>6 DEF Abort, Finish
<1>7. CASE m = n
  <2>1. /\ Good(e) /\ SameBuffer(f, e) /\ e.pos = f.offset /\ e.curpos = f.offset
    BY <1>3, FsyncIOGood
  <2> HIDE DEF e
  <2>2. /\ s \in FileState /\ Tracked(s) /\ s.fill = 0 /\ s.next = 0 /\ s.offset = f.offset
        /\ s.pos = f.offset /\ s.eof = f.eof /\ s.data = f.data
    <3>1. 0 \in 0..Size
      BY <1>3
    <3> QED
      BY <1>2, <2>1, <3>1 DEF Good, FileState, Tracked, SameBuffer
  <2> HIDE DEF s
  <2>3. f.offset + n <= MaxPos /\ f.offset \in Nat /\ Position(f) = f.offset /\ n \in Nat /\ n # 0
        /\ n > 0 /\ f.fill \in Nat /\ f.fill <= n /\ f.eof \in Nat
    BY <1>2, <1>3, <1>4, LengthFacts DEF Position
  <2> DEFINE g == Write(s, src, n)
  <2> HIDE DEF g
  <2>4. /\ g \in FileState /\ g.fill = 0 /\ g.next = 0
        /\ \A i \in Positions :
             g.data[i] = IF f.offset <= i /\ i < f.offset + n THEN src[i - f.offset] ELSE f.data[i]
    <3>1. n \in 0..n /\ s.pos + n <= MaxPos
      BY <2>2, <2>3
    <3>2. /\ g \in FileState /\ g.fill = s.fill /\ g.next = s.next
          /\ \A i \in Positions :
               g.data[i] = IF s.pos <= i /\ i < s.pos + n THEN src[i - s.pos] ELSE s.data[i]
      BY <1>5, <2>2, <2>3, <3>1, WriteGood DEF g
    <3> QED
      BY <2>2, <3>2
  <2>5. g.eof = MaxOf(f.eof, f.offset + n)
    BY <2>2, <2>3 DEF Write, FileState, g
  <2>6. f' = [g EXCEPT !.offset = f.offset + n] /\ UNCHANGED <<pc, ret>>
        /\ line' = SubSeq(line, n + 1, Len(line))
    BY <1>1, <1>7, <2>2 DEF g
  <2>7. f'.fill = 0 /\ f'.next = 0 /\ f'.offset = f.offset + n /\ f'.eof = g.eof
        /\ f'.data = g.data
    BY <2>4, <2>6 DEF FileState
  <2>8. Position(f') = Position(f) + n
    BY <2>3, <2>7 DEF Position
  <2>9. SeenLength(f') = g.eof /\ KeptLength(f') = g.eof
    BY <2>7 DEF SeenLength, KeptLength
  <2>10. g.eof = MaxOf(SeenLength(f), Position(f) + n)
    <3>1. CASE f.fill = 0
      BY <1>3, <2>3, <2>5, <3>1, LengthFacts
    <3>2. CASE f.fill # 0
      <4>1. SeenLength(f) = MaxOf(f.eof, f.offset + f.fill)
        BY <1>3, <2>3, <3>2, LengthFacts
      <4> QED
        BY <2>3, <2>5, <4>1 DEF MaxOf
    <3> QED
      BY <3>1, <3>2
  <2>11. ASSUME NEW i \in Nat
         PROVE  IF Position(f) <= i /\ i < Position(f) + n
                THEN ByteAt(f', i) = line[i - Position(f) + 1]
                ELSE i < SeenLength(f) => ByteAt(f', i) = ByteAt(f, i)
    <3>1. ByteAt(f', i) = g.data[i]
      <4>1. f'.offset \in Nat
        BY <2>3, <2>7
      <4> QED
        BY <2>7, <4>1 DEF ByteAt, InWindow
    <3>2. CASE f.offset <= i /\ i < f.offset + n
      <4>1. i \in Positions /\ i - f.offset \in 0 .. n - 1
        BY <1>3, <2>3, <3>2 DEF Positions
      <4>2. g.data[i] = src[i - f.offset] /\ src[i - f.offset] = line[(i - f.offset) + 1]
        BY <1>5, <2>4, <3>2, <4>1
      <4> QED
        BY <2>3, <3>1, <3>2, <4>2
    <3>3. CASE ~(f.offset <= i /\ i < f.offset + n)
      <4>1. ASSUME i < SeenLength(f) PROVE i \in Positions
        <5>1. SeenLength(f) \in 0..MaxPos
          BY <1>3, LengthFacts
        <5> QED
          BY <1>3, <4>1, <5>1 DEF Positions
      <4>2. ~InWindow(f, i)
        BY <2>3, <3>3 DEF InWindow
      <4> QED
        BY <2>3, <2>4, <3>1, <3>3, <4>1, <4>2 DEF ByteAt
    <3> QED
      BY <3>2, <3>3
  <2>12. Placed(n)
    BY <2>8, <2>9, <2>10, <2>11 DEF Placed
  <2>13. n \in 1..Len(line)
    BY <1>3, <1>4, <2>3
  <2> QED
    BY <1>2, <2>6, <2>12, <2>13
<1> QED
  BY <1>6, <1>7

(* A line that is all stored is followed by the next, or ends the record. *)
LEMMA EndLineWrites ==
  ASSUME IInv, WriteInv, EndLine
  PROVE  WriteInv'
<1>1. /\ pc = "put" /\ line = <<>> /\ UNCHANGED <<f, call, rest, line>>
      /\ IF rest = <<>> THEN pc' = "done" /\ ret' = 0 ELSE pc' = "line" /\ ret' = ret
  BY DEF EndLine, Finish
<1>2. /\ call.op = "output" /\ call.start \in Nat /\ Landed /\ Position(f) \in Nat
      /\ call.start <= Position(f) /\ call.rec \in Seq(Byte)
  BY <1>1, WriteFacts
<1>3. Len(line) = 0 /\ Position(f) - call.start + Len(line) = Position(f) - call.start
  BY <1>1, <1>2
<1>4. IF rest = <<>> THEN Position(f) - call.start = Total ELSE LinesDone(Position(f) - call.start)
  BY <1>1, <1>2, <1>3 DEF WriteInv, WriteUnderway
<1>5. CASE rest = <<>>
  <2>1. Position(f) = call.start + Total /\ Total \in Nat
    <3>1. Position(f) - call.start \in Nat /\ Position(f) = call.start + (Position(f) - call.start)
      BY <1>2
    <3> QED
      BY <1>4, <1>5, <3>1
  <2>2. Total > 0 => Position(f) <= KeptLength(f)
    BY <1>2, <2>1 DEF Landed
  <2>3. \A i \in 0 .. Total - 1 : ByteAt(f, call.start + i) = FramedByte(call, i)
    <3> TAKE i \in 0 .. Total - 1
    <3>1. call.start + i \in call.start .. Position(f) - 1 /\ (call.start + i) - call.start = i
      BY <1>2, <2>1
    <3> QED
      BY <1>2, <3>1 DEF Landed
  <2>4. RecordStored'
    BY <1>1, <2>1, <2>2, <2>3 DEF RecordStored, Total
  <2> QED
    BY <1>1, <1>5, <2>4 DEF WriteInv, WriteUnderway
<1>6. CASE rest # <<>>
  <2>1. LinesDone(Position(f) - call.start)
    BY <1>4, <1>6
  <2>2. LinesDone(Position(f) - call.start)' /\ Landed'
    BY <1>1, <1>2, <2>1 DEF LinesDone, AfterLines, Landed
  <2> QED
    BY <1>1, <1>2, <1>6, <2>2 DEF WriteInv, WriteUnderway, RecordStored, Done
<1> QED
  BY <1>5, <1>6

(* What a write has stored is inductive. *)
LEMMA WriteKeeps ==
  ASSUME IInv, Matches, WriteInv, [Next]_vars
  PROVE  WriteInv'
<1>1. CASE BeginCall
  <2>1. CASE BeginOutput
    BY <2>1, WriteBegins
  <2>2. CASE ~BeginOutput
    <3>1. call'.op # "output"
      BY <1>1, <2>2
      DEF BeginCall, BeginOpen, BeginInput, BeginSet, BeginRewind, BeginBackspace, BeginEndfile,
          Begin
    <3> QED
      BY <3>1 DEF WriteInv
  <2> QED
    BY <2>1, <2>2
<1>2. CASE Step
  <2>1. CASE Return
    BY <2>1 DEF Return, WriteInv, NoCall
  <2>2. CASE ~Return /\ call.op # "output"
    BY <1>2, <2>2, StepsMatch DEF WriteInv
  <2>3. CASE PutCopy \/ PutBypass
    <3>1. pc = "put"
      BY <2>3 DEF PutCopy, PutBypass
    <3>2. CASE pc' = "done" /\ ret' = 2 /\ call' = call
      BY <3>2 DEF WriteInv, WriteUnderway, RecordStored, Done
    <3>3. CASE ~(pc' = "done" /\ ret' = 2 /\ call' = call)
      <4>1. PICK n \in 1..Len(line) : /\ Placed(n) /\ line' = SubSeq(line, n + 1, Len(line))
                                      /\ UNCHANGED <<open, pc, call, got, rest, ret>>
        BY <2>3, <3>3, PutCopyPlaces, PutBypassPlaces
      <4> QED
        BY <3>1, <4>1, PlacedWrites
    <3> QED
      BY <3>2, <3>3
  <2>4. CASE ~Return /\ ~(PutCopy \/ PutBypass) /\ call.op = "output"
    BY <1>2, <2>4, StepsMatch, NextLineWrites, EndLineWrites, PutFlushWrites
  <2> QED
    BY <2>1, <2>2, <2>3, <2>4
<1>3. CASE UNCHANGED vars
  <2>1. /\ Landed' <=> Landed
        /\ LineIsNext' <=> LineIsNext
        /\ Total' = Total
        /\ RecordStored' <=> RecordStored
    BY <1>3 DEF vars, Landed, LineIsNext, Total, RecordStored, Done
  <2>2. \A e : LinesDone(e)' <=> LinesDone(e)
    BY <1>3 DEF vars, LinesDone, AfterLines
  <2> QED
    BY <1>3, <2>1, <2>2 DEF vars, WriteInv, WriteUnderway
<1> QED
  BY <1>1, <1>2, <1>3 DEF Next

-----------------------------------------------------------------------------
(* zysst: the arguments of a SET are meant where the call began. *)
SeekUnderway == pc = "seek" => call.start = Position(f) /\ call.end = SeenLength(f)

SeekInv == call.op = "set" => SeekUnderway /\ SetLands

(* A SET begins where the program is. *)
LEMMA SeekBegins ==
  ASSUME BeginSet
  PROVE  SeekInv'
<1>1. PICK h \in Whence, off \in -MaxPos .. MaxPos :
        Begin([op |-> "set", off |-> off, whence |-> h, start |-> Position(f),
               end |-> SeenLength(f)], "seek")
  BY DEF BeginSet
<1>2. call'.start = Position(f) /\ call'.end = SeenLength(f) /\ f' = f /\ pc' = "seek"
  BY <1>1 DEF Begin
<1>3. SeekUnderway'
  BY <1>2 DEF SeekUnderway
<1> QED
  BY <1>2, <1>3 DEF SeekInv, SetLands, Done

(* What a SET is to reach is the target doset computes, unless the program *)
(* stands beyond the end of the file.                                      *)
LEMMA WantedIsTarget ==
  ASSUME IInv, pc = "seek", SeekUnderway, call.start <= call.end
  PROVE  Wanted = Target(f, call.off, call.whence)
<1>1. /\ call.start = Position(f) /\ call.end = SeenLength(f) /\ Good(f)
      /\ call.whence \in {0, 1, 2}
  BY IInvFacts, CallFacts DEF IInv, CallInv, SeekUnderway, Whence
<1>2. SeenLength(f) = EofPos(f)
  <2>1. CASE f.fill = 0
    <3>1. f.offset \in Nat /\ f.eof \in Nat /\ Position(f) = f.offset /\ SeenLength(f) = f.eof
      BY <1>1, <2>1, LengthFacts DEF Position
    <3> QED
      BY <1>1, <2>1, <3>1 DEF EofPos, MaxOf
  <2>2. CASE f.fill # 0
    BY <2>2 DEF SeenLength
  <2> QED
    BY <2>1, <2>2
<1> QED
  BY <1>1, <1>2 DEF Wanted, Target

(* doset gets there, where the file has bytes or may be given them. *)
LEMMA SetSeeks ==
  ASSUME IInv, SeekInv, call.op = "set", Set
  PROVE  SeekInv'
<1> DEFINE s == Targeted(f, call.whence)
           t == Target(f, call.off, call.whence)
<1>1. PICK w \in Outcomes(f.fill), r \in ReadOutcomes :
        /\ f' = DoSet(s, t, w, r)
        /\ IF DoSetFails(s, t, w, r) THEN Abort(5) ELSE Finish(0) /\ faults' = faults
  BY DEF Set, Seek
<1>2. pc = "seek" /\ pc' = "done" /\ call' = call
  BY <1>1 DEF Set, Seek, Abort, Finish
<1>3. t <= MaxPos /\ call.off \in Int /\ call.whence \in {0, 1, 2} /\ SeekUnderway
  BY <1>2, CallFacts DEF IInv, CallInv, Whence, SeekInv
<1>4. t \in 0..MaxPos
  BY <1>3, IInvFacts DEF Target, MaxOf
<1>5. Good(s) /\ SameBuffer(f, s) /\ s.fill = f.fill
  <2>1. CASE call.whence = 2
    <3>1. f.eof \in 0..MaxPos /\ f \in FileState
      BY IInvFacts DEF Good
    <3>2. Good(SeekEnd(f)) /\ SameBuffer(f, SeekEnd(f))
      BY <3>1, IInvFacts, LseekGood DEF SeekEnd
    <3> QED
      BY <2>1, <3>2 DEF Targeted, SameBuffer
  <2>2. CASE call.whence # 2
    BY <2>2, IInvFacts DEF Targeted, SameBuffer
  <2> QED
    BY <2>1, <2>2
<1>6. w \in 0..s.fill /\ r \in BOOLEAN
  BY <1>5, OutcomeFacts, IInvFacts
<1>7. KeptLength(s) = KeptLength(f)
  BY <1>5, SameBufferKeeps DEF Keeps
<1> HIDE DEF s, t
<1>8. ASSUME ret' = 0, call.start <= call.end, IoOup \/ Wanted <= call.end
      PROVE  Position(f') = Wanted
  <2>1. ~DoSetFails(s, t, w, r)
    BY <1>1, <1>8 DEF Abort, Finish
  <2>2. Wanted = t
    BY <1>2, <1>3, <1>8, WantedIsTarget DEF t
  <2>3. ~IoOup => KeptLength(f) = SeenLength(f)
    <3> SUFFICES ASSUME ~IoOup PROVE KeptLength(f) = SeenLength(f)
      OBVIOUS
    <3>1. Good(f) /\ ~f.dirty
      BY IInvFacts, Zenon DEF Good, Consistent, ReadOnly
    <3>2. f.fill > 0 => f.offset + f.fill <= f.eof
      BY <3>1 DEF Good, Consistent, ReadOnly
    <3> QED
      BY <3>1, <3>2, LengthFacts DEF MaxOf
  <2>4. call.end = SeenLength(f)
    BY <1>2, <1>3 DEF SeekUnderway
  <2>5. IoOup \/ t <= KeptLength(s)
    BY <1>7, <1>8, <2>2, <2>3, <2>4
  <2>6. Position(DoSet(s, t, w, r)) = t
    BY <1>4, <1>5, <1>6, <2>1, <2>5, DoSetKeeps
  <2> QED
    BY <1>1, <2>2, <2>6
<1>9. Wanted' = Wanted
  BY <1>2 DEF Wanted
<1>10. SetLands'
  BY <1>2, <1>8, <1>9 DEF SetLands, Done
<1> QED
  BY <1>2, <1>10 DEF SeekInv, SeekUnderway

(* zysst: SET ends where it was to go. *)
LEMMA SeekKeeps ==
  ASSUME IInv, Matches, SeekInv, [Next]_vars
  PROVE  SeekInv'
<1>1. CASE BeginCall
  <2>1. CASE BeginSet
    BY <2>1, SeekBegins
  <2>2. CASE ~BeginSet
    <3>1. call'.op # "set"
      BY <1>1, <2>2 DEF BeginCall, BeginOpen, BeginInput, BeginOutput, BeginRewind,
         BeginBackspace, BeginEndfile, Begin
    <3> QED
      BY <3>1 DEF SeekInv
  <2> QED
    BY <2>1, <2>2
<1>2. CASE Step
  <2>1. CASE Return
    BY <2>1 DEF Return, SeekInv, NoCall
  <2>2. CASE call.op = "set" /\ ~Return
    BY <1>2, <2>2, StepsMatch, SetSeeks
  <2>3. CASE call.op # "set" /\ ~Return
    BY <1>2, <2>3, StepsMatch DEF SeekInv
  <2> QED
    BY <2>1, <2>2, <2>3
<1>3. CASE UNCHANGED vars
  BY <1>3 DEF vars, SeekInv, SeekUnderway, SetLands, Wanted, Done
<1> QED
  BY <1>1, <1>2, <1>3 DEF Next

-----------------------------------------------------------------------------
(* zysbs: what lies behind the position is looked at one character at a     *)
(* time.  A character beyond what is stored tells nothing, so a call that   *)
(* began there promises nothing, and a buffer whose flush fails is such.    *)
BackUnderway ==
  /\ pc \in {"back", "scan", "forward"} => call.mode = 1
  /\ pc \in {"back", "scan", "forward", "backraw"} => call.start \in Nat
  /\ pc = "backraw" => call.mode = 0 /\ call.start = Position(f)
  /\ pc = "back" => call.start = Position(f)
  /\ pc = "scan" /\ call.start <= KeptLength(f) =>
       Position(f) < call.start /\ NoEOL(Position(f), call.start - 1)
  /\ pc = "forward" /\ call.start <= KeptLength(f) =>
       /\ Position(f) + 1 < call.start /\ NoEOL(Position(f) + 1, call.start - 1)
       /\ f.next < f.fill /\ f.buf[f.next] = EOL

BackInv == call.op = "backspace" => BackUnderway /\ BackspaceToLineStart /\ BackspaceRecord

(* A backspace begins where the program is. *)
LEMMA BackBegins ==
  ASSUME IInv, BeginBackspace
  PROVE  BackInv'
<1>1. PICK m \in {0, 1}, z \in RecSizes :
        Begin([op |-> "backspace", mode |-> m, rsz |-> z, start |-> Position(f)],
              IF m = 1 THEN "back" ELSE "backraw")
  BY DEF BeginBackspace
<1>2. call'.start = Position(f) /\ call'.mode = m /\ f' = f
      /\ pc' = IF m = 1 THEN "back" ELSE "backraw"
  BY <1>1 DEF Begin
<1>3. Position(f) \in Nat
  BY IInvFacts
<1>4. BackUnderway'
  BY <1>2, <1>3 DEF BackUnderway
<1>5. pc' # "done"
  BY <1>2
<1> QED
  BY <1>4, <1>5 DEF BackInv, BackspaceToLineStart, BackspaceRecord, Done

(* One call of back() that works moves to the character before the position, *)
(* whether or not it crosses the start of the buffer.                        *)
LEMMA BackedMoves ==
  ASSUME IInv, ~AtBeginning, NEW w \in Outcomes(f.fill), NEW r \in ReadOutcomes
  PROVE  LET g == Backed(w, r) IN
         /\ KeptLength(g) <= KeptLength(f)
         /\ ~BackFails(w, r) /\ Position(f) <= KeptLength(f) =>
              /\ Keeps(f, g) /\ g.next < g.fill
              /\ Position(g) = Position(f) - 1 /\ Position(f) - 1 \in Nat
              /\ ByteAt(g, Position(f) - 1) = g.buf[g.next]
<1> DEFINE g == Backed(w, r)
<1>1. Good(f) /\ f.offset \in 0..MaxPos /\ f.next \in 0..f.fill /\ f.fill \in 0..Size
      /\ KeptLength(f) \in 0..MaxPos /\ MaxPos \in Nat /\ Size \in Nat
      /\ Position(f) = f.offset + f.next
  BY IInvFacts, LengthFacts DEF Position
<1>2. CASE f.next > 0
  <2>1. g = [f EXCEPT !.next = f.next - 1] /\ f.next - 1 \in 0..f.fill
    BY <1>1, <1>2 DEF Backed
  <2>2. /\ Good(g) /\ Keeps(f, g) /\ Position(g) = f.offset + (f.next - 1)
        /\ g.next = f.next - 1 /\ g.fill = f.fill /\ g.offset = f.offset
    BY <1>1, <2>1, NextMoves
  <2> HIDE DEF g
  <2>3. g.next \in 0 .. g.fill - 1 /\ f.offset + (f.next - 1) = Position(f) - 1
        /\ Position(f) - 1 \in Nat /\ g.offset + g.next = Position(f) - 1
    BY <1>1, <1>2, <2>2
  <2>4. ByteAt(g, g.offset + g.next) = g.buf[g.next]
    BY <2>2, <2>3, BufferByte
  <2>5. KeptLength(g) = KeptLength(f) /\ g.next < g.fill
    BY <1>1, <2>2, <2>3 DEF Keeps
  <2> QED
    BY <1>1, <2>2, <2>3, <2>4, <2>5 DEF g
<1>3. CASE f.next = 0
  <2> DEFINE t == f.offset - 1
  <2>1. t \in 0..MaxPos /\ t = Position(f) - 1
    BY <1>1, <1>3 DEF AtBeginning
  <2>2. g = DoSet(f, t, w, r) /\ (BackFails(w, r) <=> DoSetFails(f, t, w, r))
    BY <1>3 DEF Backed, BackFails
  <2>3. ~InBuffer(f, t)
    BY <1>1, <2>1 DEF InBuffer
  <2> HIDE DEF t
  <2>4. w \in 0..f.fill /\ r \in BOOLEAN
    BY OutcomeFacts, IInvFacts
  <2>5. Good(g)
    BY <1>1, <2>1, <2>2, <2>4, DoSetGood
  <2>6. /\ KeptLength(g) <= KeptLength(f)
        /\ ~DoSetFails(f, t, w, r) /\ t < KeptLength(f) =>
             Keeps(f, g) /\ Position(g) = t /\ g.next < g.fill
    BY <1>1, <2>1, <2>2, <2>3, <2>4, DoSetKeeps
  <2> HIDE DEF g
  <2>7. ASSUME ~BackFails(w, r), Position(f) <= KeptLength(f)
        PROVE  /\ Keeps(f, g) /\ g.next < g.fill
               /\ Position(g) = Position(f) - 1 /\ Position(f) - 1 \in Nat
               /\ ByteAt(g, Position(f) - 1) = g.buf[g.next]
    <3>1. t < KeptLength(f)
      BY <1>1, <2>1, <2>7
    <3>2. Keeps(f, g) /\ Position(g) = t /\ g.next < g.fill
      BY <2>2, <2>6, <2>7, <3>1
    <3>3. g.next \in 0 .. g.fill - 1
      BY <2>5, <3>2, LengthFacts
    <3>4. ByteAt(g, g.offset + g.next) = g.buf[g.next]
      BY <2>5, <3>3, BufferByte
    <3>5. g.offset + g.next = t
      BY <3>2 DEF Position
    <3> QED
      BY <2>1, <3>2, <3>4, <3>5
  <2> QED
    BY <2>6, <2>7 DEF g
<1> QED
  BY <1>1, <1>2, <1>3

(* The scan goes on over a character that is no EOL, and stops at one. *)
LEMMA BackScans ==
  ASSUME IInv, BackInv, call.op = "backspace", Back
  PROVE  BackInv'
<1>1. /\ pc \in {"back", "scan"} /\ call' = call
      /\ BackUnderway /\ call.mode = 1 /\ call.start \in Nat
  BY DEF Back, BackInv, BackUnderway
<1>2. /\ Position(f) \in Nat /\ KeptLength(f) \in Nat /\ KeptLength(f') \in Nat
  BY IInvFacts, LengthFacts, BackKeepsIInv
  DEF IInv, TypeOK, BufferConsistent, Good
<1>3. CASE AtBeginning
  <2>1. f' = f /\ pc' = "done" /\ Position(f) = 0
    BY <1>1, <1>3 DEF Back, Finish, AtBeginning, Position
  <2>2. call.start <= KeptLength(f) =>
          /\ 0 <= call.start /\ (call.start > 0 => 0 < call.start)
          /\ \A i \in 0 .. call.start - 2 : ByteAt(f, i) # EOL
    <3> HAVE call.start <= KeptLength(f)
    <3>1. CASE pc = "back"
      <4>1. call.start = 0
        BY <1>1, <2>1, <3>1 DEF BackUnderway
      <4> QED
        BY <4>1
    <3>2. CASE pc = "scan"
      BY <1>1, <1>2, <2>1, <3>2 DEF BackUnderway, NoEOL
    <3> QED
      BY <1>1, <3>1, <3>2
  <2>3. BackspaceToLineStart'
    BY <1>1, <2>1, <2>2 DEF BackspaceToLineStart
  <2>4. BackUnderway' /\ BackspaceRecord'
    BY <1>1, <2>1 DEF BackUnderway, BackspaceRecord
  <2> QED
    BY <2>3, <2>4 DEF BackInv
<1>4. CASE ~AtBeginning
  <2>1. PICK w \in Outcomes(f.fill), r \in ReadOutcomes :
          /\ f' = Backed(w, r)
          /\ IF BackFails(w, r) THEN Abort(3)
             ELSE /\ pc' = IF pc = "back" \/ f'.buf[f'.next] # EOL THEN "scan" ELSE "forward"
                  /\ UNCHANGED <<ret, faults>>
    BY <1>1, <1>4 DEF Back
  <2>2. CASE BackFails(w, r)
    BY <2>1, <2>2
    DEF Abort, Finish, BackInv, BackUnderway, BackspaceToLineStart, BackspaceRecord, Done
  <2>3. CASE ~BackFails(w, r)
    <3> DEFINE Free(a) == \A i \in a .. call.start - 2 : i < KeptLength(f') => ByteAt(f', i) # EOL
    <3>1. pc' = IF pc = "back" \/ f'.buf[f'.next] # EOL THEN "scan" ELSE "forward"
      BY <2>1, <2>3
    <3>2. /\ KeptLength(f') <= KeptLength(f)
          /\ Position(f) <= KeptLength(f) =>
               /\ Keeps(f, f') /\ f'.next < f'.fill
               /\ Position(f') = Position(f) - 1 /\ Position(f) - 1 \in Nat
               /\ ByteAt(f', Position(f) - 1) = f'.buf[f'.next]
      BY <1>4, <2>1, <2>3, BackedMoves
    <3>3. ASSUME call.start <= KeptLength(f')
          PROVE  /\ pc' = "scan" => Position(f') < call.start /\ Free(Position(f'))
                 /\ pc' = "forward" =>
                      /\ Position(f') + 1 < call.start /\ Free(Position(f') + 1)
                      /\ f'.next < f'.fill /\ f'.buf[f'.next] = EOL
      <4>1. call.start <= KeptLength(f) /\ Position(f) <= call.start
            /\ (pc = "back" => call.start = Position(f))
            /\ (pc = "scan" => Position(f) < call.start /\ NoEOL(Position(f), call.start - 1))
        BY <1>1, <1>2, <3>2, <3>3 DEF BackUnderway
      <4>2. /\ Keeps(f, f') /\ f'.next < f'.fill
            /\ Position(f') = Position(f) - 1 /\ Position(f) - 1 \in Nat
            /\ ByteAt(f', Position(f) - 1) = f'.buf[f'.next]
        BY <1>1, <1>2, <3>2, <4>1
      <4>3. KeptLength(f') = KeptLength(f)
            /\ \A i \in Nat : i < KeptLength(f) => ByteAt(f', i) = ByteAt(f, i)
        BY <4>2, KeepsBytes
      <4>4. CASE pc = "back"
        <5>1. pc' = "scan" /\ Position(f') = call.start - 1 /\ call.start - 1 \in Nat
          BY <3>1, <4>1, <4>2, <4>4
        <5>2. Free(call.start - 1) /\ call.start - 1 < call.start
          BY <1>1
        <5> HIDE DEF Free
        <5> QED
          BY <5>1, <5>2
      <4>5. CASE pc = "scan"
        <5>1. Free(Position(f))
          <6> SUFFICES ASSUME NEW i \in Position(f) .. call.start - 2, i < KeptLength(f')
                       PROVE  ByteAt(f', i) # EOL
            OBVIOUS
          <6>0. i \in Position(f) .. (call.start - 1) - 1
            BY <1>1
          <6>1. i \in Nat /\ ByteAt(f, i) # EOL /\ i < KeptLength(f)
            BY <1>2, <4>1, <4>3, <4>5, <6>0 DEF NoEOL
          <6> QED
            BY <4>3, <6>1
        <5>2. CASE f'.buf[f'.next] # EOL
          <6>1. pc' = "scan"
            BY <3>1, <5>2
          <6>2. \A i \in Position(f') .. call.start - 2 :
                  i = Position(f) - 1 \/ i \in Position(f) .. call.start - 2
            BY <1>1, <1>2, <4>2
          <6>3. Free(Position(f'))
            BY <4>2, <5>1, <5>2, <6>2
          <6>4. Position(f') < call.start
            BY <1>1, <1>2, <4>1, <4>2, <4>5
          <6> HIDE DEF Free
          <6> QED
            BY <6>1, <6>3, <6>4
        <5>3. CASE f'.buf[f'.next] = EOL
          <6>1. pc' = "forward" /\ Position(f') + 1 = Position(f)
            BY <1>2, <3>1, <4>2, <4>5, <5>3
          <6> HIDE DEF Free
          <6> QED
            BY <4>1, <4>2, <4>5, <5>1, <5>3, <6>1
        <5> QED
          BY <5>2, <5>3
      <4> HIDE DEF Free
      <4> QED
        BY <1>1, <4>4, <4>5
    <3>4. pc' \in {"scan", "forward"}
      BY <3>1
    <3>5. call.start <= KeptLength(f') =>
            /\ pc' = "scan" => NoEOL(Position(f), call.start - 1)'
            /\ pc' = "forward" => NoEOL(Position(f) + 1, call.start - 1)'
      <4>1. (call.start - 1) - 1 = call.start - 2
        BY <1>1
      <4> QED
        BY <1>1, <3>3, <4>1 DEF NoEOL
    <3>6. BackUnderway'
      BY <1>1, <3>3, <3>4, <3>5 DEF BackUnderway
    <3> QED
      BY <3>4, <3>6 DEF BackInv, BackspaceToLineStart, BackspaceRecord, Done
  <2> QED
    BY <2>2, <2>3
<1> QED
  BY <1>3, <1>4

(* The EOL found is passed over; the seek stays in the buffer it was read from. *)
LEMMA ForwardPasses ==
  ASSUME IInv, BackInv, call.op = "backspace", Forward
  PROVE  BackInv'
<1>1. PICK w \in Outcomes(f.fill), r \in ReadOutcomes : f' = DoSet(f, Position(f) + 1, w, r)
  BY DEF Forward
<1>2. pc = "forward" /\ pc' = "done" /\ call' = call /\ call.mode = 1 /\ call.start \in Nat
      /\ BackUnderway
  BY DEF Forward, Finish, BackInv, BackUnderway
<1>3. /\ Good(f) /\ f.offset \in 0..MaxPos /\ f.next \in 0..f.fill /\ f.fill \in 0..Size
      /\ Position(f) = f.offset + f.next /\ Position(f) + 1 \in 0..MaxPos /\ Position(f) \in Nat
      /\ KeptLength(f) \in Nat /\ w \in 0..f.fill /\ r \in BOOLEAN
  <2>1. Position(f) < MaxPos
    BY <1>2 DEF IInv, CallInv
  <2>2. Position(f) = f.offset + f.next
    BY DEF Position
  <2> QED
    BY <2>1, <2>2, IInvFacts, OutcomeFacts, LengthFacts
<1>4. KeptLength(f') <= KeptLength(f) /\ KeptLength(f') \in Nat
  <2>1. Good(f')
    BY <1>1, <1>3, DoSetGood
  <2> QED
    BY <1>1, <1>3, <2>1, DoSetKeeps, LengthFacts
<1>5. ASSUME call.start <= KeptLength(f')
      PROVE  LET p == Position(f') IN
             /\ p < call.start /\ ByteAt(f', p - 1) = EOL
             /\ \A i \in p .. call.start - 2 : ByteAt(f', i) # EOL
  <2>1. /\ call.start <= KeptLength(f) /\ Position(f) + 1 < call.start
        /\ NoEOL(Position(f) + 1, call.start - 1)
        /\ f.next < f.fill /\ f.buf[f.next] = EOL
    BY <1>2, <1>3, <1>4, <1>5 DEF BackUnderway
  <2>2. f.next + 1 \in 0..f.fill /\ f.next \in 0 .. f.fill - 1
    BY <1>3, <2>1
  <2>3. f' = [f EXCEPT !.next = f.next + 1]
    <3>1. InBuffer(f, Position(f) + 1) /\ (Position(f) + 1) - f.offset = f.next + 1
      BY <1>3, <2>2 DEF InBuffer
    <3>2. DoSet(f, Position(f) + 1, w, r) = [f EXCEPT !.next = (Position(f) + 1) - f.offset]
      BY <3>1 DEF DoSet
    <3> QED
      BY <1>1, <3>1, <3>2
  <2>4. Keeps(f, f') /\ Position(f') = f.offset + (f.next + 1)
    BY <1>3, <2>2, <2>3, NextMoves
  <2>5. Position(f') = Position(f) + 1
    BY <1>3, <2>4
  <2>6. ByteAt(f, Position(f)) = EOL
    BY <1>3, <2>1, <2>2, BufferByte
  <2>7. KeptLength(f') = KeptLength(f)
        /\ \A i \in Nat : i < KeptLength(f) => ByteAt(f', i) = ByteAt(f, i)
    BY <2>4, KeepsBytes
  <2>8. ByteAt(f', Position(f)) = EOL
    BY <1>2, <1>3, <2>1, <2>6, <2>7
  <2>9. \A i \in Position(f) + 1 .. call.start - 2 : ByteAt(f', i) # EOL
    <3> TAKE i \in Position(f) + 1 .. call.start - 2
    <3>1. i \in Nat /\ i < KeptLength(f) /\ i \in Position(f) + 1 .. (call.start - 1) - 1
      BY <1>2, <1>3, <2>1
    <3> QED
      BY <2>1, <2>7, <3>1 DEF NoEOL
  <2>10. Position(f') - 1 = Position(f)
    BY <1>3, <2>5
  <2> QED
    BY <2>1, <2>5, <2>8, <2>9, <2>10
<1>6. Position(f') \in Int
  <2>1. Good(f')
    BY <1>1, <1>3, DoSetGood
  <2> QED
    BY <2>1, LengthFacts
<1>7. BackspaceToLineStart'
  BY <1>2, <1>5, <1>6 DEF BackspaceToLineStart
<1>8. BackUnderway' /\ BackspaceRecord'
  BY <1>2 DEF BackUnderway, BackspaceRecord
<1> QED
  BY <1>7, <1>8 DEF BackInv

(* Raw mode moves back one record length. *)
LEMMA BackRawSeeks ==
  ASSUME IInv, BackInv, call.op = "backspace", BackRaw
  PROVE  BackInv'
<1> DEFINE t == Target(f, -call.rsz, 1)
<1>1. PICK w \in Outcomes(f.fill), r \in ReadOutcomes :
        /\ f' = DoSet(f, t, w, r)
        /\ IF DoSetFails(f, t, w, r) THEN Abort(1) ELSE Finish(0) /\ faults' = faults
  BY DEF BackRaw, Seek
<1>2. pc = "backraw" /\ pc' = "done" /\ call' = call /\ call.mode = 0
      /\ call.start = Position(f) /\ call.start \in Nat
  BY <1>1 DEF BackRaw, Abort, Finish, Seek, BackInv, BackUnderway
<1>3. t = MaxOf(0, call.start - call.rsz) /\ t \in 0..MaxPos /\ t <= call.start
  <2>1. call.rsz \in Nat \ {0} /\ Position(f) \in 0..MaxPos /\ MaxPos \in Nat
    BY CallFacts, IInvFacts
  <2> QED
    BY <1>2, <2>1 DEF Target, MaxOf
<1> HIDE DEF t
<1>4. w \in 0..f.fill /\ r \in BOOLEAN /\ Good(f) /\ KeptLength(f) \in Nat
  BY OutcomeFacts, IInvFacts, LengthFacts
<1>5. KeptLength(f') <= KeptLength(f) /\ KeptLength(f') \in Nat
      /\ (~DoSetFails(f, t, w, r) /\ t <= KeptLength(f) => Position(f') = t)
  <2>1. Good(f')
    BY <1>1, <1>3, <1>4, DoSetGood
  <2> QED
    BY <1>1, <1>3, <1>4, <2>1, DoSetKeeps, LengthFacts
<1>6. ASSUME ret' = 0, call.start <= KeptLength(f')
      PROVE  Position(f') = MaxOf(0, call.start - call.rsz)
  <2>1. ~DoSetFails(f, t, w, r)
    BY <1>1, <1>6 DEF Abort, Finish
  <2>2. t <= KeptLength(f)
    BY <1>2, <1>3, <1>4, <1>5, <1>6
  <2> QED
    BY <1>3, <1>5, <2>1, <2>2
<1>7. BackspaceRecord'
  BY <1>2, <1>6 DEF BackspaceRecord, Done
<1>8. BackUnderway' /\ BackspaceToLineStart'
  BY <1>2 DEF BackUnderway, BackspaceToLineStart
<1> QED
  BY <1>7, <1>8 DEF BackInv

(* zysbs: BACKSPACE ends at the record before. *)
LEMMA BackKeeps ==
  ASSUME IInv, Matches, BackInv, [Next]_vars
  PROVE  BackInv'
<1>1. CASE BeginCall
  <2>1. CASE BeginBackspace
    BY <2>1, BackBegins
  <2>2. CASE ~BeginBackspace
    <3>1. call'.op # "backspace"
      BY <1>1, <2>2 DEF BeginCall, BeginOpen, BeginInput, BeginOutput, BeginRewind,
         BeginSet, BeginEndfile, Begin
    <3> QED
      BY <3>1 DEF BackInv
  <2> QED
    BY <2>1, <2>2
<1>2. CASE Step
  <2>1. CASE Return
    BY <2>1 DEF Return, BackInv, NoCall
  <2>2. CASE call.op = "backspace" /\ ~Return
    BY <1>2, <2>2, StepsMatch, BackScans, ForwardPasses, BackRawSeeks
  <2>3. CASE call.op # "backspace" /\ ~Return
    BY <1>2, <2>3, StepsMatch DEF BackInv
  <2> QED
    BY <2>1, <2>2, <2>3
<1>3. CASE UNCHANGED vars
  BY <1>3 DEF vars, BackInv, BackUnderway, NoEOL, BackspaceToLineStart, BackspaceRecord, Done
<1> QED
  BY <1>1, <1>2, <1>3 DEF Next

-----------------------------------------------------------------------------
(* osopen: an append association seeks to the end of what the file holds. *)
OpenInv == call.op = "open" => AppendAtEnd

LEMMA OpenAppends ==
  ASSUME IInv, Open
  PROVE  OpenInv'
<1>1. PICK g \in Garbage, r \in BOOLEAN :
        LET s == Associated(g)
            t == Targeted(s, 2)
        IN  /\ Good(s) /\ s.fill = 0 /\ s.next = 0 /\ s.offset = 0 /\ ~s.dirty
            /\ Good(t) /\ SameBuffer(s, t) /\ EofPos(s) = s.eof /\ s.eof \in 0..MaxPos
            /\ ~r => faults + 1 \in 0..MaxFaults
            /\ DoSetFails(t, EofPos(s), 0, r) => ~r
            /\ IF IoOup /\ call.app
                 THEN /\ f' = DoSet(t, EofPos(s), 0, r)
                      /\ faults' = IF DoSetFails(t, EofPos(s), 0, r) THEN faults + 1 ELSE faults
                 ELSE f' = s /\ faults' = faults
  BY OpenFacts
<1> DEFINE s == Associated(g)
           t == Targeted(s, 2)
           e == EofPos(s)
<1>2. /\ Good(t) /\ t.fill = 0 /\ t.eof = e /\ e \in 0..MaxPos /\ ~t.dirty
      /\ ~DoSetFails(t, e, 0, r) \/ faults + 1 \in 0..MaxFaults
  BY <1>1 DEF SameBuffer
<1>3. /\ call' = call /\ faults \in 0..MaxFaults
      /\ IoOup /\ call.app =>
           /\ f' = DoSet(t, e, 0, r)
           /\ faults' = IF DoSetFails(t, e, 0, r) THEN faults + 1 ELSE faults
  BY <1>1, OpenFacts, OutcomeFacts
<1> HIDE DEF s, t, e
<1>4. ASSUME call.app, IoOup, faults' = 0
      PROVE  Position(f') = f'.eof
  <2>1. ~DoSetFails(t, e, 0, r) /\ 0 \in 0..t.fill
    BY <1>2, <1>3, <1>4
  <2>2. Position(DoSet(t, e, 0, r)) = e
    BY <1>2, <1>4, <2>1, DoSetKeeps
  <2>3. DoSet(t, e, 0, r).eof = e
    BY <1>2, <2>1, DoSetClean
  <2> QED
    BY <1>3, <1>4, <2>2, <2>3
<1>5. call'.app = call.app
  BY <1>3
<1> QED
  BY <1>4, <1>5, Zenon DEF OpenInv, AppendAtEnd

(* An append association starts at the end. *)
LEMMA OpenKeeps ==
  ASSUME IInv, Matches, OpenInv, [Next]_vars
  PROVE  OpenInv'
<1>1. CASE BeginCall
  <2>1. pc' # "done"
    BY <1>1, BeginsMatch
  <2> QED
    BY <2>1 DEF OpenInv, AppendAtEnd, Done
<1>2. CASE Step
  <2>1. CASE Open
    BY <2>1, OpenAppends
  <2>2. CASE Return
    BY <2>2 DEF Return, OpenInv, NoCall
  <2>3. CASE call.op # "open" /\ ~Return
    BY <1>2, <2>3, StepsMatch DEF OpenInv
  <2> QED
    BY <1>2, <2>1, <2>2, <2>3, StepsMatch
<1>3. CASE UNCHANGED vars
  BY <1>3 DEF vars, OpenInv, AppendAtEnd, Done
<1> QED
  BY <1>1, <1>2, <1>3 DEF Next

-----------------------------------------------------------------------------
(* What every call has done so far: with IInv it is inductive. *)
Underway == Matches /\ ReadInv /\ WriteInv /\ SeekInv /\ BackInv /\ OpenInv

(* Every record read or written, every SET, BACKSPACE and append does what  *)
(* it is to do, and every loop has done its part of it.                     *)
THEOREM CallsUnderway == Spec => []Underway
<1>1. Init => Underway
  BY DEF Init, NoCall, Underway, Matches, ReadInv, WriteInv, SeekInv, BackInv, OpenInv
<1>2. IInv /\ Underway /\ [Next]_vars => Underway'
  <2> SUFFICES ASSUME IInv, Underway, [Next]_vars PROVE Underway'
    OBVIOUS
  <2>1. Matches /\ ReadInv /\ WriteInv /\ SeekInv /\ BackInv /\ OpenInv
    BY DEF Underway
  <2>2. Matches'
    <3>1. CASE BeginCall
      BY <3>1, BeginsMatch
    <3>2. CASE Step
      BY <2>1, <3>2, StepsMatch
    <3>3. CASE UNCHANGED vars
      BY <2>1, <3>3 DEF vars, Matches
    <3> QED
      BY <3>1, <3>2, <3>3 DEF Next
  <2>3. ReadInv' /\ WriteInv'
    BY <2>1, ReadKeeps, WriteKeeps
  <2>4. SeekInv' /\ BackInv' /\ OpenInv'
    BY <2>1, SeekKeeps, BackKeeps, OpenKeeps
  <2> QED
    BY <2>2, <2>3, <2>4 DEF Underway
<1> QED
  BY <1>1, <1>2, InvariantHolds, PTL DEF Spec

(* A record read in line mode is the bytes up to the next EOL, cut at the   *)
(* record size, however often the buffer was filled on the way: osread.     *)
THEOREM LinesAreRead == Spec => []LineRecordRead
<1>1. Underway => LineRecordRead
  BY DEF Underway, ReadInv, LineRecordRead, Done
<1> QED
  BY <1>1, CallsUnderway, PTL

(* A record read in raw mode is the next rsz bytes: osread. *)
THEOREM RawRecordsAreRead == Spec => []RawRecordRead
<1>1. Underway => RawRecordRead
  BY DEF Underway, ReadInv, RawRecordRead, Done
<1> QED
  BY <1>1, CallsUnderway, PTL

(* The end-of-file exit of zysin is taken only when no byte is left. *)
THEOREM EofIsTheEnd == Spec => []EofAtEnd
<1>1. Underway => EofAtEnd
  BY DEF Underway, ReadInv, EofAtEnd, Done
<1> QED
  BY <1>1, CallsUnderway, PTL

(* A write without error has put its lines at the position, whether its     *)
(* bytes went through the buffer or around it: oswrite.                     *)
THEOREM RecordsAreStored == Spec => []RecordStored
<1>1. Underway => RecordStored
  BY DEF Underway, WriteInv, RecordStored, Done
<1> QED
  BY <1>1, CallsUnderway, PTL

(* SET gets where it was to go: zysst and doset. *)
THEOREM SetGetsThere == Spec => []SetLands
<1>1. Underway => SetLands
  BY DEF Underway, SeekInv, SetLands, Done
<1> QED
  BY <1>1, CallsUnderway, PTL

(* BACKSPACE finds the start of the line that precedes the position: zysbs. *)
THEOREM BackspaceFindsLine == Spec => []BackspaceToLineStart
<1>1. Underway => BackspaceToLineStart
  BY DEF Underway, BackInv, BackspaceToLineStart, Done
<1> QED
  BY <1>1, CallsUnderway, PTL

(* BACKSPACE in raw mode goes back one record length: zysbs. *)
THEOREM BackspaceGoesBackARecord == Spec => []BackspaceRecord
<1>1. Underway => BackspaceRecord
  BY DEF Underway, BackInv, BackspaceRecord, Done
<1> QED
  BY <1>1, CallsUnderway, PTL

(* An append association starts at the end of the file: osopen. *)
THEOREM AppendStartsAtEnd == Spec => []AppendAtEnd
<1>1. Underway => AppendAtEnd
  BY DEF Underway, OpenInv, AppendAtEnd, Done
<1> QED
  BY <1>1, CallsUnderway, PTL

-----------------------------------------------------------------------------
(* The buffered file as a byte file: every step is one of ByteFile's, or    *)
(* leaves what the program sees as it is.  Each lemma below says what makes *)
(* a step the step of that name.                                            *)

(* What the program sees of the file. *)
Bytes(s) == [i \in 0 .. SeenLength(s) - 1 |-> ByteAt(s, i)]

(* It is bytes. *)
LEMMA SeenBytes ==
  ASSUME NEW s, Good(s)
  PROVE  Bytes(s) \in [0 .. SeenLength(s) - 1 -> Byte]
<1> SUFFICES ASSUME NEW i \in 0 .. SeenLength(s) - 1 PROVE ByteAt(s, i) \in Byte
  BY DEF Bytes
<1>1. i \in Nat /\ i < MaxPos /\ MaxPos \in Nat /\ s.offset \in Nat /\ s.fill \in 0..Size
      /\ Size \in Nat
  BY LengthFacts
<1>2. s.data \in [Positions -> Byte] /\ s.buf \in [BufIndex -> Byte]
  BY DEF Good, FileState
<1>3. CASE InWindow(s, i)
  <2>1. i - s.offset \in BufIndex
    BY <1>1, <1>3 DEF InWindow, BufIndex
  <2> QED
    BY <1>2, <1>3, <2>1 DEF ByteAt
<1>4. CASE ~InWindow(s, i)
  <2>1. i \in Positions
    BY <1>1 DEF Positions
  <2> QED
    BY <1>2, <1>4, <2>1 DEF ByteAt
<1> QED
  BY <1>3, <1>4

(* A file for input alone holds all the program sees of it. *)
LEMMA InputIsKept ==
  ASSUME NEW s, Good(s), ~IoOup
  PROVE  SeenLength(s) = KeptLength(s) /\ ~s.dirty
<1>1. ~s.dirty
  BY Zenon DEF Good, Consistent, ReadOnly
<1>2. s.fill > 0 => s.offset + s.fill <= s.eof
  BY DEF Good, Consistent, ReadOnly
<1> QED
  BY <1>1, <1>2, LengthFacts DEF MaxOf

(* The variables of ByteFile, now and after a step. *)
LEMMA View ==
  /\ [i \in 0 .. SeenLength(f) - 1 |-> ByteAt(f, i)] = Bytes(f)
  /\ [i \in 0 .. SeenLength(f) - 1 |-> ByteAt(f, i)]' = Bytes(f')
  /\ SeenLength(f)' = SeenLength(f') /\ KeptLength(f)' = KeptLength(f')
  /\ (IF open THEN Position(f) ELSE 0)' = IF open' THEN Position(f') ELSE 0
<1>1. [i \in 0 .. SeenLength(f) - 1 |-> ByteAt(f, i)] = Bytes(f)
  BY DEF Bytes
<1>2. [i \in 0 .. SeenLength(f) - 1 |-> ByteAt(f, i)]' = Bytes(f')
  BY DEF Bytes
<1>3. SeenLength(f)' = SeenLength(f') /\ KeptLength(f)' = KeptLength(f')
  OBVIOUS
<1>4. (IF open THEN Position(f) ELSE 0)' = IF open' THEN Position(f') ELSE 0
  OBVIOUS
<1> QED
  BY <1>1, <1>2, <1>3, <1>4

(* An error is reported or it is not. *)
LEMMA ReportedBoolean ==
  /\ ~Reported /\ ~Reported' => UNCHANGED Reported
  /\ Reported' => Reported' = TRUE
  /\ ~Reported' => Reported' = FALSE
  BY DEF Reported

(* Nothing the program sees changes. *)
LEMMA IsStutter ==
  ASSUME UNCHANGED <<f, open, call, got, line>>, ~Reported, ~Reported'
  PROVE  UNCHANGED Abstract!vars
<1>1. UNCHANGED <<SeenLength(f), KeptLength(f), call.op, got, line>> /\ Bytes(f') = Bytes(f)
  OBVIOUS
<1>2. UNCHANGED (IF open THEN Position(f) ELSE 0)
  OBVIOUS
<1>3. UNCHANGED Reported
  BY ReportedBoolean
<1> QED
  BY <1>1, <1>2, <1>3, View DEF Abstract!vars

(* An operation begins. *)
LEMMA IsCall ==
  ASSUME call.op = "none",
         call'.op \in {"input", "output", "set", "backspace", "rewind", "endfile", "open"},
         UNCHANGED <<f, open, got, line>>, ~Reported, ~Reported'
  PROVE  Abstract!Call
<1>1. UNCHANGED <<SeenLength(f), KeptLength(f), got, line>> /\ Bytes(f') = Bytes(f)
  OBVIOUS
<1>2. UNCHANGED (IF open THEN Position(f) ELSE 0)
  OBVIOUS
<1>3. UNCHANGED Reported
  BY ReportedBoolean
<1> QED
  BY <1>1, <1>2, <1>3, View DEF Abstract!Call

(* It ends. *)
LEMMA IsReturn ==
  ASSUME call.op # "none", line = <<>> \/ Reported, call'.op = "none",
         got' = <<>>, line' = <<>>, ~Reported', UNCHANGED <<f, open>>
  PROVE  Abstract!Return
<1>1. UNCHANGED <<SeenLength(f), KeptLength(f)>> /\ Bytes(f') = Bytes(f)
  OBVIOUS
<1>2. UNCHANGED (IF open THEN Position(f) ELSE 0)
  OBVIOUS
<1>3. Reported' = FALSE
  BY ReportedBoolean
<1> QED
  BY <1>1, <1>2, <1>3, View DEF Abstract!Return

(* The position moves. *)
LEMMA IsMove ==
  ASSUME Good(f), Good(f'), call.op \in {"set", "rewind", "backspace", "open"},
         UNCHANGED <<call, got, line>>, ~Reported, ~Reported', open',
         Keeps(f, f'), SeenLength(f') \in {KeptLength(f), SeenLength(f), Position(f')}
  PROVE  Abstract!Move
<1>1. /\ KeptLength(f') = KeptLength(f) /\ KeptLength(f) \in Nat /\ SeenLength(f) \in Nat
      /\ SeenLength(f') \in Nat /\ Position(f') \in Nat
      /\ KeptLength(f) <= SeenLength(f) /\ KeptLength(f) <= SeenLength(f')
  BY LengthFacts DEF Keeps
<1>2. Bytes(f') \in [0 .. SeenLength(f') - 1 -> Byte]
  BY SeenBytes
<1>3. \A i \in 0 .. KeptLength(f) - 1 : Bytes(f')[i] = Bytes(f)[i]
  BY <1>1 DEF Bytes, Keeps
<1>4. UNCHANGED <<KeptLength(f), call.op, got, line>>
  BY <1>1
<1>5. UNCHANGED Reported
  BY ReportedBoolean
<1> QED
  BY <1>1, <1>2, <1>3, <1>4, <1>5, View
  DEF Abstract!Move, Abstract!Moving, Abstract!BytesOf

(* Bytes that were never stored vanish. *)
LEMMA IsLapse ==
  ASSUME Good(f), Good(f'), call.op # "none", UNCHANGED <<open, call, got, line>>,
         ~Reported, ~Reported', Keeps(f, f'), SeenLength(f') = KeptLength(f),
         Position(f') = Position(f)
  PROVE  Abstract!Lapse
<1>1. KeptLength(f') = KeptLength(f) /\ KeptLength(f) \in Nat /\ SeenLength(f) \in Nat
      /\ KeptLength(f) <= SeenLength(f)
  BY LengthFacts DEF Keeps
<1>2. Bytes(f') = [i \in 0 .. KeptLength(f) - 1 |-> Bytes(f)[i]]
  BY <1>1 DEF Bytes, Keeps
<1>3. UNCHANGED <<KeptLength(f), call.op, got, line>>
  BY <1>1
<1>4. UNCHANGED Reported
  BY ReportedBoolean
<1>5. UNCHANGED (IF open THEN Position(f) ELSE 0)
  OBVIOUS
<1> QED
  BY <1>2, <1>3, <1>4, <1>5, View DEF Abstract!Lapse

(* An error is reported. *)
LEMMA IsFail ==
  ASSUME Good(f'), call.op # "none", UNCHANGED <<call, got>>, line' \in Seq(Byte), Reported'
  PROVE  Abstract!Fail
<1>1. KeptLength(f') \in 0..SeenLength(f') /\ SeenLength(f') \in Nat /\ Position(f') \in Nat
  BY LengthFacts
<1>2. Bytes(f') \in [0 .. SeenLength(f') - 1 -> Byte]
  BY SeenBytes
<1>3. (IF open' THEN Position(f') ELSE 0) \in Nat
  BY <1>1
<1>4. Reported' = TRUE
  BY ReportedBoolean
<1>5. UNCHANGED <<call.op, got>>
  OBVIOUS
<1> QED
  BY <1>1, <1>2, <1>3, <1>4, <1>5, View DEF Abstract!Fail, Abstract!BytesOf

(* The file is closed. *)
LEMMA IsClose ==
  ASSUME Good(f), call.op = "endfile", ~open', UNCHANGED <<call, got, line>>,
         ~Reported, ~Reported', Keeps(f, f'), SeenLength(f') = KeptLength(f)
  PROVE  Abstract!Close
<1>1. KeptLength(f') = KeptLength(f) /\ KeptLength(f) \in Nat /\ SeenLength(f) \in Nat
      /\ KeptLength(f) <= SeenLength(f)
  BY LengthFacts DEF Keeps
<1>2. Bytes(f') = [i \in 0 .. KeptLength(f) - 1 |-> Bytes(f)[i]]
  BY <1>1 DEF Bytes, Keeps
<1>3. UNCHANGED <<KeptLength(f), call.op, got, line>>
  BY <1>1
<1>4. UNCHANGED Reported
  BY ReportedBoolean
<1>5. (IF open' THEN Position(f') ELSE 0) = 0
  OBVIOUS
<1> QED
  BY <1>2, <1>3, <1>4, <1>5, View DEF Abstract!Close

(* An output file is emptied. *)
LEMMA IsTruncate ==
  ASSUME call.op = "open", open', UNCHANGED <<call, got, line>>, ~Reported, ~Reported',
         SeenLength(f') = 0, KeptLength(f') = 0, Position(f') = 0
  PROVE  Abstract!Truncate
<1>1. Bytes(f') = <<>>
  BY DEF Bytes
<1>2. UNCHANGED <<call.op, got, line>>
  OBVIOUS
<1>3. UNCHANGED Reported
  BY ReportedBoolean
<1>4. (IF open' THEN Position(f') ELSE 0) = 0
  OBVIOUS
<1> QED
  BY <1>1, <1>2, <1>3, <1>4, View DEF Abstract!Truncate

(* A write takes up its next line. *)
LEMMA IsSupply ==
  ASSUME call.op = "output", line = <<>>, line' \in Seq(Byte),
         UNCHANGED <<f, open, call, got>>, ~Reported, ~Reported'
  PROVE  Abstract!Supply
<1>1. UNCHANGED <<SeenLength(f), KeptLength(f), call.op, got>> /\ Bytes(f') = Bytes(f)
  OBVIOUS
<1>2. UNCHANGED (IF open THEN Position(f) ELSE 0)
  OBVIOUS
<1>3. UNCHANGED Reported
  BY ReportedBoolean
<1> QED
  BY <1>1, <1>2, <1>3, View DEF Abstract!Supply

(* Moving next shows the same bytes, stored or not. *)
LEMMA NextSeesSame ==
  ASSUME NEW s, Good(s), NEW n \in 0..s.fill
  PROVE  Bytes([s EXCEPT !.next = n]) = Bytes(s)
<1> DEFINE g == [s EXCEPT !.next = n]
<1>1. SeenLength(g) = SeenLength(s) /\ g.fill = s.fill /\ g.offset = s.offset /\ g.buf = s.buf
      /\ g.data = s.data
  BY NextMoves
<1> HIDE DEF g
<1>2. \A i : ByteAt(g, i) = ByteAt(s, i)
  BY <1>1 DEF ByteAt, InWindow
<1> QED
  BY <1>1, <1>2 DEF Bytes, g

(* A read delivers the next bytes of the buffer, or drops them. *)
LEMMA IsDeliverOrSkip ==
  ASSUME IInv, call.op = "input", open, open', NEW n \in 1 .. f.fill - f.next,
         f' = [f EXCEPT !.next = f.next + n], UNCHANGED <<call, line>>, ~Reported, ~Reported'
  PROVE  /\ n \in 1 .. SeenLength(f) - Position(f)
         /\ got' = got \o Taken(n) => Abstract!Deliver(n)
         /\ got' = got => Abstract!Skip(n)
<1>1. /\ Good(f) /\ f.fill \in Nat /\ f.next \in 0..f.fill /\ f.offset \in Nat /\ f.eof \in Nat
      /\ f.next + n \in 0..f.fill /\ SeenLength(f) = MaxOf(f.eof, f.offset + f.fill)
      /\ Position(f) = f.offset + f.next
  BY IInvFacts, LengthFacts DEF Position
<1>2. Position(f) + n <= SeenLength(f) /\ n \in 1 .. SeenLength(f) - Position(f)
      /\ Position(f) \in Nat /\ SeenLength(f) \in Nat
  BY <1>1 DEF MaxOf
<1>3. /\ KeptLength(f') = KeptLength(f) /\ SeenLength(f') = SeenLength(f)
      /\ Position(f') = f.offset + (f.next + n) /\ Bytes(f') = Bytes(f)
  BY <1>1, NextMoves, NextSeesSame DEF Keeps
<1>4. Position(f') = Position(f) + n
  BY <1>1, <1>3
<1>5. Taken(n) = [i \in 1..n |-> Bytes(f)[Position(f) + i - 1]]
  <2> SUFFICES ASSUME NEW i \in 1..n
               PROVE  f.buf[f.next + i - 1] = Bytes(f)[Position(f) + i - 1]
    BY DEF Taken
  <2>1. /\ f.next + i - 1 \in 0 .. f.fill - 1
        /\ f.offset + (f.next + i - 1) = Position(f) + i - 1
        /\ Position(f) + i - 1 \in 0 .. SeenLength(f) - 1
    BY <1>1, <1>2
  <2>2. ByteAt(f, f.offset + (f.next + i - 1)) = f.buf[f.next + i - 1]
    BY <1>1, <2>1, BufferByte
  <2> QED
    BY <2>1, <2>2 DEF Bytes
<1>6. UNCHANGED <<SeenLength(f), KeptLength(f), call.op, line>>
  BY <1>3
<1>7. UNCHANGED Reported
  BY ReportedBoolean
<1>8. (IF open THEN Position(f) ELSE 0) = Position(f)
      /\ (IF open' THEN Position(f') ELSE 0) = Position(f) + n
  BY <1>4
<1>9. got' = got \o Taken(n) => Abstract!Deliver(n)
  BY <1>2, <1>3, <1>5, <1>6, <1>7, <1>8, View DEF Abstract!Deliver
<1>10. got' = got => Abstract!Skip(n)
  BY <1>2, <1>3, <1>6, <1>7, <1>8, View DEF Abstract!Skip
<1> QED
  BY <1>2, <1>9, <1>10

(* A write stores the next bytes of its line. *)
LEMMA IsStore ==
  ASSUME Good(f), Good(f'), call.op = "output", open, open', line \in Seq(Byte),
         NEW n \in 1..Len(line), Placed(n), line' = SubSeq(line, n + 1, Len(line)),
         UNCHANGED <<call, got>>, ~Reported, ~Reported'
  PROVE  Abstract!Store(n)
<1>1. /\ SeenLength(f) \in Nat /\ SeenLength(f') \in Nat /\ Position(f) \in Nat /\ n \in Nat
      /\ n <= Len(line)
  BY LengthFacts
<1>2. /\ Position(f') = Position(f) + n
      /\ SeenLength(f') = IF Position(f) + n > SeenLength(f) THEN Position(f) + n
                          ELSE SeenLength(f)
      /\ KeptLength(f') = SeenLength(f')
  BY <1>1 DEF Placed, MaxOf
<1>3. Bytes(f') \in [0 .. SeenLength(f') - 1 -> Byte]
  BY SeenBytes
<1>4. ASSUME NEW i \in 0 .. SeenLength(f') - 1
      PROVE  IF Position(f) <= i /\ i < Position(f) + n
             THEN Bytes(f')[i] = line[i - Position(f) + 1]
             ELSE i < SeenLength(f) => Bytes(f')[i] = Bytes(f)[i]
  <2>1. i \in Nat /\ Bytes(f')[i] = ByteAt(f', i)
    BY DEF Bytes
  <2>2. i < SeenLength(f) => Bytes(f)[i] = ByteAt(f, i)
    BY <1>1, <2>1 DEF Bytes
  <2> QED
    BY <2>1, <2>2 DEF Placed
<1>5. UNCHANGED <<call.op, got>>
  OBVIOUS
<1>6. UNCHANGED Reported
  BY ReportedBoolean
<1>7. (IF open THEN Position(f) ELSE 0) = Position(f)
      /\ (IF open' THEN Position(f') ELSE 0) = Position(f) + n
  BY <1>2
<1> QED
  BY <1>1, <1>2, <1>3, <1>4, <1>5, <1>6, <1>7, View DEF Abstract!Store, Abstract!BytesOf

(* What a step of ByteFile needs to be known besides: a file in use is open, *)
(* one that is not holds nothing unwritten, and a line is left over only by  *)
(* a write that reports an error.  When zysbs passes over the EOL it found,  *)
(* without a look at what doset returns, nothing can be lost.                *)
Conforms ==
  /\ call.op \in {"input", "output", "set", "backspace", "rewind"} => open
  /\ pc = "close" => open
  /\ pc = "open" => ~open
  /\ ~open => ~f.dirty
  /\ call.op # "output" => line = <<>>
  /\ pc = "line" => line = <<>>
  /\ Done("output", 0) => line = <<>>
  /\ pc = "forward" => f.next < f.fill \/ ~f.dirty

(* A step of one operation leaves the other operations' labels alone. *)
LEMMA ConformsKept ==
  ASSUME IInv, Matches, Conforms, [Next]_vars
  PROVE  Conforms'
<1>1. CASE BeginCall
  <2>1. pc = "idle" /\ call = NoCall /\ line = <<>> /\ UNCHANGED <<f, open, line>>
    BY <1>1 DEF BeginCall, BeginOpen, BeginInput, BeginOutput, BeginSet, BeginRewind,
       BeginBackspace, BeginEndfile, Begin, IInv, CallInv
  <2>2. IF BeginOpen THEN pc' = "open" /\ call'.op = "open" /\ ~open
        ELSE pc' \notin {"open", "forward", "done"} /\ open
    BY <1>1 DEF BeginCall, BeginOpen, BeginInput, BeginOutput, BeginSet, BeginRewind,
       BeginBackspace, BeginEndfile, Begin
  <2> QED
    BY <2>1, <2>2 DEF Conforms, Done
<1>2. CASE Step
  <2>1. CASE Return
    BY <2>1 DEF Return, NoCall, Conforms, Done
  <2>2. CASE Open
    BY <2>2, OpenFacts, StepsMatch, <1>2 DEF Conforms, Done, Matches, NoCall
  <2>3. CASE Close
    <3>1. PICK w \in Outcomes(f.fill) : f' = IF IoOup THEN Flush(f, w) ELSE f
      BY <2>3 DEF Close
    <3>2. ~f'.dirty
      <4>1. w \in 0..f.fill /\ Good(f)
        BY OutcomeFacts, IInvFacts
      <4> QED
        BY <3>1, <4>1, FlushGood, InputIsKept
    <3>3. pc = "close" /\ pc' = "done" /\ UNCHANGED <<call, line>>
      BY <2>3 DEF Close, Finish, Abort
    <3>4. call.op \notin {"input", "output", "set", "backspace", "rewind"}
      BY <3>3 DEF Matches
    <3> QED
      BY <3>2, <3>3, <3>4 DEF Conforms, Done
  <2>4. CASE call.op = "input" /\ ~Return
    <3>1. (Refill \/ CopyLine \/ Discard \/ CopyRaw) /\ call' = call
      BY <1>2, <2>4, StepsMatch
    <3>2. UNCHANGED <<open, line>> /\ pc' \notin {"close", "open", "line", "forward"}
      BY <3>1 DEF Refill, Reading, CopyLine, Discard, CopyRaw, Finish, Abort
    <3> QED
      BY <2>4, <3>1, <3>2 DEF Conforms, Done
  <2>5. CASE call.op = "output" /\ ~Return
    <3>1. (NextLine \/ EndLine \/ PutFlush \/ PutCopy \/ PutBypass) /\ call' = call
      BY <1>2, <2>5, StepsMatch
    <3>2. /\ open' = open /\ pc' \notin {"close", "open", "forward"}
          /\ pc' = "line" => line' = <<>>
          /\ pc' = "done" /\ ret' = 0 => line' = <<>>
      <4>1. CASE NextLine   BY <4>1 DEF NextLine
      <4>2. CASE EndLine    BY <4>2 DEF EndLine, Finish
      <4>3. CASE PutFlush   BY <4>3 DEF PutFlush, Finish, Abort
      <4>4. CASE PutCopy    BY <4>4 DEF PutCopy, Finish, Abort
      <4>5. CASE PutBypass  BY <4>5 DEF PutBypass, Finish, Abort
      <4> QED
        BY <3>1, <4>1, <4>2, <4>3, <4>4, <4>5
    <3> QED
      BY <2>5, <3>1, <3>2 DEF Conforms, Done
  <2>6. CASE call.op \in {"set", "rewind"} /\ ~Return
    <3>1. (Set \/ Rewind) /\ call' = call
      BY <1>2, <2>6, StepsMatch
    <3>2. UNCHANGED <<open, line>> /\ pc' = "done"
      BY <3>1 DEF Set, Rewind, Seek, Finish, Abort
    <3> QED
      BY <2>6, <3>1, <3>2 DEF Conforms, Done
  <2>7. CASE call.op = "backspace" /\ ~Return
    <3>1. (BackRaw \/ Back \/ Forward) /\ call' = call
      BY <1>2, <2>7, StepsMatch
    <3>2. UNCHANGED <<open, line>> /\ pc' \in {"scan", "forward", "done"}
      BY <3>1 DEF BackRaw, Back, Forward, Seek, Finish, Abort
    <3>3. ASSUME pc' = "forward" PROVE f'.next < f'.fill \/ ~f'.dirty
      <4>1. Back /\ ~AtBeginning
        BY <3>1, <3>3 DEF BackRaw, Back, Forward, Seek, Finish, Abort
      <4>2. PICK w \in Outcomes(f.fill), r \in ReadOutcomes : f' = Backed(w, r)
        BY <4>1 DEF Back
      <4>3. Good(f) /\ w \in 0..f.fill /\ r \in BOOLEAN /\ f.next \in 0..f.fill /\ f.fill \in Nat
            /\ f.offset \in 0..MaxPos /\ MaxPos \in Nat
        BY OutcomeFacts, IInvFacts, LengthFacts
      <4>4. CASE f.next > 0
        <5>1. f' = [f EXCEPT !.next = f.next - 1] /\ f.next - 1 \in 0..f.fill
          BY <4>2, <4>3, <4>4 DEF Backed
        <5>2. f'.next = f.next - 1 /\ f'.fill = f.fill
          BY <4>3, <5>1, NextMoves
        <5> QED
          BY <4>3, <5>2
      <4>5. CASE f.next = 0
        <5>1. f.offset - 1 \in 0..MaxPos /\ ~InBuffer(f, f.offset - 1)
          BY <4>1, <4>3, <4>5 DEF AtBeginning, InBuffer
        <5>2. f' = DoSet(f, f.offset - 1, w, r)
          BY <4>2, <4>5 DEF Backed
        <5> QED
          BY <4>3, <5>1, <5>2, DoSetClean
      <4> QED
        BY <4>3, <4>4, <4>5
    <3> QED
      BY <2>7, <3>1, <3>2, <3>3 DEF Conforms, Done
  <2>8. call.op \in {"input", "output", "set", "backspace", "rewind"} \/ Return \/ Open \/ Close
    BY <1>2, KnownOps, StepsMatch
  <2> QED
    BY <2>1, <2>2, <2>3, <2>4, <2>5, <2>6, <2>7, <2>8
<1>3. CASE UNCHANGED vars
  BY <1>3 DEF vars, Conforms, Done
<1> QED
  BY <1>1, <1>2, <1>3 DEF Next

(* A seek from a state that shows the same file moves the position, and a seek *)
(* that fails from a clean buffer does no more.                                *)
LEMMA DoSetMoves ==
  ASSUME Good(f), NEW s, Good(s), Keeps(f, s), SeenLength(s) \in {KeptLength(f), SeenLength(f)},
         NEW t \in 0..MaxPos, NEW w \in 0..s.fill, NEW r \in BOOLEAN, f' = DoSet(s, t, w, r),
         ~DoSetFails(s, t, w, r) \/ ~s.dirty
  PROVE  /\ Good(f') /\ Keeps(f, f')
         /\ SeenLength(f') \in {KeptLength(f), SeenLength(f), Position(f')}
<1>1. Good(f') /\ KeptLength(s) = KeptLength(f)
  BY DoSetGood DEF Keeps
<1>2. CASE ~DoSetFails(s, t, w, r)
  <2>1. /\ Keeps(s, f') /\ SeenLength(f') \in {KeptLength(s), SeenLength(s), t}
        /\ IoOup => Position(f') = t
    BY <1>2, DoSetKeeps
  <2>2. ~IoOup => SeenLength(f') = KeptLength(f')
    BY <1>1, InputIsKept
  <2>3. Keeps(f, f')
    BY <2>1, KeepsTwice
  <2> QED
    BY <1>1, <2>1, <2>2, <2>3 DEF Keeps
<1>3. CASE DoSetFails(s, t, w, r) /\ ~s.dirty
  <2>1. Keeps(s, f') /\ SeenLength(f') = KeptLength(s)
    BY <1>3, DoSetFailsKeeps
  <2>2. Keeps(f, f')
    BY <2>1, KeepsTwice
  <2> QED
    BY <1>1, <2>1, <2>2
<1> QED
  BY <1>2, <1>3

(* osread: a step delivers bytes or drops them, or reloads the buffer. *)
LEMMA ReadImplements ==
  ASSUME IInv, IInv', Conforms, call.op = "input", Refill \/ CopyLine \/ Discard \/ CopyRaw
  PROVE  Abstract!Next \/ UNCHANGED Abstract!vars
<1>1. Good(f) /\ Good(f') /\ line \in Seq(Byte) /\ got \in Seq(Byte) /\ open
  BY IInvFacts DEF IInv, TypeOK, BufferConsistent, Good, Conforms
<1>2. ~Reported
  BY DEF Reported, Refill, Reading, CopyLine, Discard, CopyRaw
<1>3. ASSUME NEW n \in 0 .. f.fill - f.next, f' = [f EXCEPT !.next = f.next + n],
             got' = got \o Taken(n) \/ (n = 1 /\ got' = got),
             UNCHANGED <<open, call, line>>, ~Reported'
      PROVE  Abstract!Next \/ UNCHANGED Abstract!vars
  <2>1. CASE n = 0
    <3>1. got' = got
      <4>1. Taken(n) = <<>>
        BY <2>1 DEF Taken
      <4> QED
        BY <1>1, <1>3, <2>1, <4>1
    <3>2. f' = f
      BY <1>1, <1>3, <2>1, IInvFacts DEF Good, FileState
    <3> QED
      BY <1>2, <1>3, <3>1, <3>2, IsStutter
  <2>2. CASE n # 0
    <3>1. n \in 1 .. f.fill - f.next
      BY <2>2, IInvFacts
    <3>2. /\ n \in 1 .. SeenLength(f) - Position(f)
          /\ got' = got \o Taken(n) => Abstract!Deliver(n)
          /\ got' = got => Abstract!Skip(n)
      BY <1>1, <1>2, <1>3, <3>1, IsDeliverOrSkip
    <3>3. n \in 1 .. SeenLength(f) - (IF open THEN Position(f) ELSE 0)
      BY <1>1, <3>2
    <3>4. Abstract!Deliver(n) \/ Abstract!Skip(n)
      BY <1>3, <3>2
    <3> QED
      BY <3>3, <3>4 DEF Abstract!Next
  <2> QED
    BY <2>1, <2>2
<1>4. CASE Refill
  <2>1. CASE pc' = "done" /\ ret' = 2
    <3>1. UNCHANGED <<call, got, line>> /\ Reported'
      BY <1>4, <2>1, RefillFacts DEF Reported, Done
    <3>2. Abstract!Fail
      BY <1>1, <3>1, IsFail
    <3> QED
      BY <3>2 DEF Abstract!Next
  <2>2. CASE ~(pc' = "done" /\ ret' = 2)
    <3>1. /\ UNCHANGED <<open, call, got, line>> /\ Keeps(f, f') /\ Position(f') = Position(f)
          /\ KeptLength(f') = f'.eof /\ SeenLength(f') = f'.eof
          /\ (pc' = "done" /\ ret' = EofExit) \/ UNCHANGED <<pc, ret>>
      BY <1>4, <2>2, RefillFacts
    <3>2. ~Reported'
      BY <1>4, <3>1 DEF Reported, Done, EofExit, Refill, Reading
    <3>3. SeenLength(f') = KeptLength(f)
      BY <3>1 DEF Keeps
    <3>4. Abstract!Lapse
      BY <1>1, <1>2, <3>1, <3>2, <3>3, IsLapse
    <3> QED
      BY <3>4 DEF Abstract!Next
  <2> QED
    BY <2>1, <2>2
<1>5. CASE CopyLine
  <2> DEFINE most == MinOf(call.rsz - Len(got), f.fill - f.next)
  <2>1. PICK n \in 0..most : got' = got \o Taken(n) /\ f' = [f EXCEPT !.next = f.next + n]
    BY <1>5 DEF CopyLine
  <2>2. call.rsz - Len(got) \in Int /\ f.fill - f.next \in Int
    <3>1. call.rsz \in Nat /\ f.fill \in Nat /\ f.next \in Nat
      BY CallFacts, IInvFacts
    <3> QED
      BY <1>1, <3>1
  <2>3. n \in 0 .. f.fill - f.next
    BY <2>2 DEF MinOf
  <2>4. UNCHANGED <<open, call, line>> /\ ~Reported'
    BY <1>5 DEF CopyLine, Reported
  <2>5. got' = got \o Taken(n) \/ (n = 1 /\ got' = got)
    BY <2>1
  <2> QED
    BY <1>3, <2>1, <2>3, <2>4, <2>5, Zenon
<1>6. CASE Discard
  <2>1. 1 \in 0 .. f.fill - f.next
    BY <1>6, IInvFacts DEF Discard
  <2>2. f' = [f EXCEPT !.next = f.next + 1] /\ UNCHANGED <<open, call, got, line>>
    BY <1>6 DEF Discard
  <2>3. ~Reported'
    BY <1>6 DEF Discard, Finish, Reported
  <2> QED
    BY <1>3, <2>1, <2>2, <2>3
<1>7. CASE CopyRaw
  <2> DEFINE n == MinOf(call.rsz - Len(got), f.fill - f.next)
  <2>1. got' = got \o Taken(n) /\ f' = [f EXCEPT !.next = f.next + n]
    BY <1>7 DEF CopyRaw
  <2>2. call.rsz - Len(got) \in Nat /\ f.fill - f.next \in Nat
    BY <1>1, <1>7, CallFacts, IInvFacts DEF IInv, CallInv, CopyRaw
  <2>3. n \in 0 .. f.fill - f.next
    BY <2>2 DEF MinOf
  <2> HIDE DEF n
  <2>4. UNCHANGED <<open, call, line>> /\ ~Reported'
    BY <1>7 DEF CopyRaw, Finish, Reported
  <2>5. got' = got \o Taken(n) \/ (n = 1 /\ got' = got)
    BY <2>1
  <2> QED
    BY <1>3, <2>1, <2>3, <2>4, <2>5, Zenon
<1> QED
  BY <1>4, <1>5, <1>6, <1>7

(* oswrite: a step takes up a line, stores bytes of it, or empties the buffer. *)
LEMMA WriteImplements ==
  ASSUME IInv, IInv', Conforms, call.op = "output",
         NextLine \/ EndLine \/ PutFlush \/ PutCopy \/ PutBypass
  PROVE  Abstract!Next \/ UNCHANGED Abstract!vars
<1>1. Good(f) /\ Good(f') /\ line \in Seq(Byte) /\ line' \in Seq(Byte) /\ open
  BY IInvFacts DEF IInv, TypeOK, BufferConsistent, Good, Conforms
<1>2. ~Reported /\ UNCHANGED <<open, call, got>>
  BY DEF Reported, NextLine, EndLine, PutFlush, PutCopy, PutBypass
<1>3. ASSUME pc' = "done", ret' = 2
      PROVE  Abstract!Next
  <2>1. Reported'
    BY <1>2, <1>3 DEF Reported, Done
  <2>2. Abstract!Fail
    BY <1>1, <1>2, <2>1, IsFail
  <2> QED
    BY <2>2 DEF Abstract!Next
<1>4. CASE NextLine
  <2>1. line = <<>> /\ f' = f /\ ~Reported'
    BY <1>4 DEF NextLine, Conforms, Reported
  <2>2. Abstract!Supply
    BY <1>1, <1>2, <2>1, IsSupply
  <2> QED
    BY <2>2 DEF Abstract!Next
<1>5. CASE EndLine
  <2>1. UNCHANGED <<f, line>> /\ ~Reported'
    BY <1>5 DEF EndLine, Finish, Reported
  <2> QED
    BY <1>2, <2>1, IsStutter
<1>6. CASE PutFlush
  <2>1. PICK w \in Outcomes(f.fill) :
          /\ f' = Flush(f, w)
          /\ IF FlushFails(f, w) THEN Abort(2) ELSE UNCHANGED <<pc, ret, faults>>
    BY <1>6 DEF PutFlush
  <2>2. w \in 0..f.fill
    BY OutcomeFacts, IInvFacts
  <2>3. CASE FlushFails(f, w)
    BY <1>3, <2>1, <2>3 DEF Abort, Finish
  <2>4. CASE ~FlushFails(f, w)
    <3>1. /\ Keeps(f, f') /\ KeptLength(f') = f'.eof /\ Position(f') = f.offset + f.fill
          /\ f'.fill = 0
      BY <1>1, <2>1, <2>2, <2>4, FlushKeeps, FlushGood
    <3>2. SeenLength(f') = KeptLength(f)
      BY <1>1, <3>1, LengthFacts DEF Keeps
    <3>3. Position(f') = Position(f)
      BY <1>1, <1>6, <3>1, LengthFacts DEF PutFlush, Position
    <3>4. ~Reported' /\ line' = line
      BY <1>6, <2>1, <2>4 DEF PutFlush, Reported
    <3>5. Abstract!Lapse
      BY <1>1, <1>2, <3>1, <3>2, <3>3, <3>4, IsLapse
    <3> QED
      BY <3>5 DEF Abstract!Next
  <2> QED
    BY <2>3, <2>4
<1>7. CASE PutCopy \/ PutBypass
  <2>1. CASE pc' = "done" /\ ret' = 2
    BY <1>3, <2>1
  <2>2. CASE ~(pc' = "done" /\ ret' = 2)
    <3>1. PICK n \in 1..Len(line) : /\ Placed(n) /\ line' = SubSeq(line, n + 1, Len(line))
                                    /\ UNCHANGED <<open, pc, call, got, rest, ret>>
      BY <1>7, <2>2, PutCopyPlaces, PutBypassPlaces
    <3>2. ~Reported'
      BY <1>7, <3>1 DEF PutCopy, PutBypass, Reported
    <3>3. Abstract!Store(n)
      BY <1>1, <1>2, <3>1, <3>2, IsStore
    <3> QED
      BY <3>3 DEF Abstract!Next
  <2> QED
    BY <2>1, <2>2
<1> QED
  BY <1>4, <1>5, <1>6, <1>7

(* zysst and zysrw: a seek moves the position. *)
LEMMA SeekImplements ==
  ASSUME IInv, IInv', Conforms, call.op \in {"set", "rewind"}, Set \/ Rewind
  PROVE  Abstract!Next
<1>1. Good(f) /\ Good(f') /\ line' \in Seq(Byte) /\ open
  BY IInvFacts DEF IInv, TypeOK, BufferConsistent, Good, Conforms
<1>2. PICK s \in FileState, t \in 0..MaxPos, x \in {3, 5} :
        /\ Good(s) /\ SameBuffer(f, s) /\ t \in 0..MaxPos /\ Seek(s, t, x)
  <2>1. CASE Rewind
    <3>1. /\ Good(f) /\ SameBuffer(f, f) /\ 0 \in 0..MaxPos /\ Seek(f, 0, 3)
          /\ f \in FileState
      BY <1>1, <2>1, IInvFacts DEF Rewind, SameBuffer, Good
    <3> QED
      BY <3>1
  <2>2. CASE Set
    <3> DEFINE s == Targeted(f, call.whence)
               t == Target(f, call.off, call.whence)
    <3>1. t <= MaxPos /\ call.off \in Int /\ call.whence \in {0, 1, 2}
      BY <2>2, CallFacts DEF IInv, CallInv, Whence, Set
    <3>2. t \in 0..MaxPos
      BY <3>1, IInvFacts DEF Target, MaxOf
    <3>3. Good(s) /\ SameBuffer(f, s) /\ s \in FileState
      <4>1. CASE call.whence = 2
        <5>1. f.eof \in 0..MaxPos
          BY IInvFacts
        <5>2. Good(SeekEnd(f)) /\ SameBuffer(f, SeekEnd(f))
          BY <1>1, <5>1, LseekGood DEF SeekEnd
        <5> QED
          BY <4>1, <5>2 DEF Targeted, Good
      <4>2. CASE call.whence # 2
        BY <1>1, <4>2 DEF Targeted, SameBuffer, Good
      <4> QED
        BY <4>1, <4>2
    <3>4. Seek(s, t, 5)
      BY <2>2 DEF Set
    <3> HIDE DEF s, t
    <3> QED
      BY <3>2, <3>3, <3>4
  <2> QED
    BY <2>1, <2>2
<1>3. PICK w \in Outcomes(f.fill), r \in ReadOutcomes :
        /\ f' = DoSet(s, t, w, r)
        /\ IF DoSetFails(s, t, w, r) THEN Abort(x) ELSE Finish(0) /\ faults' = faults
  BY <1>2 DEF Seek
<1>4. ~Reported /\ UNCHANGED <<open, call, got, line>>
  BY <1>2 DEF Seek, Set, Rewind, Reported
<1>5. CASE DoSetFails(s, t, w, r)
  <2>1. Reported'
    BY <1>3, <1>4, <1>5 DEF Abort, Finish, Reported, Done
  <2>2. Abstract!Fail
    BY <1>1, <1>4, <2>1, IsFail
  <2> QED
    BY <2>2 DEF Abstract!Next
<1>6. CASE ~DoSetFails(s, t, w, r)
  <2>1. ~Reported'
    BY <1>3, <1>6 DEF Finish, Reported
  <2>2. w \in 0..s.fill /\ r \in BOOLEAN
    BY <1>2, OutcomeFacts, IInvFacts DEF SameBuffer
  <2>3. Keeps(f, s) /\ SeenLength(s) \in {KeptLength(f), SeenLength(f)}
    BY <1>2, SameBufferKeeps
  <2>4. /\ Keeps(f, f')
        /\ SeenLength(f') \in {KeptLength(f), SeenLength(f), Position(f')}
    BY <1>1, <1>2, <1>3, <1>6, <2>2, <2>3, DoSetMoves
  <2>5. Abstract!Move
    BY <1>1, <1>4, <2>1, <2>4, IsMove
  <2> QED
    BY <2>5 DEF Abstract!Next
<1> QED
  BY <1>5, <1>6

(* zysbs: a step of the scan moves the position. *)
LEMMA BackImplements ==
  ASSUME IInv, IInv', Conforms, call.op = "backspace", BackRaw \/ Back \/ Forward
  PROVE  Abstract!Next \/ UNCHANGED Abstract!vars
<1>1. Good(f) /\ Good(f') /\ line' \in Seq(Byte) /\ open
  BY IInvFacts DEF IInv, TypeOK, BufferConsistent, Good, Conforms
<1>2. ~Reported /\ UNCHANGED <<open, call, got, line>>
  BY DEF BackRaw, Seek, Back, Forward, Reported
<1>3. ASSUME pc' = "done", ret' > 0
      PROVE  Abstract!Next
  <2>1. Reported'
    BY <1>2, <1>3 DEF Reported, Done
  <2>2. Abstract!Fail
    BY <1>1, <1>2, <2>1, IsFail
  <2> QED
    BY <2>2 DEF Abstract!Next
<1>4. ASSUME NEW t \in 0..MaxPos, NEW w \in Outcomes(f.fill), NEW r \in ReadOutcomes,
             f' = DoSet(f, t, w, r), ~DoSetFails(f, t, w, r) \/ ~f.dirty, ~Reported'
      PROVE  Abstract!Next
  <2>1. w \in 0..f.fill /\ r \in BOOLEAN
    BY OutcomeFacts, IInvFacts
  <2>2. Keeps(f, f)
    BY DEF Keeps
  <2>3. /\ Keeps(f, f')
        /\ SeenLength(f') \in {KeptLength(f), SeenLength(f), Position(f')}
    BY <1>1, <1>4, <2>1, <2>2, DoSetMoves
  <2>4. Abstract!Move
    BY <1>1, <1>2, <1>4, <2>3, IsMove
  <2> QED
    BY <2>4 DEF Abstract!Next
<1>5. CASE BackRaw
  <2> DEFINE t == Target(f, -call.rsz, 1)
  <2>1. PICK w \in Outcomes(f.fill), r \in ReadOutcomes :
          /\ f' = DoSet(f, t, w, r)
          /\ IF DoSetFails(f, t, w, r) THEN Abort(1) ELSE Finish(0) /\ faults' = faults
    BY <1>5 DEF BackRaw, Seek
  <2>2. t \in 0..MaxPos
    <3>1. call.rsz \in Nat \ {0} /\ Position(f) \in 0..MaxPos /\ MaxPos \in Nat
      BY CallFacts, IInvFacts
    <3> QED
      BY <3>1 DEF Target, MaxOf
  <2> HIDE DEF t
  <2>3. CASE DoSetFails(f, t, w, r)
    BY <1>3, <2>1, <2>3 DEF Abort, Finish
  <2>4. CASE ~DoSetFails(f, t, w, r)
    <3>1. ~Reported'
      BY <2>1, <2>4 DEF Finish, Reported
    <3> QED
      BY <1>4, <2>1, <2>2, <2>4, <3>1
  <2> QED
    BY <2>3, <2>4
<1>6. CASE Back /\ AtBeginning
  <2>1. f' = f /\ ~Reported'
    BY <1>6 DEF Back, Finish, Reported
  <2> QED
    BY <1>2, <2>1, IsStutter
<1>7. CASE Back /\ ~AtBeginning
  <2>1. PICK w \in Outcomes(f.fill), r \in ReadOutcomes :
          /\ f' = Backed(w, r)
          /\ IF BackFails(w, r) THEN Abort(3)
             ELSE /\ pc' = IF pc = "back" \/ f'.buf[f'.next] # EOL THEN "scan" ELSE "forward"
                  /\ UNCHANGED <<ret, faults>>
    BY <1>7 DEF Back
  <2>2. CASE BackFails(w, r)
    BY <1>3, <2>1, <2>2 DEF Abort, Finish
  <2>3. CASE ~BackFails(w, r)
    <3>1. ~Reported'
      BY <2>1, <2>3 DEF Reported
    <3>2. f.next \in 0..f.fill /\ f.fill \in Nat /\ f.offset \in 0..MaxPos /\ MaxPos \in Nat
      BY <1>1, LengthFacts
    <3>3. CASE f.next > 0
      <4>1. f' = [f EXCEPT !.next = f.next - 1] /\ f.next - 1 \in 0..f.fill
        BY <2>1, <3>2, <3>3 DEF Backed
      <4>2. Keeps(f, f') /\ SeenLength(f') = SeenLength(f)
        BY <1>1, <4>1, NextMoves
      <4>3. Abstract!Move
        BY <1>1, <1>2, <3>1, <4>2, IsMove
      <4> QED
        BY <4>3 DEF Abstract!Next
    <3>4. CASE f.next = 0
      <4>1. f.offset - 1 \in 0..MaxPos
        BY <1>7, <3>2, <3>4 DEF AtBeginning
      <4>2. f' = DoSet(f, f.offset - 1, w, r) /\ ~DoSetFails(f, f.offset - 1, w, r)
        BY <2>1, <2>3, <3>4 DEF Backed, BackFails
      <4> QED
        BY <1>4, <3>1, <4>1, <4>2
    <3> QED
      BY <3>2, <3>3, <3>4
  <2> QED
    BY <2>2, <2>3
<1>8. CASE Forward
  <2>1. PICK w \in Outcomes(f.fill), r \in ReadOutcomes : f' = DoSet(f, Position(f) + 1, w, r)
    BY <1>8 DEF Forward
  <2>2. Position(f) + 1 \in 0..MaxPos
    <3>1. Position(f) < MaxPos
      BY <1>8 DEF Forward, IInv, CallInv
    <3> QED
      BY <3>1, IInvFacts
  <2>3. ~DoSetFails(f, Position(f) + 1, w, r) \/ ~f.dirty
    <3>1. CASE f.next < f.fill
      <4>1. f.offset \in Nat /\ f.next \in Nat /\ f.fill \in Nat
        BY IInvFacts
      <4>2. InBuffer(f, Position(f) + 1)
        BY <3>1, <4>1 DEF InBuffer, Position
      <4> QED
        BY <4>2 DEF DoSetFails
    <3>2. CASE ~(f.next < f.fill)
      BY <1>8, <3>2 DEF Forward, Conforms
    <3> QED
      BY <3>1, <3>2
  <2>4. ~Reported'
    BY <1>8 DEF Forward, Finish, Reported
  <2> QED
    BY <1>4, <2>1, <2>2, <2>3, <2>4
<1> QED
  BY <1>5, <1>6, <1>7, <1>8

(* osopen and osclose: a file is emptied, or shows what is stored. *)
LEMMA OpenImplements ==
  ASSUME IInv, IInv', Matches, Conforms, call.op = "open", Open
  PROVE  Abstract!Next
<1>1. Good(f) /\ Good(f') /\ ~f.dirty
  BY OpenFacts, IInvFacts DEF IInv, TypeOK, BufferConsistent, Good, Conforms
<1>2. PICK g \in Garbage, r \in BOOLEAN :
        LET s == Associated(g)
            t == Targeted(s, 2)
        IN  /\ Good(s) /\ s.fill = 0 /\ s.next = 0 /\ s.offset = 0 /\ ~s.dirty
            /\ Good(t) /\ SameBuffer(s, t) /\ EofPos(s) = s.eof /\ s.eof \in 0..MaxPos
            /\ ~r => faults + 1 \in 0..MaxFaults
            /\ DoSetFails(t, EofPos(s), 0, r) => ~r
            /\ IF IoOup /\ call.app
                 THEN /\ f' = DoSet(t, EofPos(s), 0, r)
                      /\ faults' = IF DoSetFails(t, EofPos(s), 0, r) THEN faults + 1 ELSE faults
                 ELSE f' = s /\ faults' = faults
  BY OpenFacts
<1> DEFINE s == Associated(g)
           t == Targeted(s, 2)
<1>3. ~Reported /\ ~Reported' /\ open' /\ UNCHANGED <<call, got, line>>
  BY OpenFacts DEF Reported
<1>4. CASE IoOup /\ ~IoInp /\ ~call.app
  <2>1. f' = s /\ s.fill = 0 /\ s.next = 0 /\ s.offset = 0
    BY <1>2, <1>4
  <2>2. s.eof = 0
    BY <1>1, <1>4 DEF Associated, Good, FileState
  <2> HIDE DEF s
  <2>3. SeenLength(f') = 0 /\ KeptLength(f') = 0 /\ Position(f') = 0
    BY <1>1, <2>1, <2>2, LengthFacts DEF Position
  <2>4. Abstract!Truncate
    BY <1>3, <2>3, IsTruncate
  <2> QED
    BY <2>4 DEF Abstract!Next
<1>5. CASE ~(IoOup /\ ~IoInp /\ ~call.app)
  <2>1. s.eof = f.eof /\ s.data = f.data
    BY <1>1, <1>5 DEF Associated, Good, FileState
  <2>2. /\ Good(s) /\ s.fill = 0 /\ ~s.dirty /\ Good(t) /\ SameBuffer(s, t)
        /\ EofPos(s) \in 0..MaxPos /\ s.offset \in Nat
    BY <1>2, FileBufferAssumption
  <2>3. f' = s \/ f' = DoSet(t, EofPos(s), 0, r)
    BY <1>2
  <2> HIDE DEF s, t
  <2>4. KeptLength(s) = KeptLength(f) /\ SeenLength(s) = KeptLength(f) /\ KeptLength(f) = f.eof
    BY <1>1, <2>1, <2>2, LengthFacts
  <2>5. Keeps(f, s)
    <3> SUFFICES ASSUME NEW i \in 0 .. KeptLength(f) - 1 PROVE ByteAt(s, i) = ByteAt(f, i)
      BY <2>4 DEF Keeps
    <3>1. i \in Positions /\ i < f.eof
      BY <1>1, <2>4, LengthFacts DEF Positions
    <3>2. ByteAt(f, i) = f.data[i]
      BY <1>1, <3>1 DEF ByteAt, Good, Consistent, Coherent
    <3>3. ~InWindow(s, i)
      BY <2>2 DEF InWindow
    <3> QED
      BY <2>1, <3>2, <3>3 DEF ByteAt
  <2>6. Keeps(f, t) /\ SeenLength(t) = KeptLength(f) /\ ~t.dirty /\ 0 \in 0..t.fill
    BY <2>2, <2>4, <2>5, SameBufferKeeps, KeepsTwice DEF SameBuffer
  <2>7. Keeps(f, f') /\ SeenLength(f') \in {KeptLength(f), SeenLength(f), Position(f')}
    <3>1. CASE f' = s
      BY <2>4, <2>5, <3>1
    <3>2. CASE f' = DoSet(t, EofPos(s), 0, r)
      BY <1>1, <2>2, <2>6, <3>2, DoSetMoves
    <3> QED
      BY <2>3, <3>1, <3>2
  <2>8. Abstract!Move
    BY <1>1, <1>3, <2>7, IsMove
  <2> QED
    BY <2>8 DEF Abstract!Next
<1> QED
  BY <1>4, <1>5

LEMMA CloseImplements ==
  ASSUME IInv, IInv', call.op = "endfile", Close
  PROVE  Abstract!Next
<1>1. Good(f) /\ Good(f') /\ line' \in Seq(Byte)
  BY IInvFacts DEF IInv, TypeOK, BufferConsistent, Good
<1>2. PICK w \in Outcomes(f.fill), c \in ReadOutcomes :
        /\ f' = IF IoOup THEN Flush(f, w) ELSE f
        /\ IF ~c \/ (IoOup /\ FlushFails(f, w)) THEN Abort(3) ELSE Finish(0) /\ faults' = faults
  BY DEF Close
<1>3. ~Reported /\ ~open' /\ UNCHANGED <<call, got, line>>
  BY DEF Close, Reported
<1>4. w \in 0..f.fill
  BY OutcomeFacts, IInvFacts
<1>5. CASE ~c \/ (IoOup /\ FlushFails(f, w))
  <2>1. Reported'
    BY <1>2, <1>3, <1>5 DEF Abort, Finish, Reported, Done
  <2>2. Abstract!Fail
    BY <1>1, <1>3, <2>1, IsFail
  <2> QED
    BY <2>2 DEF Abstract!Next
<1>6. CASE ~(~c \/ (IoOup /\ FlushFails(f, w)))
  <2>1. ~Reported'
    BY <1>2, <1>6 DEF Finish, Reported
  <2>2. Keeps(f, f') /\ SeenLength(f') = KeptLength(f)
    <3>1. CASE IoOup
      <4>1. Keeps(f, f') /\ f'.fill = 0
        BY <1>1, <1>2, <1>4, <1>6, <3>1, FlushKeeps, FlushGood
      <4> QED
        BY <1>1, <4>1, LengthFacts DEF Keeps
    <3>2. CASE ~IoOup
      BY <1>1, <1>2, <3>2, InputIsKept DEF Keeps
    <3> QED
      BY <3>1, <3>2
  <2>3. Abstract!Close
    BY <1>1, <1>3, <2>1, <2>2, IsClose
  <2> QED
    BY <2>3 DEF Abstract!Next
<1> QED
  BY <1>5, <1>6

(* A call begins, and returns with its line stored or an error reported. *)
LEMMA BeginImplements ==
  ASSUME IInv, BeginCall
  PROVE  Abstract!Next
<1>1. pc = "idle" /\ pc' # "done" /\ UNCHANGED <<f, open, got, line>>
  BY DEF BeginCall, BeginOpen, BeginInput, BeginOutput, BeginSet, BeginRewind, BeginBackspace,
     BeginEndfile, Begin
<1>2. call'.op \in {"input", "output", "set", "backspace", "rewind", "endfile", "open"}
  BY DEF BeginCall, BeginOpen, BeginInput, BeginOutput, BeginSet, BeginRewind, BeginBackspace,
     BeginEndfile, Begin
<1>3. call.op = "none"
  BY <1>1 DEF IInv, CallInv, NoCall
<1>4. ~Reported /\ ~Reported'
  BY <1>1 DEF Reported
<1>5. Abstract!Call
  BY <1>1, <1>2, <1>3, <1>4, IsCall
<1> QED
  BY <1>5 DEF Abstract!Next

LEMMA ReturnImplements ==
  ASSUME IInv, Matches, Conforms, Return
  PROVE  Abstract!Next
<1>1. pc = "done" /\ call' = NoCall /\ got' = <<>> /\ line' = <<>> /\ UNCHANGED <<f, open>>
      /\ ret \in 0..5 /\ pc' = "idle"
  BY DEF Return, IInv, TypeOK
<1>2. call.op # "none"
  BY <1>1 DEF Matches
<1>3. line = <<>> \/ Reported
  <2>1. CASE call.op # "output" \/ ret = 0
    BY <1>1, <2>1 DEF Conforms, Done
  <2>2. CASE call.op = "output" /\ ret # 0
    BY <1>1, <2>2 DEF Reported, Done
  <2> QED
    BY <2>1, <2>2
<1>4. ~Reported' /\ call'.op = "none"
  BY <1>1 DEF Reported, NoCall
<1>5. Abstract!Return
  BY <1>1, <1>2, <1>3, <1>4, IsReturn
<1> QED
  BY <1>5 DEF Abstract!Next

(* A file begins as the bytes it has on disk. *)
LEMMA InitImplements ==
  ASSUME Init
  PROVE  Abstract!Init
<1>1. PICK s \in Contents, g \in Garbage : f = OnDisk(s, g)
  BY DEF Init
<1>2. Good(f) /\ ~f.dirty /\ open = FALSE /\ call.op = "none" /\ got = <<>> /\ line = <<>>
      /\ f.fill = 0 /\ pc = "idle"
  BY <1>1, InitIInv DEF Init, IInv, TypeOK, BufferConsistent, Good, OnDisk, NoCall
<1>3. KeptLength(f) = SeenLength(f) /\ SeenLength(f) \in Nat
  BY <1>2, LengthFacts
<1>4. Bytes(f) \in [0 .. SeenLength(f) - 1 -> Byte]
  BY <1>2, SeenBytes
<1>5. Reported = FALSE
  BY <1>2 DEF Reported
<1>6. (IF open THEN Position(f) ELSE 0) = 0
  BY <1>2
<1> QED
  BY <1>2, <1>3, <1>4, <1>5, <1>6, View DEF Abstract!Init, Abstract!BytesOf

(* The buffered file is a byte file: no byte is lost, repeated or altered   *)
(* between the program and the file unless a call reports an error, for     *)
(* every buffer size, file, record and sequence of calls and failures.      *)
THEOREM BufferedFileIsByteFile == Spec => ImplementsByteFile
<1>1. Init => Abstract!Init
  BY InitImplements
<1>2. Init => Matches /\ Conforms
  <2>1. Init => ~f.dirty
    <3> SUFFICES ASSUME Init PROVE ~f.dirty
      OBVIOUS
    <3>1. PICK s \in Contents, g \in Garbage : f = OnDisk(s, g)
      BY DEF Init
    <3> QED
      BY <3>1 DEF OnDisk
  <2> QED
    BY <2>1 DEF Init, NoCall, Matches, Conforms, Done
<1>3. IInv /\ Matches /\ Conforms /\ [Next]_vars => (Matches /\ Conforms)'
  <2> SUFFICES ASSUME IInv, Matches, Conforms, [Next]_vars PROVE (Matches /\ Conforms)'
    OBVIOUS
  <2>1. Conforms'
    BY ConformsKept
  <2>2. CASE BeginCall
    BY <2>1, <2>2, BeginsMatch
  <2>3. CASE Step
    BY <2>1, <2>3, StepsMatch
  <2>4. CASE UNCHANGED vars
    BY <2>1, <2>4 DEF vars, Matches
  <2> QED
    BY <2>2, <2>3, <2>4 DEF Next
<1>4. IInv /\ IInv' /\ Matches /\ Conforms /\ [Next]_vars
        => Abstract!Next \/ UNCHANGED Abstract!vars
  <2> SUFFICES ASSUME IInv, IInv', Matches, Conforms, [Next]_vars
               PROVE  Abstract!Next \/ UNCHANGED Abstract!vars
    OBVIOUS
  <2>1. CASE BeginCall
    BY <2>1, BeginImplements
  <2>2. CASE Step
    <3>1. CASE Return
      BY <3>1, ReturnImplements
    <3>2. CASE ~Return
      BY <2>2, <3>2, StepsMatch, KnownOps, ReadImplements, WriteImplements, SeekImplements,
         BackImplements, OpenImplements, CloseImplements
    <3> QED
      BY <3>1, <3>2
  <2>3. CASE UNCHANGED vars
    <3>1. UNCHANGED <<f, open, call, got, line>> /\ (Reported' <=> Reported)
      BY <2>3 DEF vars, Reported, Done
    <3>2. UNCHANGED <<SeenLength(f), KeptLength(f), call.op, got, line>> /\ Bytes(f') = Bytes(f)
      BY <3>1
    <3>3. UNCHANGED (IF open THEN Position(f) ELSE 0)
      BY <3>1
    <3>4. UNCHANGED Reported
      BY <2>3 DEF vars, Reported, Done
    <3> QED
      BY <3>1, <3>2, <3>3, <3>4, View DEF Abstract!vars
  <2> QED
    BY <2>1, <2>2, <2>3 DEF Next
<1> QED
  BY <1>1, <1>2, <1>3, <1>4, InvariantHolds, PTL DEF Spec, ImplementsByteFile, Abstract!Spec

=============================================================================
