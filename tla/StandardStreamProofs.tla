------------------------ MODULE StandardStreamProofs ------------------------
(* Standard input refines InputStream: for every command line, every nesting*)
(* of includes and every file, the steps of StandardFiles serve the records *)
(* of a stack of files.                                                     *)
EXTENDS StandardFilesProofs

-----------------------------------------------------------------------------
(* What the calls on descriptors leave alone.                               *)

(* The descriptors of E are open, and refer to what they did.               *)
Stay(y, x, E) ==
  \A e \in E : e \in Fd /\ x.fds[e] # Closed /\ y.fds[e] = x.fds[e] /\ EntryAt(y, e) = EntryAt(x, e)

(* One after the other, and fewer of them.                                  *)
LEMMA StayCompose ==
  ASSUME NEW x, NEW y, NEW z, NEW E, Stay(y, x, E), Stay(z, y, E)
  PROVE  Stay(z, x, E)
BY DEF Stay

(* Nothing but other globals, or the buffer, has changed.                   *)
LEMMA GlobalsStay ==
  ASSUME NEW x, NEW y, y.fds = x.fds, y.open = x.open, NEW E,
         \A e \in E : e \in Fd /\ x.fds[e] # Closed
  PROVE  Stay(y, x, E)
BY DEF Stay, EntryAt

(* Their files are the same.                                                *)
LEMMA StayFiles ==
  ASSUME NEW x \in Globs, NEW y \in Globs, NEW E, Stay(y, x, E), NEW e \in E
  PROVE  /\ FileAt(y, e) = FileAt(x, e) /\ FileAt(x, e) = EntryAt(x, e).file
         /\ EntryAt(x, e).pos \in Int /\ x.fds[e] \in Opens
<1>1. e \in Fd /\ x.fds[e] # Closed /\ y.fds[e] = x.fds[e] /\ EntryAt(y, e) = EntryAt(x, e)
  BY DEF Stay
<1>2. y.fds[e] # Closed  BY <1>1
<1> QED BY <1>1, <1>2, Fields

(* close of another descriptor, whether it is open or not.                  *)
LEMMA CloseStay ==
  ASSUME NEW x, Tables(x), NEW fd \in Fd, NEW y, y = Close(x, fd), NEW E,
         \A e \in E : e \in Fd /\ e # fd /\ x.fds[e] # Closed
  PROVE  /\ Tables(y) /\ SameVars(y, x) /\ y.buf = x.buf /\ Stay(y, x, E)
         /\ y.fds = [x.fds EXCEPT ![fd] = Closed]
<1>1. CASE x.fds[fd] = Closed
  <2>1. y = x  BY <1>1 DEF Close, IsOpen
  <2>2. x.fds \in [Fd -> 0 .. MaxOpen]  BY DEF Tables, Globs
  <2>3. x.fds = [x.fds EXCEPT ![fd] = Closed]  BY <1>1, <2>2
  <2> QED BY <2>1, <2>3 DEF Stay, SameVars
<1>2. CASE x.fds[fd] # Closed
  <2>1. ClosedAt(y, x, fd)  BY <1>2, CloseTables
  <2>2. x.fds \in [Fd -> 0 .. MaxOpen]  BY DEF Tables, Globs
  <2>3. \A e \in E : y.fds[e] = x.fds[e]  BY <2>1, <2>2 DEF ClosedAt
  <2> QED BY <2>1, <2>3 DEF ClosedAt, Stay
<1> QED BY <1>1, <1>2

(* dup, where there is a free descriptor.                                   *)
LEMMA DupStay ==
  ASSUME NEW x, Tables(x), NEW fd \in Fd, x.fds[fd] # Closed, NEW y, y = Dup(x, fd),
         NEW l, l = LowestFree(x), l \in Fd, x.fds[l] = Closed, NEW E,
         \A e \in E : e \in Fd /\ x.fds[e] # Closed
  PROVE  /\ Tables(y) /\ SameVars(y, x) /\ y.buf = x.buf /\ Stay(y, x, E)
         /\ y.fds = [x.fds EXCEPT ![l] = x.fds[fd]] /\ EntryAt(y, l) = EntryAt(x, fd)
<1>1. DupedAt(y, x, l, fd)  BY DupTables
<1>2. x.fds \in [Fd -> 0 .. MaxOpen]  BY DEF Tables, Globs
<1>3. ASSUME NEW e \in E PROVE y.fds[e] = x.fds[e] /\ EntryAt(y, e) = EntryAt(x, e)
  <2>1. e \in Fd /\ x.fds[e] # Closed /\ e # l  BY <1>3
  <2> QED BY <1>1, <1>2, <2>1 DEF DupedAt
<1> QED BY <1>1, <1>3 DEF DupedAt, Stay

(* open, where there is a free descriptor and a free entry.                 *)
LEMMA OpenStay ==
  ASSUME NEW x, Tables(x), NEW f \in FileSet \ {NoFile}, NEW y, y = OpenFile(x, f),
         NEW l, l = LowestFree(x), l \in Fd, x.fds[l] = Closed,
         \E i \in Opens : x.open[i].file = NoFile, NEW E,
         \A e \in E : e \in Fd /\ x.fds[e] # Closed
  PROVE  /\ Tables(y) /\ SameVars(y, x) /\ y.buf = x.buf /\ Stay(y, x, E)
         /\ \E o \in Opens : y.fds = [x.fds EXCEPT ![l] = o] /\ \A e \in Fd : x.fds[e] # o
         /\ EntryAt(y, l) = [file |-> f, pos |-> 0]
<1>1. OpenedAt(y, x, l, f)  BY OpenTables
<1>2. x.fds \in [Fd -> 0 .. MaxOpen]  BY DEF Tables, Globs
<1>3. PICK o \in Opens : y.fds = [x.fds EXCEPT ![l] = o] /\ \A e \in Fd : x.fds[e] # o
  BY <1>1 DEF OpenedAt
<1>4. ASSUME NEW e \in E PROVE y.fds[e] = x.fds[e] /\ EntryAt(y, e) = EntryAt(x, e)
  <2>1. e \in Fd /\ x.fds[e] # Closed /\ e # l  BY <1>4
  <2> QED BY <1>1, <1>2, <1>3, <2>1 DEF OpenedAt
<1> QED BY <1>1, <1>4 DEF OpenedAt, Stay

-----------------------------------------------------------------------------
(* What the operations on the buffer do.                                    *)

(* Descriptor 0 is at q, and nothing else of the tables has changed.        *)
Moved(y, x, q) == Reads(y, x) /\ y.open = [x.open EXCEPT ![x.fds[0]].pos = q]

(* The entries afterwards.                                                  *)
LEMMA MovedEntries ==
  ASSUME NEW x \in Globs, x.fds[0] # Closed, NEW q \in Int, NEW y, Moved(y, x, q)
  PROVE  /\ y \in Globs /\ y.fds = x.fds /\ SameVars(y, x)
         /\ EntryAt(y, 0).pos = q /\ EntryAt(y, 0).file = EntryAt(x, 0).file
         /\ \A e \in Fd : x.fds[e] = x.fds[0] => EntryAt(y, e).pos = q
         /\ \A e \in Fd : x.fds[e] # x.fds[0] /\ x.fds[e] # Closed => EntryAt(y, e) = EntryAt(x, e)
<1>1. /\ y \in Globs /\ y.fds = x.fds /\ SameVars(y, x)
      /\ y.open = [x.open EXCEPT ![x.fds[0]].pos = q]
  BY DEF Moved, Reads
<1>2. x.open \in [Opens -> Entry] /\ x.fds[0] \in Opens  BY Fields, Numbers
<1>3. y.open[x.fds[0]].pos = q /\ y.open[x.fds[0]].file = x.open[x.fds[0]].file
  BY <1>1, <1>2 DEF Entry
<1>4. \A o \in Opens : o # x.fds[0] => y.open[o] = x.open[o]  BY <1>1, <1>2
<1>5. \A e \in Fd : x.fds[e] # Closed => x.fds[e] \in Opens  BY Fields
<1> QED BY <1>1, <1>3, <1>4, <1>5 DEF EntryAt

(* The descriptor is moved, then moved again.                               *)
LEMMA MovedTwice ==
  ASSUME NEW x \in Globs, x.fds[0] # Closed, NEW p \in Int, NEW q \in Int, NEW y, NEW z,
         Moved(y, x, p), Moved(z, y, q)
  PROVE  Moved(z, x, q)
<1>1. /\ Reads(z, x) /\ y.fds = x.fds /\ y.open = [x.open EXCEPT ![x.fds[0]].pos = p]
      /\ z.open = [y.open EXCEPT ![x.fds[0]].pos = q]
  BY ReadsCompose DEF Moved, Reads
<1>2. x.open \in [Opens -> Entry] /\ x.fds[0] \in Opens  BY Fields, Numbers
<1>3. z.open = [x.open EXCEPT ![x.fds[0]].pos = q]  BY <1>1, <1>2 DEF Entry
<1> QED BY <1>1, <1>3 DEF Moved

(* The descriptor is where it was.                                          *)
LEMMA Unmoved ==
  ASSUME NEW x \in Globs, x.fds[0] # Closed, NEW y, Reads(y, x), y.open = x.open
  PROVE  Moved(y, x, EntryAt(x, 0).pos) /\ EntryAt(x, 0).pos \in Int
<1>1. x.open \in [Opens -> Entry] /\ x.fds[0] \in Opens  BY Fields, Numbers
<1>2. x.open = [x.open EXCEPT ![x.fds[0]].pos = EntryAt(x, 0).pos]
  BY <1>1 DEF Entry, EntryAt
<1>3. EntryAt(x, 0).pos \in Int  BY <1>1 DEF Entry, EntryAt
<1> QED BY <1>2, <1>3 DEF Moved

(* LSEEK.                                                                   *)
LEMMA SeekMoves ==
  ASSUME NEW x \in Globs, x.fds[0] # Closed, NEW p \in Int, NEW y, y = Seek0(x, p)
  PROVE  Moved(y, x, p) /\ y.buf = [x.buf EXCEPT !.curpos = p]
<1>1. Reads(y, x)  BY SeekReads
<1>2. x.buf \in Buffer /\ x \in Globs  BY Fields
<1>3. y.open = [x.open EXCEPT ![x.fds[0]].pos = p] /\ y.buf = [x.buf EXCEPT !.curpos = p]
  BY <1>2 DEF Seek0, Globs
<1> QED BY <1>1, <1>3 DEF Moved

(* fillbuf: n records from p on, and the buffer's position c + n.           *)
Filled(y, x, n, p, c) ==
  /\ n <= BufRecs
  /\ n > 0 => p + n <= Len(TextOf(FileAt(x, 0)))
  /\ n < BufRecs => p + n >= Len(TextOf(FileAt(x, 0)))
  /\ Moved(y, x, p + n)
  /\ y.buf.offset = x.buf.offset /\ y.buf.curpos = c + n /\ y.buf.fill = n /\ y.buf.next = 0
  /\ n > 0 => y.buf.file = FileAt(x, 0) /\ y.buf.at = p

(* A file that can seek is read at the buffer's offset, and a pipe where it is. *)
LEMMA FillResult ==
  ASSUME NEW x \in Globs, x.fds[0] # Closed, NEW y, y = FillBuf(x), NEW p \in Int, NEW c \in Int,
         IF FileAt(x, 0) \notin Pipes /\ x.buf.offset # x.buf.curpos
           THEN p = x.buf.offset /\ c = x.buf.offset
           ELSE p = EntryAt(x, 0).pos /\ c = x.buf.curpos
  PROVE  \E n \in Nat : Filled(y, x, n, p, c)
<1> DEFINE f == FileAt(x, 0)
           L == Len(TextOf(f))
           m == Min({BufRecs, L - p})
           n == Max({0, m})
<1>1. PICK t : t = Sync(x)  OBVIOUS
<1>2. /\ Moved(t, x, p) /\ t.buf.curpos = c /\ t.buf.offset = x.buf.offset
  <2>1. CASE FileAt(x, 0) \notin Pipes /\ x.buf.offset # x.buf.curpos
    <3>1. CanSeek(x, 0)  BY <2>1, Fields, Numbers DEF CanSeek
    <3>2. t = Seek0(x, x.buf.offset) /\ p = x.buf.offset /\ c = x.buf.offset
      BY <1>1, <2>1, <3>1 DEF Sync
    <3>3. Moved(t, x, p) /\ t.buf = [x.buf EXCEPT !.curpos = p]  BY <3>2, SeekMoves
    <3>4. x.buf \in Buffer  BY Fields
    <3> QED BY <3>2, <3>3, <3>4 DEF Buffer
  <2>2. CASE ~(FileAt(x, 0) \notin Pipes /\ x.buf.offset # x.buf.curpos)
    <3>1. t = x /\ p = EntryAt(x, 0).pos /\ c = x.buf.curpos
      BY <1>1, <2>2 DEF Sync, CanSeek
    <3>2. Reads(x, x)  BY DEF Reads, SameVars
    <3> QED BY <3>1, <3>2, Unmoved
  <2> QED BY <2>1, <2>2
<1>3. /\ t \in Globs /\ t.fds = x.fds /\ EntryAt(t, 0).pos = p /\ IsOpen(t, 0)
      /\ FileAt(t, 0) = f /\ f \in FileSet
  <2>1. t \in Globs /\ t.fds = x.fds /\ EntryAt(t, 0).pos = p
        /\ EntryAt(t, 0).file = EntryAt(x, 0).file
    BY <1>2, MovedEntries
  <2>2. IsOpen(t, 0) /\ FileAt(t, 0) = EntryAt(t, 0).file  BY <2>1, Fields, Numbers
  <2>3. FileAt(x, 0) = EntryAt(x, 0).file /\ FileAt(x, 0) \in FileSet  BY Fields, Numbers
  <2> QED BY <2>1, <2>2, <2>3
<1>4. L \in Nat  BY TextLength
<1>5. BufRecs \in Nat \ {0}  BY StandardFilesAssumption
<1> DEFINE b == Empty(t.buf.offset, t.buf.curpos)
           d == [offset |-> t.buf.offset, curpos |-> t.buf.curpos + n, fill |-> n,
                 next |-> 0, file |-> f, at |-> p]
<1>6. y = IF n = 0 THEN [t EXCEPT !.buf = b]
          ELSE [t EXCEPT !.buf = d, !.open[t.fds[0]].pos = p + n]
  <2>1. (IF IsOpen(t, 0) THEN t.open[t.fds[0]].pos ELSE 0) = p  BY <1>3 DEF EntryAt
  <2> QED BY <1>1, <1>3, <2>1, Zenon DEF FillBuf
<1> HIDE DEF L, f
<1>7. m \in Int /\ m = IF BufRecs <= L - p THEN BufRecs ELSE L - p
  BY <1>4, <1>5, MinOfTwo
<1> HIDE DEF m
<1>8. n \in Int /\ n = IF 0 >= m THEN 0 ELSE m  BY <1>7, MaxOfTwo
<1> HIDE DEF n
<1>9. n \in Nat /\ n <= BufRecs /\ (n > 0 => p + n <= L) /\ (n < BufRecs => p + n >= L)
  BY <1>4, <1>5, <1>7, <1>8
<1>10. CASE n = 0
  <2>1. y = [t EXCEPT !.buf = b]  BY <1>6, <1>10
  <2>2. t.buf.offset \in Int /\ t.buf.curpos \in Int  BY <1>3, Fields
  <2>3. b \in Buffer /\ b.offset = t.buf.offset /\ b.curpos = t.buf.curpos /\ b.fill = 0 /\ b.next = 0
    BY <2>2, EmptyBuffer DEF Empty
  <2> HIDE DEF b
  <2>4. Reads(y, t) /\ y.open = t.open /\ y.buf = b
    BY <1>3, <2>1, <2>3 DEF Reads, Globs, SameVars
  <2>5. Moved(y, x, p)
    <3>1. Reads(y, x)  BY <1>2, <2>4, ReadsCompose DEF Moved
    <3> QED BY <1>2, <2>4, <3>1 DEF Moved
  <2>6. p + n = p /\ c + n = c  BY <1>10
  <2> QED BY <1>2, <1>9, <1>10, <2>3, <2>4, <2>5, <2>6 DEF Filled, L, f
<1>11. CASE n # 0
  <2>1. y = [t EXCEPT !.buf = d, !.open[t.fds[0]].pos = p + n]  BY <1>6, <1>11
  <2>2. /\ t.buf.offset \in Int /\ t.buf.curpos + n \in Int /\ p + n \in Int  BY <1>3, <1>8, Fields
  <2>3. /\ d \in Buffer /\ d.offset = t.buf.offset /\ d.curpos = t.buf.curpos + n /\ d.fill = n
        /\ d.next = 0 /\ d.file = f /\ d.at = p
    BY <1>3, <1>8, <2>2 DEF Buffer
  <2> HIDE DEF d
  <2>4. PICK q \in Int : q = p + n  BY <2>2
  <2>5. t.fds[0] # Closed  BY <1>3
  <2>6. y = [t EXCEPT !.open[t.fds[0]].pos = q, !.buf = d]
    BY <1>3, <2>1, <2>4 DEF Globs
  <2>7. Reads(y, t)  BY <1>3, <2>3, <2>5, <2>6, PositionReads
  <2>8. y.open = [t.open EXCEPT ![t.fds[0]].pos = q] /\ y.buf = d  BY <1>3, <2>6 DEF Globs
  <2>9. Moved(y, t, q)  BY <2>7, <2>8 DEF Moved
  <2>10. Moved(y, x, q)  BY <1>2, <2>9, MovedTwice
  <2> QED BY <1>2, <1>9, <1>11, <2>3, <2>4, <2>8, <2>10 DEF Filled, L, f
<1> QED BY <1>10, <1>11

(* The records of a file.                                                   *)
Size(f) == Len(TextOf(f))

(* The buffer of a file that can seek: the next record is at its position,  *)
(* and the descriptor is at curpos when that is known.                      *)
AtOffset(x, f) ==
  /\ x.buf.offset + x.buf.fill <= Size(f)
  /\ x.buf.curpos # -1 => EntryAt(x, 0).pos = x.buf.curpos /\ x.buf.curpos \in 0 .. Size(f)
  /\ x.buf.fill > 0 => x.buf.at = x.buf.offset /\ x.buf.curpos = x.buf.offset + x.buf.fill

(* That of a pipe: what it holds, and what is left to read, comes after the *)
(* record g.                                                                *)
After(x, g) ==
  /\ g <= EntryAt(x, 0).pos
  /\ x.buf.fill > 0 => g <= x.buf.at + x.buf.next /\ x.buf.at + x.buf.fill <= EntryAt(x, 0).pos

(* The buffer and descriptor 0 agree; k are the pipes.                      *)
Buffered(x, k, g) ==
  /\ x.buf.offset \in Nat /\ x.buf.fill \in Nat /\ x.buf.next \in 0 .. x.buf.fill
  /\ x.buf.fill > 0 =>
       /\ x.buf.file = FileAt(x, 0) /\ x.buf.at \in Nat
       /\ x.buf.at + x.buf.fill <= Size(FileAt(x, 0))
  /\ IF FileAt(x, 0) \in k THEN After(x, g) ELSE AtOffset(x, FileAt(x, 0))

(* Where, for any state of the globals.                                     *)
WhereIn(x) ==
  IF x.buf.next < x.buf.fill THEN x.buf.at + x.buf.next
  ELSE IF x.buf.offset + x.buf.fill # x.buf.curpos THEN x.buf.offset + x.buf.fill
  ELSE EntryAt(x, 0).pos

(* It is the buffer's position, as zysif takes it to be.                    *)
LEMMA PositionIsWhere ==
  ASSUME NEW x, NEW k, NEW g, Buffered(x, k, g), FileAt(x, 0) \notin k
  PROVE  WhereIn(x) = Position(x) /\ Position(x) \in 0 .. Size(FileAt(x, 0))
<1>1. /\ x.buf.offset \in Nat /\ x.buf.fill \in Nat /\ x.buf.next \in 0 .. x.buf.fill
      /\ x.buf.fill > 0 => x.buf.at \in Nat
      /\ AtOffset(x, FileAt(x, 0))
  BY DEF Buffered
<1>2. Size(FileAt(x, 0)) \in Nat  BY TextLength DEF Size
<1> QED BY <1>1, <1>2 DEF AtOffset, WhereIn, Position

(* A buffer after fillbuf agrees with its descriptor.                       *)
LEMMA FilledAgrees ==
  ASSUME NEW x \in Globs, x.fds[0] # Closed, x.buf.offset \in Nat, NEW k, NEW g \in Nat,
         NEW n \in Nat, NEW p \in Nat, NEW c \in Int, NEW y, Filled(y, x, n, p, c),
         FileAt(x, 0) \in k => g <= p,
         FileAt(x, 0) \notin k => p = x.buf.offset /\ c = p /\ p <= Size(FileAt(x, 0))
  PROVE  /\ Buffered(y, k, g) /\ Position(y) = x.buf.offset /\ FileAt(y, 0) = FileAt(x, 0)
         /\ n = 0 /\ FileAt(x, 0) \notin k => p = Size(FileAt(x, 0))
<1>1. y \in Globs /\ y.fds = x.fds /\ EntryAt(y, 0).pos = p + n
      /\ EntryAt(y, 0).file = EntryAt(x, 0).file
  <2>1. p + n \in Int /\ Moved(y, x, p + n)  BY DEF Filled
  <2> QED BY <2>1, MovedEntries
<1>2. FileAt(y, 0) = FileAt(x, 0)
  <2>1. y.fds[0] # Closed  BY <1>1
  <2> QED BY <1>1, <2>1, Fields, Numbers
<1>3. PICK L \in Nat : L = Size(FileAt(x, 0))  BY TextLength DEF Size
<1>4. BufRecs \in Nat \ {0}  BY StandardFilesAssumption
<1>5. /\ n <= BufRecs /\ (n > 0 => p + n <= L) /\ (n < BufRecs => p + n >= L)
      /\ y.buf.offset = x.buf.offset /\ y.buf.curpos = c + n /\ y.buf.fill = n /\ y.buf.next = 0
      /\ n > 0 => y.buf.file = FileAt(x, 0) /\ y.buf.at = p
  BY <1>3 DEF Filled, Size
<1>6. Position(y) = x.buf.offset  BY <1>5 DEF Position
<1>7. n = 0 /\ FileAt(x, 0) \notin k => p = L  BY <1>3, <1>4, <1>5
<1>8. CASE FileAt(x, 0) \in k
  <2>1. After(y, g)  BY <1>1, <1>5, <1>8 DEF After
  <2> QED BY <1>2, <1>3, <1>5, <1>6, <1>8, <2>1 DEF Buffered
<1>9. CASE FileAt(x, 0) \notin k
  <2>1. AtOffset(y, FileAt(x, 0))  BY <1>1, <1>3, <1>5, <1>9 DEF AtOffset
  <2> QED BY <1>2, <1>3, <1>5, <1>6, <1>7, <1>9, <2>1 DEF Buffered
<1> QED BY <1>8, <1>9

(* The next buffer.                                                         *)
LEMMA EmptiedResult ==
  ASSUME NEW x \in Globs, x.fds[0] # Closed, NEW y, y = Emptied(x)
  PROVE  /\ y \in Globs /\ y.fds = x.fds /\ y.open = x.open /\ Reads(y, x)
         /\ EntryAt(y, 0) = EntryAt(x, 0) /\ FileAt(y, 0) = FileAt(x, 0)
         /\ y.buf.offset = x.buf.offset + x.buf.fill /\ y.buf.curpos = x.buf.curpos
         /\ y.buf.fill = 0 /\ y.buf.next = 0
<1>1. Reads(y, x) /\ y.open = x.open  BY EmptiedReads
<1>2. y \in Globs /\ y.fds = x.fds  BY <1>1 DEF Reads
<1>3. y.buf = Empty(x.buf.offset + x.buf.fill, x.buf.curpos)  BY DEF Emptied, Globs
<1> QED BY <1>1, <1>2, <1>3 DEF Empty, EntryAt, FileAt, IsOpen

(* A record is ready, or the file is at its end.                            *)
LEMMA ReadyResult ==
  ASSUME NEW x \in Globs, x.fds[0] # Closed, NEW g \in Nat, Buffered(x, Pipes, g),
         NEW y, y = Ready(x)
  PROVE  /\ Buffered(y, Pipes, g) /\ FileAt(y, 0) = FileAt(x, 0)
         /\ \E q \in Int : Moved(y, x, q) /\ EntryAt(x, 0).pos \in Int
                           /\ (FileAt(x, 0) \in Pipes => EntryAt(x, 0).pos <= q)
         /\ FileAt(x, 0) \notin Pipes => Position(y) = Position(x)
         /\ AtEof(y) /\ FileAt(x, 0) \notin Pipes => Position(x) = Size(FileAt(x, 0))
<1> DEFINE f == FileAt(x, 0)
<1>1. /\ x.buf.offset \in Nat /\ x.buf.fill \in Nat /\ x.buf.next \in 0 .. x.buf.fill
      /\ f \in Pipes => After(x, g)
      /\ f \notin Pipes => AtOffset(x, f)
      /\ x.buf.curpos \in Int /\ EntryAt(x, 0).pos \in Int
  BY Fields, Numbers DEF Buffered
<1>2. CASE x.buf.next < x.buf.fill
  <2>1. y = x  BY <1>2 DEF Ready
  <2>2. Moved(x, x, EntryAt(x, 0).pos)
    <3>1. Reads(x, x)  BY DEF Reads, SameVars
    <3> QED BY <3>1, Unmoved
  <2>3. ~AtEof(y)  BY <1>1, <1>2, <2>1 DEF AtEof
  <2>4. EntryAt(x, 0).pos <= EntryAt(x, 0).pos  BY <1>1
  <2> QED BY <1>1, <2>1, <2>2, <2>3, <2>4
<1>3. CASE ~(x.buf.next < x.buf.fill)
  <2>0. x.buf.next = x.buf.fill  BY <1>1, <1>3
  <2>1. PICK e : e = Emptied(x)  OBVIOUS
  <2>2. y = FillBuf(e)  BY <1>3, <2>1 DEF Ready
  <2>3. /\ e \in Globs /\ e.fds = x.fds /\ e.open = x.open /\ Reads(e, x)
        /\ EntryAt(e, 0) = EntryAt(x, 0) /\ FileAt(e, 0) = f
        /\ e.buf.offset = x.buf.offset + x.buf.fill /\ e.buf.curpos = x.buf.curpos
    BY <2>1, EmptiedResult
  <2>4. e.fds[0] # Closed  BY <2>3
  <2>5. PICK p, c \in Int :
          IF FileAt(e, 0) \notin Pipes /\ e.buf.offset # e.buf.curpos
            THEN p = e.buf.offset /\ c = e.buf.offset
            ELSE p = EntryAt(e, 0).pos /\ c = e.buf.curpos
    <3>1. e.buf.offset \in Int /\ EntryAt(e, 0).pos \in Int /\ e.buf.curpos \in Int
      BY <1>1, <2>3
    <3> QED BY <3>1
  <2>6. PICK n \in Nat : Filled(y, e, n, p, c)  BY <2>2, <2>3, <2>4, <2>5, FillResult
  <2>7. e.buf.offset = Position(x) /\ e.buf.offset \in Nat
    BY <1>1, <2>0, <2>3 DEF Position
  <2>8. /\ p \in Nat /\ (f \in Pipes => g <= p /\ p = EntryAt(x, 0).pos)
        /\ f \notin Pipes => p = e.buf.offset /\ c = p /\ p <= Size(f)
    <3>1. CASE f \in Pipes
      <4>1. p = EntryAt(x, 0).pos /\ g <= p  BY <1>1, <2>3, <2>5, <3>1 DEF After
      <4> QED BY <1>1, <3>1, <4>1
    <3>2. CASE f \notin Pipes
      <4>1. AtOffset(x, f) /\ Size(f) \in Nat  BY <1>1, <3>2, TextLength DEF Size
      <4> QED BY <1>1, <2>3, <2>5, <2>7, <3>2, <4>1 DEF AtOffset
    <3> QED BY <3>1, <3>2
  <2>9. /\ Buffered(y, Pipes, g) /\ Position(y) = e.buf.offset /\ FileAt(y, 0) = f
        /\ n = 0 /\ f \notin Pipes => p = Size(f)
    BY <2>3, <2>4, <2>6, <2>7, <2>8, FilledAgrees
  <2>10. PICK q \in Int : q = p + n  BY <2>8
  <2>11. Moved(y, x, q) /\ (f \in Pipes => EntryAt(x, 0).pos <= q)
    <3>1. Moved(y, e, q)  BY <2>6, <2>10 DEF Filled
    <3>2. Reads(y, x)  BY <2>3, <3>1, ReadsCompose DEF Moved
    <3> QED BY <2>3, <2>8, <2>10, <3>1, <3>2 DEF Moved
  <2>12. AtEof(y) => n = 0  BY <2>6 DEF AtEof, Filled
  <2> QED BY <1>1, <2>7, <2>8, <2>9, <2>11, <2>12
<1> QED BY <1>2, <1>3

(* The buffer has changed, and nothing else.                                *)
BufferOnly(y, x, b) == Reads(y, x) /\ y.open = x.open /\ y.buf = b

(* It is another one.                                                       *)
LEMMA BufferChange ==
  ASSUME NEW x \in Globs, NEW b \in Buffer, NEW y, y = [x EXCEPT !.buf = b]
  PROVE  BufferOnly(y, x, b)
BY DEF BufferOnly, Reads, Globs, SameVars

(* Or one field of it has changed.                                          *)
LEMMA NextChange ==
  ASSUME NEW x \in Globs, NEW k \in Int, NEW y, y = [x EXCEPT !.buf.next = k]
  PROVE  BufferOnly(y, x, [x.buf EXCEPT !.next = k])
<1>1. [x.buf EXCEPT !.next = k] \in Buffer  BY Fields DEF Buffer
<1>2. y = [x EXCEPT !.buf = [x.buf EXCEPT !.next = k]]  BY DEF Globs
<1> QED BY <1>1, <1>2, BufferChange

(* Its place in the file.                                                   *)
LEMMA OffsetChange ==
  ASSUME NEW x \in Globs, NEW k \in Int, NEW y, y = [x EXCEPT !.buf.offset = k]
  PROVE  BufferOnly(y, x, [x.buf EXCEPT !.offset = k])
<1>1. [x.buf EXCEPT !.offset = k] \in Buffer  BY Fields DEF Buffer
<1>2. y = [x EXCEPT !.buf = [x.buf EXCEPT !.offset = k]]  BY DEF Globs
<1> QED BY <1>1, <1>2, BufferChange

(* What it takes the descriptor's to be.                                    *)
LEMMA CurposChange ==
  ASSUME NEW x \in Globs, NEW k \in Int, NEW y, y = [x EXCEPT !.buf.curpos = k]
  PROVE  BufferOnly(y, x, [x.buf EXCEPT !.curpos = k])
<1>1. [x.buf EXCEPT !.curpos = k] \in Buffer  BY Fields DEF Buffer
<1>2. y = [x EXCEPT !.buf = [x.buf EXCEPT !.curpos = k]]  BY DEF Globs
<1> QED BY <1>1, <1>2, BufferChange

(* The file on descriptor 0 is the same.                                    *)
LEMMA SameFile ==
  ASSUME NEW x \in Globs, x.fds[0] # Closed, NEW y, Reads(y, x)
  PROVE  FileAt(y, 0) = FileAt(x, 0) /\ y \in Globs /\ y.fds = x.fds /\ y.fds[0] # Closed
<1>1. y \in Globs /\ y.fds = x.fds /\ \A o \in Opens : y.open[o].file = x.open[o].file
  BY DEF Reads
<1>2. y.fds[0] # Closed /\ x.fds[0] \in Opens  BY <1>1, Fields, Numbers
<1>3. FileAt(y, 0) = EntryAt(y, 0).file /\ FileAt(x, 0) = EntryAt(x, 0).file
  BY <1>1, <1>2, Fields, Numbers
<1> QED BY <1>1, <1>2, <1>3 DEF EntryAt

(* The record that is taken, and the buffer afterwards; a pipe's are gone.  *)
LEMMA TakenResult ==
  ASSUME NEW x \in Globs, x.fds[0] # Closed, NEW k, NEW g \in Nat, Buffered(x, k, g), ~AtEof(x),
         NEW y, y = Taken(x), NEW h, h = IF FileAt(x, 0) \in k THEN Current(x)[2] ELSE g
  PROVE  /\ Reads(y, x) /\ y.open = x.open
         /\ Current(x)[1] = FileAt(x, 0) /\ Current(x)[2] \in 1 .. Size(FileAt(x, 0))
         /\ Current(x) = <<FileAt(x, 0), Current(x)[2]>>
         /\ FileAt(x, 0) \in k => g < Current(x)[2]
         /\ FileAt(x, 0) \notin k => /\ Current(x)[2] = Position(x) + 1
                                     /\ Position(y) = Position(x) + 1
         /\ Buffered(y, k, h) /\ h \in Nat
<1> DEFINE f == FileAt(x, 0)
<1>1. /\ x.buf.offset \in Nat /\ x.buf.fill \in Nat /\ x.buf.next \in 0 .. x.buf.fill
      /\ x.buf.fill > 0 => x.buf.file = f /\ x.buf.at \in Nat /\ x.buf.at + x.buf.fill <= Size(f)
      /\ f \in k => After(x, g)
      /\ f \notin k => AtOffset(x, f)
  BY DEF Buffered
<1>2. x.buf.next < x.buf.fill /\ x.buf.fill > 0  BY <1>1 DEF AtEof
<1>3. Size(f) \in Nat  BY TextLength DEF Size
<1>4. PICK n \in Nat : n = x.buf.next + 1  BY <1>1
<1>5. PICK c \in Nat : c = x.buf.at + x.buf.next + 1  BY <1>1, <1>2
<1>6. Current(x) = <<f, c>> /\ Current(x)[1] = f /\ Current(x)[2] = c /\ c \in 1 .. Size(f)
  BY <1>1, <1>2, <1>3, <1>5 DEF Current
<1>7. y = [x EXCEPT !.buf.next = n]  BY <1>4 DEF Taken, Globs
<1>8. Reads(y, x) /\ y.open = x.open /\ y.buf = [x.buf EXCEPT !.next = n]
  <2>1. n \in Int  BY <1>4
  <2>2. BufferOnly(y, x, [x.buf EXCEPT !.next = n])  BY <1>7, <2>1, NextChange
  <2> QED BY <2>2 DEF BufferOnly
<1>9. /\ y.buf.offset = x.buf.offset /\ y.buf.fill = x.buf.fill /\ y.buf.next = n
      /\ y.buf.curpos = x.buf.curpos /\ y.buf.file = x.buf.file /\ y.buf.at = x.buf.at
  BY <1>8, Fields DEF Buffer
<1>10. FileAt(y, 0) = f /\ EntryAt(y, 0) = EntryAt(x, 0)
  BY <1>8, SameFile DEF EntryAt
<1>11. n <= x.buf.fill /\ EntryAt(x, 0).pos \in Int /\ x.buf.curpos \in Int
  BY <1>1, <1>2, <1>4, Fields, Numbers
<1>12. CASE f \in k
  <2>1. h = c /\ g < c /\ c <= EntryAt(x, 0).pos /\ x.buf.at + n = c
    BY <1>1, <1>2, <1>4, <1>5, <1>6, <1>11, <1>12 DEF After
  <2>2. After(y, h)
    BY <1>1, <1>2, <1>9, <1>10, <1>11, <1>12, <2>1 DEF After
  <2>3. Buffered(y, k, h)  BY <1>1, <1>9, <1>10, <1>11, <1>12, <2>2 DEF Buffered
  <2> QED BY <1>6, <1>8, <1>12, <2>1, <2>3
<1>13. CASE f \notin k
  <2>1. AtOffset(y, f)  BY <1>1, <1>9, <1>10, <1>13 DEF AtOffset
  <2>2. Buffered(y, k, h)  BY <1>1, <1>9, <1>10, <1>11, <1>13, <2>1 DEF Buffered
  <2>3. c = Position(x) + 1 /\ Position(y) = Position(x) + 1
    BY <1>1, <1>2, <1>4, <1>5, <1>9, <1>13 DEF AtOffset, Position
  <2> QED BY <1>6, <1>8, <1>13, <2>2, <2>3
<1> QED BY <1>12, <1>13

(* doset moves nothing but descriptor 0.                                    *)
LEMMA SetToMoves ==
  ASSUME NEW x \in Globs, x.fds[0] # Closed, NEW p \in Int, NEW y, y = SetTo(x, p)
  PROVE  \E q \in Int : Moved(y, x, q)
<1> DEFINE n == (p \div BufRecs) * BufRecs
           d == p - x.buf.offset
<1>1. n \in Int /\ d \in Int  BY Fields, StandardFilesAssumption
<1>2. PICK e : e = Emptied(x)  OBVIOUS
<1>3. /\ e \in Globs /\ e.fds = x.fds /\ e.open = x.open /\ Reads(e, x) /\ e.fds[0] # Closed
  BY <1>2, EmptiedResult
<1>4. PICK t : t = IF n = e.buf.curpos THEN [e EXCEPT !.buf.offset = n]
                   ELSE [Seek0(e, n) EXCEPT !.buf.offset = n]
  OBVIOUS
<1>5. PICK f : f = FillBuf(t)  OBVIOUS
<1>6. PICK m : m = Min({p - f.buf.offset, f.buf.fill})  OBVIOUS
<1>7. \/ y = [x EXCEPT !.buf.next = d]
      \/ y = e
      \/ y = [f EXCEPT !.buf.next = m]
  BY <1>2, <1>4, <1>5, <1>6, Zenon DEF SetTo
<1> HIDE DEF n, d
<1>8. CASE y = [x EXCEPT !.buf.next = d]
  <2>1. Reads(y, x) /\ y.open = x.open  BY <1>1, <1>8, NextChange DEF BufferOnly
  <2> QED BY <2>1, Unmoved
<1>9. CASE y = e
  BY <1>3, <1>9, Unmoved
<1>10. CASE y = [f EXCEPT !.buf.next = m]
  <2>1. PICK p1 \in Int : Moved(t, x, p1)
    <3>1. CASE n = e.buf.curpos
      <4>0. t = [e EXCEPT !.buf.offset = n]  BY <1>4, <3>1
      <4>1. Reads(t, e) /\ t.open = e.open  BY <1>1, <1>3, <4>0, OffsetChange DEF BufferOnly
      <4>2. Reads(t, x) /\ t.open = x.open  BY <1>3, <4>1, ReadsCompose
      <4> QED BY <4>2, Unmoved
    <3>2. CASE n # e.buf.curpos
      <4>1. PICK u : u = Seek0(e, n)  OBVIOUS
      <4>2. Moved(u, e, n)  BY <1>1, <1>3, <4>1, SeekMoves
      <4>3. u \in Globs  BY <4>2 DEF Moved, Reads
      <4>0. t = [u EXCEPT !.buf.offset = n]  BY <1>4, <3>2, <4>1
      <4>4. Reads(t, u) /\ t.open = u.open  BY <1>1, <4>0, <4>3, OffsetChange DEF BufferOnly
      <4>5. Reads(t, x)  BY <1>3, <4>2, <4>4, ReadsCompose DEF Moved
      <4>6. t.open = [x.open EXCEPT ![x.fds[0]].pos = n]  BY <1>3, <4>2, <4>4 DEF Moved
      <4> QED BY <1>1, <4>5, <4>6 DEF Moved
    <3> QED BY <3>1, <3>2
  <2>2. t \in Globs /\ t.fds = x.fds  BY <2>1 DEF Moved, Reads
  <2>3. PICK r, c \in Int :
          IF FileAt(t, 0) \notin Pipes /\ t.buf.offset # t.buf.curpos
            THEN r = t.buf.offset /\ c = t.buf.offset
            ELSE r = EntryAt(t, 0).pos /\ c = t.buf.curpos
    <3>1. t.fds[0] # Closed  BY <2>2
    <3>2. t.buf.offset \in Int /\ EntryAt(t, 0).pos \in Int /\ t.buf.curpos \in Int
      BY <2>2, <3>1, Fields, Numbers
    <3> QED BY <3>2
  <2>4. PICK i \in Nat : Filled(f, t, i, r, c)  BY <1>5, <2>2, <2>3, FillResult
  <2>5. PICK p2 \in Int : p2 = r + i  BY <2>3
  <2>6. Moved(f, t, p2)  BY <2>4, <2>5 DEF Filled
  <2>7. Moved(f, x, p2)  BY <2>1, <2>6, MovedTwice
  <2>8. f \in Globs  BY <2>7 DEF Moved, Reads
  <2>9. m \in Int
    <3>1. p - f.buf.offset \in Int /\ f.buf.fill \in Int  BY <2>8, Fields
    <3> QED BY <1>6, <3>1, MinOfTwo
  <2>10. Reads(y, f) /\ y.open = f.open  BY <1>10, <2>8, <2>9, NextChange DEF BufferOnly
  <2>11. Reads(y, x)  BY <2>7, <2>10, ReadsCompose DEF Moved
  <2> QED BY <2>7, <2>10, <2>11 DEF Moved
<1> QED BY <1>7, <1>8, <1>9, <1>10

(* A target and the start of its buffer.                                    *)
LEMMA BlockStart ==
  ASSUME NEW p \in Nat, NEW n, n = (p \div BufRecs) * BufRecs
  PROVE  n \in Nat /\ n <= p /\ p - n < BufRecs
<1>1. BufRecs \in Nat \ {0}  BY StandardFilesAssumption
<1>2. \A b \in Nat \ {0} : /\ (p \div b) * b \in Nat /\ (p \div b) * b <= p
                           /\ p - ((p \div b) * b) < b
  OBVIOUS
<1> QED BY <1>1, <1>2

(* doset to a place of a file just put on descriptor 0.                     *)
LEMMA SetToResult ==
  ASSUME NEW x \in Globs, x.fds[0] # Closed, x.buf = EmptyBuf, NEW g \in Nat, NEW p \in Nat,
         FileAt(x, 0) \in Pipes => g <= EntryAt(x, 0).pos,
         FileAt(x, 0) \notin Pipes => p <= Size(FileAt(x, 0)),
         NEW y, y = SetTo(x, p)
  PROVE  /\ Buffered(y, Pipes, g) /\ FileAt(y, 0) = FileAt(x, 0)
         /\ FileAt(x, 0) \notin Pipes => Position(y) = p
         /\ \E q \in Int : Moved(y, x, q) /\ EntryAt(x, 0).pos \in Int
                           /\ (FileAt(x, 0) \in Pipes => EntryAt(x, 0).pos <= q)
<1> DEFINE f == FileAt(x, 0)
<1>1. x.buf.offset = 0 /\ x.buf.fill = 0 /\ x.buf.next = 0 /\ x.buf.curpos = -1
  BY DEF EmptyBuf, Empty
<1>2. Size(f) \in Nat  BY TextLength DEF Size
<1>3. EntryAt(x, 0).pos \in Int /\ IsOpen(x, 0)  BY Fields, Numbers
<1>4. CASE p = 0
  <2>1. y = [x EXCEPT !.buf.next = 0]
    <3>1. p - x.buf.offset = 0 /\ x.buf.offset <= p /\ p <= x.buf.offset + x.buf.fill  BY <1>1, <1>4
    <3> QED BY <3>1 DEF SetTo
  <2>2. BufferOnly(y, x, [x.buf EXCEPT !.next = 0])  BY <2>1, NextChange
  <2>3. Reads(y, x) /\ y.open = x.open /\ y.buf = x.buf
    <3>1. x.buf \in Buffer  BY Fields
    <3> QED BY <1>1, <2>2, <3>1 DEF BufferOnly, Buffer
  <2>4. FileAt(y, 0) = f /\ EntryAt(y, 0) = EntryAt(x, 0)  BY <2>3, SameFile DEF EntryAt
  <2>5. Buffered(y, Pipes, g)
    BY <1>1, <1>2, <1>3, <2>3, <2>4 DEF Buffered, AtOffset, After
  <2>6. Moved(y, x, EntryAt(x, 0).pos)  BY <2>3, Unmoved
  <2>7. Position(y) = p  BY <1>1, <1>4, <2>3 DEF Position
  <2>8. EntryAt(x, 0).pos <= EntryAt(x, 0).pos  BY <1>3
  <2> QED BY <1>3, <2>4, <2>5, <2>6, <2>7, <2>8
<1>5. CASE p # 0
  <2> DEFINE n == (p \div BufRecs) * BufRecs
  <2>1. n \in Nat /\ n <= p /\ p - n < BufRecs  BY BlockStart
  <2>2. PICK e : e = Emptied(x)  OBVIOUS
  <2>3. /\ e \in Globs /\ e.fds = x.fds /\ e.open = x.open /\ Reads(e, x)
        /\ EntryAt(e, 0) = EntryAt(x, 0) /\ FileAt(e, 0) = f
        /\ e.buf.offset = 0 /\ e.buf.curpos = -1 /\ e.buf.fill = 0 /\ e.buf.next = 0
        /\ e.fds[0] # Closed
    BY <1>1, <2>2, EmptiedResult
  <2>4. IsOpen(e, 0)  BY <2>3, Fields, Numbers
  <2>5. PICK u : u = Seek0(e, n)  OBVIOUS
  <2>6. PICK t : t = [u EXCEPT !.buf.offset = n]  OBVIOUS
  <2>7. PICK h : h = FillBuf(t)  OBVIOUS
  <2>8. PICK m : m = Min({p - h.buf.offset, h.buf.fill})  OBVIOUS
  <2>9. /\ f \in Pipes => y = e
        /\ f \notin Pipes => y = [h EXCEPT !.buf.next = m]
    <3>1. ~(x.buf.offset <= p /\ p <= x.buf.offset + x.buf.fill)  BY <1>1, <1>5
    <3>2. n # e.buf.curpos  BY <2>1, <2>3
    <3>3. CanSeek(e, 0) <=> f \notin Pipes  BY <2>3, <2>4 DEF CanSeek
    <3> HIDE DEF n
    <3> QED
      <4>1. n = (p \div BufRecs) * BufRecs  BY DEF n
      <4>2. t = IF n = e.buf.curpos THEN [e EXCEPT !.buf.offset = n]
                ELSE [Seek0(e, n) EXCEPT !.buf.offset = n]
        BY <2>5, <2>6, <3>2
      <4> QED BY <2>2, <2>7, <2>8, <3>1, <3>2, <3>3, <4>1, <4>2, Zenon DEF SetTo
  <2> HIDE DEF n
  <2>10. CASE f \in Pipes
    <3>1. y = e  BY <2>9, <2>10
    <3>2. Moved(y, x, EntryAt(x, 0).pos)  BY <2>3, <3>1, Unmoved
    <3>3. Buffered(y, Pipes, g)  BY <1>2, <1>3, <2>3, <2>10, <3>1 DEF Buffered, After
    <3>4. EntryAt(x, 0).pos <= EntryAt(x, 0).pos  BY <1>3
    <3> QED BY <1>3, <2>3, <2>10, <3>1, <3>2, <3>3, <3>4
  <2>11. CASE f \notin Pipes
    <3>1. Moved(u, e, n) /\ u.buf = [e.buf EXCEPT !.curpos = n]  BY <2>1, <2>3, <2>5, SeekMoves
    <3>2. u \in Globs /\ u.fds = x.fds /\ Reads(u, e)  BY <2>3, <3>1 DEF Moved, Reads
    <3>3. BufferOnly(t, u, [u.buf EXCEPT !.offset = n])  BY <2>1, <2>6, <3>2, OffsetChange
    <3>4. Reads(t, u) /\ t.open = u.open /\ t.buf = [u.buf EXCEPT !.offset = n]
      BY <3>3 DEF BufferOnly
    <3>5. Moved(t, x, n)
      <4>1. Reads(t, x)  BY <2>3, <3>2, <3>4, ReadsCompose
      <4> QED BY <2>3, <3>1, <3>4, <4>1 DEF Moved
    <3>6. /\ t \in Globs /\ t.fds = x.fds /\ t.fds[0] # Closed /\ FileAt(t, 0) = f
          /\ EntryAt(t, 0).pos = n
      <4>1. Reads(t, x) /\ n \in Int  BY <2>1, <3>5 DEF Moved
      <4>2. EntryAt(t, 0).pos = n  BY <3>5, <4>1, MovedEntries
      <4> QED BY <4>1, <4>2, SameFile
    <3>7. t.buf.offset = n /\ t.buf.curpos = n
      <4>1. e.buf \in Buffer /\ u.buf \in Buffer  BY <2>3, <3>2, Fields
      <4> QED BY <3>1, <3>4, <4>1 DEF Buffer
    <3>8. PICK i \in Nat : Filled(h, t, i, n, n)
      <4>1. /\ n \in Int
            /\ ~(FileAt(t, 0) \notin Pipes /\ t.buf.offset # t.buf.curpos)
            /\ n = EntryAt(t, 0).pos /\ n = t.buf.curpos
        BY <2>1, <3>6, <3>7
      <4> QED BY <2>7, <3>6, <4>1, FillResult
    <3>9. n <= Size(f) /\ n \in Int  BY <1>2, <2>1, <2>11
    <3>10. Buffered(h, Pipes, g) /\ FileAt(h, 0) = f /\ h.buf.offset = n
      <4>1. h.buf.offset = n  BY <3>7, <3>8 DEF Filled
      <4> QED BY <2>1, <2>11, <3>6, <3>7, <3>8, <3>9, <4>1, FilledAgrees
    <3>11. h.buf.fill = i /\ (i < BufRecs => n + i >= Size(f)) /\ i <= BufRecs
      BY <3>6, <3>8 DEF Filled, Size
    <3>12. m = p - n /\ m \in 0 .. i
      <4>1. p - n <= i  BY <1>2, <2>1, <2>11, <3>11, StandardFilesAssumption
      <4>2. m = Min({p - n, i}) /\ p - n \in Int /\ i \in Int  BY <2>1, <2>8, <3>8, <3>10, <3>11
      <4>3. m = p - n  BY <4>1, <4>2, MinOfTwo
      <4> QED BY <2>1, <4>1, <4>3
    <3>13. Moved(h, x, n + i)
      <4>1. Moved(h, t, n + i) /\ n + i \in Int /\ n \in Int  BY <2>1, <3>8 DEF Filled
      <4> QED BY <3>5, <4>1, MovedTwice
    <3>14. h \in Globs /\ h.fds = x.fds /\ h.fds[0] # Closed  BY <3>13 DEF Moved, Reads
    <3>15. Reads(y, h) /\ y.open = h.open /\ y.buf = [h.buf EXCEPT !.next = m]
      <4>1. m \in Int /\ y = [h EXCEPT !.buf.next = m]  BY <2>9, <2>11, <3>12
      <4>2. BufferOnly(y, h, [h.buf EXCEPT !.next = m])  BY <3>14, <4>1, NextChange
      <4> QED BY <4>2 DEF BufferOnly
    <3>16. Moved(y, x, n + i)
      <4>1. Reads(y, x)  BY <3>13, <3>15, ReadsCompose DEF Moved
      <4> QED BY <3>13, <3>15, <4>1 DEF Moved
    <3>17. FileAt(y, 0) = f /\ EntryAt(y, 0) = EntryAt(h, 0)
      BY <3>10, <3>14, <3>15, SameFile DEF EntryAt
    <3>18. /\ y.buf.offset = n /\ y.buf.fill = i /\ y.buf.next = m
           /\ y.buf.curpos = h.buf.curpos /\ y.buf.file = h.buf.file /\ y.buf.at = h.buf.at
      BY <3>10, <3>11, <3>14, <3>15, Fields DEF Buffer
    <3>19. Buffered(y, Pipes, g)
      <4>1. AtOffset(h, f)  BY <2>11, <3>10 DEF Buffered
      <4>2. AtOffset(y, f)  BY <3>10, <3>11, <3>17, <3>18, <4>1 DEF AtOffset
      <4>3. i > 0 => y.buf.file = f /\ y.buf.at \in Nat /\ y.buf.at + i <= Size(f)
        BY <3>10, <3>11, <3>18 DEF Buffered
      <4> QED BY <2>1, <2>11, <3>8, <3>12, <3>17, <3>18, <4>2, <4>3 DEF Buffered
    <3>20. Position(y) = p
      <4>1. n + (p - n) = p  BY <2>1
      <4> QED BY <3>12, <3>18, <4>1 DEF Position
    <3>21. n + i \in Int  BY <2>1
    <3> QED BY <1>3, <2>11, <3>16, <3>17, <3>19, <3>20, <3>21
  <2> QED BY <2>10, <2>11
<1> QED BY <1>4, <1>5

(* doset to the end of the file: a pipe stays where it is.                  *)
LEMMA SetToEofMoves ==
  ASSUME NEW x \in Globs, x.fds[0] # Closed, NEW g, Buffered(x, Pipes, g), NEW y, y = SetToEof(x)
  PROVE  \E q \in Int : Moved(y, x, q) /\ EntryAt(x, 0).pos \in Int
                        /\ (FileAt(x, 0) \in Pipes => EntryAt(x, 0).pos <= q)
<1> DEFINE eof == IF CanSeek(x, 0) THEN Len(TextOf(FileAt(x, 0))) ELSE -1
           k == x.buf.offset + x.buf.fill
           p == Max({0, eof, k})
<1>1. eof \in Int /\ k \in Nat /\ p \in Int /\ (eof = -1 => p = k)
  <2>1. Len(TextOf(FileAt(x, 0))) \in Nat  BY TextLength
  <2>2. eof \in Int /\ k \in Nat  BY <2>1 DEF Buffered
  <2> HIDE DEF eof, k
  <2>3. ASSUME NEW a \in Int, NEW b \in Nat PROVE Max({0, a, b}) \in Int /\ (a = -1 => Max({0, a, b}) = b)
    <3> DEFINE m == Max({0, a, b})
    <3>1. 0 \in Int /\ a \in Int /\ b \in Int  OBVIOUS
    <3>2. m \in {0, a, b} /\ \A c \in {0, a, b} : c <= m  BY <3>1, MaxOfThree, Zenon
    <3> HIDE DEF m
    <3>3. b <= m /\ 0 <= m /\ m \in Int  BY <3>2
    <3> QED
      <4>1. a = -1 => m = b  BY <3>2, <3>3
      <4> QED BY <3>3, <4>1 DEF m
  <2> QED BY <2>2, <2>3
<1>2. PICK t : t = IF CanSeek(x, 0) THEN Seek0(x, eof) ELSE [x EXCEPT !.buf.curpos = -1]  OBVIOUS
<1>3. y = SetTo(t, p)  BY <1>2, Zenon DEF SetToEof
<1>4. EntryAt(x, 0).pos \in Int /\ IsOpen(x, 0)  BY Fields, Numbers
<1> HIDE DEF k, p
<1>5. CASE CanSeek(x, 0)
  <2>1. t = Seek0(x, eof)  BY <1>2, <1>5
  <2> HIDE DEF eof
  <2>2. Moved(t, x, eof)  BY <1>1, <2>1, SeekMoves
  <2>3. t \in Globs /\ t.fds[0] # Closed  BY <2>2 DEF Moved, Reads
  <2>4. PICK q \in Int : Moved(y, t, q)  BY <1>1, <1>3, <2>3, SetToMoves
  <2>5. Moved(y, x, q)  BY <1>1, <2>2, <2>4, MovedTwice
  <2>6. FileAt(x, 0) \notin Pipes  BY <1>5 DEF CanSeek
  <2> QED BY <1>4, <2>5, <2>6
<1>6. CASE ~CanSeek(x, 0)
  <2>1. t = [x EXCEPT !.buf.curpos = -1] /\ p = k  BY <1>1, <1>2, <1>6
  <2> HIDE DEF eof
  <2>2. BufferOnly(t, x, [x.buf EXCEPT !.curpos = -1])  BY <2>1, CurposChange
  <2>3. Reads(t, x) /\ t.open = x.open /\ t.buf = [x.buf EXCEPT !.curpos = -1] /\ t \in Globs
    BY <2>2 DEF BufferOnly, Reads
  <2>4. t.buf.offset = x.buf.offset /\ t.buf.fill = x.buf.fill  BY <2>3, Fields DEF Buffer
  <2>5. t.buf.offset <= p /\ p <= t.buf.offset + t.buf.fill
    BY <2>1, <2>4 DEF Buffered, k
  <2>6. y = [t EXCEPT !.buf.next = p - t.buf.offset]  BY <1>3, <2>5 DEF SetTo
  <2>7. p - t.buf.offset \in Int  BY <1>1, <2>3, Fields
  <2>8. BufferOnly(y, t, [t.buf EXCEPT !.next = p - t.buf.offset])  BY <2>3, <2>6, <2>7, NextChange
  <2>9. Reads(y, x) /\ y.open = x.open  BY <2>3, <2>8, ReadsCompose DEF BufferOnly
  <2>10. Moved(y, x, EntryAt(x, 0).pos)  BY <2>9, Unmoved
  <2>11. EntryAt(x, 0).pos <= EntryAt(x, 0).pos  BY <1>4
  <2> QED BY <1>4, <2>10, <2>11
<1> QED BY <1>5, <1>6

-----------------------------------------------------------------------------
(* The files that are read, on top and suspended.                           *)

(* The file on a descriptor is one there is, and a pipe, one of k, has one  *)
(* entry for all its descriptors.                                           *)
Source(x, e, k) ==
  FileAt(x, e) \in DOMAIN Text /\ (FileAt(x, e) \in k => x.fds[e] = x.fds[x.originp])

(* The file on descriptor 0 and those suspended, whose saved positions are  *)
(* in them; the pipe's records to g are gone.                               *)
Streams(x, k, g) ==
  /\ Source(x, 0, k)
  /\ \A i \in DOMAIN x.inc :
       /\ Source(x, x.inc[i].fd, k) /\ x.inc[i].pos \in Nat
       /\ FileAt(x, x.inc[i].fd) \notin k => x.inc[i].pos <= Size(FileAt(x, x.inc[i].fd))
  /\ k # {} => g <= EntryAt(x, x.originp).pos

(* What is under descriptor 0 is as it was; a pipe may have been read.      *)
Under(y, x, k) ==
  /\ y.inc = x.inc /\ y.originp = x.originp
  /\ \A e \in {x.originp} \cup IncFds(x) : y.fds[e] = x.fds[e] /\ FileAt(y, e) = FileAt(x, e)
  /\ EntryAt(x, x.originp).pos \in Int /\ EntryAt(y, x.originp).pos \in Int
  /\ k # {} => EntryAt(x, x.originp).pos <= EntryAt(y, x.originp).pos

(* The places of InputStream: of one file, of those suspended, on top.      *)
PlaceAt(k, f, at) == [file |-> f, at |-> IF f \in k \cup {NoFile} THEN 0 ELSE at]

Suspended(x, k) == [i \in DOMAIN x.inc |-> PlaceAt(k, FileAt(x, x.inc[i].fd), x.inc[i].pos)]

OnTop(x, k) == PlaceAt(k, FileAt(x, 0), WhereIn(x))

(* One after the other.                                                     *)
LEMMA UnderCompose ==
  ASSUME NEW x, NEW y, NEW z, NEW k, Under(y, x, k), Under(z, y, k)
  PROVE  Under(z, x, k)
<1>1. IncFds(y) = IncFds(x) /\ y.originp = x.originp  BY DEF Under, IncFds
<1>2. \A e \in {x.originp} \cup IncFds(x) : z.fds[e] = x.fds[e] /\ FileAt(z, e) = FileAt(x, e)
  BY <1>1 DEF Under
<1> QED BY <1>1, <1>2 DEF Under

(* The files suspended stay so.                                             *)
LEMMA UnderStreams ==
  ASSUME NEW x, NEW y, NEW k, NEW g \in Int, Streams(x, k, g), Under(y, x, k)
  PROVE  /\ Source(y, 0, k) => Streams(y, k, g)
         /\ Suspended(y, k) = Suspended(x, k)
<1>1. y.inc = x.inc /\ y.originp = x.originp  BY DEF Under
<1>2. \A i \in DOMAIN x.inc : FileAt(y, x.inc[i].fd) = FileAt(x, x.inc[i].fd)
                              /\ y.fds[x.inc[i].fd] = x.fds[x.inc[i].fd]
  BY DEF Under, IncFds
<1>3. y.fds[y.originp] = x.fds[x.originp]  BY <1>1 DEF Under
<1>4. k # {} => g <= EntryAt(y, y.originp).pos  BY <1>1 DEF Under, Streams
<1>5. \A i \in DOMAIN y.inc :
        /\ Source(y, y.inc[i].fd, k) /\ y.inc[i].pos \in Nat
        /\ FileAt(y, y.inc[i].fd) \notin k => y.inc[i].pos <= Size(FileAt(y, y.inc[i].fd))
  BY <1>1, <1>2, <1>3 DEF Streams, Source
<1>6. Suspended(y, k) = Suspended(x, k)  BY <1>1, <1>2 DEF Suspended
<1> QED BY <1>4, <1>5, <1>6 DEF Streams

(* What refers to them stays.                                               *)
LEMMA StayUnder ==
  ASSUME NEW x \in Globs, NEW y \in Globs, y.inc = x.inc, y.originp = x.originp,
         Stay(y, x, {x.originp} \cup IncFds(x)), NEW k
  PROVE  Under(y, x, k)
<1>1. \A e \in {x.originp} \cup IncFds(x) :
        /\ y.fds[e] = x.fds[e] /\ FileAt(y, e) = FileAt(x, e)
        /\ EntryAt(y, e) = EntryAt(x, e) /\ EntryAt(x, e).pos \in Int
  BY StayFiles DEF Stay
<1>2. x.originp \in {x.originp} \cup IncFds(x)  OBVIOUS
<1> QED BY <1>1, <1>2 DEF Under

(* Descriptor 0 is moved; a pipe only forwards.                             *)
LEMMA MovedUnder ==
  ASSUME NEW x, Kept(x, FALSE), NEW q \in Int, NEW y, Moved(y, x, q),
         FileAt(x, 0) \in Pipes => EntryAt(x, 0).pos <= q
  PROVE  Under(y, x, Pipes) /\ (Source(x, 0, Pipes) => Source(y, 0, Pipes))
<1>1. x \in Globs /\ x.fds[0] # Closed /\ x.originp \in Fd /\ x.fds[x.originp] # Closed
  BY UsedOpen DEF Uses
<1>2. /\ y \in Globs /\ y.fds = x.fds /\ SameVars(y, x) /\ EntryAt(y, 0).pos = q
      /\ \A e \in Fd : x.fds[e] = x.fds[0] => EntryAt(y, e).pos = q
      /\ \A e \in Fd : x.fds[e] # x.fds[0] /\ x.fds[e] # Closed => EntryAt(y, e) = EntryAt(x, e)
  BY <1>1, MovedEntries
<1>3. y.inc = x.inc /\ y.originp = x.originp  BY <1>2 DEF SameVars
<1>4. \A fd : FileAt(y, fd) = FileAt(x, fd)  BY ReadsKept DEF Moved
<1>5. EntryAt(x, x.originp).pos \in Int /\ EntryAt(y, x.originp).pos \in Int
  BY <1>1, <1>2, Fields
<1>6. Pipes # {} => EntryAt(x, x.originp).pos <= EntryAt(y, x.originp).pos
  <2> SUFFICES ASSUME Pipes # {} PROVE EntryAt(x, x.originp).pos <= EntryAt(y, x.originp).pos
    OBVIOUS
  <2>1. CASE x.fds[x.originp] = x.fds[0]
    <3>1. EntryAt(x, x.originp) = EntryAt(x, 0)  BY <2>1 DEF EntryAt
    <3>2. FileAt(x, 0) = FileAt(x, x.originp)  BY <1>1, <3>1, Fields, Numbers
    <3>3. FileAt(x, 0) \in Pipes  BY <3>2 DEF Kept, Output, Pipes
    <3> QED BY <1>1, <1>2, <2>1, <3>1, <3>3
  <2>2. CASE x.fds[x.originp] # x.fds[0]
    <3>1. EntryAt(y, x.originp) = EntryAt(x, x.originp)  BY <1>1, <1>2, <2>2
    <3> QED BY <1>5, <3>1
  <2> QED BY <2>1, <2>2
<1> QED BY <1>2, <1>3, <1>4, <1>5, <1>6 DEF Under, Source

(* The buffer agrees with a file just put on descriptor 0, and is at its start. *)
Fresh(y, x, k) == y \in Globs /\ Under(y, x, k) /\ Source(y, 0, k) /\ y.buf = EmptyBuf

(* So does the rest.                                                        *)
LEMMA FreshFlows ==
  ASSUME NEW x, NEW k, NEW g \in Nat, Streams(x, k, g), NEW y, Fresh(y, x, k)
  PROVE  /\ Streams(y, k, g) /\ Buffered(y, k, g) /\ Suspended(y, k) = Suspended(x, k)
         /\ OnTop(y, k) = [file |-> FileAt(y, 0), at |-> 0]
<1>1. Streams(y, k, g) /\ Suspended(y, k) = Suspended(x, k)  BY UnderStreams DEF Fresh
<1>2. y.buf.offset = 0 /\ y.buf.fill = 0 /\ y.buf.next = 0 /\ y.buf.curpos = -1
  BY DEF Fresh, EmptyBuf, Empty
<1>3. Size(FileAt(y, 0)) \in Nat  BY TextLength DEF Size
<1>4. FileAt(y, 0) \in k => g <= EntryAt(y, 0).pos
  <2> SUFFICES ASSUME FileAt(y, 0) \in k PROVE g <= EntryAt(y, 0).pos  OBVIOUS
  <2>1. EntryAt(y, 0) = EntryAt(y, y.originp)  BY DEF Fresh, Source, EntryAt
  <2> QED BY <1>1, <2>1 DEF Streams
<1>5. Buffered(y, k, g)  BY <1>2, <1>3, <1>4 DEF Buffered, After, AtOffset
<1>6. WhereIn(y) = 0  BY <1>2 DEF WhereIn
<1>7. OnTop(y, k) = [file |-> FileAt(y, 0), at |-> 0]  BY <1>6 DEF OnTop, PlaceAt
<1> QED BY <1>1, <1>5, <1>7

(* Nothing of all this changes.                                             *)
Calm(y, x) ==
  /\ y \in Globs /\ y.buf = x.buf /\ y.inc = x.inc /\ y.originp = x.originp
  /\ Stay(y, x, {0, x.originp} \cup IncFds(x))

(* As when other globals do.                                                *)
LEMMA GlobalsCalm ==
  ASSUME NEW x, \A e \in {0, x.originp} \cup IncFds(x) : e \in Fd /\ x.fds[e] # Closed,
         NEW y \in Globs, y.fds = x.fds, y.open = x.open, y.buf = x.buf,
         y.inc = x.inc, y.originp = x.originp
  PROVE  Calm(y, x)
<1>1. Stay(y, x, {0, x.originp} \cup IncFds(x))  BY GlobalsStay
<1> QED BY <1>1 DEF Calm

(* While the program compiles or runs.                                      *)
LEMMA SameCalm ==
  ASSUME NEW x, Kept(x, FALSE), NEW y \in Globs, y.fds = x.fds, y.open = x.open, y.buf = x.buf,
         y.inc = x.inc, y.originp = x.originp
  PROVE  Calm(y, x)
<1>1. \A e \in {0, x.originp} \cup IncFds(x) : e \in Fd /\ x.fds[e] # Closed
  BY UsedOpen DEF Uses
<1> QED BY <1>1, GlobalsCalm

(* One after the other.                                                     *)
LEMMA CalmCompose ==
  ASSUME NEW x, NEW y, NEW z, Calm(y, x), Calm(z, y)
  PROVE  Calm(z, x)
<1>1. IncFds(y) = IncFds(x)  BY DEF Calm, IncFds
<1>2. Stay(z, y, {0, x.originp} \cup IncFds(x))  BY <1>1 DEF Calm
<1>3. Stay(z, x, {0, x.originp} \cup IncFds(x))  BY <1>2, StayCompose DEF Calm
<1> QED BY <1>3 DEF Calm

(* The places are as they were.                                             *)
LEMMA CalmFlows ==
  ASSUME NEW x \in Globs, NEW y, Calm(y, x), NEW k
  PROVE  /\ Under(y, x, k) /\ FileAt(y, 0) = FileAt(x, 0) /\ OnTop(y, k) = OnTop(x, k)
         /\ Source(x, 0, k) => Source(y, 0, k)
         /\ \A g : Buffered(x, k, g) => Buffered(y, k, g)
<1>1. Stay(y, x, {x.originp} \cup IncFds(x))  BY DEF Calm, Stay
<1>2. Under(y, x, k)  BY <1>1, StayUnder DEF Calm
<1>3. /\ FileAt(y, 0) = FileAt(x, 0) /\ EntryAt(y, 0) = EntryAt(x, 0)
      /\ y.fds[0] = x.fds[0] /\ y.fds[x.originp] = x.fds[x.originp]
  <2>1. 0 \in {0, x.originp} \cup IncFds(x) /\ x.originp \in {0, x.originp} \cup IncFds(x)
    OBVIOUS
  <2> QED BY <2>1, StayFiles DEF Calm, Stay
<1>4. y.buf = x.buf /\ y.originp = x.originp  BY DEF Calm
<1>5. OnTop(y, k) = OnTop(x, k)  BY <1>3, <1>4 DEF OnTop, WhereIn
<1>6. Source(x, 0, k) => Source(y, 0, k)  BY <1>3, <1>4 DEF Source
<1>7. \A g : Buffered(x, k, g) => Buffered(y, k, g)
  BY <1>3, <1>4 DEF Buffered, After, AtOffset
<1> QED BY <1>2, <1>3, <1>5, <1>6, <1>7

-----------------------------------------------------------------------------
(* The switches put a file on top, at its start.                            *)

(* A switch of descriptor 0.                                                *)
LEMMA SwitchFresh ==
  ASSUME NEW cmd \in BOOLEAN, NEW x, Kept(x, cmd), NEW y, Tables(y), y.inc = x.inc,
         y.originp = x.originp, NEW o, y.fds = [x.fds EXCEPT ![0] = o],
         \A e \in Fd : e # 0 /\ x.fds[e] # Closed => EntryAt(y, e) = EntryAt(x, e), NEW k
  PROVE  /\ Under(y, x, k) /\ y \in Globs
         /\ y.buf = EmptyBuf /\ Source(y, 0, k) => Fresh(y, x, k)
<1>1. /\ x \in Globs /\ x.fds \in [Fd -> 0 .. MaxOpen]
      /\ \A e \in {x.originp} \cup IncFds(x) : e \in Fd /\ e # 0 /\ x.fds[e] # Closed
  <2>1. x \in Globs /\ x.fds \in [Fd -> 0 .. MaxOpen]  BY UsedOpen
  <2>2. \A e \in {x.originp} \cup IncFds(x) : e \in Uses(x, cmd)  BY DEF Uses, IncFds
  <2>3. \A e \in {x.originp} \cup IncFds(x) : e # 0  BY DEF Kept, Apart, IncFds
  <2>4. \A e \in Uses(x, cmd) : e \in Fd /\ x.fds[e] # Closed  BY UsedOpen
  <2> QED BY <2>1, <2>2, <2>3, <2>4
<1>2. y \in Globs  BY DEF Tables
<1>3. Stay(y, x, {x.originp} \cup IncFds(x))  BY <1>1 DEF Stay
<1>4. Under(y, x, k)  BY <1>1, <1>2, <1>3, StayUnder
<1> QED BY <1>2, <1>4 DEF Fresh

(* Other globals do not matter to it.                                       *)
LEMMA FreshSame ==
  ASSUME NEW x, NEW y, NEW k, Fresh(y, x, k), NEW z \in Globs, z.fds = y.fds, z.open = y.open,
         z.buf = y.buf, z.inc = y.inc, z.originp = y.originp
  PROVE  Fresh(z, x, k) /\ FileAt(z, 0) = FileAt(y, 0) /\ EntryAt(z, 0) = EntryAt(y, 0)
<1>1. \A e : EntryAt(z, e) = EntryAt(y, e) /\ FileAt(z, e) = FileAt(y, e)
  BY DEF EntryAt, FileAt, IsOpen
<1> QED BY <1>1 DEF Fresh, Under, Source

(* Descriptor 0 cleared for it.                                             *)
ClearedFor(u, x) ==
  /\ u \in Globs /\ u.fds = Clrbuf(Close(x, 0)).fds /\ u.open = Clrbuf(Close(x, 0)).open
  /\ u.buf = EmptyBuf /\ u.inc = x.inc /\ u.originp = x.originp

(* The shell's input on top.                                                *)
LEMMA ShellOnTop ==
  ASSUME NEW cmd \in BOOLEAN, NEW x, Kept(x, cmd), NEW u, ClearedFor(u, x),
         NEW y, y = Dup(u, x.originp), NEW k
  PROVE  /\ Fresh(y, x, k) /\ FileAt(y, 0) = Shell /\ EntryAt(y, 0) = EntryAt(x, x.originp)
         /\ \A e \in Fd : e # 0 /\ x.fds[e] # Closed =>
              y.fds[e] = x.fds[e] /\ EntryAt(y, e) = EntryAt(x, e)
<1>1. /\ Tables(x) /\ x.originp \in Fd \ {0} /\ 0 \in Fd
      /\ x.fds[0] # Closed /\ x.fds[x.originp] # Closed
      /\ x.fds \in [Fd -> 0 .. MaxOpen]
      /\ FileAt(x, x.originp) = EntryAt(x, x.originp).file /\ FileAt(x, x.originp) = Shell
  <2>1. Tables(x) /\ x.originp # 0 /\ FileAt(x, x.originp) = Shell  BY UsedOpen DEF Kept, Output
  <2>2. 0 \in Uses(x, cmd) /\ x.originp \in Uses(x, cmd)  BY DEF Uses
  <2>3. /\ x.fds \in [Fd -> 0 .. MaxOpen] /\ 0 \in Fd /\ x.originp \in Fd
        /\ x.fds[0] # Closed /\ x.fds[x.originp] # Closed
        /\ FileAt(x, x.originp) = EntryAt(x, x.originp).file
    BY <2>2, UsedOpen
  <2> QED BY <2>1, <2>3
<1>2. PICK z : z = Clrbuf(Close(x, 0))  OBVIOUS
<1>3. u \in Globs /\ u.fds = z.fds /\ u.open = z.open  BY <1>2 DEF ClearedFor
<1>4. /\ Tables(y) /\ SameVars(y, u) /\ y.buf = u.buf
      /\ y.fds = [x.fds EXCEPT ![0] = x.fds[x.originp]]
      /\ \A e \in Fd : e # 0 /\ x.fds[e] # Closed => EntryAt(y, e) = EntryAt(x, e)
      /\ EntryAt(y, 0) = EntryAt(x, x.originp)
  BY <1>1, <1>2, <1>3, Redup
<1>5. y.inc = x.inc /\ y.originp = x.originp /\ y.buf = EmptyBuf
  BY <1>4 DEF SameVars, ClearedFor
<1>6. FileAt(y, 0) = Shell
  <2>1. y.fds[0] # Closed  BY <1>1, <1>4
  <2>2. FileAt(y, 0) = EntryAt(y, 0).file  BY <1>1, <1>4, <2>1, Fields DEF Tables
  <2> QED BY <1>1, <1>4, <2>2
<1>7. Source(y, 0, k)
  <2>1. y.fds[0] = y.fds[y.originp]  BY <1>1, <1>4, <1>5
  <2> QED BY <1>6, <2>1, StandardFilesAssumption DEF Source
<1>8. PICK o : o = x.fds[x.originp]  OBVIOUS
<1>9. Fresh(y, x, k)  BY <1>4, <1>5, <1>7, <1>8, SwitchFresh
<1>10. \A e \in Fd : e # 0 => y.fds[e] = x.fds[e]  BY <1>1, <1>4
<1> QED BY <1>4, <1>6, <1>9, <1>10

(* The entries in use but for that of descriptor 0.                         *)
LEMMA EntriesInUse ==
  ASSUME NEW x, Kept(x, FALSE), NEW fd \in Fd, fd # 0, x.fds[fd] # Closed
  PROVE  x.fds[fd] \in {x.fds[1], x.fds[2], x.fds[x.originp]}
                         \cup {x.fds[x.inc[i].fd] : i \in DOMAIN x.inc}
<1>1. fd \in {1, 2, x.originp} \cup IncFds(x) \/ (Listed(x) /\ fd = x.origoup)
  BY DEF Kept, Uses
<1>2. CASE fd \in IncFds(x)
  <2>1. PICK i \in DOMAIN x.inc : fd = x.inc[i].fd  BY <1>2 DEF IncFds
  <2> QED BY <2>1
<1>3. CASE Listed(x) /\ fd = x.origoup
  <2>1. x.fds[x.origoup] = x.fds[2]  BY <1>3 DEF Kept, Output
  <2> QED BY <1>3, <2>1
<1> QED BY <1>1, <1>2, <1>3

(* A file opened on top.                                                    *)
LEMMA FileOnTop ==
  ASSUME NEW x, Kept(x, FALSE), NEW u, ClearedFor(u, x), NEW f \in DOMAIN Text,
         NEW k, f \notin k, NEW y, y = OpenFile(u, f)
  PROVE  Fresh(y, x, k) /\ FileAt(y, 0) = f /\ EntryAt(y, 0).pos = 0
<1>1. /\ Tables(x) /\ 0 \in Fd /\ x.fds[0] # Closed
      /\ x.fds \in [Fd -> 0 .. MaxOpen] /\ Len(x.inc) <= Depth
      /\ \A i \in DOMAIN x.inc : x.inc[i].fd # 0
  BY UsedOpen, Numbers DEF Uses, Kept, Apart
<1>2. PICK z : z = Clrbuf(Close(x, 0))  OBVIOUS
<1>3. u \in Globs /\ u.fds = z.fds /\ u.open = z.open /\ u.inc = x.inc  BY <1>2 DEF ClearedFor
<1>4. PICK a, b, c : a = x.fds[1] /\ b = x.fds[2] /\ c = x.fds[x.originp]  OBVIOUS
<1>5. \A fd \in Fd : fd # 0 /\ x.fds[fd] # Closed =>
        x.fds[fd] \in {a, b, c} \cup {x.fds[x.inc[i].fd] : i \in DOMAIN x.inc}
  BY <1>4, EntriesInUse
<1>6. f \in FileSet \ {NoFile}  BY StandardFilesAssumption DEF FileSet
<1>7. SwitchedTo(y, x, u, f)  BY <1>1, <1>2, <1>3, <1>5, <1>6, Reopen
<1>8. PICK o \in Opens : y.fds = [x.fds EXCEPT ![0] = o]  BY <1>7 DEF SwitchedTo
<1>9. /\ Tables(y) /\ SameVars(y, u) /\ y.buf = u.buf
      /\ EntryAt(y, 0) = [file |-> f, pos |-> 0]
      /\ \A e \in Fd : e # 0 /\ x.fds[e] # Closed => EntryAt(y, e) = EntryAt(x, e)
  BY <1>7 DEF SwitchedTo
<1>10. y.inc = x.inc /\ y.originp = x.originp /\ y.buf = EmptyBuf
  BY <1>9 DEF SameVars, ClearedFor
<1>11. FileAt(y, 0) = f
  <2>1. y.fds[0] # Closed  BY <1>1, <1>8, Numbers
  <2>2. FileAt(y, 0) = EntryAt(y, 0).file  BY <1>1, <1>9, <2>1, Fields DEF Tables
  <2> QED BY <1>9, <2>2
<1>12. Source(y, 0, k)  BY <1>11 DEF Source
<1>13. Fresh(y, x, k)  BY <1>8, <1>9, <1>10, <1>12, SwitchFresh
<1> QED BY <1>9, <1>11, <1>13

(* close and clrbuf.                                                        *)
LEMMA Cleared ==
  ASSUME NEW cmd \in BOOLEAN, NEW x, Kept(x, cmd), NEW z, z = Clrbuf(Close(x, 0))
  PROVE  /\ ClearedFor(z, x) /\ SameVars(z, x) /\ Tables(z)
         /\ z.fds = [x.fds EXCEPT ![0] = Closed]
         /\ \A e \in Fd : e # 0 /\ x.fds[e] # Closed => EntryAt(z, e) = EntryAt(x, e)
<1>1. Tables(x) /\ 0 \in Fd /\ x.fds[0] # Closed  BY UsedOpen, Numbers DEF Kept, Uses
<1>2. PICK c : c = Close(x, 0)  OBVIOUS
<1>3. ClosedAt(c, x, 0)  BY <1>1, <1>2, CloseTables
<1>4. c \in Globs  BY <1>3 DEF ClosedAt, Tables
<1>5. z = Clrbuf(c)  BY <1>2
<1>6. Reads(z, c) /\ z.open = c.open  BY <1>4, <1>5, ClrbufReads
<1>7. z.buf = EmptyBuf  BY <1>4, <1>5 DEF Clrbuf, Globs
<1>8. z \in Globs /\ z.fds = c.fds /\ SameVars(z, x)
  BY <1>3, <1>6 DEF Reads, SameVars, ClosedAt
<1>9. Tables(z) /\ \A e \in Fd : EntryAt(z, e) = EntryAt(c, e)
  <2>1. Tables(c)  BY <1>3 DEF ClosedAt
  <2> QED BY <1>6, <1>8, <2>1, GlobalsTables
<1> QED BY <1>2, <1>3, <1>7, <1>8, <1>9 DEF ClearedFor, ClosedAt, SameVars

(* NextArg clears it too.                                                   *)
LEMMA NextCleared ==
  ASSUME NEW x, Kept(x, FALSE), NEW u, u = NextArg(x)
  PROVE  ClearedFor(u, x) /\ Counted(u, x)
<1>1. PICK z : z = Clrbuf(Close(x, 0))  OBVIOUS
<1>2. z \in Globs /\ z.buf = EmptyBuf  BY <1>1, Cleared DEF ClearedFor
<1>3. u = [z EXCEPT !.cmdcnt = @ + 1, !.curfile = @ + 1]  BY <1>1 DEF NextArg
<1>4. u.buf = EmptyBuf  BY <1>2, <1>3 DEF Globs
<1>5. Counted(u, x)  BY NextArgCounts
<1> QED BY <1>4, <1>5 DEF Counted, ClearedFor, SameInput

(* What swcinp does to the files: another one is on top, or nothing has     *)
(* changed, or descriptor 0 is left closed.                                 *)
InputFlow(y, x, k) ==
  /\ y \in Globs
  /\ \/ /\ y.ret = "file" /\ Fresh(y, x, k)
        /\ EntryAt(y, 0).pos \in {0, EntryAt(x, x.originp).pos}
     \/ y.ret \in {"eof", "exit"} /\ Calm(y, x)
     \/ y.ret = "exit" /\ Under(y, x, k) /\ FileAt(y, 0) = NoFile

(* The answer of a switch.                                                  *)
LEMMA FileAnswered ==
  ASSUME NEW x, NEW d, NEW k, Fresh(d, x, k),
         EntryAt(d, 0).pos \in {0, EntryAt(x, x.originp).pos},
         NEW y, \/ y = [d EXCEPT !.ret = "file"]
                \/ y = [d EXCEPT !.readshell0 = FALSE, !.ret = "file"]
  PROVE  InputFlow(y, x, k)
<1>1. d \in Globs  BY DEF Fresh
<1>2. /\ y \in Globs /\ y.fds = d.fds /\ y.open = d.open /\ y.buf = d.buf /\ y.inc = d.inc
      /\ y.originp = d.originp /\ y.ret = "file"
  <2>1. CASE y = [d EXCEPT !.ret = "file"]  BY <1>1, <2>1 DEF Globs
  <2>2. CASE y = [d EXCEPT !.readshell0 = FALSE, !.ret = "file"]  BY <1>1, <2>2 DEF Globs
  <2> QED BY <2>1, <2>2
<1>3. Fresh(y, x, k) /\ EntryAt(y, 0) = EntryAt(d, 0)  BY <1>2, FreshSame
<1> QED BY <1>2, <1>3 DEF InputFlow

(* No name of the command line is the shell's input.                        *)
LEMMA NamedFile ==
  ASSUME env \in Commands, NEW i \in 1 .. Len(env.args), NEW ext \in Range(SourceExts)
  PROVE  <<env.args[i], ext>> \notin Pipes
<1>1. env.args[i] \in Range(env.args)  BY CommandLine DEF Range
<1>2. <<env.args[i], ext>> # Shell  BY <1>1, StandardFilesAssumption
<1> QED BY <1>2 DEF Pipes

(* swcinp.                                                                  *)
LEMMA InputFlows ==
  ASSUME env \in Commands, NEW x, Kept(x, FALSE), x.inpcnt <= Len(env.args), NEW y, y = SwcInp(x)
  PROVE  InputFlow(y, x, Pipes)
<1>0. x \in Globs /\ Tables(x) /\ x.originp \in Fd /\ x.readshell0 \in BOOLEAN
      /\ x.executing \in BOOLEAN
  BY DEF Kept, Tables, Apart, Globs
<1>1. PICK u : u = NextArg(x)  OBVIOUS
<1>2. PICK name : name = env.args[u.curfile]  OBVIOUS
<1>3. PICK found : found = Candidates(u, name)  OBVIOUS
<1>4. ~(x.originp < 0)  BY <1>0, Numbers DEF Fd
<1>5. y = IF x.curfile < x.inpcnt
            THEN IF name = Dash     THEN [Dup(u, u.originp) EXCEPT !.ret = "file"]
                 ELSE IF found = {} THEN [u EXCEPT !.ret = "exit"]
                 ELSE [OpenFile(u, WithExts(name)[Min(found)]) EXCEPT !.ret = "file"]
          ELSE IF ~x.readshell0 THEN [x EXCEPT !.ret = "eof"]
          ELSE IF ~x.executing /\ x.inpcnt > 0 THEN [x EXCEPT !.ret = "exit"]
          ELSE [ShellInput(x) EXCEPT !.readshell0 = FALSE, !.ret = "file"]
  BY <1>1, <1>2, <1>3, <1>4 DEF SwcInp
<1>6. CASE x.curfile < x.inpcnt
  <2>1. ClearedFor(u, x) /\ Counted(u, x)  BY <1>1, NextCleared
  <2>2. u \in Globs /\ u.originp = x.originp /\ u.curfile = x.curfile + 1
    BY <2>1 DEF Counted, ClearedFor
  <2>3. CASE name = Dash
    <3>1. PICK d : d = Dup(u, x.originp)  OBVIOUS
    <3>2. y = [d EXCEPT !.ret = "file"]  BY <1>5, <1>6, <2>2, <2>3, <3>1
    <3>3. Fresh(d, x, Pipes) /\ EntryAt(d, 0) = EntryAt(x, x.originp)
      BY <2>1, <3>1, ShellOnTop
    <3>4. EntryAt(d, 0).pos \in {0, EntryAt(x, x.originp).pos}  BY <3>3
    <3> QED BY <3>2, <3>3, <3>4, FileAnswered
  <2>4. CASE name # Dash /\ found = {}
    <3>1. y = [u EXCEPT !.ret = "exit"]  BY <1>5, <1>6, <2>4
    <3>2. /\ y.ret = "exit" /\ y \in Globs /\ y.fds = u.fds /\ y.open = u.open
          /\ y.inc = x.inc /\ y.originp = x.originp
      BY <2>1, <2>2, <3>1 DEF Globs, ClearedFor
    <3>3. PICK z : z = Clrbuf(Close(x, 0))  OBVIOUS
    <3>4. /\ Tables(z) /\ z.fds = [x.fds EXCEPT ![0] = Closed]
          /\ \A e \in Fd : e # 0 /\ x.fds[e] # Closed => EntryAt(z, e) = EntryAt(x, e)
      <4>1. PICK cmd \in BOOLEAN : cmd = FALSE  OBVIOUS
      <4>2. Kept(x, cmd)  BY <4>1
      <4> QED BY <3>3, <4>2, Cleared
    <3>5. y.fds = z.fds /\ y.open = z.open  BY <2>1, <3>2, <3>3 DEF ClearedFor
    <3>6. Tables(y) /\ \A e : EntryAt(y, e) = EntryAt(z, e)
      BY <3>2, <3>4, <3>5, GlobalsTables
    <3>7. y.fds = [x.fds EXCEPT ![0] = Closed]
          /\ \A e \in Fd : e # 0 /\ x.fds[e] # Closed => EntryAt(y, e) = EntryAt(x, e)
      BY <3>4, <3>5, <3>6
    <3>8. Under(y, x, Pipes)  BY <3>2, <3>6, <3>7, SwitchFresh
    <3>9. FileAt(y, 0) = NoFile
      <4>1. x.fds \in [Fd -> 0 .. MaxOpen] /\ 0 \in Fd  BY <1>0, Fields, Numbers
      <4>2. y.fds[0] = Closed  BY <3>7, <4>1
      <4> QED BY <4>2 DEF FileAt, IsOpen
    <3> QED BY <3>2, <3>8, <3>9 DEF InputFlow
  <2>5. CASE name # Dash /\ found # {}
    <3>1. PICK f : f = WithExts(name)[Min(found)]  OBVIOUS
    <3>2. f \in DOMAIN Text /\ \E ext \in Range(SourceExts) : f = <<name, ext>>
      BY <1>3, <2>5, <3>1, CandidateFile
    <3>3. u.curfile \in 1 .. Len(env.args)
      <4>1. x.curfile \in Nat /\ x.inpcnt \in Nat /\ Len(env.args) \in Nat
        BY <1>0, CommandLine DEF Globs
      <4> QED BY <1>6, <2>2, <4>1
    <3>4. f \notin Pipes  BY <1>2, <3>2, <3>3, NamedFile
    <3>5. PICK d : d = OpenFile(u, f)  OBVIOUS
    <3>6. y = [d EXCEPT !.ret = "file"]  BY <1>5, <1>6, <2>5, <3>1, <3>5
    <3>7. Fresh(d, x, Pipes) /\ EntryAt(d, 0).pos = 0
      BY <2>1, <3>2, <3>4, <3>5, FileOnTop
    <3>8. EntryAt(d, 0).pos \in {0, EntryAt(x, x.originp).pos}  BY <3>7
    <3> QED BY <3>6, <3>7, <3>8, FileAnswered
  <2> QED BY <2>3, <2>4, <2>5
<1>7. ASSUME NEW r \in {"eof", "exit"}, y = [x EXCEPT !.ret = r]
      PROVE  InputFlow(y, x, Pipes)
  <2>1. /\ y \in Globs /\ y.fds = x.fds /\ y.open = x.open /\ y.buf = x.buf /\ y.inc = x.inc
        /\ y.originp = x.originp /\ y.ret = r
    BY <1>0, <1>7 DEF Globs
  <2>2. Calm(y, x)  BY <2>1, SameCalm
  <2> QED BY <2>1, <2>2 DEF InputFlow
<1>8. CASE ~(x.curfile < x.inpcnt) /\ ~x.readshell0
  <2>1. y = [x EXCEPT !.ret = "eof"]  BY <1>5, <1>8
  <2> QED BY <1>7, <2>1
<1>9. CASE ~(x.curfile < x.inpcnt) /\ x.readshell0 /\ ~x.executing /\ x.inpcnt > 0
  <2>1. y = [x EXCEPT !.ret = "exit"]  BY <1>5, <1>9
  <2> QED BY <1>7, <2>1
<1>10. CASE ~(x.curfile < x.inpcnt) /\ x.readshell0 /\ ~(~x.executing /\ x.inpcnt > 0)
  <2>1. PICK z : z = Clrbuf(Close(x, 0))  OBVIOUS
  <2>2. PICK d : d = Dup(z, x.originp)  OBVIOUS
  <2>3. y = [d EXCEPT !.readshell0 = FALSE, !.ret = "file"]
    BY <1>5, <1>10, <2>1, <2>2 DEF ShellInput
  <2>4. ClearedFor(z, x)  BY <2>1, Cleared
  <2>5. Fresh(d, x, Pipes) /\ EntryAt(d, 0) = EntryAt(x, x.originp)
    BY <2>2, <2>4, ShellOnTop
  <2>6. EntryAt(d, 0).pos \in {0, EntryAt(x, x.originp).pos}  BY <2>5
  <2> QED BY <2>3, <2>5, <2>6, FileAnswered
<1>11. (x.curfile < x.inpcnt) \/ (~(x.curfile < x.inpcnt) /\ ~x.readshell0)
       \/ (~(x.curfile < x.inpcnt) /\ x.readshell0 /\ ~x.executing /\ x.inpcnt > 0)
       \/ (~(x.curfile < x.inpcnt) /\ x.readshell0 /\ ~(~x.executing /\ x.inpcnt > 0))
  OBVIOUS
<1> QED BY <1>6, <1>8, <1>9, <1>10, <1>11

(* A descriptor more or less, and nothing under or on descriptor 0 changes. *)
LEMMA CalmFresh ==
  ASSUME NEW x, NEW y, NEW k, Fresh(y, x, k), NEW z, Calm(z, y)
  PROVE  Fresh(z, x, k) /\ FileAt(z, 0) = FileAt(y, 0)
<1>1. y \in Globs  BY DEF Fresh
<1>2. Under(z, y, k) /\ FileAt(z, 0) = FileAt(y, 0) /\ (Source(y, 0, k) => Source(z, 0, k))
  BY <1>1, CalmFlows
<1>3. Under(z, x, k)  BY <1>2, UnderCompose DEF Fresh
<1> QED BY <1>2, <1>3 DEF Fresh, Calm

(* save0: the shell's input is on top, and the program's file is kept apart. *)
LEMMA SaveFlows ==
  ASSUME NEW x, Sound(x, FALSE), NEW k, Source(x, 0, k), NEW y, y = Save0(x)
  PROVE  /\ Fresh(y, x, k) /\ Source(y, y.save_fd0, k) /\ FileAt(y, y.save_fd0) = FileAt(x, 0)
         /\ y.oupState = x.oupState /\ y.inpcnt = x.inpcnt
<1>0. Kept(x, FALSE) /\ Tables(x) /\ x \in Globs  BY DEF Sound, Kept, Tables
<1>1. /\ x.fds \in [Fd -> 0 .. MaxOpen] /\ x.originp \in Fd \ {0, 1, 2} /\ 0 \in Fd
      /\ x.fds[0] # Closed /\ x.fds[0] \in Opens /\ x.fds[x.originp] # Closed
      /\ \A e \in {0, x.originp} \cup IncFds(x) : e \in Fd /\ x.fds[e] # Closed
      /\ FileAt(x, 0) = EntryAt(x, 0).file
  BY <1>0, UsedOpen, Numbers DEF Uses
<1>2. PICK l : l = LowestFree(x)  OBVIOUS
<1>3. l \in Fd /\ x.fds[l] = Closed
  <2>1. Len(x.inc) <= Depth  BY <1>0 DEF Kept
  <2>2. \A fd \in Fd : x.fds[fd] # Closed =>
          fd \in {0, 1, 2, x.originp, x.origoup, 0} \cup IncFds(x)
    BY <1>0 DEF Kept, Uses
  <2> QED BY <1>0, <1>2, <2>1, <2>2, FreeFd
<1>4. PICK d : d = Dup(x, 0)  OBVIOUS
<1>5. /\ Tables(d) /\ SameVars(d, x) /\ d.buf = x.buf
      /\ Stay(d, x, {0, x.originp} \cup IncFds(x))
      /\ d.fds = [x.fds EXCEPT ![l] = x.fds[0]] /\ EntryAt(d, l) = EntryAt(x, 0)
  BY <1>0, <1>1, <1>2, <1>3, <1>4, DupStay
<1>6. PICK t : t = [d EXCEPT !.save_fd0 = l]  OBVIOUS
<1>7. /\ t \in Globs /\ t.fds = d.fds /\ t.open = d.open /\ t.buf = d.buf /\ t.inc = d.inc
      /\ t.originp = d.originp /\ t.save_fd0 = l /\ t.oupState = d.oupState
      /\ t.inpcnt = d.inpcnt
  <2>1. d \in Globs  BY <1>5 DEF Tables
  <2>2. l \in -1 .. MaxFd  BY <1>3, Numbers DEF Fd
  <2> QED BY <1>6, <2>1, <2>2 DEF Globs
<1>8. Calm(t, x)
  <2>1. d.inc = x.inc /\ d.originp = x.originp  BY <1>5 DEF SameVars
  <2>2. Calm(d, x)  BY <1>5, <2>1 DEF Calm, Tables
  <2>3. \A e \in {0, d.originp} \cup IncFds(d) : e \in Fd /\ d.fds[e] # Closed
    BY <1>1, <1>5, <2>1 DEF Stay, IncFds
  <2>4. Calm(t, d)  BY <1>7, <2>3, GlobalsCalm
  <2> QED BY <2>2, <2>4, CalmCompose
<1>9. Kept(t, TRUE) /\ y = ShellInput(t)
  <2>1. y = ShellInput(t)  BY <1>2, <1>4, <1>6 DEF Save0
  <2>2. SavedApart(t, x)  BY <1>2, <1>4, <1>6 DEF SavedApart
  <2>3. Kept(t, TRUE)  BY <2>2, SavedKept
  <2> QED BY <2>1, <2>3
<1>10. PICK z : z = Clrbuf(Close(t, 0))  OBVIOUS
<1>11. ClearedFor(z, t) /\ SameVars(z, t)
  <2>1. PICK cmd \in BOOLEAN : cmd = TRUE  OBVIOUS
  <2>2. Kept(t, cmd)  BY <1>9, <2>1
  <2> QED BY <1>10, <2>2, Cleared
<1>12. y = Dup(z, t.originp)  BY <1>9, <1>10 DEF ShellInput
<1>13. /\ Fresh(y, t, k)
       /\ \A e \in Fd : e # 0 /\ t.fds[e] # Closed =>
            y.fds[e] = t.fds[e] /\ EntryAt(y, e) = EntryAt(t, e)
  <2>1. PICK cmd \in BOOLEAN : cmd = TRUE  OBVIOUS
  <2>2. Kept(t, cmd)  BY <1>9, <2>1
  <2> QED BY <1>11, <1>12, <2>2, ShellOnTop
<1>14. SameVars(y, t)
  <2>1. PICK cmd \in BOOLEAN : cmd = TRUE  OBVIOUS
  <2>2. Kept(t, cmd)  BY <1>9, <2>1
  <2> QED BY <1>9, <2>2, ShellSwitch
<1>15. Fresh(y, x, k)
  <2>1. Under(t, x, k)  BY <1>0, <1>8, CalmFlows
  <2> QED BY <1>13, <2>1, UnderCompose DEF Fresh
<1>16. y.save_fd0 = l /\ y.originp = x.originp /\ y.oupState = x.oupState /\ y.inpcnt = x.inpcnt
  BY <1>5, <1>7, <1>14 DEF SameVars
<1>17. /\ y.fds[l] = x.fds[0] /\ EntryAt(y, l) = EntryAt(x, 0)
       /\ y.fds[x.originp] = x.fds[x.originp]
  <2>1. l # 0  BY <1>1, <1>3
  <2>2. t.fds[l] = x.fds[0] /\ EntryAt(t, l) = EntryAt(x, 0)
    BY <1>1, <1>3, <1>5, <1>7 DEF EntryAt
  <2>3. t.fds[x.originp] = x.fds[x.originp]  BY <1>8 DEF Calm, Stay
  <2> QED BY <1>1, <1>3, <1>13, <2>1, <2>2, <2>3
<1>18. FileAt(y, l) = FileAt(x, 0)
  <2>1. y \in Globs /\ y.fds[l] # Closed  BY <1>1, <1>15, <1>17 DEF Fresh
  <2>2. FileAt(y, l) = EntryAt(y, l).file  BY <1>3, <2>1, Fields
  <2> QED BY <1>1, <1>17, <2>2
<1>19. Source(y, l, k)  BY <1>16, <1>17, <1>18 DEF Source
<1> QED BY <1>15, <1>16, <1>18, <1>19

(* restore0: the program's file is on top again, and read from its start.   *)
LEMMA RestoreFlows ==
  ASSUME NEW x, Kept(x, TRUE), NEW k, Source(x, x.save_fd0, k),
         NEW y, y = [Restore0(x) EXCEPT !.save_fd0 = -1]
  PROVE  /\ Fresh(y, x, k) /\ FileAt(y, 0) = FileAt(x, x.save_fd0)
         /\ y.oupState = x.oupState /\ y.inpcnt = x.inpcnt
<1>0. /\ x \in Globs /\ x.fds \in [Fd -> 0 .. MaxOpen] /\ Tables(x)
      /\ x.fds[0] # Closed /\ 0 \in Fd
      /\ \A e \in {0, x.originp} \cup IncFds(x) : e \in Fd /\ x.fds[e] # Closed
  BY UsedOpen, Numbers DEF Kept, Uses
<1>1. PICK f : f = x.save_fd0  OBVIOUS
<1>2. /\ f \in Fd \ {0} /\ x.fds[f] # Closed /\ x.fds[f] \in Opens
      /\ f \notin {0, x.originp} \cup IncFds(x)
      /\ FileAt(x, f) = EntryAt(x, f).file /\ x.originp # 0
  <2>1. f \in Uses(x, TRUE)  BY <1>1 DEF Uses
  <2>2. f \in Fd /\ f \notin {0, 1, 2, x.originp} \cup IncFds(x) /\ x.originp # 0
    BY <1>1 DEF Kept, Apart
  <2>3. f # 0  BY <2>2
  <2> QED BY <2>1, <2>2, <2>3, UsedOpen
<1>3. PICK z : z = Clrbuf(Close(x, 0))  OBVIOUS
<1>4. PICK r : r = Dup(z, f)  OBVIOUS
<1>5. PICK c : c = Close(r, f)  OBVIOUS
<1>6. y = [c EXCEPT !.save_fd0 = -1]  BY <1>1, <1>3, <1>4, <1>5 DEF Restore0
<1>7. ClearedFor(z, x) /\ SameVars(z, x)
  <2>1. PICK cmd \in BOOLEAN : cmd = TRUE  OBVIOUS
  <2>2. Kept(x, cmd)  BY <2>1
  <2> QED BY <1>3, <2>2, Cleared
<1>8. /\ Tables(r) /\ SameVars(r, z) /\ r.buf = z.buf
      /\ r.fds = [x.fds EXCEPT ![0] = x.fds[f]]
      /\ \A e \in Fd : e # 0 /\ x.fds[e] # Closed => EntryAt(r, e) = EntryAt(x, e)
      /\ EntryAt(r, 0) = EntryAt(x, f)
  <2>1. z \in Globs  BY <1>7 DEF ClearedFor
  <2> QED BY <1>0, <1>2, <1>3, <1>4, <2>1, Redup
<1>9. /\ r.inc = x.inc /\ r.originp = x.originp /\ r.buf = EmptyBuf
      /\ r.oupState = x.oupState /\ r.inpcnt = x.inpcnt
  BY <1>7, <1>8 DEF SameVars, ClearedFor
<1>10. FileAt(r, 0) = FileAt(x, f)
  <2>1. r.fds[0] # Closed  BY <1>0, <1>2, <1>8
  <2>2. FileAt(r, 0) = EntryAt(r, 0).file  BY <1>0, <1>8, <2>1, Fields DEF Tables
  <2> QED BY <1>2, <1>8, <2>2
<1>11. Source(r, 0, k)
  <2>1. r.fds[0] = x.fds[f] /\ r.fds[r.originp] = x.fds[x.originp]
    BY <1>0, <1>2, <1>8, <1>9
  <2> QED BY <1>1, <1>10, <2>1 DEF Source
<1>12. Fresh(r, x, k)
  <2>0. PICK o : o = x.fds[f]  OBVIOUS
  <2>1. PICK cmd \in BOOLEAN : cmd = TRUE  OBVIOUS
  <2>2. Kept(x, cmd) /\ r.fds = [x.fds EXCEPT ![0] = o]  BY <1>8, <2>0, <2>1
  <2> QED BY <1>8, <1>9, <1>11, <2>2, SwitchFresh
<1>13. Calm(c, r) /\ SameVars(c, r) /\ Tables(c)
  <2>0. PICK E : E = {0, r.originp} \cup IncFds(r)  OBVIOUS
  <2>1. \A e \in E : e \in Fd /\ e # f /\ r.fds[e] # Closed
    BY <1>0, <1>2, <1>8, <1>9, <2>0 DEF IncFds
  <2>2. Tables(r) /\ f \in Fd  BY <1>2, <1>8
  <2>3. /\ Tables(c) /\ SameVars(c, r) /\ c.buf = r.buf /\ Stay(c, r, E)
        /\ c.fds = [r.fds EXCEPT ![f] = Closed]
    BY <1>5, <2>1, <2>2, CloseStay
  <2> QED BY <2>0, <2>3 DEF Calm, Tables, SameVars
<1>14. /\ y \in Globs /\ y.fds = c.fds /\ y.open = c.open /\ y.buf = c.buf /\ y.inc = c.inc
       /\ y.originp = c.originp /\ y.oupState = c.oupState /\ y.inpcnt = c.inpcnt
  <2>1. c \in Globs /\ -1 \in -1 .. MaxFd  BY <1>13, Numbers DEF Tables
  <2> QED BY <1>6, <2>1 DEF Globs
<1>15. Fresh(c, x, k) /\ FileAt(c, 0) = FileAt(r, 0)  BY <1>12, <1>13, CalmFresh
<1>16. Fresh(y, x, k) /\ FileAt(y, 0) = FileAt(c, 0)  BY <1>14, <1>15, FreshSame
<1> QED BY <1>1, <1>9, <1>10, <1>13, <1>14, <1>15, <1>16 DEF SameVars

(* Its files are the same.                                                  *)
ReadApart(y, x, k, g) ==
  /\ Streams(y, k, g) /\ Suspended(y, k) = Suspended(x, k)
  /\ \A e : FileAt(y, e) = FileAt(x, e)
  /\ \A e : Source(x, e, k) => Source(y, e, k)
  /\ y.save_fd0 = x.save_fd0 /\ y.oupState = x.oupState /\ y.inpcnt = x.inpcnt

(* The command reads the shell's input: a pipe has at least what was read.  *)
LEMMA CommandReads ==
  ASSUME NEW x, Kept(x, TRUE), NEW k, NEW g, Streams(x, k, g), NEW n \in Int, k # {} => g <= n,
         NEW y, y = [x EXCEPT !.open[x.fds[x.originp]].pos = n]
  PROVE  ReadApart(y, x, k, g)
<1>1. x \in Globs /\ x.fds[x.originp] \in Opens  BY UsedOpen DEF Uses
<1>2. PICK o \in Opens : o = x.fds[x.originp]  BY <1>1
<1>3. y = [x EXCEPT !.open[o].pos = n]  BY <1>2
<1>4. x.open \in [Opens -> Entry] /\ x.fds \in [Fd -> 0 .. MaxOpen]  BY <1>1, Fields
<1>5. /\ y.fds = x.fds /\ y.open = [x.open EXCEPT ![o].pos = n] /\ y.inc = x.inc
      /\ y.originp = x.originp /\ y.save_fd0 = x.save_fd0 /\ y.oupState = x.oupState
      /\ y.inpcnt = x.inpcnt
  BY <1>1, <1>3 DEF Globs
<1>6. \A a \in Opens : y.open[a].file = x.open[a].file  BY <1>4, <1>5 DEF Entry
<1>7. \A e : FileAt(y, e) = FileAt(x, e)
  <2> SUFFICES ASSUME NEW e PROVE FileAt(y, e) = FileAt(x, e)  OBVIOUS
  <2>1. CASE IsOpen(x, e)
    <3>1. x.fds[e] \in Opens  BY <1>4, <2>1, Numbers DEF IsOpen, Fd, Opens
    <3> QED BY <1>5, <1>6, <2>1, <3>1 DEF FileAt, IsOpen
  <2>2. CASE ~IsOpen(x, e)
    BY <1>5, <2>2 DEF FileAt, IsOpen
  <2> QED BY <2>1, <2>2
<1>8. \A e : Source(x, e, k) => Source(y, e, k)  BY <1>5, <1>7 DEF Source
<1>9. EntryAt(y, y.originp).pos = n  BY <1>2, <1>4, <1>5 DEF EntryAt, Entry
<1>10. Streams(y, k, g)
  <2>1. Source(y, 0, k)  BY <1>8 DEF Streams
  <2>2. \A i \in DOMAIN y.inc :
          /\ Source(y, y.inc[i].fd, k) /\ y.inc[i].pos \in Nat
          /\ FileAt(y, y.inc[i].fd) \notin k => y.inc[i].pos <= Size(FileAt(y, y.inc[i].fd))
    BY <1>5, <1>7, <1>8 DEF Streams
  <2> QED BY <1>9, <2>1, <2>2 DEF Streams
<1>11. Suspended(y, k) = Suspended(x, k)  BY <1>5, <1>7 DEF Suspended
<1> QED BY <1>5, <1>7, <1>8, <1>10, <1>11 DEF ReadApart

-----------------------------------------------------------------------------
(* Includes suspend the file on top, and it is read on from where it was.   *)

(* What a descriptor fd refers to is on l instead.                          *)
Renumbered(k, t, fd, l, E) ==
  /\ Tables(k) /\ SameVars(k, t) /\ Stay(k, t, E)
  /\ k.fds[l] = t.fds[fd] /\ EntryAt(k, l) = EntryAt(t, fd)

(* dup, and close.                                                          *)
LEMMA Renumber ==
  ASSUME NEW t, Tables(t), NEW fd \in Fd, t.fds[fd] # Closed,
         NEW l, l = LowestFree(t), l \in Fd, t.fds[l] = Closed,
         NEW E, \A e \in E : e \in Fd /\ e # fd /\ t.fds[e] # Closed,
         NEW k, k = Close(Dup(t, fd), fd)
  PROVE  Renumbered(k, t, fd, l, E)
<1>0. t \in Globs /\ t.fds \in [Fd -> 0 .. MaxOpen] /\ l # fd  BY DEF Tables, Globs
<1>1. PICK r : r = Dup(t, fd)  OBVIOUS
<1>2. /\ Tables(r) /\ SameVars(r, t) /\ r.buf = t.buf /\ Stay(r, t, E)
      /\ r.fds = [t.fds EXCEPT ![l] = t.fds[fd]] /\ EntryAt(r, l) = EntryAt(t, fd)
  BY <1>1, DupStay
<1>3. PICK F : F = E \cup {l}  OBVIOUS
<1>4. \A e \in F : e \in Fd /\ e # fd /\ r.fds[e] # Closed  BY <1>0, <1>2, <1>3
<1>5. /\ Tables(k) /\ SameVars(k, r) /\ k.buf = r.buf /\ Stay(k, r, F)
      /\ k.fds = [r.fds EXCEPT ![fd] = Closed]
  <2>1. k = Close(r, fd) /\ Tables(r)  BY <1>1, <1>2
  <2> QED BY <1>4, <2>1, CloseStay
<1>6. Stay(k, r, E)  BY <1>3, <1>5 DEF Stay
<1>7. Stay(k, t, E)  BY <1>2, <1>6, StayCompose
<1>8. k.fds[l] = r.fds[l] /\ EntryAt(k, l) = EntryAt(r, l)  BY <1>3, <1>5 DEF Stay
<1>9. SameVars(k, t)  BY <1>2, <1>5 DEF SameVars
<1> QED BY <1>0, <1>2, <1>5, <1>7, <1>8, <1>9 DEF Renumbered

(* What SuspendTables leaves out: the entries, and the buffer.              *)
SuspendedStay(u, x, l) ==
  /\ Stay(u, x, {x.originp} \cup IncFds(x)) /\ EntryAt(u, l) = EntryAt(x, 0)
  /\ u.buf = EmptyBuf

(* The file on descriptor 0 is suspended.                                   *)
LEMMA SuspendStay ==
  ASSUME NEW x, Kept(x, FALSE), NEW l, l = LowestFree(x), NEW p \in Int,
         NEW t, t = [x EXCEPT !.inc = Append(@, [fd |-> l, pos |-> p])],
         NEW u, u = Clrbuf(Close(Dup(t, 0), 0))
  PROVE  SuspendedStay(u, x, l)
<1>0. /\ x \in Globs /\ Tables(x) /\ x.fds \in [Fd -> 0 .. MaxOpen] /\ x.inc \in Suspensions
      /\ 0 \in Fd /\ x.fds[0] # Closed /\ 0 \in Uses(x, FALSE)
  BY UsedOpen, Numbers DEF Kept, Uses, Suspensions
<1>1. l \in Fd /\ x.fds[l] = Closed
  <2>1. Len(x.inc) <= Depth  BY DEF Kept
  <2>2. \A fd \in Fd : x.fds[fd] # Closed =>
          fd \in {0, 1, 2, x.originp, x.origoup, 0} \cup IncFds(x)
    BY DEF Kept, Uses
  <2> QED BY <1>0, <2>1, <2>2, FreeFd
<1>2. l # 0 /\ l \notin Uses(x, FALSE)  BY <1>0, <1>1 DEF Kept
<1>3. PICK q : q = Append(x.inc, [fd |-> l, pos |-> p])  OBVIOUS
<1>4. q \in Suspensions
  <2>1. [fd |-> l, pos |-> p] \in [fd : Fd, pos : Int]  BY <1>1
  <2> QED BY <1>0, <1>3, <2>1, AppendProperties DEF Suspensions
<1>5. /\ Tables(t) /\ t.fds = x.fds /\ \A fd : EntryAt(t, fd) = EntryAt(x, fd)
  <2>1. t = [x EXCEPT !.inc = q]  BY <1>3
  <2>2. IncChanged(t, x, q)  BY <1>0, <1>4, <2>1, IncChange
  <2> QED BY <2>2 DEF IncChanged
<1>6. PICK E : E = {x.originp} \cup IncFds(x)  OBVIOUS
<1>7. \A e \in E : e \in Fd /\ e # 0 /\ e # l /\ x.fds[e] # Closed
  <2>1. E \subseteq Uses(x, FALSE)  BY <1>6 DEF Uses
  <2>2. 0 \notin E  BY <1>6 DEF Kept, Apart, IncFds
  <2> QED BY <1>0, <1>2, <2>1, <2>2, UsedOpen
<1>8. PICK k : k = Close(Dup(t, 0), 0)  OBVIOUS
<1>9. LowestFree(t) = l  BY <1>5 DEF LowestFree
<1>10. \A e \in E : e \in Fd /\ e # 0 /\ t.fds[e] # Closed  BY <1>5, <1>7
<1>11. Renumbered(k, t, 0, l, E)
  <2>1. t.fds[l] = Closed /\ t.fds[0] # Closed  BY <1>0, <1>1, <1>5
  <2> QED BY <1>0, <1>1, <1>5, <1>8, <1>9, <1>10, <2>1, Renumber
<1>12. u = Clrbuf(k)  BY <1>8
<1>13. u.fds = k.fds /\ u.open = k.open /\ u.buf = EmptyBuf
  <2>1. k \in Globs  BY <1>11 DEF Renumbered, Tables
  <2> QED BY <1>12, <2>1 DEF Clrbuf, Globs
<1>14. EntryAt(u, l) = EntryAt(x, 0)  BY <1>5, <1>11, <1>13 DEF Renumbered, EntryAt
<1>15. Stay(u, x, E)  BY <1>5, <1>11, <1>13 DEF Renumbered, Stay, EntryAt
<1> QED BY <1>6, <1>13, <1>14, <1>15 DEF SuspendedStay

(* openprev, before it puts the buffer where the file was suspended.        *)
Resumes(w, x, f, E) ==
  /\ w \in Globs /\ w.inc = SubSeq(x.inc, 1, Len(x.inc) - 1) /\ SameRest(w, x)
  /\ w.buf = EmptyBuf /\ w.fds[0] = x.fds[f] /\ EntryAt(w, 0) = EntryAt(x, f)
  /\ Stay(w, x, E)

(* And after it.                                                            *)
ResumedFrom(y, x, f, E) ==
  \E w : Resumes(w, x, f, E) /\ y = SetTo(w, x.inc[Len(x.inc)].pos)

(* It is the file suspended last, on descriptor 0.                          *)
LEMMA PrevResumes ==
  ASSUME NEW x, Tables(x), x.inc # <<>>, x.fds[0] = Closed,
         NEW f \in Fd \ {0}, f = x.inc[Len(x.inc)].fd, x.fds[f] # Closed,
         NEW E, \A e \in E : e \in Fd /\ e # 0 /\ e # f /\ x.fds[e] # Closed,
         NEW y, y = OpenPrev(x)
  PROVE  ResumedFrom(y, x, f, E)
<1>0. x \in Globs /\ x.fds \in [Fd -> 0 .. MaxOpen] /\ x.inc \in Suspensions /\ 0 \in Fd
  BY Numbers DEF Tables, Globs, Suspensions
<1>1. PICK q : q = SubSeq(x.inc, 1, Len(x.inc) - 1)  OBVIOUS
<1>2. q \in Suspensions
  <2>1. PICK v : v = x.inc  OBVIOUS
  <2>2. v \in Suspensions /\ v # <<>> /\ q = SubSeq(v, 1, Len(v) - 1)  BY <1>0, <1>1, <2>1
  <2> QED BY <2>2, FrontOf DEF IsFront
<1>3. PICK t : t = [x EXCEPT !.inc = q]  OBVIOUS
<1>4. /\ Tables(t) /\ t.fds = x.fds /\ t.inc = q /\ SameRest(t, x)
      /\ \A fd : EntryAt(t, fd) = EntryAt(x, fd)
  BY <1>2, <1>3, IncChange DEF IncChanged
<1>5. LowestFree(t) = 0
  <2>1. LowestFree(t) \in Fd /\ LowestFree(t) <= 0  BY <1>0, <1>4, Lowest
  <2> QED BY <2>1, Numbers DEF Fd
<1>6. PICK k : k = Close(Dup(t, f), f)  OBVIOUS
<1>7. t.fds[0] = Closed /\ t.fds[f] # Closed /\ f \in Fd  BY <1>4
<1>8. \A e \in E : e \in Fd /\ e # f /\ t.fds[e] # Closed  BY <1>4
<1>9. Renumbered(k, t, f, 0, E)
  <2>1. PICK l : l = LowestFree(t)  OBVIOUS
  <2>2. l = 0  BY <1>5, <2>1
  <2>3. Renumbered(k, t, f, l, E)  BY <1>0, <1>4, <1>6, <1>7, <1>8, <2>1, <2>2, Renumber
  <2> QED BY <2>2, <2>3
<1>10. PICK w : w = Clrbuf(k)  OBVIOUS
<1>11. w \in Globs /\ w.fds = k.fds /\ w.open = k.open /\ w.buf = EmptyBuf /\ SameVars(w, k)
  <2>1. k \in Globs  BY <1>9 DEF Renumbered, Tables
  <2>2. Reads(w, k) /\ w.open = k.open  BY <1>10, <2>1, ClrbufReads
  <2>3. w.buf = EmptyBuf  BY <1>10, <2>1 DEF Clrbuf, Globs
  <2> QED BY <2>2, <2>3 DEF Reads
<1>12. y = SetTo(w, x.inc[Len(x.inc)].pos)
  <2>1. t = [x EXCEPT !.inc = SubSeq(@, 1, Len(@) - 1)]  BY <1>1, <1>3
  <2> QED BY <1>6, <1>10, <2>1 DEF OpenPrev, Nesting
<1>13. w.inc = q /\ SameRest(w, x)
  BY <1>4, <1>9, <1>11 DEF Renumbered, SameVars, SameRest
<1>14. w.fds[0] = x.fds[f] /\ EntryAt(w, 0) = EntryAt(x, f)
  BY <1>4, <1>9, <1>11 DEF Renumbered, EntryAt
<1>15. Stay(w, x, E)
  <2>1. Stay(w, k, E)  BY <1>9, <1>11 DEF Renumbered, Stay, EntryAt
  <2>2. Stay(t, x, E)  BY <1>4 DEF Stay
  <2>3. Stay(k, x, E)  BY <1>9, <2>2, StayCompose DEF Renumbered
  <2> QED BY <2>1, <2>3, StayCompose
<1>16. Resumes(w, x, f, E)  BY <1>1, <1>11, <1>13, <1>14, <1>15 DEF Resumes
<1> QED BY <1>12, <1>16 DEF ResumedFrom

(* The places there may be.                                                 *)
PlaceSet == [file : FileSet, at : Int]

(* Those of the files suspended.                                            *)
LEMMA SuspendedPlaces ==
  ASSUME NEW x \in Globs, NEW k
  PROVE  /\ Len(x.inc) \in Nat /\ DOMAIN x.inc = 1 .. Len(x.inc)
         /\ Suspended(x, k) \in Seq(PlaceSet) /\ Len(Suspended(x, k)) = Len(x.inc)
<1>1. x.inc \in Suspensions /\ x.fds \in [Fd -> 0 .. MaxOpen] /\ x.open \in [Opens -> Entry]
  BY DEF Globs, Suspensions
<1>2. PICK n : n = Len(x.inc)  OBVIOUS
<1>3. n \in Nat /\ DOMAIN x.inc = 1 .. n  BY <1>1, <1>2, LenProperties DEF Suspensions
<1>4. ASSUME NEW i \in 1 .. n PROVE PlaceAt(k, FileAt(x, x.inc[i].fd), x.inc[i].pos) \in PlaceSet
  <2>1. x.inc[i] \in [fd : Fd, pos : Int]
    BY <1>1, <1>2, <1>3, ElementOfSeq DEF Suspensions
  <2>2. FileAt(x, x.inc[i].fd) \in FileSet
    <3>1. PICK fd \in Fd : fd = x.inc[i].fd  BY <2>1
    <3>2. x.fds[fd] # Closed => FileAt(x, fd) \in FileSet  BY Fields
    <3>3. x.fds[fd] = Closed => FileAt(x, fd) = NoFile  BY DEF FileAt, IsOpen
    <3> QED BY <3>1, <3>2, <3>3 DEF FileSet
  <2> QED BY <2>1, <2>2 DEF PlaceAt, PlaceSet
<1>5. Suspended(x, k) = [i \in 1 .. n |-> PlaceAt(k, FileAt(x, x.inc[i].fd), x.inc[i].pos)]
  BY <1>3 DEF Suspended
<1>6. Suspended(x, k) \in [1 .. n -> PlaceSet]  BY <1>4, <1>5
<1>7. Suspended(x, k) \in Seq(PlaceSet)  BY <1>3, <1>6, SeqDef
<1>8. Len(Suspended(x, k)) = n  BY <1>3, <1>5, <1>7, LenProperties
<1> QED BY <1>2, <1>3, <1>7, <1>8

(* That of the file on top.                                                 *)
LEMMA TopPlace ==
  ASSUME NEW x \in Globs, x.fds[0] # Closed, NEW k
  PROVE  OnTop(x, k) \in PlaceSet
<1>1. FileAt(x, 0) \in FileSet /\ EntryAt(x, 0).pos \in Int  BY Fields, Numbers
<1>2. WhereIn(x) \in Int  BY <1>1, Fields DEF WhereIn
<1> QED BY <1>1, <1>2 DEF OnTop, PlaceAt, PlaceSet

(* One more is suspended than before.                                       *)
OneMore(y, x) ==
  /\ Len(y.inc) = Len(x.inc) + 1
  /\ \A i \in 1 .. Len(x.inc) :
       y.inc[i] = x.inc[i] /\ FileAt(y, y.inc[i].fd) = FileAt(x, x.inc[i].fd)

(* The place of the last.                                                   *)
LastPlace(y, k) == PlaceAt(k, FileAt(y, y.inc[Len(y.inc)].fd), y.inc[Len(y.inc)].pos)

(* It comes after the others.                                               *)
LEMMA MoreSuspended ==
  ASSUME NEW x \in Globs, NEW y \in Globs, NEW k, OneMore(y, x)
  PROVE  Suspended(y, k) = Append(Suspended(x, k), LastPlace(y, k))
<1>1. PICK n : n = Len(x.inc)  OBVIOUS
<1>2. PICK q : q = Suspended(x, k)  OBVIOUS
<1>0. PICK e : e = LastPlace(y, k)  OBVIOUS
<1>3. PICK r : r = Suspended(y, k)  OBVIOUS
<1>4. /\ n \in Nat /\ DOMAIN x.inc = 1 .. n /\ q \in Seq(PlaceSet) /\ Len(q) = n
      /\ Len(y.inc) = n + 1 /\ DOMAIN y.inc = 1 .. n + 1 /\ r \in Seq(PlaceSet) /\ Len(r) = n + 1
  BY <1>1, <1>2, <1>3, SuspendedPlaces DEF OneMore
<1>5. e = r[n + 1]  BY <1>0, <1>3, <1>4 DEF Suspended, LastPlace
<1>6. e \in PlaceSet
  <2>1. n + 1 \in 1 .. Len(r)  BY <1>4
  <2> QED BY <1>4, <1>5, <2>1, ElementOfSeq
<1>7. ASSUME NEW i \in 1 .. n PROVE r[i] = q[i]
  <2>1. i \in DOMAIN x.inc /\ i \in DOMAIN y.inc  BY <1>4
  <2>2. y.inc[i] = x.inc[i] /\ FileAt(y, y.inc[i].fd) = FileAt(x, x.inc[i].fd)  BY <1>1 DEF OneMore
  <2> QED BY <1>2, <1>3, <2>1, <2>2 DEF Suspended
<1>8. PICK z : z = Append(q, e)  OBVIOUS
<1>9. /\ z \in Seq(PlaceSet) /\ Len(z) = n + 1 /\ z[n + 1] = e
      /\ \A i \in 1 .. n : z[i] = q[i]
  BY <1>4, <1>6, <1>8, AppendProperties
<1>10. \A i \in 1 .. n + 1 : z[i] = r[i]
  <2> TAKE i \in 1 .. n + 1
  <2>1. i \in 1 .. n \/ i = n + 1  BY <1>4
  <2> QED BY <1>5, <1>7, <1>9, <2>1
<1>11. z = r  BY <1>4, <1>9, <1>10, SeqEqual
<1> QED BY <1>0, <1>2, <1>3, <1>8, <1>11

(* A file suspended is put on top, and doset to its place.                  *)
LEMMA Resumed ==
  ASSUME NEW w \in Globs, NEW y, Kept(y, FALSE), w.buf = EmptyBuf, w.fds[0] # Closed,
         NEW g \in Nat, Streams(w, Pipes, g), NEW p \in Nat,
         FileAt(w, 0) \notin Pipes => p <= Size(FileAt(w, 0)), y = SetTo(w, p)
  PROVE  /\ Streams(y, Pipes, g) /\ Buffered(y, Pipes, g) /\ Suspended(y, Pipes) = Suspended(w, Pipes)
         /\ OnTop(y, Pipes) = PlaceAt(Pipes, FileAt(w, 0), p)
<1>1. Reads(y, w)
  <2>1. p \in Int  OBVIOUS
  <2> QED BY <2>1, SetToReads
<1>2. Kept(w, FALSE)
  <2>1. PICK cmd \in BOOLEAN : cmd = FALSE  OBVIOUS
  <2>2. Kept(y, cmd) /\ w.fds = y.fds /\ SameUses(w, y) /\ w.save_fd0 = y.save_fd0
        /\ \A o \in Opens : w.open[o].file = y.open[o].file
    BY <1>1, <2>1 DEF Reads, SameVars, SameUses
  <2>3. Kept(w, cmd)  BY <2>2, SameKept
  <2> QED BY <2>1, <2>3
<1>3. FileAt(w, 0) \in Pipes => g <= EntryAt(w, 0).pos
  <2> HAVE FileAt(w, 0) \in Pipes
  <2>1. w.fds[0] = w.fds[w.originp] /\ Pipes # {}  BY DEF Streams, Source
  <2> QED BY <2>1 DEF Streams, EntryAt
<1>4. /\ Buffered(y, Pipes, g) /\ FileAt(y, 0) = FileAt(w, 0)
      /\ FileAt(w, 0) \notin Pipes => Position(y) = p
      /\ \E q \in Int : Moved(y, w, q) /\ EntryAt(w, 0).pos \in Int
                        /\ (FileAt(w, 0) \in Pipes => EntryAt(w, 0).pos <= q)
  BY <1>3, SetToResult
<1>5. PICK q \in Int : Moved(y, w, q) /\ (FileAt(w, 0) \in Pipes => EntryAt(w, 0).pos <= q)
  BY <1>4
<1>6. Under(y, w, Pipes) /\ Source(y, 0, Pipes)  BY <1>2, <1>5, MovedUnder DEF Streams
<1>7. Streams(y, Pipes, g) /\ Suspended(y, Pipes) = Suspended(w, Pipes)
  <2>1. g \in Int  OBVIOUS
  <2> QED BY <1>6, <2>1, UnderStreams
<1>8. OnTop(y, Pipes) = PlaceAt(Pipes, FileAt(w, 0), p)
  <2>1. CASE FileAt(w, 0) \in Pipes  BY <1>4, <2>1 DEF OnTop, PlaceAt
  <2>2. CASE FileAt(w, 0) \notin Pipes
    <3>1. WhereIn(y) = p  BY <1>4, <2>2, PositionIsWhere
    <3> QED BY <1>4, <3>1 DEF OnTop
  <2> QED BY <2>1, <2>2
<1> QED BY <1>4, <1>7, <1>8

(* The files read and the buffer agree.                                     *)
Flows(x, k, g) == Streams(x, k, g) /\ Buffered(x, k, g)

(* Every place is as it was.                                                *)
SamePlaces(y, x, k) == Suspended(y, k) = Suspended(x, k) /\ OnTop(y, k) = OnTop(x, k)

(* The position that zysif saves.                                           *)
LEMMA PositionSaved ==
  ASSUME NEW x \in Globs, NEW k, NEW g, Buffered(x, k, g)
  PROVE  /\ Position(x) \in Nat
         /\ FileAt(x, 0) \notin k => Position(x) <= Size(FileAt(x, 0))
         /\ PlaceAt(k, FileAt(x, 0), Position(x)) = OnTop(x, k)
<1>1. Position(x) \in Nat
  <2>1. x.buf.offset \in Nat /\ x.buf.fill \in Nat /\ x.buf.next \in 0 .. x.buf.fill
    BY DEF Buffered
  <2> QED BY <2>1 DEF Position
<1>2. FileAt(x, 0) \notin k =>
        WhereIn(x) = Position(x) /\ Position(x) \in 0 .. Size(FileAt(x, 0))
  BY PositionIsWhere
<1>3. FileAt(x, 0) \notin k => Position(x) <= Size(FileAt(x, 0))
  <2>1. Size(FileAt(x, 0)) \in Nat  BY TextLength DEF Size
  <2> QED BY <1>2, <2>1
<1> QED BY <1>1, <1>2, <1>3 DEF PlaceAt, OnTop

(* An include that is not found: the file suspended is read on from where   *)
(* it was.                                                                  *)
LEMMA RefusedFlows ==
  ASSUME NEW x, Kept(x, FALSE), NEW g \in Nat, Flows(x, Pipes, g), NEW l, NEW p, p = Position(x),
         NEW u, SuspendedAt(u, x, l, p), SuspendedStay(u, x, l), NEW y, y = OpenPrev(u)
  PROVE  Flows(y, Pipes, g) /\ SamePlaces(y, x, Pipes)
<1>0. /\ x \in Globs /\ x.inc \in Suspensions /\ 0 \in Fd /\ x.originp \in Fd \ {0, 1, 2}
      /\ (\A fd \in Uses(x, FALSE) : fd \in Fd /\ x.fds[fd] # Closed)
  BY UsedOpen, Numbers DEF Suspensions
<1>1. /\ p \in Nat /\ (FileAt(x, 0) \notin Pipes => p <= Size(FileAt(x, 0)))
      /\ PlaceAt(Pipes, FileAt(x, 0), p) = OnTop(x, Pipes)
  BY <1>0, PositionSaved DEF Flows
<1>2. Kept(y, FALSE)
  <2>1. p \in Int  BY <1>1
  <2> QED BY <2>1, PushRefused DEF IncludeKept
<1>3. /\ l \in Fd \ {0} /\ l \notin Uses(x, FALSE)
      /\ Tables(u) /\ u.inc = Append(x.inc, [fd |-> l, pos |-> p]) /\ SameRest(u, x)
      /\ u.fds[0] = Closed /\ u.fds[l] = x.fds[0]
      /\ \A e \in Fd : e # 0 /\ e # l => u.fds[e] = x.fds[e]
  BY DEF SuspendedAt
<1>4. /\ u.inc # <<>> /\ u.inc[Len(u.inc)].fd = l /\ u.inc[Len(u.inc)].pos = p
      /\ SubSeq(u.inc, 1, Len(u.inc) - 1) = x.inc
  <2>1. PICK e : e = [fd |-> l, pos |-> p]  OBVIOUS
  <2>2. e \in [fd : Fd, pos : Int] /\ e.fd = l /\ e.pos = p /\ u.inc = Append(x.inc, e)
    BY <1>1, <1>3, <2>1
  <2>3. PICK r : r = Append(x.inc, e)  OBVIOUS
  <2>4. /\ r # <<>> /\ Len(r) = Len(x.inc) + 1 /\ r[Len(x.inc) + 1] = e
        /\ SubSeq(r, 1, Len(r) - 1) = x.inc
    BY <1>0, <2>2, <2>3, FrontOfAppend
  <2> QED BY <2>2, <2>3, <2>4
<1>5. PICK E : E = {x.originp} \cup IncFds(x)  OBVIOUS
<1>6. \A e \in E : e \in Uses(x, FALSE) /\ e # 0
  BY <1>5 DEF Uses, Kept, Apart, IncFds
<1>7. \A e \in E : e \in Fd /\ e # 0 /\ e # l /\ u.fds[e] # Closed  BY <1>0, <1>3, <1>6
<1>8. u.fds[l] # Closed /\ x.fds[0] # Closed  BY <1>0, <1>3 DEF Uses
<1>9. PICK w : Resumes(w, u, l, E) /\ y = SetTo(w, u.inc[Len(u.inc)].pos)
  <2>1. /\ Tables(u) /\ u.inc # <<>> /\ u.fds[0] = Closed /\ l \in Fd \ {0}
        /\ l = u.inc[Len(u.inc)].fd /\ u.fds[l] # Closed
    BY <1>3, <1>4, <1>8
  <2>2. ResumedFrom(y, u, l, E)  BY <2>1, <1>7, PrevResumes
  <2> QED BY <2>2 DEF ResumedFrom
<1>10. /\ w \in Globs /\ w.inc = x.inc /\ w.originp = x.originp /\ w.buf = EmptyBuf
       /\ w.fds[0] = x.fds[0] /\ EntryAt(w, 0) = EntryAt(x, 0) /\ y = SetTo(w, p)
  BY <1>3, <1>4, <1>9 DEF Resumes, SameRest, SuspendedStay
<1>11. Stay(w, x, E)
  <2>1. Stay(u, x, E)  BY <1>5 DEF SuspendedStay
  <2>2. Stay(w, u, E)  BY <1>9 DEF Resumes
  <2> QED BY <2>1, <2>2, StayCompose
<1>12. Under(w, x, Pipes)  BY <1>0, <1>5, <1>10, <1>11, StayUnder
<1>13. FileAt(w, 0) = FileAt(x, 0) /\ w.fds[0] # Closed
  <2>1. FileAt(w, 0) = EntryAt(w, 0).file /\ FileAt(x, 0) = EntryAt(x, 0).file
    BY <1>0, <1>8, <1>10, Fields
  <2> QED BY <1>8, <1>10, <2>1
<1>14. Source(w, 0, Pipes)
  <2>1. w.fds[w.originp] = x.fds[x.originp]  BY <1>5, <1>10, <1>11 DEF Stay
  <2> QED BY <1>10, <1>13, <2>1 DEF Flows, Streams, Source
<1>15. Streams(w, Pipes, g) /\ Suspended(w, Pipes) = Suspended(x, Pipes)
  <2>1. g \in Int  OBVIOUS
  <2> QED BY <1>12, <1>14, <2>1, UnderStreams DEF Flows
<1>16. /\ Streams(y, Pipes, g) /\ Buffered(y, Pipes, g) /\ Suspended(y, Pipes) = Suspended(w, Pipes)
       /\ OnTop(y, Pipes) = PlaceAt(Pipes, FileAt(w, 0), p)
  BY <1>1, <1>2, <1>10, <1>13, <1>15, Resumed
<1> QED BY <1>1, <1>13, <1>15, <1>16 DEF Flows, SamePlaces

(* A file is opened on l, and the descriptors of E stay.                    *)
OpenedStay(y, x, f, l, E) ==
  /\ Tables(y) /\ SameVars(y, x) /\ y.buf = x.buf /\ Stay(y, x, E)
  /\ \E o \in Opens : y.fds = [x.fds EXCEPT ![l] = o]
  /\ EntryAt(y, l) = [file |-> f, pos |-> 0]

(* open, as OpenStay has it.                                                *)
LEMMA OpenStays ==
  ASSUME NEW x, Tables(x), NEW f \in FileSet \ {NoFile}, NEW l, l = LowestFree(x), l \in Fd,
         x.fds[l] = Closed, \E i \in Opens : x.open[i].file = NoFile, NEW E,
         \A e \in E : e \in Fd /\ x.fds[e] # Closed
  PROVE  OpenedStay(OpenFile(x, f), x, f, l, E)
<1>1. PICK y : y = OpenFile(x, f)  OBVIOUS
<1>2. /\ Tables(y) /\ SameVars(y, x) /\ y.buf = x.buf /\ Stay(y, x, E)
      /\ \E o \in Opens : y.fds = [x.fds EXCEPT ![l] = o] /\ \A e \in Fd : x.fds[e] # o
      /\ EntryAt(y, l) = [file |-> f, pos |-> 0]
  BY <1>1, OpenStay
<1> QED BY <1>1, <1>2 DEF OpenedStay

(* The file on top is suspended, and f is on top at its start.              *)
Entered(y, x, k, f) ==
  /\ Suspended(y, k) = Append(Suspended(x, k), OnTop(x, k))
  /\ OnTop(y, k) = [file |-> f, at |-> 0]

(* An include that is found.                                                *)
LEMMA FoundFlows ==
  ASSUME NEW x, Kept(x, FALSE), Len(x.inc) < Depth, NEW g \in Nat, Flows(x, Pipes, g),
         NEW l, NEW p, p = Position(x), NEW u, SuspendedAt(u, x, l, p), SuspendedStay(u, x, l),
         NEW f \in DOMAIN Text, f \notin Pipes, NEW y, y = OpenFile(u, f)
  PROVE  Flows(y, Pipes, g) /\ Entered(y, x, Pipes, f)
<1>0. /\ x \in Globs /\ x.fds \in [Fd -> 0 .. MaxOpen] /\ x.inc \in Suspensions
      /\ 0 \in Fd /\ x.originp \in Fd \ {0, 1, 2} /\ 0 \in Uses(x, FALSE)
      /\ (\A fd \in Uses(x, FALSE) : fd \in Fd /\ x.fds[fd] # Closed)
  BY UsedOpen, Numbers DEF Suspensions, Uses
<1>1. /\ p \in Nat /\ (FileAt(x, 0) \notin Pipes => p <= Size(FileAt(x, 0)))
      /\ PlaceAt(Pipes, FileAt(x, 0), p) = OnTop(x, Pipes)
  BY <1>0, PositionSaved DEF Flows
<1>2. f \in FileSet \ {NoFile}  BY StandardFilesAssumption DEF FileSet
<1>3. Kept(y, FALSE)
  <2>1. p \in Int  BY <1>1
  <2> QED BY <1>2, <2>1, PushOpens DEF IncludeKept
<1>4. /\ l \in Fd \ {0} /\ l \notin Uses(x, FALSE)
      /\ Tables(u) /\ u.inc = Append(x.inc, [fd |-> l, pos |-> p]) /\ SameRest(u, x)
      /\ u.fds[0] = Closed /\ u.fds[l] = x.fds[0]
      /\ \A e \in Fd : e # 0 /\ e # l => u.fds[e] = x.fds[e]
      /\ Stay(u, x, {x.originp} \cup IncFds(x)) /\ EntryAt(u, l) = EntryAt(x, 0) /\ u.buf = EmptyBuf
  BY DEF SuspendedAt, SuspendedStay
<1>5. PICK n : n = Len(x.inc)  OBVIOUS
<1>6. /\ n \in Nat /\ Len(u.inc) = n + 1 /\ DOMAIN x.inc = 1 .. n /\ DOMAIN u.inc = 1 .. n + 1
      /\ u.inc[n + 1].fd = l /\ u.inc[n + 1].pos = p /\ \A i \in 1 .. n : u.inc[i] = x.inc[i]
  <2>1. PICK e : e = [fd |-> l, pos |-> p]  OBVIOUS
  <2>2. e \in [fd : Fd, pos : Int] /\ e.fd = l /\ e.pos = p /\ u.inc = Append(x.inc, e)
    BY <1>1, <1>4, <2>1
  <2>3. /\ Len(x.inc) \in Nat /\ Len(u.inc) = Len(x.inc) + 1 /\ u.inc[Len(x.inc) + 1] = e
        /\ DOMAIN x.inc = 1 .. Len(x.inc) /\ DOMAIN u.inc = 1 .. Len(x.inc) + 1
        /\ \A i \in 1 .. Len(x.inc) : u.inc[i] = x.inc[i]
    BY <1>0, <2>2, FrontOfAppend
  <2> QED BY <1>5, <2>2, <2>3
<1>7. PICK E : E = ({x.originp} \cup IncFds(x)) \cup {l}  OBVIOUS
<1>8. \A e \in E : e \in Fd /\ e # 0 /\ u.fds[e] # Closed
  <2>1. \A e \in {x.originp} \cup IncFds(x) : e \in Uses(x, FALSE) /\ e # 0
    BY DEF Uses, Kept, Apart, IncFds
  <2>2. u.fds[l] # Closed  BY <1>0, <1>4
  <2> QED BY <1>0, <1>4, <1>7, <2>1, <2>2
<1>9. \E i \in Opens : u.open[i].file = NoFile
  <2>1. Len(u.inc) <= Depth  BY <1>5, <1>6, Numbers
  <2>2. PICK a, b, c : a = x.fds[1] /\ b = x.fds[2] /\ c = x.fds[x.originp]  OBVIOUS
  <2>3. ASSUME NEW fd \in Fd, u.fds[fd] # Closed
        PROVE  u.fds[fd] \in {a, b, c} \cup {u.fds[u.inc[i].fd] : i \in DOMAIN u.inc}
    <3>1. CASE fd = l
      <4>1. n + 1 \in DOMAIN u.inc /\ u.inc[n + 1].fd = fd  BY <1>6, <3>1
      <4> QED BY <4>1
    <3>2. CASE fd # l
      <4>1. fd # 0 /\ u.fds[fd] = x.fds[fd] /\ x.fds[fd] # Closed  BY <1>4, <2>3, <3>2
      <4>2. x.fds[fd] \in {x.fds[1], x.fds[2], x.fds[x.originp]}
                             \cup {x.fds[x.inc[i].fd] : i \in DOMAIN x.inc}
        BY <4>1, EntriesInUse
      <4>3. ASSUME NEW i \in DOMAIN x.inc
            PROVE  i \in DOMAIN u.inc /\ u.fds[u.inc[i].fd] = x.fds[x.inc[i].fd]
        <5>1. x.inc[i].fd \in IncFds(x)  BY DEF IncFds
        <5> QED BY <1>4, <1>6, <4>3, <5>1 DEF Stay
      <4> QED BY <2>2, <4>1, <4>2, <4>3
    <3> QED BY <3>1, <3>2
  <2> QED BY <1>4, <2>1, <2>3, FreeEntry
<1>10. /\ Tables(y) /\ SameVars(y, u) /\ y.buf = EmptyBuf /\ Stay(y, u, E)
       /\ (\E o \in Opens : y.fds = [u.fds EXCEPT ![0] = o])
       /\ EntryAt(y, 0) = [file |-> f, pos |-> 0]
  <2>1. PICK h : h = LowestFree(u)  OBVIOUS
  <2>2. h = 0 /\ u.fds[h] = Closed
    <3>1. u.fds \in [Fd -> 0 .. MaxOpen]  BY <1>4 DEF Tables, Globs
    <3>2. h \in Fd /\ h <= 0  BY <1>0, <1>4, <2>1, <3>1, Lowest
    <3>3. h = 0  BY <3>2, Numbers DEF Fd
    <3> QED BY <1>4, <3>3
  <2>3. \A e \in E : e \in Fd /\ u.fds[e] # Closed  BY <1>8
  <2>4. OpenedStay(OpenFile(u, f), u, f, h, E)
    <3>1. Tables(u) /\ h \in Fd  BY <1>0, <1>4, <2>2
    <3> QED BY <1>2, <1>9, <2>1, <2>2, <2>3, <3>1, OpenStays
  <2> QED BY <1>4, <2>2, <2>4 DEF OpenedStay
<1>11. y \in Globs /\ u \in Globs /\ y.inc = u.inc /\ y.originp = x.originp
  BY <1>4, <1>10 DEF Tables, SameVars, SameRest
<1>12. y.fds[0] # Closed /\ FileAt(y, 0) = f
  <2>1. u.fds \in [Fd -> 0 .. MaxOpen]  BY <1>11, Fields
  <2>2. y.fds[0] # Closed  BY <1>0, <1>10, <2>1, Numbers
  <2> QED BY <1>0, <1>10, <1>11, <2>2, Fields
<1>13. y.fds[y.originp] = x.fds[x.originp] /\ EntryAt(y, y.originp) = EntryAt(x, x.originp)
  <2>1. x.originp \in E  BY <1>7
  <2> QED BY <1>4, <1>10, <1>11, <2>1 DEF Stay
<1>14. ASSUME NEW i \in 1 .. n
       PROVE  y.fds[y.inc[i].fd] = x.fds[x.inc[i].fd] /\ FileAt(y, y.inc[i].fd) = FileAt(x, x.inc[i].fd)
  <2>1. PICK e : e = x.inc[i].fd  OBVIOUS
  <2>2. e \in IncFds(x) /\ e \in E /\ y.inc[i].fd = e  BY <1>6, <1>7, <1>11, <2>1 DEF IncFds
  <2>3. FileAt(y, e) = FileAt(u, e)  BY <1>10, <1>11, <2>2, StayFiles
  <2>4. PICK F : F = {x.originp} \cup IncFds(x)  OBVIOUS
  <2>5. Stay(u, x, F) /\ e \in F  BY <1>4, <2>2, <2>4
  <2>6. FileAt(u, e) = FileAt(x, e)  BY <1>0, <1>11, <2>5, StayFiles
  <2> QED BY <1>4, <1>10, <2>1, <2>2, <2>3, <2>6 DEF Stay
<1>15. y.fds[l] = x.fds[0] /\ FileAt(y, l) = FileAt(x, 0)
  <2>1. l \in E  BY <1>7
  <2>2. FileAt(y, l) = FileAt(u, l)  BY <1>10, <1>11, <2>1, StayFiles
  <2>3. FileAt(u, l) = FileAt(x, 0)  BY DEF SuspendedAt
  <2> QED BY <1>4, <1>10, <2>1, <2>2, <2>3 DEF Stay
<1>16. Streams(y, Pipes, g)
  <2>1. Source(y, 0, Pipes)  BY <1>12 DEF Source
  <2>2. ASSUME NEW i \in DOMAIN y.inc
        PROVE  /\ Source(y, y.inc[i].fd, Pipes) /\ y.inc[i].pos \in Nat
               /\ FileAt(y, y.inc[i].fd) \notin Pipes => y.inc[i].pos <= Size(FileAt(y, y.inc[i].fd))
    <3>1. i \in 1 .. n \/ i = n + 1  BY <1>6, <1>11
    <3>2. CASE i \in 1 .. n
      <4>1. /\ Source(x, x.inc[i].fd, Pipes) /\ x.inc[i].pos \in Nat
            /\ FileAt(x, x.inc[i].fd) \notin Pipes => x.inc[i].pos <= Size(FileAt(x, x.inc[i].fd))
        BY <1>6, <3>2 DEF Flows, Streams
      <4>2. y.inc[i] = x.inc[i]  BY <1>6, <1>11, <3>2
      <4> QED BY <1>13, <1>14, <3>2, <4>1, <4>2 DEF Source
    <3>3. CASE i = n + 1
      <4>1. y.inc[i].fd = l /\ y.inc[i].pos = p  BY <1>6, <1>11, <3>3
      <4>2. Source(x, 0, Pipes)  BY DEF Flows, Streams
      <4> QED BY <1>1, <1>13, <1>15, <4>1, <4>2 DEF Source
    <3> QED BY <3>1, <3>2, <3>3
  <2>3. Pipes # {} => g <= EntryAt(y, y.originp).pos  BY <1>13 DEF Flows, Streams
  <2> QED BY <2>1, <2>2, <2>3 DEF Streams
<1>17. Fresh(y, y, Pipes)
  <2>1. Under(y, y, Pipes)
    <3>1. EntryAt(y, y.originp).pos \in Int
      <4>1. y.originp \in Fd /\ y.fds[y.originp] # Closed  BY <1>0, <1>11, <1>13 DEF Uses
      <4> QED BY <1>11, <4>1, Fields
    <3> QED BY <3>1 DEF Under
  <2> QED BY <1>10, <1>11, <1>16, <2>1 DEF Fresh, Streams
<1>18. Buffered(y, Pipes, g) /\ OnTop(y, Pipes) = [file |-> f, at |-> 0]
  <2>1. /\ Streams(y, Pipes, g) /\ Buffered(y, Pipes, g) /\ Suspended(y, Pipes) = Suspended(y, Pipes)
        /\ OnTop(y, Pipes) = [file |-> FileAt(y, 0), at |-> 0]
    BY <1>16, <1>17, FreshFlows
  <2> QED BY <1>12, <2>1
<1>19. Suspended(y, Pipes) = Append(Suspended(x, Pipes), OnTop(x, Pipes))
  <2>1. Len(y.inc) = Len(x.inc) + 1  BY <1>5, <1>6, <1>11
  <2>2. \A i \in 1 .. Len(x.inc) :
          y.inc[i] = x.inc[i] /\ FileAt(y, y.inc[i].fd) = FileAt(x, x.inc[i].fd)
    BY <1>5, <1>6, <1>11, <1>14
  <2>3. LastPlace(y, Pipes) = OnTop(x, Pipes)  BY <1>1, <1>6, <1>11, <1>15 DEF LastPlace
  <2>4. OneMore(y, x)  BY <2>1, <2>2 DEF OneMore
  <2> QED BY <1>0, <1>11, <2>3, <2>4, MoreSuspended
<1> QED BY <1>16, <1>18, <1>19 DEF Flows, Entered

(* close, and the descriptors of E stay.                                    *)
ClosedStay(y, x, fd, E) ==
  /\ Tables(y) /\ SameVars(y, x) /\ y.buf = x.buf /\ Stay(y, x, E)
  /\ y.fds = [x.fds EXCEPT ![fd] = Closed]

(* close, as CloseStay has it.                                              *)
LEMMA CloseStays ==
  ASSUME NEW x, Tables(x), NEW fd \in Fd, NEW E,
         \A e \in E : e \in Fd /\ e # fd /\ x.fds[e] # Closed
  PROVE  ClosedStay(Close(x, fd), x, fd, E)
<1>1. PICK y : y = Close(x, fd)  OBVIOUS
<1>2. /\ Tables(y) /\ SameVars(y, x) /\ y.buf = x.buf /\ Stay(y, x, E)
      /\ y.fds = [x.fds EXCEPT ![fd] = Closed]
  BY <1>1, CloseStay
<1> QED BY <1>1, <1>2 DEF ClosedStay

(* The file suspended last is on top.                                       *)
Left(y, x, k) == Suspended(x, k) = Append(Suspended(y, k), OnTop(y, k))

(* The end of an include: the file suspended last is read on from where it  *)
(* was.                                                                     *)
LEMMA PopFlows ==
  ASSUME NEW x, Kept(x, FALSE), x.inc # <<>>, NEW g \in Nat, Flows(x, Pipes, g),
         NEW c, c = Close(x, 0), NEW y, y = OpenPrev(c)
  PROVE  Flows(y, Pipes, g) /\ Left(y, x, Pipes)
<1>0. /\ x \in Globs /\ Tables(x) /\ x.fds \in [Fd -> 0 .. MaxOpen] /\ x.inc \in Suspensions
      /\ 0 \in Fd /\ x.originp \in Fd \ {0, 1, 2} /\ 0 \in Uses(x, FALSE) /\ Apart(x, FALSE)
      /\ (\A fd \in Uses(x, FALSE) : fd \in Fd /\ x.fds[fd] # Closed)
  BY UsedOpen, Numbers DEF Suspensions, Uses, Kept
<1>1. Kept(y, FALSE)  BY PopKept DEF IncludeKept
<1>2. PICK n : n = Len(x.inc)  OBVIOUS
<1>3. PICK q : q = SubSeq(x.inc, 1, Len(x.inc) - 1)  OBVIOUS
<1>4. /\ n \in Nat \ {0} /\ DOMAIN x.inc = 1 .. n
      /\ q \in Suspensions /\ Len(q) = n - 1 /\ DOMAIN q = 1 .. n - 1
      /\ \A i \in 1 .. n - 1 : q[i] = x.inc[i]
  <2>1. PICK v : v = x.inc  OBVIOUS
  <2>2. v \in Suspensions /\ v # <<>> /\ q = SubSeq(v, 1, Len(v) - 1) /\ n = Len(v)
    BY <1>0, <1>2, <1>3, <2>1
  <2>3. /\ Len(v) \in Nat \ {0} /\ DOMAIN v = 1 .. Len(v)
        /\ q \in Suspensions /\ Len(q) = Len(v) - 1 /\ DOMAIN q = 1 .. Len(v) - 1
        /\ \A i \in 1 .. Len(v) - 1 : q[i] = v[i]
    BY <2>2, FrontOf DEF IsFront
  <2> QED BY <2>1, <2>2, <2>3
<1>5. PICK f : f = x.inc[n].fd  OBVIOUS
<1>6. PICK p : p = x.inc[n].pos  OBVIOUS
<1>7. /\ f \in IncFds(x) /\ f \in Fd \ {0} /\ f # x.originp /\ x.fds[f] # Closed
      /\ n \in DOMAIN x.inc /\ Source(x, f, Pipes) /\ p \in Nat
      /\ FileAt(x, f) \notin Pipes => p <= Size(FileAt(x, f))
  <2>1. n \in DOMAIN x.inc  BY <1>4
  <2>2. f \in IncFds(x)  BY <1>5, <2>1 DEF IncFds
  <2>3. f \notin {0, 1, 2, x.originp}  BY <1>0, <1>5, <2>1 DEF Apart
  <2>4. f \in Uses(x, FALSE)  BY <2>2 DEF Uses
  <2>5. /\ Source(x, f, Pipes) /\ p \in Nat
        /\ FileAt(x, f) \notin Pipes => p <= Size(FileAt(x, f))
    BY <1>5, <1>6, <2>1 DEF Flows, Streams
  <2> QED BY <1>0, <2>1, <2>2, <2>3, <2>4, <2>5
<1>8. PICK E : E = {x.originp} \cup {x.inc[i].fd : i \in 1 .. n - 1}  OBVIOUS
<1>9. \A e \in E : e \in Fd /\ e # 0 /\ e # f /\ x.fds[e] # Closed
  <2>1. x.originp \in Uses(x, FALSE) /\ x.originp # 0  BY <1>0 DEF Uses
  <2>2. ASSUME NEW i \in 1 .. n - 1
        PROVE  x.inc[i].fd \in Uses(x, FALSE) /\ x.inc[i].fd # 0 /\ x.inc[i].fd # f
    <3>1. i \in DOMAIN x.inc /\ i # n  BY <1>4
    <3>2. x.inc[i].fd \in Uses(x, FALSE)  BY <3>1 DEF Uses, IncFds
    <3>3. x.inc[i].fd \notin {0, 1, 2, x.originp}  BY <1>0, <3>1 DEF Apart
    <3>4. x.inc[i].fd = x.inc[n].fd => i = n  BY <1>0, <1>7, <3>1 DEF Apart
    <3> QED BY <1>5, <3>1, <3>2, <3>3, <3>4
  <2> QED BY <1>0, <1>7, <1>8, <2>1, <2>2
<1>10. /\ Tables(c) /\ SameVars(c, x) /\ Stay(c, x, E \cup {f})
       /\ c.fds[0] = Closed
  <2>1. PICK F : F = E \cup {f}  OBVIOUS
  <2>2. \A e \in F : e \in Fd /\ e # 0 /\ x.fds[e] # Closed  BY <1>7, <1>9, <2>1
  <2>3. ClosedStay(Close(x, 0), x, 0, F)  BY <1>0, <2>2, CloseStays
  <2> QED BY <1>0, <2>1, <2>3 DEF ClosedStay
<1>11. c.inc = x.inc /\ c.inc # <<>> /\ f = c.inc[Len(c.inc)].fd /\ c.fds[f] # Closed
  BY <1>2, <1>5, <1>7, <1>10 DEF SameVars, Stay
<1>12. \A e \in E : e \in Fd /\ e # 0 /\ e # f /\ c.fds[e] # Closed
  BY <1>9, <1>10 DEF Stay
<1>13. ResumedFrom(y, c, f, E)
  <2>1. f \in Fd \ {0}  BY <1>7
  <2> QED BY <1>10, <1>11, <1>12, <2>1, PrevResumes
<1>14. PICK w : Resumes(w, c, f, E) /\ y = SetTo(w, c.inc[Len(c.inc)].pos)
  BY <1>13 DEF ResumedFrom
<1>15. /\ w \in Globs /\ w.inc = q /\ w.originp = x.originp /\ w.buf = EmptyBuf
       /\ w.fds[0] = x.fds[f] /\ EntryAt(w, 0) = EntryAt(x, f) /\ y = SetTo(w, p)
  <2>1. y = SetTo(w, p)  BY <1>2, <1>6, <1>11, <1>14
  <2>2. c.fds[f] = x.fds[f] /\ EntryAt(c, f) = EntryAt(x, f)  BY <1>10 DEF Stay
  <2> QED BY <1>3, <1>10, <1>11, <1>14, <2>1, <2>2 DEF Resumes, SameRest, SameVars
<1>16. Stay(w, x, E)
  <2>1. Stay(c, x, E)  BY <1>10 DEF Stay
  <2>2. Stay(w, c, E)  BY <1>14 DEF Resumes
  <2> QED BY <2>1, <2>2, StayCompose
<1>17. FileAt(w, 0) = FileAt(x, f) /\ w.fds[0] # Closed
  <2>1. FileAt(w, 0) = EntryAt(w, 0).file /\ FileAt(x, f) = EntryAt(x, f).file
    BY <1>0, <1>7, <1>15, Fields
  <2> QED BY <1>7, <1>15, <2>1
<1>18. w.fds[w.originp] = x.fds[x.originp] /\ EntryAt(w, w.originp) = EntryAt(x, x.originp)
  <2>1. x.originp \in E  BY <1>8
  <2> QED BY <1>15, <1>16, <2>1 DEF Stay
<1>19. ASSUME NEW i \in 1 .. n - 1
       PROVE  /\ w.inc[i] = x.inc[i] /\ i \in DOMAIN x.inc
              /\ w.fds[w.inc[i].fd] = x.fds[x.inc[i].fd]
              /\ FileAt(w, w.inc[i].fd) = FileAt(x, x.inc[i].fd)
  <2>1. PICK e : e = x.inc[i].fd  OBVIOUS
  <2>2. e \in E /\ w.inc[i] = x.inc[i] /\ i \in DOMAIN x.inc  BY <1>4, <1>8, <1>15, <2>1
  <2>3. FileAt(w, e) = FileAt(x, e)  BY <1>0, <1>15, <1>16, <2>2, StayFiles
  <2> QED BY <1>16, <2>1, <2>2, <2>3 DEF Stay
<1>20. Streams(w, Pipes, g)
  <2>1. Source(w, 0, Pipes)  BY <1>7, <1>15, <1>17, <1>18 DEF Source
  <2>2. ASSUME NEW i \in DOMAIN w.inc
        PROVE  /\ Source(w, w.inc[i].fd, Pipes) /\ w.inc[i].pos \in Nat
               /\ FileAt(w, w.inc[i].fd) \notin Pipes => w.inc[i].pos <= Size(FileAt(w, w.inc[i].fd))
    <3>1. i \in 1 .. n - 1  BY <1>4, <1>15, <2>2
    <3>2. i \in DOMAIN x.inc  BY <1>19, <3>1
    <3>3. /\ Source(x, x.inc[i].fd, Pipes) /\ x.inc[i].pos \in Nat
          /\ FileAt(x, x.inc[i].fd) \notin Pipes => x.inc[i].pos <= Size(FileAt(x, x.inc[i].fd))
      BY <3>2 DEF Flows, Streams
    <3> QED BY <1>18, <1>19, <3>1, <3>3 DEF Source
  <2>3. Pipes # {} => g <= EntryAt(w, w.originp).pos  BY <1>18 DEF Flows, Streams
  <2> QED BY <2>1, <2>2, <2>3 DEF Streams
<1>21. /\ Streams(y, Pipes, g) /\ Buffered(y, Pipes, g) /\ Suspended(y, Pipes) = Suspended(w, Pipes)
       /\ OnTop(y, Pipes) = PlaceAt(Pipes, FileAt(w, 0), p)
  <2>1. FileAt(w, 0) \notin Pipes => p <= Size(FileAt(w, 0))  BY <1>7, <1>17
  <2> QED BY <1>1, <1>7, <1>15, <1>17, <1>20, <2>1, Resumed
<1>22. Suspended(x, Pipes) = Append(Suspended(w, Pipes), LastPlace(x, Pipes))
  <2>1. Len(x.inc) = Len(w.inc) + 1  BY <1>2, <1>4, <1>15
  <2>2. Len(w.inc) = n - 1  BY <1>4, <1>15
  <2>3. OneMore(x, w)  BY <1>19, <2>1, <2>2 DEF OneMore
  <2> QED BY <1>0, <1>15, <2>3, MoreSuspended
<1>23. LastPlace(x, Pipes) = OnTop(y, Pipes)
  BY <1>2, <1>5, <1>6, <1>17, <1>21 DEF LastPlace
<1> QED BY <1>21, <1>22, <1>23 DEF Flows, Left

(* What zysif does to the places, without a name and with one.              *)
Leaves(y, x, k, g) == Flows(y, k, g) /\ (SamePlaces(y, x, k) \/ Left(y, x, k))
Enters(y, x, k, g) ==
  Flows(y, k, g) /\ (SamePlaces(y, x, k) \/ \E f \in DOMAIN Text : Entered(y, x, k, f))

(* Another answer is all the difference.                                    *)
LEMMA RetFlows ==
  ASSUME NEW x, NEW y, Kept(y, FALSE), NEW g \in Nat, Enters(y, x, Pipes, g),
         NEW r \in {"none", "file", "eof", "exit"}, NEW z, z = [y EXCEPT !.ret = r]
  PROVE  Enters(z, x, Pipes, g)
<1>1. y \in Globs /\ Tables(y)  BY DEF Kept, Tables
<1>2. /\ Tables(z) /\ z.fds = y.fds /\ z.open = y.open /\ z.buf = y.buf /\ z.inc = y.inc
      /\ SameRest(z, y)
  <2>1. /\ Tables(z) /\ z.fds = y.fds /\ z.open = y.open /\ z.buf = y.buf /\ z.inc = y.inc
        /\ SameRest(z, y) /\ z.ret = r /\ SameUses(z, y)
        /\ \A fd : EntryAt(z, fd) = EntryAt(y, fd) /\ FileAt(z, fd) = FileAt(y, fd)
    BY <1>1, RetChange
  <2> QED BY <2>1
<1>3. Calm(z, y)  BY <1>2, SameCalm DEF SameRest, Tables
<1>4. /\ Under(z, y, Pipes) /\ FileAt(z, 0) = FileAt(y, 0) /\ OnTop(z, Pipes) = OnTop(y, Pipes)
      /\ Source(y, 0, Pipes) => Source(z, 0, Pipes)
      /\ \A h : Buffered(y, Pipes, h) => Buffered(z, Pipes, h)
  BY <1>1, <1>3, CalmFlows
<1>5. Source(z, 0, Pipes) /\ Streams(y, Pipes, g) /\ Buffered(z, Pipes, g)
  BY <1>4 DEF Enters, Flows, Streams
<1>6. Streams(z, Pipes, g) /\ Suspended(z, Pipes) = Suspended(y, Pipes)
  <2>1. g \in Int  OBVIOUS
  <2> QED BY <1>4, <1>5, <2>1, UnderStreams
<1>7. SamePlaces(y, x, Pipes) => SamePlaces(z, x, Pipes)  BY <1>4, <1>6 DEF SamePlaces
<1>8. \A f : Entered(y, x, Pipes, f) => Entered(z, x, Pipes, f)  BY <1>4, <1>6 DEF Entered
<1> QED BY <1>5, <1>6, <1>7, <1>8 DEF Enters, Flows

(* zysif without a name.                                                    *)
LEMMA EndFlows ==
  ASSUME NEW x, Kept(x, FALSE), NEW g \in Nat, Flows(x, Pipes, g)
  PROVE  Leaves(PopInclude(x), x, Pipes, g)
<1>1. CASE Nesting(x) > 0
  <2>1. x.inc # <<>>  BY <1>1 DEF Nesting
  <2>2. PICK c : c = Close(x, 0)  OBVIOUS
  <2>3. PICK y : y = OpenPrev(c)  OBVIOUS
  <2>4. Flows(y, Pipes, g) /\ Left(y, x, Pipes)  BY <2>1, <2>2, <2>3, PopFlows
  <2> QED BY <1>1, <2>2, <2>3, <2>4 DEF PopInclude, Leaves
<1>2. CASE ~(Nesting(x) > 0)  BY <1>2 DEF PopInclude, Leaves, SamePlaces
<1> QED BY <1>1, <1>2

(* zysif with a name: no include is the shell's input.                      *)
LEMMA CardFlows ==
  ASSUME NEW x, Kept(x, FALSE), NEW g \in Nat, Flows(x, Pipes, g), NEW name \in Includes
  PROVE  Enters(PushInclude(x, name), x, Pipes, g)
<1>0. x \in Globs /\ x.inc \in Suspensions  BY DEF Kept, Tables, Globs, Suspensions
<1>1. PICK l : l = LowestFree(x)  OBVIOUS
<1>2. PICK p \in Int : p = Position(x)
  <2>1. Position(x) \in Int  BY <1>0, Fields DEF Position
  <2> QED BY <2>1
<1>3. PICK t : t = [x EXCEPT !.inc = Append(@, [fd |-> l, pos |-> p])]  OBVIOUS
<1>4. PICK u : u = Clrbuf(Close(Dup(t, 0), 0))  OBVIOUS
<1>5. SuspendedAt(u, x, l, p) /\ SuspendedStay(u, x, l)
  BY <1>1, <1>3, <1>4, SuspendTables, SuspendStay
<1>6. PushInclude(x, name) =
        IF Nesting(x) = Depth             THEN [x EXCEPT !.ret = "exit"]
        ELSE IF Found(name) = {}          THEN [OpenPrev(u) EXCEPT !.ret = "exit"]
        ELSE [OpenFile(u, IncludeFile(name)) EXCEPT !.ret = "file"]
  BY <1>1, <1>2, <1>3, <1>4 DEF PushInclude
<1>7. CASE Nesting(x) = Depth
  <2>1. PICK z : z = [x EXCEPT !.ret = "exit"]  OBVIOUS
  <2>2. Enters(x, x, Pipes, g)  BY DEF Enters, SamePlaces
  <2>3. Enters(z, x, Pipes, g)  BY <2>1, <2>2, RetFlows
  <2> QED BY <1>6, <1>7, <2>1, <2>3
<1>8. CASE Nesting(x) # Depth /\ Found(name) = {}
  <2>1. PICK y : y = OpenPrev(u)  OBVIOUS
  <2>2. PICK z : z = [y EXCEPT !.ret = "exit"]  OBVIOUS
  <2>3. Kept(y, FALSE)  BY <1>5, <2>1, PushRefused DEF IncludeKept
  <2>4. Enters(y, x, Pipes, g)
    <3>1. Flows(y, Pipes, g) /\ SamePlaces(y, x, Pipes)  BY <1>2, <1>5, <2>1, RefusedFlows
    <3> QED BY <3>1 DEF Enters
  <2>5. Enters(z, x, Pipes, g)  BY <2>2, <2>3, <2>4, RetFlows
  <2> QED BY <1>6, <1>8, <2>1, <2>2, <2>5
<1>9. CASE Nesting(x) # Depth /\ Found(name) # {}
  <2>1. PICK f : f = IncludeFile(name)  OBVIOUS
  <2>2. f \in DOMAIN Text /\ f \notin Pipes
    <3>1. Found(name) \subseteq Nat /\ DOMAIN Places = 1 .. Len(Places)
      <4>1. Places \in Seq(Range(Places))  BY StandardFilesAssumption DEF Sequence
      <4>2. DOMAIN Places = 1 .. Len(Places) /\ Len(Places) \in Nat
        BY <4>1, LenProperties
      <4> QED BY <4>2 DEF Found
    <3>2. PICK m : m = Min(Found(name)) /\ m \in Found(name)  BY <1>9, <3>1, LeastOf
    <3>3. f = <<name, Places[m]>> /\ f \in DOMAIN Text
      BY <2>1, <3>2 DEF Found, IncludeFile, InPlaces
    <3>4. Places[m] \in Range(Places)  BY <3>2 DEF Found, Range
    <3>5. f # Shell  BY <3>3, <3>4, StandardFilesAssumption
    <3> QED BY <3>3, <3>5 DEF Pipes
  <2>3. Len(x.inc) < Depth
    <3>1. Len(x.inc) \in Nat  BY <1>0, LenProperties DEF Suspensions
    <3>2. Len(x.inc) <= Depth /\ Len(x.inc) # Depth  BY <1>9 DEF Kept, Nesting
    <3> QED BY <3>1, <3>2, Numbers
  <2>4. PICK y : y = OpenFile(u, f)  OBVIOUS
  <2>5. PICK z : z = [y EXCEPT !.ret = "file"]  OBVIOUS
  <2>6. Kept(y, FALSE)
    <3>1. f \in FileSet \ {NoFile}  BY <2>2, StandardFilesAssumption DEF FileSet
    <3> QED BY <1>5, <2>3, <2>4, <3>1, PushOpens DEF IncludeKept
  <2>7. Enters(y, x, Pipes, g)
    <3>1. Flows(y, Pipes, g) /\ Entered(y, x, Pipes, f)
      BY <1>2, <1>5, <2>2, <2>3, <2>4, FoundFlows
    <3> QED BY <2>2, <3>1 DEF Enters
  <2>8. Enters(z, x, Pipes, g)  BY <2>5, <2>6, <2>7, RetFlows
  <2> QED BY <1>6, <1>9, <2>1, <2>4, <2>5, <2>8
<1> QED BY <1>7, <1>8, <1>9

-----------------------------------------------------------------------------
(* The switches of standard output leave standard input alone.              *)

(* The input stays, and the descriptors of E.                               *)
Quietly(y, x, E) == Tables(y) /\ SameSource(y, x) /\ y.buf = x.buf /\ Stay(y, x, E)

(* Open descriptors, and fd is none of them.                                *)
OpenBut(x, fd, E) == \A e \in E : e \in Fd /\ e # fd /\ x.fds[e] # Closed

(* One after the other.                                                     *)
LEMMA QuietCompose ==
  ASSUME NEW x, NEW y, NEW z, NEW E, Quietly(y, x, E), Quietly(z, y, E)
  PROVE  Quietly(z, x, E)
<1>1. Stay(z, x, E)  BY StayCompose DEF Quietly
<1> QED BY <1>1 DEF Quietly, SameSource

(* They are still open.                                                     *)
LEMMA QuietOpen ==
  ASSUME NEW x, NEW y, NEW E, Quietly(y, x, E), NEW fd, OpenBut(x, fd, E)
  PROVE  OpenBut(y, fd, E)
BY DEF Quietly, Stay, OpenBut

(* close of another one.                                                    *)
LEMMA QuietClose ==
  ASSUME NEW x, Tables(x), NEW fd \in Fd, NEW E, OpenBut(x, fd, E)
  PROVE  Quietly(Close(x, fd), x, E) /\ Close(x, fd).fds = [x.fds EXCEPT ![fd] = Closed]
<1>1. ClosedStay(Close(x, fd), x, fd, E)  BY CloseStays DEF OpenBut
<1> QED BY <1>1 DEF ClosedStay, Quietly, SameVars, SameSource

(* dup, when a descriptor is free.                                          *)
LEMMA QuietDup ==
  ASSUME NEW x, Tables(x), NEW fd \in Fd, NEW a \in Fd, x.fds[a] = Closed, NEW E, OpenBut(x, fd, E)
  PROVE  Quietly(Dup(x, fd), x, E)
<1>0. x \in Globs /\ x.fds \in [Fd -> 0 .. MaxOpen]  BY DEF Tables, Globs
<1>1. CASE x.fds[fd] = Closed
  <2>1. Dup(x, fd) = x  BY <1>1 DEF Dup, IsOpen
  <2> QED BY <2>1 DEF Quietly, SameSource, Stay, OpenBut
<1>2. CASE x.fds[fd] # Closed
  <2>1. PICK y : y = Dup(x, fd)  OBVIOUS
  <2>2. PICK l : l = LowestFree(x)  OBVIOUS
  <2>3. l \in Fd /\ x.fds[l] = Closed  BY <1>0, <2>2, Lowest
  <2>4. \A e \in E : e \in Fd /\ x.fds[e] # Closed  BY DEF OpenBut
  <2>5. /\ Tables(y) /\ SameVars(y, x) /\ y.buf = x.buf /\ Stay(y, x, E)
        /\ y.fds = [x.fds EXCEPT ![l] = x.fds[fd]] /\ EntryAt(y, l) = EntryAt(x, fd)
    BY <1>2, <2>1, <2>2, <2>3, <2>4, DupStay
  <2>6. Quietly(y, x, E)  BY <2>5 DEF Quietly, SameVars, SameSource
  <2> QED BY <2>1, <2>6
<1> QED BY <1>1, <1>2

(* open, when an entry is free too.                                         *)
LEMMA QuietFile ==
  ASSUME NEW x, Tables(x), NEW f \in FileSet \ {NoFile}, NEW a \in Fd, x.fds[a] = Closed,
         \E i \in Opens : x.open[i].file = NoFile, NEW E, OpenBut(x, a, E)
  PROVE  Quietly(OpenFile(x, f), x, E)
<1>0. x \in Globs /\ x.fds \in [Fd -> 0 .. MaxOpen]  BY DEF Tables, Globs
<1>1. PICK l : l = LowestFree(x)  OBVIOUS
<1>2. l \in Fd /\ x.fds[l] = Closed  BY <1>0, <1>1, Lowest
<1>3. \A e \in E : e \in Fd /\ x.fds[e] # Closed  BY DEF OpenBut
<1>4. OpenedStay(OpenFile(x, f), x, f, l, E)  BY <1>1, <1>2, <1>3, OpenStays
<1> QED BY <1>4 DEF OpenedStay, Quietly, SameVars, SameSource

(* Globals of standard output.                                              *)
LEMMA QuietGlobals ==
  ASSUME NEW x, Tables(x), NEW E, NEW a, OpenBut(x, a, E),
         NEW y \in Globs, y.fds = x.fds, y.open = x.open, y.buf = x.buf, SameSource(y, x)
  PROVE  Quietly(y, x, E)
<1>1. Tables(y)  BY GlobalsTables
<1>2. Stay(y, x, E)
  <2>1. \A e \in E : e \in Fd /\ x.fds[e] # Closed  BY DEF OpenBut
  <2> QED BY <2>1, GlobalsStay
<1> QED BY <1>1, <1>2 DEF Quietly

(* The descriptors refer to no entry but those of 0, 2, originp and includes. *)
Spares(v, x) ==
  /\ v.inc = x.inc
  /\ \A fd \in Fd : v.fds[fd] # Closed =>
       \E e \in {0, 2, x.originp} \cup IncFds(x) : v.fds[fd] = x.fds[e]
  /\ \A e \in IncFds(x) : v.fds[e] = x.fds[e]

(* There is an entry left then.                                             *)
LEMMA SpareEntry ==
  ASSUME NEW x, Kept(x, FALSE), NEW v, Tables(v), Spares(v, x)
  PROVE  \E i \in Opens : v.open[i].file = NoFile
<1>1. PICK a, b, c : a = x.fds[0] /\ b = x.fds[2] /\ c = x.fds[x.originp]  OBVIOUS
<1>2. ASSUME NEW fd \in Fd, v.fds[fd] # Closed
      PROVE  v.fds[fd] \in {a, b, c} \cup {v.fds[v.inc[i].fd] : i \in DOMAIN v.inc}
  <2>1. PICK e \in {0, 2, x.originp} \cup IncFds(x) : v.fds[fd] = x.fds[e]  BY <1>2 DEF Spares
  <2>2. CASE e \in IncFds(x)
    <3>1. PICK i \in DOMAIN x.inc : e = x.inc[i].fd  BY <2>2 DEF IncFds
    <3>2. v.fds[v.inc[i].fd] = v.fds[fd] /\ i \in DOMAIN v.inc  BY <2>1, <2>2, <3>1 DEF Spares
    <3> QED BY <3>2
  <2> QED BY <1>1, <2>1, <2>2
<1>3. Len(v.inc) <= Depth  BY DEF Kept, Spares
<1> QED BY <1>2, <1>3, FreeEntry

(* The input is as it was.                                                  *)
LEMMA QuietCalm ==
  ASSUME NEW x, NEW y, Quietly(y, x, {0, x.originp} \cup IncFds(x))
  PROVE  Calm(y, x) /\ SameSource(y, x)
BY DEF Quietly, Calm, Tables, SameSource

(* swcoup's three calls.                                                    *)
LEMMA OutputCalm ==
  ASSUME NEW x, Kept(x, FALSE), env.withList \in BOOLEAN, env.withList => x.oupState \in {0, 1, 2},
         NEW opened \in BOOLEAN, NEW y, y = SwcOup(x, opened)
  PROVE  Calm(y, x) /\ SameSource(y, x)
<1>0. /\ x \in Globs /\ Tables(x) /\ x.fds \in [Fd -> 0 .. MaxOpen] /\ x.origoup \in Fd
      /\ x.oupState \in Nat /\ x.errflag \in BOOLEAN
      /\ {0, 1, 2} \subseteq Fd /\ x.originp \in Fd \ {0, 1, 2} /\ x.fds[1] # Closed
      /\ \A e \in Uses(x, FALSE) : e \in Fd /\ x.fds[e] # Closed
  <2>1. x \in Globs /\ Tables(x)  BY DEF Kept, Tables
  <2>2. x.origoup \in Fd /\ x.oupState \in Nat /\ x.errflag \in BOOLEAN  BY <2>1 DEF Globs
  <2>3. 1 \in Uses(x, FALSE)  BY DEF Uses
  <2> QED BY <2>1, <2>2, <2>3, UsedOpen, Numbers
<1>1. PICK E : E = {0, x.originp} \cup IncFds(x)  OBVIOUS
<1>2. OpenBut(x, 1, E)
  <2>1. E \subseteq Uses(x, FALSE)  BY <1>1 DEF Uses
  <2>2. 1 \notin E  BY <1>0, <1>1 DEF Kept, Apart, IncFds
  <2> QED BY <1>0, <2>1, <2>2 DEF OpenBut
<1>3. SUFFICES Quietly(y, x, E)  BY <1>1, QuietCalm
<1>4. CASE x.errflag \/ ~env.withList
  <2>1. y = x  BY <1>4 DEF SwcOup
  <2> QED BY <1>0, <1>2, <2>1 DEF Quietly, SameSource, Stay, OpenBut
<1>5. CASE ~x.errflag /\ env.withList
  <2>1. PICK t : t = [x EXCEPT !.oupState = @ + 1]  OBVIOUS
  <2>2. /\ t \in Globs /\ t.fds = x.fds /\ t.open = x.open /\ t.buf = x.buf /\ SameSource(t, x)
        /\ t.origoup = x.origoup
    <3>1. PICK n \in Nat : n = x.oupState + 1  BY <1>0
    <3>2. t = [x EXCEPT !.oupState = n]  BY <2>1, <3>1
    <3> QED BY <1>0, <3>2 DEF Globs, SameSource
  <2>3. Quietly(t, x, E) /\ Tables(t)
    <3>1. Quietly(t, x, E)  BY <1>0, <1>2, <2>2, QuietGlobals
    <3> QED BY <3>1 DEF Quietly
  <2>4. OpenBut(t, 1, E)  BY <1>2, <2>3, QuietOpen
  <2>5. PICK d : d = [Dup(t, 1) EXCEPT !.origoup = LowestFree(t)]  OBVIOUS
  <2>6. /\ x.oupState = 0 =>
             y = IF opened THEN OpenFile(Close(d, 1), Listing)
                 ELSE Close(Dup([Close(d, 1) EXCEPT !.errflag = TRUE], d.origoup), d.origoup)
        /\ x.oupState = 1 => y = Close(Dup(Close(t, 1), t.origoup), t.origoup)
        /\ x.oupState = 2 => y = IF opened THEN OpenFile(Close(t, 1), Listing) ELSE Close(t, 1)
    <3>1. PICK l : l = LowestFree(t)  OBVIOUS
    <3>2. PICK v : v = Close(d, 1)  OBVIOUS
    <3>3. PICK c : c = Close(t, 1)  OBVIOUS
    <3>4. d = [Dup(t, 1) EXCEPT !.origoup = l]  BY <2>5, <3>1
    <3>5. y = CASE t.oupState = 1 ->
                     IF opened THEN OpenFile(v, Listing)
                     ELSE Close(Dup([v EXCEPT !.errflag = TRUE], d.origoup), d.origoup)
                [] t.oupState = 2 -> Close(Dup(c, t.origoup), t.origoup)
                [] t.oupState = 3 -> IF opened THEN OpenFile(c, Listing) ELSE c
      BY <1>5, <2>1, <3>1, <3>2, <3>3, <3>4 DEF SwcOup
    <3>6. PICK p : p = IF opened THEN OpenFile(v, Listing)
                       ELSE Close(Dup([v EXCEPT !.errflag = TRUE], d.origoup), d.origoup)
      OBVIOUS
    <3>7. PICK q : q = Close(Dup(c, t.origoup), t.origoup)  OBVIOUS
    <3>8. PICK r : r = IF opened THEN OpenFile(c, Listing) ELSE c  OBVIOUS
    <3>9. y = CASE t.oupState = 1 -> p [] t.oupState = 2 -> q [] t.oupState = 3 -> r
      BY <3>5, <3>6, <3>7, <3>8
    <3>10. t.oupState = x.oupState + 1  BY <1>0, <2>1 DEF Globs
    <3>11. x.oupState = 0 => y = p  BY <3>9, <3>10
    <3>12. x.oupState = 1 => y = q  BY <3>9, <3>10
    <3>13. x.oupState = 2 => y = r  BY <3>9, <3>10
    <3> QED BY <3>2, <3>3, <3>6, <3>7, <3>8, <3>11, <3>12, <3>13
  <2>7. PICK c : c = Close(t, 1)  OBVIOUS
  <2>8. Quietly(c, t, E) /\ c.fds = [t.fds EXCEPT ![1] = Closed]
    BY <1>0, <2>3, <2>4, <2>7, QuietClose
  <2>9. Quietly(c, x, E) /\ Tables(c) /\ c.fds[1] = Closed
    <3>1. Quietly(c, x, E)  BY <2>3, <2>8, QuietCompose
    <3> QED BY <1>0, <2>2, <2>8, <3>1 DEF Quietly
  <2>10. CASE x.oupState = 0
    <3>1. PICK l : l = LowestFree(t)  OBVIOUS
    <3>2. l \in Fd /\ x.fds[l] = Closed
      <4>1. Len(x.inc) <= Depth  BY DEF Kept
      <4>2. \A fd \in Fd : x.fds[fd] # Closed =>
              fd \in {0, 1, 2, x.originp, x.origoup, 0} \cup IncFds(x)
        BY DEF Kept, Uses
      <4>3. l = LowestFree(x)  BY <2>2, <3>1 DEF LowestFree
      <4> QED BY <1>0, <4>1, <4>2, <4>3, FreeFd
    <3>3. PICK r : r = Dup(t, 1)  OBVIOUS
    <3>4. Quietly(r, x, E) /\ r \in Globs
      <4>1. t.fds[l] = Closed  BY <2>2, <3>2
      <4>2. Quietly(r, t, E)  BY <1>0, <2>3, <2>4, <3>2, <3>3, <4>1, QuietDup
      <4> QED BY <2>3, <4>2, QuietCompose DEF Quietly, Tables
    <3>5. d = [r EXCEPT !.origoup = l]  BY <2>5, <3>1, <3>3
    <3>6. Quietly(d, x, E) /\ d.origoup = l /\ Tables(d)
      <4>1. /\ d \in Globs /\ d.fds = r.fds /\ d.open = r.open /\ d.buf = r.buf /\ SameSource(d, r)
            /\ d.origoup = l
        BY <3>2, <3>4, <3>5 DEF Globs, SameSource
      <4>2. OpenBut(r, 1, E)  BY <1>2, <3>4, QuietOpen
      <4>3. Quietly(d, r, E)  BY <3>4, <4>1, <4>2, QuietGlobals DEF Quietly
      <4>4. Quietly(d, x, E)  BY <3>4, <4>3, QuietCompose
      <4> QED BY <4>1, <4>4 DEF Quietly
    <3>7. PICK v : v = Close(d, 1)  OBVIOUS
    <3>8. Quietly(v, x, E) /\ Tables(v)
      <4>1. OpenBut(d, 1, E)  BY <1>2, <3>6, QuietOpen
      <4>2. Quietly(v, d, E)  BY <1>0, <3>6, <3>7, <4>1, QuietClose
      <4>3. Quietly(v, x, E)  BY <3>6, <4>2, QuietCompose
      <4> QED BY <4>3 DEF Quietly
    <3>9. OutputSaved(v, x, l)  BY <2>1, <2>5, <2>10, <3>1, <3>7, SaveOutput
    <3>10. v.fds[1] = Closed  BY <3>9 DEF OutputSaved
    <3>11. CASE opened
      <4>1. y = OpenFile(v, Listing)  BY <2>6, <2>10, <3>7, <3>11
      <4>2. \E i \in Opens : v.open[i].file = NoFile
        <5>1. ~Listed(x)  BY <2>10 DEF Listed
        <5>2. ASSUME NEW fd \in Fd, v.fds[fd] # Closed
              PROVE  \E e \in {0, 2, x.originp} \cup IncFds(x) : v.fds[fd] = x.fds[e]
          <6>1. x.fds[1] = x.fds[2]  BY <5>1 DEF Kept, Output
          <6>2. fd # 1  BY <3>10, <5>2
          <6>3. CASE fd = l  BY <3>9, <6>1, <6>3 DEF OutputSaved
          <6>4. CASE fd # l
            <7>1. v.fds[fd] = x.fds[fd]  BY <3>9, <6>2, <6>4 DEF OutputSaved
            <7>2. fd \in Uses(x, FALSE)  BY <5>2, <7>1 DEF Kept
            <7>3. fd \in {0, 2, x.originp} \cup IncFds(x)  BY <5>1, <6>2, <7>2 DEF Uses
            <7> QED BY <7>1, <7>3
          <6> QED BY <6>3, <6>4
        <5>3. \A e \in IncFds(x) : v.fds[e] = x.fds[e]
          <6>1. IncFds(x) \subseteq E  BY <1>1
          <6> QED BY <3>8, <6>1 DEF Quietly, Stay
        <5>4. v.inc = x.inc  BY <3>8 DEF Quietly, SameSource
        <5>5. Spares(v, x)  BY <5>2, <5>3, <5>4 DEF Spares
        <5> QED BY <3>8, <5>5, SpareEntry
      <4>3. OpenBut(v, 1, E)  BY <1>2, <3>8, QuietOpen
      <4>4. Listing \in FileSet \ {NoFile}  BY StandardFilesAssumption DEF FileSet
      <4>5. Quietly(OpenFile(v, Listing), v, E)
        BY <1>0, <3>8, <3>10, <4>2, <4>3, <4>4, QuietFile
      <4> QED BY <3>8, <4>1, <4>5, QuietCompose
    <3>12. CASE ~opened
      <4>1. PICK w : w = [v EXCEPT !.errflag = TRUE]  OBVIOUS
      <4>2. PICK z : z = Dup(w, l)  OBVIOUS
      <4>3. y = Close(z, l)  BY <2>6, <2>10, <3>6, <3>7, <3>12, <4>1, <4>2
      <4>4. OpenBut(x, l, E)  BY <1>2, <3>2 DEF OpenBut
      <4>5. Quietly(w, x, E) /\ Tables(w) /\ w.fds[1] = Closed
        <5>1. v \in Globs  BY <3>8 DEF Tables
        <5>2. /\ w \in Globs /\ w.fds = v.fds /\ w.open = v.open /\ w.buf = v.buf
              /\ SameSource(w, v)
          BY <4>1, <5>1 DEF Globs, SameSource
        <5>3. OpenBut(v, l, E)  BY <3>8, <4>4, QuietOpen
        <5>4. Quietly(w, v, E)  BY <3>8, <5>2, <5>3, QuietGlobals
        <5>5. Quietly(w, x, E)  BY <3>8, <5>4, QuietCompose
        <5> QED BY <3>10, <5>2, <5>5 DEF Quietly
      <4>6. Quietly(z, x, E) /\ Tables(z)
        <5>1. OpenBut(w, l, E)  BY <4>4, <4>5, QuietOpen
        <5>2. Quietly(z, w, E)  BY <1>0, <3>2, <4>2, <4>5, <5>1, QuietDup
        <5>3. Quietly(z, x, E)  BY <4>5, <5>2, QuietCompose
        <5> QED BY <5>3 DEF Quietly
      <4>7. OpenBut(z, l, E)  BY <4>4, <4>6, QuietOpen
      <4>8. Quietly(y, z, E)
        <5>1. Quietly(Close(z, l), z, E)  BY <3>2, <4>6, <4>7, QuietClose
        <5> QED BY <4>3, <5>1
      <4> QED BY <4>6, <4>8, QuietCompose
    <3> QED BY <3>11, <3>12
  <2>11. CASE x.oupState = 1
    <3>1. PICK o : o = x.origoup  OBVIOUS
    <3>2. OpenBut(x, o, E) /\ o \in Fd
      <4>1. Listed(x)  BY <1>5, <2>11 DEF Listed
      <4>2. o \notin E  BY <1>1, <3>1, <4>1 DEF Kept, Apart
      <4> QED BY <1>0, <1>2, <3>1, <4>2 DEF OpenBut
    <3>3. PICK z : z = Dup(c, o)  OBVIOUS
    <3>4. y = Close(z, o)  BY <2>2, <2>6, <2>7, <2>11, <3>1, <3>3
    <3>5. OpenBut(c, o, E)  BY <2>9, <3>2, QuietOpen
    <3>6. Quietly(z, c, E)  BY <1>0, <2>9, <3>2, <3>3, <3>5, QuietDup
    <3>7. Quietly(z, x, E)  BY <2>9, <3>6, QuietCompose
    <3>8. OpenBut(z, o, E) /\ Tables(z)  BY <3>2, <3>7, QuietOpen DEF Quietly
    <3>9. Quietly(y, z, E)
      <4>1. Quietly(Close(z, o), z, E)  BY <3>2, <3>8, QuietClose
      <4> QED BY <3>4, <4>1
    <3> QED BY <3>7, <3>9, QuietCompose
  <2>12. CASE x.oupState = 2
    <3>1. CASE opened
      <4>1. y = OpenFile(c, Listing)  BY <2>6, <2>7, <2>12, <3>1
      <4>2. \E i \in Opens : c.open[i].file = NoFile
        <5>1. ~Listed(x)  BY <2>12 DEF Listed
        <5>2. ASSUME NEW fd \in Fd, c.fds[fd] # Closed
              PROVE  \E e \in {0, 2, x.originp} \cup IncFds(x) : c.fds[fd] = x.fds[e]
          <6>1. fd # 1 /\ c.fds[fd] = x.fds[fd]  BY <1>0, <2>2, <2>8, <2>9, <5>2
          <6>2. fd \in Uses(x, FALSE)  BY <5>2, <6>1 DEF Kept
          <6>3. fd \in {0, 2, x.originp} \cup IncFds(x)  BY <5>1, <6>1, <6>2 DEF Uses
          <6> QED BY <6>1, <6>3
        <5>3. \A e \in IncFds(x) : c.fds[e] = x.fds[e]
          <6>1. IncFds(x) \subseteq E  BY <1>1
          <6> QED BY <2>9, <6>1 DEF Quietly, Stay
        <5>4. c.inc = x.inc  BY <2>9 DEF Quietly, SameSource
        <5>5. Spares(c, x)  BY <5>2, <5>3, <5>4 DEF Spares
        <5> QED BY <2>9, <5>5, SpareEntry
      <4>3. OpenBut(c, 1, E)  BY <1>2, <2>9, QuietOpen
      <4>4. Listing \in FileSet \ {NoFile}  BY StandardFilesAssumption DEF FileSet
      <4>5. Quietly(OpenFile(c, Listing), c, E)
        BY <1>0, <2>9, <4>2, <4>3, <4>4, QuietFile
      <4> QED BY <2>9, <4>1, <4>5, QuietCompose
    <3>2. CASE ~opened
      <4>1. y = c  BY <2>6, <2>7, <2>12, <3>2
      <4> QED BY <2>9, <4>1
    <3> QED BY <3>1, <3>2
  <2> QED BY <1>5, <2>10, <2>11, <2>12
<1> QED BY <1>4, <1>5

-----------------------------------------------------------------------------
(* What the calls do to the places of InputStream.                          *)

(* Nothing that the places are made of has changed.                         *)
SameStream(y, x) ==
  /\ y.fds = x.fds /\ y.open = x.open /\ y.buf = x.buf /\ y.inc = x.inc /\ y.originp = x.originp

(* Then they have not.                                                      *)
LEMMA SameStreamFlows ==
  ASSUME NEW x, NEW y, SameStream(y, x), NEW k
  PROVE  /\ SamePlaces(y, x, k) /\ \A g : Flows(x, k, g) => Flows(y, k, g)
         /\ \A e : FileAt(y, e) = FileAt(x, e) /\ EntryAt(y, e) = EntryAt(x, e)
<1>1. \A e : FileAt(y, e) = FileAt(x, e) /\ EntryAt(y, e) = EntryAt(x, e)
  BY DEF SameStream, FileAt, IsOpen, EntryAt
<1>2. WhereIn(y) = WhereIn(x)  BY <1>1 DEF WhereIn, SameStream
<1>3. SamePlaces(y, x, k)  BY <1>1, <1>2 DEF SamePlaces, Suspended, OnTop, SameStream
<1>4. ASSUME NEW g, Flows(x, k, g) PROVE Flows(y, k, g)
  <2>1. \A e : Source(x, e, k) => Source(y, e, k)  BY <1>1 DEF Source, SameStream
  <2>2. Streams(y, k, g)  BY <1>1, <1>4, <2>1 DEF Flows, Streams, SameStream
  <2>3. Buffered(y, k, g)
    BY <1>1, <1>4 DEF Flows, Buffered, After, AtOffset, SameStream
  <2> QED BY <2>2, <2>3 DEF Flows
<1> QED BY <1>1, <1>3, <1>4

(* Nor when a descriptor more or less is open.                              *)
LEMMA CalmPlaces ==
  ASSUME NEW x \in Globs, NEW y, Calm(y, x), NEW k, NEW g \in Nat
  PROVE  SamePlaces(y, x, k) /\ (Streams(x, k, g) => Streams(y, k, g))
         /\ (Flows(x, k, g) => Flows(y, k, g))
<1>1. /\ Under(y, x, k) /\ FileAt(y, 0) = FileAt(x, 0) /\ OnTop(y, k) = OnTop(x, k)
      /\ Source(x, 0, k) => Source(y, 0, k)
      /\ \A h : Buffered(x, k, h) => Buffered(y, k, h)
  BY CalmFlows
<1>2. Suspended(y, k) = Suspended(x, k)  BY <1>1 DEF Under, Suspended, IncFds
<1>3. Streams(x, k, g) => Streams(y, k, g)
  <2>1. g \in Int  OBVIOUS
  <2>2. Streams(x, k, g) => Source(y, 0, k)  BY <1>1 DEF Streams
  <2> QED BY <1>1, <2>1, <2>2, UnderStreams
<1> QED BY <1>1, <1>2, <1>3 DEF SamePlaces, Flows

(* Another file, or none, is on top at its start.                           *)
Switched(y, x, k) ==
  /\ Suspended(y, k) = Suspended(x, k)
  /\ \E f \in DOMAIN Text \cup {NoFile} : OnTop(y, k) = [file |-> f, at |-> 0]

(* One that Fresh tells of.                                                 *)
LEMMA FreshPlaces ==
  ASSUME NEW x, NEW k, NEW g \in Nat, Streams(x, k, g), NEW y, Fresh(y, x, k)
  PROVE  Flows(y, k, g) /\ Switched(y, x, k)
<1>1. /\ Streams(y, k, g) /\ Buffered(y, k, g) /\ Suspended(y, k) = Suspended(x, k)
      /\ OnTop(y, k) = [file |-> FileAt(y, 0), at |-> 0]
  BY FreshFlows
<1>2. FileAt(y, 0) \in DOMAIN Text  BY DEF Fresh, Source
<1> QED BY <1>1, <1>2 DEF Flows, Switched

(* A record is made ready.                                                  *)
LEMMA ReadyFlows ==
  ASSUME NEW x, Kept(x, FALSE), NEW g \in Nat, Flows(x, Pipes, g), NEW y, y = Ready(x)
  PROVE  /\ Kept(y, FALSE) /\ Flows(y, Pipes, g) /\ SamePlaces(y, x, Pipes)
         /\ FileAt(y, 0) = FileAt(x, 0)
         /\ AtEof(y) /\ FileAt(x, 0) \notin Pipes => WhereIn(x) = Size(FileAt(x, 0))
<1>0. x \in Globs /\ x.fds[0] # Closed  BY UsedOpen DEF Uses
<1>1. /\ Buffered(y, Pipes, g) /\ FileAt(y, 0) = FileAt(x, 0)
      /\ \E q \in Int : Moved(y, x, q) /\ EntryAt(x, 0).pos \in Int
                        /\ (FileAt(x, 0) \in Pipes => EntryAt(x, 0).pos <= q)
      /\ FileAt(x, 0) \notin Pipes => Position(y) = Position(x)
      /\ AtEof(y) /\ FileAt(x, 0) \notin Pipes => Position(x) = Size(FileAt(x, 0))
  BY <1>0, ReadyResult DEF Flows
<1>2. PICK q \in Int : Moved(y, x, q) /\ (FileAt(x, 0) \in Pipes => EntryAt(x, 0).pos <= q)
  BY <1>1
<1>3. Kept(y, FALSE)
  <2>1. PICK cmd \in BOOLEAN : cmd = FALSE  OBVIOUS
  <2>2. Kept(x, cmd) /\ Reads(y, x)  BY <1>2, <2>1 DEF Moved
  <2>3. Kept(y, cmd)  BY <2>2, ReadsKept
  <2> QED BY <2>1, <2>3
<1>4. Under(y, x, Pipes) /\ Source(y, 0, Pipes)
  BY <1>2, MovedUnder DEF Flows, Streams
<1>5. Streams(y, Pipes, g) /\ Suspended(y, Pipes) = Suspended(x, Pipes)
  <2>1. g \in Int  OBVIOUS
  <2> QED BY <1>4, <2>1, UnderStreams DEF Flows
<1>6. FileAt(x, 0) \notin Pipes => WhereIn(x) = Position(x) /\ WhereIn(y) = Position(y)
  BY <1>1, PositionIsWhere DEF Flows
<1>7. OnTop(y, Pipes) = OnTop(x, Pipes)  BY <1>1, <1>6 DEF OnTop, PlaceAt
<1> QED BY <1>1, <1>3, <1>5, <1>6, <1>7 DEF Flows, SamePlaces

(* It is the next one of the file on top.                                   *)
Served(y, x, k) ==
  /\ Suspended(y, k) = Suspended(x, k) /\ FileAt(y, 0) = FileAt(x, 0)
  /\ Current(x) = <<FileAt(x, 0), Current(x)[2]>>
  /\ Current(x)[2] \in 1 .. Size(FileAt(x, 0))
  /\ FileAt(x, 0) \notin k => Current(x)[2] = WhereIn(x) + 1 /\ WhereIn(y) = WhereIn(x) + 1

(* It is taken.                                                             *)
LEMMA TakenFlows ==
  ASSUME NEW x, Kept(x, FALSE), NEW g \in Nat, Flows(x, Pipes, g), ~AtEof(x), NEW y, y = Taken(x),
         NEW h, h = IF FileAt(x, 0) \in Pipes THEN Current(x)[2] ELSE g
  PROVE  /\ Kept(y, FALSE) /\ h \in Nat /\ Flows(y, Pipes, h) /\ Served(y, x, Pipes)
         /\ FileAt(x, 0) \in Pipes => g < Current(x)[2]
<1>0. x \in Globs /\ x.fds[0] # Closed  BY UsedOpen DEF Uses
<1>1. /\ Reads(y, x) /\ y.open = x.open
      /\ Current(x)[1] = FileAt(x, 0) /\ Current(x)[2] \in 1 .. Size(FileAt(x, 0))
      /\ Current(x) = <<FileAt(x, 0), Current(x)[2]>>
      /\ FileAt(x, 0) \in Pipes => g < Current(x)[2]
      /\ FileAt(x, 0) \notin Pipes => /\ Current(x)[2] = Position(x) + 1
                                      /\ Position(y) = Position(x) + 1
      /\ Buffered(y, Pipes, h) /\ h \in Nat
  <2>1. PICK k : k = Pipes  OBVIOUS
  <2>2. Buffered(x, k, g) /\ h = IF FileAt(x, 0) \in k THEN Current(x)[2] ELSE g
    BY <2>1 DEF Flows
  <2>3. /\ Reads(y, x) /\ y.open = x.open
        /\ Current(x)[1] = FileAt(x, 0) /\ Current(x)[2] \in 1 .. Size(FileAt(x, 0))
        /\ Current(x) = <<FileAt(x, 0), Current(x)[2]>>
        /\ FileAt(x, 0) \in k => g < Current(x)[2]
        /\ FileAt(x, 0) \notin k => /\ Current(x)[2] = Position(x) + 1
                                    /\ Position(y) = Position(x) + 1
        /\ Buffered(y, k, h) /\ h \in Nat
    BY <1>0, <2>2, TakenResult
  <2> QED BY <2>1, <2>3
<1>2. Kept(y, FALSE) /\ \A fd : FileAt(y, fd) = FileAt(x, fd)
  <2>1. PICK cmd \in BOOLEAN : cmd = FALSE  OBVIOUS
  <2>2. Kept(x, cmd)  BY <2>1
  <2>3. Kept(y, cmd) /\ \A fd : FileAt(y, fd) = FileAt(x, fd)  BY <1>1, <2>2, ReadsKept
  <2> QED BY <2>1, <2>3
<1>3. /\ y.fds = x.fds /\ y.inc = x.inc /\ y.originp = x.originp
      /\ \A e : EntryAt(y, e) = EntryAt(x, e)
  BY <1>1 DEF Reads, SameVars, EntryAt
<1>4. Streams(y, Pipes, h)
  <2>1. \A e : Source(x, e, Pipes) => Source(y, e, Pipes)  BY <1>2, <1>3 DEF Source
  <2>2. Source(y, 0, Pipes)  BY <2>1 DEF Flows, Streams
  <2>3. \A i \in DOMAIN y.inc :
          /\ Source(y, y.inc[i].fd, Pipes) /\ y.inc[i].pos \in Nat
          /\ FileAt(y, y.inc[i].fd) \notin Pipes => y.inc[i].pos <= Size(FileAt(y, y.inc[i].fd))
    BY <1>2, <1>3, <2>1 DEF Flows, Streams
  <2>4. Pipes # {} => h <= EntryAt(y, y.originp).pos
    <3>1. CASE FileAt(x, 0) \in Pipes
      <4>1. y.fds[0] = y.fds[y.originp]  BY <1>2, <2>2, <3>1 DEF Source
      <4>2. h <= EntryAt(y, 0).pos  BY <1>1, <1>2, <3>1 DEF Buffered, After
      <4> QED BY <4>1, <4>2 DEF EntryAt
    <3>2. CASE FileAt(x, 0) \notin Pipes
      <4>1. h = g  BY <3>2
      <4> QED BY <1>3, <4>1 DEF Flows, Streams
    <3> QED BY <3>1, <3>2
  <2> QED BY <2>2, <2>3, <2>4 DEF Streams
<1>5. Suspended(y, Pipes) = Suspended(x, Pipes)  BY <1>2, <1>3 DEF Suspended
<1>6. FileAt(x, 0) \notin Pipes => WhereIn(x) = Position(x) /\ WhereIn(y) = Position(y)
  BY <1>1, <1>2, PositionIsWhere DEF Flows
<1>7. Served(y, x, Pipes)  BY <1>1, <1>2, <1>5, <1>6 DEF Served
<1> QED BY <1>1, <1>2, <1>4, <1>7 DEF Flows

(* Places as they were, then a change, or a change and the places as they   *)
(* were.                                                                    *)
LEMMA PlacesAfter ==
  ASSUME NEW x, NEW y, NEW z, NEW k, SamePlaces(z, y, k)
  PROVE  /\ SamePlaces(y, x, k) => SamePlaces(z, x, k)
         /\ Switched(y, x, k) => Switched(z, x, k)
         /\ Left(y, x, k) => Left(z, x, k)
         /\ \A f : Entered(y, x, k, f) => Entered(z, x, k, f)
BY DEF SamePlaces, Switched, Left, Entered

(* The same the other way round.                                            *)
LEMMA PlacesBefore ==
  ASSUME NEW x, NEW y, NEW z, NEW k, SamePlaces(y, x, k)
  PROVE  /\ SamePlaces(z, y, k) => SamePlaces(z, x, k)
         /\ Switched(z, y, k) => Switched(z, x, k)
BY DEF SamePlaces, Switched

(* What swcinp does to the places.                                          *)
NextPlaces(y, x, k, g) ==
  /\ y \in Globs
  /\ y.ret # "exit" => Flows(y, k, g)
  /\ y.ret = "eof" => SamePlaces(y, x, k)
  /\ SamePlaces(y, x, k) \/ Switched(y, x, k)

(* What it does to the files tells it.                                      *)
LEMMA InputPlaces ==
  ASSUME NEW x \in Globs, NEW k, NEW g \in Nat, Flows(x, k, g), NEW y, InputFlow(y, x, k)
  PROVE  NextPlaces(y, x, k, g)
<1>0. Streams(x, k, g)  BY DEF Flows
<1>1. CASE /\ y.ret = "file" /\ Fresh(y, x, k)
  <2>1. Flows(y, k, g) /\ Switched(y, x, k)  BY <1>0, <1>1, FreshPlaces
  <2> QED BY <1>1, <2>1 DEF NextPlaces, InputFlow
<1>2. CASE y.ret \in {"eof", "exit"} /\ Calm(y, x)
  <2>1. SamePlaces(y, x, k) /\ Flows(y, k, g)  BY <1>2, CalmPlaces
  <2> QED BY <1>2, <2>1 DEF NextPlaces, InputFlow
<1>3. CASE y.ret = "exit" /\ Under(y, x, k) /\ FileAt(y, 0) = NoFile
  <2>1. Suspended(y, k) = Suspended(x, k)  BY <1>3 DEF Under, Suspended, IncFds
  <2>2. OnTop(y, k) = [file |-> NoFile, at |-> 0]  BY <1>3 DEF OnTop, PlaceAt
  <2> QED BY <1>3, <2>1, <2>2 DEF NextPlaces, InputFlow, Switched
<1> QED BY <1>1, <1>2, <1>3 DEF InputFlow

(* swcinp.                                                                  *)
LEMMA SwcInpPlaces ==
  ASSUME env \in Commands, NEW x, Kept(x, FALSE), x.inpcnt <= Len(env.args), NEW g \in Nat,
         Flows(x, Pipes, g), NEW y, y = SwcInp(x)
  PROVE  NextPlaces(y, x, Pipes, g)
<1>1. x \in Globs  BY DEF Kept, Tables
<1>2. InputFlow(y, x, Pipes)  BY InputFlows
<1>3. PICK k : k = Pipes  OBVIOUS
<1>4. Flows(x, k, g) /\ InputFlow(y, x, k)  BY <1>2, <1>3
<1>5. NextPlaces(y, x, k, g)  BY <1>1, <1>4, InputPlaces
<1> QED BY <1>3, <1>5

(* The answer is taken: the rest stays.                                     *)
LEMMA SettledStream ==
  ASSUME NEW y \in Globs, NEW z, z = [y EXCEPT !.ret = "none"]
  PROVE  /\ SameStream(z, y) /\ z \in Globs /\ z.inpcnt = y.inpcnt /\ z.oupState = y.oupState
         /\ z.save_fd0 = y.save_fd0
BY DEF Globs, SameStream

(* The source is passed over, and the shell's input is on top.              *)
LEMMA PassedOver ==
  ASSUME NEW e, Kept(e, FALSE), NEW g \in Nat, Flows(e, Pipes, g),
         NEW y, y = SwcInp([SetToEof(e) EXCEPT !.curfile = e.inpcnt]), e.executing, e.readshell0,
         e.inpcnt <= Len(env.args), env \in Commands
  PROVE  Fresh(y, e, Pipes) /\ Kept(y, FALSE) /\ SameInput(y, e)
<1>0. e \in Globs /\ e.fds[0] # Closed  BY UsedOpen DEF Uses
<1> DEFINE a == SetToEof(e)
           m == [a EXCEPT !.curfile = e.inpcnt]
<1>1. PICK q \in Int : Moved(a, e, q) /\ EntryAt(e, 0).pos \in Int
                       /\ (FileAt(e, 0) \in Pipes => EntryAt(e, 0).pos <= q)
  BY <1>0, SetToEofMoves DEF Flows
<1>2. Under(a, e, Pipes)  BY <1>1, MovedUnder
<1>3. Kept(a, FALSE) /\ SameVars(a, e)
  <2>1. PICK cmd \in BOOLEAN : cmd = FALSE  OBVIOUS
  <2>2. Kept(e, cmd) /\ Reads(a, e)  BY <1>1, <2>1 DEF Moved
  <2>3. Kept(a, cmd)  BY <2>2, ReadsKept
  <2>4. SameVars(a, e)  BY <2>2 DEF Reads
  <2> QED BY <2>1, <2>3, <2>4
<1>4. a \in Globs /\ e.inpcnt \in Nat  BY <1>0, <1>3 DEF Kept, Tables, Globs
<1> HIDE DEF a
<1>5. /\ m \in Globs /\ m.fds = a.fds /\ m.open = a.open /\ m.buf = a.buf /\ m.inc = a.inc
      /\ m.originp = a.originp /\ SameUses(m, a) /\ SameInput(m, a) /\ m.curfile = e.inpcnt
      /\ m.readshell0 = a.readshell0 /\ m.executing = a.executing /\ m.inpcnt = a.inpcnt
  BY <1>4 DEF Globs, SameUses, SameInput
<1> HIDE DEF m
<1>6. Kept(m, FALSE)
  <2>1. PICK cmd \in BOOLEAN : cmd = FALSE  OBVIOUS
  <2>2. Kept(a, cmd)  BY <1>3, <2>1
  <2>3. cmd => m.save_fd0 = a.save_fd0  BY <2>1
  <2>4. \A o \in Opens : m.open[o].file = a.open[o].file  BY <1>5
  <2>5. Kept(m, cmd)  BY <1>5, <2>2, <2>3, <2>4, SameKept
  <2> QED BY <2>1, <2>5
<1>7. Under(m, e, Pipes)  BY <1>2, <1>5 DEF Under, FileAt, IsOpen, EntryAt
<1>8. m.inpcnt = e.inpcnt /\ m.curfile = m.inpcnt
  BY <1>3, <1>5 DEF SameVars
<1>9. m.executing /\ m.readshell0  BY <1>3, <1>5 DEF SameVars
<1>10. m.originp >= 0 /\ m.inpcnt \in Nat
  <2>1. PICK cmd \in BOOLEAN : cmd = FALSE  OBVIOUS
  <2>2. Kept(m, cmd)  BY <1>6, <2>1
  <2>3. m.originp \in Fd  BY <2>2, UsedOpen
  <2>4. PICK o \in Fd : o = m.originp  BY <2>3
  <2>5. o >= 0  BY Numbers DEF Fd
  <2>6. m.inpcnt \in Nat  BY <1>5 DEF Globs
  <2> QED BY <2>4, <2>5, <2>6, Zenon
<1>11. y = SwcInp(m)  BY DEF m, a
<1>12. InputFlow(y, m, Pipes)
  <2>1. m.inpcnt <= Len(env.args)  BY <1>8
  <2> QED BY <1>6, <1>11, <2>1, InputFlows
<1>13. NextInput(y, m)  BY <1>6, <1>11, InputStep
<1>14. y = [ShellInput(m) EXCEPT !.readshell0 = FALSE, !.ret = "file"]
  <2>1. ~(m.curfile < m.inpcnt)
    <3>1. PICK n \in Nat : n = m.inpcnt  BY <1>10
    <3> QED BY <1>8, <3>1
  <2>2. ~(m.originp < 0)
    <3>1. PICK n \in Int : n = m.originp  BY <1>5 DEF Globs
    <3> QED BY <1>10, <3>1
  <2> QED BY <1>9, <1>11, <2>1, <2>2 DEF SwcInp
<1>15. y.ret = "file"
  <2>1. PICK c \in BOOLEAN : c = FALSE  OBVIOUS
  <2>2. Kept(m, c)  BY <1>6, <2>1
  <2>3. Kept(ShellInput(m), c)  BY <2>2, ShellSwitch
  <2>4. ShellInput(m) \in Globs  BY <2>3 DEF Kept, Tables
  <2> QED BY <1>14, <2>4 DEF Globs
<1>16. Fresh(y, m, Pipes)  BY <1>12, <1>15 DEF InputFlow
<1>17. Under(y, e, Pipes)
  <2>1. Under(y, m, Pipes)  BY <1>16 DEF Fresh
  <2> QED BY <1>7, <2>1, UnderCompose
<1>18. Fresh(y, e, Pipes)  BY <1>16, <1>17 DEF Fresh
<1>19. Kept(y, FALSE) /\ SameInput(y, m)  BY <1>13, <1>15 DEF NextInput
<1>20. SameInput(m, e)  BY <1>3, <1>5 DEF SameInput, SameVars
<1> QED BY <1>18, <1>19, <1>20 DEF SameInput

(* The file on top is the one that was, or another at its start.            *)
Moves(y, x, k) == SamePlaces(y, x, k) \/ Switched(y, x, k)

(* One after the other.                                                     *)
LEMMA MovesCompose ==
  ASSUME NEW x, NEW y, NEW z, NEW k, Moves(y, x, k), Moves(z, y, k)
  PROVE  Moves(z, x, k)
BY DEF Moves, SamePlaces, Switched

(* The globals of standard output, while the source or the program is read. *)
Outputs(x) == env.withList => x.oupState \in {1, 2}

(* swcoup, when it is not called before the compilation.                    *)
LEMMA SwcOupPlaces ==
  ASSUME env \in Commands, NEW x, Kept(x, FALSE), NEW g \in Nat,
         env.withList => x.oupState \in {0, 1, 2}, NEW opened \in BOOLEAN, NEW y, y = SwcOup(x, opened)
  PROVE  /\ Flows(x, Pipes, g) => Flows(y, Pipes, g)
         /\ SamePlaces(y, x, Pipes) /\ SameSource(y, x)
         /\ y \in Globs /\ EntryAt(y, 0) = EntryAt(x, 0) /\ FileAt(y, 0) = FileAt(x, 0)
<1>1. env.withList \in BOOLEAN  BY CommandLine
<1>2. Calm(y, x) /\ SameSource(y, x)  BY <1>1, OutputCalm
<1>3. x \in Globs  BY DEF Kept, Tables
<1>4. SamePlaces(y, x, Pipes) /\ (Flows(x, Pipes, g) => Flows(y, Pipes, g))
  BY <1>2, <1>3, CalmPlaces
<1>5. FileAt(y, 0) = FileAt(x, 0)
  <2>1. PICK k : k = Pipes  OBVIOUS
  <2>2. FileAt(y, 0) = FileAt(x, 0)  BY <1>2, <1>3, CalmFlows
  <2> QED BY <2>2
<1> QED BY <1>2, <1>4, <1>5 DEF Calm, Stay

(* sysbx: the shell's input is on top unless it has been read.              *)
LEMMA SysBxPlaces ==
  ASSUME env \in Commands, NEW x, Kept(x, FALSE), x.inpcnt <= Len(env.args),
         x.oupState = (IF env.withList THEN 1 ELSE 0), NEW g \in Nat, Flows(x, Pipes, g),
         NEW y, y = SysBx(x)
  PROVE  /\ y \in Globs /\ Flows(y, Pipes, g) /\ Moves(y, x, Pipes)
         /\ Outputs(y) /\ y.inpcnt = x.inpcnt
<1>1. PICK e : e = [x EXCEPT !.executing = TRUE]  OBVIOUS
<1>2. PICK b : b = SwcInp([SetToEof(e) EXCEPT !.curfile = e.inpcnt])  OBVIOUS
<1>3. PICK v : v = IF e.readshell0 THEN b ELSE e  OBVIOUS
<1>4. y = SwcOup(v, TRUE)  BY <1>1, <1>2, <1>3 DEF SysBx
<1>5. x \in Globs  BY DEF Kept, Tables
<1>6. /\ e \in Globs /\ e.fds = x.fds /\ e.open = x.open /\ SameUses(e, x) /\ e.executing = TRUE
      /\ SameStream(e, x) /\ e.inpcnt = x.inpcnt /\ e.oupState = x.oupState
  BY <1>1, <1>5 DEF Globs, SameUses, SameStream
<1>7. Kept(e, FALSE)
  <2>1. PICK c \in BOOLEAN : c = FALSE  OBVIOUS
  <2>2. Kept(x, c) /\ (c => e.save_fd0 = x.save_fd0)  BY <2>1
  <2>3. \A o \in Opens : e.open[o].file = x.open[o].file  BY <1>6
  <2>4. Kept(e, c)  BY <1>6, <2>2, <2>3, SameKept
  <2> QED BY <2>1, <2>4
<1>8. Flows(e, Pipes, g) /\ SamePlaces(e, x, Pipes)  BY <1>6, SameStreamFlows
<1>9. ASSUME e.readshell0
      PROVE  /\ Kept(b, FALSE) /\ Flows(b, Pipes, g) /\ Switched(b, e, Pipes)
             /\ b.inpcnt = e.inpcnt /\ b.oupState = e.oupState
  <2>1. e.inpcnt <= Len(env.args) /\ e.executing  BY <1>6
  <2>2. Fresh(b, e, Pipes) /\ Kept(b, FALSE) /\ SameInput(b, e)
    BY <1>2, <1>7, <1>8, <1>9, <2>1, PassedOver
  <2>3. Streams(e, Pipes, g)  BY <1>8 DEF Flows
  <2>4. Flows(b, Pipes, g) /\ Switched(b, e, Pipes)  BY <2>2, <2>3, FreshPlaces
  <2> QED BY <2>2, <2>4 DEF SameInput
<1>10. /\ Kept(v, FALSE) /\ Flows(v, Pipes, g) /\ Moves(v, e, Pipes)
       /\ v.inpcnt = x.inpcnt /\ v.oupState = x.oupState
  <2>1. CASE e.readshell0  BY <1>3, <1>6, <1>9, <2>1 DEF Moves
  <2>2. CASE ~e.readshell0
    <3>1. v = e  BY <1>3, <2>2
    <3>2. Moves(e, e, Pipes)  BY DEF Moves, SamePlaces
    <3> QED BY <1>6, <1>7, <1>8, <3>1, <3>2
  <2> QED BY <2>1, <2>2
<1>11. env.withList => v.oupState \in {0, 1, 2}  BY <1>10
<1>12. PICK opened \in BOOLEAN : opened = TRUE  OBVIOUS
<1>13. y = SwcOup(v, opened)  BY <1>4, <1>12
<1>14. /\ Flows(v, Pipes, g) => Flows(y, Pipes, g)
       /\ SamePlaces(y, v, Pipes) /\ SameSource(y, v)
       /\ y \in Globs /\ EntryAt(y, 0) = EntryAt(v, 0) /\ FileAt(y, 0) = FileAt(v, 0)
  BY <1>10, <1>11, <1>13, SwcOupPlaces
<1>15. Moves(y, x, Pipes)
  <2>1. Moves(e, x, Pipes) /\ Moves(y, v, Pipes)  BY <1>8, <1>14 DEF Moves
  <2>2. PICK k : k = Pipes  OBVIOUS
  <2>3. Moves(e, x, k) /\ Moves(v, e, k) /\ Moves(y, v, k)  BY <1>10, <2>1, <2>2
  <2>4. Moves(v, x, k)  BY <2>3, MovesCompose
  <2>5. Moves(y, x, k)  BY <2>3, <2>4, MovesCompose
  <2> QED BY <2>2, <2>5
<1>16. Outputs(y)
  <2>1. env.withList \in BOOLEAN  BY CommandLine
  <2>2. env.withList /\ v.oupState = 1 => y.oupState \in {1, 2}
    BY <1>10, <1>13, <2>1, OutputSteps
  <2> QED BY <1>10, <2>2 DEF Outputs
<1> QED BY <1>10, <1>14, <1>15, <1>16 DEF SameSource

(* What the program starts with: the shell's input, at its start.           *)
LEMMA FirstFlows ==
  ASSUME NEW t, Started(t)
  PROVE  /\ Flows(t, Pipes, 0) /\ Suspended(t, Pipes) = <<>>
         /\ OnTop(t, Pipes) = [file |-> Shell, at |-> 0] /\ EntryAt(t, 0).pos = 0
<1>1. /\ Kept(t, FALSE) /\ t.inc = <<>> /\ t.buf = EmptyBuf /\ t.fds[0] = t.fds[t.originp]
      /\ EntryAt(t, t.originp) = [file |-> Shell, pos |-> 0]
  BY DEF Started
<1>2. EntryAt(t, 0) = [file |-> Shell, pos |-> 0]  BY <1>1 DEF EntryAt
<1>3. FileAt(t, 0) = Shell
  <2>1. PICK c \in BOOLEAN : c = FALSE  OBVIOUS
  <2>2. Kept(t, c) /\ 0 \in Uses(t, c)  BY <1>1, <2>1 DEF Uses
  <2>3. FileAt(t, 0) = EntryAt(t, 0).file  BY <2>2, UsedOpen
  <2> QED BY <1>2, <2>3
<1>4. /\ t.buf.offset = 0 /\ t.buf.curpos = -1 /\ t.buf.fill = 0 /\ t.buf.next = 0
  BY <1>1 DEF EmptyBuf, Empty
<1>5. Shell \in DOMAIN Text  BY StandardFilesAssumption
<1>6. Streams(t, Pipes, 0)  BY <1>1, <1>3, <1>5 DEF Streams, Source
<1>7. Size(Shell) \in Nat  BY TextLength DEF Size
<1>8. Buffered(t, Pipes, 0)  BY <1>2, <1>3, <1>4, <1>7 DEF Buffered, After, AtOffset
<1>9. WhereIn(t) = 0  BY <1>4 DEF WhereIn
<1>10. Suspended(t, Pipes) = <<>>  BY <1>1 DEF Suspended
<1>11. OnTop(t, Pipes) = [file |-> Shell, at |-> 0]  BY <1>3, <1>9 DEF OnTop, PlaceAt
<1> QED BY <1>2, <1>6, <1>8, <1>10, <1>11 DEF Flows

(* So it is before main, too.                                               *)
LEMMA GlobalsPlaces ==
  ASSUME env \in Commands, NEW x, x = GetArgs(Globals)
  PROVE  /\ x \in Globs /\ Suspended(x, Pipes) = <<>>
         /\ OnTop(x, Pipes) = [file |-> Shell, at |-> 0]
<1>1. /\ x \in Globs /\ x.inc = <<>> /\ x.buf = EmptyBuf /\ x.fds = FirstFds /\ x.open = FirstOpen
      /\ FirstUsed
  BY FirstGlobals
<1>2. /\ x.buf.offset = 0 /\ x.buf.curpos = -1 /\ x.buf.fill = 0 /\ x.buf.next = 0
  BY <1>1 DEF EmptyBuf, Empty
<1>3. WhereIn(x) = 0  BY <1>2 DEF WhereIn
<1>4. 0 \in 0 .. MaxFd /\ x.fds[0] = 1  BY <1>1, Numbers DEF FirstUsed, Fd
<1>5. x.open[1].file = Shell  BY <1>1 DEF FirstUsed
<1>6. FileAt(x, 0) = Shell  BY <1>4, <1>5 DEF FileAt, IsOpen, Closed
<1> QED BY <1>1, <1>3, <1>6 DEF Suspended, OnTop, PlaceAt

(* The first file, and standard output before the compilation.              *)
LEMMA FirstPlaces ==
  ASSUME env \in Commands, NEW t, Started(t), NEW x, x = SwcInp(t), x.ret # "exit",
         NEW opened \in BOOLEAN, NEW y, y = SwcOup(x, opened)
  PROVE  /\ Kept(x, FALSE) /\ y \in Globs /\ Flows(y, Pipes, 0) /\ Moves(y, t, Pipes)
         /\ EntryAt(y, 0).pos = 0 /\ y.inpcnt = Len(env.args)
<1>1. /\ Kept(t, FALSE) /\ t.inpcnt = Len(env.args) /\ t.oupState = 0
      /\ EntryAt(t, t.originp).pos = 0
  <2>1. /\ Kept(t, FALSE) /\ t.inpcnt = Len(env.args) /\ t.oupState = 0
        /\ EntryAt(t, t.originp) = [file |-> Shell, pos |-> 0]
    BY DEF Started
  <2>2. EntryAt(t, t.originp).pos = 0  BY <2>1
  <2> QED BY <2>1, <2>2
<1>2. Flows(t, Pipes, 0) /\ EntryAt(t, 0).pos = 0  BY FirstFlows
<1>3. t.inpcnt <= Len(env.args)
  <2>1. Len(env.args) \in Nat  BY CommandLine
  <2> QED BY <1>1, <2>1
<1>4. PICK g \in Nat : g = 0  OBVIOUS
<1>5. NextPlaces(x, t, Pipes, g)
  <2>1. Flows(t, Pipes, g)  BY <1>2, <1>4
  <2> QED BY <1>1, <1>3, <2>1, SwcInpPlaces
<1>6. Flows(x, Pipes, g) /\ Moves(x, t, Pipes)  BY <1>5 DEF NextPlaces, Moves
<1>7. InputFlow(x, t, Pipes)  BY <1>1, <1>3, InputFlows
<1>8. EntryAt(x, 0).pos = 0
  <2>1. CASE EntryAt(x, 0).pos \in {0, EntryAt(t, t.originp).pos}  BY <1>1, <2>1
  <2>2. CASE Calm(x, t)
    <3>1. EntryAt(x, 0) = EntryAt(t, 0)  BY <2>2 DEF Calm, Stay
    <3> QED BY <1>2, <3>1
  <2> QED BY <1>7, <2>1, <2>2 DEF InputFlow
<1>9. Kept(x, FALSE) /\ SameInput(x, t)
  <2>1. NextInput(x, t)  BY <1>1, InputStep
  <2> QED BY <2>1 DEF NextInput
<1>10. x.oupState = 0 /\ x.inpcnt = Len(env.args)  BY <1>1, <1>9 DEF SameInput
<1>11. env.withList => x.oupState \in {0, 1, 2}  BY <1>10
<1>12. /\ Flows(x, Pipes, g) => Flows(y, Pipes, g)
       /\ SamePlaces(y, x, Pipes) /\ SameSource(y, x)
       /\ y \in Globs /\ EntryAt(y, 0) = EntryAt(x, 0) /\ FileAt(y, 0) = FileAt(x, 0)
  BY <1>9, <1>11, SwcOupPlaces
<1>13. Moves(y, t, Pipes)
  <2>1. PICK k : k = Pipes  OBVIOUS
  <2>2. Moves(x, t, k) /\ Moves(y, x, k)  BY <1>6, <1>12, <2>1 DEF Moves
  <2>3. Moves(y, t, k)  BY <2>2, MovesCompose
  <2> QED BY <2>1, <2>3
<1> QED BY <1>4, <1>6, <1>8, <1>9, <1>10, <1>12, <1>13 DEF SameSource

(* A loaded save file: its buffer is empty at the start of the file that is *)
(* on top, and the shell's input may be put there.                          *)
LEMMA ReloadedPlaces ==
  ASSUME env \in Commands, NEW y, Kept(y, FALSE), NEW g \in Nat, Flows(y, Pipes, g),
         EntryAt(y, 0).pos = 0, NEW z, z = Reloaded(y)
  PROVE  /\ z \in Globs /\ Flows(z, Pipes, g) /\ Moves(z, y, Pipes) /\ z.inpcnt = 0
<1>1. PICK b : b = Empty(0, 0)  OBVIOUS
<1>2. b \in Buffer  BY <1>1, EmptyBuffer
<1>3. PICK w : w = [y EXCEPT !.buf = b, !.inpcnt = 0, !.executing = TRUE, !.provide_name = FALSE]
  OBVIOUS
<1>4. z = SwcInp(w)  BY <1>1, <1>3 DEF Reloaded
<1>5. y \in Globs  BY DEF Kept, Tables
<1>6. /\ w \in Globs /\ w.fds = y.fds /\ w.open = y.open /\ SameUses(w, y)
      /\ w.inpcnt = 0 /\ w.executing = TRUE /\ w.buf = b /\ w.inc = y.inc /\ w.originp = y.originp
  BY <1>2, <1>3, <1>5 DEF Globs, SameUses
<1>7. Kept(w, FALSE)
  <2>1. PICK c \in BOOLEAN : c = FALSE  OBVIOUS
  <2>2. Kept(y, c) /\ (c => w.save_fd0 = y.save_fd0)  BY <2>1
  <2>3. \A o \in Opens : w.open[o].file = y.open[o].file  BY <1>6
  <2>4. Kept(w, c)  BY <1>6, <2>2, <2>3, SameKept
  <2> QED BY <2>1, <2>4
<1>8. /\ \A e : FileAt(w, e) = FileAt(y, e) /\ EntryAt(w, e) = EntryAt(y, e)
      /\ Suspended(w, Pipes) = Suspended(y, Pipes)
  BY <1>6 DEF FileAt, IsOpen, EntryAt, Suspended
<1>9. w.buf.offset = 0 /\ w.buf.curpos = 0 /\ w.buf.fill = 0 /\ w.buf.next = 0
  BY <1>1, <1>6 DEF Empty
<1>10. Streams(w, Pipes, g)  BY <1>6, <1>8 DEF Flows, Streams, Source
<1>11. Buffered(w, Pipes, g)
  <2>1. Size(FileAt(w, 0)) \in Nat  BY TextLength DEF Size
  <2>2. FileAt(w, 0) \in Pipes => g <= EntryAt(w, 0).pos
    BY <1>8 DEF Flows, Buffered, After
  <2> QED BY <1>8, <1>9, <2>1, <2>2 DEF Buffered, After, AtOffset
<1>12. Flows(w, Pipes, g)  BY <1>10, <1>11 DEF Flows
<1>13. Moves(w, y, Pipes)
  <2>1. WhereIn(w) = 0  BY <1>8, <1>9 DEF WhereIn
  <2>2. OnTop(w, Pipes) = [file |-> FileAt(w, 0), at |-> 0]  BY <2>1 DEF OnTop, PlaceAt
  <2>3. FileAt(w, 0) \in DOMAIN Text  BY <1>10 DEF Streams, Source
  <2> QED BY <1>8, <2>2, <2>3 DEF Moves, Switched
<1>14. w.inpcnt <= Len(env.args)
  <2>1. Len(env.args) \in Nat  BY CommandLine
  <2> QED BY <1>6, <2>1
<1>15. NextPlaces(z, w, Pipes, g)  BY <1>4, <1>7, <1>12, <1>14, SwcInpPlaces
<1>16. z.ret # "exit" /\ z.inpcnt = 0
  <2>1. NextInput(z, w)  BY <1>4, <1>7, InputStep
  <2>2. ~(w.curfile < w.inpcnt)
    <3>1. w.curfile \in Nat  BY <1>6 DEF Globs
    <3> QED BY <1>6, <3>1
  <2> QED BY <1>6, <2>1, <2>2 DEF NextInput, SameInput
<1>17. Moves(z, y, Pipes)
  <2>1. PICK k : k = Pipes  OBVIOUS
  <2>2. Moves(w, y, k) /\ Moves(z, w, k)  BY <1>13, <1>15, <2>1 DEF NextPlaces, Moves
  <2>3. Moves(z, y, k)  BY <2>2, MovesCompose
  <2> QED BY <2>1, <2>3
<1> QED BY <1>15, <1>16, <1>17 DEF NextPlaces

-----------------------------------------------------------------------------
(* The steps of InputStream.                                                *)

(* A stack of which a is the top, and another in its place.                 *)
LEMMA Stacks ==
  ASSUME NEW S, NEW p \in Seq(S), NEW a, NEW q, q = Append(p, a)
  PROVE  /\ Len(p) \in Nat /\ Len(q) = Len(p) + 1 /\ q[Len(q)] = a
         /\ \A b : [q EXCEPT ![Len(q)] = b] = Append(p, b)
         /\ SubSeq(q, 1, Len(q) - 1) = p
         /\ Len(q) > 1 <=> p # <<>>
<1>1. p \in Seq(S \cup {a}) /\ a \in S \cup {a} /\ Len(p) \in Nat
  OBVIOUS
<1>2. q \in Seq(S \cup {a}) /\ Len(q) = Len(p) + 1 /\ q[Len(q)] = a
      /\ \A i \in 1 .. Len(p) : q[i] = p[i]
  BY <1>1, AppendProperties
<1>3. ASSUME NEW b
      PROVE  [q EXCEPT ![Len(q)] = b] = Append(p, b)
  <2>1. p \in Seq(S \cup {a, b}) /\ q \in Seq(S \cup {a, b}) /\ b \in S \cup {a, b}
    BY <1>1, <1>2
  <2>2. /\ Append(p, b) \in Seq(S \cup {a, b}) /\ Len(Append(p, b)) = Len(p) + 1
        /\ Append(p, b)[Len(p) + 1] = b
        /\ \A i \in 1 .. Len(p) : Append(p, b)[i] = p[i]
    BY <1>1, <2>1, AppendProperties
  <2>3. [q EXCEPT ![Len(q)] = b] \in Seq(S \cup {a, b}) /\ Len([q EXCEPT ![Len(q)] = b]) = Len(q)
    BY <1>1, <1>2, <2>1, ExceptSeq
  <2>4. \A i \in 1 .. Len(q) : [q EXCEPT ![Len(q)] = b][i] = Append(p, b)[i]
    <3>1. DOMAIN q = 1 .. Len(q) /\ Len(q) \in Nat  BY <1>1, <1>2
    <3>2. ASSUME NEW i \in 1 .. Len(q)
          PROVE  [q EXCEPT ![Len(q)] = b][i] = Append(p, b)[i]
      <4>1. [q EXCEPT ![Len(q)] = b][i] = IF i = Len(q) THEN b ELSE q[i]  BY <3>1
      <4>2. i # Len(q) => i \in 1 .. Len(p)  BY <1>1, <1>2
      <4> QED BY <1>2, <2>2, <4>1, <4>2
    <3> QED BY <3>2
  <2>5. Len([q EXCEPT ![Len(q)] = b]) = Len(Append(p, b))  BY <1>2, <2>2, <2>3
  <2> QED BY <2>2, <2>3, <2>4, <2>5, SeqEqual
<1>4. SubSeq(q, 1, Len(q) - 1) = p
  BY <1>1, <1>2
<1>5. Len(q) > 1 <=> p # <<>>
  <2>1. p # <<>> <=> Len(p) > 0  BY <1>1
  <2> QED BY <1>1, <1>2, <2>1
<1> QED BY <1>1, <1>2, <1>3, <1>4, <1>5

(* Nothing happens that InputStream tells.                                  *)
LEMMA IsStutter ==
  ASSUME Place' = Place, UNCHANGED <<env, gone, served>>
  PROVE  UNCHANGED Stream!streamVars
<1>1. Pipes' = Pipes  BY DEF Pipes
<1> QED BY <1>1 DEF Stream!streamVars

(* A record is served.                                                      *)
LEMMA IsServe ==
  ASSUME NEW S, NEW p \in Seq(S), NEW f \in DOMAIN Text, f \notin Pipes, NEW n \in Nat,
         n < Len(Text[f]), Place = Append(p, [file |-> f, at |-> n]),
         Place' = Append(p, [file |-> f, at |-> n + 1]), served' = <<f, n + 1>>,
         UNCHANGED <<env, gone>>
  PROVE  Stream!Serve
<1>1. PICK a : a = [file |-> f, at |-> n]  OBVIOUS
<1>2. Place = Append(p, a)  BY <1>1
<1>3. /\ Place[Len(Place)] = a
      /\ \A b : [Place EXCEPT ![Len(Place)] = b] = Append(p, b)
  BY <1>2, Stacks
<1>4. Pipes' = Pipes  BY DEF Pipes
<1>5. f # NoFile  BY StandardFilesAssumption
<1>6. Stream!File = f /\ Stream!Top = Len(Place) /\ Stream!Length(f) = Len(Text[f])
  BY <1>1, <1>3, <1>5 DEF Stream!File, Stream!Top, Stream!Length
<1>7. Place' = [Place EXCEPT ![Len(Place)].at = @ + 1]
  <2>1. [a EXCEPT !.at = @ + 1] = [file |-> f, at |-> n + 1]  BY <1>1
  <2>2. [Place EXCEPT ![Len(Place)].at = @ + 1]
          = [Place EXCEPT ![Len(Place)] = [a EXCEPT !.at = @ + 1]]
    BY <1>3
  <2> QED BY <1>3, <2>1, <2>2
<1>8. Place[Len(Place)].at = n  BY <1>1, <1>3
<1> QED BY <1>4, <1>6, <1>7, <1>8 DEF Stream!Serve

(* One of a pipe: some may have been lost before it.                        *)
LEMMA IsServePipe ==
  ASSUME NEW S, NEW p \in Seq(S), NEW f \in DOMAIN Text, f \in Pipes, NEW n,
         NEW i, i \in gone + 1 .. Len(Text[f]), Place = Append(p, [file |-> f, at |-> n]),
         Place' = Place, served' = <<f, i>>, gone' = i, UNCHANGED env
  PROVE  Stream!ServePipe
<1>1. PICK a : a = [file |-> f, at |-> n]  OBVIOUS
<1>2. Place = Append(p, a)  BY <1>1
<1>3. Place[Len(Place)] = a  BY <1>2, Stacks
<1>4. Pipes' = Pipes  BY DEF Pipes
<1>5. f # NoFile  BY StandardFilesAssumption
<1>6. Stream!File = f /\ Stream!Length(f) = Len(Text[f])
  BY <1>1, <1>3, <1>5 DEF Stream!File, Stream!Top, Stream!Length
<1> QED BY <1>4, <1>6 DEF Stream!ServePipe

(* End of file is answered.                                                 *)
LEMMA IsServeEof ==
  ASSUME NEW S, NEW p \in Seq(S), NEW f \in DOMAIN Text, NEW n, f \in Pipes \/ n = Len(Text[f]),
         Place = Append(p, [file |-> f, at |-> n]),
         Place' = Place, served' = <<NoFile, 0>>, UNCHANGED <<env, gone>>
  PROVE  Stream!ServeEof
<1>1. PICK a : a = [file |-> f, at |-> n]  OBVIOUS
<1>2. Place = Append(p, a)  BY <1>1
<1>3. Place[Len(Place)] = a  BY <1>2, Stacks
<1>4. Pipes' = Pipes  BY DEF Pipes
<1>5. f # NoFile  BY StandardFilesAssumption
<1>6. Stream!File = f /\ Stream!Length(f) = Len(Text[f]) /\ Place[Stream!Top].at = n
  BY <1>1, <1>3, <1>5 DEF Stream!File, Stream!Top, Stream!Length
<1> QED BY <1>4, <1>6 DEF Stream!ServeEof, Stream!Eof

(* Another file is on top.                                                  *)
LEMMA IsSwitch ==
  ASSUME NEW S, NEW p \in Seq(S), NEW a, Place = Append(p, a), NEW f \in DOMAIN Text \cup {NoFile},
         Place' = Append(p, [file |-> f, at |-> 0]), UNCHANGED <<env, gone, served>>
  PROVE  Stream!Switch
<1>1. PICK b : b = [file |-> f, at |-> 0]  OBVIOUS
<1>2. [Place EXCEPT ![Len(Place)] = b] = Append(p, b)  BY Stacks
<1>3. Pipes' = Pipes  BY DEF Pipes
<1> QED BY <1>1, <1>2, <1>3 DEF Stream!Switch, Stream!Top

(* A file is put on the others.                                             *)
LEMMA IsEnter ==
  ASSUME NEW f \in DOMAIN Text, Place' = Append(Place, [file |-> f, at |-> 0]),
         UNCHANGED <<env, gone, served>>
  PROVE  Stream!Enter
<1>1. Pipes' = Pipes  BY DEF Pipes
<1> QED BY <1>1 DEF Stream!Enter

(* It is left again.                                                        *)
LEMMA IsLeave ==
  ASSUME NEW S, NEW p \in Seq(S), NEW a, Place = Append(p, a), p # <<>>, Place' = p,
         UNCHANGED <<env, gone, served>>
  PROVE  Stream!Leave
<1>1. SubSeq(Place, 1, Len(Place) - 1) = p /\ Len(Place) > 1  BY Stacks
<1>2. Pipes' = Pipes  BY DEF Pipes
<1> QED BY <1>1, <1>2 DEF Stream!Leave, Stream!Top

(* The file on top is read again.                                           *)
LEMMA IsAgain ==
  ASSUME NEW S, NEW p \in Seq(S), NEW f, NEW n, Place = Append(p, [file |-> f, at |-> n]),
         Place' = Append(p, [file |-> f, at |-> 0]), UNCHANGED <<env, gone, served>>
  PROVE  Stream!Again
<1>1. PICK a : a = [file |-> f, at |-> n]  OBVIOUS
<1>2. Place = Append(p, a)  BY <1>1
<1>3. /\ Place[Len(Place)] = a
      /\ \A b : [Place EXCEPT ![Len(Place)] = b] = Append(p, b)
  BY <1>2, Stacks
<1>4. Place' = [Place EXCEPT ![Len(Place)].at = 0]
  <2>1. [a EXCEPT !.at = 0] = [file |-> f, at |-> 0]  BY <1>1
  <2>2. [Place EXCEPT ![Len(Place)].at = 0] = [Place EXCEPT ![Len(Place)] = [a EXCEPT !.at = 0]]
    BY <1>3
  <2> QED BY <1>3, <2>1, <2>2
<1>5. Pipes' = Pipes  BY DEF Pipes
<1> QED BY <1>4, <1>5 DEF Stream!Again, Stream!Top

(* The stack of files: those suspended, and the one on top, or kept apart   *)
(* while a command reads.                                                   *)
Stack(x, k, cmd) ==
  Append(Suspended(x, k), IF cmd THEN PlaceAt(k, FileAt(x, x.save_fd0), 0) ELSE OnTop(x, k))

(* It is what the model maps to.                                            *)
LEMMA PlaceIs ==
  ASSUME s \in Globs
  PROVE  Place = Stack(s, Pipes, stage = "command")
<1>1. PICK p : p = Suspended(s, Pipes)  OBVIOUS
<1>2. p \in Seq(PlaceSet)
  <2>1. PICK k : k = Pipes  OBVIOUS
  <2>2. Suspended(s, k) \in Seq(PlaceSet)  BY SuspendedPlaces
  <2> QED BY <1>1, <2>1, <2>2
<1>3. PICK a : a = IF stage = "command" THEN PlaceAt(Pipes, FileAt(s, s.save_fd0), 0)
                   ELSE OnTop(s, Pipes)
  OBVIOUS
<1>4. Where = WhereIn(s)  BY DEF Where, WhereIn, EntryAt
<1>5. a = IF stage = "command" THEN PlaceOf(FileAt(s, s.save_fd0), 0)
          ELSE PlaceOf(FileAt(s, 0), Where)
  BY <1>3, <1>4 DEF PlaceAt, PlaceOf, OnTop
<1>6. p = [i \in DOMAIN s.inc |-> PlaceOf(FileAt(s, s.inc[i].fd), s.inc[i].pos)]
  BY <1>1 DEF Suspended, PlaceAt, PlaceOf
<1>7. Place = p \o <<a>>  BY <1>5, <1>6 DEF Place
<1>8. Append(p, a) = p \o <<a>>
  <2>1. p \in Seq(PlaceSet \cup {a}) /\ a \in PlaceSet \cup {a}  BY <1>2
  <2> QED BY <2>1, AppendIsConcat
<1> QED BY <1>1, <1>3, <1>7, <1>8 DEF Stack

(* And after a step.                                                        *)
LEMMA PlaceIsNext == (s \in Globs => Place = Stack(s, Pipes, stage = "command"))'
<1>1. s \in Globs => Place = Stack(s, Pipes, stage = "command")  BY PlaceIs
<1> QED BY <1>1, PTL

-----------------------------------------------------------------------------
(* The invariant that makes each read serve the stream.                     *)
StreamInv ==
  /\ s \in Globs /\ gone \in 0 .. Size(Shell)
  /\ stage = "start" => gone = 0
  /\ stage \notin {"start", "stopped"} => Streams(s, Pipes, gone) /\ s.inpcnt <= Len(env.args)
  /\ stage \notin {"start", "stopped", "command"} => Buffered(s, Pipes, gone)
  /\ stage = "command" => Source(s, s.save_fd0, Pipes)
  /\ stage \in {"code", "execute", "command"} => Outputs(s)

(* The records of the shell's input.                                        *)
LEMMA GoneNat ==
  ASSUME StreamInv
  PROVE  gone \in Nat /\ gone \in Int /\ Size(Shell) \in Nat /\ gone <= Size(Shell)
<1>1. Size(Shell) \in Nat  BY TextLength DEF Size
<1>2. gone \in 0 .. Size(Shell)  BY DEF StreamInv
<1> QED BY <1>1, <1>2

(* While the compiler or the program reads.                                 *)
LEMMA WorkingStream ==
  ASSUME Inv, StreamInv, stage \notin {"start", "stopped", "command"}
  PROVE  /\ env \in Commands /\ Kept(s, FALSE) /\ s \in Globs /\ gone \in Nat
         /\ Flows(s, Pipes, gone) /\ s.inpcnt <= Len(env.args)
         /\ stage \in {"code", "execute"} => Outputs(s)
         /\ stage \in {"compile", "code", "execute"} /\ FileAt(s, 0) \in DOMAIN Text
<1>1. /\ env \in Commands /\ stage \in {"compile", "code", "execute"}
      /\ Kept(s, FALSE) /\ s \in Globs /\ s.fds[0] # Closed
  BY Working
<1>2. gone \in Nat  BY GoneNat
<1>3. Flows(s, Pipes, gone) /\ s.inpcnt <= Len(env.args)  BY DEF StreamInv, Flows
<1>4. FileAt(s, 0) \in DOMAIN Text  BY <1>3 DEF Flows, Streams, Source
<1>5. stage \in {"code", "execute"} => Outputs(s)  BY DEF StreamInv
<1> QED BY <1>1, <1>2, <1>3, <1>4, <1>5

(* What is left to show of a step that no command begins or ends.           *)
LEMMA StreamKept ==
  ASSUME env' = env, s' \in Globs, gone' \in 0 .. Size(Shell), stage' \notin {"start", "command"},
         stage' # "stopped" => Flows(s', Pipes, gone') /\ s'.inpcnt <= Len(env.args),
         stage' \in {"code", "execute"} => Outputs(s')
  PROVE  StreamInv'
<1>1. Pipes' = Pipes  BY DEF Pipes
<1>2. \A p : Flows(s', p, gone') => Streams(s', p, gone') /\ Buffered(s', p, gone')  BY DEF Flows
<1>3. Outputs(s') => (Outputs(s))'  BY DEF Outputs
<1> QED BY <1>1, <1>2, <1>3 DEF StreamInv

(* The file on top.                                                         *)
LEMMA TopNow ==
  ASSUME s \in Globs, stage # "command"
  PROVE  /\ Place = Append(Suspended(s, Pipes), OnTop(s, Pipes))
         /\ Suspended(s, Pipes) \in Seq(PlaceSet)
<1>1. Place = Stack(s, Pipes, stage = "command")  BY PlaceIs
<1>2. PICK k : k = Pipes  OBVIOUS
<1>3. Suspended(s, k) \in Seq(PlaceSet)  BY SuspendedPlaces
<1> QED BY <1>1, <1>2, <1>3 DEF Stack

(* And after the step.                                                      *)
LEMMA TopNext ==
  ASSUME s' \in Globs, stage' # "command", env' = env
  PROVE  Place' = Append(Suspended(s', Pipes), OnTop(s', Pipes))
<1>1. Place' = Stack(s', Pipes', stage' = "command")  BY PlaceIsNext
<1>2. Pipes' = Pipes  BY DEF Pipes
<1> QED BY <1>1, <1>2 DEF Stack

(* A step that reads nothing, and may put another file on top.              *)
LEMMA StepMoves ==
  ASSUME s \in Globs, s' \in Globs, stage # "command", stage' # "command",
         UNCHANGED <<env, gone, served>>, Moves(s', s, Pipes)
  PROVE  [Stream!StreamNext]_(Stream!streamVars)
<1>1. PICK p, a : p = Suspended(s, Pipes) /\ a = OnTop(s, Pipes)  OBVIOUS
<1>2. Place = Append(p, a) /\ p \in Seq(PlaceSet)  BY <1>1, TopNow
<1>3. Place' = Append(Suspended(s', Pipes), OnTop(s', Pipes))  BY TopNext
<1>4. CASE SamePlaces(s', s, Pipes)
  <2>1. Place' = Place  BY <1>1, <1>2, <1>3, <1>4 DEF SamePlaces
  <2>2. UNCHANGED Stream!streamVars  BY <2>1, IsStutter
  <2> QED BY <2>2
<1>5. CASE Switched(s', s, Pipes)
  <2>1. PICK f \in DOMAIN Text \cup {NoFile} : OnTop(s', Pipes) = [file |-> f, at |-> 0]
    BY <1>5 DEF Switched
  <2>2. Place' = Append(p, [file |-> f, at |-> 0])  BY <1>1, <1>3, <1>5, <2>1 DEF Switched
  <2>3. Stream!Switch  BY <1>2, <2>2, IsSwitch
  <2> QED BY <2>3 DEF Stream!StreamNext
<1> QED BY <1>4, <1>5 DEF Moves

-----------------------------------------------------------------------------
(* Every step of standard input is one of InputStream, and keeps it.        *)

(* The answer of a step is taken: what it did to the places stays.          *)
LEMMA SettledMoves ==
  ASSUME NEW y \in Globs, NEW x, NEW g, Moves(y, x, Pipes), NEW z, z = [y EXCEPT !.ret = "none"]
  PROVE  /\ z \in Globs /\ Moves(z, x, Pipes) /\ (Flows(y, Pipes, g) => Flows(z, Pipes, g))
         /\ z.inpcnt = y.inpcnt /\ (Outputs(y) => Outputs(z))
<1>1. /\ SameStream(z, y) /\ z \in Globs /\ z.inpcnt = y.inpcnt /\ z.oupState = y.oupState
      /\ z.save_fd0 = y.save_fd0
  BY SettledStream
<1>2. PICK k : k = Pipes  OBVIOUS
<1>3. SamePlaces(z, y, k) /\ (Flows(y, k, g) => Flows(z, k, g))  BY <1>1, SameStreamFlows
<1>4. Moves(z, y, k) /\ Moves(y, x, k)  BY <1>2, <1>3 DEF Moves
<1>5. Moves(z, x, k)  BY <1>4, MovesCompose
<1> QED BY <1>1, <1>2, <1>3, <1>5 DEF Outputs

(* main.                                                                    *)
LEMMA StartStreams ==
  ASSUME Inv, StreamInv, Start
  PROVE  StreamInv' /\ [Stream!StreamNext]_(Stream!streamVars)
<1>1. /\ env \in Commands /\ s = GetArgs(Globals) /\ stage = "start" /\ gone = 0
      /\ UNCHANGED <<env, gone, served>>
  BY DEF Inv, StreamInv, Start
<1>2. PICK opened, again \in BOOLEAN :
        LET x == SwcInp(s)
            y == SwcOup(x, opened)
            z == Reloaded(y)
        IN  IF x.ret = "exit" THEN Settle(x) /\ stage' = "stopped"
            ELSE IF IsImage(x) THEN Settle(IF again THEN SwcOup(z, TRUE) ELSE z) /\ stage' = "execute"
            ELSE Settle(y) /\ stage' = "compile"
  BY DEF Start
<1>3. PICK t : Started(t) /\ SwcInp(s) = SwcInp(t)  BY <1>1, FirstInput
<1>4. PICK x : x = SwcInp(t)  OBVIOUS
<1>5. PICK y : y = SwcOup(x, opened)  OBVIOUS
<1>6. PICK z : z = Reloaded(y)  OBVIOUS
<1>7. PICK v : v = IF again THEN SwcOup(z, TRUE) ELSE z  OBVIOUS
<1>8. \/ x.ret = "exit" /\ stage' = "stopped" /\ s' = [x EXCEPT !.ret = "none"]
      \/ x.ret # "exit" /\ stage' = "execute" /\ s' = [v EXCEPT !.ret = "none"]
      \/ x.ret # "exit" /\ stage' = "compile" /\ s' = [y EXCEPT !.ret = "none"]
  <2>1. x = SwcInp(s)  BY <1>3, <1>4
  <2>2. IF x.ret = "exit" THEN Settle(x) /\ stage' = "stopped"
        ELSE IF IsImage(x) THEN Settle(v) /\ stage' = "execute"
        ELSE Settle(y) /\ stage' = "compile"
    BY <1>2, <1>5, <1>6, <1>7, <2>1, Zenon
  <2>3. \/ x.ret = "exit" /\ Settle(x) /\ stage' = "stopped"
        \/ x.ret # "exit" /\ stage' = "execute" /\ Settle(v)
        \/ x.ret # "exit" /\ stage' = "compile" /\ Settle(y)
    BY <2>2, Zenon
  <2> QED BY <2>3, Zenon DEF Settle
<1>9. s \in Globs /\ Moves(t, s, Pipes)
  <2>1. /\ s \in Globs /\ Suspended(s, Pipes) = <<>> /\ OnTop(s, Pipes) = [file |-> Shell, at |-> 0]
    BY <1>1, GlobalsPlaces
  <2>2. Suspended(t, Pipes) = <<>> /\ OnTop(t, Pipes) = [file |-> Shell, at |-> 0]
    BY <1>3, FirstFlows
  <2> QED BY <2>1, <2>2 DEF Moves, SamePlaces
<1>10. PICK g \in Nat : g = 0  OBVIOUS
<1>11. 0 \in 0 .. Size(Shell)
  <2>1. Size(Shell) \in Nat  BY TextLength DEF Size
  <2> QED BY <2>1
<1>12. ASSUME x.ret # "exit"
       PROVE  /\ Kept(x, FALSE) /\ y \in Globs /\ Flows(y, Pipes, 0) /\ Moves(y, t, Pipes)
              /\ EntryAt(y, 0).pos = 0 /\ y.inpcnt = Len(env.args)
              /\ Kept(y, FALSE) /\ y.oupState = (IF env.withList THEN 1 ELSE 0)
  <2>1. /\ Kept(x, FALSE) /\ y \in Globs /\ Flows(y, Pipes, 0) /\ Moves(y, t, Pipes)
        /\ EntryAt(y, 0).pos = 0 /\ y.inpcnt = Len(env.args)
    BY <1>1, <1>3, <1>4, <1>5, <1>12, FirstPlaces
  <2>2. x.oupState = 0 /\ x.errflag = FALSE
    <3>1. NextInput(x, t)  BY <1>3, <1>4, InputStep DEF Started
    <3>2. SameInput(x, t)  BY <1>12, <3>1 DEF NextInput
    <3> QED BY <1>3, <3>2 DEF SameInput, Started
  <2>3. OutputKept(y, x) /\ y.oupState = (IF env.withList THEN 1 ELSE 0)
    BY <1>1, <1>5, <2>1, <2>2, OutputBefore
  <2> QED BY <2>1, <2>3 DEF OutputKept
<1>13. CASE x.ret = "exit" /\ stage' = "stopped" /\ s' = [x EXCEPT !.ret = "none"]
  <2>1. NextPlaces(x, t, Pipes, g)
    <3>1. Kept(t, FALSE) /\ t.inpcnt = Len(env.args)  BY <1>3 DEF Started
    <3>2. Flows(t, Pipes, g)  BY <1>3, <1>10, FirstFlows
    <3>3. t.inpcnt <= Len(env.args)
      <4>1. Len(env.args) \in Nat  BY <1>1, CommandLine
      <4> QED BY <3>1, <4>1
    <3> QED BY <1>1, <1>4, <3>1, <3>2, <3>3, SwcInpPlaces
  <2>2. x \in Globs /\ Moves(x, t, Pipes)  BY <2>1 DEF NextPlaces, Moves
  <2>3. Moves(x, s, Pipes)
    <3>1. PICK k : k = Pipes  OBVIOUS
    <3>2. Moves(t, s, k) /\ Moves(x, t, k)  BY <1>9, <2>2, <3>1
    <3>3. Moves(x, s, k)  BY <3>2, MovesCompose
    <3> QED BY <3>1, <3>3
  <2>4. s' \in Globs /\ Moves(s', s, Pipes)  BY <1>13, <2>2, <2>3, SettledMoves
  <2>5. StreamInv'  BY <1>1, <1>11, <1>13, <2>4, StreamKept
  <2>6. [Stream!StreamNext]_(Stream!streamVars)  BY <1>1, <1>9, <1>13, <2>4, StepMoves
  <2> QED BY <2>5, <2>6
<1>14. CASE x.ret # "exit" /\ stage' = "execute" /\ s' = [v EXCEPT !.ret = "none"]
  <2>1. /\ Kept(y, FALSE) /\ Flows(y, Pipes, g) /\ Moves(y, t, Pipes) /\ EntryAt(y, 0).pos = 0
        /\ y.oupState = (IF env.withList THEN 1 ELSE 0)
    BY <1>10, <1>12, <1>14
  <2>2. z \in Globs /\ Flows(z, Pipes, g) /\ Moves(z, y, Pipes) /\ z.inpcnt = 0
    BY <1>1, <1>6, <2>1, ReloadedPlaces
  <2>3. Kept(z, FALSE) /\ z.oupState = y.oupState  BY <1>6, <2>1, ReloadedKept
  <2>4. v \in Globs /\ Flows(v, Pipes, g) /\ SamePlaces(v, z, Pipes) /\ v.inpcnt = 0 /\ Outputs(v)
    <3>1. CASE again = FALSE
      <4>1. v = z  BY <1>7, <3>1
      <4> QED BY <2>1, <2>2, <2>3, <4>1 DEF SamePlaces, Outputs
    <3>2. CASE again = TRUE
      <4>1. PICK o \in BOOLEAN : o = TRUE  OBVIOUS
      <4>2. v = SwcOup(z, o)  BY <1>7, <3>2, <4>1
      <4>3. env.withList => z.oupState \in {0, 1, 2}  BY <2>1, <2>3
      <4>4. /\ Flows(z, Pipes, g) => Flows(v, Pipes, g)
            /\ SamePlaces(v, z, Pipes) /\ SameSource(v, z)
            /\ v \in Globs /\ EntryAt(v, 0) = EntryAt(z, 0) /\ FileAt(v, 0) = FileAt(z, 0)
        BY <1>1, <2>3, <4>2, <4>3, SwcOupPlaces
      <4>5. env.withList /\ z.oupState = 1 => v.oupState \in {1, 2}
        <5>1. env.withList \in BOOLEAN  BY <1>1, CommandLine
        <5> QED BY <2>3, <4>2, <5>1, OutputSteps
      <4>6. Outputs(v)  BY <2>1, <2>3, <4>5 DEF Outputs
      <4> QED BY <2>2, <4>4, <4>6 DEF SameSource
    <3> QED BY <1>2, <3>1, <3>2
  <2>5. Moves(v, s, Pipes)
    <3>1. PICK k : k = Pipes  OBVIOUS
    <3>2. Moves(t, s, k) /\ Moves(y, t, k) /\ Moves(z, y, k) /\ Moves(v, z, k)
      BY <1>9, <2>1, <2>2, <2>4, <3>1 DEF Moves
    <3>3. Moves(y, s, k)  BY <3>2, MovesCompose
    <3>4. Moves(z, s, k)  BY <3>2, <3>3, MovesCompose
    <3>5. Moves(v, s, k)  BY <3>2, <3>4, MovesCompose
    <3> QED BY <3>1, <3>5
  <2>6. /\ s' \in Globs /\ Moves(s', s, Pipes) /\ (Flows(v, Pipes, g) => Flows(s', Pipes, g))
        /\ s'.inpcnt = v.inpcnt /\ (Outputs(v) => Outputs(s'))
    BY <1>14, <2>4, <2>5, SettledMoves
  <2>7. s'.inpcnt <= Len(env.args) /\ gone' = g
    <3>1. Len(env.args) \in Nat  BY <1>1, CommandLine
    <3> QED BY <1>1, <1>10, <2>4, <2>6, <3>1
  <2>8. StreamInv'  BY <1>1, <1>10, <1>11, <1>14, <2>4, <2>6, <2>7, StreamKept
  <2>9. [Stream!StreamNext]_(Stream!streamVars)  BY <1>1, <1>9, <1>14, <2>6, StepMoves
  <2> QED BY <2>8, <2>9
<1>15. CASE x.ret # "exit" /\ stage' = "compile" /\ s' = [y EXCEPT !.ret = "none"]
  <2>1. y \in Globs /\ Flows(y, Pipes, g) /\ Moves(y, t, Pipes) /\ y.inpcnt = Len(env.args)
    BY <1>10, <1>12, <1>15
  <2>2. Moves(y, s, Pipes)
    <3>1. PICK k : k = Pipes  OBVIOUS
    <3>2. Moves(t, s, k) /\ Moves(y, t, k)  BY <1>9, <2>1, <3>1
    <3>3. Moves(y, s, k)  BY <3>2, MovesCompose
    <3> QED BY <3>1, <3>3
  <2>3. /\ s' \in Globs /\ Moves(s', s, Pipes) /\ (Flows(y, Pipes, g) => Flows(s', Pipes, g))
        /\ s'.inpcnt = y.inpcnt /\ (Outputs(y) => Outputs(s'))
    BY <1>15, <2>1, <2>2, SettledMoves
  <2>4. s'.inpcnt <= Len(env.args) /\ gone' = g
    <3>1. Len(env.args) \in Nat  BY <1>1, CommandLine
    <3> QED BY <1>1, <1>10, <2>1, <2>3, <3>1
  <2>5. StreamInv'  BY <1>1, <1>10, <1>11, <1>15, <2>1, <2>3, <2>4, StreamKept
  <2>6. [Stream!StreamNext]_(Stream!streamVars)  BY <1>1, <1>9, <1>15, <2>3, StepMoves
  <2> QED BY <2>5, <2>6
<1> QED BY <1>8, <1>13, <1>14, <1>15

(* A step in which nothing is read or switched.                             *)
LEMMA StepStays ==
  ASSUME Inv, StreamInv, stage \notin {"start", "stopped", "command"}, UNCHANGED <<env, gone, served>>,
         s' \in Globs, SameStream(s', s), s'.inpcnt <= Len(env.args), s'.oupState = s.oupState,
         stage' = stage \/ (stage = "code" /\ stage' = "execute")
  PROVE  StreamInv' /\ [Stream!StreamNext]_(Stream!streamVars)
<1>1. /\ env \in Commands /\ Kept(s, FALSE) /\ s \in Globs /\ gone \in Nat
      /\ Flows(s, Pipes, gone) /\ s.inpcnt <= Len(env.args)
      /\ stage \in {"code", "execute"} => Outputs(s)
      /\ stage \in {"compile", "code", "execute"} /\ FileAt(s, 0) \in DOMAIN Text
  BY WorkingStream
<1>2. PICK k : k = Pipes  OBVIOUS
<1>3. SamePlaces(s', s, k) /\ (Flows(s, k, gone) => Flows(s', k, gone))
  BY SameStreamFlows
<1>4. gone \in 0 .. Size(Shell)  BY DEF StreamInv
<1>5. stage' \in {"code", "execute"} => Outputs(s')  BY <1>1 DEF Outputs
<1>6. StreamInv'  BY <1>1, <1>2, <1>3, <1>4, <1>5, StreamKept
<1>7. Moves(s', s, Pipes)  BY <1>2, <1>3 DEF Moves
<1>8. [Stream!StreamNext]_(Stream!streamVars)  BY <1>1, <1>7, StepMoves
<1> QED BY <1>6, <1>8

(* So it is when nothing of the globals changes.                            *)
LEMMA StepRests ==
  ASSUME Inv, StreamInv, stage \notin {"start", "stopped", "command"}, UNCHANGED <<env, s, gone, served>>,
         stage' = stage \/ (stage = "code" /\ stage' = "execute")
  PROVE  StreamInv' /\ [Stream!StreamNext]_(Stream!streamVars)
<1>1. s \in Globs /\ s.inpcnt <= Len(env.args)  BY DEF StreamInv
<1>2. SameStream(s', s)  BY DEF SameStream
<1> QED BY <1>1, <1>2, StepStays

(* zysrd gives a file's name.                                               *)
LEMMA ProvideNameStreams ==
  ASSUME Inv, StreamInv, ProvideName
  PROVE  StreamInv' /\ [Stream!StreamNext]_(Stream!streamVars)
<1>1. /\ stage \notin {"start", "stopped", "command"} /\ UNCHANGED <<env, gone, served, stage>>
      /\ s' = [s EXCEPT !.provide_name = FALSE]
  BY DEF ProvideName, NameDue, Inv
<1>2. s \in Globs /\ s.inpcnt <= Len(env.args)  BY <1>1 DEF StreamInv
<1>3. s' \in Globs /\ SameStream(s', s) /\ s'.inpcnt = s.inpcnt /\ s'.oupState = s.oupState
  BY <1>1, <1>2 DEF Globs, SameStream
<1> QED BY <1>1, <1>2, <1>3, StepStays

(* readr asks for an image, INPUT, and an error at execution time.          *)
LEMMA RestStreams ==
  ASSUME Inv, StreamInv, Readr \/ Input \/ CodeError
  PROVE  StreamInv' /\ [Stream!StreamNext]_(Stream!streamVars)
<1>1. stage \notin {"start", "stopped", "command"}
  BY DEF Readr, Compiling, Input, CodeError
<1>2. UNCHANGED <<env, s, gone, served>>  BY DEF Readr, Input, CodeError
<1>3. stage' = stage \/ (stage = "code" /\ stage' = "execute")
  BY DEF Readr, Input, CodeError, Forget
<1> QED BY <1>1, <1>2, <1>3, StepRests

(* The END line.                                                            *)
LEMMA EndLineStreams ==
  ASSUME Inv, StreamInv, EndLine
  PROVE  StreamInv' /\ [Stream!StreamNext]_(Stream!streamVars)
<1>1. /\ stage = "compile" /\ UNCHANGED <<env, gone, served>>
      /\ stage' \in {"execute", "stopped"} /\ s' = [SysBx(s) EXCEPT !.ret = "none"]
  BY DEF EndLine, Settle
<1>2. /\ env \in Commands /\ Kept(s, FALSE) /\ s \in Globs /\ gone \in Nat
      /\ Flows(s, Pipes, gone) /\ s.inpcnt <= Len(env.args)
      /\ stage \in {"code", "execute"} => Outputs(s)
      /\ stage \in {"compile", "code", "execute"} /\ FileAt(s, 0) \in DOMAIN Text
  BY <1>1, WorkingStream
<1>3. s.oupState = (IF env.withList THEN 1 ELSE 0)  BY <1>1 DEF Inv, Compiles
<1>4. PICK y : y = SysBx(s)  OBVIOUS
<1>5. /\ y \in Globs /\ Flows(y, Pipes, gone) /\ Moves(y, s, Pipes)
      /\ Outputs(y) /\ y.inpcnt = s.inpcnt
  BY <1>2, <1>3, <1>4, SysBxPlaces
<1>6. s' = [y EXCEPT !.ret = "none"]  BY <1>1, <1>4
<1>7. /\ s' \in Globs /\ Moves(s', s, Pipes) /\ (Flows(y, Pipes, gone) => Flows(s', Pipes, gone))
      /\ s'.inpcnt = y.inpcnt /\ (Outputs(y) => Outputs(s'))
  BY <1>5, <1>6, SettledMoves
<1>8. gone \in 0 .. Size(Shell)  BY DEF StreamInv
<1>9. StreamInv'  BY <1>1, <1>2, <1>5, <1>7, <1>8, StreamKept
<1>10. [Stream!StreamNext]_(Stream!streamVars)  BY <1>1, <1>2, <1>7, StepMoves
<1> QED BY <1>9, <1>10

(* The end of the job.                                                      *)
LEMMA EndJobStreams ==
  ASSUME Inv, StreamInv, EndJob
  PROVE  StreamInv' /\ [Stream!StreamNext]_(Stream!streamVars)
<1>1. stage = "execute" /\ UNCHANGED <<env, gone, served>> /\ stage' = "stopped"
  BY DEF EndJob
<1>2. PICK opened \in BOOLEAN : s' = SwcOup(s, opened)  BY DEF EndJob
<1>3. /\ env \in Commands /\ Kept(s, FALSE) /\ s \in Globs /\ gone \in Nat
      /\ Flows(s, Pipes, gone) /\ s.inpcnt <= Len(env.args)
      /\ stage \in {"code", "execute"} => Outputs(s)
      /\ stage \in {"compile", "code", "execute"} /\ FileAt(s, 0) \in DOMAIN Text
  BY <1>1, WorkingStream
<1>4. env.withList => s.oupState \in {0, 1, 2}  BY <1>1, <1>3 DEF Outputs
<1>5. PICK y : y = SwcOup(s, opened)  OBVIOUS
<1>6. /\ Flows(s, Pipes, gone) => Flows(y, Pipes, gone)
      /\ SamePlaces(y, s, Pipes) /\ SameSource(y, s)
      /\ y \in Globs /\ EntryAt(y, 0) = EntryAt(s, 0) /\ FileAt(y, 0) = FileAt(s, 0)
  BY <1>3, <1>4, <1>5, SwcOupPlaces
<1>7. s' \in Globs /\ Moves(s', s, Pipes)  BY <1>2, <1>5, <1>6 DEF Moves
<1>8. gone \in 0 .. Size(Shell)  BY DEF StreamInv
<1>9. StreamInv'  BY <1>1, <1>7, <1>8, StreamKept
<1>10. [Stream!StreamNext]_(Stream!streamVars)  BY <1>1, <1>3, <1>7, StepMoves
<1> QED BY <1>9, <1>10

(* readr at the end of an include.                                          *)
LEMMA EndIncludeStreams ==
  ASSUME Inv, StreamInv, EndInclude
  PROVE  StreamInv' /\ [Stream!StreamNext]_(Stream!streamVars)
<1>1. /\ stage \in {"compile", "code"} /\ UNCHANGED <<env, gone, served>> /\ s' = PopInclude(s)
      /\ stage' = stage \/ (stage = "code" /\ stage' = "execute")
  BY DEF EndInclude, Compiling
<1>2. /\ env \in Commands /\ Kept(s, FALSE) /\ s \in Globs /\ gone \in Nat
      /\ Flows(s, Pipes, gone) /\ s.inpcnt <= Len(env.args)
      /\ stage \in {"code", "execute"} => Outputs(s)
      /\ stage \in {"compile", "code", "execute"} /\ FileAt(s, 0) \in DOMAIN Text
  BY <1>1, WorkingStream
<1>3. Leaves(s', s, Pipes, gone)  BY <1>1, <1>2, EndFlows
<1>4. s' \in Globs /\ s'.inpcnt = s.inpcnt /\ s'.oupState = s.oupState
  <2>1. IncludeKept(s', s)  BY <1>1, <1>2, IncludeSteps
  <2> QED BY <2>1 DEF IncludeKept, Kept, Tables, SameRest
<1>5. StreamInv'
  <2>1. gone \in 0 .. Size(Shell)  BY DEF StreamInv
  <2>2. stage' \in {"code", "execute"} => Outputs(s')  BY <1>1, <1>2, <1>4 DEF Outputs
  <2>3. Flows(s', Pipes, gone)  BY <1>3 DEF Leaves
  <2> QED BY <1>1, <1>2, <1>4, <2>1, <2>2, <2>3, StreamKept
<1>6. CASE SamePlaces(s', s, Pipes)
  <2>1. Moves(s', s, Pipes)  BY <1>6 DEF Moves
  <2>2. [Stream!StreamNext]_(Stream!streamVars)  BY <1>1, <1>2, <1>4, <2>1, StepMoves
  <2> QED BY <1>5, <2>2
<1>7. CASE Left(s', s, Pipes)
  <2>1. PICK p, a : p = Suspended(s, Pipes) /\ a = OnTop(s, Pipes)  OBVIOUS
  <2>2. Place = Append(p, a) /\ p \in Seq(PlaceSet)  BY <1>1, <1>2, <2>1, TopNow
  <2>3. Place' = Append(Suspended(s', Pipes), OnTop(s', Pipes))  BY <1>1, <1>4, TopNext
  <2>4. Place' = p  BY <1>7, <2>1, <2>3 DEF Left
  <2>5. p # <<>>
    <3>1. PICK k : k = Pipes  OBVIOUS
    <3>2. Suspended(s', k) \in Seq(PlaceSet)  BY <1>4, SuspendedPlaces
    <3>3. PICK q, b : q = Suspended(s', k) /\ b = OnTop(s', k)  OBVIOUS
    <3>4. Len(Append(q, b)) = Len(q) + 1 /\ Len(q) \in Nat  BY <3>2, <3>3, Stacks
    <3>5. p = Append(q, b)  BY <1>7, <2>1, <3>1, <3>3 DEF Left
    <3> QED BY <3>4, <3>5, EmptySeq
  <2>6. Stream!Leave  BY <1>1, <2>2, <2>4, <2>5, IsLeave
  <2> QED BY <1>5, <2>6 DEF Stream!StreamNext
<1> QED BY <1>3, <1>6, <1>7 DEF Leaves

(* A -INCLUDE card, wherever it is read.                                    *)
LEMMA CardStreams ==
  ASSUME Inv, StreamInv, stage \in {"compile", "code", "execute"}, NEW f \in Includes, IncludeCard(f),
         UNCHANGED <<env, gone, served>>
  PROVE  StreamInv' /\ [Stream!StreamNext]_(Stream!streamVars)
<1>1. /\ env \in Commands /\ Kept(s, FALSE) /\ s \in Globs /\ gone \in Nat
      /\ Flows(s, Pipes, gone) /\ s.inpcnt <= Len(env.args)
      /\ stage \in {"code", "execute"} => Outputs(s)
      /\ stage \in {"compile", "code", "execute"} /\ FileAt(s, 0) \in DOMAIN Text
  BY WorkingStream
<1>2. /\ IncludeKept(s', s)
      /\ stage' = stage \/ stage' \in {"code", "execute"}
      /\ stage = "compile" => stage' = "compile"
  BY <1>1, CardKept
<1>3. s' \in Globs /\ s'.inpcnt = s.inpcnt /\ s'.oupState = s.oupState
  BY <1>2 DEF IncludeKept, Kept, Tables, SameRest
<1>4. Enters(s', s, Pipes, gone)
  <2>1. PICK x : x = PushInclude(s, f)  OBVIOUS
  <2>2. s' = s \/ s' = [x EXCEPT !.ret = "none"]  BY <2>1 DEF IncludeCard, Settle
  <2>3. CASE s' = s  BY <1>1, <2>3 DEF Enters, SamePlaces
  <2>4. CASE s' = [x EXCEPT !.ret = "none"]
    <3>1. Enters(x, s, Pipes, gone)  BY <1>1, <2>1, CardFlows
    <3>2. Kept(x, FALSE)  BY <1>1, <2>1, IncludeSteps DEF IncludeKept
    <3>3. PICK r \in {"none", "file", "eof", "exit"} : r = "none"  OBVIOUS
    <3>4. s' = [x EXCEPT !.ret = r]  BY <2>4, <3>3
    <3> QED BY <1>1, <3>1, <3>2, <3>4, RetFlows
  <2> QED BY <2>2, <2>3, <2>4
<1>5. StreamInv'
  <2>1. gone \in 0 .. Size(Shell)  BY DEF StreamInv
  <2>2. stage' \in {"code", "execute"} => Outputs(s')  BY <1>1, <1>2, <1>3 DEF Outputs
  <2>3. Flows(s', Pipes, gone)  BY <1>4 DEF Enters
  <2>4. stage' \notin {"start", "command", "stopped"}  BY <1>2
  <2> QED BY <1>1, <1>3, <2>1, <2>2, <2>3, <2>4, StreamKept
<1>6. stage # "command" /\ stage' # "command"  BY <1>2
<1>7. CASE SamePlaces(s', s, Pipes)
  <2>1. Moves(s', s, Pipes)  BY <1>7 DEF Moves
  <2>2. [Stream!StreamNext]_(Stream!streamVars)  BY <1>1, <1>3, <1>6, <2>1, StepMoves
  <2> QED BY <1>5, <2>2
<1>8. CASE \E i \in DOMAIN Text : Entered(s', s, Pipes, i)
  <2>1. PICK i \in DOMAIN Text : Entered(s', s, Pipes, i)  BY <1>8
  <2>2. Place = Append(Suspended(s, Pipes), OnTop(s, Pipes))  BY <1>1, <1>6, TopNow
  <2>3. Place' = Append(Suspended(s', Pipes), OnTop(s', Pipes))  BY <1>3, <1>6, TopNext
  <2>4. Place' = Append(Place, [file |-> i, at |-> 0])  BY <2>1, <2>2, <2>3 DEF Entered
  <2>5. Stream!Enter  BY <2>4, IsEnter
  <2> QED BY <1>5, <2>5 DEF Stream!StreamNext
<1> QED BY <1>4, <1>7, <1>8 DEF Enters

(* The compiler meets one.                                                  *)
LEMMA CompileIncludeStreams ==
  ASSUME Inv, StreamInv, CompileInclude
  PROVE  StreamInv' /\ [Stream!StreamNext]_(Stream!streamVars)
<1>1. /\ stage \in {"compile", "code", "execute"} /\ image \in Includes /\ IncludeCard(image)
      /\ UNCHANGED <<env, gone, served>>
  BY DEF CompileInclude, Compiling
<1>2. PICK f \in Includes : f = image  BY <1>1
<1>3. IncludeCard(f)  BY <1>1, <1>2
<1> QED BY <1>1, <1>3, CardStreams

(* CODE() of a string with one.                                             *)
LEMMA CodeIncludeStreams ==
  ASSUME Inv, StreamInv, CodeInclude
  PROVE  StreamInv' /\ [Stream!StreamNext]_(Stream!streamVars)
<1>1. stage \in {"compile", "code", "execute"} /\ UNCHANGED <<env, gone, served>>
  BY DEF CodeInclude
<1>2. PICK f \in Includes : IncludeCard(f)  BY DEF CodeInclude
<1> QED BY <1>1, <1>2, CardStreams

(* What is served is next in the stream.                                    *)
LEMMA ServedStep ==
  ASSUME Inv, StreamInv, stage \notin {"start", "stopped", "command"},
         NEW x, x = Ready(s), ~AtEof(x), NEW y, y = Taken(x), s' \in Globs, SameStream(s', y),
         stage' = stage, env' = env, served' = Current(x),
         gone' = IF Current(x)[1] \in Pipes THEN Current(x)[2] ELSE gone
  PROVE  /\ [Stream!StreamNext]_(Stream!streamVars)
         /\ Flows(s', Pipes, gone') /\ gone' \in 0 .. Size(Shell)
<1>1. /\ env \in Commands /\ Kept(s, FALSE) /\ s \in Globs /\ gone \in Nat
      /\ Flows(s, Pipes, gone) /\ s.inpcnt <= Len(env.args)
      /\ stage \in {"code", "execute"} => Outputs(s)
      /\ stage \in {"compile", "code", "execute"} /\ FileAt(s, 0) \in DOMAIN Text
  BY WorkingStream
<1>2. /\ Kept(x, FALSE) /\ Flows(x, Pipes, gone) /\ SamePlaces(x, s, Pipes)
      /\ FileAt(x, 0) = FileAt(s, 0)
      /\ AtEof(x) /\ FileAt(s, 0) \notin Pipes => WhereIn(s) = Size(FileAt(s, 0))
  BY <1>1, ReadyFlows
<1>3. PICK h : h = IF FileAt(x, 0) \in Pipes THEN Current(x)[2] ELSE gone  OBVIOUS
<1>4. /\ Kept(y, FALSE) /\ h \in Nat /\ Flows(y, Pipes, h) /\ Served(y, x, Pipes)
      /\ FileAt(x, 0) \in Pipes => gone < Current(x)[2]
  <2>1. /\ Kept(x, FALSE) /\ gone \in Nat /\ Flows(x, Pipes, gone) /\ ~AtEof(x) /\ y = Taken(x)
        /\ h = IF FileAt(x, 0) \in Pipes THEN Current(x)[2] ELSE gone
    BY <1>1, <1>2, <1>3
  <2> QED BY ONLY <2>1, TakenFlows
<1>5. PICK f \in DOMAIN Text : f = FileAt(s, 0)  BY <1>1
<1>6. PICK i \in 1 .. Size(f) : Current(x) = <<f, i>> /\ Current(x)[2] = i /\ Current(x)[1] = f
  <2>1. FileAt(x, 0) = f  BY <1>2, <1>5
  <2>2. Current(x) = <<f, Current(x)[2]>> /\ Current(x)[2] \in 1 .. Size(f)
    BY <1>4, <2>1 DEF Served
  <2>3. PICK j : j = Current(x)[2]  OBVIOUS
  <2>4. Current(x) = <<f, j>> /\ j \in 1 .. Size(f)  BY <2>2, <2>3
  <2>5. Current(x)[1] = f  BY <2>4
  <2> QED BY <2>3, <2>4, <2>5
<1>7. gone' = h  BY <1>2, <1>3, <1>5, <1>6
<1>8. SamePlaces(s', y, Pipes) /\ Flows(s', Pipes, h)
  <2>1. PICK k : k = Pipes  OBVIOUS
  <2>2. SamePlaces(s', y, k) /\ (Flows(y, k, h) => Flows(s', k, h))  BY SameStreamFlows
  <2> QED BY <1>4, <2>1, <2>2
<1>9. Size(f) = Len(Text[f]) /\ Size(f) \in Nat /\ f # NoFile
  <2>1. Size(f) = Len(Text[f])  BY DEF Size, TextOf
  <2>2. Size(f) \in Nat  BY TextLength DEF Size
  <2>3. f # NoFile  BY StandardFilesAssumption
  <2> QED BY <2>1, <2>2, <2>3
<1>10. PICK p, a : p = Suspended(s, Pipes) /\ a = OnTop(s, Pipes)  OBVIOUS
<1>11. Place = Append(p, a) /\ p \in Seq(PlaceSet)  BY <1>1, <1>10, TopNow
<1>12. Place' = Append(p, OnTop(y, Pipes))
  <2>1. Place' = Append(Suspended(s', Pipes), OnTop(s', Pipes))  BY TopNext
  <2>2. Suspended(y, Pipes) = p  BY <1>2, <1>4, <1>10 DEF SamePlaces, Served
  <2> QED BY <1>8, <2>1, <2>2 DEF SamePlaces
<1>13. a = OnTop(x, Pipes) /\ FileAt(x, 0) = f /\ FileAt(y, 0) = f
  BY <1>2, <1>4, <1>5, <1>10 DEF SamePlaces, Served
<1>14. CASE f \in Pipes
  <2>1. f = Shell  BY <1>14 DEF Pipes
  <2>2. h = i /\ gone < i  BY <1>3, <1>4, <1>6, <1>13, <1>14
  <2>3. a = [file |-> f, at |-> 0] /\ OnTop(y, Pipes) = a
    BY <1>13, <1>14 DEF OnTop, PlaceAt
  <2>4. Place' = Place /\ Place = Append(p, [file |-> f, at |-> 0])  BY <1>11, <1>12, <2>3
  <2>5. i \in gone + 1 .. Len(Text[f])  BY <1>1, <1>9, <2>2
  <2>6. served' = <<f, i>> /\ gone' = i  BY <1>6, <1>7, <2>2
  <2>7. Stream!ServePipe  BY <1>11, <1>14, <2>4, <2>5, <2>6, IsServePipe
  <2>8. gone' \in 0 .. Size(Shell)  BY <1>9, <2>1, <2>6
  <2> QED BY <1>7, <1>8, <2>7, <2>8 DEF Stream!StreamNext
<1>15. CASE f \notin Pipes
  <2>1. h = gone  BY <1>3, <1>13, <1>15
  <2>2. WhereIn(x) \in Nat
    <3>1. WhereIn(x) = Position(x) /\ Position(x) \in 0 .. Size(FileAt(x, 0))
      BY <1>2, <1>13, <1>15, PositionIsWhere DEF Flows
    <3> QED BY <1>9, <1>13, <3>1
  <2>3. PICK n \in Nat : n = WhereIn(x)  BY <2>2
  <2>4. i = n + 1 /\ WhereIn(y) = n + 1  BY <1>4, <1>6, <1>13, <1>15, <2>3 DEF Served
  <2>5. a = [file |-> f, at |-> n] /\ OnTop(y, Pipes) = [file |-> f, at |-> n + 1]
    BY <1>9, <1>13, <1>15, <2>3, <2>4 DEF OnTop, PlaceAt
  <2>6. /\ Place = Append(p, [file |-> f, at |-> n]) /\ Place' = Append(p, [file |-> f, at |-> n + 1])
        /\ served' = <<f, n + 1>> /\ n < Len(Text[f])
    BY <1>6, <1>9, <1>11, <1>12, <2>4, <2>5
  <2>7. Stream!Serve  BY <1>7, <1>11, <1>15, <2>1, <2>6, IsServe
  <2>8. gone' \in 0 .. Size(Shell)  BY <1>7, <2>1 DEF StreamInv
  <2> QED BY <1>7, <1>8, <2>7, <2>8 DEF Stream!StreamNext
<1> QED BY <1>14, <1>15

(* zysrd and zysin take a record.                                           *)
LEMMA ReadRecordStreams ==
  ASSUME Inv, StreamInv, ReadRecord
  PROVE  StreamInv' /\ [Stream!StreamNext]_(Stream!streamVars)
<1>1. PICK x : x = Ready(s)  OBVIOUS
<1>2. PICK y : y = Taken(x)  OBVIOUS
<1>3. /\ call # "none" /\ ~AtEof(x) /\ UNCHANGED <<env, stage>> /\ served' = Current(x)
      /\ gone' = IF Current(x)[1] \in Pipes THEN Current(x)[2] ELSE gone
  BY <1>1 DEF ReadRecord
<1>4. stage \notin {"start", "stopped", "command"}  BY <1>3 DEF Inv
<1>5. /\ env \in Commands /\ Kept(s, FALSE) /\ s \in Globs /\ gone \in Nat
      /\ Flows(s, Pipes, gone) /\ s.inpcnt <= Len(env.args)
      /\ stage \in {"code", "execute"} => Outputs(s)
      /\ stage \in {"compile", "code", "execute"} /\ FileAt(s, 0) \in DOMAIN Text
  BY <1>4, WorkingStream
<1>6. y \in Globs /\ y.inpcnt = s.inpcnt /\ y.oupState = s.oupState /\ x.inpcnt = s.inpcnt
      /\ x \in Globs
  <2>1. s.fds[0] # Closed  BY <1>4, Working
  <2>2. Reads(x, s)  BY <1>1, <1>5, <2>1, ReadyReads
  <2>3. Reads(y, x)  BY <1>2, <2>2, TakenReads DEF Reads
  <2> QED BY <2>2, <2>3 DEF Reads, SameVars
<1>7. \/ s' = Script(y)
      \/ s' = [y EXCEPT !.first_record = @ /\ call # "zysrd"]
  BY <1>1, <1>2, Zenon DEF ReadRecord
<1>8. s' \in Globs /\ SameStream(s', y) /\ s'.inpcnt <= Len(env.args) /\ s'.oupState = y.oupState
  <2>1. Len(env.args) \in Nat \ {0} /\ FirstArg \in Int
    BY <1>5, CommandLine, StandardFilesAssumption
  <2>2. CASE s' = Script(y)
    <3>1. PICK c : c = FirstArg + Len(env.args) - y.inpcnt + 1  OBVIOUS
    <3>2. c \in Int
      <4>1. PICK n \in Nat : n = y.inpcnt  BY <1>6 DEF Globs
      <4> QED BY <2>1, <3>1, <4>1
    <3>3. s' = [y EXCEPT !.first_record = FALSE, !.inpcnt = 1, !.cmdcnt = c]
      BY <2>2, <3>1 DEF Script
    <3>4. s'.inpcnt = 1 /\ s' \in Globs /\ SameStream(s', y) /\ s'.oupState = y.oupState
      BY <1>6, <3>2, <3>3 DEF Globs, SameStream
    <3> QED BY <2>1, <3>4
  <2>3. CASE s' = [y EXCEPT !.first_record = @ /\ call # "zysrd"]
    <3>1. PICK b \in BOOLEAN : b = (y.first_record /\ call # "zysrd")  OBVIOUS
    <3>2. s' = [y EXCEPT !.first_record = b]  BY <2>3, <3>1, Zenon
    <3>3. s' \in Globs /\ SameStream(s', y) /\ s'.inpcnt = y.inpcnt /\ s'.oupState = y.oupState
      BY <1>6, <3>2 DEF Globs, SameStream
    <3> QED BY <1>5, <1>6, <3>3
  <2> QED BY <1>7, <2>2, <2>3
<1>9. /\ [Stream!StreamNext]_(Stream!streamVars)
      /\ Flows(s', Pipes, gone') /\ gone' \in 0 .. Size(Shell)
  BY <1>1, <1>2, <1>3, <1>4, <1>8, ServedStep
<1>10. stage' \in {"code", "execute"} => Outputs(s')
  BY <1>3, <1>5, <1>6, <1>8 DEF Outputs
<1>11. StreamInv'  BY <1>3, <1>4, <1>8, <1>9, <1>10, StreamKept
<1> QED BY <1>9, <1>11

(* End of file, and the next file of the command line.                      *)
LEMMA EndOfFileStreams ==
  ASSUME Inv, StreamInv, EndOfFile
  PROVE  StreamInv' /\ [Stream!StreamNext]_(Stream!streamVars)
<1>1. PICK x : x = Ready(s)  OBVIOUS
<1>2. PICK y : y = SwcInp(x)  OBVIOUS
<1>3. call # "none" /\ AtEof(x) /\ UNCHANGED <<env, gone>>  BY <1>1 DEF EndOfFile
<1>4. stage \notin {"start", "stopped", "command"}  BY <1>3 DEF Inv
<1>5. \/ /\ \/ s' = [x EXCEPT !.ret = "none"]
            \/ y.ret = "eof" /\ s' = [y EXCEPT !.ret = "none"]
         /\ served' = <<NoFile, 0>> /\ stage' = stage
      \/ y.ret = "exit" /\ s' = [y EXCEPT !.ret = "none"] /\ stage' = "stopped" /\ served' = served
      \/ /\ y.ret = "file" /\ s' = [y EXCEPT !.ret = "none"]
         /\ stage' = stage /\ served' = served
  <2>1. \/ /\ InInclude \/ y.ret = "eof"
           /\ Settle(IF InInclude THEN x ELSE y)
           /\ served' = <<NoFile, 0>> /\ stage' = stage
        \/ y.ret = "exit" /\ Settle(y) /\ stage' = "stopped" /\ served' = served
        \/ y.ret = "file" /\ Settle(y) /\ stage' = stage /\ served' = served
    BY <1>1, <1>2, Zenon DEF EndOfFile
  <2>2. ASSUME InInclude \/ y.ret = "eof", Settle(IF InInclude THEN x ELSE y)
        PROVE  \/ s' = [x EXCEPT !.ret = "none"]
               \/ y.ret = "eof" /\ s' = [y EXCEPT !.ret = "none"]
    <3>1. CASE InInclude  BY <2>2, <3>1 DEF Settle
    <3>2. CASE ~InInclude  BY <2>2, <3>2 DEF Settle
    <3> QED BY <3>1, <3>2
  <2>3. Settle(y) => s' = [y EXCEPT !.ret = "none"]  BY DEF Settle
  <2> QED BY <2>1, <2>2, <2>3
<1>6. /\ env \in Commands /\ Kept(s, FALSE) /\ s \in Globs /\ gone \in Nat
      /\ Flows(s, Pipes, gone) /\ s.inpcnt <= Len(env.args)
      /\ stage \in {"code", "execute"} => Outputs(s)
      /\ stage \in {"compile", "code", "execute"} /\ FileAt(s, 0) \in DOMAIN Text
  BY <1>4, WorkingStream
<1>7. /\ Kept(x, FALSE) /\ Flows(x, Pipes, gone) /\ SamePlaces(x, s, Pipes)
      /\ FileAt(x, 0) = FileAt(s, 0)
      /\ AtEof(x) /\ FileAt(s, 0) \notin Pipes => WhereIn(s) = Size(FileAt(s, 0))
  BY <1>1, <1>6, ReadyFlows
<1>8. x \in Globs /\ x.inpcnt = s.inpcnt /\ x.oupState = s.oupState
  <2>1. s.fds[0] # Closed  BY <1>4, Working
  <2>2. Reads(x, s)  BY <1>1, <1>6, <2>1, ReadyReads
  <2> QED BY <2>2 DEF Reads, SameVars
<1>9. NextPlaces(y, x, Pipes, gone)
  <2>1. x.inpcnt <= Len(env.args)  BY <1>6, <1>8
  <2> QED BY <1>2, <1>6, <1>7, <2>1, SwcInpPlaces
<1>10. y \in Globs /\ Moves(y, s, Pipes) /\ Moves(x, s, Pipes)
  <2>1. PICK k : k = Pipes  OBVIOUS
  <2>2. Moves(y, x, k) /\ Moves(x, s, k)  BY <1>7, <1>9, <2>1 DEF NextPlaces, Moves
  <2>3. Moves(y, s, k)  BY <2>2, MovesCompose
  <2> QED BY <1>9, <2>1, <2>2, <2>3 DEF NextPlaces
<1>11. y.ret # "exit" => y.inpcnt = s.inpcnt /\ y.oupState = s.oupState
  <2>1. NextInput(y, x)  BY <1>2, <1>7, InputStep
  <2> QED BY <1>8, <2>1 DEF NextInput, SameInput
<1>12. gone \in 0 .. Size(Shell)  BY DEF StreamInv
<1>13. CASE y.ret = "exit" /\ s' = [y EXCEPT !.ret = "none"] /\ stage' = "stopped" /\ served' = served
  <2>1. s' \in Globs /\ Moves(s', s, Pipes)  BY <1>10, <1>13, SettledMoves
  <2>2. StreamInv'  BY <1>3, <1>12, <1>13, <2>1, StreamKept
  <2>3. [Stream!StreamNext]_(Stream!streamVars)  BY <1>3, <1>4, <1>6, <1>13, <2>1, StepMoves
  <2> QED BY <2>2, <2>3
<1>14. CASE /\ y.ret = "file" /\ s' = [y EXCEPT !.ret = "none"]
            /\ stage' = stage /\ served' = served
  <2>1. /\ s' \in Globs /\ Moves(s', s, Pipes) /\ (Flows(y, Pipes, gone) => Flows(s', Pipes, gone))
        /\ s'.inpcnt = y.inpcnt /\ (Outputs(y) => Outputs(s'))
    BY <1>10, <1>14, SettledMoves
  <2>2. Flows(s', Pipes, gone)  BY <1>9, <1>14, <2>1 DEF NextPlaces
  <2>3. stage' \in {"code", "execute"} => Outputs(s')
    BY <1>6, <1>11, <1>14, <2>1 DEF Outputs
  <2>4. s'.inpcnt <= Len(env.args)  BY <1>6, <1>11, <1>14, <2>1
  <2>5. StreamInv'  BY <1>3, <1>4, <1>12, <1>14, <2>1, <2>2, <2>3, <2>4, StreamKept
  <2>6. [Stream!StreamNext]_(Stream!streamVars)  BY <1>3, <1>4, <1>6, <1>14, <2>1, StepMoves
  <2> QED BY <2>5, <2>6
<1>15. CASE /\ \/ s' = [x EXCEPT !.ret = "none"]
               \/ y.ret = "eof" /\ s' = [y EXCEPT !.ret = "none"]
            /\ served' = <<NoFile, 0>> /\ stage' = stage
  <2>1. PICK v : /\ v = x \/ (v = y /\ y.ret = "eof")
                 /\ s' = [v EXCEPT !.ret = "none"]
    BY <1>15
  <2>2. /\ v \in Globs /\ Flows(v, Pipes, gone) /\ SamePlaces(v, s, Pipes)
        /\ v.inpcnt = s.inpcnt /\ v.oupState = s.oupState
    <3>1. CASE v = x  BY <1>7, <1>8, <3>1
    <3>2. CASE v = y /\ y.ret = "eof"
      <4>1. SamePlaces(y, x, Pipes)  BY <1>9, <3>2 DEF NextPlaces
      <4>2. SamePlaces(y, s, Pipes)  BY <1>7, <4>1 DEF SamePlaces
      <4>3. Flows(y, Pipes, gone)  BY <1>9, <3>2 DEF NextPlaces
      <4> QED BY <1>10, <1>11, <3>2, <4>2, <4>3
    <3> QED BY <2>1, <3>1, <3>2
  <2>3. /\ SameStream(s', v) /\ s' \in Globs /\ s'.inpcnt = v.inpcnt /\ s'.oupState = v.oupState
        /\ s'.save_fd0 = v.save_fd0
    BY <2>1, <2>2, SettledStream
  <2>4. SamePlaces(s', s, Pipes) /\ Flows(s', Pipes, gone)
    <3>1. PICK k : k = Pipes  OBVIOUS
    <3>2. SamePlaces(s', v, k) /\ (Flows(v, k, gone) => Flows(s', k, gone))
      BY <2>3, SameStreamFlows
    <3> QED BY <2>2, <3>1, <3>2 DEF SamePlaces
  <2>5. stage' \in {"code", "execute"} => Outputs(s')
    BY <1>6, <1>15, <2>2, <2>3 DEF Outputs
  <2>6. StreamInv'
    <3>1. s'.inpcnt <= Len(env.args)  BY <1>6, <2>2, <2>3
    <3> QED BY <1>3, <1>4, <1>12, <1>15, <2>3, <2>4, <2>5, <3>1, StreamKept
  <2>7. PICK p, a : p = Suspended(s, Pipes) /\ a = OnTop(s, Pipes)  OBVIOUS
  <2>8. Place = Append(p, a) /\ p \in Seq(PlaceSet)  BY <1>4, <1>6, <2>7, TopNow
  <2>9. Place' = Append(Suspended(s', Pipes), OnTop(s', Pipes))
    BY <1>3, <1>4, <1>15, <2>3, TopNext
  <2>10. Place' = Place  BY <2>4, <2>7, <2>8, <2>9 DEF SamePlaces
  <2>11. PICK f \in DOMAIN Text : f = FileAt(s, 0)  BY <1>6
  <2>12. PICK n : n = IF f \in Pipes THEN 0 ELSE WhereIn(s)  OBVIOUS
  <2>13. a = [file |-> f, at |-> n]
    <3>1. f # NoFile  BY StandardFilesAssumption
    <3> QED BY <2>7, <2>11, <2>12, <3>1 DEF OnTop, PlaceAt
  <2>14. f \in Pipes \/ n = Len(Text[f])
    <3>1. Size(f) = Len(Text[f])  BY DEF Size, TextOf
    <3> QED BY <1>3, <1>7, <2>11, <2>12, <3>1
  <2>15. Stream!ServeEof
    <3>1. Place = Append(p, [file |-> f, at |-> n])  BY <2>8, <2>13
    <3> QED BY <1>3, <1>15, <2>8, <2>10, <2>14, <3>1, IsServeEof
  <2> QED BY <2>6, <2>15 DEF Stream!StreamNext
<1> QED BY <1>5, <1>13, <1>14, <1>15

(* A command begins: the file on top will be read from its start.           *)
LEMMA HostCommandStreams ==
  ASSUME Inv, StreamInv, HostCommand
  PROVE  StreamInv' /\ [Stream!StreamNext]_(Stream!streamVars)
<1>1. stage = "execute" /\ stage' = "command" /\ UNCHANGED <<env, gone, served>> /\ s' = Save0(s)
  BY DEF HostCommand
<1>2. /\ env \in Commands /\ Kept(s, FALSE) /\ s \in Globs /\ gone \in Nat
      /\ Flows(s, Pipes, gone) /\ s.inpcnt <= Len(env.args)
      /\ stage \in {"code", "execute"} => Outputs(s)
      /\ stage \in {"compile", "code", "execute"} /\ FileAt(s, 0) \in DOMAIN Text
  BY <1>1, WorkingStream
<1>3. PICK k : k = Pipes  OBVIOUS
<1>4. PICK y : y = s'  OBVIOUS
<1>5. /\ Fresh(y, s, k) /\ Source(y, y.save_fd0, k) /\ FileAt(y, y.save_fd0) = FileAt(s, 0)
      /\ y.oupState = s.oupState /\ y.inpcnt = s.inpcnt
  <2>1. Sound(s, FALSE)  BY <1>1 DEF Inv
  <2>2. Source(s, 0, k) /\ y = Save0(s)  BY <1>1, <1>2, <1>3, <1>4 DEF Flows, Streams
  <2> QED BY <2>1, <2>2, SaveFlows
<1>6. Streams(y, k, gone) /\ Suspended(y, k) = Suspended(s, k)
  <2>1. Streams(s, k, gone)  BY <1>2, <1>3 DEF Flows
  <2> QED BY <1>2, <1>5, <2>1, FreshFlows
<1>7. y \in Globs  BY <1>5 DEF Fresh
<1>8. Pipes' = Pipes  BY <1>1 DEF Pipes
<1>9. StreamInv'
  <2>1. gone \in 0 .. Size(Shell)  BY DEF StreamInv
  <2>2. Outputs(s) => (Outputs(s))'  BY <1>1, <1>4, <1>5 DEF Outputs
  <2>3. Source(s', s'.save_fd0, Pipes') /\ Streams(s', Pipes', gone') /\ s' \in Globs
    BY <1>1, <1>3, <1>4, <1>5, <1>6, <1>7, <1>8
  <2>4. s'.inpcnt <= Len(env'.args)  BY <1>1, <1>2, <1>4, <1>5
  <2> QED BY <1>1, <1>2, <2>1, <2>2, <2>3, <2>4 DEF StreamInv
<1>10. PICK p, a : p = Suspended(s, Pipes) /\ a = OnTop(s, Pipes)  OBVIOUS
<1>11. Place = Append(p, a) /\ p \in Seq(PlaceSet)  BY <1>1, <1>2, <1>10, TopNow
<1>12. PICK f, n : f = FileAt(s, 0) /\ n = IF f \in Pipes \cup {NoFile} THEN 0 ELSE WhereIn(s)
  OBVIOUS
<1>13. a = [file |-> f, at |-> n]  BY <1>10, <1>12 DEF OnTop, PlaceAt
<1>14. Place' = Append(p, [file |-> f, at |-> 0])
  <2>1. Place' = Stack(s', Pipes', stage' = "command")  BY <1>4, <1>7, PlaceIsNext
  <2>2. Stack(y, k, TRUE) = Append(Suspended(y, k), PlaceAt(k, FileAt(y, y.save_fd0), 0))
    BY DEF Stack
  <2>3. PlaceAt(k, FileAt(y, y.save_fd0), 0) = [file |-> f, at |-> 0]
    BY <1>5, <1>12 DEF PlaceAt
  <2>4. Place' = Stack(y, k, TRUE)  BY <1>1, <1>3, <1>4, <1>8, <2>1
  <2> QED BY <1>3, <1>6, <1>10, <2>2, <2>3, <2>4
<1>15. Stream!Again
  <2>1. Place = Append(p, [file |-> f, at |-> n])  BY <1>11, <1>13
  <2> QED BY <1>1, <1>11, <1>14, <2>1, IsAgain
<1> QED BY <1>9, <1>15 DEF Stream!StreamNext

(* The command, which may have read the shell's input, is over.             *)
LEMMA HostReturnsStreams ==
  ASSUME Inv, StreamInv, HostReturns
  PROVE  StreamInv' /\ [Stream!StreamNext]_(Stream!streamVars)
<1>1. stage = "command" /\ stage' = "execute" /\ UNCHANGED <<env, gone, served>>
  BY DEF HostReturns
<1>2. PICK n \in 0 .. 1 :
        s' = [Restore0([s EXCEPT !.open[s.fds[s.originp]].pos =
                           Min({s.open[s.fds[s.originp]].pos + n, Len(Text[Shell])})])
                EXCEPT !.save_fd0 = -1]
  BY DEF HostReturns
<1>3. PICK q : q = Min({s.open[s.fds[s.originp]].pos + n, Len(Text[Shell])})  OBVIOUS
<1>4. PICK t : t = [s EXCEPT !.open[s.fds[s.originp]].pos = q]  OBVIOUS
<1>5. PICK y : y = s'  OBVIOUS
<1>6. y = [Restore0(t) EXCEPT !.save_fd0 = -1]  BY <1>2, <1>3, <1>4, <1>5
<1>7. /\ Kept(s, TRUE) /\ s \in Globs /\ Streams(s, Pipes, gone) /\ s.inpcnt <= Len(env.args)
      /\ Source(s, s.save_fd0, Pipes) /\ Outputs(s)
  BY <1>1 DEF Inv, Sound, StreamInv
<1>8. gone \in Nat /\ gone \in Int /\ Size(Shell) \in Nat /\ gone <= Size(Shell)  BY GoneNat
<1>9. q \in Int /\ (Pipes # {} => gone <= q)
  <2>1. PICK c \in BOOLEAN : c = TRUE  OBVIOUS
  <2>2. Kept(s, c) /\ s.originp \in Uses(s, c)  BY <1>7, <2>1 DEF Uses
  <2>3. s.fds[s.originp] # Closed /\ s.originp \in Fd  BY <2>2, UsedOpen
  <2>4. EntryAt(s, s.originp).pos \in Int  BY <1>7, <2>3, Fields
  <2>5. PICK a \in Int : a = s.open[s.fds[s.originp]].pos  BY <2>4 DEF EntryAt
  <2>6. Len(Text[Shell]) = Size(Shell)  BY StandardFilesAssumption DEF Size, TextOf
  <2>7. PICK b \in Int : b = a + n  OBVIOUS
  <2>8. PICK d \in Int : d = Size(Shell)  BY <1>8
  <2>9. q = Min({b, d})  BY <1>3, <2>5, <2>6, <2>7, <2>8
  <2>10. q \in Int /\ q = IF b <= d THEN b ELSE d  BY <2>9, MinOfTwo
  <2>11. Pipes # {} => gone <= a  BY <1>7, <2>5 DEF Streams, EntryAt
  <2> QED BY <1>8, <2>7, <2>8, <2>10, <2>11
<1>10. PICK k : k = Pipes  OBVIOUS
<1>11. /\ Streams(t, k, gone) /\ Suspended(t, k) = Suspended(s, k)
       /\ \A e : FileAt(t, e) = FileAt(s, e)
       /\ \A e : Source(s, e, k) => Source(t, e, k)
       /\ t.save_fd0 = s.save_fd0 /\ t.oupState = s.oupState /\ t.inpcnt = s.inpcnt
  <2>1. Streams(s, k, gone) /\ (k # {} => gone <= q)  BY <1>7, <1>9, <1>10
  <2>2. Kept(s, TRUE) /\ q \in Int  BY <1>7, <1>9
  <2>3. ReadApart(t, s, k, gone)  BY ONLY <1>4, <2>1, <2>2, CommandReads
  <2> QED BY <2>3 DEF ReadApart
<1>12. Kept(t, TRUE)  BY <1>4, <1>7, <1>9, ShellRead
<1>13. /\ Fresh(y, t, k) /\ FileAt(y, 0) = FileAt(t, t.save_fd0)
       /\ y.oupState = t.oupState /\ y.inpcnt = t.inpcnt
  <2>1. Source(t, t.save_fd0, k)  BY <1>7, <1>10, <1>11
  <2> QED BY <1>6, <1>12, <2>1, RestoreFlows
<1>14. /\ Streams(y, k, gone) /\ Buffered(y, k, gone) /\ Suspended(y, k) = Suspended(t, k)
       /\ OnTop(y, k) = [file |-> FileAt(y, 0), at |-> 0]
  BY <1>8, <1>11, <1>13, FreshFlows
<1>15. y \in Globs  BY <1>13 DEF Fresh
<1>16. StreamInv'
  <2>1. gone' \in 0 .. Size(Shell)  BY <1>1, <1>8
  <2>2. Outputs(s')  BY <1>5, <1>7, <1>11, <1>13 DEF Outputs
  <2>3. Flows(s', Pipes, gone')  BY <1>1, <1>5, <1>10, <1>14 DEF Flows
  <2>4. s'.inpcnt <= Len(env.args)  BY <1>5, <1>7, <1>11, <1>13
  <2> QED BY <1>1, <1>5, <1>15, <2>1, <2>2, <2>3, <2>4, StreamKept
<1>17. Place' = Place
  <2>1. Place = Stack(s, k, TRUE)  BY <1>1, <1>7, <1>10, PlaceIs
  <2>2. Stack(s, k, TRUE) = Append(Suspended(s, k), PlaceAt(k, FileAt(s, s.save_fd0), 0))
    BY DEF Stack
  <2>3. Place' = Append(Suspended(s', Pipes), OnTop(s', Pipes))  BY <1>1, <1>5, <1>15, TopNext
  <2>4. PlaceAt(k, FileAt(s, s.save_fd0), 0) = OnTop(y, k)
    BY <1>11, <1>13, <1>14 DEF PlaceAt
  <2> QED BY <1>5, <1>10, <1>11, <1>14, <2>1, <2>2, <2>3, <2>4
<1>18. UNCHANGED Stream!streamVars  BY <1>1, <1>17, IsStutter
<1> QED BY <1>16, <1>18

(* Before main the shell's input is the one file, and nothing of it is read. *)
LEMMA StreamBegins ==
  ASSUME Init
  PROVE  StreamInv /\ Stream!StreamInit
<1>1. /\ env \in Commands /\ s = GetArgs(Globals) /\ stage = "start" /\ gone = 0
      /\ served = <<NoFile, 0>>
  BY DEF Init
<1>2. /\ s \in Globs /\ Suspended(s, Pipes) = <<>>
      /\ OnTop(s, Pipes) = [file |-> Shell, at |-> 0]
  <2>1. PICK x : x = s  OBVIOUS
  <2>2. x = GetArgs(Globals)  BY <1>1, <2>1
  <2>3. /\ x \in Globs /\ Suspended(x, Pipes) = <<>>
        /\ OnTop(x, Pipes) = [file |-> Shell, at |-> 0]
    BY <1>1, <2>2, GlobalsPlaces
  <2> QED BY <2>1, <2>3
<1>3. Shell \in DOMAIN Text  BY StandardFilesAssumption
<1>4. StreamInv
  <2>1. Size(Shell) \in Nat  BY TextLength DEF Size
  <2>2. gone \in 0 .. Size(Shell)  BY <1>1, <2>1
  <2> QED BY <1>1, <1>2, <2>2 DEF StreamInv
<1>5. Place = <<[file |-> Shell, at |-> 0]>>
  <2>1. Place = Append(Suspended(s, Pipes), OnTop(s, Pipes))  BY <1>1, <1>2, TopNow
  <2>2. Place = Append(<<>>, [file |-> Shell, at |-> 0])  BY <1>2, <2>1
  <2> QED BY <2>2
<1>6. Pipes \subseteq DOMAIN Text  BY <1>3 DEF Pipes
<1>7. served = Stream!Eof  BY <1>1 DEF Stream!Eof
<1> QED BY <1>1, <1>3, <1>4, <1>5, <1>6, <1>7 DEF Stream!StreamInit

(* Every step keeps the invariant, and is a step of the stream or none.     *)
LEMMA StreamSteps ==
  ASSUME Inv, StreamInv, [Next]_vars
  PROVE  StreamInv' /\ [Stream!StreamNext]_(Stream!streamVars)
<1>1. CASE UNCHANGED vars
  <2>1. UNCHANGED <<env, s, stage, served, gone>>  BY <1>1 DEF vars
  <2>2. Pipes' = Pipes  BY <2>1 DEF Pipes
  <2>3. Place' = Place
    <3>1. s \in Globs /\ s' \in Globs  BY <2>1 DEF StreamInv
    <3>2. Place = Stack(s, Pipes, stage = "command")  BY <3>1, PlaceIs
    <3>3. Place' = Stack(s', Pipes', stage' = "command")  BY <3>1, PlaceIsNext
    <3> QED BY <2>1, <2>2, <3>2, <3>3
  <2>4. StreamInv'
    <3>1. Outputs(s) => (Outputs(s))'  BY <2>1 DEF Outputs
    <3> QED BY <2>1, <2>2, <3>1 DEF StreamInv
  <2>5. UNCHANGED Stream!streamVars  BY <2>1, <2>3, IsStutter
  <2> QED BY <2>4, <2>5
<1>2. CASE Start  BY <1>2, StartStreams
<1>3. CASE ProvideName  BY <1>3, ProvideNameStreams
<1>4. CASE ReadRecord  BY <1>4, ReadRecordStreams
<1>5. CASE EndOfFile  BY <1>5, EndOfFileStreams
<1>6. CASE Readr \/ Input \/ CodeError  BY <1>6, RestStreams
<1>7. CASE EndInclude  BY <1>7, EndIncludeStreams
<1>8. CASE CompileInclude  BY <1>8, CompileIncludeStreams
<1>9. CASE CodeInclude  BY <1>9, CodeIncludeStreams
<1>10. CASE EndLine  BY <1>10, EndLineStreams
<1>11. CASE HostCommand  BY <1>11, HostCommandStreams
<1>12. CASE HostReturns  BY <1>12, HostReturnsStreams
<1>13. CASE EndJob  BY <1>13, EndJobStreams
<1> QED
  BY <1>1, <1>2, <1>3, <1>4, <1>5, <1>6, <1>7, <1>8, <1>9, <1>10, <1>11, <1>12, <1>13 DEF Next

(* Whatever files, includes, compiled code and commands come in between,    *)
(* each read serves the record after the last one served of the file on top *)
(* of the stack, and end of file only at its end; a pipe serves nothing     *)
(* twice: for every command line, nesting of includes, block size and file. *)
THEOREM InputServed == Spec => ServesTheStream
<1>1. Init => StreamInv /\ Stream!StreamInit  BY StreamBegins
<1>2. Inv /\ StreamInv /\ [Next]_vars => StreamInv' /\ [Stream!StreamNext]_(Stream!streamVars)
  BY StreamSteps
<1> QED
  BY <1>1, <1>2, DescriptorsKept, PTL DEF Spec, ServesTheStream, Stream!StreamSpec

=============================================================================
