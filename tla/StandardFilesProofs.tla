------------------------ MODULE StandardFilesProofs ------------------------
(* Descriptors, standard input and standard output: theorems about          *)
(* StandardFiles, for every command line, every nesting of includes and     *)
(* every file.                                                              *)
EXTENDS StandardFiles, FiniteSetTheorems, SequenceTheorems, WellFoundedInduction, TLAPS

-----------------------------------------------------------------------------
(* What the globals and the system's tables hold.                           *)
Fd      == 0 .. MaxFd
Opens   == 1 .. MaxOpen
FileSet == DOMAIN Text \cup {ShellOut, Listing, NoFile}
Entry   == [file : FileSet, pos : Int]
Buffer  == [offset : Int, curpos : Int, fill : Int, next : Int, file : FileSet, at : Int]

Globs ==
  [ fds : [Fd -> 0 .. MaxOpen], open : [Opens -> Entry], buf : Buffer,
    originp : -1 .. MaxFd, save_fd0 : -1 .. MaxFd, inc : Seq([fd : Fd, pos : Int]),
    curfile : Nat, inpcnt : Nat, cmdcnt : Int,
    readshell0 : BOOLEAN, executing : BOOLEAN, first_record : BOOLEAN, provide_name : BOOLEAN,
    oupState : Nat, origoup : Fd, errflag : BOOLEAN, ret : {"none", "file", "eof", "exit"} ]

(* The globals that no call on a descriptor and no use of the buffer changes. *)
SameVars(y, x) ==
  /\ y.originp = x.originp /\ y.save_fd0 = x.save_fd0 /\ y.inc = x.inc
  /\ y.curfile = x.curfile /\ y.inpcnt = x.inpcnt /\ y.cmdcnt = x.cmdcnt
  /\ y.readshell0 = x.readshell0 /\ y.executing = x.executing
  /\ y.first_record = x.first_record /\ y.provide_name = x.provide_name
  /\ y.oupState = x.oupState /\ y.origoup = x.origoup /\ y.errflag = x.errflag
  /\ y.ret = x.ret

(* The entry a descriptor refers to.                                        *)
EntryAt(x, fd) == x.open[x.fds[fd]]

(* The system's tables agree: an entry has a file while a descriptor refers *)
(* to it.                                                                   *)
Tables(x) ==
  /\ x \in Globs
  /\ \A o \in Opens : x.open[o].file # NoFile <=> \E fd \in Fd : x.fds[fd] = o

(* The numbers of descriptors and of entries.                               *)
LEMMA Numbers ==
  /\ Depth \in Nat /\ Depth > 0 /\ MaxFd = Depth + 6 /\ MaxOpen = Depth + 4 /\ Closed = 0
  /\ {0, 1, 2} \subseteq Fd /\ Fd \subseteq Nat /\ Opens \subseteq Nat
  /\ Closed \notin Opens /\ Opens \subseteq 0 .. MaxOpen
BY StandardFilesAssumption DEF MaxFd, MaxOpen, Closed, Fd, Opens

(* A set of numbers has a least one.                                        *)
LEMMA LeastOf ==
  ASSUME NEW S, S \subseteq Nat, S # {}
  PROVE  /\ Min(S) \in S
         /\ \A y \in S : Min(S) <= y
<1>1. IsWellFoundedOn(OpToRel(<, Nat), Nat)  BY NatLessThanWellFounded
<1>2. PICK x \in S : \A y \in S : ~ (<<y, x>> \in OpToRel(<, Nat))
  BY <1>1, WFMin
<1>3. \A y \in S : ~ (y < x)  BY <1>2 DEF OpToRel
<1>4. \A y \in S : x <= y  BY <1>3
<1> QED BY <1>4 DEF Min

(* The lowest free descriptor.                                              *)
LEMMA Lowest ==
  ASSUME NEW x, x.fds \in [Fd -> 0 .. MaxOpen], NEW e \in Fd, x.fds[e] = Closed
  PROVE  /\ LowestFree(x) \in Fd /\ x.fds[LowestFree(x)] = Closed
         /\ \A fd \in Fd : x.fds[fd] = Closed => LowestFree(x) <= fd
<1> DEFINE S == {fd \in 0 .. MaxFd : x.fds[fd] = Closed}
<1>1. S \subseteq Nat /\ e \in S  BY Numbers DEF Fd
<1>2. Min(S) \in S /\ \A y \in S : Min(S) <= y
  <2> HIDE DEF S
  <2> QED BY <1>1, LeastOf
<1> QED BY <1>2 DEF LowestFree, Fd

-----------------------------------------------------------------------------
(* The system's calls.                                                      *)

(* A change of the tables, field by field.                                  *)
LEMMA TablesChange ==
  ASSUME NEW x \in Globs, NEW g \in [Fd -> 0 .. MaxOpen], NEW h \in [Opens -> Entry]
  PROVE  LET y == [x EXCEPT !.fds = g, !.open = h]
         IN  y \in Globs /\ y.fds = g /\ y.open = h /\ y.buf = x.buf /\ SameVars(y, x)
BY DEF Globs, SameVars

(* close: the descriptor is free, and the others stay.                      *)
ClosedAt(y, x, fd) ==
  /\ Tables(y) /\ SameVars(y, x) /\ y.buf = x.buf
  /\ y.fds = [x.fds EXCEPT ![fd] = Closed]
  /\ \A e \in Fd : e # fd /\ x.fds[e] # Closed => EntryAt(y, e) = EntryAt(x, e)

(* close frees the entry with the last descriptor that refers to it.        *)
LEMMA CloseTables ==
  ASSUME NEW x, Tables(x), NEW fd \in Fd, x.fds[fd] # Closed, NEW y, y = Close(x, fd)
  PROVE  ClosedAt(y, x, fd)
<1> DEFINE o == x.fds[fd]
           g == [x.fds EXCEPT ![fd] = Closed]
           z == [file |-> NoFile, pos |-> 0]
           t == [x EXCEPT !.fds[fd] = Closed]
           u == [t EXCEPT !.open[o] = z]
           h == IF o \in Range(g) THEN x.open ELSE [x.open EXCEPT ![o] = z]
<1>1. x \in Globs /\ x.fds \in [Fd -> 0 .. MaxOpen] /\ x.open \in [Opens -> Entry]
  BY DEF Tables, Globs
<1>2. o \in Opens /\ g \in [Fd -> 0 .. MaxOpen] /\ z \in Entry
  BY <1>1, Numbers DEF Opens, Entry, FileSet
<1>3. h \in [Opens -> Entry]  BY <1>1, <1>2
<1>4. y = IF o \in Range(g) THEN t ELSE u
  <2>1. IsOpen(x, fd)  BY DEF IsOpen, Fd
  <2>2. t.fds = g  BY <1>1 DEF Globs
  <2> QED BY <2>1, <2>2 DEF Close
<1>5. y \in Globs /\ y.fds = g /\ y.open = h /\ y.buf = x.buf /\ SameVars(y, x)
  <2>1. CASE o \in Range(g)
    <3>1. y = t  BY <1>4, <2>1
    <3>2. t \in Globs /\ t.fds = g /\ t.open = x.open /\ t.buf = x.buf /\ SameVars(t, x)
      BY <1>1, <1>2 DEF Globs, SameVars
    <3> QED BY <2>1, <3>1, <3>2
  <2>2. CASE o \notin Range(g)
    <3>1. y = u  BY <1>4, <2>2
    <3>2. u \in Globs /\ u.fds = g /\ u.open = [x.open EXCEPT ![o] = z] /\ u.buf = x.buf
          /\ SameVars(u, x)
      BY <1>1, <1>2 DEF Globs, SameVars
    <3> QED BY <2>2, <3>1, <3>2
  <2> QED BY <2>1, <2>2
<1> HIDE DEF t, u, z
<1>6. \A a \in Opens : a \in Range(g) <=> \E e \in Fd : g[e] = a
  BY <1>2 DEF Range
<1>7. \A e \in Fd : e # fd => g[e] = x.fds[e]  BY <1>1
<1>8. \A a \in Opens : a \in Range(g) => h[a] = x.open[a]  BY <1>1, <1>2
<1>9. \A a \in Opens : h[a].file # NoFile <=> \E e \in Fd : g[e] = a
  <2> TAKE a \in Opens
  <2>1. (\E e \in Fd : g[e] = a) => h[a].file # NoFile
    <3> SUFFICES ASSUME NEW e \in Fd, g[e] = a PROVE h[a].file # NoFile  OBVIOUS
    <3>1. e # fd  BY <1>1, Numbers
    <3>2. x.fds[e] = a /\ h[a] = x.open[a]  BY <1>6, <1>7, <1>8, <3>1
    <3> QED BY <3>2 DEF Tables
  <2>2. h[a].file # NoFile => \E e \in Fd : g[e] = a
    <3> SUFFICES ASSUME ~ \E e \in Fd : g[e] = a PROVE h[a].file = NoFile  OBVIOUS
    <3>1. a \notin Range(g)  BY <1>6
    <3>2. CASE a = o  BY <1>1, <1>2, <3>1, <3>2 DEF z
    <3>3. CASE a # o
      <4>1. h[a] = x.open[a]  BY <1>1, <1>2, <3>3
      <4>2. ~ \E e \in Fd : x.fds[e] = a  BY <1>7, <3>3
      <4> QED BY <4>1, <4>2 DEF Tables
    <3> QED BY <3>2, <3>3
  <2> QED BY <2>1, <2>2
<1>10. Tables(y)  BY <1>5, <1>9 DEF Tables
<1>11. ASSUME NEW e \in Fd, e # fd, x.fds[e] # Closed PROVE EntryAt(y, e) = EntryAt(x, e)
  <2>1. x.fds[e] \in Opens /\ g[e] = x.fds[e]
    <3>1. x.fds[e] \in 0 .. MaxOpen /\ x.fds[e] # 0  BY <1>1, <1>11, Numbers
    <3>2. x.fds[e] \in Opens  BY <3>1, Numbers DEF Opens
    <3> QED BY <1>7, <1>11, <3>2
  <2>2. h[g[e]] = x.open[g[e]]  BY <1>6, <1>8, <2>1
  <2> QED BY <1>5, <2>1, <2>2 DEF EntryAt
<1> QED BY <1>5, <1>10, <1>11 DEF ClosedAt

(* dup: one more descriptor refers to the entry.                            *)
DupedAt(y, x, l, fd) ==
  /\ Tables(y) /\ SameVars(y, x) /\ y.buf = x.buf
  /\ y.fds = [x.fds EXCEPT ![l] = x.fds[fd]]
  /\ \A e \in Fd : e # l /\ x.fds[e] # Closed => EntryAt(y, e) = EntryAt(x, e)
  /\ EntryAt(y, l) = EntryAt(x, fd)

(* dup takes the lowest free descriptor.                                    *)
LEMMA DupTables ==
  ASSUME NEW x, Tables(x), NEW fd \in Fd, x.fds[fd] # Closed, NEW y, y = Dup(x, fd),
         NEW l, l = LowestFree(x), l \in Fd, x.fds[l] = Closed
  PROVE  DupedAt(y, x, l, fd)
<1> DEFINE g == [x.fds EXCEPT ![l] = x.fds[fd]]
<1>1. x \in Globs /\ x.fds \in [Fd -> 0 .. MaxOpen] /\ x.open \in [Opens -> Entry]
  BY DEF Tables, Globs
<1>2. y = [x EXCEPT !.fds[l] = x.fds[fd]]
  <2>1. IsOpen(x, fd)  BY DEF IsOpen, Fd
  <2> QED BY <2>1 DEF Dup
<1>3. g \in [Fd -> 0 .. MaxOpen]  BY <1>1
<1>4. y \in Globs /\ y.fds = g /\ y.open = x.open /\ y.buf = x.buf /\ SameVars(y, x)
  BY <1>1, <1>2, <1>3 DEF Globs, SameVars
<1>5. \A a \in Opens : (\E e \in Fd : g[e] = a) <=> (\E e \in Fd : x.fds[e] = a)
  <2> TAKE a \in Opens
  <2>1. ASSUME NEW e \in Fd, g[e] = a PROVE \E d \in Fd : x.fds[d] = a
    BY <1>1, <2>1
  <2>2. ASSUME NEW e \in Fd, x.fds[e] = a PROVE \E d \in Fd : g[d] = a
    BY <1>1, <2>2, Numbers
  <2> QED BY <2>1, <2>2
<1>6. Tables(y)  BY <1>4, <1>5 DEF Tables
<1>7. \A e \in Fd : e # l => g[e] = x.fds[e]  BY <1>1
<1>8. g[l] = x.fds[fd]  BY <1>1
<1> HIDE DEF g
<1> QED BY <1>4, <1>6, <1>7, <1>8 DEF EntryAt, g, DupedAt

(* open: an entry no descriptor refers to is the file's, at its start.      *)
OpenedAt(y, x, l, f) ==
  /\ Tables(y) /\ SameVars(y, x) /\ y.buf = x.buf
  /\ \E o \in Opens : y.fds = [x.fds EXCEPT ![l] = o] /\ \A e \in Fd : x.fds[e] # o
  /\ \A e \in Fd : e # l /\ x.fds[e] # Closed => EntryAt(y, e) = EntryAt(x, e)
  /\ EntryAt(y, l) = [file |-> f, pos |-> 0]

(* open takes the lowest free descriptor, and there is a free entry.        *)
LEMMA OpenTables ==
  ASSUME NEW x, Tables(x), NEW f \in FileSet \ {NoFile}, NEW y, y = OpenFile(x, f),
         NEW l, l = LowestFree(x), l \in Fd, x.fds[l] = Closed,
         NEW i \in Opens, x.open[i].file = NoFile
  PROVE  OpenedAt(y, x, l, f)
<1> DEFINE S == {a \in 1 .. MaxOpen : x.open[a].file = NoFile}
           o == Min(S)
           z == [file |-> f, pos |-> 0]
           g == [x.fds EXCEPT ![l] = o]
           h == [x.open EXCEPT ![o] = z]
<1>1. x \in Globs /\ x.fds \in [Fd -> 0 .. MaxOpen] /\ x.open \in [Opens -> Entry]
  BY DEF Tables, Globs
<1>2. o \in Opens /\ x.open[o].file = NoFile
  <2>1. S \subseteq Nat /\ i \in S  BY Numbers DEF Opens
  <2>2. Min(S) \in S
    <3> HIDE DEF S
    <3> QED BY <2>1, LeastOf
  <2> QED BY <2>2 DEF Opens
<1>3. y = [x EXCEPT !.open[o] = z, !.fds[l] = o]  BY DEF OpenFile
<1> HIDE DEF S, o
<1>4. g \in [Fd -> 0 .. MaxOpen] /\ h \in [Opens -> Entry] /\ z \in Entry
  BY <1>1, <1>2, Numbers DEF Entry
<1>5. y \in Globs /\ y.fds = g /\ y.open = h /\ y.buf = x.buf /\ SameVars(y, x)
  BY <1>1, <1>3, <1>4 DEF Globs, SameVars
<1>6. \A e \in Fd : x.fds[e] # o  BY <1>2 DEF Tables
<1>7. \A e \in Fd : e # l => g[e] = x.fds[e]  BY <1>1
<1>8. g[l] = o /\ h[o] = z /\ \A a \in Opens : a # o => h[a] = x.open[a]  BY <1>1, <1>2
<1>9. \A a \in Opens : h[a].file # NoFile <=> \E e \in Fd : g[e] = a
  <2> TAKE a \in Opens
  <2>1. CASE a = o  BY <1>8, <2>1
  <2>2. CASE a # o
    <3>1. (\E e \in Fd : g[e] = a) <=> (\E e \in Fd : x.fds[e] = a)
      <4>1. ASSUME NEW e \in Fd, g[e] = a PROVE x.fds[e] = a  BY <1>7, <1>8, <2>2, <4>1
      <4>2. ASSUME NEW e \in Fd, x.fds[e] = a PROVE g[e] = a  BY <1>7, <2>2, <4>2, Numbers
      <4> QED BY <4>1, <4>2
    <3> QED BY <1>8, <2>2, <3>1 DEF Tables
  <2> QED BY <2>1, <2>2
<1>10. Tables(y)  BY <1>5, <1>9 DEF Tables
<1>11. ASSUME NEW e \in Fd, e # l, x.fds[e] # Closed PROVE EntryAt(y, e) = EntryAt(x, e)
  <2>1. x.fds[e] \in Opens /\ g[e] = x.fds[e]  BY <1>1, <1>7, <1>11, Numbers DEF Opens
  <2> QED BY <1>5, <1>6, <1>8, <2>1 DEF EntryAt
<1>12. EntryAt(y, l) = z  BY <1>5, <1>8 DEF EntryAt
<1> QED BY <1>2, <1>5, <1>6, <1>10, <1>11, <1>12 DEF OpenedAt

-----------------------------------------------------------------------------
(* The buffer of standard input.                                            *)

(* What the buffer's operations leave alone: the descriptors, what they     *)
(* refer to but for its position, and the other globals.                    *)
Reads(y, x) ==
  /\ y \in Globs /\ y.fds = x.fds /\ SameVars(y, x)
  /\ \A o \in Opens : y.open[o].file = x.open[o].file

(* One after the other, and the tables still agree.                         *)
LEMMA ReadsCompose ==
  ASSUME NEW x, NEW y, NEW z, Reads(y, x), Reads(z, y)
  PROVE  Reads(z, x)
BY DEF Reads, SameVars

(* The tables still agree.                                                  *)
LEMMA ReadsTables ==
  ASSUME NEW x, NEW y, Tables(x), Reads(y, x)
  PROVE  Tables(y)
BY DEF Reads, Tables

(* The files of the descriptors stay.                                       *)
LEMMA ReadsFiles ==
  ASSUME NEW x, NEW y, Tables(x), Reads(y, x), NEW fd
  PROVE  FileAt(y, fd) = FileAt(x, fd) /\ IsOpen(y, fd) = IsOpen(x, fd)
<1>1. y.fds = x.fds  BY DEF Reads
<1>2. IsOpen(y, fd) = IsOpen(x, fd)  BY <1>1 DEF IsOpen
<1>3. CASE IsOpen(x, fd)
  <2>1. x.fds[fd] \in 0 .. MaxOpen /\ x.fds[fd] # 0  BY <1>3, Numbers DEF IsOpen, Tables, Globs, Fd
  <2>2. x.fds[fd] \in Opens  BY <2>1, Numbers DEF Opens
  <2> QED BY <1>1, <1>2, <1>3, <2>2 DEF FileAt, Reads
<1>4. CASE ~IsOpen(x, fd)  BY <1>2, <1>4 DEF FileAt
<1> QED BY <1>2, <1>3, <1>4

(* The greater and the lesser of two numbers.                               *)
LEMMA MaxOfTwo ==
  ASSUME NEW a \in Int, NEW b \in Int
  PROVE  Max({a, b}) \in Int /\ Max({a, b}) = IF a >= b THEN a ELSE b
<1> DEFINE m == IF a >= b THEN a ELSE b
<1>1. m \in {a, b} /\ \A y \in {a, b} : m >= y  OBVIOUS
<1>2. \A n \in {a, b} : (\A y \in {a, b} : n >= y) => n = m  OBVIOUS
<1>3. Max({a, b}) = m  BY <1>1, <1>2 DEF Max
<1> QED BY <1>3

(* The lesser of two numbers.                                               *)
LEMMA MinOfTwo ==
  ASSUME NEW a \in Int, NEW b \in Int
  PROVE  Min({a, b}) \in Int /\ Min({a, b}) = IF a <= b THEN a ELSE b
<1> DEFINE m == IF a <= b THEN a ELSE b
<1>1. m \in {a, b} /\ \A y \in {a, b} : m <= y  OBVIOUS
<1>2. \A n \in {a, b} : (\A y \in {a, b} : n <= y) => n = m  OBVIOUS
<1>3. Min({a, b}) = m  BY <1>1, <1>2 DEF Min
<1> QED BY <1>3

(* The greatest of three.                                                   *)
LEMMA MaxOfThree ==
  ASSUME NEW a \in Int, NEW b \in Int, NEW c \in Int
  PROVE  /\ Max({a, b, c}) \in {a, b, c}
         /\ \A y \in {a, b, c} : y <= Max({a, b, c})
<1> DEFINE S == {a, b, c}
<1>1. \E n \in S : \A y \in S : n >= y  OBVIOUS
<1>2. Max(S) \in S /\ \A y \in S : Max(S) >= y  BY <1>1 DEF Max
<1> QED BY <1>2

(* The fields of the globals that the buffer's operations read.             *)
LEMMA Fields ==
  ASSUME NEW x \in Globs
  PROVE  /\ x.fds \in [Fd -> 0 .. MaxOpen] /\ x.open \in [Opens -> Entry] /\ x.buf \in Buffer
         /\ x.buf.offset \in Int /\ x.buf.curpos \in Int /\ x.buf.fill \in Int
         /\ x.buf.next \in Int /\ x.buf.file \in FileSet /\ x.buf.at \in Int
         /\ \A fd \in Fd : x.fds[fd] # Closed =>
              /\ x.fds[fd] \in Opens /\ EntryAt(x, fd) \in Entry
              /\ IsOpen(x, fd) /\ FileAt(x, fd) = EntryAt(x, fd).file
              /\ FileAt(x, fd) \in FileSet /\ EntryAt(x, fd).pos \in Int
<1>1. /\ x.fds \in [Fd -> 0 .. MaxOpen] /\ x.open \in [Opens -> Entry] /\ x.buf \in Buffer
      /\ x.buf.offset \in Int /\ x.buf.curpos \in Int /\ x.buf.fill \in Int
      /\ x.buf.next \in Int /\ x.buf.file \in FileSet /\ x.buf.at \in Int
  BY DEF Globs, Buffer
<1>2. ASSUME NEW fd \in Fd, x.fds[fd] # Closed
      PROVE  /\ x.fds[fd] \in Opens /\ EntryAt(x, fd) \in Entry
             /\ IsOpen(x, fd) /\ FileAt(x, fd) = EntryAt(x, fd).file
             /\ FileAt(x, fd) \in FileSet /\ EntryAt(x, fd).pos \in Int
  <2>1. x.fds[fd] \in 0 .. MaxOpen /\ x.fds[fd] # 0  BY <1>1, <1>2, Numbers
  <2>2. x.fds[fd] \in Opens  BY <2>1, Numbers DEF Opens
  <2>3. EntryAt(x, fd) \in Entry  BY <1>1, <2>2 DEF EntryAt
  <2>4. IsOpen(x, fd)  BY <1>2 DEF IsOpen, Fd
  <2>5. FileAt(x, fd) = EntryAt(x, fd).file  BY <2>4 DEF FileAt, EntryAt
  <2> QED BY <2>2, <2>3, <2>4, <2>5 DEF Entry
<1> QED BY <1>1, <1>2

(* A buffer with nothing in it.                                             *)
LEMMA EmptyBuffer ==
  ASSUME NEW k \in Int, NEW c \in Int
  PROVE  Empty(k, c) \in Buffer
BY DEF Empty, Buffer, FileSet

(* The buffer is cleared.                                                   *)
LEMMA ClrbufReads ==
  ASSUME NEW x \in Globs, NEW y, y = Clrbuf(x)
  PROVE  Reads(y, x) /\ y.open = x.open
<1>1. EmptyBuf \in Buffer  BY EmptyBuffer DEF EmptyBuf
<1> QED BY <1>1 DEF Clrbuf, Reads, Globs, SameVars

(* It is emptied at its place.                                              *)
LEMMA EmptiedReads ==
  ASSUME NEW x \in Globs, NEW y, y = Emptied(x)
  PROVE  Reads(y, x) /\ y.open = x.open
<1>1. x.buf.offset + x.buf.fill \in Int /\ x.buf.curpos \in Int  BY Fields
<1>2. PICK b : b = Empty(x.buf.offset + x.buf.fill, x.buf.curpos)  OBVIOUS
<1>3. b \in Buffer  BY <1>1, <1>2, EmptyBuffer
<1>4. y = [x EXCEPT !.buf = b]  BY <1>2 DEF Emptied
<1> QED BY <1>3, <1>4 DEF Reads, Globs, SameVars

(* A change of the buffer and of the position of descriptor 0.              *)
LEMMA PositionReads ==
  ASSUME NEW x \in Globs, x.fds[0] # Closed, NEW b \in Buffer, NEW p \in Int,
         NEW y, y = [x EXCEPT !.open[x.fds[0]].pos = p, !.buf = b]
  PROVE  Reads(y, x)
<1> DEFINE o == x.fds[0]
           h == [x.open EXCEPT ![o].pos = p]
<1>1. x.open \in [Opens -> Entry] /\ o \in Opens  BY Fields, Numbers
<1>2. h \in [Opens -> Entry] /\ \A a \in Opens : h[a].file = x.open[a].file
  BY <1>1 DEF Entry
<1>3. y = [x EXCEPT !.open = h, !.buf = b]  BY DEF Globs
<1> HIDE DEF h
<1> QED BY <1>2, <1>3 DEF Reads, Globs, SameVars

(* Descriptor 0 is put at a place.                                          *)
LEMMA SeekReads ==
  ASSUME NEW x \in Globs, x.fds[0] # Closed, NEW p \in Int, NEW y, y = Seek0(x, p)
  PROVE  Reads(y, x)
<1> DEFINE b == [x.buf EXCEPT !.curpos = p]
<1>1. b \in Buffer  BY Fields DEF Buffer
<1>2. y = [x EXCEPT !.open[x.fds[0]].pos = p, !.buf = b]  BY DEF Seek0, Globs
<1> QED BY <1>1, <1>2, PositionReads

(* It is put where the buffer is.                                           *)
LEMMA SyncReads ==
  ASSUME NEW x \in Globs, x.fds[0] # Closed, NEW y, y = Sync(x)
  PROVE  Reads(y, x)
<1>1. CASE y = x  BY <1>1 DEF Reads, SameVars
<1>2. CASE y = Seek0(x, x.buf.offset)
  <2>1. x.buf.offset \in Int  BY Fields
  <2> QED BY <1>2, <2>1, SeekReads
<1> QED BY <1>1, <1>2 DEF Sync

(* The length of what a file holds, and a read of it.                       *)
LEMMA TextLength ==
  ASSUME NEW f
  PROVE  Len(TextOf(f)) \in Nat
<1>1. CASE f \in DOMAIN Text
  <2>1. Text[f] \in Seq(Range(Text[f]))  BY <1>1, StandardFilesAssumption DEF Sequence
  <2> QED BY <1>1, <2>1, LenProperties DEF TextOf
<1>2. CASE f \notin DOMAIN Text  BY <1>2 DEF TextOf
<1> QED BY <1>1, <1>2

(* fillbuf.                                                                 *)
LEMMA FillReads ==
  ASSUME NEW x \in Globs, x.fds[0] # Closed, NEW y, y = FillBuf(x)
  PROVE  Reads(y, x)
<1> DEFINE t == Sync(x)
           p == IF IsOpen(t, 0) THEN t.open[t.fds[0]].pos ELSE 0
           f == FileAt(t, 0)
           m == Min({BufRecs, Len(TextOf(f)) - p})
           n == Max({0, m})
           b == Empty(t.buf.offset, t.buf.curpos)
           c == [offset |-> t.buf.offset, curpos |-> t.buf.curpos + n, fill |-> n,
                 next |-> 0, file |-> f, at |-> p]
<1>1. Reads(t, x)  BY SyncReads
<1>2. t \in Globs /\ t.fds = x.fds  BY <1>1 DEF Reads
<1>3. p \in Int /\ f \in FileSet /\ IsOpen(t, 0)  BY <1>2, Numbers, Fields DEF EntryAt
<1>4. n \in Int
  <2>1. BufRecs \in Int /\ Len(TextOf(f)) - p \in Int
    <3> HIDE DEF p, f
    <3> QED BY <1>3, TextLength, StandardFilesAssumption
  <2>2. m \in Int  BY <2>1, MinOfTwo
  <2> HIDE DEF m
  <2> QED BY <2>2, MaxOfTwo
<1>5. y = IF n = 0 THEN [t EXCEPT !.buf = b]
          ELSE [t EXCEPT !.buf = c, !.open[t.fds[0]].pos = p + n]
  BY Zenon DEF FillBuf
<1>7. [t EXCEPT !.buf = c, !.open[t.fds[0]].pos = p + n]
        = [t EXCEPT !.open[t.fds[0]].pos = p + n, !.buf = c]
  BY <1>2 DEF Globs
<1>8. /\ t.buf.offset \in Int /\ t.buf.curpos \in Int /\ t.buf.curpos + n \in Int
      /\ p + n \in Int
  <2> HIDE DEF n, p, t
  <2> QED BY <1>2, <1>3, <1>4, Fields
<1> HIDE DEF t, p, f, n
<1>9. b \in Buffer  BY <1>8, EmptyBuffer
<1>10. c \in Buffer  BY <1>3, <1>4, <1>8 DEF Buffer
<1> HIDE DEF b, c
<1>11. Reads([t EXCEPT !.buf = b], t)  BY <1>2, <1>9 DEF Reads, Globs, SameVars
<1>12. Reads([t EXCEPT !.open[t.fds[0]].pos = p + n, !.buf = c], t)
  BY <1>2, <1>8, <1>10, PositionReads
<1>13. Reads(y, t)  BY <1>5, <1>7, <1>11, <1>12
<1> QED BY <1>1, <1>13, ReadsCompose

(* A record is made ready.                                                  *)
LEMMA ReadyReads ==
  ASSUME NEW x \in Globs, x.fds[0] # Closed, NEW y, y = Ready(x)
  PROVE  Reads(y, x)
<1>1. CASE y = x  BY <1>1 DEF Reads, SameVars
<1>2. CASE y = FillBuf(Emptied(x))
  <2>1. PICK z : z = Emptied(x)  OBVIOUS
  <2>2. Reads(z, x)  BY <2>1, EmptiedReads
  <2>3. z \in Globs /\ z.fds = x.fds  BY <2>2 DEF Reads
  <2>4. Reads(y, z)  BY <1>2, <2>1, <2>3, FillReads
  <2> QED BY <2>2, <2>4, ReadsCompose
<1> QED BY <1>1, <1>2 DEF Ready

(* It is taken.                                                             *)
LEMMA TakenReads ==
  ASSUME NEW x \in Globs, NEW y, y = Taken(x)
  PROVE  Reads(y, x)
<1> DEFINE k == x.buf.next + 1
           b == [x.buf EXCEPT !.next = k]
<1>1. k \in Int /\ x.buf \in Buffer  BY Fields
<1>2. y = [x EXCEPT !.buf = b]  BY DEF Taken, Globs
<1> HIDE DEF k
<1>3. b \in Buffer  BY <1>1 DEF Buffer
<1> HIDE DEF b
<1> QED BY <1>2, <1>3 DEF Reads, Globs, SameVars

(* doset to a place.                                                        *)
LEMMA SetToReads ==
  ASSUME NEW x \in Globs, x.fds[0] # Closed, NEW p \in Int, NEW y, y = SetTo(x, p)
  PROVE  Reads(y, x)
<1> DEFINE q == (p \div BufRecs) * BufRecs
           d == p - x.buf.offset
<1>1. q \in Int /\ d \in Int  BY Fields, StandardFilesAssumption
<1>2. PICK e : e = Emptied(x)  OBVIOUS
<1>3. Reads(e, x)  BY <1>2, EmptiedReads
<1>4. e \in Globs /\ e.fds = x.fds  BY <1>3 DEF Reads
<1>5. PICK t : t = IF q = e.buf.curpos THEN [e EXCEPT !.buf.offset = q]
                   ELSE [Seek0(e, q) EXCEPT !.buf.offset = q]
  OBVIOUS
<1>6. PICK f : f = FillBuf(t)  OBVIOUS
<1>7. PICK n : n = Min({p - f.buf.offset, f.buf.fill})  OBVIOUS
<1>8. \/ y = [x EXCEPT !.buf.next = d]
      \/ y = e
      \/ y = [f EXCEPT !.buf.next = n]
  BY <1>2, <1>5, <1>6, <1>7, Zenon DEF SetTo
<1> HIDE DEF q, d
<1>9. ASSUME NEW u \in Globs, NEW k \in Int, NEW v, v = [u EXCEPT !.buf.next = k]
      PROVE  Reads(v, u)
  <2> DEFINE b == [u.buf EXCEPT !.next = k]
  <2>1. u.buf \in Buffer  BY Fields
  <2>2. v = [u EXCEPT !.buf = b]  BY <1>9 DEF Globs
  <2>3. b \in Buffer  BY <2>1 DEF Buffer
  <2> HIDE DEF b
  <2> QED BY <2>2, <2>3 DEF Reads, Globs, SameVars
<1>10. ASSUME NEW u \in Globs, NEW v, v = [u EXCEPT !.buf.offset = q]
       PROVE  Reads(v, u)
  <2> DEFINE b == [u.buf EXCEPT !.offset = q]
  <2>1. u.buf \in Buffer  BY Fields
  <2>2. v = [u EXCEPT !.buf = b]  BY <1>10 DEF Globs
  <2>3. b \in Buffer  BY <1>1, <2>1 DEF Buffer
  <2> HIDE DEF b
  <2> QED BY <2>2, <2>3 DEF Reads, Globs, SameVars
<1>11. Reads(t, x)
  <2>1. CASE t = [e EXCEPT !.buf.offset = q]  BY <1>3, <1>4, <1>10, <2>1, ReadsCompose
  <2>2. CASE t = [Seek0(e, q) EXCEPT !.buf.offset = q]
    <3>1. PICK z : z = Seek0(e, q)  OBVIOUS
    <3>2. Reads(z, e)  BY <1>1, <1>4, <3>1, SeekReads
    <3>3. z \in Globs  BY <3>2 DEF Reads
    <3>4. Reads(t, z)  BY <1>10, <2>2, <3>1, <3>3
    <3>5. Reads(z, x)  BY <1>3, <3>2, ReadsCompose
    <3> QED BY <3>4, <3>5, ReadsCompose
  <2> QED BY <1>5, <2>1, <2>2
<1>12. Reads(f, x)
  <2>1. t \in Globs /\ t.fds = x.fds  BY <1>11 DEF Reads
  <2>2. Reads(f, t)  BY <1>6, <2>1, FillReads
  <2> QED BY <1>11, <2>2, ReadsCompose
<1>13. n \in Int
  <2>1. f \in Globs  BY <1>12 DEF Reads
  <2>2. p - f.buf.offset \in Int /\ f.buf.fill \in Int  BY <2>1, Fields
  <2> QED BY <1>7, <2>2, MinOfTwo
<1>14. CASE y = [x EXCEPT !.buf.next = d]  BY <1>1, <1>9, <1>14
<1>15. CASE y = e  BY <1>3, <1>15
<1>16. CASE y = [f EXCEPT !.buf.next = n]
  <2>1. f \in Globs  BY <1>12 DEF Reads
  <2>2. Reads(y, f)  BY <1>9, <1>13, <1>16, <2>1
  <2> QED BY <1>12, <2>2, ReadsCompose
<1> QED BY <1>8, <1>14, <1>15, <1>16

(* doset to the end.                                                        *)
LEMMA SetToEofReads ==
  ASSUME NEW x \in Globs, x.fds[0] # Closed, NEW y, y = SetToEof(x)
  PROVE  Reads(y, x)
<1> DEFINE eof == IF CanSeek(x, 0) THEN Len(TextOf(FileAt(x, 0))) ELSE -1
           k == x.buf.offset + x.buf.fill
           p == Max({0, eof, k})
<1>1. eof \in Int /\ k \in Int /\ p \in Int
  <2>1. Len(TextOf(FileAt(x, 0))) \in Int  BY TextLength
  <2>2. eof \in Int /\ k \in Int  BY <2>1, Fields
  <2>3. ASSUME NEW a \in Int, NEW b \in Int PROVE Max({0, a, b}) \in Int
    <3>1. Max({0, a, b}) \in {0, a, b}  
      <4>1. 0 \in Int  OBVIOUS
      <4> QED BY <4>1, MaxOfThree, Zenon
    <3> QED BY <3>1
  <2> HIDE DEF eof, k
  <2> QED BY <2>2, <2>3
<1> DEFINE t == IF CanSeek(x, 0) THEN Seek0(x, eof) ELSE [x EXCEPT !.buf.curpos = -1]
<1>2. y = SetTo(t, p)  BY Zenon DEF SetToEof
<1> HIDE DEF eof, k, p
<1>3. Reads(t, x)
  <2>1. CASE CanSeek(x, 0)
    <3>1. Reads(Seek0(x, eof), x)  BY <1>1, SeekReads
    <3> QED BY <2>1, <3>1
  <2>2. CASE ~CanSeek(x, 0)
    <3> DEFINE b == [x.buf EXCEPT !.curpos = -1]
    <3>1. b \in Buffer  BY Fields DEF Buffer
    <3>2. t = [x EXCEPT !.buf = b]  BY <2>2 DEF Globs
    <3> HIDE DEF b, t
    <3> QED BY <3>1, <3>2 DEF Reads, Globs, SameVars
  <2> QED BY <2>1, <2>2
<1> HIDE DEF t
<1>4. t \in Globs /\ t.fds = x.fds  BY <1>3 DEF Reads
<1>5. Reads(y, t)  BY <1>1, <1>2, <1>4, SetToReads
<1> QED BY <1>3, <1>5, ReadsCompose

-----------------------------------------------------------------------------
(* The descriptors in use.                                                  *)

(* Those of the files that includes have suspended.                         *)
IncFds(x) == {x.inc[i].fd : i \in DOMAIN x.inc}

(* The -o file is on descriptor 1, and the shell's is kept in origoup.      *)
Listed(x) == x.oupState = 1 /\ ~x.errflag

(* Those in use; cmd tells that a command of HOST(1) is running.            *)
Uses(x, cmd) ==
  {0, 1, 2, x.originp} \cup IncFds(x)
    \cup (IF Listed(x) THEN {x.origoup} ELSE {}) \cup (IF cmd THEN {x.save_fd0} ELSE {})

(* No two uses share one.                                                   *)
Apart(x, cmd) ==
  /\ x.originp \in Fd \ {0, 1, 2}
  /\ \A i \in DOMAIN x.inc : x.inc[i].fd \notin {0, 1, 2, x.originp}
  /\ \A i, j \in DOMAIN x.inc : x.inc[i].fd = x.inc[j].fd => i = j
  /\ Listed(x) => x.origoup \notin {0, 1, 2, x.originp} \cup IncFds(x)
  /\ cmd => /\ x.save_fd0 \in Fd \ ({0, 1, 2, x.originp} \cup IncFds(x))
            /\ Listed(x) => x.save_fd0 # x.origoup

(* The shell's input and output are kept; its output is on descriptor 1     *)
(* when the -o file is not.                                                 *)
Output(x) ==
  /\ FileAt(x, x.originp) = Shell /\ FileAt(x, 2) = ShellOut
  /\ Listed(x) => x.fds[x.origoup] = x.fds[2] /\ FileAt(x, 1) = Listing
  /\ ~Listed(x) => x.fds[1] = x.fds[2]

Kept(x, cmd) ==
  /\ Tables(x) /\ Len(x.inc) <= Depth
  /\ Apart(x, cmd)
  /\ \A fd \in Fd : x.fds[fd] # Closed <=> fd \in Uses(x, cmd)
  /\ Output(x)

(* The command reads the shell's input.                                     *)
Sound(x, cmd) == Kept(x, cmd) /\ (cmd => x.fds[0] = x.fds[x.originp])

(* More numbers than places: one of them is left out.                       *)
LEMMA LeftOut ==
  \A n \in Nat, a \in Int, b \in Int : \A q :
    b - a + 1 > n => \E e \in a .. b : \A i \in 1 .. n : q[i] # e
<1> SUFFICES ASSUME NEW n \in Nat, NEW a \in Int, NEW b \in Int, b - a + 1 > n, NEW q
             PROVE  \E e \in a .. b : \A i \in 1 .. n : q[i] # e
  OBVIOUS
<1> DEFINE T == {q[i] : i \in 1 .. n}
<1>1. IsFiniteSet(1 .. n) /\ Cardinality(1 .. n) = n  BY FS_Interval
<1>2. IsFiniteSet(T) /\ Cardinality(T) <= n
  <2> DEFINE f == [i \in 1 .. n |-> q[i]]
  <2>1. T = {f[i] : i \in 1 .. n}  OBVIOUS
  <2>2. f \in Surjection(1 .. n, T)  BY DEF Surjection
  <2> QED BY <1>1, <2>2, FS_Surjection
<1>3. IsFiniteSet(a .. b) /\ Cardinality(a .. b) = b - a + 1  BY FS_Interval
<1>4. SUFFICES ASSUME a .. b \subseteq T PROVE FALSE  OBVIOUS
<1>5. Cardinality(a .. b) <= Cardinality(T) /\ Cardinality(T) \in Nat
  BY <1>2, <1>4, FS_Subset, FS_CardinalityType
<1> QED BY <1>2, <1>3, <1>5

(* There is a descriptor for one use more than those at once in use.        *)
LEMMA FreeFd ==
  ASSUME NEW x \in Globs, Len(x.inc) <= Depth, NEW a, NEW b, NEW c, NEW d, NEW e, NEW f,
         \A fd \in Fd : x.fds[fd] # Closed => fd \in {a, b, c, d, e, f} \cup IncFds(x)
  PROVE  LowestFree(x) \in Fd /\ x.fds[LowestFree(x)] = Closed
         /\ \A fd \in Fd : x.fds[fd] = Closed => LowestFree(x) <= fd
<1>1. x.inc \in Seq([fd : Fd, pos : Int])  BY DEF Globs
<1> DEFINE n == Len(x.inc)
           q == [i \in 1 .. n + 6 |-> IF i <= n THEN x.inc[i].fd
                  ELSE CASE i = n + 1 -> a [] i = n + 2 -> b [] i = n + 3 -> c
                         [] i = n + 4 -> d [] i = n + 5 -> e [] OTHER -> f]
<1>2. n \in Nat /\ n <= Depth /\ DOMAIN x.inc = 1 .. n  BY <1>1
<1>3. n + 6 \in Nat /\ 0 \in Int /\ MaxFd \in Int /\ MaxFd - 0 + 1 > n + 6
  <2> HIDE DEF n
  <2> QED BY <1>2, Numbers
<1> HIDE DEF n
<1>4. PICK g \in Fd : \A i \in 1 .. n + 6 : q[i] # g
  <2> HIDE DEF q
  <2>1. PICK m, h, r : m = n + 6 /\ h = MaxFd /\ r = q  OBVIOUS
  <2>2. \E y \in 0 .. h : \A i \in 1 .. m : r[i] # y
    <3>1. m \in Nat /\ 0 \in Int /\ h \in Int /\ h - 0 + 1 > m  BY <1>3, <2>1
    <3>2. \A t : h - 0 + 1 > m => \E e1 \in 0 .. h : \A i \in 1 .. m : t[i] # e1
      BY <3>1, LeftOut
    <3>3. \A t : \E e1 \in 0 .. h : \A i \in 1 .. m : t[i] # e1  BY <3>1, <3>2
    <3> QED BY <3>3
  <2> QED BY <2>1, <2>2 DEF Fd
<1>5. \A i \in DOMAIN x.inc : x.inc[i].fd # g
  <2> TAKE i \in DOMAIN x.inc
  <2>1. i \in 1 .. n + 6 /\ i <= n  BY <1>2
  <2> QED BY <1>4, <2>1
<1>6. g \notin {a, b, c, d, e, f}
  <2>1. /\ n + 1 \in 1 .. n + 6 /\ n + 2 \in 1 .. n + 6 /\ n + 3 \in 1 .. n + 6
        /\ n + 4 \in 1 .. n + 6 /\ n + 5 \in 1 .. n + 6 /\ n + 6 \in 1 .. n + 6
    BY <1>2
  <2>2. /\ q[n + 1] = a /\ q[n + 2] = b /\ q[n + 3] = c
        /\ q[n + 4] = d /\ q[n + 5] = e /\ q[n + 6] = f
    BY <1>2, <2>1
  <2> HIDE DEF q
  <2> QED BY <1>4, <2>1, <2>2
<1>7. x.fds[g] = Closed  BY <1>5, <1>6 DEF IncFds
<1> QED BY <1>7, Lowest, Fields

(* There is an entry for a file more.                                       *)
LEMMA FreeEntry ==
  ASSUME NEW x, Tables(x), Len(x.inc) <= Depth, NEW a, NEW b, NEW c,
         \A fd \in Fd : x.fds[fd] # Closed =>
           x.fds[fd] \in {a, b, c} \cup {x.fds[x.inc[i].fd] : i \in DOMAIN x.inc}
  PROVE  \E o \in Opens : x.open[o].file = NoFile
<1>1. x.inc \in Seq([fd : Fd, pos : Int])  BY DEF Globs, Tables
<1> DEFINE n == Len(x.inc)
           q == [i \in 1 .. n + 3 |-> IF i <= n THEN x.fds[x.inc[i].fd]
                  ELSE CASE i = n + 1 -> a [] i = n + 2 -> b [] OTHER -> c]
<1>2. n \in Nat /\ n <= Depth /\ DOMAIN x.inc = 1 .. n  BY <1>1
<1>3. n + 3 \in Nat /\ 1 \in Int /\ MaxOpen \in Int /\ MaxOpen - 1 + 1 > n + 3
  <2> HIDE DEF n
  <2> QED BY <1>2, Numbers
<1> HIDE DEF n
<1>4. PICK g \in Opens : \A i \in 1 .. n + 3 : q[i] # g
  <2> HIDE DEF q
  <2>1. PICK m, h, r : m = n + 3 /\ h = MaxOpen /\ r = q  OBVIOUS
  <2>2. \E y \in 1 .. h : \A i \in 1 .. m : r[i] # y
    <3>1. m \in Nat /\ 1 \in Int /\ h \in Int /\ h - 1 + 1 > m  BY <1>3, <2>1
    <3>2. \A t : h - 1 + 1 > m => \E e1 \in 1 .. h : \A i \in 1 .. m : t[i] # e1
      BY <3>1, LeftOut
    <3>3. \A t : \E e1 \in 1 .. h : \A i \in 1 .. m : t[i] # e1  BY <3>1, <3>2
    <3> QED BY <3>3
  <2> QED BY <2>1, <2>2 DEF Opens
<1>5. \A i \in DOMAIN x.inc : x.fds[x.inc[i].fd] # g
  <2> TAKE i \in DOMAIN x.inc
  <2>1. i \in 1 .. n + 3 /\ i <= n  BY <1>2
  <2> QED BY <1>4, <2>1
<1>6. g \notin {a, b, c}
  <2>1. n + 1 \in 1 .. n + 3 /\ n + 2 \in 1 .. n + 3 /\ n + 3 \in 1 .. n + 3  BY <1>2
  <2>2. q[n + 1] = a /\ q[n + 2] = b /\ q[n + 3] = c  BY <1>2, <2>1
  <2> HIDE DEF q
  <2> QED BY <1>4, <2>1, <2>2
<1>7. \A fd \in Fd : x.fds[fd] # g
  <2> TAKE fd \in Fd
  <2>1. x.fds[fd] # Closed => x.fds[fd] # g  BY <1>5, <1>6
  <2> QED BY <2>1, Numbers
<1> QED BY <1>7 DEF Tables

-----------------------------------------------------------------------------
(* The switches of descriptor 0.                                            *)

(* The globals that tell which descriptors are in use.                      *)
SameUses(y, x) ==
  /\ y.inc = x.inc /\ y.originp = x.originp /\ y.oupState = x.oupState
  /\ y.origoup = x.origoup /\ y.errflag = x.errflag

(* The descriptors in use are told by the globals alone.                    *)
LEMMA SameVarsUses ==
  ASSUME NEW x, NEW y, SameVars(y, x)
  PROVE  SameUses(y, x) /\ y.save_fd0 = x.save_fd0
BY DEF SameVars, SameUses

(* Nothing but other globals, or the buffer, has changed.                   *)
LEMMA GlobalsTables ==
  ASSUME NEW x, Tables(x), NEW y \in Globs, y.fds = x.fds, y.open = x.open
  PROVE  /\ Tables(y)
         /\ \A fd : EntryAt(y, fd) = EntryAt(x, fd) /\ FileAt(y, fd) = FileAt(x, fd)
BY DEF Tables, EntryAt, FileAt, IsOpen

(* Descriptor 0 closed and another one's file put there.                    *)
LEMMA Redup ==
  ASSUME NEW x, Tables(x), x.fds[0] # Closed, NEW fd \in Fd \ {0}, x.fds[fd] # Closed,
         NEW z, z = Clrbuf(Close(x, 0)), NEW u \in Globs, u.fds = z.fds, u.open = z.open,
         NEW y, y = Dup(u, fd)
  PROVE  /\ Tables(y) /\ SameVars(y, u) /\ y.buf = u.buf
         /\ y.fds = [x.fds EXCEPT ![0] = x.fds[fd]]
         /\ \A e \in Fd : e # 0 /\ x.fds[e] # Closed => EntryAt(y, e) = EntryAt(x, e)
         /\ EntryAt(y, 0) = EntryAt(x, fd)
<1>0. 0 \in Fd /\ x.fds \in [Fd -> 0 .. MaxOpen]  BY Numbers DEF Tables, Globs
<1>1. PICK c : c = Close(x, 0)  OBVIOUS
<1>2. /\ Tables(c) /\ SameVars(c, x) /\ c.buf = x.buf
      /\ c.fds = [x.fds EXCEPT ![0] = Closed]
      /\ \A e \in Fd : e # 0 /\ x.fds[e] # Closed => EntryAt(c, e) = EntryAt(x, e)
  BY <1>0, <1>1, CloseTables DEF ClosedAt
<1>3. z.fds = c.fds /\ z.open = c.open
  <2>1. c \in Globs  BY <1>2 DEF Tables
  <2> QED BY <1>1, <2>1, ClrbufReads DEF Reads
<1>4. Tables(u) /\ \A e : EntryAt(u, e) = EntryAt(c, e)
  <2>1. u.fds = c.fds /\ u.open = c.open  BY <1>3
  <2> QED BY <1>2, <2>1, GlobalsTables
<1>5. u.fds[0] = Closed /\ u.fds[fd] = x.fds[fd]  BY <1>0, <1>2, <1>3
<1>6. PICK l : l = LowestFree(u)  OBVIOUS
<1>7. l = 0
  <2>1. u.fds \in [Fd -> 0 .. MaxOpen]  BY DEF Globs
  <2>2. LowestFree(u) \in Fd /\ LowestFree(u) <= 0  BY <1>0, <1>5, <2>1, Lowest
  <2> QED BY <1>6, <2>2, Numbers DEF Fd
<1>8. /\ Tables(y) /\ SameVars(y, u) /\ y.buf = u.buf
      /\ y.fds = [u.fds EXCEPT ![l] = u.fds[fd]]
      /\ \A e \in Fd : e # l /\ u.fds[e] # Closed => EntryAt(y, e) = EntryAt(u, e)
      /\ EntryAt(y, l) = EntryAt(u, fd)
  <2>1. l \in Fd /\ u.fds[l] = Closed /\ u.fds[fd] # Closed  BY <1>0, <1>5, <1>7
  <2> QED BY <1>4, <1>6, <2>1, DupTables DEF DupedAt
<1>9. y.fds = [x.fds EXCEPT ![0] = x.fds[fd]]
  BY <1>0, <1>2, <1>3, <1>5, <1>7, <1>8
<1>10. ASSUME NEW e \in Fd, e # 0, x.fds[e] # Closed PROVE EntryAt(y, e) = EntryAt(x, e)
  <2>1. u.fds[e] = x.fds[e]  BY <1>0, <1>2, <1>3, <1>10
  <2> QED BY <1>2, <1>4, <1>7, <1>8, <1>10, <2>1
<1>11. EntryAt(y, 0) = EntryAt(x, fd)  BY <1>2, <1>4, <1>7, <1>8
<1> QED BY <1>8, <1>9, <1>10, <1>11

(* Descriptor 0 closed and a file opened there.                             *)
SwitchedTo(y, x, u, f) ==
  /\ Tables(y) /\ SameVars(y, u) /\ y.buf = u.buf
  /\ \E o \in Opens : y.fds = [x.fds EXCEPT ![0] = o] /\ \A e \in Fd \ {0} : x.fds[e] # o
  /\ \A e \in Fd : e # 0 /\ x.fds[e] # Closed => EntryAt(y, e) = EntryAt(x, e)
  /\ EntryAt(y, 0) = [file |-> f, pos |-> 0]

(* 0 is the lowest free descriptor, and there is an entry for the file.     *)
LEMMA Reopen ==
  ASSUME NEW x, Tables(x), x.fds[0] # Closed, Len(x.inc) <= Depth, NEW a, NEW b, NEW c,
         \A fd \in Fd : fd # 0 /\ x.fds[fd] # Closed =>
           x.fds[fd] \in {a, b, c} \cup {x.fds[x.inc[i].fd] : i \in DOMAIN x.inc},
         \A i \in DOMAIN x.inc : x.inc[i].fd # 0,
         NEW z, z = Clrbuf(Close(x, 0)), NEW u \in Globs, u.fds = z.fds, u.open = z.open,
         u.inc = x.inc, NEW f \in FileSet \ {NoFile}, NEW y, y = OpenFile(u, f)
  PROVE  SwitchedTo(y, x, u, f)
<1>0. /\ 0 \in Fd /\ x.fds \in [Fd -> 0 .. MaxOpen] /\ x.inc \in Seq([fd : Fd, pos : Int])
  BY Numbers DEF Tables, Globs
<1>1. PICK k : k = Close(x, 0)  OBVIOUS
<1>2. /\ Tables(k) /\ SameVars(k, x) /\ k.buf = x.buf
      /\ k.fds = [x.fds EXCEPT ![0] = Closed]
      /\ \A e \in Fd : e # 0 /\ x.fds[e] # Closed => EntryAt(k, e) = EntryAt(x, e)
  BY <1>0, <1>1, CloseTables DEF ClosedAt
<1>3. z.fds = k.fds /\ z.open = k.open
  <2>1. k \in Globs  BY <1>2 DEF Tables
  <2> QED BY <1>1, <2>1, ClrbufReads DEF Reads
<1>4. Tables(u) /\ \A e : EntryAt(u, e) = EntryAt(k, e)
  <2>1. u.fds = k.fds /\ u.open = k.open  BY <1>3
  <2> QED BY <1>2, <2>1, GlobalsTables
<1>5. u.fds[0] = Closed /\ \A e \in Fd : e # 0 => u.fds[e] = x.fds[e]
  BY <1>0, <1>2, <1>3
<1>6. PICK l : l = LowestFree(u)  OBVIOUS
<1>7. l = 0
  <2>1. u.fds \in [Fd -> 0 .. MaxOpen]  BY DEF Globs
  <2>2. LowestFree(u) \in Fd /\ LowestFree(u) <= 0  BY <1>0, <1>5, <2>1, Lowest
  <2> QED BY <1>6, <2>2, Numbers DEF Fd
<1>8. PICK i \in Opens : u.open[i].file = NoFile
  <2>1. \A j \in DOMAIN u.inc : u.fds[u.inc[j].fd] = x.fds[x.inc[j].fd]
    <3> TAKE j \in DOMAIN u.inc
    <3>0. j \in DOMAIN x.inc /\ j \in 1 .. Len(x.inc)  BY <1>0
    <3>1. u.inc[j] = x.inc[j] /\ x.inc[j] \in [fd : Fd, pos : Int]
      BY <1>0, <3>0, ElementOfSeq
    <3>2. x.inc[j].fd \in Fd /\ x.inc[j].fd # 0  BY <3>0, <3>1
    <3> QED BY <1>5, <3>1, <3>2
  <2>2. \A fd \in Fd : u.fds[fd] # Closed =>
          u.fds[fd] \in {a, b, c} \cup {u.fds[u.inc[j].fd] : j \in DOMAIN u.inc}
    <3> TAKE fd \in Fd
    <3> HAVE u.fds[fd] # Closed
    <3>1. fd # 0 /\ u.fds[fd] = x.fds[fd]  BY <1>5
    <3> QED BY <2>1, <3>1
  <2> QED BY <1>4, <2>2, FreeEntry
<1>9. /\ Tables(y) /\ SameVars(y, u) /\ y.buf = u.buf
      /\ \E o \in Opens : y.fds = [u.fds EXCEPT ![l] = o] /\ \A e \in Fd : u.fds[e] # o
      /\ \A e \in Fd : e # l /\ u.fds[e] # Closed => EntryAt(y, e) = EntryAt(u, e)
      /\ EntryAt(y, l) = [file |-> f, pos |-> 0]
  <2>1. l \in Fd /\ u.fds[l] = Closed  BY <1>0, <1>5, <1>7
  <2>2. OpenedAt(y, u, l, f)  BY <1>4, <1>6, <1>8, <2>1, OpenTables
  <2> QED BY <2>2 DEF OpenedAt
<1>10. PICK o \in Opens : y.fds = [u.fds EXCEPT ![0] = o] /\ \A e \in Fd : u.fds[e] # o
  BY <1>7, <1>9
<1>11. y.fds = [x.fds EXCEPT ![0] = o] /\ \A e \in Fd \ {0} : x.fds[e] # o
  BY <1>0, <1>2, <1>3, <1>5, <1>10
<1>12. ASSUME NEW e \in Fd, e # 0, x.fds[e] # Closed PROVE EntryAt(y, e) = EntryAt(x, e)
  <2>1. u.fds[e] = x.fds[e]  BY <1>5, <1>12
  <2> QED BY <1>2, <1>4, <1>7, <1>9, <1>12, <2>1
<1>13. EntryAt(y, 0) = [file |-> f, pos |-> 0]  BY <1>7, <1>9
<1> QED BY <1>9, <1>11, <1>12, <1>13 DEF SwitchedTo

(* What such a switch keeps.                                                *)
LEMMA SwitchKept ==
  ASSUME NEW cmd \in BOOLEAN, NEW x, Kept(x, cmd),
         NEW y, Tables(y), SameUses(y, x), y.save_fd0 = x.save_fd0,
         NEW o \in Opens, y.fds = [x.fds EXCEPT ![0] = o],
         \A e \in Fd : e # 0 /\ x.fds[e] # Closed => EntryAt(y, e) = EntryAt(x, e)
  PROVE  Kept(y, cmd)
<1>1. /\ 0 \in Fd /\ 1 \in Fd /\ 2 \in Fd /\ x.originp \in Fd \ {0, 1, 2}
      /\ x.fds \in [Fd -> 0 .. MaxOpen] /\ y \in Globs /\ x \in Globs
  BY Numbers DEF Kept, Apart, Tables, Globs
<1>2. Listed(y) <=> Listed(x)  BY DEF Listed, SameUses
<1>3. IncFds(y) = IncFds(x)  BY DEF IncFds, SameUses
<1>4. Uses(y, cmd) = Uses(x, cmd)  BY <1>2, <1>3 DEF Uses, SameUses
<1>5. Apart(y, cmd)  BY <1>2, <1>3 DEF Apart, SameUses, Kept
<1>6. \A fd \in Fd : y.fds[fd] # Closed <=> fd \in Uses(y, cmd)
  <2> TAKE fd \in Fd
  <2>1. CASE fd = 0
    <3>1. y.fds[fd] = o /\ fd \in Uses(y, cmd)  BY <1>1, <2>1 DEF Uses
    <3> QED BY <3>1, Numbers
  <2>2. CASE fd # 0
    <3>1. y.fds[fd] = x.fds[fd]  BY <1>1, <2>2
    <3> QED BY <1>4, <3>1 DEF Kept
  <2> QED BY <2>1, <2>2
<1>7. ASSUME NEW fd \in Fd, fd # 0, fd \in Uses(x, cmd)
      PROVE  y.fds[fd] = x.fds[fd] /\ FileAt(y, fd) = FileAt(x, fd)
  <2>1. x.fds[fd] # Closed  BY <1>7 DEF Kept
  <2>2. y.fds[fd] = x.fds[fd] /\ EntryAt(y, fd) = EntryAt(x, fd)  BY <1>1, <1>7, <2>1
  <2>3. FileAt(y, fd) = EntryAt(y, fd).file /\ FileAt(x, fd) = EntryAt(x, fd).file
    BY <1>1, <2>1, <2>2, Fields
  <2> QED BY <2>2, <2>3
<1>8. Output(y)
  <2>1. {1, 2, x.originp} \subseteq Uses(x, cmd)  BY DEF Uses
  <2>2. /\ y.originp = x.originp /\ y.origoup = x.origoup
        /\ y.fds[1] = x.fds[1] /\ y.fds[2] = x.fds[2]
        /\ FileAt(y, 1) = FileAt(x, 1) /\ FileAt(y, 2) = FileAt(x, 2)
        /\ FileAt(y, x.originp) = FileAt(x, x.originp)
    <3>1. 1 # 0 /\ 2 # 0 /\ x.originp # 0 /\ x.originp \in Fd  BY <1>1
    <3>2. y.fds[1] = x.fds[1] /\ FileAt(y, 1) = FileAt(x, 1)  BY <1>1, <1>7, <2>1, <3>1
    <3>3. y.fds[2] = x.fds[2] /\ FileAt(y, 2) = FileAt(x, 2)  BY <1>1, <1>7, <2>1, <3>1
    <3>4. FileAt(y, x.originp) = FileAt(x, x.originp)  BY <1>7, <2>1, <3>1
    <3> QED BY <3>2, <3>3, <3>4 DEF SameUses
  <2>3. Listed(x) => y.fds[x.origoup] = x.fds[x.origoup]
    <3> HAVE Listed(x)
    <3>1. x.origoup \in Fd /\ x.origoup # 0 /\ x.origoup \in Uses(x, cmd)
      BY <1>1 DEF Uses, Apart, Kept, Globs
    <3> QED BY <1>7, <3>1
  <2> QED BY <1>2, <2>2, <2>3 DEF Output, Kept
<1>9. Len(y.inc) <= Depth  BY DEF SameUses, Kept
<1> QED BY <1>5, <1>6, <1>8, <1>9 DEF Kept

(* The descriptors in use are open, each for a file.                        *)
LEMMA UsedOpen ==
  ASSUME NEW cmd \in BOOLEAN, NEW x, Kept(x, cmd)
  PROVE  /\ x \in Globs /\ x.fds \in [Fd -> 0 .. MaxOpen]
         /\ x.inc \in Seq([fd : Fd, pos : Int])
         /\ x.originp \in Fd \ {0, 1, 2} /\ IncFds(x) \subseteq Fd /\ Uses(x, cmd) \subseteq Fd
         /\ \A fd \in Uses(x, cmd) :
              /\ x.fds[fd] # Closed /\ x.fds[fd] \in Opens /\ IsOpen(x, fd)
              /\ FileAt(x, fd) = EntryAt(x, fd).file /\ FileAt(x, fd) \in FileSet
<1>1. /\ x \in Globs /\ x.fds \in [Fd -> 0 .. MaxOpen]
      /\ x.inc \in Seq([fd : Fd, pos : Int]) /\ x.origoup \in Fd
      /\ x.originp \in Fd \ {0, 1, 2}
  BY DEF Kept, Tables, Apart, Globs
<1>2. IncFds(x) \subseteq Fd
  <2> SUFFICES ASSUME NEW i \in DOMAIN x.inc PROVE x.inc[i].fd \in Fd  BY DEF IncFds
  <2>1. x.inc[i] \in [fd : Fd, pos : Int]
    <3>1. i \in 1 .. Len(x.inc)  BY <1>1
    <3> QED BY <1>1, <3>1, ElementOfSeq
  <2> QED BY <2>1
<1>3. Uses(x, cmd) \subseteq Fd
  <2>1. cmd => x.save_fd0 \in Fd  BY DEF Kept, Apart
  <2>2. {0, 1, 2, x.originp} \subseteq Fd  BY <1>1, Numbers
  <2> QED BY <1>1, <1>2, <2>1, <2>2 DEF Uses
<1>4. ASSUME NEW fd \in Uses(x, cmd)
      PROVE  /\ x.fds[fd] # Closed /\ x.fds[fd] \in Opens /\ IsOpen(x, fd)
             /\ FileAt(x, fd) = EntryAt(x, fd).file /\ FileAt(x, fd) \in FileSet
  <2>1. fd \in Fd /\ x.fds[fd] # Closed  BY <1>3, <1>4 DEF Kept
  <2> QED BY <1>1, <2>1, Fields
<1> QED BY <1>1, <1>2, <1>3, <1>4

(* What does not touch the descriptors in use keeps them in use.            *)
LEMMA SameKept ==
  ASSUME NEW cmd \in BOOLEAN, NEW x, Kept(x, cmd),
         NEW y \in Globs, y.fds = x.fds, \A o \in Opens : y.open[o].file = x.open[o].file,
         SameUses(y, x), cmd => y.save_fd0 = x.save_fd0
  PROVE  /\ Kept(y, cmd)
         /\ \A fd : FileAt(y, fd) = FileAt(x, fd)
<1>1. Tables(y)  BY DEF Kept, Tables
<1>2. ASSUME NEW fd PROVE FileAt(y, fd) = FileAt(x, fd)
  <2>1. CASE IsOpen(x, fd)
    <3>1. fd \in Fd /\ x.fds[fd] # Closed  BY <2>1 DEF IsOpen, Fd
    <3>2. x.fds[fd] \in Opens  BY <3>1, Fields DEF Kept, Tables
    <3> QED BY <3>2 DEF FileAt, IsOpen
  <2>2. CASE ~IsOpen(x, fd)
    <3>1. ~IsOpen(y, fd)  BY <2>2 DEF IsOpen
    <3> QED BY <2>2, <3>1 DEF FileAt
  <2> QED BY <2>1, <2>2
<1>3. /\ y.inc = x.inc /\ y.originp = x.originp /\ y.origoup = x.origoup
      /\ Listed(y) = Listed(x) /\ IncFds(y) = IncFds(x)
  BY DEF SameUses, Listed, IncFds
<1>4. Apart(y, cmd)  BY <1>3 DEF Kept, Apart
<1>5. Uses(y, cmd) = Uses(x, cmd)  BY <1>3 DEF Uses
<1>6. Output(y)  BY <1>2, <1>3 DEF Kept, Output
<1> QED BY <1>1, <1>2, <1>3, <1>4, <1>5, <1>6 DEF Kept

(* So do the operations on the buffer.                                      *)
LEMMA ReadsKept ==
  ASSUME NEW cmd \in BOOLEAN, NEW x, Kept(x, cmd), NEW y, Reads(y, x)
  PROVE  /\ Kept(y, cmd)
         /\ \A fd : FileAt(y, fd) = FileAt(x, fd)
<1>1. SameUses(y, x) /\ y.save_fd0 = x.save_fd0  BY SameVarsUses DEF Reads
<1> QED BY <1>1, SameKept DEF Reads

(* The shell's input put back on descriptor 0.                              *)
LEMMA ShellSwitch ==
  ASSUME NEW cmd \in BOOLEAN, NEW x, Kept(x, cmd), NEW y, y = ShellInput(x)
  PROVE  /\ Kept(y, cmd) /\ SameVars(y, x)
         /\ y.fds = [x.fds EXCEPT ![0] = x.fds[x.originp]]
<1>1. /\ x \in Globs /\ x.originp \in Fd \ {0} /\ x.fds \in [Fd -> 0 .. MaxOpen]
      /\ x.fds[0] # Closed /\ x.fds[x.originp] # Closed /\ x.fds[x.originp] \in Opens
  BY UsedOpen DEF Uses
<1>2. PICK c : c = Close(x, 0)  OBVIOUS
<1>3. PICK z : z = Clrbuf(c)  OBVIOUS
<1>4. c \in Globs /\ SameVars(c, x)
  BY <1>1, <1>2, CloseTables, Numbers DEF Kept, Tables, ClosedAt
<1>5. z \in Globs /\ SameVars(z, x)
  BY <1>3, <1>4, ClrbufReads DEF Reads, SameVars
<1>6. z = Clrbuf(Close(x, 0)) /\ y = Dup(z, x.originp)
  BY <1>2, <1>3 DEF ShellInput
<1>7. /\ Tables(y) /\ SameVars(y, z)
      /\ y.fds = [x.fds EXCEPT ![0] = x.fds[x.originp]]
      /\ \A e \in Fd : e # 0 /\ x.fds[e] # Closed => EntryAt(y, e) = EntryAt(x, e)
  BY <1>1, <1>5, <1>6, Redup DEF Kept
<1>8. SameVars(y, x)  BY <1>5, <1>7 DEF SameVars
<1>9. SameUses(y, x) /\ y.save_fd0 = x.save_fd0  BY <1>8, SameVarsUses
<1>10. Kept(y, cmd)  BY <1>1, <1>7, <1>9, SwitchKept
<1> QED BY <1>7, <1>8, <1>10

(* A descriptor l more, for the entry v.                                    *)
WithFd(y, x, l, v) ==
  /\ l \in Fd /\ x.fds[l] = Closed /\ v \in Opens
  /\ Tables(y) /\ y.fds = [x.fds EXCEPT ![l] = v]
  /\ \A e \in Fd : e # l /\ x.fds[e] # Closed => EntryAt(y, e) = EntryAt(x, e)

(* The others stay.                                                         *)
LEMMA Added ==
  ASSUME NEW cmd \in BOOLEAN, NEW x, Kept(x, cmd), NEW y, NEW l, NEW v, WithFd(y, x, l, v)
  PROVE  /\ l \notin Uses(x, cmd) /\ y.fds[l] = v
         /\ \A fd \in Fd : y.fds[fd] # Closed <=> fd \in Uses(x, cmd) \cup {l}
         /\ \A fd \in Uses(x, cmd) : y.fds[fd] = x.fds[fd] /\ FileAt(y, fd) = FileAt(x, fd)
<1> USE DEF WithFd
<1>1. x.fds \in [Fd -> 0 .. MaxOpen] /\ y \in Globs /\ Uses(x, cmd) \subseteq Fd
  BY UsedOpen DEF Tables
<1>2. l \notin Uses(x, cmd)  BY DEF Kept
<1>3. y.fds[l] = v /\ \A fd \in Fd : fd # l => y.fds[fd] = x.fds[fd]  BY <1>1
<1>4. \A fd \in Fd : y.fds[fd] # Closed <=> fd \in Uses(x, cmd) \cup {l}
  <2>1. v # Closed  BY Numbers
  <2> QED BY <1>3, <2>1 DEF Kept
<1>5. ASSUME NEW fd \in Uses(x, cmd)
      PROVE  y.fds[fd] = x.fds[fd] /\ FileAt(y, fd) = FileAt(x, fd)
  <2>1. fd \in Fd /\ fd # l /\ x.fds[fd] # Closed /\ FileAt(x, fd) = EntryAt(x, fd).file
    BY <1>1, <1>2, <1>5, UsedOpen
  <2>2. y.fds[fd] = x.fds[fd] /\ EntryAt(y, fd) = EntryAt(x, fd)  BY <1>3, <2>1
  <2>3. FileAt(y, fd) = EntryAt(y, fd).file  BY <1>1, <2>1, <2>2, Fields
  <2> QED BY <2>1, <2>2, <2>3
<1> QED BY <1>2, <1>3, <1>4, <1>5

(* The descriptor f less: the others stay.                                  *)
WithoutFd(y, x, f, cmd) ==
  /\ Tables(y) /\ SameVars(y, x) /\ y.buf = x.buf
  /\ y.fds = [x.fds EXCEPT ![f] = Closed]
  /\ \A fd \in Fd : y.fds[fd] # Closed <=> fd \in Uses(x, cmd) \ {f}
  /\ \A fd \in Uses(x, cmd) \ {f} :
       y.fds[fd] = x.fds[fd] /\ EntryAt(y, fd) = EntryAt(x, fd) /\ FileAt(y, fd) = FileAt(x, fd)

(* close of a descriptor in use.                                            *)
LEMMA Removed ==
  ASSUME NEW cmd \in BOOLEAN, NEW x, Kept(x, cmd), NEW f \in Uses(x, cmd), NEW y, y = Close(x, f)
  PROVE  WithoutFd(y, x, f, cmd)
<1>1. /\ x.fds \in [Fd -> 0 .. MaxOpen] /\ Uses(x, cmd) \subseteq Fd
      /\ f \in Fd /\ x.fds[f] # Closed
  BY UsedOpen
<1>2. /\ Tables(y) /\ SameVars(y, x) /\ y.buf = x.buf
      /\ y.fds = [x.fds EXCEPT ![f] = Closed]
      /\ \A e \in Fd : e # f /\ x.fds[e] # Closed => EntryAt(y, e) = EntryAt(x, e)
  BY <1>1, CloseTables DEF Kept, ClosedAt
<1>3. y.fds[f] = Closed /\ \A fd \in Fd : fd # f => y.fds[fd] = x.fds[fd]  BY <1>1, <1>2
<1>4. \A fd \in Fd : y.fds[fd] # Closed <=> fd \in Uses(x, cmd) \ {f}
  BY <1>1, <1>3 DEF Kept
<1>5. ASSUME NEW fd \in Uses(x, cmd) \ {f}
      PROVE  y.fds[fd] = x.fds[fd] /\ EntryAt(y, fd) = EntryAt(x, fd)
                                   /\ FileAt(y, fd) = FileAt(x, fd)
  <2>1. fd \in Fd /\ fd # f /\ x.fds[fd] # Closed /\ FileAt(x, fd) = EntryAt(x, fd).file
    BY <1>1, <1>5, UsedOpen
  <2>2. y.fds[fd] = x.fds[fd] /\ EntryAt(y, fd) = EntryAt(x, fd)  BY <1>2, <1>3, <2>1
  <2>3. FileAt(y, fd) = EntryAt(y, fd).file  BY <1>2, <2>1, <2>2, Fields DEF Tables
  <2> QED BY <2>1, <2>2, <2>3
<1> QED BY <1>2, <1>4, <1>5 DEF WithoutFd

(* The descriptor of the program's input is kept apart.                     *)
SavedApart(t, x) == t = [Dup(x, 0) EXCEPT !.save_fd0 = LowestFree(x)]

(* save0 begins so.                                                         *)
LEMMA SavedKept ==
  ASSUME NEW x, Sound(x, FALSE), NEW t, SavedApart(t, x)
  PROVE  Kept(t, TRUE)
<1>0. Kept(x, FALSE) /\ Tables(x) /\ x \in Globs  BY DEF Sound, Kept, Tables
<1>1. /\ x.fds \in [Fd -> 0 .. MaxOpen] /\ x.originp \in Fd \ {0, 1, 2} /\ 0 \in Fd
      /\ x.fds[0] # Closed /\ x.fds[0] \in Opens
  BY <1>0, UsedOpen, Numbers DEF Uses
<1>2. PICK l : l = LowestFree(x)  OBVIOUS
<1>3. l \in Fd /\ x.fds[l] = Closed
  <2>1. Len(x.inc) <= Depth  BY <1>0 DEF Kept
  <2>2. \A fd \in Fd : x.fds[fd] # Closed =>
          fd \in {0, 1, 2, x.originp, x.origoup, 0} \cup IncFds(x)
    BY <1>0 DEF Kept, Uses
  <2> QED BY <1>0, <1>2, <2>1, <2>2, FreeFd
<1>4. PICK d : d = Dup(x, 0)  OBVIOUS
<1>5. /\ Tables(d) /\ SameVars(d, x) /\ d.buf = x.buf
      /\ d.fds = [x.fds EXCEPT ![l] = x.fds[0]]
      /\ \A e \in Fd : e # l /\ x.fds[e] # Closed => EntryAt(d, e) = EntryAt(x, e)
  BY <1>0, <1>1, <1>2, <1>3, <1>4, DupTables DEF DupedAt
<1>6. t = [d EXCEPT !.save_fd0 = l]  BY <1>2, <1>4 DEF SavedApart
<1>7. t \in Globs /\ t.fds = d.fds /\ t.open = d.open /\ SameUses(t, x) /\ t.save_fd0 = l
  <2>1. d \in Globs  BY <1>5 DEF Tables
  <2>2. l \in -1 .. MaxFd  BY <1>3, Numbers DEF Fd
  <2>3. t \in Globs /\ t.fds = d.fds /\ t.open = d.open /\ t.save_fd0 = l /\ SameUses(t, d)
    BY <1>6, <2>1, <2>2 DEF Globs, SameUses
  <2> QED BY <1>5, <2>3 DEF SameUses, SameVars
<1>8. Tables(t) /\ \A e \in Fd : EntryAt(t, e) = EntryAt(d, e)
  BY <1>5, <1>7, GlobalsTables
<1>9. /\ l \notin Uses(x, FALSE)
      /\ \A fd \in Fd : t.fds[fd] # Closed <=> fd \in Uses(x, FALSE) \cup {l}
      /\ \A fd \in Uses(x, FALSE) : t.fds[fd] = x.fds[fd] /\ FileAt(t, fd) = FileAt(x, fd)
  <2>1. t.fds = [x.fds EXCEPT ![l] = x.fds[0]]  BY <1>5, <1>7
  <2>2. \A e \in Fd : e # l /\ x.fds[e] # Closed => EntryAt(t, e) = EntryAt(x, e)
    BY <1>5, <1>8
  <2>3. PICK v : v = x.fds[0]  OBVIOUS
  <2>4. WithFd(t, x, l, v)  BY <1>1, <1>3, <1>8, <2>1, <2>2, <2>3 DEF WithFd
  <2> QED BY <1>0, <2>4, Added
<1>10. Listed(t) = Listed(x) /\ IncFds(t) = IncFds(x)  BY <1>7 DEF SameUses, Listed, IncFds
<1>11. Uses(t, TRUE) = Uses(x, FALSE) \cup {l}  BY <1>7, <1>10 DEF Uses, SameUses
<1>12. Apart(t, TRUE)
  <2>1. t.save_fd0 \notin {0, 1, 2, t.originp} \cup IncFds(t)
        /\ (Listed(t) => t.save_fd0 # t.origoup)
    BY <1>7, <1>9, <1>10 DEF Uses, SameUses
  <2>2. Apart(x, FALSE)  BY <1>0 DEF Kept
  <2> QED BY <1>3, <1>7, <1>10, <2>1, <2>2 DEF Apart, SameUses
<1>13. Output(t)
  <2>1. {1, 2, x.originp} \subseteq Uses(x, FALSE)
        /\ (Listed(x) => x.origoup \in Uses(x, FALSE))
    BY DEF Uses
  <2>2. Output(x)  BY <1>0 DEF Kept
  <2>3. t.originp = x.originp /\ t.origoup = x.origoup  BY <1>7 DEF SameUses
  <2>4. FileAt(t, x.originp) = FileAt(x, x.originp)  BY <1>9, <2>1
  <2>5. FileAt(t, 1) = FileAt(x, 1) /\ FileAt(t, 2) = FileAt(x, 2)
        /\ t.fds[1] = x.fds[1] /\ t.fds[2] = x.fds[2]
    BY <1>9, <2>1
  <2>6. Listed(x) => t.fds[x.origoup] = x.fds[x.origoup]  BY <1>9, <2>1
  <2> QED BY <1>10, <2>2, <2>3, <2>4, <2>5, <2>6 DEF Output
<1>14. Kept(t, TRUE)
  <2>1. Len(t.inc) <= Depth  BY <1>0, <1>7 DEF SameUses, Kept
  <2> QED BY <1>8, <1>9, <1>11, <1>12, <1>13, <2>1 DEF Kept
<1> QED BY <1>14

(* And the shell's input is read.                                           *)
LEMMA SaveSound ==
  ASSUME NEW x, Sound(x, FALSE), NEW y, y = Save0(x)
  PROVE  Sound(y, TRUE)
<1>1. PICK t : SavedApart(t, x)  BY DEF SavedApart
<1>4. y = ShellInput(t)  BY <1>1 DEF Save0, SavedApart
<1>5. Kept(t, TRUE)  BY <1>1, SavedKept
<1>6. /\ Kept(y, TRUE) /\ SameVars(y, t) /\ y.fds = [t.fds EXCEPT ![0] = t.fds[t.originp]]
  BY <1>4, <1>5, ShellSwitch
<1>7. y.fds[0] = y.fds[y.originp]
  <2>1. y.originp = t.originp  BY <1>6 DEF SameVars
  <2>2. t.fds \in [Fd -> 0 .. MaxOpen] /\ t.originp \in Fd \ {0, 1, 2} /\ 0 \in Fd
    BY <1>5, UsedOpen, Numbers
  <2> QED BY <1>6, <2>1, <2>2
<1> QED BY <1>6, <1>7 DEF Sound

(* The command reads the shell's input too.                                 *)
LEMMA ShellRead ==
  ASSUME NEW x, Kept(x, TRUE), NEW n \in Int,
         NEW y, y = [x EXCEPT !.open[x.fds[x.originp]].pos = n]
  PROVE  Kept(y, TRUE)
<1>1. x \in Globs /\ x.fds[x.originp] \in Opens  BY UsedOpen DEF Uses
<1>2. PICK o \in Opens : o = x.fds[x.originp]  BY <1>1
<1>3. y = [x EXCEPT !.open[o].pos = n]  BY <1>2
<1>4. x.open \in [Opens -> Entry]  BY <1>1, Fields
<1>5. [x.open EXCEPT ![o].pos = n] \in [Opens -> Entry]  BY <1>4 DEF Entry
<1>6. y \in Globs /\ y.fds = x.fds /\ y.open = [x.open EXCEPT ![o].pos = n]
      /\ SameUses(y, x) /\ y.save_fd0 = x.save_fd0
  BY <1>1, <1>3, <1>5 DEF Globs, SameUses
<1>7. \A a \in Opens : y.open[a].file = x.open[a].file  BY <1>4, <1>6 DEF Entry
<1> QED BY <1>6, <1>7, SameKept

(* restore0: the program's input is back and nothing is left of the command. *)
LEMMA RestoreSound ==
  ASSUME NEW x, Kept(x, TRUE), NEW y, y = [Restore0(x) EXCEPT !.save_fd0 = -1]
  PROVE  Sound(y, FALSE)
<1>0. /\ x \in Globs /\ x.fds \in [Fd -> 0 .. MaxOpen] /\ Tables(x)
      /\ x.fds[0] # Closed /\ 0 \in Fd
  BY UsedOpen, Numbers DEF Kept, Uses
<1>1. PICK f : f = x.save_fd0  OBVIOUS
<1>2. /\ f \in Fd \ {0} /\ f \in Uses(x, TRUE) /\ x.fds[f] # Closed /\ x.fds[f] \in Opens
      /\ f \notin {0, 1, 2, x.originp} \cup IncFds(x) /\ (Listed(x) => f # x.origoup)
  <2>1. f \in Uses(x, TRUE)  BY <1>1 DEF Uses
  <2>2. f \in Fd /\ f \notin {0, 1, 2, x.originp} \cup IncFds(x) /\ (Listed(x) => f # x.origoup)
    BY <1>1 DEF Kept, Apart
  <2> QED BY <2>1, <2>2, UsedOpen
<1>3. PICK c : c = Close(x, 0)  OBVIOUS
<1>4. PICK z : z = Clrbuf(c)  OBVIOUS
<1>5. PICK r : r = Dup(z, f)  OBVIOUS
<1>6. PICK k : k = Close(r, f)  OBVIOUS
<1>7. y = [k EXCEPT !.save_fd0 = -1]  BY <1>1, <1>3, <1>4, <1>5, <1>6 DEF Restore0
<1>8. z \in Globs /\ SameVars(z, x)
  <2>1. c \in Globs /\ SameVars(c, x)  BY <1>0, <1>3, CloseTables DEF Tables, ClosedAt
  <2> QED BY <1>4, <2>1, ClrbufReads DEF Reads, SameVars
<1>9. /\ Tables(r) /\ SameVars(r, z)
      /\ r.fds = [x.fds EXCEPT ![0] = x.fds[f]]
      /\ \A e \in Fd : e # 0 /\ x.fds[e] # Closed => EntryAt(r, e) = EntryAt(x, e)
  <2>1. z = Clrbuf(Close(x, 0))  BY <1>3, <1>4
  <2> QED BY <1>0, <1>2, <1>5, <1>8, <2>1, Redup
<1>10. SameUses(r, x) /\ r.save_fd0 = x.save_fd0
  <2>1. SameVars(r, x)  BY <1>8, <1>9 DEF SameVars
  <2> QED BY <2>1, SameVarsUses
<1>11. Kept(r, TRUE)  BY <1>2, <1>9, <1>10, SwitchKept
<1>12. Uses(r, TRUE) = Uses(x, TRUE) /\ Listed(r) = Listed(x) /\ IncFds(r) = IncFds(x)
  BY <1>10 DEF Uses, Listed, IncFds, SameUses
<1>13. /\ Tables(k) /\ SameVars(k, r)
       /\ \A fd \in Fd : k.fds[fd] # Closed <=> fd \in Uses(r, TRUE) \ {f}
       /\ \A fd \in Uses(r, TRUE) \ {f} : k.fds[fd] = r.fds[fd] /\ FileAt(k, fd) = FileAt(r, fd)
  <2>1. f \in Uses(r, TRUE)  BY <1>2, <1>12
  <2>2. WithoutFd(k, r, f, TRUE)  BY <1>6, <1>11, <2>1, Removed
  <2> QED BY <2>2 DEF WithoutFd
<1>14. /\ y \in Globs /\ y.fds = k.fds /\ y.open = k.open /\ SameUses(y, r)
  <2>1. k \in Globs /\ -1 \in -1 .. MaxFd  BY <1>13, Numbers DEF Tables
  <2>2. y \in Globs /\ y.fds = k.fds /\ y.open = k.open /\ SameUses(y, k)
    BY <1>7, <2>1 DEF Globs, SameUses
  <2> QED BY <1>13, <2>2 DEF SameUses, SameVars
<1>15. Tables(y) /\ \A fd : FileAt(y, fd) = FileAt(k, fd)
  BY <1>13, <1>14, GlobalsTables
<1>16. Listed(y) = Listed(x) /\ IncFds(y) = IncFds(x) /\ y.originp = x.originp
       /\ y.origoup = x.origoup
  BY <1>10, <1>14 DEF SameUses, Listed, IncFds
<1>17. Uses(y, FALSE) = Uses(r, TRUE) \ {f}
  BY <1>1, <1>2, <1>12, <1>16 DEF Uses
<1>18. Apart(y, FALSE)
  <2>1. y.inc = r.inc /\ y.originp = r.originp /\ y.origoup = r.origoup
        /\ Listed(y) = Listed(r) /\ IncFds(y) = IncFds(r)
    BY <1>12, <1>14, <1>16 DEF SameUses
  <2> QED BY <1>11, <2>1 DEF Apart, Kept
<1>19. Output(y)
  <2>1. /\ {1, 2, r.originp} \subseteq Uses(r, TRUE) \ {f}
        /\ (Listed(r) => r.origoup \in Uses(r, TRUE) \ {f})
    BY <1>2, <1>10, <1>12 DEF Uses, SameUses
  <2>2. Output(r)  BY <1>11 DEF Kept
  <2>3. Listed(y) = Listed(r) /\ y.originp = r.originp /\ y.origoup = r.origoup
    BY <1>12, <1>14, <1>16 DEF SameUses
  <2>4. FileAt(y, r.originp) = FileAt(r, r.originp)  BY <1>13, <1>15, <2>1
  <2>5. FileAt(y, 1) = FileAt(r, 1) /\ FileAt(y, 2) = FileAt(r, 2)
        /\ y.fds[1] = r.fds[1] /\ y.fds[2] = r.fds[2]
    BY <1>13, <1>14, <1>15, <2>1
  <2>6. Listed(r) => y.fds[r.origoup] = r.fds[r.origoup]  BY <1>13, <1>14, <2>1
  <2> QED BY <2>2, <2>3, <2>4, <2>5, <2>6 DEF Output
<1>20. Len(y.inc) <= Depth  BY <1>11, <1>14 DEF SameUses, Kept
<1>21. \A fd \in Fd : y.fds[fd] # Closed <=> fd \in Uses(y, FALSE)
  BY <1>13, <1>14, <1>17
<1> QED BY <1>15, <1>18, <1>19, <1>20, <1>21 DEF Kept, Sound

-----------------------------------------------------------------------------
(* Includes.                                                                *)

(* What an include leaves alone.                                            *)
SameRest(y, x) ==
  /\ y.originp = x.originp /\ y.save_fd0 = x.save_fd0
  /\ y.curfile = x.curfile /\ y.inpcnt = x.inpcnt /\ y.cmdcnt = x.cmdcnt
  /\ y.readshell0 = x.readshell0 /\ y.executing = x.executing
  /\ y.first_record = x.first_record /\ y.provide_name = x.provide_name
  /\ y.oupState = x.oupState /\ y.origoup = x.origoup /\ y.errflag = x.errflag

(* The includes that are open.                                              *)
Suspensions == Seq([fd : Fd, pos : Int])

(* One change of that list.                                                 *)
IncChanged(y, x, q) ==
  /\ Tables(y) /\ y.fds = x.fds /\ y.open = x.open /\ y.buf = x.buf /\ y.inc = q
  /\ SameRest(y, x)
  /\ \A fd : EntryAt(y, fd) = EntryAt(x, fd) /\ FileAt(y, fd) = FileAt(x, fd)

(* It changes nothing else.                                                 *)
LEMMA IncChange ==
  ASSUME NEW x, Tables(x), NEW q \in Suspensions, NEW y, y = [x EXCEPT !.inc = q]
  PROVE  IncChanged(y, x, q)
<1>1. x \in Globs  BY DEF Tables
<1>2. y \in Globs /\ y.fds = x.fds /\ y.open = x.open /\ y.buf = x.buf /\ y.inc = q
      /\ SameRest(y, x)
  BY <1>1 DEF Globs, SameRest, Suspensions
<1> QED BY <1>2, GlobalsTables DEF IncChanged

(* One change of the answer.                                                *)
LEMMA RetChange ==
  ASSUME NEW x, Tables(x), NEW r \in {"none", "file", "eof", "exit"}, NEW y, y = [x EXCEPT !.ret = r]
  PROVE  /\ Tables(y) /\ y.fds = x.fds /\ y.open = x.open /\ y.buf = x.buf /\ y.inc = x.inc
         /\ SameRest(y, x) /\ y.ret = r /\ SameUses(y, x)
         /\ \A fd : EntryAt(y, fd) = EntryAt(x, fd) /\ FileAt(y, fd) = FileAt(x, fd)
<1>1. x \in Globs  BY DEF Tables
<1>2. y \in Globs /\ y.fds = x.fds /\ y.open = x.open /\ y.buf = x.buf /\ y.inc = x.inc
      /\ SameRest(y, x) /\ y.ret = r
  BY <1>1 DEF Globs, SameRest
<1> QED BY <1>2, GlobalsTables DEF SameUses, SameRest

(* openprev: the file suspended last is back on descriptor 0.               *)
PrevOpened(y, x, f) ==
  /\ Tables(y) /\ y.inc = SubSeq(x.inc, 1, Len(x.inc) - 1) /\ SameRest(y, x)
  /\ y.fds[0] = x.fds[f] /\ y.fds[f] = Closed
  /\ FileAt(y, 0) = FileAt(x, f)
  /\ \A e \in Fd : e # 0 /\ e # f => y.fds[e] = x.fds[e]
  /\ \A e \in Fd : e # 0 /\ e # f /\ x.fds[e] # Closed => FileAt(y, e) = FileAt(x, e)

(* openprev on a closed descriptor 0.                                       *)
LEMMA PrevTables ==
  ASSUME NEW x, Tables(x), x.inc # <<>>, x.fds[0] = Closed,
         NEW f \in Fd \ {0}, f = x.inc[Len(x.inc)].fd, x.fds[f] # Closed,
         NEW y, y = OpenPrev(x)
  PROVE  PrevOpened(y, x, f)
<1>0. x \in Globs /\ x.fds \in [Fd -> 0 .. MaxOpen] /\ x.inc \in Suspensions /\ 0 \in Fd
  BY Numbers DEF Tables, Globs, Suspensions
<1>1. PICK n : n = Len(x.inc)  OBVIOUS
<1>2. PICK q : q = SubSeq(x.inc, 1, n - 1)  OBVIOUS
<1>3. n \in Nat /\ n > 0 /\ x.inc[n] \in [fd : Fd, pos : Int]
  <2>1. n \in Nat /\ n > 0  BY <1>0, <1>1 DEF Suspensions
  <2>2. n \in 1 .. Len(x.inc)  BY <1>1, <2>1
  <2> QED BY <1>0, <2>1, <2>2, ElementOfSeq DEF Suspensions
<1>4. PICK p \in Int : p = x.inc[n].pos  BY <1>3
<1>5. q \in Suspensions
  <2>1. 1 \in 1 .. Len(x.inc) + 1 /\ n - 1 \in 1 - 1 .. Len(x.inc)  BY <1>1, <1>3
  <2>2. SubSeq(x.inc, 1, n - 1) \in Seq([fd : Fd, pos : Int])
    <3>1. \A i \in 1 .. n - 1 : x.inc[i] \in [fd : Fd, pos : Int]
      <4> TAKE i \in 1 .. n - 1
      <4>1. i \in 1 .. Len(x.inc)  BY <1>1, <1>3
      <4> QED BY <1>0, <4>1, ElementOfSeq DEF Suspensions
    <3>2. 1 \in Int /\ n - 1 \in Int  BY <1>3
    <3> QED BY <3>1, <3>2, SubSeqProperties
  <2> QED BY <1>2, <2>2 DEF Suspensions
<1>6. PICK t : t = [x EXCEPT !.inc = q]  OBVIOUS
<1>7. /\ Tables(t) /\ t.fds = x.fds /\ t.inc = q /\ SameRest(t, x)
      /\ \A fd : EntryAt(t, fd) = EntryAt(x, fd) /\ FileAt(t, fd) = FileAt(x, fd)
  BY <1>5, <1>6, IncChange DEF IncChanged
<1>8. LowestFree(t) = 0
  <2>1. LowestFree(t) \in Fd /\ LowestFree(t) <= 0  BY <1>0, <1>7, Lowest
  <2> QED BY <2>1, Numbers DEF Fd
<1>9. PICK r : r = Dup(t, f)  OBVIOUS
<1>10. /\ Tables(r) /\ SameVars(r, t)
       /\ r.fds = [t.fds EXCEPT ![0] = t.fds[f]]
       /\ \A e \in Fd : e # 0 /\ t.fds[e] # Closed => EntryAt(r, e) = EntryAt(t, e)
       /\ EntryAt(r, 0) = EntryAt(t, f)
  <2>1. PICK l : l = LowestFree(t)  OBVIOUS
  <2>2. l \in Fd /\ t.fds[l] = Closed /\ l = 0 /\ t.fds[f] # Closed /\ f \in Fd /\ Tables(t)
    BY <1>0, <1>7, <1>8, <2>1
  <2>3. DupedAt(r, t, l, f)  BY <1>9, <2>1, <2>2, DupTables
  <2> QED BY <2>2, <2>3 DEF DupedAt
<1>11. PICK k : k = Close(r, f)  OBVIOUS
<1>12. r.fds[f] = x.fds[f] /\ r.fds[0] = x.fds[f] /\ (\A e \in Fd : e # 0 => r.fds[e] = x.fds[e])
  BY <1>0, <1>7, <1>10
<1>13. /\ Tables(k) /\ SameVars(k, r)
       /\ k.fds = [r.fds EXCEPT ![f] = Closed]
       /\ \A e \in Fd : e # f /\ r.fds[e] # Closed => EntryAt(k, e) = EntryAt(r, e)
  <2>1. Tables(r) /\ f \in Fd /\ r.fds[f] # Closed  BY <1>10, <1>12
  <2>2. ClosedAt(k, r, f)  BY <1>11, <2>1, CloseTables
  <2> QED BY <2>2 DEF ClosedAt
<1>14. k.fds[0] = x.fds[f] /\ k.fds[f] = Closed
       /\ \A e \in Fd : e # 0 /\ e # f => k.fds[e] = x.fds[e]
  <2>1. r.fds \in [Fd -> 0 .. MaxOpen]  BY <1>10 DEF Tables, Globs
  <2> QED BY <1>0, <1>12, <1>13, <2>1
<1>15. PICK c : c = Clrbuf(k)  OBVIOUS
<1>16. k \in Globs /\ Reads(c, k) /\ c \in Globs /\ c.fds = k.fds
  <2>1. k \in Globs  BY <1>13 DEF Tables
  <2> QED BY <1>15, <2>1, ClrbufReads DEF Reads
<1>17. y = SetTo(c, p)
  <2>1. t = [x EXCEPT !.inc = SubSeq(@, 1, Len(@) - 1)]  BY <1>1, <1>2, <1>6
  <2> QED BY <1>1, <1>4, <1>9, <1>11, <1>15, <2>1 DEF OpenPrev, Nesting
<1>18. Reads(y, k)
  <2>1. c.fds[0] # Closed  BY <1>14, <1>16
  <2>2. Reads(y, c)  BY <1>16, <1>17, <2>1, SetToReads
  <2> QED BY <1>16, <2>2, ReadsCompose
<1>19. /\ Tables(y) /\ y.fds = k.fds /\ SameVars(y, k)
       /\ \A fd : FileAt(y, fd) = FileAt(k, fd)
  BY <1>13, <1>18, ReadsTables, ReadsFiles DEF Reads
<1>20. y.inc = SubSeq(x.inc, 1, Len(x.inc) - 1) /\ SameRest(y, x)
  BY <1>1, <1>2, <1>7, <1>10, <1>13, <1>19 DEF SameVars, SameRest
<1>21. ASSUME NEW e \in Fd, e # 0, e # f, x.fds[e] # Closed
       PROVE  FileAt(y, e) = FileAt(x, e)
  <2>1. r.fds[e] # Closed /\ t.fds[e] # Closed /\ k.fds[e] # Closed
    BY <1>7, <1>12, <1>14, <1>21
  <2>2. EntryAt(k, e) = EntryAt(x, e)  BY <1>7, <1>10, <1>13, <1>21, <2>1
  <2>3. FileAt(k, e) = EntryAt(k, e).file /\ FileAt(x, e) = EntryAt(x, e).file
    BY <1>0, <1>16, <1>21, <2>1, Fields
  <2> QED BY <1>19, <2>2, <2>3
<1>22. FileAt(y, 0) = FileAt(x, f)
  <2>1. EntryAt(k, 0) = EntryAt(x, f)
    <3>1. r.fds[0] # Closed  BY <1>12
    <3> QED BY <1>0, <1>7, <1>10, <1>13, <3>1
  <2>2. k.fds[0] # Closed  BY <1>14
  <2>3. FileAt(k, 0) = EntryAt(k, 0).file /\ FileAt(x, f) = EntryAt(x, f).file
    BY <1>0, <1>16, <2>2, Fields
  <2> QED BY <1>19, <2>1, <2>3
<1> QED BY <1>14, <1>19, <1>20, <1>21, <1>22 DEF PrevOpened

(* The file on descriptor 0 suspended: it is on l instead.                  *)
SuspendedAt(u, x, l, p) ==
  /\ l \in Fd \ {0} /\ l \notin Uses(x, FALSE) /\ x.fds[l] = Closed
  /\ Tables(u) /\ u.inc = Append(x.inc, [fd |-> l, pos |-> p]) /\ SameRest(u, x)
  /\ u.fds[0] = Closed /\ u.fds[l] = x.fds[0] /\ FileAt(u, l) = FileAt(x, 0)
  /\ \A e \in Fd : e # 0 /\ e # l => u.fds[e] = x.fds[e]
  /\ \A e \in Uses(x, FALSE) : e # 0 => FileAt(u, e) = FileAt(x, e)

(* zysif suspends it before it looks for the include.                       *)
LEMMA SuspendTables ==
  ASSUME NEW x, Kept(x, FALSE), NEW l, l = LowestFree(x), NEW p \in Int,
         NEW t, t = [x EXCEPT !.inc = Append(@, [fd |-> l, pos |-> p])],
         NEW u, u = Clrbuf(Close(Dup(t, 0), 0))
  PROVE  SuspendedAt(u, x, l, p)
<1>0. /\ x \in Globs /\ Tables(x) /\ x.fds \in [Fd -> 0 .. MaxOpen] /\ x.inc \in Suspensions
      /\ 0 \in Fd /\ x.fds[0] # Closed /\ 0 \in Uses(x, FALSE)
  BY UsedOpen, Numbers DEF Kept, Uses, Suspensions
<1>1. l \in Fd /\ x.fds[l] = Closed
  <2>1. Len(x.inc) <= Depth  BY DEF Kept
  <2>2. \A fd \in Fd : x.fds[fd] # Closed =>
          fd \in {0, 1, 2, x.originp, x.origoup, 0} \cup IncFds(x)
    BY DEF Kept, Uses
  <2> QED BY <1>0, <2>1, <2>2, FreeFd
<1>2. l # 0 /\ l \notin Uses(x, FALSE)  BY <1>0, <1>1 DEF Kept
<1>3. PICK q : q = Append(x.inc, [fd |-> l, pos |-> p])  OBVIOUS
<1>4. q \in Suspensions
  <2>1. [fd |-> l, pos |-> p] \in [fd : Fd, pos : Int]  BY <1>1
  <2> QED BY <1>0, <1>3, <2>1, AppendProperties DEF Suspensions
<1>5. /\ Tables(t) /\ t.fds = x.fds /\ t.inc = q /\ SameRest(t, x)
      /\ \A fd : EntryAt(t, fd) = EntryAt(x, fd)
  <2>1. t = [x EXCEPT !.inc = q]  BY <1>3
  <2>2. IncChanged(t, x, q)  BY <1>0, <1>4, <2>1, IncChange
  <2> QED BY <2>2 DEF IncChanged
<1>6. LowestFree(t) = l  BY <1>5 DEF LowestFree
<1>7. PICK r : r = Dup(t, 0)  OBVIOUS
<1>8. DupedAt(r, t, l, 0)
  <2>1. t.fds[l] = Closed /\ t.fds[0] # Closed  BY <1>0, <1>1, <1>5
  <2> QED BY <1>0, <1>1, <1>5, <1>6, <1>7, <2>1, DupTables
<1>9. /\ Tables(r) /\ SameVars(r, t) /\ EntryAt(r, l) = EntryAt(x, 0) /\ r.fds[l] = x.fds[0]
      /\ \A e \in Fd : e # l => r.fds[e] = x.fds[e]
      /\ \A e \in Fd : e # l /\ x.fds[e] # Closed => EntryAt(r, e) = EntryAt(x, e)
  BY <1>0, <1>1, <1>5, <1>8 DEF DupedAt
<1>10. PICK k : k = Close(r, 0)  OBVIOUS
<1>11. r.fds[0] # Closed /\ r.fds \in [Fd -> 0 .. MaxOpen]
  BY <1>0, <1>2, <1>9 DEF Tables, Globs
<1>12. ClosedAt(k, r, 0)  BY <1>0, <1>9, <1>10, <1>11, CloseTables
<1>13. /\ Tables(k) /\ SameVars(k, r) /\ k.fds[0] = Closed /\ k.fds[l] = x.fds[0]
       /\ \A e \in Fd : e # 0 /\ e # l => k.fds[e] = x.fds[e]
  BY <1>0, <1>1, <1>2, <1>9, <1>11, <1>12 DEF ClosedAt
<1>14. EntryAt(k, l) = EntryAt(x, 0)
  <2>1. r.fds[l] # Closed  BY <1>0, <1>9
  <2> QED BY <1>1, <1>2, <1>9, <1>12, <2>1 DEF ClosedAt
<1>15. ASSUME NEW e \in Uses(x, FALSE), e # 0 PROVE EntryAt(k, e) = EntryAt(x, e)
  <2>1. e \in Fd /\ e # l /\ x.fds[e] # Closed  BY <1>2, <1>15, UsedOpen
  <2>2. r.fds[e] # Closed /\ EntryAt(r, e) = EntryAt(x, e)  BY <1>9, <2>1
  <2> QED BY <1>12, <1>15, <2>1, <2>2 DEF ClosedAt
<1>16. Reads(u, k)
  <2>1. k \in Globs  BY <1>13 DEF Tables
  <2> QED BY <1>7, <1>10, <2>1, ClrbufReads
<1>17. /\ Tables(u) /\ u.fds = k.fds /\ SameVars(u, k)
       /\ \A fd : FileAt(u, fd) = FileAt(k, fd)
  <2>1. Tables(k)  BY <1>13
  <2>2. Tables(u)  BY <1>16, <2>1, ReadsTables
  <2>3. \A fd : FileAt(u, fd) = FileAt(k, fd)  BY <1>16, <2>1, ReadsFiles
  <2> QED BY <1>16, <2>2, <2>3 DEF Reads
<1>18. u.inc = q /\ SameRest(u, x)
  BY <1>5, <1>9, <1>13, <1>17 DEF SameVars, SameRest
<1>19. k \in Globs  BY <1>13 DEF Tables
<1>20. FileAt(u, l) = FileAt(x, 0)
  <2>1. k.fds[l] # Closed  BY <1>0, <1>13
  <2>2. FileAt(k, l) = EntryAt(k, l).file /\ FileAt(x, 0) = EntryAt(x, 0).file
    BY <1>0, <1>1, <1>19, <2>1, Fields
  <2> QED BY <1>14, <1>17, <2>2
<1>21. ASSUME NEW e \in Uses(x, FALSE), e # 0 PROVE FileAt(u, e) = FileAt(x, e)
  <2>1. e \in Fd /\ e # l /\ x.fds[e] # Closed  BY <1>2, <1>21, UsedOpen
  <2>2. k.fds[e] # Closed  BY <1>13, <1>21, <2>1
  <2>3. FileAt(k, e) = EntryAt(k, e).file /\ FileAt(x, e) = EntryAt(x, e).file
    BY <1>0, <1>19, <2>1, <2>2, Fields
  <2> QED BY <1>15, <1>17, <1>21, <2>3
<1>22. u.fds[0] = Closed /\ u.fds[l] = x.fds[0]
       /\ \A e \in Fd : e # 0 /\ e # l => u.fds[e] = x.fds[e]
  BY <1>13, <1>17
<1> QED BY <1>1, <1>2, <1>3, <1>17, <1>18, <1>20, <1>21, <1>22 DEF SuspendedAt

(* One list is another without its last.                                    *)
IsFront(r, q) ==
  /\ Len(q) \in Nat \ {0} /\ DOMAIN q = 1 .. Len(q)
  /\ r \in Suspensions /\ Len(r) = Len(q) - 1 /\ DOMAIN r = 1 .. Len(q) - 1
  /\ \A i \in 1 .. Len(q) - 1 : r[i] = q[i]

(* The list without its last.                                               *)
LEMMA FrontOf ==
  ASSUME NEW q \in Suspensions, q # <<>>, NEW r, r = SubSeq(q, 1, Len(q) - 1)
  PROVE  IsFront(r, q)
<1> DEFINE S == [fd : Fd, pos : Int]
<1>1. q \in Seq(S)  BY DEF Suspensions
<1>2. PICK n : n = Len(q)  OBVIOUS
<1>3. n \in Nat \ {0} /\ DOMAIN q = 1 .. n  BY <1>1, <1>2, EmptySeq, LenProperties
<1>4. \A i \in 1 .. n - 1 : q[i] \in S
  <2> TAKE i \in 1 .. n - 1
  <2>1. i \in 1 .. Len(q)  BY <1>2, <1>3
  <2> QED BY <1>1, <2>1, ElementOfSeq
<1> HIDE DEF S
<1>5. /\ r \in Seq(S) /\ Len(r) = n - 1 /\ \A i \in 1 .. n - 1 : r[i] = q[i]
  <2>1. 1 \in Int /\ n - 1 \in Int /\ r = SubSeq(q, 1, n - 1)  BY <1>2, <1>3
  <2>2. /\ SubSeq(q, 1, n - 1) \in Seq(S)
        /\ Len(SubSeq(q, 1, n - 1)) = IF 1 <= n - 1 THEN (n - 1) - 1 + 1 ELSE 0
        /\ \A i \in 1 .. (n - 1) - 1 + 1 : SubSeq(q, 1, n - 1)[i] = q[1 + i - 1]
    BY <1>4, <2>1, SubSeqProperties
  <2>3. (n - 1) - 1 + 1 = n - 1 /\ Len(r) = n - 1  BY <1>3, <2>1, <2>2
  <2>4. ASSUME NEW i \in 1 .. n - 1 PROVE r[i] = q[i]
    <3>1. 1 + i - 1 = i /\ i \in 1 .. (n - 1) - 1 + 1  BY <1>3, <2>3
    <3>2. SubSeq(q, 1, n - 1)[i] = q[1 + i - 1]  BY <2>2, <3>1
    <3> QED BY <2>1, <3>1, <3>2
  <2> QED BY <2>1, <2>2, <2>3, <2>4
<1>6. DOMAIN r = 1 .. n - 1  BY <1>5, LenProperties
<1> QED BY <1>2, <1>3, <1>5, <1>6 DEF S, Suspensions, IsFront

(* One more, and then without it.                                           *)
LEMMA FrontOfAppend ==
  ASSUME NEW q \in Suspensions, NEW e \in [fd : Fd, pos : Int], NEW r, r = Append(q, e)
  PROVE  /\ r \in Suspensions /\ r # <<>> /\ Len(q) \in Nat /\ Len(r) = Len(q) + 1
         /\ DOMAIN q = 1 .. Len(q) /\ DOMAIN r = 1 .. Len(q) + 1
         /\ r[Len(q) + 1] = e /\ \A i \in 1 .. Len(q) : r[i] = q[i]
         /\ SubSeq(r, 1, Len(r) - 1) = q
<1>1. /\ r \in Suspensions /\ Len(q) \in Nat /\ Len(r) = Len(q) + 1
      /\ r[Len(q) + 1] = e /\ \A i \in 1 .. Len(q) : r[i] = q[i]
  BY AppendProperties, LenProperties DEF Suspensions
<1>2. r # <<>>  BY <1>1, EmptySeq
<1>3. DOMAIN q = 1 .. Len(q) /\ DOMAIN r = 1 .. Len(q) + 1
  BY <1>1, LenProperties DEF Suspensions
<1>4. PICK f : f = SubSeq(r, 1, Len(r) - 1)  OBVIOUS
<1>5. /\ f \in Suspensions /\ Len(f) = Len(r) - 1
      /\ \A i \in 1 .. Len(r) - 1 : f[i] = r[i]
  <2>1. IsFront(f, r)  BY <1>1, <1>2, <1>4, FrontOf
  <2> QED BY <2>1 DEF IsFront
<1>6. f = q
  <2>1. Len(r) - 1 = Len(q)  BY <1>1
  <2>2. Len(f) = Len(q) /\ \A i \in 1 .. Len(f) : f[i] = q[i]  BY <1>1, <1>5, <2>1
  <2> QED BY <1>5, <2>2, SeqEqual DEF Suspensions
<1> QED BY <1>1, <1>2, <1>3, <1>4, <1>6

(* The descriptors are as before and so are the files in use.               *)
LEMMA SameFilesKept ==
  ASSUME NEW x, Kept(x, FALSE), NEW y, Tables(y), y.fds = x.fds, SameUses(y, x),
         \A fd \in Uses(x, FALSE) : FileAt(y, fd) = FileAt(x, fd)
  PROVE  Kept(y, FALSE)
<1>1. /\ y.inc = x.inc /\ y.originp = x.originp /\ y.origoup = x.origoup
      /\ Listed(y) = Listed(x) /\ IncFds(y) = IncFds(x)
  BY DEF SameUses, Listed, IncFds
<1>2. Apart(y, FALSE)  BY <1>1 DEF Kept, Apart
<1>3. Uses(y, FALSE) = Uses(x, FALSE)  BY <1>1 DEF Uses
<1>4. Output(y)
  <2>1. {1, 2, x.originp} \subseteq Uses(x, FALSE)  BY DEF Uses
  <2>2. FileAt(y, 1) = FileAt(x, 1) /\ FileAt(y, 2) = FileAt(x, 2)
        /\ FileAt(y, x.originp) = FileAt(x, x.originp)
    BY <2>1
  <2> QED BY <1>1, <2>2 DEF Kept, Output
<1> QED BY <1>1, <1>2, <1>3, <1>4 DEF Kept

(* The file that the first include has suspended, or the one being read.    *)
Bottom(x) == FileAt(x, IF x.inc = <<>> THEN 0 ELSE x.inc[1].fd)

(* What an include, begun, refused or ended, keeps.                         *)
IncludeKept(y, x) == Kept(y, FALSE) /\ SameRest(y, x) /\ Bottom(y) = Bottom(x)

(* The descriptor of the file suspended first is in use.                    *)
LEMMA BottomUsed ==
  ASSUME NEW x, Kept(x, FALSE)
  PROVE  /\ x.inc # <<>> => 1 \in DOMAIN x.inc /\ x.inc[1].fd \in Uses(x, FALSE) \ {0}
         /\ (IF x.inc = <<>> THEN 0 ELSE x.inc[1].fd) \in Uses(x, FALSE)
<1>1. x.inc \in Suspensions  BY UsedOpen DEF Suspensions
<1>2. ASSUME x.inc # <<>> PROVE 1 \in DOMAIN x.inc /\ x.inc[1].fd \in Uses(x, FALSE) \ {0}
  <2>1. 1 \in DOMAIN x.inc
    <3>1. PICK r : r = SubSeq(x.inc, 1, Len(x.inc) - 1)  OBVIOUS
    <3>2. Len(x.inc) \in Nat \ {0} /\ DOMAIN x.inc = 1 .. Len(x.inc)
      BY <1>1, <1>2, <3>1, FrontOf DEF IsFront
    <3> QED BY <3>2
  <2>2. x.inc[1].fd \in Uses(x, FALSE)  BY <2>1 DEF Uses, IncFds
  <2>3. x.inc[1].fd # 0  BY <2>1 DEF Kept, Apart
  <2> QED BY <2>1, <2>2, <2>3
<1> QED BY <1>2 DEF Uses

(* An include that is not found: the file suspended is read on.             *)
LEMMA PushRefused ==
  ASSUME NEW x, Kept(x, FALSE), NEW l, NEW p \in Int, NEW u, SuspendedAt(u, x, l, p),
         NEW y, y = OpenPrev(u)
  PROVE  IncludeKept(y, x)
<1>0. /\ x \in Globs /\ x.fds \in [Fd -> 0 .. MaxOpen] /\ x.inc \in Suspensions
      /\ Uses(x, FALSE) \subseteq Fd /\ 0 \in Fd
      /\ \A fd \in Uses(x, FALSE) : x.fds[fd] # Closed
  BY UsedOpen, Numbers DEF Suspensions
<1>1. /\ l \in Fd \ {0} /\ l \notin Uses(x, FALSE) /\ x.fds[l] = Closed
      /\ Tables(u) /\ u.inc = Append(x.inc, [fd |-> l, pos |-> p]) /\ SameRest(u, x)
      /\ u.fds[0] = Closed /\ u.fds[l] = x.fds[0] /\ FileAt(u, l) = FileAt(x, 0)
      /\ \A e \in Fd : e # 0 /\ e # l => u.fds[e] = x.fds[e]
      /\ \A e \in Uses(x, FALSE) : e # 0 => FileAt(u, e) = FileAt(x, e)
  BY DEF SuspendedAt
<1>2. /\ u.inc # <<>> /\ u.inc[Len(u.inc)].fd = l /\ SubSeq(u.inc, 1, Len(u.inc) - 1) = x.inc
  <2>1. PICK e : e = [fd |-> l, pos |-> p]  OBVIOUS
  <2>2. e \in [fd : Fd, pos : Int] /\ e.fd = l /\ u.inc = Append(x.inc, e)  BY <1>1, <2>1
  <2>3. PICK r : r = Append(x.inc, e)  OBVIOUS
  <2>4. /\ r # <<>> /\ Len(r) = Len(x.inc) + 1 /\ r[Len(x.inc) + 1] = e
        /\ SubSeq(r, 1, Len(r) - 1) = x.inc
    BY <1>0, <2>2, <2>3, FrontOfAppend
  <2> QED BY <2>2, <2>3, <2>4
<1>3. u.fds[l] # Closed  BY <1>0, <1>1 DEF Uses
<1>4. PrevOpened(y, u, l)  BY <1>1, <1>2, <1>3, PrevTables
<1>5. /\ Tables(y) /\ y.inc = x.inc /\ SameRest(y, x)
      /\ y.fds[0] = x.fds[0] /\ y.fds[l] = x.fds[l] /\ FileAt(y, 0) = FileAt(x, 0)
      /\ \A e \in Fd : e # 0 /\ e # l => y.fds[e] = x.fds[e]
  BY <1>1, <1>2, <1>4 DEF PrevOpened, SameRest
<1>6. y.fds = x.fds
  <2>1. y.fds \in [Fd -> 0 .. MaxOpen]  BY <1>5 DEF Tables, Globs
  <2>2. \A e \in Fd : y.fds[e] = x.fds[e]  BY <1>5
  <2> QED BY <1>0, <2>1, <2>2
<1>7. ASSUME NEW e \in Uses(x, FALSE) PROVE FileAt(y, e) = FileAt(x, e)
  <2>1. CASE e = 0  BY <1>5, <2>1
  <2>2. CASE e # 0
    <3>1. e \in Fd /\ e # l /\ u.fds[e] # Closed  BY <1>0, <1>1, <1>7, <2>2
    <3>2. FileAt(y, e) = FileAt(u, e)  BY <1>4, <2>2, <3>1 DEF PrevOpened
    <3> QED BY <1>1, <1>7, <2>2, <3>2
  <2> QED BY <2>1, <2>2
<1>8. SameUses(y, x)  BY <1>5 DEF SameRest, SameUses
<1>9. Kept(y, FALSE)  BY <1>5, <1>6, <1>7, <1>8, SameFilesKept
<1>10. Bottom(y) = Bottom(x)
  <2>1. PICK b : b = IF x.inc = <<>> THEN 0 ELSE x.inc[1].fd  OBVIOUS
  <2>2. b \in Uses(x, FALSE)  BY <2>1, BottomUsed
  <2>3. Bottom(y) = FileAt(y, b) /\ Bottom(x) = FileAt(x, b)  BY <1>5, <2>1 DEF Bottom
  <2> QED BY <1>7, <2>2, <2>3
<1> QED BY <1>5, <1>9, <1>10 DEF IncludeKept

(* An include that is found is read from its start.                         *)
LEMMA PushOpens ==
  ASSUME NEW x, Kept(x, FALSE), Len(x.inc) < Depth, NEW l, NEW p \in Int,
         NEW u, SuspendedAt(u, x, l, p), NEW f \in FileSet \ {NoFile}, NEW y, y = OpenFile(u, f)
  PROVE  IncludeKept(y, x)
<1>0. /\ x \in Globs /\ x.fds \in [Fd -> 0 .. MaxOpen] /\ x.inc \in Suspensions
      /\ Uses(x, FALSE) \subseteq Fd /\ 0 \in Fd /\ x.originp \in Fd \ {0, 1, 2}
      /\ (\A fd \in Uses(x, FALSE) : x.fds[fd] # Closed) /\ Apart(x, FALSE) /\ Output(x)
      /\ x.origoup \in Fd
  BY UsedOpen, Numbers DEF Suspensions, Kept, Globs
<1>1. /\ l \in Fd \ {0} /\ l \notin Uses(x, FALSE) /\ x.fds[l] = Closed
      /\ Tables(u) /\ u.inc = Append(x.inc, [fd |-> l, pos |-> p]) /\ SameRest(u, x)
      /\ u.fds[0] = Closed /\ u.fds[l] = x.fds[0] /\ FileAt(u, l) = FileAt(x, 0)
      /\ \A e \in Fd : e # 0 /\ e # l => u.fds[e] = x.fds[e]
      /\ \A e \in Uses(x, FALSE) : e # 0 => FileAt(u, e) = FileAt(x, e)
  BY DEF SuspendedAt
<1>2. PICK n : n = Len(x.inc)  OBVIOUS
<1>3. /\ n \in Nat /\ n < Depth /\ Len(u.inc) = n + 1
      /\ DOMAIN x.inc = 1 .. n /\ DOMAIN u.inc = 1 .. n + 1
      /\ u.inc[n + 1].fd = l /\ \A i \in 1 .. n : u.inc[i] = x.inc[i]
  <2>1. PICK e : e = [fd |-> l, pos |-> p]  OBVIOUS
  <2>2. e \in [fd : Fd, pos : Int] /\ e.fd = l /\ u.inc = Append(x.inc, e)  BY <1>1, <2>1
  <2>3. /\ Len(x.inc) \in Nat /\ Len(u.inc) = Len(x.inc) + 1 /\ u.inc[Len(x.inc) + 1] = e
        /\ DOMAIN x.inc = 1 .. Len(x.inc) /\ DOMAIN u.inc = 1 .. Len(x.inc) + 1
        /\ \A i \in 1 .. Len(x.inc) : u.inc[i] = x.inc[i]
    BY <1>0, <2>2, FrontOfAppend
  <2> QED BY <1>2, <2>2, <2>3
<1>4. IncFds(u) = IncFds(x) \cup {l}
  <2>1. ASSUME NEW i \in DOMAIN u.inc PROVE u.inc[i].fd \in IncFds(x) \cup {l}
    <3>1. i \in 1 .. n \/ i = n + 1  BY <1>3, <2>1
    <3> QED BY <1>3, <3>1 DEF IncFds
  <2>2. \A i \in DOMAIN x.inc : \E j \in DOMAIN u.inc : x.inc[i].fd = u.inc[j].fd  BY <1>3
  <2>3. n + 1 \in DOMAIN u.inc /\ u.inc[n + 1].fd = l  BY <1>3
  <2> QED BY <2>1, <2>2, <2>3 DEF IncFds
<1>5. LowestFree(u) = 0
  <2>1. u.fds \in [Fd -> 0 .. MaxOpen]  BY <1>1 DEF Tables, Globs
  <2>2. LowestFree(u) \in Fd /\ LowestFree(u) <= 0  BY <1>0, <1>1, <2>1, Lowest
  <2> QED BY <2>2, Numbers DEF Fd
<1>6. \E o \in Opens : u.open[o].file = NoFile
  <2>1. PICK a, b, c : a = x.fds[1] /\ b = x.fds[2] /\ c = x.fds[x.originp]  OBVIOUS
  <2>2. Len(u.inc) <= Depth  BY <1>3, Numbers
  <2>3. ASSUME NEW fd \in Fd, u.fds[fd] # Closed
        PROVE  u.fds[fd] \in {a, b, c} \cup {u.fds[u.inc[i].fd] : i \in DOMAIN u.inc}
    <3>1. CASE fd = l
      <4>1. n + 1 \in DOMAIN u.inc /\ u.inc[n + 1].fd = fd  BY <1>3, <3>1
      <4> QED BY <4>1
    <3>2. CASE fd # l
      <4>1. fd # 0 /\ u.fds[fd] = x.fds[fd] /\ fd \in Uses(x, FALSE)
        BY <1>1, <2>3, <3>2 DEF Kept
      <4>2. fd \in {1, 2, x.originp} \cup IncFds(x) \/ (Listed(x) /\ fd = x.origoup)
        BY <4>1 DEF Uses
      <4>3. CASE fd \in IncFds(x)
        <5>1. PICK i \in DOMAIN x.inc : fd = x.inc[i].fd  BY <4>3 DEF IncFds
        <5>2. i \in DOMAIN u.inc /\ u.inc[i].fd = fd  BY <1>3, <5>1
        <5> QED BY <5>2
      <4>4. CASE Listed(x) /\ fd = x.origoup
        <5>1. x.fds[x.origoup] = x.fds[2]  BY <1>0, <4>4 DEF Output
        <5> QED BY <2>1, <4>1, <4>4, <5>1
      <4> QED BY <2>1, <4>1, <4>2, <4>3, <4>4
    <3> QED BY <3>1, <3>2
  <2> QED BY <1>1, <2>2, <2>3, FreeEntry
<1>7. OpenedAt(y, u, 0, f)
  <2>1. PICK h : h = LowestFree(u)  OBVIOUS
  <2>2. h = 0 /\ h \in Fd /\ u.fds[h] = Closed  BY <1>0, <1>1, <1>5, <2>1
  <2>3. OpenedAt(y, u, h, f)  BY <1>1, <1>6, <2>1, <2>2, OpenTables
  <2> QED BY <2>2, <2>3
<1>8. PICK o \in Opens : y.fds = [u.fds EXCEPT ![0] = o]  BY <1>7 DEF OpenedAt
<1>9. /\ Tables(y) /\ y.inc = u.inc /\ SameRest(y, x)
      /\ y.fds[0] = o /\ \A e \in Fd : e # 0 => y.fds[e] = u.fds[e]
      /\ \A e \in Fd : e # 0 /\ u.fds[e] # Closed => EntryAt(y, e) = EntryAt(u, e)
  <2>1. u.fds \in [Fd -> 0 .. MaxOpen]  BY <1>1 DEF Tables, Globs
  <2> QED BY <1>0, <1>1, <1>7, <1>8, <2>1 DEF OpenedAt, SameVars, SameRest
<1>10. ASSUME NEW e \in Fd, e # 0, u.fds[e] # Closed PROVE FileAt(y, e) = FileAt(u, e)
  <2>1. y.fds[e] # Closed /\ EntryAt(y, e) = EntryAt(u, e)  BY <1>9, <1>10
  <2>2. FileAt(y, e) = EntryAt(y, e).file /\ FileAt(u, e) = EntryAt(u, e).file
    BY <1>1, <1>9, <1>10, <2>1, Fields DEF Tables
  <2> QED BY <2>1, <2>2
<1>11. ASSUME NEW e \in Uses(x, FALSE), e # 0
       PROVE  e \in Fd /\ e # l /\ y.fds[e] = x.fds[e] /\ FileAt(y, e) = FileAt(x, e)
  <2>1. e \in Fd /\ e # l /\ u.fds[e] = x.fds[e] /\ x.fds[e] # Closed  BY <1>0, <1>1, <1>11
  <2> QED BY <1>1, <1>9, <1>10, <1>11, <2>1
<1>12. /\ y.originp = x.originp /\ y.origoup = x.origoup /\ Listed(y) = Listed(x)
       /\ IncFds(y) = IncFds(x) \cup {l}
  BY <1>4, <1>9 DEF SameRest, Listed, IncFds
<1>13. Uses(y, FALSE) = Uses(x, FALSE) \cup {l}  BY <1>12 DEF Uses
<1>14. Apart(y, FALSE)
  <2>1. /\ \A i \in 1 .. n : y.inc[i] = x.inc[i] /\ x.inc[i].fd \in IncFds(x)
        /\ y.inc[n + 1].fd = l /\ DOMAIN y.inc = 1 .. n + 1
    BY <1>3, <1>9 DEF IncFds
  <2>2. \A i \in DOMAIN y.inc : i \in 1 .. n \/ i = n + 1  BY <1>3, <2>1
  <2>3. l \notin {0, 1, 2, x.originp} \cup IncFds(x) /\ (Listed(x) => l # x.origoup)
    BY <1>1 DEF Uses
  <2>4. \A i \in DOMAIN y.inc : y.inc[i].fd \notin {0, 1, 2, y.originp}
    BY <1>0, <1>3, <1>12, <2>1, <2>2, <2>3 DEF Apart
  <2>5. \A i, j \in DOMAIN y.inc : y.inc[i].fd = y.inc[j].fd => i = j
    <3> SUFFICES ASSUME NEW i \in DOMAIN y.inc, NEW j \in DOMAIN y.inc,
                        y.inc[i].fd = y.inc[j].fd
                 PROVE  i = j
      OBVIOUS
    <3>1. CASE i \in 1 .. n /\ j \in 1 .. n
      <4>1. i \in DOMAIN x.inc /\ j \in DOMAIN x.inc  BY <1>3, <3>1
      <4>2. x.inc[i].fd = x.inc[j].fd  BY <2>1, <3>1
      <4> QED BY <1>0, <4>1, <4>2 DEF Apart
    <3>2. CASE i \in 1 .. n /\ j = n + 1  BY <2>1, <2>3, <3>2
    <3>3. CASE i = n + 1 /\ j \in 1 .. n  BY <2>1, <2>3, <3>3
    <3>4. CASE i = n + 1 /\ j = n + 1  BY <3>4
    <3> QED BY <2>2, <3>1, <3>2, <3>3, <3>4
  <2> QED BY <1>0, <1>12, <2>3, <2>4, <2>5 DEF Apart
<1>15. \A fd \in Fd : y.fds[fd] # Closed <=> fd \in Uses(y, FALSE)
  <2> TAKE fd \in Fd
  <2>1. CASE fd = 0
    <3>1. o # Closed /\ 0 \in Uses(y, FALSE)  BY Numbers DEF Uses
    <3> QED BY <1>9, <2>1, <3>1
  <2>2. CASE fd = l
    <3>1. y.fds[l] = x.fds[0] /\ x.fds[0] # Closed  BY <1>0, <1>1, <1>9 DEF Uses
    <3> QED BY <1>13, <2>2, <3>1
  <2>3. CASE fd # 0 /\ fd # l
    <3>1. y.fds[fd] = x.fds[fd]  BY <1>1, <1>9, <2>3
    <3>2. x.fds[fd] # Closed <=> fd \in Uses(x, FALSE)  BY DEF Kept
    <3> QED BY <1>13, <2>3, <3>1, <3>2
  <2> QED BY <2>1, <2>2, <2>3
<1>16. Output(y)
  <2>1. {1, 2, x.originp} \subseteq Uses(x, FALSE) \ {0}
        /\ (Listed(x) => x.origoup \in Uses(x, FALSE) \ {0})
    BY <1>0 DEF Uses, Apart
  <2>2. /\ FileAt(y, x.originp) = FileAt(x, x.originp)
        /\ FileAt(y, 1) = FileAt(x, 1) /\ FileAt(y, 2) = FileAt(x, 2)
        /\ y.fds[1] = x.fds[1] /\ y.fds[2] = x.fds[2]
    BY <1>11, <2>1
  <2>3. Listed(x) => y.fds[x.origoup] = x.fds[x.origoup]  BY <1>11, <2>1
  <2> QED BY <1>0, <1>12, <2>2, <2>3 DEF Output
<1>17. Kept(y, FALSE)
  <2>1. Len(y.inc) <= Depth  BY <1>3, <1>9, Numbers
  <2> QED BY <1>9, <1>14, <1>15, <1>16, <2>1 DEF Kept
<1>18. Bottom(y) = Bottom(x)
  <2>1. y.inc # <<>>
    <3>1. n + 1 \in DOMAIN y.inc  BY <1>3, <1>9
    <3> QED BY <3>1
  <2>2. CASE x.inc = <<>>
    <3>1. y.inc[1].fd = l
      <4>1. n = 0  BY <1>2, <2>2
      <4> QED BY <1>3, <1>9, <4>1
    <3>2. FileAt(y, l) = FileAt(x, 0)
      <4>1. u.fds[l] # Closed  BY <1>0, <1>1 DEF Uses
      <4> QED BY <1>1, <1>10, <4>1
    <3> QED BY <2>1, <2>2, <3>1, <3>2 DEF Bottom
  <2>3. CASE x.inc # <<>>
    <3>1. 1 \in DOMAIN x.inc /\ x.inc[1].fd \in Uses(x, FALSE) \ {0}  BY <2>3, BottomUsed
    <3>2. y.inc[1] = x.inc[1]  BY <1>3, <1>9, <3>1
    <3> QED BY <1>11, <2>1, <2>3, <3>1, <3>2 DEF Bottom
  <2> QED BY <2>2, <2>3
<1> QED BY <1>9, <1>17, <1>18 DEF IncludeKept

(* The end of an include: the file suspended last is read on.               *)
LEMMA PopKept ==
  ASSUME NEW x, Kept(x, FALSE), x.inc # <<>>, NEW c, c = Close(x, 0), NEW y, y = OpenPrev(c)
  PROVE  IncludeKept(y, x)
<1>0. /\ x \in Globs /\ x.fds \in [Fd -> 0 .. MaxOpen] /\ x.inc \in Suspensions
      /\ Uses(x, FALSE) \subseteq Fd /\ 0 \in Fd /\ x.originp \in Fd \ {0, 1, 2}
      /\ (\A fd \in Uses(x, FALSE) : x.fds[fd] # Closed) /\ Apart(x, FALSE) /\ Output(x)
      /\ x.origoup \in Fd /\ 0 \in Uses(x, FALSE) /\ Len(x.inc) <= Depth
  BY UsedOpen, Numbers DEF Suspensions, Kept, Globs, Uses
<1>1. WithoutFd(c, x, 0, FALSE)  BY <1>0, Removed
<1>2. /\ Tables(c) /\ SameVars(c, x) /\ c.fds[0] = Closed
      /\ \A fd \in Uses(x, FALSE) : fd # 0 => c.fds[fd] = x.fds[fd] /\ FileAt(c, fd) = FileAt(x, fd)
      /\ \A fd \in Fd : fd # 0 => c.fds[fd] = x.fds[fd]
  BY <1>0, <1>1 DEF WithoutFd
<1>3. PICK n : n = Len(x.inc)  OBVIOUS
<1>4. PICK q : q = SubSeq(x.inc, 1, n - 1)  OBVIOUS
<1>5. /\ n \in Nat \ {0} /\ DOMAIN x.inc = 1 .. n
      /\ q \in Suspensions /\ Len(q) = n - 1 /\ DOMAIN q = 1 .. n - 1
      /\ \A i \in 1 .. n - 1 : q[i] = x.inc[i]
  <2>1. PICK v : v = x.inc  OBVIOUS
  <2>2. v \in Suspensions /\ v # <<>> /\ q = SubSeq(v, 1, Len(v) - 1) /\ n = Len(v)
    BY <1>0, <1>3, <1>4, <2>1
  <2>3. /\ Len(v) \in Nat \ {0} /\ DOMAIN v = 1 .. Len(v)
        /\ q \in Suspensions /\ Len(q) = Len(v) - 1 /\ DOMAIN q = 1 .. Len(v) - 1
        /\ \A i \in 1 .. Len(v) - 1 : q[i] = v[i]
    BY <2>2, FrontOf DEF IsFront
  <2> QED BY <2>1, <2>2, <2>3
<1>6. PICK f : f = x.inc[n].fd  OBVIOUS
<1>7. /\ f \in IncFds(x) /\ f \in Uses(x, FALSE) /\ f \in Fd \ {0}
      /\ f \notin {0, 1, 2, x.originp} /\ (Listed(x) => f # x.origoup)
  <2>1. n \in DOMAIN x.inc  BY <1>5
  <2>2. f \in IncFds(x)  BY <1>6, <2>1 DEF IncFds
  <2>3. f \notin {0, 1, 2, x.originp}  BY <1>0, <1>6, <2>1 DEF Apart
  <2>4. Listed(x) => f # x.origoup  BY <1>0, <2>2 DEF Apart
  <2>5. f \in Uses(x, FALSE)  BY <2>2 DEF Uses
  <2> QED BY <1>0, <2>2, <2>3, <2>4, <2>5
<1>8. PrevOpened(y, c, f)
  <2>1. c.inc = x.inc  BY <1>2 DEF SameVars
  <2>2. c.inc # <<>> /\ f = c.inc[Len(c.inc)].fd  BY <1>3, <1>6, <2>1
  <2>3. c.fds[f] # Closed  BY <1>0, <1>2, <1>7
  <2> QED BY <1>2, <1>7, <2>2, <2>3, PrevTables
<1>9. /\ Tables(y) /\ y.inc = q /\ SameRest(y, x)
      /\ y.fds[0] = x.fds[f] /\ y.fds[f] = Closed /\ FileAt(y, 0) = FileAt(x, f)
      /\ \A e \in Fd : e # 0 /\ e # f => y.fds[e] = x.fds[e]
  <2>1. Tables(y) /\ y.inc = q  BY <1>2, <1>3, <1>4, <1>8 DEF PrevOpened, SameVars
  <2>2. SameRest(y, x)  BY <1>2, <1>8 DEF PrevOpened, SameRest, SameVars
  <2>3. y.fds[0] = x.fds[f] /\ y.fds[f] = Closed /\ FileAt(y, 0) = FileAt(x, f)
    BY <1>2, <1>7, <1>8 DEF PrevOpened
  <2>4. \A e \in Fd : e # 0 /\ e # f => y.fds[e] = x.fds[e]  BY <1>2, <1>8 DEF PrevOpened
  <2> QED BY <2>1, <2>2, <2>3, <2>4
<1>10. ASSUME NEW e \in Uses(x, FALSE), e # 0, e # f
       PROVE  y.fds[e] = x.fds[e] /\ FileAt(y, e) = FileAt(x, e)
  <2>1. e \in Fd /\ c.fds[e] # Closed  BY <1>0, <1>2, <1>10
  <2>2. FileAt(y, e) = FileAt(c, e)  BY <1>8, <1>10, <2>1 DEF PrevOpened
  <2> QED BY <1>2, <1>9, <1>10, <2>1, <2>2
<1>11. /\ y.originp = x.originp /\ y.origoup = x.origoup /\ Listed(y) = Listed(x)
  BY <1>9 DEF SameRest, Listed
<1>12. IncFds(y) = IncFds(x) \ {f}
  <2>1. ASSUME NEW i \in DOMAIN y.inc PROVE y.inc[i].fd \in IncFds(x) \ {f}
    <3>1. i \in 1 .. n - 1 /\ i \in DOMAIN x.inc /\ i # n /\ n \in DOMAIN x.inc
          /\ y.inc[i] = x.inc[i]
      BY <1>5, <1>9, <2>1
    <3>2. x.inc[i].fd # x.inc[n].fd  BY <1>0, <3>1 DEF Apart
    <3> QED BY <1>6, <3>1, <3>2 DEF IncFds
  <2>2. ASSUME NEW i \in DOMAIN x.inc, x.inc[i].fd # f
        PROVE  \E j \in DOMAIN y.inc : x.inc[i].fd = y.inc[j].fd
    <3>1. i # n  BY <1>6, <2>2
    <3>2. i \in DOMAIN y.inc /\ y.inc[i] = x.inc[i]  BY <1>5, <1>9, <3>1
    <3> QED BY <3>2
  <2> QED BY <2>1, <2>2 DEF IncFds
<1>13. Uses(y, FALSE) = Uses(x, FALSE) \ {f}  BY <1>7, <1>11, <1>12 DEF Uses
<1>14. Apart(y, FALSE)
  <2>1. \A i \in DOMAIN y.inc : i \in DOMAIN x.inc /\ y.inc[i] = x.inc[i]  BY <1>5, <1>9
  <2>2. \A i \in DOMAIN y.inc : y.inc[i].fd \notin {0, 1, 2, y.originp}
    BY <1>0, <1>11, <2>1 DEF Apart
  <2>3. \A i, j \in DOMAIN y.inc : y.inc[i].fd = y.inc[j].fd => i = j
    BY <1>0, <2>1 DEF Apart
  <2> QED BY <1>0, <1>11, <1>12, <2>2, <2>3 DEF Apart
<1>15. \A fd \in Fd : y.fds[fd] # Closed <=> fd \in Uses(y, FALSE)
  <2> TAKE fd \in Fd
  <2>1. CASE fd = 0
    <3>1. x.fds[f] # Closed /\ 0 \in Uses(y, FALSE)  BY <1>0, <1>7 DEF Uses
    <3> QED BY <1>9, <2>1, <3>1
  <2>2. CASE fd = f  BY <1>9, <1>13, <2>2
  <2>3. CASE fd # 0 /\ fd # f
    <3>1. x.fds[fd] # Closed <=> fd \in Uses(x, FALSE)  BY DEF Kept
    <3> QED BY <1>9, <1>13, <2>3, <3>1
  <2> QED BY <2>1, <2>2, <2>3
<1>16. Output(y)
  <2>1. {1, 2, x.originp} \subseteq Uses(x, FALSE) \ {0, f}
        /\ (Listed(x) => x.origoup \in Uses(x, FALSE) \ {0, f})
    BY <1>0, <1>7 DEF Uses, Apart
  <2>2. /\ FileAt(y, x.originp) = FileAt(x, x.originp)
        /\ FileAt(y, 1) = FileAt(x, 1) /\ FileAt(y, 2) = FileAt(x, 2)
        /\ y.fds[1] = x.fds[1] /\ y.fds[2] = x.fds[2]
    BY <1>10, <2>1
  <2>3. Listed(x) => y.fds[x.origoup] = x.fds[x.origoup]  BY <1>10, <2>1
  <2> QED BY <1>0, <1>11, <2>2, <2>3 DEF Output
<1>17. Kept(y, FALSE)
  <2>1. Len(y.inc) <= Depth
    <3>1. n <= Depth /\ Len(y.inc) = n - 1  BY <1>0, <1>3, <1>5, <1>9
    <3> QED BY <1>5, <3>1, Numbers
  <2> QED BY <1>9, <1>14, <1>15, <1>16, <2>1 DEF Kept
<1>18. Bottom(y) = Bottom(x)
  <2>1. CASE n = 1
    <3>1. y.inc = <<>>
      <4>1. Len(q) = 0  BY <1>5, <2>1
      <4> QED BY <1>5, <1>9, <4>1, EmptySeq DEF Suspensions
    <3> QED BY <1>6, <1>9, <2>1, <3>1 DEF Bottom
  <2>2. CASE n # 1
    <3>1. 1 \in DOMAIN x.inc /\ 1 \in DOMAIN y.inc /\ 1 # n /\ n \in DOMAIN x.inc
          /\ y.inc[1] = x.inc[1]
      BY <1>5, <1>9, <2>2
    <3>2. x.inc[1].fd # f /\ x.inc[1].fd # 0 /\ x.inc[1].fd \in Uses(x, FALSE)
      BY <1>0, <1>6, <3>1 DEF Apart, Uses, IncFds
    <3>3. y.inc # <<>>  BY <3>1
    <3> QED BY <1>10, <3>1, <3>2, <3>3 DEF Bottom
  <2> QED BY <2>1, <2>2
<1> QED BY <1>9, <1>17, <1>18 DEF IncludeKept

(* Another answer is all the difference.                                    *)
LEMMA RetKept ==
  ASSUME NEW x, NEW y, IncludeKept(y, x), NEW r \in {"none", "file", "eof", "exit"},
         NEW z, z = [y EXCEPT !.ret = r]
  PROVE  IncludeKept(z, x) /\ z.ret = r /\ z.inc = y.inc
<1>1. Kept(y, FALSE) /\ Tables(y) /\ SameRest(y, x) /\ Bottom(y) = Bottom(x)
  BY DEF IncludeKept, Kept
<1>2. /\ Tables(z) /\ z.fds = y.fds /\ z.inc = y.inc /\ SameRest(z, y) /\ z.ret = r /\ SameUses(z, y)
      /\ \A fd : FileAt(z, fd) = FileAt(y, fd)
  BY <1>1, RetChange
<1>3. Kept(z, FALSE)  BY <1>1, <1>2, SameFilesKept
<1>4. Bottom(z) = Bottom(x)  BY <1>1, <1>2 DEF Bottom
<1>5. SameRest(z, x)  BY <1>1, <1>2 DEF SameRest
<1> QED BY <1>2, <1>3, <1>4, <1>5 DEF IncludeKept

(* zysif, with a name and without.                                          *)
LEMMA IncludeSteps ==
  ASSUME NEW x, Kept(x, FALSE)
  PROVE  /\ IncludeKept(PopInclude(x), x)
         /\ \A name : IncludeKept(PushInclude(x, name), x)
<1>0. x \in Globs /\ Tables(x) /\ x.inc \in Suspensions /\ IncludeKept(x, x)
  <2>1. x \in Globs /\ Tables(x) /\ x.inc \in Suspensions  BY DEF Kept, Tables, Globs, Suspensions
  <2>2. IncludeKept(x, x)  BY DEF IncludeKept, SameRest
  <2> QED BY <2>1, <2>2
<1>1. IncludeKept(PopInclude(x), x)
  <2>1. CASE Nesting(x) > 0
    <3>1. x.inc # <<>>  BY <2>1 DEF Nesting
    <3>2. PICK c : c = Close(x, 0)  OBVIOUS
    <3>3. PICK y : y = OpenPrev(c)  OBVIOUS
    <3>4. IncludeKept(y, x)  BY <3>1, <3>2, <3>3, PopKept
    <3> QED BY <2>1, <3>2, <3>3, <3>4 DEF PopInclude
  <2>2. CASE ~(Nesting(x) > 0)  BY <1>0, <2>2 DEF PopInclude
  <2> QED BY <2>1, <2>2
<1>2. ASSUME NEW name PROVE IncludeKept(PushInclude(x, name), x)
  <2>1. PICK l : l = LowestFree(x)  OBVIOUS
  <2>2. PICK p \in Int : p = Position(x)
    <3>1. Position(x) \in Int  BY <1>0, Fields DEF Position
    <3> QED BY <3>1
  <2>3. PICK t : t = [x EXCEPT !.inc = Append(@, [fd |-> l, pos |-> p])]  OBVIOUS
  <2>4. PICK u : u = Clrbuf(Close(Dup(t, 0), 0))  OBVIOUS
  <2>5. SuspendedAt(u, x, l, p)  BY <2>1, <2>3, <2>4, SuspendTables
  <2>6. PushInclude(x, name) =
          IF Nesting(x) = Depth             THEN [x EXCEPT !.ret = "exit"]
          ELSE IF Found(name) = {}          THEN [OpenPrev(u) EXCEPT !.ret = "exit"]
          ELSE [OpenFile(u, IncludeFile(name)) EXCEPT !.ret = "file"]
    BY <2>1, <2>2, <2>3, <2>4 DEF PushInclude
  <2>7. CASE Nesting(x) = Depth
    <3>1. PushInclude(x, name) = [x EXCEPT !.ret = "exit"]  BY <2>6, <2>7
    <3> QED BY <1>0, <3>1, RetKept
  <2>8. CASE Nesting(x) # Depth /\ Found(name) = {}
    <3>1. PICK y : y = OpenPrev(u)  OBVIOUS
    <3>2. PushInclude(x, name) = [y EXCEPT !.ret = "exit"]  BY <2>6, <2>8, <3>1
    <3>3. IncludeKept(y, x)  BY <2>5, <3>1, PushRefused
    <3> QED BY <3>2, <3>3, RetKept
  <2>9. CASE Nesting(x) # Depth /\ Found(name) # {}
    <3>1. PICK y : y = OpenFile(u, IncludeFile(name))  OBVIOUS
    <3>2. PushInclude(x, name) = [y EXCEPT !.ret = "file"]  BY <2>6, <2>9, <3>1
    <3>3. IncludeFile(name) \in FileSet \ {NoFile}
      <4>1. Found(name) \subseteq Nat
        <5>1. DOMAIN Places \subseteq Nat
          <6>1. Places \in Seq(Range(Places))  BY StandardFilesAssumption DEF Sequence
          <6>2. DOMAIN Places = 1 .. Len(Places) /\ Len(Places) \in Nat
            BY <6>1, LenProperties
          <6> QED BY <6>2
        <5> QED BY <5>1 DEF Found
      <4>2. Min(Found(name)) \in Found(name)  BY <2>9, <4>1, LeastOf
      <4>3. IncludeFile(name) \in DOMAIN Text  BY <4>2 DEF Found, IncludeFile
      <4> QED BY <4>3, StandardFilesAssumption DEF FileSet
    <3>4. Len(x.inc) < Depth
      <4>1. Len(x.inc) \in Nat  BY <1>0, LenProperties DEF Suspensions
      <4>2. Len(x.inc) <= Depth /\ Len(x.inc) # Depth  BY <2>9 DEF Kept, Nesting
      <4> QED BY <4>1, <4>2, Numbers
    <3>5. IncludeKept(y, x)  BY <2>5, <3>1, <3>3, <3>4, PushOpens
    <3> QED BY <3>2, <3>5, RetKept
  <2> QED BY <2>7, <2>8, <2>9
<1> QED BY <1>1, <1>2

-----------------------------------------------------------------------------
(* Standard output.                                                         *)

(* What a switch of standard output leaves alone.                           *)
SameSource(y, x) ==
  /\ y.originp = x.originp /\ y.save_fd0 = x.save_fd0 /\ y.inc = x.inc
  /\ y.curfile = x.curfile /\ y.inpcnt = x.inpcnt /\ y.cmdcnt = x.cmdcnt
  /\ y.readshell0 = x.readshell0 /\ y.executing = x.executing
  /\ y.first_record = x.first_record /\ y.provide_name = x.provide_name /\ y.ret = x.ret

(* The globals of standard output and nothing else.                         *)
OutChanged(y, x, n, g, e) ==
  /\ Tables(y) /\ y.fds = x.fds /\ SameSource(y, x)
  /\ y.oupState = n /\ y.origoup = g /\ y.errflag = e
  /\ \A fd : EntryAt(y, fd) = EntryAt(x, fd) /\ FileAt(y, fd) = FileAt(x, fd)

(* Each of them.                                                            *)
LEMMA OutChange ==
  ASSUME NEW x, Tables(x), NEW n \in Nat, NEW g \in Fd
  PROVE  /\ OutChanged([x EXCEPT !.oupState = n], x, n, x.origoup, x.errflag)
         /\ OutChanged([x EXCEPT !.origoup = g], x, x.oupState, g, x.errflag)
         /\ OutChanged([x EXCEPT !.errflag = TRUE], x, x.oupState, x.origoup, TRUE)
<1>0. x \in Globs  BY DEF Tables
<1>1. OutChanged([x EXCEPT !.oupState = n], x, n, x.origoup, x.errflag)
  <2>1. PICK y : y = [x EXCEPT !.oupState = n]  OBVIOUS
  <2>2. /\ y \in Globs /\ y.fds = x.fds /\ y.open = x.open /\ SameSource(y, x)
        /\ y.oupState = n /\ y.origoup = x.origoup /\ y.errflag = x.errflag
    BY <1>0, <2>1 DEF Globs, SameSource
  <2>3. OutChanged(y, x, n, x.origoup, x.errflag)  BY <2>2, GlobalsTables DEF OutChanged
  <2> QED BY <2>1, <2>3
<1>2. OutChanged([x EXCEPT !.origoup = g], x, x.oupState, g, x.errflag)
  <2>1. PICK y : y = [x EXCEPT !.origoup = g]  OBVIOUS
  <2>2. /\ y \in Globs /\ y.fds = x.fds /\ y.open = x.open /\ SameSource(y, x)
        /\ y.oupState = x.oupState /\ y.origoup = g /\ y.errflag = x.errflag
    BY <1>0, <2>1 DEF Globs, SameSource
  <2>3. OutChanged(y, x, x.oupState, g, x.errflag)  BY <2>2, GlobalsTables DEF OutChanged
  <2> QED BY <2>1, <2>3
<1>3. OutChanged([x EXCEPT !.errflag = TRUE], x, x.oupState, x.origoup, TRUE)
  <2>1. PICK y : y = [x EXCEPT !.errflag = TRUE]  OBVIOUS
  <2>2. /\ y \in Globs /\ y.fds = x.fds /\ y.open = x.open /\ SameSource(y, x)
        /\ y.oupState = x.oupState /\ y.origoup = x.origoup /\ y.errflag = TRUE
    BY <1>0, <2>1 DEF Globs, SameSource
  <2>3. OutChanged(y, x, x.oupState, x.origoup, TRUE)  BY <2>2, GlobalsTables DEF OutChanged
  <2> QED BY <2>1, <2>3
<1> QED BY <1>1, <1>2, <1>3

(* The shell's output saved on l, and descriptor 1 closed.                  *)
OutputSaved(v, x, l) ==
  /\ l \in Fd \ {1} /\ l \notin Uses(x, FALSE) /\ x.fds[l] = Closed
  /\ Tables(v) /\ SameSource(v, x)
  /\ v.oupState = 1 /\ v.origoup = l /\ v.errflag = x.errflag
  /\ v.fds[1] = Closed /\ v.fds[l] = x.fds[1] /\ EntryAt(v, l) = EntryAt(x, 1)
  /\ \A e \in Fd : e # 1 /\ e # l => v.fds[e] = x.fds[e]
  /\ \A e \in Uses(x, FALSE) : e # 1 => EntryAt(v, e) = EntryAt(x, e)

(* The first part of swcoup's first call.                                   *)
LEMMA SaveOutput ==
  ASSUME NEW x, Kept(x, FALSE), x.oupState = 0,
         NEW t, t = [x EXCEPT !.oupState = @ + 1],
         NEW d, d = [Dup(t, 1) EXCEPT !.origoup = LowestFree(t)],
         NEW v, v = Close(d, 1)
  PROVE  OutputSaved(v, x, LowestFree(t))
<1>0. /\ x \in Globs /\ Tables(x) /\ x.fds \in [Fd -> 0 .. MaxOpen]
      /\ 1 \in Fd /\ x.fds[1] # Closed /\ 1 \in Uses(x, FALSE)
  BY UsedOpen, Numbers DEF Kept, Uses
<1>1. PICK l : l = LowestFree(t)  OBVIOUS
<1>2. OutChanged(t, x, 1, x.origoup, x.errflag)
  <2>1. t = [x EXCEPT !.oupState = 1]  BY <1>0 DEF Globs
  <2>2. 1 \in Nat /\ x.origoup \in Fd  BY <1>0 DEF Globs
  <2>3. OutChanged([x EXCEPT !.oupState = 1], x, 1, x.origoup, x.errflag)
    BY <1>0, <2>2, OutChange
  <2> QED BY <2>1, <2>3
<1>3. l \in Fd /\ x.fds[l] = Closed /\ l \notin Uses(x, FALSE) /\ l # 1
  <2>1. LowestFree(t) = LowestFree(x)  BY <1>2 DEF OutChanged, LowestFree
  <2>2. Len(x.inc) <= Depth  BY DEF Kept
  <2>3. \A fd \in Fd : x.fds[fd] # Closed =>
          fd \in {0, 1, 2, x.originp, x.origoup, 0} \cup IncFds(x)
    BY DEF Kept, Uses
  <2>4. LowestFree(x) \in Fd /\ x.fds[LowestFree(x)] = Closed  BY <1>0, <2>2, <2>3, FreeFd
  <2> QED BY <1>0, <1>1, <2>1, <2>4 DEF Kept
<1>4. PICK r : r = Dup(t, 1)  OBVIOUS
<1>5. DupedAt(r, t, l, 1)
  <2>1. Tables(t) /\ t.fds[1] # Closed /\ t.fds[l] = Closed  BY <1>0, <1>2, <1>3 DEF OutChanged
  <2> QED BY <1>0, <1>1, <1>3, <1>4, <2>1, DupTables
<1>6. OutChanged(d, r, r.oupState, l, r.errflag)
  <2>1. d = [r EXCEPT !.origoup = l]  BY <1>1, <1>4
  <2>2. Tables(r) /\ 0 \in Nat  BY <1>5 DEF DupedAt
  <2>3. OutChanged([r EXCEPT !.origoup = l], r, r.oupState, l, r.errflag)
    BY <1>3, <2>2, OutChange
  <2> QED BY <2>1, <2>3
<1>7. /\ Tables(d) /\ SameSource(d, x) /\ d.oupState = 1 /\ d.origoup = l
      /\ d.errflag = x.errflag /\ d.fds = [x.fds EXCEPT ![l] = x.fds[1]]
      /\ \A e \in Fd : e # l /\ x.fds[e] # Closed => EntryAt(d, e) = EntryAt(x, e)
      /\ EntryAt(d, l) = EntryAt(x, 1)
  BY <1>2, <1>5, <1>6 DEF OutChanged, DupedAt, SameSource, SameVars
<1>8. ClosedAt(v, d, 1)
  <2>1. d.fds[1] # Closed  BY <1>0, <1>3, <1>7
  <2> QED BY <1>0, <1>7, <2>1, CloseTables
<1>9. /\ Tables(v) /\ SameSource(v, x) /\ v.oupState = 1 /\ v.origoup = l
      /\ v.errflag = x.errflag
  BY <1>7, <1>8 DEF ClosedAt, SameVars, SameSource
<1>10. /\ v.fds[1] = Closed /\ v.fds[l] = x.fds[1]
       /\ \A e \in Fd : e # 1 /\ e # l => v.fds[e] = x.fds[e]
  <2>1. d.fds \in [Fd -> 0 .. MaxOpen] /\ v.fds = [d.fds EXCEPT ![1] = Closed]
    BY <1>7, <1>8 DEF Tables, Globs, ClosedAt
  <2> QED BY <1>0, <1>3, <1>7, <2>1
<1>11. EntryAt(v, l) = EntryAt(x, 1)
  <2>1. d.fds[l] # Closed  BY <1>0, <1>3, <1>7
  <2> QED BY <1>3, <1>7, <1>8, <2>1 DEF ClosedAt
<1>12. ASSUME NEW e \in Uses(x, FALSE), e # 1 PROVE EntryAt(v, e) = EntryAt(x, e)
  <2>1. e \in Fd /\ e # l /\ x.fds[e] # Closed  BY <1>3, <1>12, UsedOpen
  <2>2. d.fds[e] # Closed /\ EntryAt(d, e) = EntryAt(x, e)  BY <1>0, <1>7, <2>1
  <2> QED BY <1>8, <1>12, <2>1, <2>2 DEF ClosedAt
<1> QED BY <1>1, <1>3, <1>9, <1>10, <1>11, <1>12 DEF OutputSaved

(* What a switch of standard output keeps.                                  *)
OutputKept(y, x) == Kept(y, FALSE) /\ SameSource(y, x) /\ Bottom(y) = Bottom(x)

(* The bottom is no standard output.                                        *)
LEMMA SameBottom ==
  ASSUME NEW x, Kept(x, FALSE), NEW y, y.inc = x.inc,
         \A e \in Uses(x, FALSE) : e # 1 => FileAt(y, e) = FileAt(x, e)
  PROVE  Bottom(y) = Bottom(x)
<1>1. PICK b : b = IF x.inc = <<>> THEN 0 ELSE x.inc[1].fd  OBVIOUS
<1>2. b \in Uses(x, FALSE)  BY <1>1, BottomUsed
<1>3. b # 1
  <2>1. CASE x.inc = <<>>  BY <1>1, <2>1
  <2>2. CASE x.inc # <<>>
    <3>1. 1 \in DOMAIN x.inc  BY <2>2, BottomUsed
    <3> QED BY <1>1, <2>2, <3>1 DEF Kept, Apart
  <2> QED BY <2>1, <2>2
<1>4. Bottom(y) = FileAt(y, b) /\ Bottom(x) = FileAt(x, b)  BY <1>1 DEF Bottom
<1> QED BY <1>2, <1>3, <1>4

(* The -o file is opened on descriptor 1.                                   *)
LEMMA ListingOpened ==
  ASSUME NEW x, Kept(x, FALSE), ~Listed(x), x.errflag = FALSE, NEW l, NEW v, OutputSaved(v, x, l),
         NEW y, y = OpenFile(v, Listing)
  PROVE  OutputKept(y, x) /\ y.oupState = 1
<1>0. /\ x \in Globs /\ x.fds \in [Fd -> 0 .. MaxOpen] /\ Uses(x, FALSE) \subseteq Fd
      /\ 0 \in Fd /\ 1 \in Fd /\ 2 \in Fd /\ x.originp \in Fd \ {0, 1, 2}
      /\ (\A fd \in Uses(x, FALSE) : x.fds[fd] # Closed)
      /\ Tables(x) /\ Apart(x, FALSE) /\ Output(x) /\ Len(x.inc) <= Depth
  BY UsedOpen, Numbers DEF Kept
<1>1. /\ l \in Fd \ {1} /\ l \notin Uses(x, FALSE) /\ x.fds[l] = Closed
      /\ Tables(v) /\ SameSource(v, x)
      /\ v.oupState = 1 /\ v.origoup = l /\ v.errflag = x.errflag
      /\ v.fds[1] = Closed /\ v.fds[l] = x.fds[1]
      /\ \A e \in Fd : e # 1 /\ e # l => v.fds[e] = x.fds[e]
      /\ \A e \in Uses(x, FALSE) : e # 1 => EntryAt(v, e) = EntryAt(x, e)
  BY DEF OutputSaved
<1>2. v.fds \in [Fd -> 0 .. MaxOpen]  BY <1>1 DEF Tables, Globs
<1>3. PICK h : h = LowestFree(v)  OBVIOUS
<1>4. h = 1
  <2>1. h \in Fd /\ v.fds[h] = Closed /\ h <= 1  BY <1>0, <1>1, <1>2, <1>3, Lowest
  <2>2. h # 0
    <3>1. v.fds[0] = x.fds[0] /\ x.fds[0] # Closed  BY <1>0, <1>1 DEF Uses
    <3> QED BY <2>1, <3>1
  <2> QED BY <2>1, <2>2, Numbers DEF Fd
<1>5. \E o \in Opens : v.open[o].file = NoFile
  <2>1. PICK a, b, c : a = x.fds[0] /\ b = x.fds[2] /\ c = x.fds[x.originp]  OBVIOUS
  <2>2. Len(v.inc) <= Depth /\ v.inc = x.inc  BY <1>0, <1>1 DEF SameSource
  <2>3. ASSUME NEW fd \in Fd, v.fds[fd] # Closed
        PROVE  v.fds[fd] \in {a, b, c} \cup {v.fds[v.inc[i].fd] : i \in DOMAIN v.inc}
    <3>1. CASE fd = l
      <4>1. v.fds[l] = x.fds[2]  BY <1>0, <1>1 DEF Output
      <4> QED BY <2>1, <3>1, <4>1
    <3>2. CASE fd # l
      <4>1. fd # 1 /\ v.fds[fd] = x.fds[fd] /\ fd \in Uses(x, FALSE)
        BY <1>1, <2>3, <3>2 DEF Kept
      <4>2. fd \in {0, 2, x.originp} \cup IncFds(x)  BY <4>1 DEF Uses
      <4>3. CASE fd \in IncFds(x)
        <5>1. PICK i \in DOMAIN x.inc : fd = x.inc[i].fd  BY <4>3 DEF IncFds
        <5> QED BY <2>2, <5>1
      <4> QED BY <2>1, <4>1, <4>2, <4>3
    <3> QED BY <3>1, <3>2
  <2> QED BY <1>1, <2>2, <2>3, FreeEntry
<1>6. OpenedAt(y, v, 1, Listing)
  <2>1. h \in Fd /\ v.fds[h] = Closed  BY <1>0, <1>1, <1>4
  <2>2. Listing \in FileSet \ {NoFile}  BY StandardFilesAssumption DEF FileSet
  <2>3. OpenedAt(y, v, h, Listing)  BY <1>1, <1>3, <1>5, <2>1, <2>2, OpenTables
  <2> QED BY <1>4, <2>3
<1>7. PICK o \in Opens : y.fds = [v.fds EXCEPT ![1] = o]  BY <1>6 DEF OpenedAt
<1>8. /\ Tables(y) /\ SameSource(y, x) /\ y.oupState = 1 /\ y.origoup = l
      /\ y.errflag = FALSE /\ EntryAt(y, 1).file = Listing
      /\ \A e \in Fd : e # 1 /\ v.fds[e] # Closed => EntryAt(y, e) = EntryAt(v, e)
  BY <1>1, <1>6 DEF OpenedAt, SameVars, SameSource
<1>9. y.fds[1] = o /\ y.fds[l] = x.fds[1] /\ \A e \in Fd : e # 1 /\ e # l => y.fds[e] = x.fds[e]
  BY <1>0, <1>1, <1>2, <1>7
<1>10. ASSUME NEW e \in Uses(x, FALSE), e # 1
       PROVE  e \in Fd /\ e # l /\ y.fds[e] = x.fds[e] /\ FileAt(y, e) = FileAt(x, e)
  <2>1. e \in Fd /\ e # l /\ x.fds[e] # Closed  BY <1>0, <1>1, <1>10
  <2>2. y.fds[e] = x.fds[e] /\ v.fds[e] = x.fds[e]  BY <1>1, <1>9, <1>10, <2>1
  <2>3. EntryAt(y, e) = EntryAt(x, e)  BY <1>1, <1>8, <1>10, <2>1, <2>2
  <2>4. FileAt(y, e) = EntryAt(y, e).file /\ FileAt(x, e) = EntryAt(x, e).file
    BY <1>0, <1>8, <2>1, <2>2, Fields DEF Tables
  <2> QED BY <2>1, <2>2, <2>3, <2>4
<1>11. Listed(y)  BY <1>8 DEF Listed
<1>12. y.inc = x.inc /\ y.originp = x.originp /\ IncFds(y) = IncFds(x)
  BY <1>8 DEF SameSource, IncFds
<1>13. Uses(y, FALSE) = Uses(x, FALSE) \cup {l}
  BY <1>8, <1>11, <1>12 DEF Uses
<1>14. Apart(y, FALSE)
  <2>1. l \notin {0, 1, 2, x.originp} \cup IncFds(x)  BY <1>1 DEF Uses
  <2> QED BY <1>0, <1>8, <1>12, <2>1 DEF Apart
<1>15. \A fd \in Fd : y.fds[fd] # Closed <=> fd \in Uses(y, FALSE)
  <2> TAKE fd \in Fd
  <2>1. CASE fd = 1
    <3>1. o # Closed /\ 1 \in Uses(y, FALSE)  BY Numbers DEF Uses
    <3> QED BY <1>9, <2>1, <3>1
  <2>2. CASE fd = l
    <3>1. x.fds[1] # Closed  BY <1>0 DEF Uses
    <3> QED BY <1>9, <1>13, <2>2, <3>1
  <2>3. CASE fd # 1 /\ fd # l
    <3>1. x.fds[fd] # Closed <=> fd \in Uses(x, FALSE)  BY DEF Kept
    <3> QED BY <1>9, <1>13, <2>3, <3>1
  <2> QED BY <2>1, <2>2, <2>3
<1>16. Output(y)
  <2>1. 2 \in Uses(x, FALSE) \ {1} /\ x.originp \in Uses(x, FALSE) \ {1}
    BY <1>0 DEF Uses
  <2>2. FileAt(y, x.originp) = FileAt(x, x.originp) /\ FileAt(y, 2) = FileAt(x, 2)
        /\ y.fds[2] = x.fds[2]
    BY <1>10, <2>1
  <2>3. FileAt(y, 1) = Listing
    <3>1. y.fds[1] # Closed  BY <1>9, Numbers
    <3>2. FileAt(y, 1) = EntryAt(y, 1).file  BY <1>0, <1>8, <3>1, Fields DEF Tables
    <3> QED BY <1>8, <3>2
  <2>4. y.fds[y.origoup] = y.fds[2]  BY <1>0, <1>8, <1>9, <2>2 DEF Output
  <2> QED BY <1>0, <1>11, <1>12, <2>2, <2>3, <2>4 DEF Output
<1>17. Kept(y, FALSE)
  <2>1. Len(y.inc) <= Depth  BY <1>0, <1>12
  <2> QED BY <1>8, <1>14, <1>15, <1>16, <2>1 DEF Kept
<1>18. Bottom(y) = Bottom(x)  BY <1>10, <1>12, SameBottom
<1> QED BY <1>8, <1>17, <1>18 DEF OutputKept

(* The shell's output put back, from where it was saved.                    *)
OutputBack(y, v, l) ==
  /\ Tables(y) /\ SameSource(y, v) /\ y.oupState = v.oupState /\ y.origoup = v.origoup
  /\ y.errflag = v.errflag
  /\ y.fds[1] = v.fds[l] /\ y.fds[l] = Closed
  /\ \A e \in Fd : e # 1 /\ e # l => y.fds[e] = v.fds[e]
  /\ \A e \in Fd : e # 1 /\ e # l /\ v.fds[e] # Closed => FileAt(y, e) = FileAt(v, e)
  /\ FileAt(y, 1) = FileAt(v, l)

(* dup of it, and close.                                                    *)
LEMMA PutBack ==
  ASSUME NEW v, Tables(v), v.fds[0] # Closed, v.fds[1] = Closed, NEW l \in Fd \ {1}, v.fds[l] # Closed,
         NEW y, y = Close(Dup(v, l), l)
  PROVE  OutputBack(y, v, l)
<1>0. v \in Globs /\ v.fds \in [Fd -> 0 .. MaxOpen] /\ 1 \in Fd  BY Numbers DEF Tables, Globs
<1>1. PICK h : h = LowestFree(v)  OBVIOUS
<1>2. h = 1
  <2>1. h \in Fd /\ v.fds[h] = Closed /\ h <= 1  BY <1>0, <1>1, Lowest
  <2> QED BY <2>1, Numbers DEF Fd
<1>3. PICK r : r = Dup(v, l)  OBVIOUS
<1>4. DupedAt(r, v, 1, l)
  <2>1. h \in Fd /\ v.fds[h] = Closed  BY <1>0, <1>2
  <2>2. DupedAt(r, v, h, l)  BY <1>1, <1>3, <2>1, DupTables
  <2> QED BY <1>2, <2>2
<1>5. /\ Tables(r) /\ SameVars(r, v) /\ r.fds[1] = v.fds[l] /\ EntryAt(r, 1) = EntryAt(v, l)
      /\ \A e \in Fd : e # 1 => r.fds[e] = v.fds[e]
      /\ \A e \in Fd : e # 1 /\ v.fds[e] # Closed => EntryAt(r, e) = EntryAt(v, e)
  BY <1>0, <1>4 DEF DupedAt
<1>6. ClosedAt(y, r, l)
  <2>1. r.fds[l] # Closed  BY <1>5
  <2> QED BY <1>3, <1>5, <2>1, CloseTables
<1>7. /\ Tables(y) /\ SameVars(y, v) /\ y.fds[l] = Closed /\ y.fds[1] = v.fds[l]
      /\ \A e \in Fd : e # 1 /\ e # l => y.fds[e] = v.fds[e]
  <2>1. r.fds \in [Fd -> 0 .. MaxOpen] /\ y.fds = [r.fds EXCEPT ![l] = Closed]
    BY <1>5, <1>6 DEF Tables, Globs, ClosedAt
  <2>2. Tables(y) /\ SameVars(y, v)  BY <1>5, <1>6 DEF ClosedAt, SameVars
  <2> QED BY <1>0, <1>5, <2>1, <2>2
<1>8. y \in Globs  BY <1>7 DEF Tables
<1>9. ASSUME NEW e \in Fd, e # 1, e # l, v.fds[e] # Closed PROVE FileAt(y, e) = FileAt(v, e)
  <2>1. r.fds[e] # Closed /\ y.fds[e] # Closed  BY <1>5, <1>7, <1>9
  <2>2. EntryAt(y, e) = EntryAt(v, e)  BY <1>5, <1>6, <1>9, <2>1 DEF ClosedAt
  <2>3. FileAt(y, e) = EntryAt(y, e).file /\ FileAt(v, e) = EntryAt(v, e).file
    BY <1>0, <1>8, <1>9, <2>1, Fields
  <2> QED BY <2>2, <2>3
<1>10. FileAt(y, 1) = FileAt(v, l)
  <2>1. r.fds[1] # Closed /\ y.fds[1] # Closed  BY <1>5, <1>7
  <2>2. EntryAt(y, 1) = EntryAt(v, l)  BY <1>0, <1>5, <1>6, <2>1 DEF ClosedAt
  <2>3. FileAt(y, 1) = EntryAt(y, 1).file /\ FileAt(v, l) = EntryAt(v, l).file
    BY <1>0, <1>8, <2>1, Fields
  <2> QED BY <2>2, <2>3
<1> QED BY <1>7, <1>9, <1>10 DEF OutputBack, SameVars, SameSource

(* The -o file cannot be opened: lines go to the shell's output.            *)
LEMMA ListingRefused ==
  ASSUME NEW x, Kept(x, FALSE), ~Listed(x), NEW l, NEW v, OutputSaved(v, x, l),
         NEW w, OutChanged(w, v, v.oupState, v.origoup, TRUE), NEW y, OutputBack(y, w, l)
  PROVE  OutputKept(y, x) /\ y.oupState = 1
<1>0. /\ x \in Globs /\ x.fds \in [Fd -> 0 .. MaxOpen] /\ Uses(x, FALSE) \subseteq Fd
      /\ 0 \in Fd /\ 1 \in Fd /\ x.originp \in Fd \ {0, 1, 2}
      /\ (\A fd \in Uses(x, FALSE) : x.fds[fd] # Closed)
      /\ Tables(x) /\ Apart(x, FALSE) /\ Output(x) /\ Len(x.inc) <= Depth
  BY UsedOpen, Numbers DEF Kept
<1>1. /\ l \in Fd \ {1} /\ l \notin Uses(x, FALSE) /\ x.fds[l] = Closed
      /\ Tables(v) /\ SameSource(v, x) /\ v.oupState = 1 /\ v.origoup = l
      /\ v.fds[1] = Closed /\ v.fds[l] = x.fds[1] /\ EntryAt(v, l) = EntryAt(x, 1)
      /\ \A e \in Fd : e # 1 /\ e # l => v.fds[e] = x.fds[e]
      /\ \A e \in Uses(x, FALSE) : e # 1 => EntryAt(v, e) = EntryAt(x, e)
  BY DEF OutputSaved
<1>2. /\ Tables(w) /\ w.fds = v.fds /\ SameSource(w, v) /\ w.oupState = 1 /\ w.origoup = l
      /\ w.errflag = TRUE
      /\ \A fd : EntryAt(w, fd) = EntryAt(v, fd) /\ FileAt(w, fd) = FileAt(v, fd)
  BY <1>1 DEF OutChanged
<1>4. /\ Tables(y) /\ SameSource(y, x) /\ y.oupState = 1 /\ ~Listed(y)
      /\ y.inc = x.inc /\ y.originp = x.originp /\ IncFds(y) = IncFds(x)
  <2>1. y.errflag = TRUE  BY <1>2 DEF OutputBack
  <2>2. ~Listed(y)  BY <2>1 DEF Listed
  <2>3. Tables(y) /\ SameSource(y, w) /\ y.oupState = w.oupState  BY DEF OutputBack
  <2>4. SameSource(y, x)  BY <1>1, <1>2, <2>3 DEF SameSource
  <2>5. y.inc = x.inc /\ y.originp = x.originp  BY <2>4 DEF SameSource
  <2> QED BY <1>2, <2>2, <2>3, <2>4, <2>5 DEF IncFds
<1>5. y.fds = x.fds
  <2>1. y.fds \in [Fd -> 0 .. MaxOpen]  BY <1>4 DEF Tables, Globs
  <2>2. \A e \in Fd : y.fds[e] = x.fds[e]
    <3> TAKE e \in Fd
    <3>1. CASE e = 1 \/ e = l  BY <1>1, <1>2, <3>1 DEF OutputBack
    <3>2. CASE e # 1 /\ e # l
      <4>1. y.fds[e] = w.fds[e]  BY <3>2 DEF OutputBack
      <4> QED BY <1>1, <1>2, <3>2, <4>1
    <3> QED BY <3>1, <3>2
  <2> QED BY <1>0, <2>1, <2>2
<1>6. ASSUME NEW e \in Uses(x, FALSE) PROVE FileAt(y, e) = FileAt(x, e)
  <2>1. e \in Fd /\ e # l /\ x.fds[e] # Closed /\ FileAt(x, e) = EntryAt(x, e).file
    BY <1>0, <1>1, <1>6, UsedOpen
  <2>2. CASE e = 1
    <3>1. v.fds[l] # Closed  BY <1>1, <2>1, <2>2
    <3>2. FileAt(v, l) = EntryAt(v, l).file  BY <1>1, <3>1, Fields DEF Tables
    <3> QED BY <1>1, <1>2, <2>1, <2>2, <3>2 DEF OutputBack
  <2>3. CASE e # 1
    <3>1. v.fds[e] # Closed /\ EntryAt(v, e) = EntryAt(x, e)  BY <1>1, <1>6, <2>1, <2>3
    <3>2. FileAt(v, e) = EntryAt(v, e).file  BY <1>1, <2>1, <3>1, Fields DEF Tables
    <3> QED BY <1>2, <2>1, <2>3, <3>1, <3>2 DEF OutputBack
  <2> QED BY <2>2, <2>3
<1>7. Apart(y, FALSE)  BY <1>0, <1>4 DEF Apart
<1>8. Uses(y, FALSE) = Uses(x, FALSE)  BY <1>4 DEF Uses
<1>9. Output(y)
  <2>1. {1, 2, x.originp} \subseteq Uses(x, FALSE)  BY DEF Uses
  <2>2. FileAt(y, 2) = FileAt(x, 2) /\ FileAt(y, x.originp) = FileAt(x, x.originp)
    BY <1>6, <2>1
  <2> QED BY <1>0, <1>4, <1>5, <2>2 DEF Output
<1>10. Kept(y, FALSE)  BY <1>0, <1>4, <1>5, <1>7, <1>8, <1>9 DEF Kept
<1>11. Bottom(y) = Bottom(x)  BY <1>4, <1>6, SameBottom
<1> QED BY <1>4, <1>10, <1>11 DEF OutputKept

(* After the compilation: the shell's output is back.                       *)
LEMMA ListingLeft ==
  ASSUME NEW x, Kept(x, FALSE), Listed(x), NEW t, t = [x EXCEPT !.oupState = @ + 1],
         NEW c, c = Close(t, 1), NEW y, y = Close(Dup(c, x.origoup), x.origoup)
  PROVE  OutputKept(y, x) /\ y.oupState = 2
<1>0. /\ x \in Globs /\ x.fds \in [Fd -> 0 .. MaxOpen] /\ Uses(x, FALSE) \subseteq Fd
      /\ 0 \in Fd /\ 1 \in Fd /\ 2 \in Fd /\ x.originp \in Fd \ {0, 1, 2} /\ x.origoup \in Fd
      /\ (\A fd \in Uses(x, FALSE) : x.fds[fd] # Closed)
      /\ Tables(x) /\ Apart(x, FALSE) /\ Output(x) /\ Len(x.inc) <= Depth
  BY UsedOpen, Numbers DEF Kept, Globs
<1>1. PICK g : g = x.origoup  OBVIOUS
<1>2. /\ g \in Fd /\ g \notin {0, 1, 2, x.originp} \cup IncFds(x) /\ g \in Uses(x, FALSE)
      /\ x.fds[g] = x.fds[2]
  BY <1>0, <1>1 DEF Apart, Uses, Output
<1>3. /\ Tables(t) /\ t.fds = x.fds /\ SameSource(t, x) /\ t.oupState = 2 /\ t.origoup = g
      /\ \A fd : EntryAt(t, fd) = EntryAt(x, fd) /\ FileAt(t, fd) = FileAt(x, fd)
  <2>1. t = [x EXCEPT !.oupState = 2]  BY <1>0 DEF Globs, Listed
  <2>2. OutChanged([x EXCEPT !.oupState = 2], x, 2, x.origoup, x.errflag)
    <3>1. 2 \in Nat  OBVIOUS
    <3> QED BY <1>0, <3>1, OutChange
  <2> QED BY <1>1, <2>1, <2>2 DEF OutChanged
<1>4. ClosedAt(c, t, 1)
  <2>1. t.fds[1] # Closed  BY <1>0, <1>3 DEF Uses
  <2> QED BY <1>0, <1>3, <2>1, CloseTables
<1>5. /\ Tables(c) /\ SameSource(c, x) /\ c.oupState = 2 /\ c.origoup = g /\ c.fds[1] = Closed
      /\ (\A e \in Fd : e # 1 => c.fds[e] = x.fds[e])
      /\ \A e \in Fd : e # 1 /\ x.fds[e] # Closed => EntryAt(c, e) = EntryAt(x, e)
  <2>1. Tables(c) /\ c.oupState = 2 /\ c.origoup = g  BY <1>3, <1>4 DEF ClosedAt, SameVars
  <2>2. SameSource(c, x)  BY <1>3, <1>4 DEF ClosedAt, SameVars, SameSource
  <2>3. c.fds = [x.fds EXCEPT ![1] = Closed]  BY <1>3, <1>4 DEF ClosedAt
  <2>4. c.fds[1] = Closed /\ \A e \in Fd : e # 1 => c.fds[e] = x.fds[e]  BY <1>0, <2>3
  <2>5. \A e \in Fd : e # 1 /\ x.fds[e] # Closed => EntryAt(c, e) = EntryAt(x, e)
    BY <1>3, <1>4 DEF ClosedAt
  <2> QED BY <2>1, <2>2, <2>4, <2>5
<1>6. OutputBack(y, c, g)
  <2>1. c.fds[0] # Closed /\ c.fds[g] # Closed  BY <1>0, <1>2, <1>5 DEF Uses
  <2>2. y = Close(Dup(c, g), g)  BY <1>1
  <2> QED BY <1>2, <1>5, <2>1, <2>2, PutBack
<1>7. /\ Tables(y) /\ SameSource(y, x) /\ y.oupState = 2 /\ ~Listed(y)
      /\ y.inc = x.inc /\ y.originp = x.originp /\ IncFds(y) = IncFds(x)
      /\ y.fds[1] = x.fds[2] /\ y.fds[g] = Closed
      /\ \A e \in Fd : e # 1 /\ e # g => y.fds[e] = x.fds[e]
  BY <1>2, <1>5, <1>6 DEF OutputBack, SameSource, IncFds, Listed
<1>8. ASSUME NEW e \in Uses(x, FALSE), e # 1, e # g PROVE FileAt(y, e) = FileAt(x, e)
  <2>1. e \in Fd /\ x.fds[e] # Closed /\ FileAt(x, e) = EntryAt(x, e).file
    BY <1>0, <1>8, UsedOpen
  <2>2. c.fds[e] # Closed /\ EntryAt(c, e) = EntryAt(x, e)  BY <1>5, <1>8, <2>1
  <2>3. FileAt(c, e) = EntryAt(c, e).file  BY <1>5, <2>1, <2>2, Fields DEF Tables
  <2>4. FileAt(y, e) = FileAt(c, e)  BY <1>6, <1>8, <2>1, <2>2 DEF OutputBack
  <2> QED BY <2>1, <2>2, <2>3, <2>4
<1>9. Uses(y, FALSE) = Uses(x, FALSE) \ {g}
  <2>1. Uses(x, FALSE) = {0, 1, 2, x.originp} \cup IncFds(x) \cup {g}  BY <1>1 DEF Uses
  <2>2. Uses(y, FALSE) = {0, 1, 2, x.originp} \cup IncFds(x)  BY <1>7 DEF Uses
  <2> QED BY <1>2, <2>1, <2>2
<1>10. Apart(y, FALSE)  BY <1>0, <1>7 DEF Apart
<1>11. \A fd \in Fd : y.fds[fd] # Closed <=> fd \in Uses(y, FALSE)
  <2> TAKE fd \in Fd
  <2>1. CASE fd = 1
    <3>1. x.fds[2] # Closed /\ 1 \in Uses(y, FALSE)  BY <1>0 DEF Uses
    <3> QED BY <1>7, <2>1, <3>1
  <2>2. CASE fd = g  BY <1>7, <1>9, <2>2
  <2>3. CASE fd # 1 /\ fd # g
    <3>1. x.fds[fd] # Closed <=> fd \in Uses(x, FALSE)  BY DEF Kept
    <3> QED BY <1>7, <1>9, <2>3, <3>1
  <2> QED BY <2>1, <2>2, <2>3
<1>12. Output(y)
  <2>1. 2 \in Uses(x, FALSE) \ {1, g} /\ x.originp \in Uses(x, FALSE) \ {1, g}
    BY <1>0, <1>2 DEF Uses
  <2>2. FileAt(y, 2) = FileAt(x, 2) /\ FileAt(y, x.originp) = FileAt(x, x.originp)
        /\ y.fds[2] = x.fds[2]
    BY <1>0, <1>7, <1>8, <2>1
  <2> QED BY <1>0, <1>7, <2>2 DEF Output
<1>13. Kept(y, FALSE)
  <2>1. Len(y.inc) <= Depth  BY <1>0, <1>7
  <2> QED BY <1>7, <1>10, <1>11, <1>12, <2>1 DEF Kept
<1>14. Bottom(y) = Bottom(x)
  <2>1. PICK b : b = IF x.inc = <<>> THEN 0 ELSE x.inc[1].fd  OBVIOUS
  <2>2. b \in Uses(x, FALSE)  BY <2>1, BottomUsed
  <2>3. b # 1 /\ b # g
    <3>1. CASE x.inc = <<>>  BY <1>2, <2>1, <3>1
    <3>2. CASE x.inc # <<>>
      <4>1. 1 \in DOMAIN x.inc  BY <3>2, BottomUsed
      <4>2. b \in IncFds(x) /\ b # 1  BY <1>0, <2>1, <3>2, <4>1 DEF IncFds, Apart
      <4> QED BY <1>2, <4>2
    <3> QED BY <3>1, <3>2
  <2>4. Bottom(y) = FileAt(y, b) /\ Bottom(x) = FileAt(x, b)  BY <1>7, <2>1 DEF Bottom
  <2> QED BY <1>8, <2>2, <2>3, <2>4
<1> QED BY <1>7, <1>13, <1>14 DEF OutputKept

(* swcoup: without -o, before the compilation and after it.                 *)
LEMMA OutputSteps ==
  ASSUME NEW x, Kept(x, FALSE), env.withList \in BOOLEAN, NEW opened \in BOOLEAN,
         NEW y, y = SwcOup(x, opened)
  PROVE  /\ ~env.withList => y = x
         /\ env.withList /\ x.oupState = 0 /\ x.errflag = FALSE => OutputKept(y, x) /\ y.oupState = 1
         /\ env.withList /\ x.oupState = 1 => OutputKept(y, x) /\ y.oupState \in {1, 2}
<1>0. x \in Globs /\ Tables(x) /\ x.errflag \in BOOLEAN  BY DEF Kept, Tables, Globs
<1>1. ASSUME x.errflag \/ ~env.withList PROVE y = x  BY <1>1 DEF SwcOup
<1>2. OutputKept(x, x)  BY DEF OutputKept, SameSource
<1>3. ASSUME env.withList, x.oupState = 0, x.errflag = FALSE
      PROVE  OutputKept(y, x) /\ y.oupState = 1
  <2>1. PICK t : t = [x EXCEPT !.oupState = @ + 1]  OBVIOUS
  <2>2. PICK l : l = LowestFree(t)  OBVIOUS
  <2>3. PICK d : d = [Dup(t, 1) EXCEPT !.origoup = l]  OBVIOUS
  <2>4. PICK v : v = Close(d, 1)  OBVIOUS
  <2>5. t.oupState = 1
    <3>1. t.oupState = 0 + 1  BY <1>0, <1>3, <2>1 DEF Globs
    <3> QED BY <3>1
  <2>6. OutputSaved(v, x, l)  BY <1>3, <2>1, <2>2, <2>3, <2>4, SaveOutput
  <2>7. d.origoup = l
    <3>1. Dup(t, 1) = t \/ \E a : Dup(t, 1) = [t EXCEPT !.fds[LowestFree(t)] = a]  BY DEF Dup
    <3>2. v.origoup = l  BY <2>6 DEF OutputSaved
    <3>3. v = d \/ v.origoup = d.origoup
      <4>1. PICK a, z : a = [d EXCEPT !.fds[1] = Closed] /\ z = [file |-> NoFile, pos |-> 0]
        OBVIOUS
      <4>2. v = d \/ v = a \/ v = [a EXCEPT !.open[d.fds[1]] = z]
        BY <2>4, <4>1 DEF Close
      <4>3. a.origoup = d.origoup  BY <4>1
      <4>4. [a EXCEPT !.open[d.fds[1]] = z].origoup = a.origoup  OBVIOUS
      <4> QED BY <4>2, <4>3, <4>4
    <3> QED BY <3>2, <3>3
  <2>8. y = IF opened THEN OpenFile(v, Listing)
            ELSE Close(Dup([v EXCEPT !.errflag = TRUE], l), l)
    <3>1. y = CASE t.oupState = 1 ->
                     IF opened THEN OpenFile(v, Listing)
                     ELSE Close(Dup([v EXCEPT !.errflag = TRUE], d.origoup), d.origoup)
                [] t.oupState = 2 -> Close(Dup(Close(t, 1), t.origoup), t.origoup)
                [] t.oupState = 3 -> IF opened THEN OpenFile(Close(t, 1), Listing) ELSE Close(t, 1)
      BY <1>3, <2>1, <2>2, <2>3, <2>4 DEF SwcOup
    <3>2. y = IF opened THEN OpenFile(v, Listing)
              ELSE Close(Dup([v EXCEPT !.errflag = TRUE], d.origoup), d.origoup)
      BY <2>5, <3>1
    <3> QED BY <2>7, <3>2
  <2>9. ~Listed(x)  BY <1>3 DEF Listed
  <2>10. CASE opened
    <3>1. y = OpenFile(v, Listing)  BY <2>8, <2>10
    <3> QED BY <1>3, <2>6, <2>9, <3>1, ListingOpened
  <2>11. CASE ~opened
    <3>1. PICK w : w = [v EXCEPT !.errflag = TRUE]  OBVIOUS
    <3>2. y = Close(Dup(w, l), l)  BY <2>8, <2>11, <3>1
    <3>3. OutChanged(w, v, v.oupState, v.origoup, TRUE)
      <4>1. OutChanged([v EXCEPT !.errflag = TRUE], v, v.oupState, v.origoup, TRUE)
        <5>1. Tables(v) /\ 0 \in Nat /\ 0 \in Fd  BY <2>6, Numbers DEF OutputSaved
        <5> QED BY <5>1, OutChange
      <4> QED BY <3>1, <4>1
    <3>4. OutputBack(y, w, l)
      <4>1. x.fds[0] # Closed /\ x.fds[1] # Closed /\ 0 \in Uses(x, FALSE) /\ 0 \in Fd
        <5>1. 0 \in Uses(x, FALSE) /\ 1 \in Uses(x, FALSE)  BY DEF Uses
        <5>2. \A fd \in Uses(x, FALSE) : x.fds[fd] # Closed  BY UsedOpen
        <5> QED BY <5>1, <5>2, Numbers
      <4>2. /\ l \in Fd \ {1} /\ l # 0 /\ Tables(w) /\ w.fds = v.fds /\ v.fds[1] = Closed
            /\ v.fds[0] # Closed /\ v.fds[l] # Closed
        BY <2>6, <3>3, <4>1 DEF OutputSaved, OutChanged
      <4> QED BY <3>2, <4>2, PutBack
    <3> QED BY <2>6, <2>9, <3>3, <3>4, ListingRefused
  <2> QED BY <2>10, <2>11
<1>4. ASSUME env.withList, x.oupState = 1 PROVE OutputKept(y, x) /\ y.oupState \in {1, 2}
  <2>1. CASE x.errflag
    <3>1. y = x  BY <1>1, <2>1
    <3> QED BY <1>2, <1>4, <3>1
  <2>2. CASE ~x.errflag
    <3>1. PICK t : t = [x EXCEPT !.oupState = @ + 1]  OBVIOUS
    <3>2. PICK c : c = Close(t, 1)  OBVIOUS
    <3>3. t.oupState = 2 /\ t.origoup = x.origoup
      <4>1. t.oupState = 1 + 1 /\ t.origoup = x.origoup  BY <1>0, <1>4, <3>1 DEF Globs
      <4> QED BY <4>1
    <3>4. PICK a, b : y = CASE t.oupState = 1 -> a
                            [] t.oupState = 2 -> Close(Dup(c, t.origoup), t.origoup)
                            [] t.oupState = 3 -> b
      <4>1. y = CASE t.oupState = 1 ->
                       IF opened THEN OpenFile(Close([Dup(t, 1) EXCEPT !.origoup = LowestFree(t)], 1),
                                               Listing)
                       ELSE Close(Dup([Close([Dup(t, 1) EXCEPT !.origoup = LowestFree(t)], 1)
                                         EXCEPT !.errflag = TRUE],
                                      [Dup(t, 1) EXCEPT !.origoup = LowestFree(t)].origoup),
                                  [Dup(t, 1) EXCEPT !.origoup = LowestFree(t)].origoup)
                  [] t.oupState = 2 -> Close(Dup(c, t.origoup), t.origoup)
                  [] t.oupState = 3 -> IF opened THEN OpenFile(c, Listing) ELSE c
        BY <1>4, <2>2, <3>1, <3>2 DEF SwcOup
      <4> QED BY <4>1
    <3>5. y = Close(Dup(c, x.origoup), x.origoup)
      <4>1. y = Close(Dup(c, t.origoup), t.origoup)  BY <3>3, <3>4
      <4> QED BY <3>3, <4>1
    <3>6. Listed(x)  BY <1>4, <2>2 DEF Listed
    <3>7. OutputKept(y, x) /\ y.oupState = 2  BY <3>1, <3>2, <3>5, <3>6, ListingLeft
    <3> QED BY <3>7
  <2> QED BY <1>0, <2>1, <2>2
<1> QED BY <1>1, <1>3, <1>4

-----------------------------------------------------------------------------
(* The files of the command line.                                           *)

(* What the next file leaves alone.                                         *)
SameInput(y, x) ==
  /\ y.originp = x.originp /\ y.save_fd0 = x.save_fd0 /\ y.inc = x.inc
  /\ y.inpcnt = x.inpcnt /\ y.executing = x.executing
  /\ y.first_record = x.first_record /\ y.provide_name = x.provide_name
  /\ y.oupState = x.oupState /\ y.origoup = x.origoup /\ y.errflag = x.errflag

(* Descriptor 0 closed, and one name counted.                               *)
Counted(u, x) ==
  /\ u \in Globs /\ SameInput(u, x) /\ u.curfile = x.curfile + 1 /\ u.cmdcnt = x.cmdcnt + 1
  /\ u.fds = Clrbuf(Close(x, 0)).fds /\ u.open = Clrbuf(Close(x, 0)).open

(* The first part of swcinp.                                                *)
LEMMA NextArgCounts ==
  ASSUME NEW x, Kept(x, FALSE), NEW u, u = NextArg(x)
  PROVE  Counted(u, x)
<1>1. Tables(x) /\ 0 \in Fd /\ x.fds[0] # Closed  BY UsedOpen, Numbers DEF Kept, Uses
<1>2. PICK c : c = Close(x, 0)  OBVIOUS
<1>3. ClosedAt(c, x, 0)  BY <1>1, <1>2, CloseTables
<1>4. PICK z : z = Clrbuf(c)  OBVIOUS
<1>5. z \in Globs /\ SameVars(z, c)
  <2>1. c \in Globs  BY <1>3 DEF ClosedAt, Tables
  <2> QED BY <1>4, <2>1, ClrbufReads DEF Reads
<1>6. SameVars(z, x)  BY <1>3, <1>5 DEF ClosedAt, SameVars
<1>7. u = [z EXCEPT !.cmdcnt = @ + 1, !.curfile = @ + 1]  BY <1>2, <1>4 DEF NextArg
<1>8. z.cmdcnt \in Int /\ z.curfile \in Nat /\ z.cmdcnt + 1 \in Int /\ z.curfile + 1 \in Nat
  BY <1>5 DEF Globs
<1>9. PICK m, n : m = z.cmdcnt + 1 /\ n = z.curfile + 1  OBVIOUS
<1>10. u = [z EXCEPT !.cmdcnt = m, !.curfile = n] /\ m \in Int /\ n \in Nat
  BY <1>5, <1>7, <1>8, <1>9 DEF Globs
<1>11. /\ u \in Globs /\ u.fds = z.fds /\ u.open = z.open /\ SameInput(u, z)
       /\ u.cmdcnt = m /\ u.curfile = n
  BY <1>5, <1>10 DEF Globs, SameInput
<1>12. SameInput(u, x) /\ u.cmdcnt = x.cmdcnt + 1 /\ u.curfile = x.curfile + 1
  BY <1>6, <1>9, <1>11 DEF SameInput, SameVars
<1> QED BY <1>2, <1>4, <1>11, <1>12 DEF Counted

(* A file on descriptor 0 instead.                                          *)
FileSwitched(y, x, u, f) ==
  /\ Kept(y, FALSE) /\ SameVars(y, u) /\ FileAt(y, 0) = f

(* It is the shell's input, for the name '-'.                               *)
LEMMA DashOpened ==
  ASSUME NEW x, Kept(x, FALSE), NEW u, Counted(u, x), NEW y, y = Dup(u, u.originp)
  PROVE  FileSwitched(y, x, u, Shell)
<1>1. /\ x \in Globs /\ Tables(x) /\ x.originp \in Fd \ {0} /\ 0 \in Fd
      /\ x.fds[0] # Closed /\ x.fds[x.originp] # Closed /\ x.fds[x.originp] \in Opens
      /\ x.fds \in [Fd -> 0 .. MaxOpen]
      /\ FileAt(x, x.originp) = EntryAt(x, x.originp).file /\ FileAt(x, x.originp) = Shell
  BY UsedOpen, Numbers DEF Uses, Kept, Output
<1>2. PICK z : z = Clrbuf(Close(x, 0))  OBVIOUS
<1>3. u \in Globs /\ u.fds = z.fds /\ u.open = z.open /\ y = Dup(u, x.originp)
  BY <1>2 DEF Counted, SameInput
<1>4. /\ Tables(y) /\ SameVars(y, u)
      /\ y.fds = [x.fds EXCEPT ![0] = x.fds[x.originp]]
      /\ \A e \in Fd : e # 0 /\ x.fds[e] # Closed => EntryAt(y, e) = EntryAt(x, e)
      /\ EntryAt(y, 0) = EntryAt(x, x.originp)
  BY <1>1, <1>2, <1>3, Redup
<1>5. SameUses(y, x) /\ y.save_fd0 = x.save_fd0
  BY <1>4 DEF Counted, SameVars, SameInput, SameUses
<1>6. Kept(y, FALSE)
  <2>1. PICK o \in Opens : o = x.fds[x.originp]  BY <1>1
  <2>2. y.fds = [x.fds EXCEPT ![0] = o]  BY <1>4, <2>1
  <2> QED BY <1>4, <1>5, <2>2, SwitchKept
<1>7. FileAt(y, 0) = Shell
  <2>1. y.fds[0] # Closed  BY <1>1, <1>4
  <2>2. FileAt(y, 0) = EntryAt(y, 0).file  BY <1>1, <1>4, <2>1, Fields DEF Tables
  <2> QED BY <1>1, <1>4, <2>2
<1> QED BY <1>4, <1>6, <1>7 DEF FileSwitched

(* Or a file opened.                                                        *)
LEMMA FileOpened ==
  ASSUME NEW x, Kept(x, FALSE), NEW u, Counted(u, x), NEW f \in FileSet \ {NoFile},
         NEW y, y = OpenFile(u, f)
  PROVE  FileSwitched(y, x, u, f)
<1>1. /\ x \in Globs /\ Tables(x) /\ 0 \in Fd /\ x.fds[0] # Closed
      /\ x.fds \in [Fd -> 0 .. MaxOpen] /\ Len(x.inc) <= Depth
  BY UsedOpen, Numbers DEF Uses, Kept
<1>2. PICK z : z = Clrbuf(Close(x, 0))  OBVIOUS
<1>3. u \in Globs /\ u.fds = z.fds /\ u.open = z.open /\ u.inc = x.inc
  BY <1>2 DEF Counted, SameInput
<1>4. PICK a, b, c : a = x.fds[1] /\ b = x.fds[2] /\ c = x.fds[x.originp]  OBVIOUS
<1>5. ASSUME NEW fd \in Fd, fd # 0, x.fds[fd] # Closed
      PROVE  x.fds[fd] \in {a, b, c} \cup {x.fds[x.inc[i].fd] : i \in DOMAIN x.inc}
  <2>1. fd \in {1, 2, x.originp} \cup IncFds(x) \/ (Listed(x) /\ fd = x.origoup)
    BY <1>5 DEF Kept, Uses
  <2>2. CASE fd \in IncFds(x)
    <3>1. PICK i \in DOMAIN x.inc : fd = x.inc[i].fd  BY <2>2 DEF IncFds
    <3> QED BY <3>1
  <2>3. CASE Listed(x) /\ fd = x.origoup
    <3>1. x.fds[x.origoup] = x.fds[2]  BY <2>3 DEF Kept, Output
    <3> QED BY <1>4, <2>3, <3>1
  <2> QED BY <1>4, <2>1, <2>2, <2>3
<1>6. \A i \in DOMAIN x.inc : x.inc[i].fd # 0  BY DEF Kept, Apart
<1>7. SwitchedTo(y, x, u, f)
  BY <1>1, <1>2, <1>3, <1>5, <1>6, Reopen
<1>8. PICK o \in Opens : y.fds = [x.fds EXCEPT ![0] = o]  BY <1>7 DEF SwitchedTo
<1>9. /\ Tables(y) /\ SameVars(y, u) /\ EntryAt(y, 0) = [file |-> f, pos |-> 0]
      /\ \A e \in Fd : e # 0 /\ x.fds[e] # Closed => EntryAt(y, e) = EntryAt(x, e)
  BY <1>7 DEF SwitchedTo
<1>10. SameUses(y, x) /\ y.save_fd0 = x.save_fd0
  BY <1>9 DEF Counted, SameVars, SameInput, SameUses
<1>11. Kept(y, FALSE)  BY <1>8, <1>9, <1>10, SwitchKept
<1>12. FileAt(y, 0) = f
  <2>1. y.fds[0] # Closed  BY <1>1, <1>8, Numbers
  <2>2. FileAt(y, 0) = EntryAt(y, 0).file  BY <1>1, <1>9, <2>1, Fields DEF Tables
  <2> QED BY <1>9, <2>2
<1> QED BY <1>9, <1>11, <1>12 DEF FileSwitched

(* The file on descriptor 0 is the one that the name last counted stands for. *)
Named(y) ==
  \/ FileAt(y, 0) = Shell /\ env.args[y.curfile] = Dash
  \/ \E ext \in Range(SourceExts) : FileAt(y, 0) = <<env.args[y.curfile], ext>>

(* What swcinp answers, and what then holds.                                *)
NextInput(y, x) ==
  /\ y.ret \in {"file", "eof", "exit"}
  /\ y.ret # "exit" => Kept(y, FALSE) /\ SameInput(y, x)
  /\ y.ret = "exit" => x.curfile < x.inpcnt \/ ~x.executing
  /\ y.ret = "eof" => /\ y.curfile = x.curfile /\ y.cmdcnt = x.cmdcnt
                      /\ ~(x.curfile < x.inpcnt) /\ \A fd : FileAt(y, fd) = FileAt(x, fd)
  /\ y.ret = "file" =>
       \/ /\ x.curfile < x.inpcnt /\ y.curfile = x.curfile + 1 /\ y.cmdcnt = x.cmdcnt + 1
          /\ Named(y)
       \/ x.executing \/ x.inpcnt = 0

(* A candidate is a file there is, of the name and an extension.            *)
LEMMA CandidateFile ==
  ASSUME NEW x, NEW name, NEW found, found = Candidates(x, name), found # {},
         NEW f, f = WithExts(name)[Min(found)]
  PROVE  /\ f \in FileSet \ {NoFile} /\ \E ext \in Range(SourceExts) : f = <<name, ext>>
         /\ f \in DOMAIN Text
<1>1. DOMAIN SourceExts \subseteq Nat
  <2>1. SourceExts \in Seq(Range(SourceExts))  BY StandardFilesAssumption DEF Sequence
  <2>2. DOMAIN SourceExts = 1 .. Len(SourceExts) /\ Len(SourceExts) \in Nat
    BY <2>1, LenProperties
  <2> QED BY <2>2
<1>2. found \subseteq Nat  BY <1>1 DEF Candidates
<1>3. PICK i : i = Min(found)  OBVIOUS
<1>4. i \in found  BY <1>2, <1>3, LeastOf
<1>5. i \in DOMAIN SourceExts /\ f \in DOMAIN Text /\ f = <<name, SourceExts[i]>>
  BY <1>3, <1>4 DEF Candidates, WithExts
<1>6. f \in FileSet \ {NoFile}  BY <1>5, StandardFilesAssumption DEF FileSet
<1>7. SourceExts[i] \in Range(SourceExts)  BY <1>5 DEF Range
<1> QED BY <1>5, <1>6, <1>7

(* The answer of a switch.                                                  *)
LEMMA RetFile ==
  ASSUME NEW x, NEW u, NEW y, NEW f, FileSwitched(y, x, u, f), NEW z, z = [y EXCEPT !.ret = "file"]
  PROVE  /\ Kept(z, FALSE) /\ FileAt(z, 0) = f /\ z.ret = "file"
         /\ z.curfile = u.curfile /\ z.cmdcnt = u.cmdcnt /\ SameInput(z, u)
<1>1. Kept(y, FALSE) /\ Tables(y) /\ SameVars(y, u) /\ FileAt(y, 0) = f
  BY DEF FileSwitched, Kept
<1>2. /\ Tables(z) /\ z.fds = y.fds /\ SameRest(z, y) /\ z.ret = "file" /\ SameUses(z, y)
      /\ z.inc = y.inc /\ \A fd : FileAt(z, fd) = FileAt(y, fd)
  BY <1>1, RetChange
<1>3. Kept(z, FALSE)  BY <1>1, <1>2, SameFilesKept
<1>4. /\ z.curfile = u.curfile /\ z.cmdcnt = u.cmdcnt /\ SameInput(z, u)
  BY <1>1, <1>2 DEF SameRest, SameVars, SameInput
<1> QED BY <1>1, <1>2, <1>3, <1>4

(* swcinp once the shell's descriptor is known.                             *)
LEMMA InputStep ==
  ASSUME NEW x, Kept(x, FALSE), NEW y, y = SwcInp(x)
  PROVE  NextInput(y, x)
<1>0. x \in Globs /\ Tables(x) /\ x.originp \in Fd /\ x.readshell0 \in BOOLEAN
      /\ x.executing \in BOOLEAN
  BY DEF Kept, Tables, Apart, Globs
<1>1. PICK u : u = NextArg(x)  OBVIOUS
<1>2. PICK name : name = env.args[u.curfile]  OBVIOUS
<1>3. PICK found : found = Candidates(u, name)  OBVIOUS
<1>4. ~(x.originp < 0)  BY <1>0, Numbers DEF Fd
<1>5. y = IF x.curfile < x.inpcnt
            THEN IF name = Dash     THEN [Dup(u, u.originp) EXCEPT !.ret = "file"]
                 ELSE IF found = {} THEN [u EXCEPT !.ret = "exit"]
                 ELSE [OpenFile(u, WithExts(name)[Min(found)]) EXCEPT !.ret = "file"]
          ELSE IF ~x.readshell0 THEN [x EXCEPT !.ret = "eof"]
          ELSE IF ~x.executing /\ x.inpcnt > 0 THEN [x EXCEPT !.ret = "exit"]
          ELSE [ShellInput(x) EXCEPT !.readshell0 = FALSE, !.ret = "file"]
  BY <1>1, <1>2, <1>3, <1>4 DEF SwcInp
<1>6. CASE x.curfile < x.inpcnt
  <2>1. Counted(u, x)  BY <1>1, NextArgCounts
  <2>2. u \in Globs /\ SameInput(u, x) /\ u.curfile = x.curfile + 1 /\ u.cmdcnt = x.cmdcnt + 1
    BY <2>1 DEF Counted
  <2>3. CASE name = Dash
    <3>1. PICK d : d = Dup(u, u.originp)  OBVIOUS
    <3>2. y = [d EXCEPT !.ret = "file"]  BY <1>5, <1>6, <2>3, <3>1
    <3>3. FileSwitched(d, x, u, Shell)  BY <2>1, <3>1, DashOpened
    <3>4. /\ Kept(y, FALSE) /\ FileAt(y, 0) = Shell /\ y.ret = "file"
          /\ y.curfile = u.curfile /\ y.cmdcnt = u.cmdcnt /\ SameInput(y, u)
      BY <3>2, <3>3, RetFile
    <3>5. Named(y)  BY <1>2, <2>3, <3>4 DEF Named
    <3> QED BY <1>6, <2>2, <3>4, <3>5 DEF NextInput, SameInput
  <2>4. CASE name # Dash /\ found = {}
    <3>1. y = [u EXCEPT !.ret = "exit"]  BY <1>5, <1>6, <2>4
    <3>2. y.ret = "exit"  BY <2>2, <3>1 DEF Globs
    <3> QED BY <1>6, <3>2 DEF NextInput
  <2>5. CASE name # Dash /\ found # {}
    <3>1. PICK f : f = WithExts(name)[Min(found)]  OBVIOUS
    <3>2. f \in FileSet \ {NoFile} /\ \E ext \in Range(SourceExts) : f = <<name, ext>>
      BY <1>3, <2>5, <3>1, CandidateFile
    <3>3. PICK d : d = OpenFile(u, f)  OBVIOUS
    <3>4. y = [d EXCEPT !.ret = "file"]  BY <1>5, <1>6, <2>5, <3>1, <3>3
    <3>5. FileSwitched(d, x, u, f)  BY <2>1, <3>2, <3>3, FileOpened
    <3>6. /\ Kept(y, FALSE) /\ FileAt(y, 0) = f /\ y.ret = "file"
          /\ y.curfile = u.curfile /\ y.cmdcnt = u.cmdcnt /\ SameInput(y, u)
      BY <3>4, <3>5, RetFile
    <3>7. Named(y)  BY <1>2, <3>2, <3>6 DEF Named
    <3> QED BY <1>6, <2>2, <3>6, <3>7 DEF NextInput, SameInput
  <2> QED BY <2>3, <2>4, <2>5
<1>7. CASE ~(x.curfile < x.inpcnt) /\ ~x.readshell0
  <2>1. y = [x EXCEPT !.ret = "eof"]  BY <1>5, <1>7
  <2>2. /\ Tables(y) /\ y.fds = x.fds /\ SameRest(y, x) /\ y.ret = "eof" /\ SameUses(y, x)
        /\ y.inc = x.inc /\ \A fd : FileAt(y, fd) = FileAt(x, fd)
    BY <1>0, <2>1, RetChange
  <2>3. Kept(y, FALSE)  BY <2>2, SameFilesKept
  <2> QED BY <1>7, <2>2, <2>3 DEF NextInput, SameInput, SameRest
<1>8. CASE ~(x.curfile < x.inpcnt) /\ x.readshell0 /\ ~x.executing /\ x.inpcnt > 0
  <2>1. y = [x EXCEPT !.ret = "exit"]  BY <1>5, <1>8
  <2>2. y.ret = "exit"  BY <1>0, <2>1 DEF Globs
  <2> QED BY <1>8, <2>2 DEF NextInput
<1>9. CASE ~(x.curfile < x.inpcnt) /\ x.readshell0 /\ ~(~x.executing /\ x.inpcnt > 0)
  <2>1. PICK d : d = ShellInput(x)  OBVIOUS
  <2>2. y = [d EXCEPT !.readshell0 = FALSE, !.ret = "file"]  BY <1>5, <1>9, <2>1
  <2>3. Kept(d, FALSE) /\ SameVars(d, x)  BY <2>1, ShellSwitch
  <2>4. /\ y \in Globs /\ y.fds = d.fds /\ y.open = d.open /\ SameInput(y, d) /\ y.ret = "file"
    <3>1. d \in Globs  BY <2>3 DEF Kept, Tables
    <3> QED BY <2>2, <3>1 DEF Globs, SameInput
  <2>5. Kept(y, FALSE)
    <3>1. SameUses(y, d)  BY <2>4 DEF SameInput, SameUses
    <3> QED BY <2>3, <2>4, <3>1, SameKept
  <2>6. SameInput(y, x)  BY <2>3, <2>4 DEF SameInput, SameVars
  <2>7. x.executing \/ x.inpcnt = 0
    <3>1. x.inpcnt \in Nat  BY <1>0 DEF Globs
    <3>2. x.executing \/ ~(x.inpcnt > 0)  BY <1>9
    <3> QED BY <3>1, <3>2
  <2> QED BY <2>4, <2>5, <2>6, <2>7 DEF NextInput
<1>10. (x.curfile < x.inpcnt) \/ (~(x.curfile < x.inpcnt) /\ ~x.readshell0)
       \/ (~(x.curfile < x.inpcnt) /\ x.readshell0 /\ ~x.executing /\ x.inpcnt > 0)
       \/ (~(x.curfile < x.inpcnt) /\ x.readshell0 /\ ~(~x.executing /\ x.inpcnt > 0))
  OBVIOUS
<1> QED BY <1>6, <1>7, <1>8, <1>9, <1>10

(* swcinp after it has looked for the shell's descriptor.                   *)
NextOf(t) ==
  LET u == NextArg(t)
  IN  IF t.curfile < t.inpcnt
        THEN LET name  == env.args[u.curfile]
                 found == Candidates(u, name)
             IN  IF name = Dash     THEN [Dup(u, u.originp) EXCEPT !.ret = "file"]
                 ELSE IF found = {} THEN [u EXCEPT !.ret = "exit"]
                 ELSE [OpenFile(u, WithExts(name)[Min(found)]) EXCEPT !.ret = "file"]
      ELSE IF ~t.readshell0 THEN [t EXCEPT !.ret = "eof"]
      ELSE IF ~t.executing /\ t.inpcnt > 0 THEN [t EXCEPT !.ret = "exit"]
      ELSE [ShellInput(t) EXCEPT !.readshell0 = FALSE, !.ret = "file"]

(* What the program starts with, once the shell's input has its own descriptor. *)
Started(t) ==
  /\ Kept(t, FALSE) /\ t.inc = <<>> /\ t.curfile = 0 /\ t.inpcnt = Len(env.args)
  /\ t.cmdcnt = FirstArg /\ t.executing = FALSE /\ t.errflag = FALSE /\ t.oupState = 0
  /\ t.buf = EmptyBuf /\ t.fds[0] = t.fds[t.originp]
  /\ EntryAt(t, t.originp) = [file |-> Shell, pos |-> 0]

(* The descriptors and the entries that the shell gives.                    *)
FirstFds ==
  [fd \in 0 .. MaxFd |-> CASE fd = 0 -> 1 [] fd \in {1, 2} -> 2 [] OTHER -> Closed]
FirstOpen ==
  [o \in 1 .. MaxOpen |-> CASE o = 1 -> [file |-> Shell, pos |-> 0]
                             [] o = 2 -> [file |-> ShellOut, pos |-> 0]
                             [] OTHER -> [file |-> NoFile, pos |-> 0]]

(* Those in use.                                                            *)
FirstUsed ==
  /\ FirstFds[0] = 1 /\ FirstFds[1] = 2 /\ FirstFds[2] = 2
  /\ \A fd \in Fd : fd \notin {0, 1, 2} => FirstFds[fd] = Closed
  /\ FirstOpen[1] = [file |-> Shell, pos |-> 0] /\ FirstOpen[2].file = ShellOut
  /\ \A o \in Opens : o \notin {1, 2} => FirstOpen[o].file = NoFile

(* The globals as main finds them.                                          *)
LEMMA FirstGlobals ==
  ASSUME env \in Commands, NEW x, x = GetArgs(Globals)
  PROVE  /\ x \in Globs /\ x.fds = FirstFds /\ x.open = FirstOpen /\ x.originp = -1 /\ x.inc = <<>>
         /\ x.curfile = 0 /\ x.inpcnt = Len(env.args) /\ x.cmdcnt = FirstArg
         /\ x.executing = FALSE /\ x.errflag = FALSE /\ x.oupState = 0 /\ x.buf = EmptyBuf
         /\ FirstUsed
<1>1. /\ env.fromSource \in BOOLEAN /\ Len(env.args) \in Nat /\ env.args # <<>>
      /\ FirstArg \in Int
  <2>1. env.args \in Seq(Range(env.args)) /\ env.args # <<>> /\ env.fromSource \in BOOLEAN
        /\ FirstArg \in Int
    BY StandardFilesAssumption DEF Sequence
  <2> QED BY <2>1, LenProperties
<1> DEFINE F == FirstFds
           O == FirstOpen
<1>3. /\ 0 \in Fd /\ 1 \in Fd /\ 2 \in Fd /\ 1 \in Opens /\ 2 \in Opens
      /\ 0 \in 0 .. MaxOpen /\ 1 \in 0 .. MaxOpen /\ 2 \in 0 .. MaxOpen
  BY Numbers DEF Fd, Opens
<1>4. F \in [Fd -> 0 .. MaxOpen] /\ F[0] = 1 /\ F[1] = 2 /\ F[2] = 2
      /\ \A fd \in Fd : fd \notin {0, 1, 2} => F[fd] = Closed
  BY <1>3, Numbers DEF Fd, FirstFds
<1>5. O \in [Opens -> Entry] /\ O[1] = [file |-> Shell, pos |-> 0] /\ O[2].file = ShellOut
      /\ \A o \in Opens : o \notin {1, 2} => O[o].file = NoFile
  <2>1. Shell \in FileSet /\ ShellOut \in FileSet /\ NoFile \in FileSet /\ 0 \in Int
    BY StandardFilesAssumption DEF FileSet
  <2> QED BY <1>3, <2>1 DEF Opens, Entry, FirstOpen
<1> HIDE DEF F, O
<1>6. /\ x \in Globs /\ x.fds = F /\ x.open = O /\ x.originp = -1 /\ x.inc = <<>>
      /\ x.curfile = 0 /\ x.inpcnt = Len(env.args) /\ x.cmdcnt = FirstArg
      /\ x.executing = FALSE /\ x.errflag = FALSE /\ x.oupState = 0 /\ x.buf = EmptyBuf
  <2>1. PICK g : g = Globals  OBVIOUS
  <2>2. g = [ fds |-> F, open |-> O, buf |-> EmptyBuf, originp |-> -1, save_fd0 |-> -1,
              inc |-> <<>>, curfile |-> 0, inpcnt |-> 0, cmdcnt |-> 0,
              readshell0 |-> TRUE, executing |-> FALSE, first_record |-> TRUE,
              provide_name |-> TRUE, oupState |-> 0, origoup |-> 1, errflag |-> FALSE,
              ret |-> "none" ]
    BY <2>1 DEF Globals, F, O, FirstFds, FirstOpen
  <2>3. EmptyBuf \in Buffer  BY EmptyBuffer DEF EmptyBuf
  <2>4. -1 \in -1 .. MaxFd /\ <<>> \in Seq([fd : Fd, pos : Int])  BY Numbers
  <2>5. PICK n, r : n = Len(env.args) /\ r = ~env.fromSource  OBVIOUS
  <2>6. x = [g EXCEPT !.inpcnt = n, !.cmdcnt = FirstArg, !.readshell0 = r]
    BY <2>1, <2>5 DEF GetArgs
  <2>7. n \in Nat /\ r \in BOOLEAN /\ FirstArg \in Int  BY <1>1, <2>5
  <2>8. x = [ fds |-> F, open |-> O, buf |-> EmptyBuf, originp |-> -1, save_fd0 |-> -1,
              inc |-> <<>>, curfile |-> 0, inpcnt |-> n, cmdcnt |-> FirstArg,
              readshell0 |-> r, executing |-> FALSE, first_record |-> TRUE,
              provide_name |-> TRUE, oupState |-> 0, origoup |-> 1, errflag |-> FALSE,
              ret |-> "none" ]
    BY <2>2, <2>6
  <2> QED BY <1>3, <1>4, <1>5, <2>3, <2>4, <2>5, <2>7, <2>8 DEF Globs
<1>7. FirstUsed  BY <1>4, <1>5 DEF FirstUsed, F, O
<1> QED BY <1>6, <1>7 DEF F, O

(* The first call of swcinp.                                                *)
LEMMA FirstInput ==
  ASSUME env \in Commands
  PROVE  \E t : Started(t) /\ SwcInp(GetArgs(Globals)) = SwcInp(t)
<1>2. PICK x : x = GetArgs(Globals)  OBVIOUS
<1> DEFINE F == FirstFds
           O == FirstOpen
<1>3. /\ 0 \in Fd /\ 1 \in Fd /\ 2 \in Fd /\ 3 \in Fd /\ 1 \in Opens /\ 2 \in Opens
      /\ 0 \in 0 .. MaxOpen /\ 1 \in 0 .. MaxOpen /\ 2 \in 0 .. MaxOpen
  BY Numbers DEF Fd, Opens
<1>1. /\ x \in Globs /\ x.fds = FirstFds /\ x.open = FirstOpen /\ x.originp = -1 /\ x.inc = <<>>
      /\ x.curfile = 0 /\ x.inpcnt = Len(env.args) /\ x.cmdcnt = FirstArg
      /\ x.executing = FALSE /\ x.errflag = FALSE /\ x.oupState = 0 /\ x.buf = EmptyBuf
      /\ FirstUsed
  BY <1>2, FirstGlobals
<1>4. F \in [Fd -> 0 .. MaxOpen] /\ F[0] = 1 /\ F[1] = 2 /\ F[2] = 2
      /\ \A fd \in Fd : fd \notin {0, 1, 2} => F[fd] = Closed
  BY <1>1 DEF FirstUsed, Globs
<1>5. O \in [Opens -> Entry] /\ O[1] = [file |-> Shell, pos |-> 0] /\ O[2].file = ShellOut
      /\ \A o \in Opens : o \notin {1, 2} => O[o].file = NoFile
  BY <1>1 DEF FirstUsed, Globs
<1>6. /\ x \in Globs /\ x.fds = F /\ x.open = O /\ x.originp = -1 /\ x.inc = <<>>
      /\ x.curfile = 0 /\ x.inpcnt = Len(env.args) /\ x.cmdcnt = FirstArg
      /\ x.executing = FALSE /\ x.errflag = FALSE /\ x.oupState = 0 /\ x.buf = EmptyBuf
  BY <1>1
<1> HIDE DEF F, O
<1>7. Tables(x)
  <2> SUFFICES ASSUME NEW o \in Opens
               PROVE  O[o].file # NoFile <=> \E fd \in Fd : F[fd] = o
    BY <1>6 DEF Tables
  <2>1. CASE o = 1  BY <1>3, <1>4, <1>5, <2>1, StandardFilesAssumption
  <2>2. CASE o = 2  BY <1>3, <1>4, <1>5, <2>2, StandardFilesAssumption
  <2>3. CASE o \notin {1, 2}
    <3>1. O[o].file = NoFile  BY <1>5, <2>3
    <3>2. \A fd \in Fd : F[fd] \in {0, 1, 2}  BY <1>4, Numbers
    <3>3. o # 0  BY Numbers
    <3> QED BY <2>3, <3>1, <3>2, <3>3
  <2> QED BY <2>1, <2>2, <2>3
<1>8. PICK l : l = LowestFree(x)  OBVIOUS
<1>9. l = 3
  <2>1. x.fds \in [Fd -> 0 .. MaxOpen] /\ x.fds[3] = Closed  BY <1>3, <1>4, <1>6
  <2>2. l \in Fd /\ x.fds[l] = Closed /\ l <= 3  BY <1>3, <1>8, <2>1, Lowest
  <2>3. l \notin {0, 1, 2}  BY <1>4, <1>6, <2>2, Numbers
  <2> QED BY <2>2, <2>3, Numbers DEF Fd
<1>10. PICK d : d = Dup(x, 0)  OBVIOUS
<1>11. DupedAt(d, x, 3, 0)
  <2>1. x.fds[0] # Closed /\ l \in Fd /\ x.fds[l] = Closed  BY <1>3, <1>4, <1>6, <1>9, Numbers
  <2>2. DupedAt(d, x, l, 0)  BY <1>3, <1>7, <1>8, <1>10, <2>1, DupTables
  <2> QED BY <1>9, <2>2
<1>12. PICK t : t = [d EXCEPT !.originp = 3]  OBVIOUS
<1>13. /\ d \in Globs /\ d.fds = [F EXCEPT ![3] = 1] /\ EntryAt(d, 3) = EntryAt(x, 0)
       /\ d.inc = <<>> /\ d.curfile = 0 /\ d.inpcnt = Len(env.args) /\ d.cmdcnt = FirstArg
       /\ d.executing = FALSE /\ d.errflag = FALSE /\ d.oupState = 0
       /\ EntryAt(d, 2) = EntryAt(x, 2) /\ d.buf = EmptyBuf
  BY <1>3, <1>4, <1>6, <1>11, Numbers DEF DupedAt, Tables, SameVars
<1>14. /\ t \in Globs /\ t.fds = [F EXCEPT ![3] = 1] /\ t.open = d.open /\ t.originp = 3
       /\ t.inc = <<>> /\ t.curfile = 0 /\ t.inpcnt = Len(env.args) /\ t.cmdcnt = FirstArg
       /\ t.executing = FALSE /\ t.errflag = FALSE /\ t.oupState = 0 /\ t.buf = EmptyBuf
  <2>1. 3 \in -1 .. MaxFd  BY <1>3 DEF Fd
  <2> QED BY <1>12, <1>13, <2>1 DEF Globs
<1>15. Tables(t) /\ \A fd : EntryAt(t, fd) = EntryAt(d, fd)
  BY <1>11, <1>13, <1>14, GlobalsTables DEF DupedAt
<1>16. /\ t.fds[0] = 1 /\ t.fds[1] = 2 /\ t.fds[2] = 2 /\ t.fds[3] = 1
       /\ \A fd \in Fd : fd \notin {0, 1, 2, 3} => t.fds[fd] = Closed
  BY <1>3, <1>4, <1>14
<1>17. ~Listed(t)  BY <1>14 DEF Listed
<1>18. IncFds(t) = {}  BY <1>14 DEF IncFds
<1>19. Apart(t, FALSE)
  <2>1. \A i \in DOMAIN t.inc : FALSE  BY <1>14
  <2> QED BY <1>3, <1>14, <1>17, <2>1 DEF Apart
<1>20. \A fd \in Fd : t.fds[fd] # Closed <=> fd \in Uses(t, FALSE)
  <2>1. Uses(t, FALSE) = {0, 1, 2, 3}  BY <1>14, <1>17, <1>18 DEF Uses
  <2>2. 1 # Closed /\ 2 # Closed  BY Numbers
  <2> TAKE fd \in Fd
  <2>3. CASE fd \in {0, 1, 2, 3}  BY <1>16, <2>1, <2>2, <2>3
  <2>4. CASE fd \notin {0, 1, 2, 3}  BY <1>16, <2>1, <2>4
  <2> QED BY <2>3, <2>4
<1>21. Output(t)
  <2>1. FileAt(t, 3) = Shell
    <3>1. EntryAt(x, 0).file = Shell  BY <1>4, <1>5, <1>6 DEF EntryAt
    <3>2. t.fds[3] # Closed  BY <1>16, Numbers
    <3>3. FileAt(t, 3) = EntryAt(t, 3).file  BY <1>3, <1>14, <3>2, Fields
    <3> QED BY <1>13, <1>15, <3>1, <3>3
  <2>2. FileAt(t, 2) = ShellOut
    <3>1. EntryAt(x, 2).file = ShellOut  BY <1>4, <1>5, <1>6 DEF EntryAt
    <3>2. t.fds[2] # Closed  BY <1>16, Numbers
    <3>3. FileAt(t, 2) = EntryAt(t, 2).file  BY <1>3, <1>14, <3>2, Fields
    <3> QED BY <1>13, <1>15, <3>1, <3>3
  <2> QED BY <1>14, <1>16, <1>17, <2>1, <2>2 DEF Output
<1>22. Kept(t, FALSE)
  <2>1. Len(t.inc) <= Depth
    <3>1. Len(<<>>) = 0  BY EmptySeq
    <3> QED BY <1>14, <3>1, Numbers
  <2> QED BY <1>15, <1>19, <1>20, <1>21, <2>1 DEF Kept
<1>23. Started(t)
  <2>1. EntryAt(t, 3) = [file |-> Shell, pos |-> 0]
    <3>1. EntryAt(x, 0) = [file |-> Shell, pos |-> 0]  BY <1>4, <1>5, <1>6 DEF EntryAt
    <3> QED BY <1>13, <1>15, <3>1
  <2> QED BY <1>14, <1>16, <1>22, <2>1 DEF Started
<1>24. SwcInp(x) = NextOf(t)
  <2>1. SwcInp(x) = NextOf(IF x.originp < 0 THEN [Dup(x, 0) EXCEPT !.originp = LowestFree(x)] ELSE x)
    BY DEF SwcInp, NextOf
  <2>2. x.originp < 0  BY <1>6
  <2>3. [Dup(x, 0) EXCEPT !.originp = LowestFree(x)] = t  BY <1>8, <1>9, <1>10, <1>12
  <2> QED BY <2>1, <2>2, <2>3
<1>25. SwcInp(t) = NextOf(t)
  <2>1. SwcInp(t) = NextOf(IF t.originp < 0 THEN [Dup(t, 0) EXCEPT !.originp = LowestFree(t)] ELSE t)
    BY DEF SwcInp, NextOf
  <2>2. ~(t.originp < 0)  BY <1>14
  <2> QED BY <2>1, <2>2
<1> QED BY <1>2, <1>23, <1>24, <1>25

-----------------------------------------------------------------------------
(* The invariant.                                                           *)

(* The file being compiled, or that the includes suspend, is the one of the *)
(* name taken last.                                                         *)
NameIs(e, x) ==
  IF Bottom(x) = Shell THEN e.args[x.curfile] = Dash ELSE Bottom(x)[1] = e.args[x.curfile]

(* The names taken are counted for HOST(0), but in a script met late.       *)
Counts(e, x) ==
  /\ x.curfile > 0 /\ x.inpcnt \in 1 .. Len(e.args)
  /\ x.curfile <= x.inpcnt => x.cmdcnt = FirstArg + x.curfile /\ NameIs(e, x)

(* While the source is compiled; c is the read under way and i the image.   *)
Compiles(e, x, c, i) ==
  /\ x.executing = FALSE /\ Counts(e, x)
  /\ c \in {"none", "zysrd", "shebang"}
  /\ c = "shebang" => x.inc = <<>> /\ x.first_record = FALSE
  /\ x.first_record => x.inc = <<>> /\ x.inpcnt = Len(e.args) /\ i \notin Includes
  /\ x.oupState = (IF e.withList THEN 1 ELSE 0)

Stages == {"start", "compile", "code", "execute", "command", "stopped"}

Inv ==
  /\ env \in Commands
  /\ stage \in Stages
  /\ stage = "start" => s = GetArgs(Globals) /\ image = "none"
  /\ stage \in {"start", "stopped", "command"} => call = "none"
  /\ stage \notin {"start", "stopped"} => Sound(s, stage = "command")
  /\ stage = "compile" => Compiles(env, s, call, image)

(* A step that keeps the descriptors and the globals keeps the count.       *)
LEMMA SameCounts ==
  ASSUME NEW e, NEW x, Counts(e, x), NEW y, y.curfile = x.curfile, y.inpcnt = x.inpcnt,
         y.cmdcnt = x.cmdcnt, Bottom(y) = Bottom(x)
  PROVE  Counts(e, y)
BY DEF Counts, NameIs

(* A step in which nothing is switched.                                     *)
Same(y, x) == IncludeKept(y, x) /\ y.inc = x.inc

(* The answer is taken.                                                     *)
LEMMA SettledSame ==
  ASSUME NEW x, Kept(x, FALSE), NEW y, y = [x EXCEPT !.ret = "none"]
  PROVE  Same(y, x)
<1>1. IncludeKept(x, x)  BY DEF IncludeKept, SameRest
<1> QED BY <1>1, RetKept DEF Same

(* The buffer is read.                                                      *)
LEMMA ReadsSame ==
  ASSUME NEW x, Kept(x, FALSE), NEW y, Reads(y, x)
  PROVE  Same(y, x)
<1>1. Kept(y, FALSE) /\ \A fd : FileAt(y, fd) = FileAt(x, fd)  BY ReadsKept
<1>2. y.inc = x.inc /\ SameRest(y, x)  BY DEF Reads, SameVars, SameRest
<1>3. Bottom(y) = Bottom(x)  BY <1>1, <1>2 DEF Bottom
<1> QED BY <1>1, <1>2, <1>3 DEF Same, IncludeKept

(* One after the other.                                                     *)
LEMMA SameCompose ==
  ASSUME NEW x, NEW y, NEW z, Same(y, x), Same(z, y)
  PROVE  Same(z, x)
BY DEF Same, IncludeKept, SameRest

(* What the compiler relies on stays.                                       *)
LEMMA SameCompiles ==
  ASSUME NEW e, NEW x, NEW c, NEW i, Compiles(e, x, c, i), NEW y, Same(y, x),
         NEW d \in {"none", "zysrd"}, NEW j, j \notin Includes
  PROVE  Compiles(e, y, d, j)
<1>1. Counts(e, x)  BY DEF Compiles
<1>2. Counts(e, y)  BY <1>1, SameCounts DEF Same, IncludeKept, SameRest
<1> QED BY <1>2 DEF Compiles, Same, IncludeKept, SameRest

(* The next file while the source is compiled: its name is counted.         *)
LEMMA NextCounts ==
  ASSUME env \in Commands, NEW x, Kept(x, FALSE), x.executing = FALSE, x.inc = <<>>,
         x.inpcnt \in 1 .. Len(env.args), x.curfile < x.inpcnt => x.cmdcnt = FirstArg + x.curfile,
         NEW y, NextInput(y, x), y.ret = "file"
  PROVE  Counts(env, y) /\ y.inc = <<>> /\ y.inpcnt = x.inpcnt
<1>1. /\ x.curfile \in Nat /\ x.cmdcnt \in Int /\ FirstArg \in Int /\ Len(env.args) \in Nat
      /\ DOMAIN env.args = 1 .. Len(env.args)
  <2>1. env.args \in Seq(Range(env.args)) /\ FirstArg \in Int
    BY StandardFilesAssumption DEF Sequence
  <2>2. x.curfile \in Nat /\ x.cmdcnt \in Int  BY DEF Kept, Tables, Globs
  <2> QED BY <2>1, <2>2, LenProperties
<1>2. /\ x.curfile < x.inpcnt /\ y.curfile = x.curfile + 1 /\ y.cmdcnt = x.cmdcnt + 1 /\ Named(y)
      /\ SameInput(y, x)
  <2>1. ~x.executing /\ x.inpcnt # 0  BY <1>1
  <2> QED BY <2>1 DEF NextInput
<1>3. y.inc = <<>> /\ y.inpcnt = x.inpcnt  BY <1>2 DEF SameInput
<1>4. y.curfile > 0 /\ y.curfile <= y.inpcnt /\ y.cmdcnt = FirstArg + y.curfile
  BY <1>1, <1>2, <1>3
<1>5. Bottom(y) = FileAt(y, 0)  BY <1>3 DEF Bottom
<1>6. NameIs(env, y)
  <2>1. y.curfile \in DOMAIN env.args  BY <1>1, <1>3, <1>4, <1>2
  <2>2. env.args[y.curfile] \in Range(env.args)  BY <2>1 DEF Range
  <2>3. CASE FileAt(y, 0) = Shell /\ env.args[y.curfile] = Dash
    BY <1>5, <2>3 DEF NameIs
  <2>4. CASE \E ext \in Range(SourceExts) : FileAt(y, 0) = <<env.args[y.curfile], ext>>
    <3>1. PICK ext \in Range(SourceExts) : FileAt(y, 0) = <<env.args[y.curfile], ext>>  BY <2>4
    <3>2. FileAt(y, 0) # Shell  BY <2>2, <3>1, StandardFilesAssumption
    <3>3. FileAt(y, 0)[1] = env.args[y.curfile]  BY <3>1
    <3> QED BY <1>5, <3>2, <3>3 DEF NameIs
  <2> QED BY <1>2, <2>3, <2>4 DEF Named
<1> QED BY <1>3, <1>4, <1>6 DEF Counts

(* A switch of standard output keeps the count.                             *)
LEMMA OutputCounts ==
  ASSUME NEW e, NEW x, Counts(e, x), NEW y, OutputKept(y, x)
  PROVE  Counts(e, y)
BY SameCounts DEF OutputKept, SameSource

(* A command line.                                                          *)
LEMMA CommandLine ==
  ASSUME NEW e \in Commands
  PROVE  /\ e.withList \in BOOLEAN /\ e.fromSource \in BOOLEAN /\ e.pipe \in BOOLEAN
         /\ Len(e.args) \in Nat \ {0} /\ DOMAIN e.args = 1 .. Len(e.args)
<1>1. e.args \in Seq(Range(e.args)) /\ e.args # <<>>  BY StandardFilesAssumption DEF Sequence
<1>2. Len(e.args) \in Nat \ {0} /\ DOMAIN e.args = 1 .. Len(e.args)  BY <1>1, LenProperties, EmptySeq
<1>3. {e.withList, e.fromSource, e.pipe} \subseteq BOOLEAN  BY StandardFilesAssumption
<1> QED BY <1>2, <1>3

(* Standard output before the compilation.                                  *)
LEMMA OutputBefore ==
  ASSUME env \in Commands, NEW x, Kept(x, FALSE), x.oupState = 0, x.errflag = FALSE,
         NEW opened \in BOOLEAN, NEW y, y = SwcOup(x, opened)
  PROVE  OutputKept(y, x) /\ y.oupState = (IF env.withList THEN 1 ELSE 0)
<1>1. env.withList \in BOOLEAN  BY CommandLine
<1>2. OutputKept(x, x)  BY DEF OutputKept, SameSource
<1>3. CASE env.withList  BY <1>1, <1>3, OutputSteps
<1>4. CASE ~env.withList
  <2>1. y = x  BY <1>1, <1>4, OutputSteps
  <2> QED BY <1>2, <1>4, <2>1
<1> QED BY <1>1, <1>3, <1>4

(* And after it.                                                            *)
LEMMA OutputAfter ==
  ASSUME env \in Commands, NEW x, Kept(x, FALSE), x.oupState = (IF env.withList THEN 1 ELSE 0),
         NEW opened \in BOOLEAN, NEW y, y = SwcOup(x, opened)
  PROVE  OutputKept(y, x)
<1>1. env.withList \in BOOLEAN  BY CommandLine
<1>2. OutputKept(x, x)  BY DEF OutputKept, SameSource
<1>3. CASE env.withList  BY <1>1, <1>3, OutputSteps
<1>4. CASE ~env.withList
  <2>1. y = x  BY <1>1, <1>4, OutputSteps
  <2> QED BY <1>2, <2>1
<1> QED BY <1>1, <1>3, <1>4

(* A loaded save file: what is left of the command line is not read.        *)
LEMMA ReloadedKept ==
  ASSUME NEW x, Kept(x, FALSE), NEW y, y = Reloaded(x)
  PROVE  Kept(y, FALSE) /\ y.oupState = x.oupState
<1>1. PICK b : b = Empty(0, 0)  OBVIOUS
<1>2. b \in Buffer  BY <1>1, EmptyBuffer
<1>3. PICK w : w = [x EXCEPT !.buf = b, !.inpcnt = 0, !.executing = TRUE, !.provide_name = FALSE]
  OBVIOUS
<1>4. y = SwcInp(w)  BY <1>1, <1>3 DEF Reloaded
<1>5. x \in Globs  BY DEF Kept, Tables
<1>6. /\ w \in Globs /\ w.fds = x.fds /\ w.open = x.open /\ SameUses(w, x)
      /\ w.inpcnt = 0 /\ w.executing = TRUE
  BY <1>2, <1>3, <1>5 DEF Globs, SameUses
<1>7. Kept(w, FALSE)  BY <1>6, SameKept
<1>8. NextInput(y, w)  BY <1>4, <1>7, InputStep
<1>9. ~(w.curfile < w.inpcnt)
  <2>1. w.curfile \in Nat  BY <1>6 DEF Globs
  <2> QED BY <1>6, <2>1
<1>10. y.ret # "exit"  BY <1>6, <1>8, <1>9 DEF NextInput
<1> QED BY <1>6, <1>8, <1>10 DEF NextInput, SameInput, SameUses

(* main.                                                                    *)
LEMMA StartSound ==
  ASSUME Inv, Start
  PROVE  Inv'
<1>1. /\ env \in Commands /\ s = GetArgs(Globals) /\ call = "none" /\ stage = "start"
      /\ image = "none"
  BY DEF Inv, Start
<1>2. env' = env /\ call' = call /\ image' = image  BY DEF Start
<1>3. PICK opened, again \in BOOLEAN :
        LET x == SwcInp(s)
            y == SwcOup(x, opened)
            z == Reloaded(y)
        IN  IF x.ret = "exit" THEN Settle(x) /\ stage' = "stopped"
            ELSE IF IsImage(x) THEN Settle(IF again THEN SwcOup(z, TRUE) ELSE z) /\ stage' = "execute"
            ELSE Settle(y) /\ stage' = "compile"
  BY DEF Start
<1>4. PICK t : Started(t) /\ SwcInp(s) = SwcInp(t)  BY <1>1, FirstInput
<1>5. PICK x : x = SwcInp(t)  OBVIOUS
<1>6. PICK y : y = SwcOup(x, opened)  OBVIOUS
<1>7. PICK z : z = Reloaded(y)  OBVIOUS
<1>8. \/ stage' = "stopped"
      \/ x.ret # "exit" /\ stage' = "execute" /\ s' = [(IF again THEN SwcOup(z, TRUE) ELSE z) EXCEPT !.ret = "none"]
      \/ x.ret # "exit" /\ stage' = "compile" /\ s' = [y EXCEPT !.ret = "none"] /\ image = "none"
  <2>1. x = SwcInp(s)  BY <1>4, <1>5
  <2>2. IF x.ret = "exit" THEN Settle(x) /\ stage' = "stopped"
        ELSE IF IsImage(x) THEN Settle(IF again THEN SwcOup(z, TRUE) ELSE z) /\ stage' = "execute"
        ELSE Settle(y) /\ stage' = "compile"
    BY <1>3, <1>6, <1>7, <2>1, Zenon
  <2>3. \/ stage' = "stopped"
        \/ /\ x.ret # "exit" /\ stage' = "execute"
           /\ Settle(IF again THEN SwcOup(z, TRUE) ELSE z)
        \/ x.ret # "exit" /\ stage' = "compile" /\ Settle(y)
    BY <2>2, Zenon
  <2> QED BY <1>1, <2>3, Zenon DEF Settle
<1>9. NextInput(x, t)  BY <1>4, <1>5, InputStep DEF Started
<1>10. /\ t.curfile = 0 /\ t.inpcnt = Len(env.args) /\ t.cmdcnt = FirstArg /\ t.executing = FALSE
       /\ t.errflag = FALSE /\ t.oupState = 0 /\ t.inc = <<>> /\ Kept(t, FALSE)
  BY <1>4 DEF Started
<1>11. CASE stage' = "stopped"  BY <1>1, <1>2, <1>11 DEF Inv, Stages
<1>12. ASSUME x.ret # "exit"
       PROVE  /\ Kept(x, FALSE) /\ OutputKept(y, x) /\ SameInput(x, t)
              /\ y.oupState = (IF env.withList THEN 1 ELSE 0)
  <2>1. Kept(x, FALSE) /\ SameInput(x, t)  BY <1>9, <1>12 DEF NextInput
  <2>2. x.oupState = 0 /\ x.errflag = FALSE  BY <1>10, <2>1 DEF SameInput
  <2>3. OutputKept(y, x) /\ y.oupState = (IF env.withList THEN 1 ELSE 0)
    BY <1>1, <1>6, <2>1, <2>2, OutputBefore
  <2> QED BY <2>1, <2>3
<1>13. CASE /\ x.ret # "exit" /\ stage' = "execute"
            /\ s' = [(IF again THEN SwcOup(z, TRUE) ELSE z) EXCEPT !.ret = "none"]
  <2>1. Kept(y, FALSE)  BY <1>12, <1>13 DEF OutputKept
  <2>2. Kept(z, FALSE) /\ z.oupState = y.oupState  BY <1>7, <2>1, ReloadedKept
  <2>3. PICK u : u = SwcOup(z, TRUE)  OBVIOUS
  <2>4. OutputKept(u, z)  BY <1>1, <1>12, <1>13, <2>2, <2>3, OutputAfter
  <2>5. PICK v : v = IF again THEN u ELSE z  OBVIOUS
  <2>6. Kept(v, FALSE)  BY <2>2, <2>4, <2>5 DEF OutputKept
  <2>7. s' = [v EXCEPT !.ret = "none"]  BY <1>13, <2>3, <2>5
  <2>8. Kept(s', FALSE)  BY <2>6, <2>7, SettledSame DEF Same, IncludeKept
  <2> QED BY <1>1, <1>2, <1>13, <2>8 DEF Inv, Stages, Sound
<1>14. CASE /\ x.ret # "exit" /\ stage' = "compile" /\ image = "none"
            /\ s' = [y EXCEPT !.ret = "none"]
  <2>1. Kept(y, FALSE) /\ OutputKept(y, x) /\ SameInput(x, t)
    BY <1>12, <1>14 DEF OutputKept
  <2>2. Same(s', y)  BY <1>14, <2>1, SettledSame
  <2>3. Kept(s', FALSE)  BY <2>2 DEF Same, IncludeKept
  <2>4. Len(env.args) \in Nat \ {0}  BY <1>1, CommandLine
  <2>5. FirstArg + t.curfile = FirstArg /\ t.inpcnt \in 1 .. Len(env.args)
    BY <1>10, <2>4, StandardFilesAssumption
  <2>6. x.ret = "file"
    <3>1. t.curfile < t.inpcnt  BY <1>10, <2>4
    <3> QED BY <1>9, <1>14, <3>1 DEF NextInput
  <2>7. Counts(env, x) /\ x.inc = <<>> /\ x.inpcnt = t.inpcnt
    BY <1>1, <1>9, <1>10, <2>5, <2>6, NextCounts
  <2>8. Counts(env, y)  BY <2>1, <2>7, OutputCounts
  <2>9. y.executing = FALSE /\ y.inc = <<>> /\ y.inpcnt = Len(env.args)
    BY <1>10, <2>1, <2>7 DEF OutputKept, SameSource, SameInput
  <2>10. "none" \notin Includes  BY StandardFilesAssumption
  <2>11. Compiles(env, y, "none", "none")  BY <1>12, <1>14, <2>8, <2>9, <2>10 DEF Compiles
  <2>12. Compiles(env, s', "none", "none")  BY <2>2, <2>10, <2>11, SameCompiles
  <2> QED BY <1>1, <1>2, <1>14, <2>3, <2>12 DEF Inv, Stages, Sound
<1> QED BY <1>8, <1>11, <1>13, <1>14

(* While the compiler or the program reads.                                 *)
LEMMA Working ==
  ASSUME Inv, stage \notin {"start", "stopped", "command"}
  PROVE  /\ env \in Commands /\ stage \in {"compile", "code", "execute"}
         /\ Kept(s, FALSE) /\ s \in Globs /\ s.fds[0] # Closed
<1>1. Kept(s, FALSE) /\ env \in Commands /\ stage \in {"compile", "code", "execute"}
  BY DEF Inv, Sound, Stages
<1> QED BY <1>1, UsedOpen DEF Kept, Tables, Uses

(* A step at execution time, or the last one.                               *)
LEMMA StepAfter ==
  ASSUME env \in Commands, env' = env, stage' \in {"code", "execute", "stopped"},
         stage' = "stopped" => call' = "none", stage' # "stopped" => Kept(s', FALSE)
  PROVE  Inv'
BY DEF Inv, Stages, Sound

(* A step of the compilation.                                               *)
LEMMA StepCompiling ==
  ASSUME env \in Commands, env' = env, stage' = "compile", Kept(s', FALSE),
         Compiles(env, s', call', image')
  PROVE  Inv'
BY DEF Inv, Stages, Sound

(* A step of the compilation that switches nothing, and one like it later.  *)
LEMMA StepSame ==
  ASSUME Inv, stage \notin {"start", "stopped", "command"}, env' = env, stage' = stage,
         Same(s', s), stage = "compile" => call' \in {"none", "zysrd"},
         stage = "compile" => image' \notin Includes
  PROVE  Inv'
<1>1. /\ env \in Commands /\ stage \in {"compile", "code", "execute"}
      /\ stage = "compile" => Compiles(env, s, call, image)
  BY Working DEF Inv
<1>2. Kept(s', FALSE)  BY DEF Same, IncludeKept
<1>3. CASE stage = "compile"
  <2>1. Compiles(env, s', call', image')  BY <1>1, <1>3, SameCompiles
  <2> QED BY <1>1, <1>2, <1>3, <2>1, StepCompiling
<1>4. CASE stage # "compile"  BY <1>1, <1>2, <1>4, StepAfter
<1> QED BY <1>3, <1>4

(* What the first record changes.                                           *)
FirstChanged(y, x, b, n, k) ==
  /\ Kept(y, FALSE) /\ Bottom(y) = Bottom(x) /\ y.inc = x.inc /\ y.curfile = x.curfile
  /\ y.executing = x.executing /\ y.oupState = x.oupState
  /\ y.first_record = b /\ y.inpcnt = n /\ y.cmdcnt = k

(* The first record is read: the globals that tell it.                      *)
LEMMA FirstRead ==
  ASSUME NEW x, Kept(x, FALSE), NEW b \in BOOLEAN, NEW n \in Nat, NEW k \in Int,
         NEW y, y = [x EXCEPT !.first_record = b, !.inpcnt = n, !.cmdcnt = k]
  PROVE  FirstChanged(y, x, b, n, k)
<1>1. x \in Globs  BY DEF Kept, Tables
<1>2. /\ y \in Globs /\ y.fds = x.fds /\ y.open = x.open /\ SameUses(y, x)
      /\ y.inc = x.inc /\ y.curfile = x.curfile /\ y.executing = x.executing
      /\ y.oupState = x.oupState /\ y.first_record = b /\ y.inpcnt = n /\ y.cmdcnt = k
  BY <1>1 DEF Globs, SameUses
<1>3. Kept(y, FALSE) /\ \A fd : FileAt(y, fd) = FileAt(x, fd)  BY <1>2, SameKept
<1> QED BY <1>2, <1>3 DEF Bottom, FirstChanged

(* zysrd gives a file's name.                                               *)
LEMMA ProvideNameSound ==
  ASSUME Inv, ProvideName
  PROVE  Inv'
<1>1. stage \notin {"start", "stopped", "command"}  BY DEF Inv, ProvideName, NameDue
<1>2. s \in Globs /\ Kept(s, FALSE)  BY <1>1, Working
<1>3. /\ s' = [s EXCEPT !.provide_name = FALSE] /\ env' = env /\ stage' = stage
      /\ call' = "none" /\ image' = "name"
  BY DEF ProvideName
<1>4. /\ s' \in Globs /\ s'.fds = s.fds /\ s'.open = s.open /\ SameUses(s', s) /\ s'.inc = s.inc
      /\ s'.first_record = s.first_record
  BY <1>2, <1>3 DEF Globs, SameUses
<1>5. /\ Kept(s', FALSE) /\ \A fd : FileAt(s', fd) = FileAt(s, fd)
  BY <1>2, <1>4, SameKept
<1>6. "name" \notin Includes  BY StandardFilesAssumption
<1>7. stage = "compile" => Compiles(env, s, call, image)  BY DEF Inv
<1>8. CASE stage = "compile"
  <2>1. Bottom(s') = Bottom(s)  BY <1>4, <1>5 DEF Bottom
  <2>2. /\ s'.curfile = s.curfile /\ s'.inpcnt = s.inpcnt /\ s'.cmdcnt = s.cmdcnt
        /\ s'.executing = s.executing /\ s'.oupState = s.oupState
    BY <1>2, <1>3 DEF Globs
  <2>3. Counts(env, s')  BY <1>7, <1>8, <2>1, <2>2, SameCounts DEF Compiles
  <2>4. Compiles(env, s', "none", "name")
    BY <1>4, <1>6, <1>7, <1>8, <2>2, <2>3 DEF Compiles
  <2> QED BY <1>1, <1>3, <1>5, <1>8, <2>4, Working, StepCompiling
<1>9. CASE stage # "compile"  BY <1>1, <1>3, <1>5, <1>9, Working, StepAfter
<1> QED BY <1>8, <1>9

(* zysrd and zysin take a record.                                           *)
LEMMA ReadRecordSound ==
  ASSUME Inv, ReadRecord
  PROVE  Inv'
<1>1. stage \notin {"start", "stopped", "command"} /\ call # "none"  BY DEF Inv, ReadRecord
<1>2. s \in Globs /\ Kept(s, FALSE) /\ s.fds[0] # Closed /\ env \in Commands
      /\ stage \in {"compile", "code", "execute"}
  BY <1>1, Working
<1>3. PICK x : x = Ready(s)  OBVIOUS
<1>4. PICK y : y = Taken(x)  OBVIOUS
<1>5. env' = env /\ stage' = stage  BY DEF ReadRecord
<1>6. \/ /\ s.first_record /\ call = "zysrd"
         /\ s' = Script(y) /\ call' = "shebang" /\ image' = "none"
      \/ /\ s' = [y EXCEPT !.first_record = @ /\ call # "zysrd"]
         /\ call' = "none"
  BY <1>3, <1>4, Zenon DEF ReadRecord
<1>7. Reads(y, s)
  <2>1. Reads(x, s)  BY <1>2, <1>3, ReadyReads
  <2>2. x \in Globs  BY <2>1 DEF Reads
  <2>3. Reads(y, x)  BY <1>4, <2>2, TakenReads
  <2> QED BY <2>1, <2>3, ReadsCompose
<1>8. Same(y, s) /\ Kept(y, FALSE) /\ y \in Globs
  <2>1. Same(y, s)  BY <1>2, <1>7, ReadsSame
  <2> QED BY <2>1 DEF Same, IncludeKept, Kept, Tables
<1>9. /\ y.inc = s.inc /\ y.curfile = s.curfile /\ y.inpcnt = s.inpcnt /\ y.cmdcnt = s.cmdcnt
      /\ y.executing = s.executing /\ y.oupState = s.oupState /\ Bottom(y) = Bottom(s)
      /\ y.first_record = s.first_record
  BY <1>8 DEF Same, IncludeKept, SameRest
<1>10. /\ Len(env.args) \in Nat \ {0} /\ FirstArg \in Int /\ y.inpcnt \in Nat /\ y.cmdcnt \in Int
       /\ s.curfile \in Nat /\ y.first_record \in BOOLEAN
  <2>1. Len(env.args) \in Nat \ {0} /\ FirstArg \in Int
    BY <1>2, CommandLine, StandardFilesAssumption
  <2>2. y.inpcnt \in Nat /\ y.cmdcnt \in Int /\ s.curfile \in Nat /\ y.first_record \in BOOLEAN
    BY <1>2, <1>8 DEF Globs
  <2> QED BY <2>1, <2>2
<1>11. stage = "compile" => Compiles(env, s, call, image)  BY DEF Inv
<1>12. CASE /\ s.first_record /\ call = "zysrd"
            /\ s' = Script(y) /\ call' = "shebang" /\ image' = "none"
  <2>1. PICK k \in Int : k = FirstArg + Len(env.args) - y.inpcnt + 1
    <3>1. FirstArg + Len(env.args) - y.inpcnt + 1 \in Int  BY <1>10
    <3> QED BY <3>1
  <2>2. s' = [y EXCEPT !.first_record = FALSE, !.inpcnt = 1, !.cmdcnt = k]
    BY <1>12, <2>1 DEF Script
  <2>3. /\ Kept(s', FALSE) /\ Bottom(s') = Bottom(y) /\ s'.inc = y.inc /\ s'.curfile = y.curfile
        /\ s'.executing = y.executing /\ s'.oupState = y.oupState
        /\ s'.first_record = FALSE /\ s'.inpcnt = 1 /\ s'.cmdcnt = k
    <3>1. 1 \in Nat /\ FALSE \in BOOLEAN  OBVIOUS
    <3>2. FirstChanged(s', y, FALSE, 1, k)  BY <1>8, <2>2, <3>1, FirstRead
    <3> QED BY <3>2 DEF FirstChanged
  <2>4. CASE stage = "compile"
    <3>1. Counts(env, s) /\ s.inc = <<>> /\ s.inpcnt = Len(env.args) /\ s.executing = FALSE
          /\ s.oupState = (IF env.withList THEN 1 ELSE 0)
      BY <1>11, <1>12, <2>4 DEF Compiles
    <3>2. k = FirstArg + 1  BY <1>9, <1>10, <2>1, <3>1
    <3>3. s'.curfile > 0 /\ s'.inpcnt \in 1 .. Len(env.args)  BY <1>9, <1>10, <2>3, <3>1 DEF Counts
    <3>4. ASSUME s'.curfile <= s'.inpcnt
          PROVE  s'.cmdcnt = FirstArg + s'.curfile /\ NameIs(env, s')
      <4>1. s'.curfile = 1 /\ s.curfile = 1  BY <1>9, <1>10, <2>3, <3>3, <3>4
      <4>2. s.curfile <= s.inpcnt  BY <1>10, <3>1, <4>1
      <4>3. NameIs(env, s)  BY <3>1, <4>2 DEF Counts
      <4>4. NameIs(env, s')  BY <1>9, <2>3, <4>1, <4>3 DEF NameIs
      <4> QED BY <2>3, <3>2, <4>1, <4>4
    <3>5. Counts(env, s')  BY <3>3, <3>4 DEF Counts
    <3>6. Compiles(env, s', call', image')
      BY <1>9, <1>12, <2>3, <3>1, <3>5 DEF Compiles
    <3> QED BY <1>2, <1>5, <2>3, <2>4, <3>6, StepCompiling
  <2>5. CASE stage # "compile"  BY <1>2, <1>5, <2>3, <2>5, StepAfter
  <2> QED BY <2>4, <2>5
<1>13. CASE s' = [y EXCEPT !.first_record = @ /\ call # "zysrd"] /\ call' = "none"
  <2>1. PICK b \in BOOLEAN : b = (y.first_record /\ call # "zysrd")  OBVIOUS
  <2>2. s' = [y EXCEPT !.first_record = b]
    <3>1. s' = [y EXCEPT !.first_record = y.first_record /\ call # "zysrd"]  BY <1>13
    <3> QED BY <2>1, <3>1
  <2>3. s' = [y EXCEPT !.first_record = b, !.inpcnt = y.inpcnt, !.cmdcnt = y.cmdcnt]
    BY <1>8, <2>2 DEF Globs
  <2>4. /\ Kept(s', FALSE) /\ Bottom(s') = Bottom(y) /\ s'.inc = y.inc /\ s'.curfile = y.curfile
        /\ s'.executing = y.executing /\ s'.oupState = y.oupState
        /\ s'.first_record = b /\ s'.inpcnt = y.inpcnt /\ s'.cmdcnt = y.cmdcnt
    <3>1. FirstChanged(s', y, b, y.inpcnt, y.cmdcnt)  BY <1>8, <1>10, <2>3, FirstRead
    <3> QED BY <3>1 DEF FirstChanged
  <2>5. CASE stage = "compile"
    <3>1. Compiles(env, s, call, image)  BY <1>11, <2>5
    <3>2. b = FALSE
      <4>1. call = "zysrd" \/ call = "shebang"  BY <1>1, <3>1 DEF Compiles
      <4>2. call = "shebang" => y.first_record = FALSE  BY <1>9, <3>1 DEF Compiles
      <4> QED BY <2>1, <4>1, <4>2, Zenon
    <3>3. Counts(env, s')  BY <1>9, <2>4, <3>1, SameCounts DEF Compiles
    <3>4. Compiles(env, s', call', image')
      BY <1>9, <1>13, <2>4, <3>1, <3>2, <3>3 DEF Compiles
    <3> QED BY <1>2, <1>5, <2>4, <2>5, <3>4, StepCompiling
  <2>6. CASE stage # "compile"  BY <1>2, <1>5, <1>13, <2>4, <2>6, StepAfter
  <2> QED BY <2>5, <2>6
<1> QED BY <1>6, <1>12, <1>13

(* The end of a file: the next one.                                         *)
LEMMA EndOfFileSound ==
  ASSUME Inv, EndOfFile
  PROVE  Inv'
<1>1. stage \notin {"start", "stopped", "command"} /\ call # "none"  BY DEF Inv, EndOfFile
<1>2. s \in Globs /\ Kept(s, FALSE) /\ s.fds[0] # Closed /\ env \in Commands
      /\ stage \in {"compile", "code", "execute"}
  BY <1>1, Working
<1>3. PICK x : x = Ready(s)  OBVIOUS
<1>4. PICK y : y = SwcInp(x)  OBVIOUS
<1>5. env' = env  BY DEF EndOfFile
<1>6. \/ /\ InInclude \/ y.ret = "eof"
         /\ Settle(IF InInclude THEN x ELSE y)
         /\ image' = "eof" /\ call' = "none" /\ stage' = stage
      \/ stage' = "stopped" /\ call' = "none"
      \/ /\ ~InInclude /\ y.ret = "file" /\ Settle(y) /\ stage' = stage
         /\ IF call = "shebang" \/ (call = "zysrd" /\ ~s.executing)
              THEN image' = "name" /\ call' = "none"
              ELSE UNCHANGED <<image, call>>
  BY <1>3, <1>4, Zenon DEF EndOfFile
<1>7. Same(x, s)
  <2>1. Reads(x, s)  BY <1>2, <1>3, ReadyReads
  <2> QED BY <1>2, <2>1, ReadsSame
<1>8. Kept(x, FALSE) /\ x.inc = s.inc /\ SameRest(x, s) /\ Bottom(x) = Bottom(s)
  BY <1>7 DEF Same, IncludeKept
<1>9. NextInput(y, x)  BY <1>4, <1>8, InputStep
<1>10. "eof" \notin Includes /\ "name" \notin Includes  BY StandardFilesAssumption
<1>11. stage = "compile" => Compiles(env, s, call, image)  BY DEF Inv
<1>12. CASE stage' = "stopped" /\ call' = "none"  BY <1>2, <1>5, <1>12, StepAfter
<1>13. CASE /\ InInclude \/ y.ret = "eof"
            /\ Settle(IF InInclude THEN x ELSE y)
            /\ image' = "eof" /\ call' = "none" /\ stage' = stage
  <2>1. CASE InInclude
    <3>1. s' = [x EXCEPT !.ret = "none"]  BY <1>13, <2>1 DEF Settle
    <3>2. Same(s', x)  BY <1>8, <3>1, SettledSame
    <3>3. Same(s', s)  BY <1>7, <3>2, SameCompose
    <3> QED BY <1>1, <1>5, <1>10, <1>13, <3>3, StepSame
  <2>2. CASE ~InInclude
    <3>1. y.ret = "eof" /\ s' = [y EXCEPT !.ret = "none"]  BY <1>13, <2>2 DEF Settle
    <3>2. Kept(y, FALSE) /\ SameInput(y, x) /\ y.curfile = x.curfile /\ y.cmdcnt = x.cmdcnt
          /\ \A fd : FileAt(y, fd) = FileAt(x, fd)
      BY <1>9, <3>1 DEF NextInput
    <3>3. Same(s', y)  BY <3>1, <3>2, SettledSame
    <3>4. Kept(s', FALSE)  BY <3>3 DEF Same, IncludeKept
    <3>5. CASE stage = "compile"
      <4>1. Counts(env, s) /\ Compiles(env, s, call, image)  BY <1>11, <3>5 DEF Compiles
      <4>2. y.inc = s.inc /\ Bottom(y) = Bottom(s)
        <5>1. y.inc = x.inc  BY <3>2 DEF SameInput
        <5> QED BY <1>8, <3>2, <5>1 DEF Bottom
      <4>3. /\ y.curfile = s.curfile /\ y.inpcnt = s.inpcnt /\ y.cmdcnt = s.cmdcnt
            /\ y.executing = s.executing /\ y.oupState = s.oupState
            /\ y.first_record = s.first_record
        BY <1>8, <3>2 DEF SameInput, SameRest
      <4>4. Counts(env, y)  BY <4>1, <4>2, <4>3, SameCounts
      <4>5. Compiles(env, y, "none", "eof")
        BY <1>10, <4>1, <4>2, <4>3, <4>4 DEF Compiles
      <4>6. Compiles(env, s', "none", "eof")  BY <1>10, <3>3, <4>5, SameCompiles
      <4> QED BY <1>2, <1>5, <1>13, <3>4, <3>5, <4>6, StepCompiling
    <3>6. CASE stage # "compile"  BY <1>2, <1>5, <1>13, <3>4, <3>6, StepAfter
    <3> QED BY <3>5, <3>6
  <2> QED BY <2>1, <2>2
<1>14. CASE /\ ~InInclude /\ y.ret = "file" /\ Settle(y) /\ stage' = stage
            /\ IF call = "shebang" \/ (call = "zysrd" /\ ~s.executing)
                 THEN image' = "name" /\ call' = "none"
                 ELSE UNCHANGED <<image, call>>
  <2>1. s' = [y EXCEPT !.ret = "none"]  BY <1>14 DEF Settle
  <2>2. Kept(y, FALSE) /\ SameInput(y, x)  BY <1>9, <1>14 DEF NextInput
  <2>3. Same(s', y)  BY <2>1, <2>2, SettledSame
  <2>4. Kept(s', FALSE)  BY <2>3 DEF Same, IncludeKept
  <2>5. CASE stage = "compile"
    <3>1. Compiles(env, s, call, image) /\ s.executing = FALSE /\ Counts(env, s)
      BY <1>11, <2>5 DEF Compiles
    <3>2. call \in {"zysrd", "shebang"}  BY <1>1, <3>1 DEF Compiles
    <3>3. image' = "name" /\ call' = "none"  BY <1>14, <3>1, <3>2
    <3>4. s.inc = <<>>
      <4>1. CASE call = "shebang"  BY <3>1, <4>1 DEF Compiles
      <4>2. CASE call = "zysrd"
        <5>1. ~(Nesting(s) > 0)  BY <1>14, <4>2 DEF InInclude
        <5>2. s.inc \in Suspensions  BY <1>2 DEF Globs, Suspensions
        <5>3. Len(s.inc) \in Nat /\ (Len(s.inc) = 0 => s.inc = <<>>)
          BY <5>2, EmptySeq, LenProperties DEF Suspensions
        <5> QED BY <5>1, <5>3 DEF Nesting
      <4> QED BY <3>2, <4>1, <4>2
    <3>5. x.inc = <<>> /\ x.executing = FALSE /\ x.inpcnt \in 1 .. Len(env.args)
          /\ x.inpcnt = s.inpcnt
      BY <1>8, <3>1, <3>4 DEF SameRest, Counts
    <3>6. x.curfile < x.inpcnt => x.cmdcnt = FirstArg + x.curfile
      <4>1. x.curfile \in Nat /\ x.inpcnt \in Nat /\ x.curfile = s.curfile /\ x.cmdcnt = s.cmdcnt
            /\ x.inpcnt = s.inpcnt
        BY <1>8 DEF SameRest, Kept, Tables, Globs
      <4>2. x.curfile < x.inpcnt => s.curfile <= s.inpcnt  BY <4>1
      <4> QED BY <3>1, <4>1, <4>2 DEF Counts
    <3>7. Counts(env, y) /\ y.inc = <<>> /\ y.inpcnt = x.inpcnt
      BY <1>2, <1>8, <1>9, <1>14, <3>5, <3>6, NextCounts
    <3>8. y.executing = s.executing /\ y.oupState = s.oupState /\ y.first_record = s.first_record
      BY <1>8, <2>2 DEF SameInput, SameRest
    <3>9. Compiles(env, y, "none", "name")
      BY <1>10, <3>1, <3>5, <3>7, <3>8 DEF Compiles
    <3>10. Compiles(env, s', "none", "name")  BY <1>10, <2>3, <3>9, SameCompiles
    <3> QED BY <1>2, <1>5, <1>14, <2>4, <2>5, <3>3, <3>10, StepCompiling
  <2>6. CASE stage # "compile"  BY <1>2, <1>5, <1>14, <2>4, <2>6, StepAfter
  <2> QED BY <2>5, <2>6
<1> QED BY <1>6, <1>12, <1>13, <1>14

(* readr asks for an image.                                                 *)
LEMMA ReadrSound ==
  ASSUME Inv, Readr
  PROVE  Inv'
<1>1. stage \notin {"start", "stopped", "command"} /\ env' = env /\ stage' = stage /\ s' = s
      /\ call' = "zysrd" /\ image' = "none"
  BY DEF Readr, Compiling
<1>2. Kept(s, FALSE)  BY <1>1, Working
<1>3. Same(s', s)  BY <1>1, <1>2 DEF Same, IncludeKept, SameRest
<1>4. "none" \notin Includes  BY StandardFilesAssumption
<1> QED BY <1>1, <1>3, <1>4, StepSame

(* An include switched to or back from: what the compiler relies on stays.  *)
LEMMA IncludeCompiles ==
  ASSUME NEW e, NEW x, NEW i, Compiles(e, x, "none", i), NEW y, IncludeKept(y, x),
         y.first_record => y.inc = x.inc
  PROVE  Compiles(e, y, "none", "none")
<1>1. Counts(e, x)  BY DEF Compiles
<1>2. Counts(e, y)  BY <1>1, SameCounts DEF IncludeKept, SameRest
<1>3. "none" \notin Includes  BY StandardFilesAssumption
<1> QED BY <1>2, <1>3 DEF Compiles, IncludeKept, SameRest

(* readr at the end of an include.                                          *)
LEMMA EndIncludeSound ==
  ASSUME Inv, EndInclude
  PROVE  Inv'
<1>1. /\ stage \in {"compile", "code"} /\ call = "none" /\ env' = env /\ s' = PopInclude(s)
      /\ stage' \in {stage, "execute"} /\ call' = "none" /\ image' = "none"
      /\ stage = "compile" => stage' = "compile"
  BY DEF EndInclude, Compiling, Quiet
<1>2. Kept(s, FALSE) /\ env \in Commands  BY <1>1, Working
<1>3. IncludeKept(s', s)  BY <1>1, <1>2, IncludeSteps
<1>4. Kept(s', FALSE)  BY <1>3 DEF IncludeKept
<1>5. CASE stage = "compile"
  <2>1. Compiles(env, s, "none", image)  BY <1>1, <1>5 DEF Inv
  <2>2. ASSUME s'.first_record PROVE s'.inc = s.inc
    <3>1. s.first_record  BY <1>3, <2>2 DEF IncludeKept, SameRest
    <3>2. Len(s.inc) = 0
      <4>1. s.inc = <<>>  BY <2>1, <3>1 DEF Compiles
      <4> QED BY <4>1, EmptySeq
    <3>3. ~(Nesting(s) > 0)  BY <3>2 DEF Nesting
    <3>4. s' = s  BY <1>1, <3>3 DEF PopInclude
    <3> QED BY <3>4
  <2>3. Compiles(env, s', "none", "none")  BY <1>3, <2>1, <2>2, IncludeCompiles
  <2> QED BY <1>1, <1>2, <1>4, <1>5, <2>3, StepCompiling
<1>6. CASE stage # "compile"  BY <1>1, <1>2, <1>4, <1>6, StepAfter
<1> QED BY <1>5, <1>6

(* A -INCLUDE card.                                                         *)
LEMMA CardKept ==
  ASSUME Kept(s, FALSE), NEW f, IncludeCard(f)
  PROVE  /\ IncludeKept(s', s)
         /\ stage' = stage \/ stage' \in {"code", "execute"}
         /\ stage = "compile" => stage' = "compile"
<1>1. IncludeKept(s, s)  BY DEF IncludeKept, SameRest
<1>2. PICK x : x = PushInclude(s, f)  OBVIOUS
<1>3. IncludeKept(x, s)  BY <1>2, IncludeSteps
<1>4. PICK z : z = [x EXCEPT !.ret = "none"]  OBVIOUS
<1>5. IncludeKept(z, s)  BY <1>3, <1>4, RetKept
<1>6. s' = s \/ s' = z
  BY <1>2, <1>4, Zenon DEF IncludeCard, Settle
<1>7. /\ stage' = stage \/ stage' \in {"code", "execute"}
      /\ stage = "compile" => stage' = "compile"
  BY <1>2 DEF IncludeCard, Forget
<1> QED BY <1>1, <1>5, <1>6, <1>7

(* The compiler meets one.                                                  *)
LEMMA CompileIncludeSound ==
  ASSUME Inv, CompileInclude
  PROVE  Inv'
<1>1. /\ stage \in {"compile", "code"} /\ call = "none" /\ image \in Includes /\ IncludeCard(image)
      /\ env' = env /\ call' = "none" /\ image' = "none"
  BY DEF CompileInclude, Compiling, Quiet
<1>2. Kept(s, FALSE) /\ env \in Commands  BY <1>1, Working
<1>3. /\ IncludeKept(s', s)
      /\ stage' = stage \/ stage' \in {"code", "execute"}
      /\ stage = "compile" => stage' = "compile"
  BY <1>1, <1>2, CardKept
<1>4. Kept(s', FALSE)  BY <1>3 DEF IncludeKept
<1>5. CASE stage = "compile"
  <2>1. Compiles(env, s, "none", image)  BY <1>1, <1>5 DEF Inv
  <2>2. ~s'.first_record
    <3>1. ~s.first_record  BY <1>1, <2>1 DEF Compiles
    <3> QED BY <1>3, <3>1 DEF IncludeKept, SameRest
  <2>3. Compiles(env, s', "none", "none")  BY <1>3, <2>1, <2>2, IncludeCompiles
  <2> QED BY <1>1, <1>2, <1>3, <1>4, <1>5, <2>3, StepCompiling
<1>6. CASE stage # "compile"  BY <1>1, <1>2, <1>3, <1>4, <1>6, StepAfter
<1> QED BY <1>5, <1>6

(* CODE() of a string with one.                                             *)
LEMMA CodeIncludeSound ==
  ASSUME Inv, CodeInclude
  PROVE  Inv'
<1>1. stage = "execute" /\ env' = env  BY DEF CodeInclude
<1>2. Kept(s, FALSE) /\ env \in Commands  BY <1>1, Working
<1>3. PICK f : IncludeCard(f)  BY DEF CodeInclude
<1>4. IncludeKept(s', s) /\ stage' \in {"code", "execute"}  BY <1>1, <1>2, <1>3, CardKept
<1>5. Kept(s', FALSE)  BY <1>4 DEF IncludeKept
<1> QED BY <1>1, <1>2, <1>4, <1>5, StepAfter

(* An error of the code compiled at execution time.                         *)
LEMMA CodeErrorSound ==
  ASSUME Inv, CodeError
  PROVE  Inv'
<1>1. stage = "code" /\ env' = env /\ s' = s /\ stage' = "execute"  BY DEF CodeError, Forget
<1>2. Kept(s, FALSE) /\ env \in Commands  BY <1>1, Working
<1> QED BY <1>1, <1>2, StepAfter

(* INPUT.                                                                   *)
LEMMA InputSound ==
  ASSUME Inv, Input
  PROVE  Inv'
<1>1. stage = "execute" /\ env' = env /\ s' = s /\ stage' = "execute"  BY DEF Input
<1>2. Kept(s, FALSE) /\ env \in Commands  BY <1>1, Working
<1> QED BY <1>1, <1>2, StepAfter

(* The end of the job.                                                      *)
LEMMA EndJobSound ==
  ASSUME Inv, EndJob
  PROVE  Inv'
<1>1. stage = "execute" /\ env' = env /\ stage' = "stopped" /\ call' = "none"
  BY DEF EndJob, Quiet
<1>2. env \in Commands  BY <1>1, Working
<1> QED BY <1>1, <1>2, StepAfter

(* HOST(1) starts a command.                                                *)
LEMMA HostCommandSound ==
  ASSUME Inv, HostCommand
  PROVE  Inv'
<1>1. stage = "execute" /\ env' = env /\ stage' = "command" /\ call' = "none" /\ s' = Save0(s)
  BY DEF HostCommand, Quiet
<1>2. Kept(s, FALSE) /\ env \in Commands  BY <1>1, Working
<1>3. PICK y : y = Save0(s)  OBVIOUS
<1>4. Sound(s, FALSE)  BY <1>2 DEF Sound
<1>5. Sound(y, TRUE)  BY <1>3, <1>4, SaveSound
<1> QED BY <1>1, <1>2, <1>3, <1>5 DEF Inv, Stages

(* And it ends.                                                             *)
LEMMA HostReturnsSound ==
  ASSUME Inv, HostReturns
  PROVE  Inv'
<1>1. stage = "command" /\ env' = env /\ stage' = "execute" /\ env \in Commands
  BY DEF HostReturns, Inv
<1>2. Kept(s, TRUE)  BY <1>1 DEF Inv, Sound
<1>3. PICK n \in 0 .. 1 :
        LET o == s.fds[s.originp]
            p == Min({s.open[o].pos + n, Len(Text[Shell])})
        IN  s' = [Restore0([s EXCEPT !.open[o].pos = p]) EXCEPT !.save_fd0 = -1]
  BY DEF HostReturns
<1>4. PICK p \in Int : p = Min({s.open[s.fds[s.originp]].pos + n, Len(Text[Shell])})
  <2>1. s \in Globs /\ s.originp \in Fd /\ s.fds[s.originp] # Closed
    BY <1>2, UsedOpen DEF Kept, Apart, Tables, Uses
  <2>2. s.open[s.fds[s.originp]].pos \in Int  BY <2>1, Fields DEF EntryAt
  <2>3. Len(Text[Shell]) \in Nat
    <3>1. TextOf(Shell) = Text[Shell]  BY StandardFilesAssumption DEF TextOf
    <3> QED BY <3>1, TextLength
  <2>4. s.open[s.fds[s.originp]].pos + n \in Int /\ Len(Text[Shell]) \in Int  BY <2>2, <2>3
  <2> QED BY <2>4, MinOfTwo
<1>5. PICK x : x = [s EXCEPT !.open[s.fds[s.originp]].pos = p]  OBVIOUS
<1>6. Kept(x, TRUE)  BY <1>2, <1>5, ShellRead
<1>7. s' = [Restore0(x) EXCEPT !.save_fd0 = -1]  BY <1>3, <1>4, <1>5
<1>8. Sound(s', FALSE)  BY <1>6, <1>7, RestoreSound
<1>9. Kept(s', FALSE)  BY <1>8 DEF Sound
<1> QED BY <1>1, <1>9, StepAfter

(* sysbx: what follows the END line is passed over.                         *)
LEMMA SysBxKept ==
  ASSUME env \in Commands, NEW x, Kept(x, FALSE), x.oupState = (IF env.withList THEN 1 ELSE 0),
         NEW y, y = SysBx(x)
  PROVE  Kept(y, FALSE)
<1>1. PICK e : e = [x EXCEPT !.executing = TRUE]  OBVIOUS
<1>2. PICK t : t = SetToEof(e)  OBVIOUS
<1>3. PICK w : w = [t EXCEPT !.curfile = e.inpcnt]  OBVIOUS
<1>4. PICK b : b = SwcInp(w)  OBVIOUS
<1>5. PICK v : v = IF e.readshell0 THEN b ELSE e  OBVIOUS
<1>6. y = SwcOup(v, TRUE)  BY <1>1, <1>2, <1>3, <1>4, <1>5 DEF SysBx
<1>7. x \in Globs  BY DEF Kept, Tables
<1>8. e \in Globs /\ e.fds = x.fds /\ e.open = x.open /\ SameUses(e, x) /\ e.executing = TRUE
  BY <1>1, <1>7 DEF Globs, SameUses
<1>9. Kept(e, FALSE)  BY <1>8, SameKept
<1>10. e.oupState = x.oupState  BY <1>8 DEF SameUses
<1>11. Kept(b, FALSE) /\ b.oupState = x.oupState
  <2>1. e.fds[0] # Closed  BY <1>9, UsedOpen DEF Uses
  <2>2. Reads(t, e)  BY <1>2, <1>8, <2>1, SetToEofReads
  <2>3. Kept(t, FALSE) /\ t \in Globs  BY <1>9, <2>2, ReadsKept DEF Reads
  <2>4. t.oupState = e.oupState /\ t.executing = e.executing /\ t.inpcnt = e.inpcnt
    BY <2>2 DEF Reads, SameVars
  <2>5. e.inpcnt \in Nat  BY <1>8 DEF Globs
  <2>6. /\ w \in Globs /\ w.fds = t.fds /\ w.open = t.open /\ SameUses(w, t)
        /\ w.executing = t.executing /\ w.oupState = t.oupState /\ w.inpcnt = t.inpcnt
        /\ w.curfile = e.inpcnt
    BY <1>3, <2>3, <2>5 DEF Globs, SameUses
  <2>7. Kept(w, FALSE)  BY <2>3, <2>6, SameKept
  <2>8. NextInput(b, w)  BY <1>4, <2>7, InputStep
  <2>9. ~(w.curfile < w.inpcnt)  BY <2>4, <2>5, <2>6
  <2>10. b.ret # "exit"  BY <1>8, <2>4, <2>6, <2>8, <2>9 DEF NextInput
  <2> QED BY <1>10, <2>4, <2>6, <2>8, <2>10 DEF NextInput, SameInput
<1>12. Kept(v, FALSE) /\ v.oupState = (IF env.withList THEN 1 ELSE 0)
  BY <1>5, <1>9, <1>10, <1>11
<1>13. OutputKept(y, v)  BY <1>6, <1>12, OutputAfter
<1> QED BY <1>13 DEF OutputKept

(* The END line.                                                            *)
LEMMA EndLineSound ==
  ASSUME Inv, EndLine
  PROVE  Inv'
<1>1. /\ stage = "compile" /\ call = "none" /\ env' = env /\ call' = "none"
      /\ stage' \in {"execute", "stopped"} /\ s' = [SysBx(s) EXCEPT !.ret = "none"]
  BY DEF EndLine, Quiet, Settle
<1>2. Kept(s, FALSE) /\ env \in Commands  BY <1>1, Working
<1>3. s.oupState = (IF env.withList THEN 1 ELSE 0)  BY <1>1 DEF Inv, Compiles
<1>4. PICK y : y = SysBx(s)  OBVIOUS
<1>5. Kept(y, FALSE)  BY <1>2, <1>3, <1>4, SysBxKept
<1>6. Same(s', y)  BY <1>1, <1>4, <1>5, SettledSame
<1>7. Kept(s', FALSE)  BY <1>6 DEF Same, IncludeKept
<1> QED BY <1>1, <1>2, <1>7, StepAfter

(* The descriptors, the standard files and the count are kept, whatever the *)
(* command line, the files and the includes.                                *)
THEOREM DescriptorsKept == Spec => []Inv
<1>1. Init => Inv
  BY DEF Init, Inv, Stages
<1>2. Inv /\ [Next]_vars => Inv'
  <2> SUFFICES ASSUME Inv, [Next]_vars PROVE Inv'  OBVIOUS
  <2>1. CASE Start           BY <2>1, StartSound
  <2>2. CASE ProvideName     BY <2>2, ProvideNameSound
  <2>3. CASE ReadRecord      BY <2>3, ReadRecordSound
  <2>4. CASE EndOfFile       BY <2>4, EndOfFileSound
  <2>5. CASE Readr           BY <2>5, ReadrSound
  <2>6. CASE EndInclude      BY <2>6, EndIncludeSound
  <2>7. CASE CompileInclude  BY <2>7, CompileIncludeSound
  <2>8. CASE CodeInclude     BY <2>8, CodeIncludeSound
  <2>9. CASE CodeError       BY <2>9, CodeErrorSound
  <2>10. CASE EndLine        BY <2>10, EndLineSound
  <2>11. CASE Input          BY <2>11, InputSound
  <2>12. CASE HostCommand    BY <2>12, HostCommandSound
  <2>13. CASE HostReturns    BY <2>13, HostReturnsSound
  <2>14. CASE EndJob         BY <2>14, EndJobSound
  <2>15. CASE UNCHANGED vars
    <3>1. env' = env /\ s' = s /\ stage' = stage /\ call' = call /\ image' = image
      BY <2>15 DEF vars
    <3> QED BY <3>1 DEF Inv, GetArgs
  <2> QED BY <2>1, <2>2, <2>3, <2>4, <2>5, <2>6, <2>7, <2>8, <2>9, <2>10, <2>11, <2>12, <2>13,
             <2>14, <2>15 DEF Next
<1> QED BY <1>1, <1>2, PTL DEF Spec

-----------------------------------------------------------------------------
(* What the runs check.                                                     *)

(* No element of a sequence is there twice.                                 *)
Distinct(q) == \A i, j \in DOMAIN q : q[i] = q[j] => i = j

(* Such a sequence has as many elements as places.                          *)
LEMMA DistinctCount ==
  ASSUME NEW S, NEW q \in Seq(S), Distinct(q)
  PROVE  Cardinality(Range(q)) = Len(q)
<1>1. DOMAIN q = 1 .. Len(q) /\ Len(q) \in Nat  BY LenProperties
<1>2. IsFiniteSet(1 .. Len(q)) /\ Cardinality(1 .. Len(q)) = Len(q)
  BY <1>1, FS_Interval
<1>3. q \in Bijection(1 .. Len(q), Range(q))
  <2>1. q = [i \in 1 .. Len(q) |-> q[i]]  BY <1>1
  <2>2. q \in [1 .. Len(q) -> Range(q)]  BY <1>1, <2>1 DEF Range
  <2>3. \A t \in Range(q) : \E i \in 1 .. Len(q) : q[i] = t  BY <1>1 DEF Range
  <2>4. \A i, j \in 1 .. Len(q) : q[i] = q[j] => i = j  BY <1>1 DEF Distinct
  <2> QED BY <2>2, <2>3, <2>4 DEF Bijection, Injection, Surjection, IsInjective
<1>4. q \in Surjection(1 .. Len(q), Range(q)) /\ q \in Injection(1 .. Len(q), Range(q))
  BY <1>3 DEF Bijection
<1> QED BY <1>2, <1>4, FS_Surjection

(* One after another, when they share no element.                           *)
LEMMA DistinctConcat ==
  ASSUME NEW S, NEW p \in Seq(S), NEW q \in Seq(S), Distinct(p), Distinct(q),
         Range(p) \cap Range(q) = {}
  PROVE  /\ p \o q \in Seq(S) /\ Distinct(p \o q)
         /\ Range(p \o q) = Range(p) \cup Range(q)
<1>1. /\ Len(p) \in Nat /\ Len(q) \in Nat /\ DOMAIN p = 1 .. Len(p) /\ DOMAIN q = 1 .. Len(q)
      /\ p \o q \in Seq(S) /\ Len(p \o q) = Len(p) + Len(q)
      /\ DOMAIN (p \o q) = 1 .. Len(p) + Len(q)
      /\ \A i \in 1 .. Len(p) + Len(q) :
           (p \o q)[i] = IF i <= Len(p) THEN p[i] ELSE q[i - Len(p)]
  BY LenProperties, ConcatProperties
<1>2. PICK r : r = p \o q  OBVIOUS
<1>3. PICK m, n : m = Len(p) /\ n = Len(q)  OBVIOUS
<1>4. \A i \in 1 .. m : i \in 1 .. m + n /\ r[i] = p[i] /\ p[i] \in Range(p)
  BY <1>1, <1>2, <1>3 DEF Range
<1>5. \A i \in 1 .. m + n : ~(i <= m) => i - m \in 1 .. n /\ r[i] = q[i - m] /\ r[i] \in Range(q)
  BY <1>1, <1>2, <1>3 DEF Range
<1>6. \A i \in 1 .. n : i + m \in 1 .. m + n /\ r[i + m] = q[i]
  <2> TAKE i \in 1 .. n
  <2>1. PICK k : k = i + m  OBVIOUS
  <2>2. k \in 1 .. m + n /\ ~(k <= m) /\ k - m = i  BY <1>1, <1>3, <2>1
  <2>3. r[k] = q[k - m]  BY <1>5, <2>2
  <2> QED BY <2>1, <2>2, <2>3
<1>7. \A i \in 1 .. m + n : i <= m => i \in 1 .. m  BY <1>1, <1>3
<1>8. Distinct(r)
  <2> SUFFICES ASSUME NEW i \in 1 .. m + n, NEW j \in 1 .. m + n, r[i] = r[j]
               PROVE  i = j
    BY <1>1, <1>2, <1>3 DEF Distinct
  <2>1. CASE i <= m /\ j <= m
    <3>1. i \in DOMAIN p /\ j \in DOMAIN p /\ p[i] = p[j]  BY <1>1, <1>3, <1>4, <1>7, <2>1
    <3> QED BY <3>1 DEF Distinct
  <2>2. CASE ~(i <= m) /\ ~(j <= m)
    <3>1. i - m \in DOMAIN q /\ j - m \in DOMAIN q /\ q[i - m] = q[j - m]
      BY <1>1, <1>3, <1>5, <2>2
    <3>2. i - m = j - m  BY <3>1 DEF Distinct
    <3> QED BY <1>1, <1>3, <3>2
  <2>3. CASE i <= m /\ ~(j <= m)  BY <1>4, <1>5, <1>7, <2>3
  <2>4. CASE ~(i <= m) /\ j <= m  BY <1>4, <1>5, <1>7, <2>4
  <2> QED BY <2>1, <2>2, <2>3, <2>4
<1>9. Range(r) = Range(p) \cup Range(q)
  <2>1. \A e : e \in Range(r) <=> \E i \in 1 .. m + n : r[i] = e
    BY <1>1, <1>2, <1>3 DEF Range
  <2>2. \A e : e \in Range(p) <=> \E i \in 1 .. m : p[i] = e  BY <1>1, <1>3 DEF Range
  <2>3. \A e : e \in Range(q) <=> \E i \in 1 .. n : q[i] = e  BY <1>1, <1>3 DEF Range
  <2>4. ASSUME NEW e \in Range(r) PROVE e \in Range(p) \cup Range(q)
    <3>1. PICK i \in 1 .. m + n : r[i] = e  BY <2>1
    <3> QED BY <1>4, <1>5, <1>7, <3>1
  <2>5. ASSUME NEW e \in Range(p) PROVE e \in Range(r)  BY <1>4, <2>1, <2>2
  <2>6. ASSUME NEW e \in Range(q) PROVE e \in Range(r)  BY <1>6, <2>1, <2>3
  <2> QED BY <2>4, <2>5, <2>6
<1> QED BY <1>1, <1>2, <1>8, <1>9

(* A sequence of one element.                                               *)
LEMMA Single ==
  ASSUME NEW S, NEW v \in S, NEW q, q = <<v>>
  PROVE  q \in Seq(S) /\ Distinct(q) /\ Range(q) = {v}
<1>1. q \in Seq(S) /\ DOMAIN q = {1} /\ q[1] = v  OBVIOUS
<1> QED BY <1>1 DEF Distinct, Range

(* And of none.                                                             *)
LEMMA NoneAtAll ==
  ASSUME NEW S, NEW q, q = <<>>
  PROVE  q \in Seq(S) /\ Distinct(q) /\ Range(q) = {}
<1>1. q \in Seq(S) /\ DOMAIN q = {}  OBVIOUS
<1> QED BY <1>1 DEF Distinct, Range

(* What Held lists: the descriptors in use, each once.                      *)
LEMMA HeldInUse ==
  ASSUME Inv, stage \notin {"start", "stopped"}
  PROVE  /\ Held \in Seq(Fd) /\ Distinct(Held)
         /\ Range(Held) = Uses(s, stage = "command")
<1>1. PICK cmd \in BOOLEAN : cmd = (stage = "command")  OBVIOUS
<1>2. Kept(s, cmd) /\ s \in Globs /\ s.inc \in Suspensions /\ Apart(s, cmd)
  BY <1>1 DEF Inv, Sound, Kept, Tables, Globs, Suspensions
<1>3. /\ 0 \in Fd /\ 1 \in Fd /\ 2 \in Fd /\ s.originp \in Fd /\ s.originp \notin {0, 1, 2}
      /\ s.origoup \in Fd
      /\ cmd => s.save_fd0 \in Fd
  BY <1>2, Numbers DEF Globs, Apart
<1>4. PICK a : a = <<0, 1, 2, s.originp>>  OBVIOUS
<1>5. PICK b : b = [i \in DOMAIN s.inc |-> s.inc[i].fd]  OBVIOUS
<1>6. PICK c : c = IF Listed(s) THEN <<s.origoup>> ELSE <<>>  OBVIOUS
<1>7. PICK d : d = IF cmd THEN <<s.save_fd0>> ELSE <<>>  OBVIOUS
<1>8. Held = ((a \o b) \o c) \o d  BY <1>1, <1>4, <1>5, <1>6, <1>7 DEF Held, Listed
<1>9. a \in Seq(Fd) /\ Distinct(a) /\ Range(a) = {0, 1, 2, s.originp}
  <2>1. /\ a \in Seq(Fd) /\ DOMAIN a = {1, 2, 3, 4}
        /\ a[1] = 0 /\ a[2] = 1 /\ a[3] = 2 /\ a[4] = s.originp
    BY <1>3, <1>4
  <2>2. Range(a) = {a[1], a[2], a[3], a[4]}  BY <2>1 DEF Range
  <2>3. Distinct(a)  BY <1>3, <2>1 DEF Distinct
  <2> QED BY <2>1, <2>2, <2>3
<1>10. b \in Seq(Fd) /\ Distinct(b) /\ Range(b) = IncFds(s)
  <2>1. DOMAIN s.inc = 1 .. Len(s.inc) /\ Len(s.inc) \in Nat
        /\ \A i \in DOMAIN s.inc : s.inc[i].fd \in Fd
    <3>1. PICK q : q = s.inc  OBVIOUS
    <3>2. q \in Seq([fd : Fd, pos : Int])  BY <1>2, <3>1 DEF Suspensions
    <3>3. DOMAIN q = 1 .. Len(q) /\ Len(q) \in Nat
          /\ \A i \in 1 .. Len(q) : q[i] \in [fd : Fd, pos : Int]
      BY <3>2, LenProperties, ElementOfSeq
    <3> QED BY <3>1, <3>3
  <2>2. DOMAIN b = DOMAIN s.inc /\ \A i \in DOMAIN s.inc : b[i] = s.inc[i].fd  BY <1>5
  <2>3. b \in Seq(Fd)  BY <1>5, <2>1
  <2>4. Distinct(b)  BY <1>2, <2>2 DEF Apart, Distinct
  <2>5. Range(b) = IncFds(s)  BY <2>2 DEF Range, IncFds
  <2> QED BY <2>3, <2>4, <2>5
<1>11. c \in Seq(Fd) /\ Distinct(c) /\ Range(c) = IF Listed(s) THEN {s.origoup} ELSE {}
  <2>1. CASE Listed(s)
    <3>1. c = <<s.origoup>> /\ s.origoup \in Fd  BY <1>3, <1>6, <2>1
    <3>2. c \in Seq(Fd) /\ Distinct(c) /\ Range(c) = {s.origoup}  BY <3>1, Single
    <3> QED BY <2>1, <3>2
  <2>2. CASE ~Listed(s)
    <3>1. c = <<>>  BY <1>6, <2>2
    <3>2. c \in Seq(Fd) /\ Distinct(c) /\ Range(c) = {}  BY <3>1, NoneAtAll
    <3> QED BY <2>2, <3>2
  <2> QED BY <2>1, <2>2
<1>12. d \in Seq(Fd) /\ Distinct(d) /\ Range(d) = IF cmd THEN {s.save_fd0} ELSE {}
  <2>1. CASE cmd
    <3>1. d = <<s.save_fd0>> /\ s.save_fd0 \in Fd  BY <1>3, <1>7, <2>1
    <3>2. d \in Seq(Fd) /\ Distinct(d) /\ Range(d) = {s.save_fd0}  BY <3>1, Single
    <3> QED BY <2>1, <3>2
  <2>2. CASE ~cmd
    <3>1. d = <<>>  BY <1>7, <2>2
    <3>2. d \in Seq(Fd) /\ Distinct(d) /\ Range(d) = {}  BY <3>1, NoneAtAll
    <3> QED BY <2>2, <3>2
  <2> QED BY <2>1, <2>2
<1>13. Range(a) \cap Range(b) = {}  BY <1>2, <1>9, <1>10 DEF Apart, IncFds
<1>14. PICK p : p = a \o b  OBVIOUS
<1>15. p \in Seq(Fd) /\ Distinct(p) /\ Range(p) = Range(a) \cup Range(b)
  BY <1>9, <1>10, <1>13, <1>14, DistinctConcat
<1>16. Range(p) \cap Range(c) = {}  BY <1>2, <1>9, <1>10, <1>11, <1>15 DEF Apart
<1>17. PICK r : r = p \o c  OBVIOUS
<1>18. r \in Seq(Fd) /\ Distinct(r) /\ Range(r) = Range(p) \cup Range(c)
  BY <1>11, <1>15, <1>16, <1>17, DistinctConcat
<1>19. Range(r) \cap Range(d) = {}
  BY <1>2, <1>9, <1>10, <1>11, <1>12, <1>15, <1>18 DEF Apart
<1>20. PICK h : h = r \o d  OBVIOUS
<1>21. h \in Seq(Fd) /\ Distinct(h) /\ Range(h) = Range(r) \cup Range(d)
  BY <1>12, <1>18, <1>19, <1>20, DistinctConcat
<1>22. Held = h  BY <1>8, <1>14, <1>17, <1>20
<1>23. Range(h) = Uses(s, cmd)
  BY <1>9, <1>10, <1>11, <1>12, <1>15, <1>18, <1>21 DEF Uses
<1> QED BY <1>1, <1>21, <1>22, <1>23

(* While the program compiles or runs, the open descriptors are exactly     *)
(* those the code has a use for, and no two uses share one: no switch of    *)
(* swcinp or swcoup, include or command of HOST(1) leaks or loses any.      *)
THEOREM DescriptorsAreExact == Spec => []DescriptorsExact
<1>1. Inv => DescriptorsExact
  <2> SUFFICES ASSUME Inv, stage \notin {"start", "stopped"}
               PROVE  /\ {fd \in 0 .. MaxFd : IsOpen(s, fd)} = Range(Held)
                      /\ Cardinality(Range(Held)) = Len(Held)
    BY DEF DescriptorsExact
  <2>1. Held \in Seq(Fd) /\ Distinct(Held) /\ Range(Held) = Uses(s, stage = "command")
    BY HeldInUse
  <2>2. Cardinality(Range(Held)) = Len(Held)  BY <2>1, DistinctCount
  <2>3. \A fd \in Fd : s.fds[fd] # Closed <=> fd \in Uses(s, stage = "command")
    BY DEF Inv, Sound, Kept
  <2>4. Range(Held) \subseteq Fd
    <3>1. DOMAIN Held = 1 .. Len(Held) /\ \A i \in 1 .. Len(Held) : Held[i] \in Fd
      BY <2>1, LenProperties, ElementOfSeq
    <3> QED BY <3>1 DEF Range
  <2>5. \A fd \in Fd : IsOpen(s, fd) <=> s.fds[fd] # Closed  BY DEF IsOpen, Fd
  <2>6. \A fd \in Fd : IsOpen(s, fd) <=> fd \in Range(Held)  BY <2>1, <2>3, <2>5
  <2> QED BY <2>2, <2>4, <2>6 DEF Fd
<1> QED BY <1>1, DescriptorsKept, PTL

(* Lines go to the -o file while the source is compiled and to the shell's  *)
(* standard output while the program runs.                                  *)
THEOREM OutputFollowsThePhase == Spec => []OutputFollowsPhase
<1>1. Inv => OutputFollowsPhase
  <2> SUFFICES ASSUME Inv PROVE OutputFollowsPhase  OBVIOUS
  <2>1. ASSUME stage = "compile", env.withList, ~s.errflag PROVE FileAt(s, 1) = Listing
    <3>1. s.oupState = 1  BY <2>1 DEF Inv, Compiles
    <3>2. Listed(s) /\ Output(s)  BY <2>1, <3>1 DEF Inv, Sound, Kept, Listed
    <3> QED BY <3>2 DEF Output
  <2>2. ASSUME stage \in {"execute", "code", "command"}, s.oupState # 1
        PROVE  FileAt(s, 1) = ShellOut
    <3>1. Kept(s, stage = "command")  BY <2>2 DEF Inv, Sound
    <3>2. ~Listed(s) /\ Output(s) /\ 1 \in Fd /\ 2 \in Fd  BY <2>2, <3>1, Numbers DEF Kept, Listed
    <3>3. s.fds[1] = s.fds[2] /\ FileAt(s, 2) = ShellOut  BY <3>2 DEF Output
    <3>4. FileAt(s, 1) = FileAt(s, 2)  BY <3>2, <3>3 DEF FileAt, IsOpen, Fd
    <3> QED BY <3>3, <3>4
  <2> QED BY <2>1, <2>2 DEF OutputFollowsPhase
<1> QED BY <1>1, DescriptorsKept, PTL

(* The last argument HOST(0) leaves out is the source file being compiled.  *)
THEOREM SourcesAreCounted == Spec => []SourceIsCounted
<1>1. Inv => SourceIsCounted
  <2> SUFFICES ASSUME Inv, stage = "compile", s.curfile <= s.inpcnt
               PROVE  LET taken == Len(env.args) - Len(HostArgs(s))
                          fd    == IF s.inc = <<>> THEN 0 ELSE s.inc[1].fd
                      IN  /\ taken > 0
                          /\ IF FileAt(s, fd) = Shell THEN env.args[taken] = Dash
                             ELSE FileAt(s, fd)[1] = env.args[taken]
    BY DEF SourceIsCounted
  <2>1. env \in Commands /\ Kept(s, FALSE) /\ s \in Globs /\ Counts(env, s)
    BY Working DEF Inv, Compiles
  <2>2. /\ Len(env.args) \in Nat \ {0} /\ FirstArg \in Nat \ {0} /\ s.curfile \in Nat
        /\ s.inpcnt \in 1 .. Len(env.args) /\ s.curfile > 0 /\ s.cmdcnt = FirstArg + s.curfile
        /\ NameIs(env, s)
    BY <2>1, CommandLine, StandardFilesAssumption DEF Counts, Globs
  <2>3. PICK n \in Nat : n = Len(env.args) - s.curfile  BY <2>2
  <2>4. Argc - s.cmdcnt = n  BY <2>2, <2>3 DEF Argc
  <2>5. Len(HostArgs(s)) = n
    <3>1. HostArgs(s) = [i \in 1 .. n |-> Arg2Scb(s.cmdcnt + i - 1)]  BY <2>4 DEF HostArgs
    <3> QED BY <3>1
  <2>6. Len(env.args) - Len(HostArgs(s)) = s.curfile  BY <2>2, <2>3, <2>5
  <2> QED BY <2>2, <2>6 DEF NameIs, Bottom
<1> QED BY <1>1, DescriptorsKept, PTL

=============================================================================
