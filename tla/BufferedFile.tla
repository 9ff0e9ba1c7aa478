---------------------------- MODULE BufferedFile ----------------------------
(***************************************************************************)
(* One buffered disk file of a SPITBOL program, from the association that  *)
(* opens it (zysfc, zysio, osopen) through the calls the runtime makes on  *)
(* it: zysin and osread, zysou, zysef and oswrite, zysst, zysrw, zysbs and *)
(* zysen with osclose.                                                     *)
(*                                                                         *)
(* One action is one iteration of a loop of osread, oswrite or zysbs, or a *)
(* whole call where there is no loop; pc says which.  A call starts in     *)
(* pc = "idle" and ends in pc = "done" with its exit in ret.  The file and *)
(* its buffer are the record f of FileBuffer.                              *)
(***************************************************************************)
EXTENDS FileBuffer

CONSTANTS
  Apps,       (* The values of flg1 & IO_APP: option -A appends to the file.   *)
  RecSizes,   (* The record sizes (fcblk.rsz) of the associations.             *)
  Records,    (* The records the program writes.                               *)
  Contents,   (* The contents the file may have before the program opens it.   *)
  Garbage,    (* The bytes a new bfblk may find in its place in the heap.      *)
  MaxFaults   (* Bound: the number of system calls that fail.                  *)

ASSUME BufferedFileAssumption ==
  /\ IoInp \/ IoOup
  /\ Apps \subseteq BOOLEAN
  /\ RecSizes \subseteq Nat \ {0}
  /\ Records \subseteq Seq(Byte)
  /\ Garbage \subseteq [BufIndex -> Byte]
  /\ Contents \subseteq { s \in Seq(Byte) : Len(s) <= MaxPos }
  /\ MaxFaults \in Nat

VARIABLES
  f,       (* the file and its buffer                                         *)
  open,    (* flg1 & IO_OPN                                                   *)
  pc,      (* where the current call is                                       *)
  call,    (* its arguments, and the position at which it began               *)
  got,     (* the record osread has collected: cp - scptr->str bytes          *)
  line,    (* oswrite: the bytes of the line at cp, its EOL included          *)
  rest,    (* oswrite: the bytes of the record after that line                *)
  ret,     (* the exit taken: 0 is NORMAL_RETURN, n is EXIT_n                 *)
  faults   (* the system calls that have failed                               *)

vars == <<f, open, pc, call, got, line, rest, ret, faults>>

Whence == 0..2

NoCall == [op |-> "none"]

(* The calls: fcblk.mode and fcblk.rsz come with each, several fcblks share an ioblk. *)
Calls ==
  {NoCall} \cup
  [op : {"input"}, mode : {0, 1}, rsz : RecSizes, start : 0..MaxPos] \cup
  [op : {"output"}, mode : {0, 1}, rsz : RecSizes, rec : Records, start : 0..MaxPos] \cup
  [op : {"set"}, off : Int, whence : Whence, start : 0..MaxPos, end : 0..MaxPos] \cup
  [op : {"backspace"}, mode : {0, 1}, rsz : RecSizes, start : 0..MaxPos] \cup
  [op : {"rewind", "endfile"}, start : 0..MaxPos] \cup
  [op : {"open"}, app : BOOLEAN, start : 0..MaxPos]

Labels == {"idle", "open", "copy", "discard", "raw", "line", "put", "seek", "rewind",
           "back", "scan", "forward", "backraw", "close", "done"}

TypeOK ==
  /\ f \in FileState
  /\ open \in BOOLEAN
  /\ pc \in Labels
  /\ call \in Calls
  /\ got \in Seq(Byte) /\ line \in Seq(Byte) /\ rest \in Seq(Byte)
  /\ ret \in 0..5
  /\ faults \in 0..MaxFaults

-----------------------------------------------------------------------------
(* The file named s, before any association. *)
OnDisk(s, g) ==
  [ data |-> [i \in Positions |-> IF i < Len(s) THEN s[i + 1] ELSE Zero],
    eof |-> Len(s), pos |-> 0, buf |-> g,
    fill |-> 0, next |-> 0, offset |-> 0, curpos |-> 0, dirty |-> FALSE ]

Init ==
  /\ \E s \in Contents, g \in Garbage : f = OnDisk(s, g)
  /\ open = FALSE /\ pc = "idle" /\ call = NoCall
  /\ got = <<>> /\ line = <<>> /\ rest = <<>>
  /\ ret = 0 /\ faults = 0

(* A system call that handles n bytes handles fewer when it fails. *)
Outcomes(n) == IF faults < MaxFaults THEN 0..n ELSE {n}
ReadOutcomes == IF faults < MaxFaults THEN BOOLEAN ELSE {TRUE}

(* The call takes exit e. *)
Finish(e) == pc' = "done" /\ ret' = e

(* An error exit, after the system call that failed. *)
Abort(e) == Finish(e) /\ faults' = faults + 1

Begin(c, label) ==
  /\ pc = "idle"
  /\ call' = c
  /\ pc' = label
  /\ UNCHANGED <<f, open, got, line, rest, ret, faults>>

(* The runtime takes the result. *)
Return ==
  /\ pc = "done"
  /\ pc' = "idle" /\ call' = NoCall /\ ret' = 0
  /\ got' = <<>> /\ line' = <<>> /\ rest' = <<>>
  /\ UNCHANGED <<f, open, faults>>

-----------------------------------------------------------------------------
(* INPUT and OUTPUT associations: zysio fills in a new bfblk and osopen    *)
(* opens the file, truncated unless it is read or appended to, and for     *)
(* append moves to its end.                                                *)
BeginOpen ==
  \E a \in Apps : ~open /\ Begin([op |-> "open", app |-> a, start |-> 0], "open")

Associated(g) ==
  LET s == IF IoOup /\ ~IoInp /\ ~call.app
             THEN [f EXCEPT !.eof = 0, !.data = [i \in Positions |-> Zero]] ELSE f
  IN  [s EXCEPT !.pos = 0, !.curpos = 0, !.offset = 0, !.next = 0, !.fill = 0,
                !.dirty = FALSE, !.buf = g]

Open ==
  /\ pc = "open"
  /\ \E g \in Garbage, r \in ReadOutcomes :
       LET s == Associated(g)
           t == Targeted(s, 2)
       IN  IF IoOup /\ call.app
             THEN /\ f' = DoSet(t, EofPos(s), 0, r)
                  /\ faults' = IF DoSetFails(t, EofPos(s), 0, r) THEN faults + 1 ELSE faults
             ELSE f' = s /\ faults' = faults /\ r
  /\ open' = TRUE
  /\ Finish(0)
  /\ UNCHANGED <<call, got, line, rest>>

-----------------------------------------------------------------------------
(* zysin and osread. *)
BeginInput ==
  \E m \in {0, 1}, z \in RecSizes :
    /\ open /\ IoInp
    /\ Begin([op |-> "input", mode |-> m, rsz |-> z, start |-> Position(f)],
             IF m = 1 THEN "copy" ELSE "raw")

Reading == pc \in {"copy", "discard", "raw"}

(* Mutant: the last record of a file without a final EOL is dropped. *)
EofExitAlways == 1

(* End of file is an exit only when nothing has been read: zysin exit 1. *)
EofExit == IF got = <<>> THEN 1 ELSE 0

(* Mutant: a read of no bytes is not taken for the end of the file. *)
RefillForever ==
  /\ Reading /\ f.next >= f.fill
  /\ \E w \in Outcomes(f.fill), r \in ReadOutcomes :
       LET s == Flush(f, w) IN
       IF FlushFails(f, w) THEN f' = s /\ Abort(2)
       ELSE IF ~r          THEN f' = FsyncIO(s) /\ Abort(2)
       ELSE f' = FillBuf(s) /\ UNCHANGED <<pc, ret, faults>>
  /\ UNCHANGED <<open, call, got, line, rest>>

(* The buffer is exhausted: flush it and fill it. *)
Refill ==
  /\ Reading /\ f.next >= f.fill
  /\ \E w \in Outcomes(f.fill), r \in ReadOutcomes :
       LET s == Flush(f, w) IN
       IF FlushFails(f, w) THEN f' = s /\ Abort(2)
       ELSE IF ~r          THEN f' = FsyncIO(s) /\ Abort(2)
       ELSE /\ f' = FillBuf(s)
            /\ IF f'.fill = 0 THEN Finish(EofExit) ELSE UNCHANGED <<pc, ret>>
            /\ faults' = faults
  /\ UNCHANGED <<open, call, got, line, rest>>

(* The bytes from next on that do not belong to the line are the EOL and what follows. *)
FreeOfEOL(n) == \A i \in 0 .. n - 1 : f.buf[f.next + i] # EOL

Taken(n) == [i \in 1..n |-> f.buf[f.next + i - 1]]

(* First phase of a line: up to its EOL, the end of the buffer or the record size. *)
CopyLine ==
  /\ pc = "copy" /\ f.next < f.fill
  /\ LET most == MinOf(call.rsz - Len(got), f.fill - f.next) IN
     \E n \in 0..most :
       /\ FreeOfEOL(n)
       /\ n < most => f.buf[f.next + n] = EOL
       /\ got' = got \o Taken(n)
       /\ f' = [f EXCEPT !.next = f.next + n]
       /\ pc' = IF n = most /\ Len(got) + n < call.rsz THEN "copy" ELSE "discard"
  /\ UNCHANGED <<open, call, line, rest, ret, faults>>

(* Mutant: one character is dropped, whether or not it is the EOL. *)
DiscardOne ==
  /\ pc = "discard" /\ f.next < f.fill
  /\ f' = [f EXCEPT !.next = f.next + 1]
  /\ Finish(0)
  /\ UNCHANGED <<open, call, got, line, rest, faults>>

(* Second phase: drop one character, the last of them the EOL. *)
Discard ==
  /\ pc = "discard" /\ f.next < f.fill
  /\ f' = [f EXCEPT !.next = f.next + 1]
  /\ IF f.buf[f.next] = EOL THEN Finish(0) ELSE UNCHANGED <<pc, ret>>
  /\ UNCHANGED <<open, call, got, line, rest, faults>>

(* Mutant: raw mode takes all that is in the buffer. *)
CopyRawUnbounded ==
  /\ pc = "raw" /\ f.next < f.fill
  /\ LET n == f.fill - f.next IN
       /\ got' = got \o Taken(n)
       /\ f' = [f EXCEPT !.next = f.next + n]
       /\ IF Len(got) + n >= call.rsz THEN Finish(0) ELSE UNCHANGED <<pc, ret>>
  /\ UNCHANGED <<open, call, line, rest, faults>>

(* Raw mode: the next characters, whatever they are. *)
CopyRaw ==
  /\ pc = "raw" /\ f.next < f.fill
  /\ LET n == MinOf(call.rsz - Len(got), f.fill - f.next) IN
       /\ got' = got \o Taken(n)
       /\ f' = [f EXCEPT !.next = f.next + n]
       /\ IF Len(got) + n = call.rsz THEN Finish(0) ELSE UNCHANGED <<pc, ret>>
  /\ UNCHANGED <<open, call, line, rest, faults>>

-----------------------------------------------------------------------------
(* zysou, zysef and oswrite. *)

(* The lines a record of n bytes makes at record size z, and the bytes they take. *)
Lines(n, z)     == IF n = 0 THEN 1 ELSE (n + z - 1) \div z
Footprint(m, n, z) == IF m = 1 THEN n + Lines(n, z) ELSE n

BeginOutput ==
  \E m \in {0, 1}, z \in RecSizes, r \in Records :
    /\ open /\ IoOup
    /\ Position(f) + Footprint(m, Len(r), z) <= MaxPos
    /\ pc = "idle" /\ pc' = "line"
    /\ call' = [op |-> "output", mode |-> m, rsz |-> z, rec |-> r, start |-> Position(f)]
    /\ rest' = r
    /\ UNCHANGED <<f, open, got, line, ret, faults>>

(* The outer loop: the next line of at most rsz bytes, with EOL planted after it. *)
NextLine ==
  /\ pc = "line"
  /\ LET n == IF call.mode = 1 THEN MinOf(call.rsz, Len(rest)) ELSE Len(rest) IN
       /\ line' = SubSeq(rest, 1, n) \o (IF call.mode = 1 THEN <<EOL>> ELSE <<>>)
       /\ rest' = SubSeq(rest, n + 1, Len(rest))
       /\ Position(f) + Len(line') <= MaxPos
  /\ pc' = "put"
  /\ UNCHANGED <<f, open, call, got, ret, faults>>

EndLine ==
  /\ pc = "put" /\ line = <<>>
  /\ IF rest = <<>> THEN Finish(0) ELSE pc' = "line" /\ ret' = ret
  /\ UNCHANGED <<f, open, call, got, line, rest, faults>>

(* The buffer is full up to the position: flush it. *)
PutFlush ==
  /\ pc = "put" /\ line # <<>> /\ f.next = Size
  /\ \E w \in Outcomes(f.fill) :
       /\ f' = Flush(f, w)
       /\ IF FlushFails(f, w) THEN Abort(2) ELSE UNCHANGED <<pc, ret, faults>>
  /\ UNCHANGED <<open, call, got, line, rest>>

(* Mutant: bytes stored beyond fill do not count as filled. *)
StoredUncounted(s, n) ==
  [s EXCEPT !.buf   = [i \in BufIndex |-> IF s.next <= i /\ i < s.next + n
                                          THEN line[i - s.next + 1] ELSE s.buf[i]],
            !.next  = s.next + n,
            !.dirty = TRUE]

(* The first n bytes of the line copied into the buffer s. *)
Stored(s, n) ==
  [s EXCEPT !.buf   = [i \in BufIndex |-> IF s.next <= i /\ i < s.next + n
                                          THEN line[i - s.next + 1] ELSE s.buf[i]],
            !.next  = s.next + n,
            !.fill  = MaxOf(s.fill, s.next + n),
            !.dirty = TRUE]

(* The buffer takes what it has room for; a file under update is read first. *)
PutCopy ==
  /\ pc = "put" /\ line # <<>>
  /\ f.next # Size /\ (f.next # 0 \/ Len(line) < Size)
  /\ \E r \in IF f.fill = 0 /\ IoInp THEN ReadOutcomes ELSE {TRUE} :
       LET s == IF f.fill = 0 /\ IoInp THEN FillBuf(f) ELSE f
           n == MinOf(Size - s.next, Len(line))
       IN  IF ~r THEN f' = FsyncIO(f) /\ Abort(2) /\ line' = line
           ELSE /\ f' = Stored(s, n)
                /\ line' = SubSeq(line, n + 1, Len(line))
                /\ UNCHANGED <<pc, ret, faults>>
  /\ UNCHANGED <<open, call, got, rest>>

(* Whole buffers of data go straight to the file, from a buffer whose next is zero. *)
PutBypass ==
  /\ pc = "put" /\ f.next = 0 /\ Len(line) >= Size
  /\ LET s == [FsyncIO(f) EXCEPT !.fill = 0]
         n == (Len(line) \div Size) * Size
     IN  \E m \in Outcomes(n) :
           /\ f' = [Write(s, [i \in 0 .. n - 1 |-> line[i + 1]], m) EXCEPT !.offset = s.offset + m]
           /\ line' = SubSeq(line, m + 1, Len(line))
           /\ IF m # n THEN Abort(2) ELSE UNCHANGED <<pc, ret, faults>>
  /\ UNCHANGED <<open, call, got, rest>>

-----------------------------------------------------------------------------
(* zysst and zysrw. *)
BeginSet ==
  \E h \in Whence, off \in -MaxPos .. MaxPos :
    /\ open
    /\ Target(f, off, h) <= MaxPos
    /\ Begin([op |-> "set", off |-> off, whence |-> h, start |-> Position(f), end |-> SeenLength(f)],
             "seek")

(* doset from the state s, and the exit the caller takes when it returns -1. *)
Seek(s, target, exit) ==
  /\ \E w \in Outcomes(f.fill), r \in ReadOutcomes :
       /\ f' = DoSet(s, target, w, r)
       /\ IF DoSetFails(s, target, w, r) THEN Abort(exit) ELSE Finish(0) /\ faults' = faults
  /\ UNCHANGED <<open, call, got, line, rest>>

Set == pc = "seek" /\ Seek(Targeted(f, call.whence), Target(f, call.off, call.whence), 5)

BeginRewind == open /\ Begin([op |-> "rewind", start |-> Position(f)], "rewind")

Rewind == pc = "rewind" /\ Seek(f, 0, 3)

-----------------------------------------------------------------------------
(* zysbs. *)
BeginBackspace ==
  \E m \in {0, 1}, z \in RecSizes :
    /\ open
    /\ Begin([op |-> "backspace", mode |-> m, rsz |-> z, start |-> Position(f)],
             IF m = 1 THEN "back" ELSE "backraw")

(* Raw mode moves back one record length. *)
BackRaw == pc = "backraw" /\ Seek(f, Target(f, -call.rsz, 1), 1)

(* One call of back().  When the buffer's start is crossed, back bumps next *)
(* after its doset and drops it again, so that the character it returns is *)
(* the one at the new position in both cases.                              *)
AtBeginning == f.next = 0 /\ f.offset = 0

Backed(w, r) ==
  IF f.next > 0 THEN [f EXCEPT !.next = f.next - 1] ELSE DoSet(f, f.offset - 1, w, r)

BackFails(w, r) == f.next = 0 /\ DoSetFails(f, f.offset - 1, w, r)

(* Mutant: the EOL just before the position already ends the scan. *)
BackToNearestEOL ==
  /\ pc \in {"back", "scan"}
  /\ IF AtBeginning THEN Finish(0) /\ UNCHANGED <<f, faults>>
     ELSE \E w \in Outcomes(f.fill), r \in ReadOutcomes :
            /\ f' = Backed(w, r)
            /\ IF BackFails(w, r) THEN Abort(3)
               ELSE /\ pc' = IF f'.buf[f'.next] # EOL THEN "scan" ELSE "forward"
                    /\ UNCHANGED <<ret, faults>>
  /\ UNCHANGED <<open, call, got, line, rest>>

(* The character before the position, an EOL or not, belongs to the record; *)
(* the next EOL back, or the beginning of the file, is where the scan ends. *)
Back ==
  /\ pc \in {"back", "scan"}
  /\ IF AtBeginning THEN Finish(0) /\ UNCHANGED <<f, faults>>
     ELSE \E w \in Outcomes(f.fill), r \in ReadOutcomes :
            /\ f' = Backed(w, r)
            /\ IF BackFails(w, r) THEN Abort(3)
               ELSE /\ pc' = IF pc = "back" \/ f'.buf[f'.next] # EOL THEN "scan" ELSE "forward"
                    /\ UNCHANGED <<ret, faults>>
  /\ UNCHANGED <<open, call, got, line, rest>>

(* Advance past the EOL; zysbs does not look at what doset returns. *)
Forward ==
  /\ pc = "forward"
  /\ \E w \in Outcomes(f.fill), r \in ReadOutcomes :
       LET t == Position(f) + 1 IN
       /\ f' = DoSet(f, t, w, r)
       /\ faults' = IF DoSetFails(f, t, w, r) THEN faults + 1 ELSE faults
  /\ Finish(0)
  /\ UNCHANGED <<open, call, got, line, rest>>

-----------------------------------------------------------------------------
(* zysen and osclose: an output file is flushed; the file is closed even so. *)
BeginEndfile == open /\ Begin([op |-> "endfile", start |-> Position(f)], "close")

Close ==
  /\ pc = "close"
  /\ \E w \in Outcomes(f.fill), c \in ReadOutcomes :
       /\ f' = IF IoOup THEN Flush(f, w) ELSE f
       /\ IF ~c \/ (IoOup /\ FlushFails(f, w)) THEN Abort(3)
          ELSE Finish(0) /\ faults' = faults
  /\ open' = FALSE
  /\ UNCHANGED <<call, got, line, rest>>

-----------------------------------------------------------------------------
BeginCall == BeginOpen \/ BeginInput \/ BeginOutput \/ BeginSet \/ BeginRewind
             \/ BeginBackspace \/ BeginEndfile

Step == Open \/ Refill \/ CopyLine \/ Discard \/ CopyRaw \/ NextLine \/ EndLine \/ PutFlush
        \/ PutCopy \/ PutBypass \/ Set \/ Rewind \/ BackRaw \/ Back \/ Forward \/ Close \/ Return

Next == BeginCall \/ Step

(* A call that has begun runs: the runtime is one thread and waits for it. *)
Spec == Init /\ [][Next]_vars /\ WF_vars(Step)

-----------------------------------------------------------------------------
(* Properties.                                                             *)

Done(op, e) == pc = "done" /\ call.op = op /\ ret = e

(* The buffer agrees with the file it buffers, whatever calls were made on *)
(* it and whichever of them failed.                                        *)
BufferConsistent == Consistent(f)

(* What a call in progress may count on: its arguments are those of the    *)
(* loop it is in, and the bytes it has still to store have room.  With     *)
(* TypeOK and BufferConsistent this is inductive.                          *)
CallInv ==
  /\ pc = "idle" => call = NoCall /\ got = <<>> /\ line = <<>>
  /\ pc \in {"copy", "discard", "raw"} => call.op = "input" /\ Len(got) <= call.rsz
  /\ pc \in {"line", "put"} => call.op = "output" /\ IoOup
  /\ pc = "put" => Position(f) + Len(line) <= MaxPos
  /\ pc = "seek" => call.op = "set" /\ Target(f, call.off, call.whence) <= MaxPos
  /\ pc \in {"back", "scan", "forward", "backraw"} => call.op = "backspace"
  /\ pc = "forward" => Position(f) < MaxPos

IInv == TypeOK /\ BufferConsistent /\ CallInv

(* A record read in line mode is the bytes from the position up to the     *)
(* next EOL, cut at the record size, and the position is then past that    *)
(* EOL or, on a last line without one, at the end of the file, however     *)
(* many times osread had to flush and fill the buffer on the way.          *)
LineRecordRead ==
  Done("input", 0) /\ call.mode = 1 =>
    LET s == call.start
        p == Position(f)
        k == Len(got)
        ended == p > s /\ ByteAt(f, p - 1) = EOL
        last  == IF ended THEN p - 1 ELSE p
    IN  p <= KeptLength(f) =>
          /\ k = MinOf(call.rsz, last - s)
          /\ \A i \in 1..k : got[i] = ByteAt(f, s + i - 1)
          /\ \A i \in s .. last - 1 : ByteAt(f, i) # EOL
          /\ ended \/ p = KeptLength(f)

(* A record read in raw mode is the next rsz bytes, fewer only at the end. *)
RawRecordRead ==
  Done("input", 0) /\ call.mode = 0 =>
    LET s == call.start
        k == Len(got)
    IN  /\ Position(f) = s + k
        /\ k = call.rsz \/ s + k >= KeptLength(f)
        /\ \A i \in 1..k : s + i <= KeptLength(f) => got[i] = ByteAt(f, s + i - 1)

(* zysin takes its end-of-file exit only when no byte is left, and then has *)
(* read nothing.                                                           *)
EofAtEnd == Done("input", 1) => got = <<>> /\ Position(f) >= KeptLength(f)

(* The i-th byte a record puts in the file: in line mode an EOL ends each  *)
(* piece of at most rsz bytes.                                             *)
FramedByte(c, i) ==
  LET z == c.rsz + 1 IN
  IF c.mode = 0 THEN c.rec[i + 1]
  ELSE IF i % z = c.rsz \/ i = Footprint(1, Len(c.rec), c.rsz) - 1 THEN EOL
  ELSE c.rec[(i \div z) * c.rsz + (i % z) + 1]

(* A write that reports no error has put all its lines at the position,    *)
(* though its bytes went through the buffer, around it, or both.           *)
RecordStored ==
  Done("output", 0) =>
    LET n == Footprint(call.mode, Len(call.rec), call.rsz) IN
    /\ Position(f) = call.start + n
    /\ n > 0 => Position(f) <= KeptLength(f)
    /\ \A i \in 0 .. n - 1 : ByteAt(f, call.start + i) = FramedByte(call, i)

(* Where a SET is to go: from the beginning, the position or the end of    *)
(* the file as they were when it was called, and never before byte 0.      *)
Wanted == MaxOf(0, call.off + (CASE call.whence = 0 -> 0
                                 [] call.whence = 1 -> call.start
                                 [] call.whence = 2 -> call.end))

(* SET gets there, where the file has bytes or may be given them.          *)
SetLands ==
  Done("set", 0) /\ call.start <= call.end /\ (IoOup \/ Wanted <= call.end)
    => Position(f) = Wanted

(* BACKSPACE stops at the start of the line that precedes the position.    *)
BackspaceToLineStart ==
  Done("backspace", 0) /\ call.mode = 1 /\ call.start <= KeptLength(f) =>
    LET p == Position(f) IN
    /\ p <= call.start /\ (call.start > 0 => p < call.start)
    /\ p = 0 \/ ByteAt(f, p - 1) = EOL
    /\ \A i \in p .. call.start - 2 : ByteAt(f, i) # EOL

BackspaceRecord ==
  Done("backspace", 0) /\ call.mode = 0 /\ call.start <= KeptLength(f) =>
    Position(f) = MaxOf(0, call.start - call.rsz)

(* An append association starts at the end of the file, as long as no      *)
(* system call fails.                                                      *)
AppendAtEnd == Done("open", 0) /\ call.app /\ IoOup /\ faults = 0 => Position(f) = f.eof

(* What the comments of the code say and the code does not do: TLC refutes  *)
(* the four on the instances of UpdateFile, InputFile (the next two) and    *)
(* OutputFile.                                                              *)

(* osread.c: a record is read from the file, so what it holds was stored.  *)
RecordFromFile == Done("input", 0) => call.start + Len(got) <= KeptLength(f)

(* doset.c: next is limited to true EOF when the file is not for output.   *)
SetStopsAtEof == Done("set", 0) /\ ~IoOup => Position(f) <= f.eof

(* sysbs.c: exit 1 says the file does not exist, exit 3 an I/O error.      *)
BackspaceErrorExit == pc = "done" /\ call.op = "backspace" => ret # 1

(* osopen.c: an append association is positioned at the end of the file.   *)
AppendPositioned == Done("open", 0) /\ call.app /\ IoOup => Position(f) = f.eof

(* Every call returns: none of the loops can run for ever.                 *)
CallsReturn == pc # "idle" ~> pc = "idle"

(* The buffered file is a byte file: no byte is lost, repeated or altered  *)
(* between the program and the file unless a call reports an error, and    *)
(* ENDFILE leaves on disk what the program saw in the buffer.              *)
Reported == pc = "done" /\ ret > 0 /\ ~Done("input", 1)

Abstract ==
  INSTANCE ByteFile WITH
    Operation <- {"input", "output", "set", "backspace", "rewind", "endfile", "open"},
    file   <- [i \in 0 .. SeenLength(f) - 1 |-> ByteAt(f, i)],
    size   <- SeenLength(f),
    kept   <- KeptLength(f),
    at     <- IF open THEN Position(f) ELSE 0,
    op     <- call.op,
    todo   <- line,
    failed <- Reported

ImplementsByteFile == Abstract!Spec
=============================================================================
