----------------------------- MODULE FileBuffer -----------------------------
(***************************************************************************)
(* The buffering primitives of osint: flush and fsyncio (flush.c), fillbuf *)
(* (osread.c), doset and geteof (doset.c).  They all work on one open,     *)
(* buffered disk file, which is here a record f:                           *)
(*                                                                         *)
(*   data, eof, pos    the operating system's file: its bytes, its length, *)
(*                     and the position of the file descriptor             *)
(*   buf, fill, next,  the fields of struct bfblk                          *)
(*   offset, curpos                                                        *)
(*   dirty             the IO_DIR bit of struct ioblk.flg2                 *)
(*                                                                         *)
(* Only the system calls can fail, so an operator that makes one takes its *)
(* outcome as an argument: w is the number of bytes a write accepts (fewer *)
(* than asked is an error), r says whether a read succeeds.                *)
(***************************************************************************)
EXTENDS Integers, Sequences

CONSTANTS
  Byte,      (* The byte values that occur in files.                        *)
  EOL,       (* The end-of-line byte, '\n'.                                 *)
  Zero,      (* The byte that fills a hole left by writing past the end.    *)
  Size,      (* bfblk.size, the bytes a buffer holds (option -B).           *)
  MaxPos,    (* Bound: file positions stay in 0..MaxPos.                    *)
  IoInp,     (* flg1 & IO_INP: the program may read the file.               *)
  IoOup      (* flg1 & IO_OUP: the program may write the file.              *)

ASSUME FileBufferAssumption ==
  /\ EOL \in Byte /\ Zero \in Byte
  /\ Size \in Nat \ {0}
  /\ MaxPos \in Nat
  /\ IoInp \in BOOLEAN /\ IoOup \in BOOLEAN

Positions == 0 .. MaxPos - 1
BufIndex  == 0 .. Size - 1

(* One disk file and the block that buffers it. *)
FileState ==
  [ data : [Positions -> Byte], eof : 0..MaxPos, pos : 0..MaxPos,
    buf : [BufIndex -> Byte], fill : 0..Size, next : 0..Size,
    offset : 0..MaxPos, curpos : 0..MaxPos, dirty : BOOLEAN ]

MinOf(a, b) == IF a <= b THEN a ELSE b
MaxOf(a, b) == IF a <= b THEN b ELSE a

-----------------------------------------------------------------------------
(* The operating system's calls on a disk file.                            *)

(* LSEEK(fd, p, 0), and bfblk.curpos set from the value it returns. *)
Lseek(f, p) == [f EXCEPT !.pos = p, !.curpos = p]

(* write(fd, src, .) of which n bytes are accepted; curpos follows the descriptor. *)
Write(f, src, n) ==
  IF n = 0 THEN f
  ELSE [f EXCEPT !.data = [i \in Positions |->
                             IF f.pos <= i /\ i < f.pos + n THEN src[i - f.pos] ELSE f.data[i]],
                 !.eof    = MaxOf(f.eof, f.pos + n),
                 !.pos    = f.pos + n,
                 !.curpos = f.curpos + n]

(* The bytes a read of Size bytes returns at the descriptor's position. *)
Available(f) == IF f.pos >= f.eof THEN 0 ELSE MinOf(Size, f.eof - f.pos)

-----------------------------------------------------------------------------
(* The program's position in the file. *)
Position(f) == f.offset + f.next

(* fsyncio: seek only when the descriptor is not where the buffer starts. *)
FsyncIO(f) == IF f.offset # f.curpos THEN Lseek(f, f.offset) ELSE f

(* Mutant: fillbuf that reads where the descriptor happens to be. *)
FillBufUnsynced(f) ==
  LET n == Available(f)
  IN  [f EXCEPT !.buf = [i \in BufIndex |-> IF i < n THEN f.data[f.pos + i] ELSE f.buf[i]],
                !.pos = f.pos + n, !.curpos = f.curpos + n, !.next = 0, !.fill = n]

(* fillbuf, when its read succeeds.  After a read that fails the state is FsyncIO(f). *)
FillBuf(f) ==
  LET s == FsyncIO(f)
      n == Available(s)
  IN  [s EXCEPT !.buf = [i \in BufIndex |-> IF i < n THEN s.data[s.pos + i] ELSE s.buf[i]],
                !.pos = s.pos + n,
                !.curpos = s.curpos + n,
                !.next = 0,
                !.fill = n]

(* Mutant: flush that forgets to advance bfblk.offset. *)
FlushInPlace(f, w) ==
  LET s == IF f.dirty THEN (IF f.fill = 0 THEN FsyncIO(f) ELSE Write(FsyncIO(f), f.buf, w)) ELSE f
  IN  [s EXCEPT !.dirty = FALSE, !.next = 0, !.fill = 0]

(* flush, when write accepts w bytes of a dirty buffer. *)
Flush(f, w) ==
  LET s == IF f.dirty THEN (IF f.fill = 0 THEN FsyncIO(f) ELSE Write(FsyncIO(f), f.buf, w)) ELSE f
  IN  [s EXCEPT !.dirty = FALSE, !.offset = f.offset + f.fill, !.next = 0, !.fill = 0]

FlushFails(f, w) == f.dirty /\ w < f.fill

(* geteof: it leaves the descriptor at the end of the file ... *)
SeekEnd(f) == Lseek(f, f.eof)
(* Mutant: geteof that looks at the buffer only. *)
EofPosOfBuffer(f) == f.offset + f.fill

(* ... and counts a buffer that extends beyond the file. *)
EofPos(f) == MaxOf(f.eof, f.offset + f.fill)

-----------------------------------------------------------------------------
(* doset.  Its three parts: the target, the seek inside the buffer, and    *)
(* the seek that reloads the buffer.                                       *)

(* The state once the target is known (whence = 2 has called geteof). *)
Targeted(f, whence) == IF whence = 2 THEN SeekEnd(f) ELSE f

(* Mutant: the unread characters of the buffer are not seeked over. *)
TargetFromBuffer(f, off, whence) ==
  MaxOf(0, off + (CASE whence = 0 -> 0 [] whence = 1 -> f.offset [] whence = 2 -> EofPos(f)))

Target(f, off, whence) ==
  MaxOf(0, off + (CASE whence = 0 -> 0 [] whence = 1 -> Position(f) [] whence = 2 -> EofPos(f)))

InBuffer(f, target) == f.offset <= target /\ target <= f.offset + f.fill

(* Mutant: the block after the target. *)
AtBlockRoundedUp(f, target) ==
  LET newoffset == ((target + Size - 1) \div Size) * Size
  IN  [Lseek(f, newoffset) EXCEPT !.offset = newoffset]

(* The flushed file seeked to the start of the block that holds target. *)
AtBlock(f, target) ==
  LET newoffset == (target \div Size) * Size
  IN  IF newoffset # f.curpos
        THEN [Lseek(f, newoffset) EXCEPT !.offset = newoffset]
        ELSE [f EXCEPT !.offset = newoffset]

(* next set from target; past the end an output file gets a longer fill. *)
Positioned(f, target) ==
  LET n == target - f.offset
  IN  IF n <= f.fill THEN [f EXCEPT !.next = n]
      ELSE IF IoOup  THEN [f EXCEPT !.next = n, !.fill = n]
      ELSE                [f EXCEPT !.next = f.fill]

(* Mutant: a dirty buffer is dropped, not flushed. *)
DoSetUnflushed(f, target, w, r) ==
  IF InBuffer(f, target) THEN [f EXCEPT !.next = target - f.offset]
  ELSE LET s == AtBlock([f EXCEPT !.dirty = FALSE, !.next = 0, !.fill = 0], target)
       IN  IF ~r THEN FsyncIO(s) ELSE Positioned(FillBuf(s), target)

(* doset to target, where w and r are the outcomes of its write and read. *)
DoSet(f, target, w, r) ==
  IF InBuffer(f, target)   THEN [f EXCEPT !.next = target - f.offset]
  ELSE IF FlushFails(f, w) THEN Flush(f, w)
  ELSE IF ~r               THEN FsyncIO(AtBlock(Flush(f, w), target))
  ELSE Positioned(FillBuf(AtBlock(Flush(f, w), target)), target)

DoSetFails(f, target, w, r) == ~InBuffer(f, target) /\ (FlushFails(f, w) \/ ~r)

-----------------------------------------------------------------------------
(* What the file and its buffer stand for.                                 *)

(* The buffer holds [offset, offset + fill). *)
InWindow(f, i) == f.offset <= i /\ i < f.offset + f.fill

(* The byte a read at position i would see: the buffer hides the file. *)
ByteAt(f, i) == IF InWindow(f, i) THEN f.buf[i - f.offset] ELSE f.data[i]

(* The length a program sees, and the part of it a flush would keep. *)
SeenLength(f) == IF f.fill = 0 THEN f.eof ELSE EofPos(f)
KeptLength(f) == IF f.dirty THEN SeenLength(f) ELSE f.eof

-----------------------------------------------------------------------------
(* What flush, fillbuf, doset and the copying loops keep true between them.*)

(* next stays inside fill, and the buffer inside the positions. *)
Layout(f) == f.next <= f.fill /\ f.offset + f.fill <= MaxPos

(* curpos is where the descriptor is, though nobody asks the system. *)
Tracked(f) == f.pos = f.curpos

(* A buffer that is not dirty holds what the file holds. *)
Coherent(f) ==
  ~f.dirty => \A i \in Positions : InWindow(f, i) /\ i < f.eof => f.buf[i - f.offset] = f.data[i]

(* The buffer of an input file is never dirty and never beyond the file. *)
ReadOnly(f) == ~IoOup => ~f.dirty /\ (f.fill > 0 => f.offset + f.fill <= f.eof)

Consistent(f) == Layout(f) /\ Tracked(f) /\ Coherent(f) /\ ReadOnly(f)
=============================================================================
