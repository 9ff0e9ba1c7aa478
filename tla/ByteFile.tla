------------------------------ MODULE ByteFile ------------------------------
(***************************************************************************)
(* What a buffered file promises the program: a sequence of bytes with a   *)
(* position in it.  There is no buffer here and no descriptor.             *)
(*                                                                         *)
(*   file   the bytes of the file, on 0..size-1                            *)
(*   size   its length as the program sees it                              *)
(*   kept   the part of it that is stored: a SET beyond the end of an      *)
(*          output file lengthens size alone, a later write then keeps it  *)
(*   at     the position of the next byte read or written                  *)
(*   op     the operation in progress, "none" between two operations       *)
(*   got    the bytes this read has delivered so far                       *)
(*   todo   the bytes of the current line this write has still to store    *)
(*   failed the operation has reported an error                            *)
(*                                                                         *)
(* Bytes are read in order, none twice and none skipped but the tail of a  *)
(* line; a write stores its bytes in order and changes no other byte; the  *)
(* position moves on its own only in a SET, REWIND, BACKSPACE or a new     *)
(* OUTPUT association; and a byte may be lost only by an operation that    *)
(* reports an error.                                                       *)
(***************************************************************************)
EXTENDS Integers, Sequences

CONSTANTS Byte, Operation

VARIABLES file, size, kept, at, op, got, todo, failed

vars == <<file, size, kept, at, op, got, todo, failed>>

BytesOf(n) == [0 .. n - 1 -> Byte]

TypeOK ==
  /\ size \in Nat /\ kept \in 0..size /\ at \in Nat
  /\ file \in BytesOf(size)
  /\ op \in Operation \cup {"none"}
  /\ got \in Seq(Byte) /\ todo \in Seq(Byte)
  /\ failed \in BOOLEAN

Moving == {"set", "rewind", "backspace", "open"}

Init ==
  /\ size \in Nat /\ kept = size /\ at = 0
  /\ file \in BytesOf(size)
  /\ op = "none" /\ got = <<>> /\ todo = <<>> /\ failed = FALSE

(* An operation begins; only a read or a write has data. *)
Call ==
  /\ op = "none" /\ op' \in Operation
  /\ UNCHANGED <<file, size, kept, at, got, todo, failed>>

(* It ends. *)
Return ==
  /\ op # "none"
  /\ todo = <<>> \/ failed
  /\ op' = "none" /\ got' = <<>> /\ todo' = <<>> /\ failed' = FALSE
  /\ UNCHANGED <<file, size, kept, at>>

(* A read delivers the next n bytes ... *)
Deliver(n) ==
  /\ op = "input" /\ at + n <= size
  /\ got' = got \o [i \in 1..n |-> file[at + i - 1]]
  /\ at' = at + n
  /\ UNCHANGED <<file, size, kept, op, todo, failed>>

(* ... and drops the rest of a line that was too long, with its EOL. *)
Skip(n) ==
  /\ op = "input" /\ at + n <= size
  /\ at' = at + n
  /\ UNCHANGED <<file, size, kept, op, got, todo, failed>>

(* A write takes up its next line. *)
Supply ==
  /\ op = "output" /\ todo = <<>>
  /\ todo' \in Seq(Byte)
  /\ UNCHANGED <<file, size, kept, at, op, got, failed>>

(* A write stores the next n bytes: they, and what lay before them, are kept. *)
Store(n) ==
  /\ op = "output" /\ n <= Len(todo)
  /\ at' = at + n
  /\ size' = IF at + n > size THEN at + n ELSE size
  /\ kept' = size'
  /\ file' \in BytesOf(size')
  /\ \A i \in 0 .. size' - 1 :
        IF at <= i /\ i < at + n THEN file'[i] = todo[i - at + 1]
        ELSE i < size => file'[i] = file[i]
  /\ todo' = SubSeq(todo, n + 1, Len(todo))
  /\ UNCHANGED <<op, got, failed>>

(* The position moves; beyond the end of an output file the new bytes are unspecified. *)
Move ==
  /\ op \in Moving
  /\ at' \in Nat
  /\ size' \in {kept, size} \cup {at'} /\ size' >= kept
  /\ file' \in BytesOf(size')
  /\ \A i \in 0 .. kept - 1 : file'[i] = file[i]
  /\ UNCHANGED <<kept, op, got, todo, failed>>

(* Bytes that were never stored vanish. *)
Lapse ==
  /\ op # "none"
  /\ size' = kept
  /\ file' = [i \in 0 .. kept - 1 |-> file[i]]
  /\ UNCHANGED <<kept, at, op, got, todo, failed>>

(* A file that is closed holds what was stored, and has no position. *)
Close ==
  /\ op = "endfile"
  /\ size' = kept /\ at' = 0
  /\ file' = [i \in 0 .. kept - 1 |-> file[i]]
  /\ UNCHANGED <<kept, op, got, todo, failed>>

(* Opening a file for output alone empties it. *)
Truncate ==
  /\ op = "open"
  /\ size' = 0 /\ kept' = 0 /\ file' = <<>> /\ at' = 0
  /\ UNCHANGED <<op, got, todo, failed>>

(* An operation reports an error: what it leaves is unspecified. *)
Fail ==
  /\ op # "none" /\ failed' = TRUE
  /\ size' \in Nat /\ kept' \in 0..size' /\ at' \in Nat
  /\ file' \in BytesOf(size')
  /\ UNCHANGED <<op, got>>
  /\ todo' \in Seq(Byte)

Next ==
  \/ Call \/ Return \/ Supply \/ Move \/ Lapse \/ Close \/ Truncate \/ Fail
  \/ \E n \in 1 .. size - at : Deliver(n) \/ Skip(n)
  \/ \E n \in 1 .. Len(todo) : Store(n)

Spec == Init /\ [][Next]_vars
=============================================================================
