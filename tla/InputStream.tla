---------------------------- MODULE InputStream ----------------------------
(***************************************************************************)
(* What the runtime may count on when it reads standard input through      *)
(* osint: a stack of files, the one being read on top and below it those   *)
(* an include has suspended, and each call serves the record that follows  *)
(* the last one served of the file on top.  Descriptors, the buffer and    *)
(* saved positions do not show.                                            *)
(*                                                                         *)
(* An input that cannot seek (a pipe) has no position to return to: it may *)
(* lose records, but serves none twice and none out of order.              *)
(***************************************************************************)
EXTENDS Integers, Sequences

CONSTANTS
  Text,     (* [files -> Seq(records)]: what is on the disk and on the shell's input. *)
  NoFile    (* No file: a descriptor that is closed.                                  *)

VARIABLES
  place,    (* The stack: [file, at], at counting the records before the next.        *)
  pipes,    (* The files that cannot seek.                                            *)
  gone,     (* Records of the pipe served or passed over.                             *)
  served    (* The last answer: <<file, number of the record>>, or Eof.               *)

streamVars == <<place, pipes, gone, served>>

Eof == <<NoFile, 0>>

Top       == Len(place)
File      == place[Top].file
Length(f) == IF f = NoFile THEN 0 ELSE Len(Text[f])

StreamInit ==
  /\ \E f \in DOMAIN Text : place = <<[file |-> f, at |-> 0]>>
  /\ pipes \subseteq DOMAIN Text
  /\ gone = 0
  /\ served = Eof

Serve ==
  /\ File \notin pipes
  /\ place[Top].at < Length(File)
  /\ served' = <<File, place[Top].at + 1>>
  /\ place' = [place EXCEPT ![Top].at = @ + 1]
  /\ UNCHANGED <<pipes, gone>>

ServePipe ==
  /\ File \in pipes
  /\ \E i \in gone + 1 .. Length(File) : served' = <<File, i>> /\ gone' = i
  /\ UNCHANGED <<place, pipes>>

(* End of file is answered only when the file on top has no more records. *)
ServeEof ==
  /\ File \in pipes \/ place[Top].at = Length(File)
  /\ served' = Eof
  /\ UNCHANGED <<place, pipes, gone>>

(* A switch puts another file, from its start, in the place of the one on top. *)
Switch ==
  /\ \E f \in DOMAIN Text \cup {NoFile} :
       place' = [place EXCEPT ![Top] = [file |-> f, at |-> 0]]
  /\ UNCHANGED <<pipes, gone, served>>

Enter ==
  /\ \E f \in DOMAIN Text : place' = Append(place, [file |-> f, at |-> 0])
  /\ UNCHANGED <<pipes, gone, served>>

Leave ==
  /\ Top > 1
  /\ place' = SubSeq(place, 1, Top - 1)
  /\ UNCHANGED <<pipes, gone, served>>

(* After a command of HOST(1) the file on top is read from its start. *)
Again ==
  /\ place' = [place EXCEPT ![Top].at = 0]
  /\ UNCHANGED <<pipes, gone, served>>

StreamNext ==
  \/ Serve \/ ServePipe \/ ServeEof
  \/ Switch \/ Enter \/ Leave \/ Again

StreamSpec == StreamInit /\ [][StreamNext]_streamVars
=============================================================================
