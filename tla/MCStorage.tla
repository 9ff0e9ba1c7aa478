----------------------------- MODULE MCStorage -----------------------------
(* Storage on a memory of a few words, for TLC. *)
EXTENDS Storage

(* Words of two bytes: two roots, gbcnm and gbcns, then the dynamic area. *)
MCCells == { 2 * i : i \in 1 .. 4 } \cup { 2 * i : i \in 7 .. 16 }

MCOneRoot == <<<<2, 4>>>>

(* P0 has two words, the second a field; NM three, the second a field; XR  *)
(* its length in the second word and fields from the third; XN no field.    *)
MCKind ==
  [e \in {101, 103, 105, 107} |->
     CASE e = 101 -> [len |-> 2, from |-> 1, to |-> 2]
       [] e = 103 -> [len |-> 3, from |-> 1, to |-> 2]
       [] e = 105 -> [len |-> 0, from |-> 2, to |-> 0]
       [] e = 107 -> [len |-> 0, from |-> 0, to |-> 0]]

P0 == [entry |-> 101, size |-> 2]
XR == [entry |-> 105, size |-> 3]
XN == [entry |-> 107, size |-> 3]

MCAllShapes == {P0, XR, XN}
=============================================================================
