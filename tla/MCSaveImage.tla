----------------------------- MODULE MCSaveImage -----------------------------
(* Small instances of SaveImage. *)
EXTENDS SaveImage

(* No section, a short one, and long ones that fill the table: a run, an   *)
(* alternation, two without a period, one that still has its length when   *)
(* the second buffer of its codes is missing, and one that has it when it  *)
(* is decoded from the end code of the section before it on.               *)
Zeros == [k \in 1..24 |-> 0]
Alternation == [k \in 1..22 |-> k % 2]
Squares == [k \in 1..20 |-> ((k * k) \div 3) % 2]
Fibonacci == <<0, 1, 0, 0, 1, 0, 1, 0, 0, 1, 0, 0, 1, 0, 1, 0, 0, 1, 0, 1, 0>>
Deceptive == <<0, 0, 0, 0, 1, 1, 0, 0, 1, 0, 1, 0, 0>>
Shifted == <<0, 1, 1, 1, 1, 1, 1>>

MCImages == {<<<<>>, <<1, 0>>>>, <<<<1>>, Shifted>>} \cup
            {<<a, <<1>>>> : a \in {Zeros, Alternation, Squares, Fibonacci, Deceptive}}
MCEdits == {<<<<1>>, <<0>>>>}

(* Entries that end in a character, and entries that never do. *)
MCHeaps == {[k \in FirstCode..MaxValue |-> [prefix |-> p, append |-> 1]] : p \in {0, MaxValue}}
=============================================================================
