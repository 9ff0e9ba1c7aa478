------------------------ MODULE MCExternalFunctions ------------------------
(* Small instances of ExternalFunctions. *)
EXTENDS ExternalFunctions, TLC

MCSigs == { [eftar |-> <<1, 2>>, efrsl |-> 1],
            [eftar |-> <<3, 0, 0, 1>>, efrsl |-> 2],
            [eftar |-> <<1>>, efrsl |-> 0],
            [eftar |-> <<1, 1, 1, 1, 1>>, efrsl |-> 3] }

(* Places in memory, and names of the same standing, are interchangeable. *)
MCSymmetry == Permutations(Blocks) \cup Permutations(Nodes)
              \cup Permutations(Names \ Protected) \cup Permutations(Libs)
=============================================================================
