--------------------------- MODULE MCBufferedFile ---------------------------
(* BufferedFile on small files: two-byte buffers, so that records of three   *)
(* bytes bypass them and lines of two straddle them.                         *)
EXTENDS BufferedFile

MCByte == {"a", "n", "z"}

(* Texts of up to five bytes: empty lines, long lines, a last line without EOL. *)
MCContents == { <<>>, <<"a">>, <<"n">>, <<"a", "n">>, <<"a", "a", "n">>, <<"n", "a", "a">>,
                <<"a", "n", "a", "n">>, <<"a", "a", "a", "n">>, <<"a", "a", "n", "a", "n">> }

MCFewContents == { <<>>, <<"a", "n", "a">> }

MCOneContents == { <<"a", "n", "a">> }

MCRecords == { <<>>, <<"a">>, <<"a", "n">>, <<"a", "a", "a">> }
MCFewRecords == { <<"a">>, <<"a", "n">> }

MCGarbage    == { [i \in BufIndex |-> "z"], [i \in BufIndex |-> "n"] }
MCOneGarbage == { [i \in BufIndex |-> "z"] }
=============================================================================
