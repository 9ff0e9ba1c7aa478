--------------------------- MODULE MCAssociation ---------------------------
(* Association with one file, two channels, the second an alias of a file, and *)
(* the file arguments that take each way through zysfc, zysio and osopen.      *)
EXTENDS Association, TLC

Arg(name, opts) == [name |-> name, opts |-> opts]

MCFileArgs ==
  { Arg("", <<>>), Arg("", <<"R">>), Arg("", <<"U">>), Arg("", <<"F3">>),
    Arg("f", <<>>), Arg("f", <<"A", "W">>), Arg("f", <<"S", "U">>), Arg("f", <<"S">>),
    Arg("f", <<"F0">>), Arg("-", <<"C">>), Arg("!", <<>>), Arg("!!", <<>>) }

MCAliases == "2" :> Arg("f", <<"L", "A">>)

(* For the question whether accesses agree. *)
MCFewArgs == { Arg("", <<>>), Arg("", <<"U">>), Arg("f", <<>>) }

(* The two variables are alike. *)
Alike == Permutations(Variables)
=============================================================================
