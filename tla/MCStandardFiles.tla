-------------------------- MODULE MCStandardFiles --------------------------
(* StandardFiles on command lines of one or two names, with includes that nest, *)
(* a script, a source on the shell's own input and a save file.                 *)
EXTENDS StandardFiles, TLC

MCNoFile   == <<"none", "">>
MCShell    == <<"stdin", "">>
MCShellOut == <<"stdout", "">>
MCListing  == <<"listing", "">>
MCExts     == <<"", "spt", "spx">>
MCPlaces   == <<"", "snolib">>
MCIncludes == {"one", "two", "gone"}

MCText ==
  MCShell              :> <<"#!", "two", "end", "line">> @@
  <<"main", "">>       :> <<"line", "one", "line", "end", "line">> @@
  <<"script", "">>     :> <<"#!", "gone", "end", "line">> @@
  <<"part", "spt">>    :> <<"line", "two", "line">> @@
  <<"saved", "spx">>   :> <<>> @@
  <<"empty", "">>      :> <<>> @@
  <<"one", "">>        :> <<"line", "two", "line", "line">> @@
  <<"two", "snolib">>  :> <<"line", "end", "line">>

MCSaveFiles == {<<"saved", "spx">>}

Command(args, withList, fromSource, pipe) ==
  [args |-> args, withList |-> withList, fromSource |-> fromSource, pipe |-> pipe]

MCCommands ==
  { Command(<<"main">>, TRUE, FALSE, FALSE),
    Command(<<"main">>, FALSE, TRUE, TRUE),
    Command(<<"script", "main">>, FALSE, FALSE, FALSE),
    Command(<<"script", "main">>, FALSE, TRUE, FALSE),
    Command(<<"empty", "script", "main">>, FALSE, FALSE, FALSE),
    Command(<<"part", "main">>, TRUE, TRUE, FALSE),
    Command(<<"part", "main">>, FALSE, FALSE, TRUE),
    Command(<<"-", "part">>, FALSE, TRUE, FALSE),
    Command(<<"-", "part">>, TRUE, FALSE, TRUE),
    Command(<<"saved">>, TRUE, FALSE, FALSE),
    Command(<<"saved">>, FALSE, FALSE, TRUE) }
=============================================================================
