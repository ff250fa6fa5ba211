------------------------------- MODULE MCWire -------------------------------
(***************************************************************************)
(* TLC instances of Wire: commands are all short texts over the characters *)
(* the tokenizer knows, some longer ones, and some with a line that begins *)
(* with the word of an instruction, as some inputs have.                   *)
(***************************************************************************)
EXTENDS Wire

Short(S, n) == UNION {[1 .. k -> S] : k \in 0 .. n}

MCCommands ==
    Short({"{", "}", "BS"}, 3) \cup Short({"a", "{", "}"}, 3) \cup Short({"a", "LF"}, 3)
        \cup {<<"{", "%", "}", "{", "#", "}">>, <<"a", "{", "#", "}", " ", "{", "}", "a">>,
              <<"{", "a", "}", "{", "}">>, <<"a", "b", "LF", "{", "}", "a", "a", "a">>}
        \cup {<<"a", "a", "LF">> \o t :
                 t \in {<<"com", "a", "a">>, <<"com">>, <<"del", "7">>, <<"del", "8">>, <<"get", "comms">>,
                       <<"inp", "7", " ", "1", " ", "a">>, <<"com", "a", "a", "LF", "del", "7">>}}

MCTexts == {<<>>, <<"a", " ", "1">>, <<"a", "a", "LF", "a">>, <<"a", "LF", "get", "cores">>,
            <<"a", "LF", "com", "a", "a", "LF", "del", "7">>}

MCResults == {<<>>, <<"LF">>, <<"a", "LF">>, <<"BS", "n">>}

MCJids == {<<"1">>, <<"1", "0">>}

MCCids == {<<"7">>, <<"8">>}

MCListings == {<<"7", ":", " ", "a", "LF", "8", ":", " ", "a">>}

=============================================================================
