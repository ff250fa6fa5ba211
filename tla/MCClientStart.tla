---------------------------- MODULE MCClientStart ----------------------------
(***************************************************************************)
(* TLC instance of ClientStart: all command lines of a command and up to   *)
(* three words, and up to four with a single word that is no separator.    *)
(***************************************************************************)
EXTENDS ClientStart

Lists(S, n) == UNION {[1 .. k -> S] : k \in 0 .. n}

MCArgumentLists ==
    {<<>>} \cup {<<"command">> \o w : w \in Lists({":", "::", "a", "b"}, 3) \cup Lists({":", "::", "a"}, 4)}

=============================================================================
