--------------------------- MODULE MCClientServer ---------------------------
(***************************************************************************)
(* TLC instances of ClientServer: two clients of a server with two cores.   *)
(* Client "a" has both its slots connected, "b" is still connecting its    *)
(* second.                                                                 *)
(***************************************************************************)
EXTENDS ClientServer

MCClients == {"a", "b"}

MCConns == {<<"a", 0>>, <<"a", 1>>, <<"a", 2>>, <<"b", 0>>, <<"b", 1>>}

MCPlacement == [c \in Conns |-> c]

=============================================================================
