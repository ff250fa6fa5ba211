------------------------------- MODULE MCClient -------------------------------
(***************************************************************************)
(* TLC instances of Client: slots are model values, alike within their     *)
(* kind.                                                                   *)
(***************************************************************************)
EXTENDS Client, TLC

Perms == Permutations(Locals) \cup Permutations(Remotes)

=============================================================================
