----------------------------- MODULE MCJobServer -----------------------------
(***************************************************************************)
(* TLC instances of JobServer. Connections, workers, units and job IDs are *)
(* model values; the properties checked under Perms treat them alike.      *)
(***************************************************************************)
EXTENDS JobServerRefines, TLC

Perms ==
    Permutations(Conns) \cup Permutations(Workers)
        \cup Permutations(Units) \cup Permutations(Jids)

=============================================================================
