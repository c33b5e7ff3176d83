------------------------------ MODULE MCMPDConn ------------------------------
(* Model-checking instances of MPDConn. *)
EXTENDS MPDConn, TLC

Symmetric == Permutations(Clients) \cup Permutations(Callers)
=============================================================================
