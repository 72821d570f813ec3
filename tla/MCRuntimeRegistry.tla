--------------------------- MODULE MCRuntimeRegistry ---------------------------
(***************************************************************************)
(* Small instances of RuntimeRegistry.  Clients and Runtimes are           *)
(* interchangeable; runs with liveness properties do not permute them.     *)
(***************************************************************************)
EXTENDS RuntimeRegistry, TLC

Interchangeable == Permutations(Clients) \cup Permutations(Runtimes)
=============================================================================
