--------------------------- MODULE MCCompletionGates ---------------------------
(***************************************************************************)
(* Small instances of CompletionGates.                                     *)
(***************************************************************************)
EXTENDS CompletionGates
=============================================================================
