----------------------------- MODULE MCInputGates -----------------------------
(***************************************************************************)
(* Small instances of InputGates.                                          *)
(***************************************************************************)
EXTENDS InputGates
=============================================================================
