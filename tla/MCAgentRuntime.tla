---------------------------- MODULE MCAgentRuntime ----------------------------
(***************************************************************************)
(* Small instances of AgentRuntime.  Identities are allocated by CHOOSE, in *)
(* a fixed order, as nextID does; no symmetry is needed.                   *)
(***************************************************************************)
EXTENDS AgentRuntime

AllMessages == Inputs \cup Proposals \cup Answers
=============================================================================
