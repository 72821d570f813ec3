----------------------------- MODULE MCToolHooks ------------------------------
(***************************************************************************)
(* Small instances of ToolHooks: two applications that agree on the first   *)
(* call and not on the second, and one without preflights.                 *)
(***************************************************************************)
EXTENDS ToolHooks

MCApplications ==
  { [installed |-> TRUE,  chain |-> <<<<"a", "b">>, <<"a">>>>, posts |-> 1],
    [installed |-> TRUE,  chain |-> <<<<"a", "b">>, <<>>>>,    posts |-> 1],
    [installed |-> FALSE, chain |-> <<<<>>, <<>>>>,            posts |-> 1] }
=============================================================================
