---------------------------- MODULE MCApplication ----------------------------
(* Instances of Application for TLC: module lists from a catalog over a OneSlot,
   a ManySlot with two keys and a chain. *)
EXTENDS Application

Give(slot, kind, key, made, fallback) ==
    [slot |-> slot, kind |-> kind, key |-> key, made |-> made, fallback |-> fallback]
Need(slot, kind, key, min) == [slot |-> slot, kind |-> kind, key |-> key, min |-> min]
Module(id, gives, needs) == [id |-> id, gives |-> gives, needs |-> needs]

One(made, fallback) == Give("model", "one", NoKey, made, fallback)
Tool(key, made, fallback) == Give("tool", "many", key, made, fallback)
Link(made, fallback) == Give("policy", "chain", NoKey, made, fallback)

AnyTool == Need("tool", "many", NoKey, 1)
OptionalModel == Need("model", "one", NoKey, 0)
OptionalPolicy == Need("policy", "chain", NoKey, 0)

Catalog ==
    { Module("model", <<One(FALSE, FALSE)>>, {}),
      Module("default_model", <<One(TRUE, TRUE)>>, {AnyTool}),
      Module("fallback_pair", <<One(FALSE, TRUE), Tool("a", FALSE, TRUE)>>, {}),
      Module("tool_a", <<Tool("a", TRUE, FALSE)>>, {OptionalModel}),
      Module("tool_b", <<Tool("b", TRUE, FALSE)>>, {Need("tool", "many", "a", 1)}),
      Module("policy", <<Link(TRUE, FALSE)>>, {AnyTool}),
      Module("default_policy", <<Link(FALSE, TRUE), Link(FALSE, TRUE)>>, {}),
      Module("guarded_tool", <<Tool("b", FALSE, TRUE)>>, {OptionalPolicy}),
      Module("own_policy", <<Link(TRUE, FALSE), Link(FALSE, FALSE)>>, {OptionalPolicy, OptionalModel}),
      Module("wrong_kind", <<Give("model", "many", "a", FALSE, FALSE)>>, {}),
      Module("runner", <<>>, {Need("model", "one", NoKey, 1), OptionalPolicy}) }

MCApplications == [1..3 -> Catalog]
MCProfiles == {{}, {Need("model", "one", NoKey, 1)}}
=============================================================================
