--------------------------- MODULE ExtensionJournal ---------------------------
(***************************************************************************)
(* One entry of the Session's ExtensionJournal (session/extension_journal  *)
(* .go): the typed recovery record of one hook invocation.  An entry is    *)
(* prepared before the hook runs, pending while it may be running, and     *)
(* terminal once its outcome is known (or known to be unknowable).  Two    *)
(* dispositions then advance separately: whether the outcome's effect was  *)
(* applied or discarded, and whether the model context it contributed was  *)
(* consumed by a Run/Step or discarded.                                    *)
(*                                                                         *)
(* Timestamps, digests, error texts and the step-level identity of an      *)
(* entry are immutable data that no rule below distinguishes.              *)
(***************************************************************************)

Boundaries == {"input_gate", "tool_preflight", "tool_result", "completion",
               "session_lifecycle"}

TerminalStatuses == {"succeeded", "failed", "canceled", "outcome_unknown"}
Statuses == {"prepared", "pending"} \cup TerminalStatuses

Effects  == {"none", "pending", "applied", "discarded"}
Contexts == {"none", "pending", "consumed", "discarded"}

Decisions == {"none", "accept", "reject", "allow", "deny", "require_approval",
              "complete", "continue"}

\* The identity of an entry, which sameExtensionIdentity keeps immutable,
\* followed by the part that its transitions change.
EntryOf(invocations, runs) ==
  [inv: invocations, boundary: Boundaries, run: runs, status: Statuses,
   effect: Effects, context: Contexts, decision: Decisions]

NewEntry(inv, boundary, run) ==
  [inv |-> inv, boundary |-> boundary, run |-> run, status |-> "prepared",
   effect |-> "none", context |-> "none", decision |-> "none"]

SameIdentity(e, f) ==
  e.inv = f.inv /\ e.boundary = f.boundary /\ e.run = f.run

-----------------------------------------------------------------------------
(* The shape of an entry at rest.                                          *)

\* A decision belongs to a succeeded entry and to its boundary; a rejected
\* input and a preflight carry no context; a continuation is its context.
BoundaryResult(e) ==
  CASE e.boundary = "input_gate" ->
         /\ e.decision \in {"accept", "reject"}
         /\ e.decision = "reject" => e.context = "none"
    [] e.boundary = "tool_preflight" ->
         /\ e.decision \in {"allow", "deny", "require_approval"}
         /\ e.context = "none"
    [] e.boundary = "completion" ->
         /\ e.decision \in {"complete", "continue"}
         /\ (e.decision = "continue") <=> (e.context # "none")
    [] OTHER -> e.decision = "none"

StatusShape(e) ==
  /\ e.status \in {"prepared", "pending"} =>
       e.effect = "none" /\ e.decision = "none"
  /\ e.status \in TerminalStatuses => e.effect # "none"
  /\ e.status = "succeeded" => BoundaryResult(e)
  /\ e.status # "succeeded" => e.decision = "none"

ContextShape(e) ==
  /\ e.context = "pending" =>
       e.status = "succeeded" /\ e.effect \in {"pending", "applied"}
  /\ e.context = "consumed"  => e.effect = "applied"
  /\ e.context = "discarded" => e.effect \in {"applied", "discarded"}

\* The moving part of an entry, whatever its identity.
EntryStates ==
  {s \in [status: Statuses, effect: Effects, context: Contexts, decision: Decisions] :
     /\ (s.status \in TerminalStatuses) <=> (s.effect # "none")
     /\ s.status # "succeeded" => s.decision = "none"
     /\ ContextShape(s)}

\* The Run an entry names is fixed by its boundary.
SubjectShape(e, none) ==
  (e.run = none) <=> (e.boundary \in {"input_gate", "session_lifecycle"})

EntryShape(e, none) ==
  SubjectShape(e, none) /\ StatusShape(e) /\ ContextShape(e)

-----------------------------------------------------------------------------
(* What one update may change.                                             *)

EffectAdvance(e, f) == e.effect # f.effect => e.effect = "pending"

ContextAdvance(e, f) == e.context # f.context => e.context = "pending"

\* validateExtensionTransition: from a terminal status only the two
\* dispositions move, each at most once, and at least one of them must.
ValidTransition(e, f) ==
  CASE e.status = "prepared" ->
         /\ f.status \in {"pending", "failed", "canceled"}
         /\ f.status = "failed"   => f.effect = "pending"
         /\ f.status = "canceled" => f.effect = "discarded"
    [] e.status = "pending" ->
         f.status \in TerminalStatuses /\ f.effect = "pending"
    [] OTHER ->
         /\ f.status = e.status /\ f.decision = e.decision
         /\ EffectAdvance(e, f) /\ ContextAdvance(e, f)
         /\ (e.effect # f.effect \/ e.context # f.context)

\* recoverAggregate: a pending invocation may have run, so its outcome is
\* unknown and its effect is still to be settled by the owner of the entry.
RecoverEntry(e) ==
  IF e.status = "pending"
  THEN [e EXCEPT !.status = "outcome_unknown", !.effect = "pending"]
  ELSE e

\* Completion work that a restarted Runtime continues instead of ending the
\* Run: a gate that never ran, or an outcome not yet applied.
RecoverableCompletion(e, r) ==
  /\ e.boundary = "completion" /\ e.run = r
  /\ \/ e.status = "prepared"
     \/ e.status \in TerminalStatuses /\ e.effect = "pending"

-----------------------------------------------------------------------------
(* How the Runtime moves an entry.  The hook drivers share these moves and *)
(* differ in when they make them.                                          *)

StartEntry(e) == [e EXCEPT !.status = "pending"]

\* The outcome of an invocation awaits application; a result may carry
\* context for the model.
FinishEntry(e, status, decision, context) ==
  [e EXCEPT !.status = status, !.effect = "pending", !.decision = decision,
            !.context = context]

\* An invocation that never ran is canceled administratively.
CancelEntry(e) ==
  IF e.status = "prepared" THEN [e EXCEPT !.status = "canceled", !.effect = "discarded"]
  ELSE e

Unsettled(e) == e.status \in TerminalStatuses /\ e.effect = "pending"

\* The effect is decided; context that nobody will read goes with it.
DisposeEntry(e, effect) ==
  IF ~Unsettled(e) THEN e
  ELSE [e EXCEPT !.effect = effect,
                 !.context = IF @ = "pending" THEN "discarded" ELSE @]

\* Nothing of an abandoned chain is applied but the failure that ended it.
SettleEntry(e) ==
  DisposeEntry(CancelEntry(e), IF e.status = "succeeded" THEN "discarded" ELSE "applied")

\* Applied, and its context consumed by a context fact of the same commit.
ConsumeEntry(e) ==
  [e EXCEPT !.effect = "applied", !.context = IF @ = "pending" THEN "consumed" ELSE @]

\* One transaction may carry an entry through its outcome to its disposition.
StoreAccepts(e, f) ==
  \/ e = f \/ ValidTransition(e, f)
  \/ /\ e.status \in {"prepared", "pending"} /\ f.status \in TerminalStatuses
     /\ f.effect \in {"applied", "discarded"}
     /\ e.status = "prepared" => f.status = "failed"
=============================================================================
