---------------------------- MODULE MCSessionStore ----------------------------
(***************************************************************************)
(* Small instances of SessionStore.  Runs, messages, idempotency keys and  *)
(* request fingerprints are interchangeable in every definition, so the    *)
(* model checker may permute them.                                         *)
(***************************************************************************)
EXTENDS SessionStore, TLC

Interchangeable ==
  Permutations(Runs) \cup Permutations(Messages) \cup Permutations(Keys)
    \cup Permutations(Fingerprints)

\* The last reply is read by no action: states that differ only in it have the
\* same future, and RetrySafe is checked on every step.
AggregateView == <<agg, work, phase, txn, idem>>

\* Three parts of the aggregate.  The instance explores each with the Runs, the
\* messages, the keys and recovery, and not their product.  The hook part needs
\* one fact of History, the queue part three; in the queue and tool parts, applied
\* requests have the same content and only retries may differ.
HookFacts == 1
QueueFacts == 3

Kinds == {work.history[i].kind : i \in DOMAIN work.history}

ToolPart == Kinds \cap {"call", "result", "attempt", "limit"} # {}

QueuePart == work.queue # <<>>

HookPart == work.ext # <<>> \/ work.ctx.version > 0 \/ "context" \in Kinds

Contents == ({txn.fp} \cup {idem[k].fp : k \in Keys}) \ {None}

Apart ==
  /\ HookPart => /\ ~ToolPart /\ ~QueuePart
                 /\ Len(work.history) <= HookFacts
  /\ ToolPart => ~QueuePart
  /\ QueuePart => Len(work.history) <= QueueFacts
  /\ ToolPart \/ QueuePart => Cardinality(Contents) <= 1
=============================================================================
