--------------------------- MODULE SessionAggregate ---------------------------
(***************************************************************************)
(* The Session aggregate (session/contracts.go, Snapshot) and the changes  *)
(* a Store transaction may apply to it (session/memory_store.go,           *)
(* applyChanges; session/extension_journal.go).  Every change is a pair:   *)
(* CanX is the condition under which the Store accepts it and X the new    *)
(* aggregate.                                                              *)
(*                                                                         *)
(* History is the append-only sequence of facts.  A fact keeps its kind,   *)
(* the identity it is about, its Run, a status and a count; message text,  *)
(* tool arguments, timestamps and actors are not modelled.  A step and a   *)
(* context source together are one ContextKey.                             *)
(***************************************************************************)
EXTENDS Integers, Sequences, FiniteSets, ExtensionJournal

CONSTANTS
  Runs, Messages, Calls, Attempts, ContextKeys, Configs, Invocations,
  None          \* the absent Run or configuration

ASSUME NoneAssumption ==
  None \notin Runs \cup Messages \cup Calls \cup Attempts \cup ContextKeys
             \cup Configs

Deliveries      == {"normal", "steer", "held"}
Unfinished      == {"prepared", "pending"}
JournalTerminal == {"succeeded", "failed", "outcome_unknown"}
RunEnds         == {"completed", "canceled", "failed", "interrupted"}
AttemptEnds     == {"succeeded", "failed", "canceled", "outcome_unknown"}
LimitKinds      == {"tokens", "attempts", "calls"}

FactKinds == {"message", "call", "result", "run", "attempt", "context", "limit",
              "config"}

FactIds == Runs \cup Messages \cup Calls \cup Attempts \cup ContextKeys \cup {None}

\* For a call, ref is the assistant message it belongs to.
Fact ==
  [kind: FactKinds, id: FactIds, run: Runs \cup {None}, ref: Messages \cup {None},
   val: {"user", "assistant", "started", "none"} \cup RunEnds \cup AttemptEnds
          \cup JournalTerminal \cup LimitKinds,
   cfg: Configs \cup {None}, num: Nat]

QueueItem == [id: Messages, delivery: Deliveries, claimedBy: Runs \cup {None}]

\* journal[c].status is "absent" until the call is journaled.
JournalEntry ==
  [status: {"absent"} \cup Unfinished \cup JournalTerminal, run: Runs \cup {None}]

ContextView == [version: Nat, run: Runs \cup {None}, cfg: Configs \cup {None}]

Aggregate ==
  [rev: Nat, history: Seq(Fact), queue: Seq(QueueItem),
   journal: [Calls -> JournalEntry], ext: Seq(EntryOf(Invocations, Runs \cup {None})),
   runState: {"idle", "running"}, activeRun: Runs \cup {None}, config: Configs,
   ctx: ContextView, retained: Seq(ContextView)]

NewAggregate(g) ==
  [rev |-> 1, history |-> <<>>, queue |-> <<>>,
   journal |-> [c \in Calls |-> [status |-> "absent", run |-> None]],
   ext |-> <<>>, runState |-> "idle", activeRun |-> None, config |-> g,
   ctx |-> [version |-> 0, run |-> None, cfg |-> None], retained |-> <<>>]

-----------------------------------------------------------------------------
(* Reading History.                                                        *)

HasMessage(h, m) == \E i \in DOMAIN h : h[i].kind = "message" /\ h[i].id = m

HasCall(h, c) == \E i \in DOMAIN h : h[i].kind = "call" /\ h[i].id = c

HasResult(h, c) == \E i \in DOMAIN h : h[i].kind = "result" /\ h[i].id = c

ResultIs(h, c, s) ==
  \E i \in DOMAIN h : h[i].kind = "result" /\ h[i].id = c /\ h[i].val = s

RunHasStarted(h, r) ==
  \E i \in DOMAIN h : h[i].kind = "run" /\ h[i].id = r /\ h[i].val = "started"

RunHasEnded(h, r) ==
  \E i \in DOMAIN h : h[i].kind = "run" /\ h[i].id = r /\ h[i].val # "started"

RunFrozen(h, r, g) ==
  \E i \in DOMAIN h :
    h[i].kind = "run" /\ h[i].id = r /\ h[i].val = "started" /\ h[i].cfg = g

AttemptHasStarted(h, x) ==
  \E i \in DOMAIN h : h[i].kind = "attempt" /\ h[i].id = x /\ h[i].val = "started"

AttemptHasEnded(h, x) ==
  \E i \in DOMAIN h : h[i].kind = "attempt" /\ h[i].id = x /\ h[i].val # "started"

AttemptOf(h, x, r, g) ==
  \E i \in DOMAIN h : /\ h[i].kind = "attempt" /\ h[i].id = x /\ h[i].val = "started"
                      /\ h[i].run = r /\ h[i].cfg = g

LimitReached(h, r) == \E i \in DOMAIN h : h[i].kind = "limit" /\ h[i].run = r

\* How much of a limit the first n facts record: tokens reported by finished
\* attempts, one by one, physical attempts started, tool calls admitted.
Uses(h, n, r, what) ==
  CASE what = "tokens" ->
         UNION {{i} \X (1..h[i].num) : i \in
           {j \in 1..n : h[j].kind = "attempt" /\ h[j].run = r /\ h[j].val # "started"}}
    [] what = "attempts" ->
         {i \in 1..n : h[i].kind = "attempt" /\ h[i].run = r /\ h[i].val = "started"}
    [] what = "calls" ->
         {i \in 1..n : h[i].kind = "call" /\ h[i].run = r}

UsedBefore(h, n, r, what) == Cardinality(Uses(h, n, r, what))

-----------------------------------------------------------------------------
(* Changes that append History facts.                                      *)

Active(a, r) == a.runState = "running" /\ a.activeRun = r

FactOf(kind, id, r, ref, val, g, num) ==
  [kind |-> kind, id |-> id, run |-> r, ref |-> ref, val |-> val, cfg |-> g, num |-> num]

Log(a, kind, id, r, ref, val, g, num) ==
  [a EXCEPT !.history = Append(@, FactOf(kind, id, r, ref, val, g, num))]

CanAppendMessage(a, m) == ~HasMessage(a.history, m)

AppendMessage(a, m, r, role) == Log(a, "message", m, r, None, role, None, 0)

\* A tool call and its unfinished journal entry are one transaction
\* (validateToolTransactions), hence one change here.
CanAdmitToolCall(a, c, m, r) ==
  /\ ~HasCall(a.history, c)
  /\ \E i \in DOMAIN a.history :
       /\ a.history[i].kind = "message" /\ a.history[i].id = m
       /\ a.history[i].val = "assistant" /\ a.history[i].run = r
  /\ a.journal[c].status = "absent"
  /\ Active(a, r)

AdmitToolCall(a, c, m, r, status) ==
  [Log(a, "call", c, r, m, "none", None, 0)
     EXCEPT !.journal[c] = [status |-> status, run |-> r]]

\* Likewise a tool result and its terminal journal entry; the call must have
\* been durable before this transaction (base).
CanSettleToolCall(a, base, c) ==
  /\ HasCall(base, c) /\ ~HasResult(a.history, c)
  /\ a.journal[c].status \in Unfinished

SettleToolCall(a, c, status) ==
  [Log(a, "result", c, a.journal[c].run, None, status, None, 0)
     EXCEPT !.journal[c].status = status]

\* A pending entry on its own: the execution boundary of a prepared call.
\* The Store also accepts one for a call it has never seen (applyJournal).
CanMarkPending(a, c, r) ==
  \/ a.journal[c].status = "prepared" /\ a.journal[c].run = r
  \/ a.journal[c].status = "absent" /\ Active(a, r)

MarkPending(a, c, r) == [a EXCEPT !.journal[c] = [status |-> "pending", run |-> r]]

CanStartRun(a, r) == ~RunHasStarted(a.history, r) /\ Active(a, r)

StartRun(a, r, g) == Log(a, "run", r, r, None, "started", g, 0)

CanEndRun(a, r, g) ==
  /\ RunFrozen(a.history, r, g) /\ ~RunHasEnded(a.history, r)
  /\ Active(a, r)

EndRun(a, r, g, outcome) == Log(a, "run", r, r, None, outcome, g, 0)

CanStartAttempt(a, x, r, g) ==
  /\ ~AttemptHasStarted(a.history, x) /\ ~AttemptHasEnded(a.history, x)
  /\ Active(a, r) /\ RunFrozen(a.history, r, g)

StartAttempt(a, x, r, g) == Log(a, "attempt", x, r, None, "started", g, 0)

\* Finishing an attempt does not require its Run to be active any more.
CanFinishAttempt(a, x, r, g) ==
  AttemptOf(a.history, x, r, g) /\ ~AttemptHasEnded(a.history, x)

FinishAttempt(a, x, r, g, outcome, tokens) ==
  Log(a, "attempt", x, r, None, outcome, g, tokens)

CanContribute(a, k, r) ==
  /\ Active(a, r)
  /\ ~ \E i \in DOMAIN a.history :
         a.history[i].kind = "context" /\ a.history[i].id = k /\ a.history[i].run = r

Contribute(a, k, r) == Log(a, "context", k, r, None, "none", None, 0)

\* appendRunBudgetExceededFact and appendRunLimitExceededFact: one such fact
\* per Run, and it must report exactly what the durable History shows.
CanReachLimit(a, r, what, used) ==
  /\ Active(a, r) /\ ~LimitReached(a.history, r)
  /\ used = UsedBefore(a.history, Len(a.history), r, what)

ReachLimit(a, r, what, used) == Log(a, "limit", None, r, None, what, None, used)

\* The configuration and its ModelConfigChanged event are one transaction.
CanSetModelConfig(a) == a.runState = "idle"

SetModelConfig(a, g) ==
  [Log(a, "config", None, None, None, "none", g, 0) EXCEPT !.config = g]

-----------------------------------------------------------------------------
(* Changes to the Queue.                                                   *)

InQueue(q, m) == \E i \in DOMAIN q : q[i].id = m

Unclaimed(q, m) == \E i \in DOMAIN q : q[i].id = m /\ q[i].claimedBy = None

PositionOf(q, m) == CHOOSE i \in DOMAIN q : q[i].id = m

WithoutItem(q, m) ==
  LET p == PositionOf(q, m)
  IN  [i \in 1..(Len(q) - 1) |-> IF i < p THEN q[i] ELSE q[i + 1]]

CanEnqueue(a, m) == ~InQueue(a.queue, m)

Enqueue(a, m, d) ==
  [a EXCEPT !.queue = Append(@, [id |-> m, delivery |-> d, claimedBy |-> None])]

CanClaim(a, m, r) == Unclaimed(a.queue, m) /\ Active(a, r)

Claim(a, m, r) ==
  [a EXCEPT !.queue =
     [i \in DOMAIN a.queue |->
        IF a.queue[i].id = m THEN [a.queue[i] EXCEPT !.claimedBy = r] ELSE a.queue[i]]]

CanConsume(a, m, r) ==
  \E i \in DOMAIN a.queue : a.queue[i].id = m /\ a.queue[i].claimedBy = r

Consume(a, m) == [a EXCEPT !.queue = WithoutItem(@, m)]

\* Edit, delete and reclassify share one condition: the item is unclaimed.
\* An edit replaces the text, which is not modelled, and the delivery.
CanRevise(a, m) == Unclaimed(a.queue, m)

Reclassify(a, m, d) ==
  [a EXCEPT !.queue =
     [i \in DOMAIN a.queue |->
        IF a.queue[i].id = m THEN [a.queue[i] EXCEPT !.delivery = d] ELSE a.queue[i]]]

Delete(a, m) == [a EXCEPT !.queue = WithoutItem(@, m)]

-----------------------------------------------------------------------------
(* Changes to the run state, the Context and the ExtensionJournal.         *)

CanSetRunning(a) == a.runState = "idle"

SetRunning(a, r) == [a EXCEPT !.runState = "running", !.activeRun = r]

CanSetIdle(a, r) == Active(a, r)

SetIdle(a) == [a EXCEPT !.runState = "idle", !.activeRun = None]

\* The request's own Run must have a start fact with the same configuration.
CanSetContext(a, r, g) == RunFrozen(a.history, r, g)

SetContext(a, r, g, retain) ==
  [a EXCEPT !.ctx = [version |-> a.ctx.version + 1, run |-> r, cfg |-> g],
            !.retained = IF ~retain THEN <<>>
                         ELSE IF a.ctx.version # 0 THEN Append(@, a.ctx) ELSE @]

CanAddEntry(a, e) ==
  /\ EntryShape(e, None) /\ e.status = "prepared"
  /\ ~ \E i \in DOMAIN a.ext : a.ext[i].inv = e.inv

AddEntry(a, e) == [a EXCEPT !.ext = Append(@, e)]

\* Mutant: the transition is not validated.
CanUpdateEntryFreely(a, i, e) == EntryShape(e, None) /\ SameIdentity(a.ext[i], e)

CanUpdateEntry(a, i, e) ==
  /\ EntryShape(e, None) /\ SameIdentity(a.ext[i], e) /\ ValidTransition(a.ext[i], e)

UpdateEntry(a, i, e) == [a EXCEPT !.ext[i] = e]

-----------------------------------------------------------------------------
(* The end of a transaction and recovery.                                  *)

ClaimsBelong(a) ==
  \A i \in DOMAIN a.queue :
    a.queue[i].claimedBy # None => Active(a, a.queue[i].claimedBy)

CanCommit(a) ==
  /\ a.runState = "idle" => \A c \in Calls : a.journal[c].status \notin Unfinished
  /\ ClaimsBelong(a)

NextRevision(a) == [a EXCEPT !.rev = @ + 1]

\* recoverAggregate, in the order of its loops.  A prepared call of the active
\* Run and an unsettled completion gate are work the Run can still continue.
Recoverable(a) ==
  /\ a.activeRun # None
  /\ \/ \E c \in Calls : a.journal[c].status = "prepared" /\ a.journal[c].run = a.activeRun
     \/ \E i \in DOMAIN a.ext : RecoverableCompletion(a.ext[i], a.activeRun)

Orphan(a, x) == AttemptHasStarted(a.history, x) /\ ~AttemptHasEnded(a.history, x)

RecoverExtensions(a) ==
  [a EXCEPT !.ext = [i \in DOMAIN a.ext |-> RecoverEntry(a.ext[i])]]

RecoverAttempt(a, x, r, g) == FinishAttempt(a, x, r, g, "outcome_unknown", 0)

\* Mutant: the journal is settled without a result in History.
RecoverCallUnlogged(a, c) == [a EXCEPT !.journal[c].status = "outcome_unknown"]

RecoverCall(a, c) ==
  [(IF HasResult(a.history, c) THEN a
    ELSE Log(a, "result", c, a.journal[c].run, None, "outcome_unknown", None, 0))
     EXCEPT !.journal[c].status = "outcome_unknown"]

\* Mutant: the Queue keeps its steers and the Run its missing terminal fact.
InterruptRunKeepsSteers(a, g) ==
  [a EXCEPT !.runState = "idle", !.activeRun = None,
            !.queue = [i \in DOMAIN a.queue |-> [a.queue[i] EXCEPT !.claimedBy = None]]]

\* The Run that cannot continue is recorded as interrupted, its claims are
\* released and every steer is held for the user.
InterruptRun(a, g) ==
  LET r == a.activeRun
      ended == IF RunFrozen(a.history, r, g) /\ ~RunHasEnded(a.history, r)
               THEN EndRun(a, r, g, "interrupted") ELSE a
      released(it) ==
        [it EXCEPT !.claimedBy = IF @ = r THEN None ELSE @,
                   !.delivery  = IF @ = "steer" THEN "held" ELSE @]
  IN  [ended EXCEPT !.runState = "idle", !.activeRun = None,
                    !.queue = [i \in DOMAIN a.queue |-> released(a.queue[i])]]

-----------------------------------------------------------------------------
(* validateFileDocument: what FileStore demands of an aggregate before it  *)
(* will read it again.                                                     *)

RunStateValid(a) == (a.runState = "running") <=> (a.activeRun # None)

QueueValid(a) ==
  /\ ClaimsBelong(a)
  /\ \A i, j \in DOMAIN a.queue : a.queue[i].id = a.queue[j].id => i = j

MessagesUnique(h) ==
  \A i, j \in DOMAIN h :
    h[i].kind = "message" /\ h[j].kind = "message" /\ h[i].id = h[j].id => i = j

\* A call follows its assistant message, a result its call, each once.
CallsPaired(h) ==
  /\ \A i, j \in DOMAIN h :
       h[i].kind = h[j].kind /\ h[i].kind \in {"call", "result"} /\ h[i].id = h[j].id
         => i = j
  /\ \A i \in DOMAIN h : h[i].kind = "call" =>
       \E k \in 1..(i - 1) : /\ h[k].kind = "message" /\ h[k].id = h[i].ref
                             /\ h[k].val = "assistant" /\ h[k].run = h[i].run
  /\ \A i \in DOMAIN h : h[i].kind = "result" =>
       \E k \in 1..(i - 1) : h[k].kind = "call" /\ h[k].id = h[i].id

\* A Run starts once and ends at most once, later, with the same frozen
\* configuration.
RunsPaired(h) ==
  /\ \A i, j \in DOMAIN h :
       /\ h[i].kind = "run" /\ h[j].kind = "run" /\ h[i].id = h[j].id
       /\ (h[i].val = "started") <=> (h[j].val = "started")
       => i = j
  /\ \A i \in DOMAIN h : h[i].kind = "run" /\ h[i].val # "started" =>
       \E k \in 1..(i - 1) : /\ h[k].kind = "run" /\ h[k].id = h[i].id
                             /\ h[k].val = "started" /\ h[k].cfg = h[i].cfg

\* The same for physical model attempts.
AttemptsPaired(h) ==
  /\ \A i, j \in DOMAIN h :
       /\ h[i].kind = "attempt" /\ h[j].kind = "attempt" /\ h[i].id = h[j].id
       /\ (h[i].val = "started") <=> (h[j].val = "started")
       => i = j
  /\ \A i \in DOMAIN h : h[i].kind = "attempt" /\ h[i].val # "started" =>
       \E k \in 1..(i - 1) : /\ h[k].kind = "attempt" /\ h[k].id = h[i].id
                             /\ h[k].val = "started" /\ h[k].run = h[i].run
                             /\ h[k].cfg = h[i].cfg

\* Attempts start, context arrives and limits are reached only inside their
\* Run: after its start and before its end.
InsideRun(h) ==
  \A i \in DOMAIN h :
    \/ h[i].kind = "attempt" /\ h[i].val = "started"
    \/ h[i].kind \in {"context", "limit"}
    =>
    /\ \E k \in 1..(i - 1) : /\ h[k].kind = "run" /\ h[k].id = h[i].run
                             /\ h[k].val = "started"
                             /\ h[i].kind = "attempt" => h[k].cfg = h[i].cfg
    /\ ~ \E k \in 1..(i - 1) : /\ h[k].kind = "run" /\ h[k].id = h[i].run
                               /\ h[k].val # "started"

OncePerRun(h) ==
  \A i, j \in DOMAIN h :
    /\ h[i].kind = h[j].kind /\ h[i].kind \in {"context", "limit"}
    /\ h[i].run = h[j].run /\ h[i].id = h[j].id
    => i = j

LimitsExact(h) ==
  \A i \in DOMAIN h : h[i].kind = "limit" =>
    h[i].num = UsedBefore(h, i - 1, h[i].run, h[i].val)

JournalValid(a) ==
  \A c \in Calls :
    /\ a.journal[c].status \in Unfinished =>
         Active(a, a.journal[c].run) /\ ~HasResult(a.history, c)
    /\ a.journal[c].status # "absent" => HasCall(a.history, c)
    /\ a.journal[c].status \in JournalTerminal =>
         ResultIs(a.history, c, a.journal[c].status)
    /\ HasCall(a.history, c) /\ ~HasResult(a.history, c) =>
         a.journal[c].status \in Unfinished

ContextValid(a) ==
  /\ a.ctx.version # 0 => RunFrozen(a.history, a.ctx.run, a.ctx.cfg)
  /\ \A i \in DOMAIN a.retained :
       /\ a.retained[i].version \in 1..(a.ctx.version - 1)
       /\ RunFrozen(a.history, a.retained[i].run, a.retained[i].cfg)
  /\ \A i, j \in DOMAIN a.retained :
       i < j => a.retained[i].version < a.retained[j].version

ExtensionsValid(a) ==
  /\ \A i \in DOMAIN a.ext : EntryShape(a.ext[i], None)
  /\ \A i, j \in DOMAIN a.ext : a.ext[i].inv = a.ext[j].inv => i = j

DocumentValid(a) ==
  /\ RunStateValid(a) /\ QueueValid(a) /\ JournalValid(a)
  /\ MessagesUnique(a.history) /\ CallsPaired(a.history) /\ RunsPaired(a.history)
  /\ AttemptsPaired(a.history) /\ InsideRun(a.history) /\ OncePerRun(a.history)
  /\ ContextValid(a) /\ ExtensionsValid(a)
=============================================================================
