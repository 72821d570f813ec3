----------------------------- MODULE AgentRuntime -----------------------------
(***************************************************************************)
(* One Session's AgentRuntime (standardagent/runtime_execution.go,         *)
(* runtime_commands.go, runtime_context.go, tool_dispatcher.go) with the   *)
(* standard loop (loop_module.go) and the OpenAI-compatible executor       *)
(* (model/openaicompat/stream.go), over the Session aggregate.             *)
(*                                                                         *)
(* Two kinds of process act on it: the Gateway's commands and the loop     *)
(* goroutine of the active Run.  A step that holds r.mu is one action; the *)
(* loop holds it only while it commits, so commands interleave with every  *)
(* step of the loop.  A crash may come between any two actions; Resume is  *)
(* Recover followed by the opening of a fresh Runtime.                     *)
(*                                                                         *)
(* The Runtime is the only writer of its Session and re-reads the revision *)
(* under r.mu before it commits, so the revision is not modelled here: a   *)
(* command with a stale revision is a command that does nothing.  Input    *)
(* gates, tool hooks, completion gates and context sources are not part of *)
(* this module (ext stays empty).                                          *)
(***************************************************************************)
EXTENDS SessionAggregate, SequencesExt, Positions

CONSTANTS
  Inputs, Proposals, Answers,  \* Messages: from users, from hooks, from the model
  MaxModelAttemptsPerRun, MaxToolCallsPerRun,      \* Config; 0 is "no limit"
  MaxTokensPerRun,
  MaxTries,                    \* executor.maxAttempts
  Usage,                       \* token usages an attempt may report
  Batches,                     \* numbers of calls a completion may request
  ParallelSafe,                \* whether the tools are ParallelSafe or Serial
  ReclassifyTo,                \* deliveries users move queued input to
  Shared,                      \* whether other Sessions use the executor
  MaxFaults, MaxCrashes, MaxUpdates     \* bounds of an instance

ASSUME RuntimeAssumption ==
  /\ Messages = Inputs \cup Proposals \cup Answers
  /\ Inputs \cap Proposals = {} /\ (Inputs \cup Proposals) \cap Answers = {}
  /\ IsFiniteSet(Calls)
  /\ IsFiniteSet(Attempts) /\ Attempts = 1..Cardinality(Attempts)
  /\ {MaxModelAttemptsPerRun, MaxToolCallsPerRun, MaxTokensPerRun, MaxTries,
      MaxFaults, MaxCrashes, MaxUpdates} \subseteq Nat
  /\ Usage \subseteq Nat /\ Batches \subseteq Nat
  /\ {ParallelSafe, Shared} \subseteq BOOLEAN /\ ReclassifyTo \subseteq Deliveries

VARIABLES
  agg,      \* the durable aggregate
  rt,       \* runtimeInstance and its activeRun
  loop,     \* the goroutine of the active Run: runtimeLoopRun and its stack
  seq,      \* executor.sequence: process-local, shared by all Sessions
  env       \* what the outside did: see Env

vars == <<agg, rt, loop, seq, env>>

NoRun == [state |-> "down", active |-> None, closing |-> FALSE, cancel |-> FALSE,
          cfg |-> None, attempts |-> 0, calls |-> 0, tokens |-> 0]

\* Where the loop is.  ready..tools are Loop states; execute, stream and
\* complete are inside Act(RequestModel), gate and decide inside
\* continueAfterCompletion, dispatch inside Act(ExecuteTools).
Places == {"none", "ready", "prepare", "execute", "stream", "complete", "gate",
           "decide", "tools", "dispatch", "finish"}

Outcomes == {"none", "natural", "canceled", "failed", "budget"}

\* A call of the current batch: not started, past the durable execution mark,
\* inside the Tool, or with a result.
CallPlaces == {"none", "todo", "marked", "inside", "succeeded", "failed"}

NoLoop == [pc |-> "none", work |-> [c \in Calls |-> "none"], attempt |-> 0,
           tries |-> 0, proposal |-> FALSE, broken |-> FALSE, out |-> "none"]

\* ran counts the invocations of a call's Tool; accepted and deleted are the
\* inputs the Runtime acknowledged and the ones users deleted again.
Env == [ran: [Calls -> Nat], accepted: SUBSET Messages, deleted: SUBSET Messages,
        faults: Nat, crashes: Nat]

Init ==
  /\ \E g \in Configs : agg = NewAggregate(g)
  /\ rt = [NoRun EXCEPT !.state = "idle"]
  /\ loop = NoLoop
  /\ seq = 0
  /\ env = [ran |-> [c \in Calls |-> 0], accepted |-> {}, deleted |-> {},
            faults |-> 0, crashes |-> 0]

-----------------------------------------------------------------------------
(* Transactions.                                                           *)

\* Store.Commit of a transaction the Store accepts under ok.
Commits(ok, next) == ok /\ CanCommit(next) /\ agg' = next

\* Store.Commit returns an error: the transaction is refused, or the Store
\* itself fails (bounded).  e is env as the action leaves it otherwise.
Errs(ok, next, e) ==
  /\ agg' = agg
  /\ \/ ~(ok /\ CanCommit(next)) /\ env' = e
     \/ e.faults < MaxFaults /\ env' = [e EXCEPT !.faults = @ + 1]

Steer(it) == it.delivery = "steer" /\ it.claimedBy = None
Normal(it) == it.delivery = "normal" /\ it.claimedBy = None

Steering(a) == {i \in DOMAIN a.queue : Steer(a.queue[i])}
Steers(a) == Selection(a.queue, Steering(a))

\* appendInputConsumption: claim, consume and record in one transaction.
CanTakeInput(a, m, r) == CanClaim(a, m, r) /\ CanAppendMessage(a, m)

\* Mutant: the input leaves the Queue without becoming a message.
TakeInputUnrecorded(a, m, r) == Consume(Claim(a, m, r), m)

TakeInput(a, m, r) == AppendMessage(Consume(Claim(a, m, r), m), m, r, "user")

CanTakeSteers(a, r) == \A i \in DOMAIN Steers(a) : CanTakeInput(a, Steers(a)[i].id, r)

\* appendInputConsumption for each of them, in the order of the Queue.
TakeSteers(a, r) ==
  [a EXCEPT !.history = @ \o [i \in DOMAIN Steers(a) |->
                                FactOf("message", Steers(a)[i].id, r, None, "user", None, 0)],
            !.queue = Selection(@, DOMAIN @ \ Steering(a))]

HoldSteers(a) ==
  [a EXCEPT !.queue = [i \in DOMAIN @ |->
     IF Steer(@[i]) THEN [@[i] EXCEPT !.delivery = "held"] ELSE @[i]]]

\* startChangesLocked without the enqueueing of the item.
CanBegin(a, m, r) ==
  /\ CanSetRunning(a) /\ CanStartRun(SetRunning(a, r), r)
  /\ CanTakeInput(StartRun(SetRunning(a, r), r, a.config), m, r)

Begin(a, m, r) == TakeInput(StartRun(SetRunning(a, r), r, a.config), m, r)

\* nextID: identities never used before.
FreshRun == CHOOSE r \in Runs : ~RunHasStarted(agg.history, r)
FreshInput == CHOOSE m \in Inputs : m \notin env.accepted
FreshProposal == CHOOSE m \in Proposals : m \notin env.accepted
FreshAnswer == CHOOSE m \in Answers : ~HasMessage(agg.history, m)
FreshCalls(n) ==
  CHOOSE s \in SUBSET {c \in Calls : ~HasCall(agg.history, c)} : Cardinality(s) = n

RunsLeft == \E r \in Runs : ~RunHasStarted(agg.history, r)
InputsLeft == Inputs \ env.accepted # {}
AnswersLeft(n) ==
  /\ \E m \in Answers : ~HasMessage(agg.history, m)
  /\ n <= Cardinality({c \in Calls : ~HasCall(agg.history, c)})

\* activateLocked and the start of the loop goroutine.
Activate(r, g) ==
  /\ rt' = [NoRun EXCEPT !.state = "running", !.active = r, !.cfg = g]
  /\ loop' = [NoLoop EXCEPT !.pc = "ready"]

-----------------------------------------------------------------------------
(* Store.Recover, as one operation.                                        *)

ConfigOf(a, r) == CHOOSE g \in Configs : RunFrozen(a.history, r, g)

\* Mutant: the attempts of an interrupted Run stay open.
RecoverAttemptsSkipped(a) == a

\* The starts of attempts that have no end.
Unended(h) ==
  {i \in DOMAIN h : h[i].kind = "attempt" /\ h[i].val = "started" /\ ~AttemptHasEnded(h, h[i].id)}

RecoverAttempts(a) ==
  LET lost == Selection(a.history, Unended(a.history))
  IN  [a EXCEPT !.history = @ \o [i \in DOMAIN lost |->
         FactOf("attempt", lost[i].id, lost[i].run, None, "outcome_unknown", lost[i].cfg, 0)]]

\* Mutant: the journal is settled without a result in History.
RecoverCallsUnlogged(a) ==
  [a EXCEPT !.journal = [c \in Calls |->
     IF @[c].status = "pending" THEN [@[c] EXCEPT !.status = "outcome_unknown"] ELSE @[c]]]

\* A call that was inside its Tool has an unknown outcome.
RecoverCalls(a) ==
  LET lost == SetToSeq({c \in Calls : a.journal[c].status = "pending" /\ ~HasResult(a.history, c)})
  IN  [a EXCEPT !.history = @ \o [i \in DOMAIN lost |->
                    FactOf("result", lost[i], a.journal[lost[i]].run, None, "outcome_unknown",
                           None, 0)],
                !.journal = [c \in Calls |->
                    IF @[c].status = "pending" THEN [@[c] EXCEPT !.status = "outcome_unknown"]
                    ELSE @[c]]]

Recovered(a) ==
  LET b == RecoverCalls(RecoverAttempts(RecoverExtensions(a)))
  IN  IF b.runState = "running" /\ ~Recoverable(b)
      THEN InterruptRun(b, ConfigOf(b, b.activeRun)) ELSE b

-----------------------------------------------------------------------------
(* Gateway commands.                                                       *)

Open == rt.state \in {"idle", "running"} /\ ~rt.closing

Accept(m) == env' = [env EXCEPT !.accepted = @ \cup {m}]

\* Idle: the new input starts a Run at once, ahead of what is queued.
Send ==
  /\ Open /\ InputsLeft
  /\ LET m == FreshInput
         queued == Enqueue(agg, m, "normal")
     IN  \/ /\ rt.state = "running"
            /\ Commits(CanEnqueue(agg, m), queued) /\ Accept(m)
            /\ UNCHANGED <<rt, loop>>
         \/ /\ rt.state = "idle" /\ RunsLeft
            /\ Commits(CanEnqueue(agg, m) /\ CanBegin(queued, m, FreshRun),
                       Begin(queued, m, FreshRun))
            /\ Accept(m)
            /\ Activate(FreshRun, agg.config)
  /\ UNCHANGED seq

SteerRun ==
  /\ Open /\ rt.state = "running" /\ rt.active # None /\ InputsLeft
  /\ Commits(CanEnqueue(agg, FreshInput), Enqueue(agg, FreshInput, "steer"))
  /\ Accept(FreshInput)
  /\ UNCHANGED <<rt, loop, seq>>

RunPending ==
  /\ Open /\ rt.state = "idle" /\ RunsLeft
  /\ \E i \in DOMAIN agg.queue :
       /\ Normal(agg.queue[i]) /\ \A j \in 1..(i - 1) : ~Normal(agg.queue[j])
       /\ Commits(CanBegin(agg, agg.queue[i].id, FreshRun),
                  Begin(agg, agg.queue[i].id, FreshRun))
  /\ Activate(FreshRun, agg.config)
  /\ UNCHANGED <<seq, env>>

Cancel ==
  /\ Open /\ rt.state = "running"
  /\ rt' = [rt EXCEPT !.cancel = TRUE]
  /\ UNCHANGED <<agg, loop, seq, env>>

DeleteQueued(m) ==
  /\ Open
  /\ Commits(CanRevise(agg, m), Delete(agg, m))
  /\ env' = [env EXCEPT !.deleted = @ \cup {m}]
  /\ UNCHANGED <<rt, loop, seq>>

ReclassifyQueued(m, d) ==
  /\ Open
  /\ Commits(CanRevise(agg, m), Reclassify(agg, m, d))
  /\ UNCHANGED <<rt, loop, seq, env>>

\* The state is checked again after Inspect ran without the mutex.
UpdateModelConfig(g) ==
  /\ Open /\ rt.state = "idle"
  /\ Cardinality({i \in DOMAIN agg.history : agg.history[i].kind = "config"}) < MaxUpdates
  /\ Commits(CanSetModelConfig(agg), SetModelConfig(agg, g))
  /\ UNCHANGED <<rt, loop, seq, env>>

\* beginClose and startCloseLocked; finishClose waits for the Run to end.
Close ==
  /\ Open
  /\ rt' = [rt EXCEPT !.closing = TRUE, !.cancel = rt.active # None]
  /\ UNCHANGED <<agg, loop, seq, env>>

FinishClose ==
  /\ rt.closing /\ rt.state # "closed" /\ rt.active = None
  /\ rt' = NoRun
  /\ UNCHANGED <<agg, loop, seq, env>>

Crash ==
  /\ rt.state # "down" /\ env.crashes < MaxCrashes
  /\ rt' = NoRun /\ loop' = NoLoop /\ seq' = 0
  /\ env' = [env EXCEPT !.crashes = @ + 1]
  /\ UNCHANGED agg

\* What restorePreparedRun demands of a Session that is still running.
Restorable(a) ==
  /\ \E g \in Configs : RunFrozen(a.history, a.activeRun, g)
  /\ \/ LimitReached(a.history, a.activeRun)
     \/ \E c \in Calls : a.journal[c].status = "prepared"
  /\ ~(LimitReached(a.history, a.activeRun)
         /\ \E c \in Calls : a.journal[c].status = "prepared")

\* Mutant: the counters restart with the Runtime.
RestoredForgetful(a) ==
  [NoRun EXCEPT !.state = "running", !.active = a.activeRun,
                !.cfg = ConfigOf(a, a.activeRun)]

\* The counters of a restored Run are recomputed from History.
Restored(a) ==
  LET used(what) == UsedBefore(a.history, Len(a.history), a.activeRun, what)
  IN  [NoRun EXCEPT !.state = "running", !.active = a.activeRun,
                    !.cfg = ConfigOf(a, a.activeRun), !.attempts = used("attempts"),
                    !.calls = used("calls"), !.tokens = used("tokens")]

Resume ==
  LET a == Recovered(agg)
  IN  /\ rt.state = "down"
      /\ agg' = a
      /\ \/ /\ a.runState = "idle"
            /\ rt' = [NoRun EXCEPT !.state = "idle"] /\ loop' = NoLoop
         \/ /\ a.runState = "running" /\ Restorable(a)
            /\ rt' = Restored(a)
            /\ loop' = IF LimitReached(a.history, a.activeRun)
                       THEN [NoLoop EXCEPT !.pc = "finish", !.out = "budget"]
                       ELSE [NoLoop EXCEPT !.pc = "tools",
                               !.work = [c \in Calls |->
                                 IF a.journal[c].status = "prepared" THEN "todo" ELSE "none"]]
      /\ UNCHANGED <<seq, env>>

-----------------------------------------------------------------------------
(* The loop.                                                               *)

Canceled == rt.cancel \/ rt.closing

EndWith(o) == loop' = [NoLoop EXCEPT !.pc = "finish", !.out = o]

Goto(pc) == loop' = [loop EXCEPT !.pc = pc]

\* Mutant: a canceled context is noticed only before a model request.
ActCanceledReady ==
  /\ loop.pc = "ready" /\ Canceled
  /\ EndWith("canceled")
  /\ UNCHANGED <<agg, rt, seq, env>>

\* Act refuses every action of a canceled Run: the loop returns the context
\* error and the Run ends, whatever state the driver is in.
ActCanceled ==
  /\ loop.pc \in {"ready", "tools"} /\ Canceled
  /\ EndWith("canceled")
  /\ UNCHANGED <<agg, rt, seq, env>>

RequestModel ==
  /\ loop.pc = "ready" /\ ~Canceled
  /\ Goto("prepare")
  /\ UNCHANGED <<agg, rt, seq, env>>

Exhausted == MaxTokensPerRun > 0 /\ rt.tokens >= MaxTokensPerRun

\* recordBudgetExceeded: at the start of a model action and of an attempt.
RecordBudget ==
  LET ok == CanReachLimit(agg, rt.active, "tokens", rt.tokens)
      next == ReachLimit(agg, rt.active, "tokens", rt.tokens)
  IN  /\ loop.pc \in {"prepare", "execute"} /\ Exhausted
      /\ \/ Commits(ok, next) /\ EndWith("budget") /\ UNCHANGED env
         \/ Errs(ok, next, env) /\ EndWith("failed")
      /\ UNCHANGED <<rt, seq>>

\* prepareModelRequest: projection components run without the mutex, and the
\* Context is committed at the revision it was built from.
PrepareModelRequest ==
  LET ok == CanSetContext(agg, rt.active, rt.cfg)
      next == SetContext(agg, rt.active, rt.cfg, FALSE)
  IN  /\ loop.pc = "prepare" /\ ~Exhausted
      /\ \/ Canceled /\ EndWith("canceled") /\ UNCHANGED <<agg, env>>
         \/ /\ ~Canceled /\ Commits(ok, next)
            /\ loop' = [loop EXCEPT !.pc = "execute", !.tries = 1]
            /\ UNCHANGED env
         \/ ~Canceled /\ Errs(ok, next, env) /\ EndWith("failed")
      /\ UNCHANGED <<rt, seq>>

\* A replaceable component fails, or the executor breaks the stream protocol.
ComponentFails ==
  /\ loop.pc \in {"prepare", "execute", "complete", "gate"}
  /\ EndWith("failed")
  /\ UNCHANGED <<agg, rt, seq, env>>

\* Mutant: a canceled Run may still start an attempt.
StartedCanceled ==
  LET x == seq + 1
      ok == CanStartAttempt(agg, x, rt.active, rt.cfg)
  IN  /\ loop.pc = "execute" /\ ~Exhausted /\ x \in Attempts
      /\ seq' = x
      /\ Commits(ok, StartAttempt(agg, x, rt.active, rt.cfg))
      /\ rt' = [rt EXCEPT !.attempts = @ + 1]
      /\ loop' = [loop EXCEPT !.pc = "stream", !.attempt = x]
      /\ UNCHANGED env

\* The executor takes the next identity of its sequence and the recorder
\* commits the start of the attempt, or the limit that forbids it.
Started ==
  LET x == seq + 1
      r == rt.active
      limited == MaxModelAttemptsPerRun > 0 /\ rt.attempts >= MaxModelAttemptsPerRun
      limitOk == /\ CanReachLimit(agg, r, "attempts", rt.attempts)
                 /\ ~AttemptOf(agg.history, x, r, rt.cfg)
      limit == ReachLimit(agg, r, "attempts", rt.attempts)
      ok == CanStartAttempt(agg, x, r, rt.cfg)
      start == StartAttempt(agg, x, r, rt.cfg)
  IN  /\ loop.pc = "execute" /\ ~Exhausted /\ x \in Attempts
      /\ seq' = x
      /\ \/ Canceled /\ EndWith("canceled") /\ UNCHANGED <<agg, rt, env>>
         \/ /\ ~Canceled /\ limited /\ Commits(limitOk, limit)
            /\ EndWith("budget") /\ UNCHANGED <<rt, env>>
         \/ /\ ~Canceled /\ limited /\ Errs(limitOk, limit, env)
            /\ EndWith("failed") /\ UNCHANGED rt
         \/ /\ ~Canceled /\ ~limited /\ Commits(ok, start)
            /\ rt' = [rt EXCEPT !.attempts = @ + 1]
            /\ loop' = [loop EXCEPT !.pc = "stream", !.attempt = x]
            /\ UNCHANGED env
         \/ /\ ~Canceled /\ ~limited /\ Errs(ok, start, env)
            /\ EndWith("failed") /\ UNCHANGED rt

\* Other Sessions draw identities from the same executor.
OtherSessionStarts ==
  /\ Shared /\ seq + 1 \in Attempts /\ seq' = seq + 1
  /\ UNCHANGED <<agg, rt, loop, env>>

\* The physical attempt ends and the recorder commits how.  A canceled one is
\* recorded too; a failed one is retried within the executor's own bound.
Finished(outcome, tokens) ==
  LET ok == CanFinishAttempt(agg, loop.attempt, rt.active, rt.cfg)
      next == FinishAttempt(agg, loop.attempt, rt.active, rt.cfg, outcome, tokens)
  IN  /\ loop.pc = "stream"
      /\ outcome = "canceled" => Canceled
      /\ \/ /\ Commits(ok, next) /\ UNCHANGED env
            /\ rt' = [rt EXCEPT !.tokens = @ + tokens]
            /\ \/ outcome = "succeeded" /\ Goto("complete")
               \/ outcome = "canceled" /\ EndWith("canceled")
               \/ outcome = "failed" /\ EndWith("failed")
               \/ /\ outcome = "failed" /\ ~Canceled /\ loop.tries < MaxTries
                  /\ loop' = [loop EXCEPT !.pc = "execute", !.tries = @ + 1]
         \/ Errs(ok, next, env) /\ EndWith("failed") /\ UNCHANGED rt
      /\ UNCHANGED seq

\* commitCompletion with n requested tool calls.
CommitCompletion(n) ==
  LET r == rt.active
      m == FreshAnswer
      calls == FreshCalls(n)
      batch == SetToSeq(calls)
      over == MaxToolCallsPerRun > 0 /\ n > MaxToolCallsPerRun - rt.calls
      limitOk == CanReachLimit(agg, r, "calls", rt.calls)
      limit == ReachLimit(agg, r, "calls", rt.calls)
      said == AppendMessage(agg, m, r, "assistant")
      ok == CanAppendMessage(agg, m) /\ \A c \in calls : CanAdmitToolCall(said, c, m, r)
      next == [said EXCEPT
                 !.history = @ \o [i \in DOMAIN batch |->
                                     FactOf("call", batch[i], r, m, "none", None, 0)],
                 !.journal = [c \in Calls |->
                   IF c \in calls THEN [status |-> "prepared", run |-> r] ELSE @[c]]]
  IN  /\ loop.pc = "complete"
      /\ \/ Canceled /\ EndWith("canceled") /\ UNCHANGED <<agg, rt, env>>
         \/ /\ ~Canceled /\ over /\ Commits(limitOk, limit)
            /\ EndWith("budget") /\ UNCHANGED <<rt, env>>
         \/ /\ ~Canceled /\ over /\ Errs(limitOk, limit, env)
            /\ EndWith("failed") /\ UNCHANGED rt
         \/ /\ ~Canceled /\ ~over /\ AnswersLeft(n) /\ Commits(ok, next)
            /\ rt' = [rt EXCEPT !.calls = @ + n]
            /\ loop' = [NoLoop EXCEPT !.pc = IF n = 0 THEN "gate" ELSE "tools",
                          !.work = [c \in Calls |-> IF c \in calls THEN "todo" ELSE "none"]]
            /\ UNCHANGED env
         \/ /\ ~Canceled /\ ~over /\ AnswersLeft(n) /\ Errs(ok, next, env)
            /\ EndWith("failed") /\ UNCHANGED rt
      /\ UNCHANGED seq

\* continueAfterCompletionOnce without the mutex: a pending steer skips the
\* evaluation, otherwise the Goal and the hooks may propose an input.
EvaluateCompletion(proposal) ==
  /\ loop.pc = "gate"
  /\ \/ Canceled /\ ~proposal /\ EndWith("canceled")
     \/ /\ proposal => Steers(agg) = <<>>
        /\ loop' = [loop EXCEPT !.pc = "decide", !.proposal = proposal]
  /\ UNCHANGED <<agg, rt, seq, env>>

\* With the mutex: steers first, then proposals, else the Run is complete.
ContinueOrComplete ==
  LET r == rt.active
      steersOk == CanTakeSteers(agg, r)
      m == FreshProposal
      proposed == Enqueue(agg, m, "steer")
      proposalOk == CanEnqueue(agg, m) /\ CanTakeInput(proposed, m, r)
  IN  /\ loop.pc = "decide"
      /\ \/ Canceled /\ EndWith("canceled") /\ UNCHANGED <<agg, env>>
         \/ /\ ~Canceled /\ Steers(agg) # <<>> /\ UNCHANGED env
            /\ Commits(steersOk, TakeSteers(agg, r)) /\ Goto("ready")
         \/ /\ ~Canceled /\ Steers(agg) # <<>>
            /\ Errs(steersOk, TakeSteers(agg, r), env) /\ EndWith("failed")
         \/ /\ ~Canceled /\ Steers(agg) = <<>> /\ loop.proposal /\ Accept(m)
            /\ Commits(proposalOk, TakeInput(proposed, m, r)) /\ Goto("ready")
         \/ /\ ~Canceled /\ Steers(agg) = <<>> /\ loop.proposal
            /\ Errs(proposalOk, TakeInput(proposed, m, r), env) /\ EndWith("failed")
         \/ /\ ~Canceled /\ Steers(agg) = <<>> /\ ~loop.proposal
            /\ EndWith("natural") /\ UNCHANGED <<agg, env>>
      /\ UNCHANGED <<rt, seq>>

-----------------------------------------------------------------------------
(* Tool execution.                                                         *)

ExecuteTools ==
  /\ loop.pc = "tools" /\ ~Canceled
  /\ Goto("dispatch")
  /\ UNCHANGED <<agg, rt, seq, env>>

\* Serial tools run one at a time, and none after a contract violation.
MayBegin(c) ==
  /\ loop.pc = "dispatch" /\ loop.work[c] = "todo"
  /\ ParallelSafe \/ \A d \in Calls : loop.work[d] \notin {"marked", "inside"}

CallResult(c, result, violation) ==
  loop' = [loop EXCEPT !.work[c] = result, !.broken = @ \/ violation]

\* Validation, policy or approval refuses the call, or the batch is aborted.
RefuseCall(c) ==
  /\ MayBegin(c)
  /\ CallResult(c, "failed", FALSE)
  /\ UNCHANGED <<agg, rt, seq, env>>

\* Mutant: the tool runs without the durable mark.
MarkToolExecutingLater(c) ==
  /\ MayBegin(c) /\ ~Canceled
  /\ loop' = [loop EXCEPT !.work[c] = "marked"]
  /\ UNCHANGED <<agg, rt, seq, env>>

\* markToolExecuting: the durable point of no automatic return.
MarkToolExecuting(c) ==
  LET ok == CanMarkPending(agg, c, rt.active)
      next == MarkPending(agg, c, rt.active)
  IN  /\ MayBegin(c) /\ (ParallelSafe \/ ~loop.broken)
      /\ \/ Canceled /\ CallResult(c, "failed", FALSE) /\ UNCHANGED <<agg, env>>
         \/ ~Canceled /\ Errs(ok, next, env) /\ CallResult(c, "failed", FALSE)
         \/ /\ ~Canceled /\ Commits(ok, next) /\ UNCHANGED env
            /\ loop' = [loop EXCEPT !.work[c] = "marked"]
      /\ UNCHANGED <<rt, seq>>

InvokeTool(c) ==
  /\ loop.pc = "dispatch" /\ loop.work[c] = "marked"
  /\ loop' = [loop EXCEPT !.work[c] = "inside"]
  /\ env' = [env EXCEPT !.ran[c] = @ + 1]
  /\ UNCHANGED <<agg, rt, seq>>

\* A panic or an invalid result is a contract violation and a failed result.
ToolReturns(c, result, violation) ==
  /\ loop.pc = "dispatch" /\ loop.work[c] = "inside"
  /\ violation => result = "failed"
  /\ CallResult(c, result, violation)
  /\ UNCHANGED <<agg, rt, seq, env>>

\* commitToolResults: every result and the waiting steers, in one transaction
\* that a cancellation does not prevent.
CommitToolResults ==
  LET done == {c \in Calls : loop.work[c] # "none"}
      batch == SetToSeq(done)
      settled ==
        [agg EXCEPT
           !.history = @ \o [i \in DOMAIN batch |->
                               FactOf("result", batch[i], agg.journal[batch[i]].run, None,
                                      loop.work[batch[i]], None, 0)],
           !.journal = [c \in Calls |->
             IF c \in done THEN [@[c] EXCEPT !.status = loop.work[c]] ELSE @[c]]]
      ok == /\ \A c \in done : CanSettleToolCall(agg, agg.history, c)
            /\ CanTakeSteers(agg, rt.active)
      next == TakeSteers(settled, rt.active)
  IN  /\ loop.pc = "dispatch"
      /\ \A c \in done : loop.work[c] \in {"succeeded", "failed"}
      /\ \/ /\ Commits(ok, next) /\ UNCHANGED env
            /\ \/ loop.broken /\ EndWith("failed")
               \/ ~loop.broken /\ Canceled /\ EndWith("canceled")
               \/ /\ ~loop.broken /\ ~Canceled
                  /\ loop' = [NoLoop EXCEPT !.pc = "ready"]
         \/ Errs(ok, next, env) /\ EndWith("failed")
      /\ UNCHANGED <<rt, seq>>

-----------------------------------------------------------------------------
(* The end of a Run.                                                       *)

TerminalKind(o) ==
  CASE o = "natural" -> "completed" [] o = "canceled" -> "canceled"
    [] o = "budget" -> "interrupted" [] OTHER -> "failed"

RunSettled(a, r) ==
  /\ a.runState = "idle" /\ RunHasEnded(a.history, r)
  /\ \A c \in Calls : a.journal[c].status \notin Unfinished

\* recoverAfterRunFailureLocked: go on from what Recover proves settled, fail
\* closed otherwise.
RecoverAfterRunFailure(a) ==
  /\ loop' = NoLoop
  /\ rt' = IF RunSettled(a, rt.active)
           THEN [NoRun EXCEPT !.state = "idle", !.closing = rt.closing]
           ELSE [NoRun EXCEPT !.state = "closed", !.closing = TRUE]

\* Cancellation and closing override every other outcome.
FinalOutcome == IF Canceled THEN "canceled" ELSE loop.out

\* finishRun: one transaction ends the Run and, after a natural end, starts
\* the next one from the first queued normal input.
FinishRun ==
  LET r == rt.active
      o == FinalOutcome
      natural == o = "natural"
      held == IF natural THEN agg ELSE HoldSteers(agg)
      ended == SetIdle(EndRun(held, r, rt.cfg, TerminalKind(o)))
      waiting == Selection(agg.queue, {i \in DOMAIN agg.queue : Normal(agg.queue[i])})
      chain == natural /\ ~rt.closing /\ waiting # <<>>
      next == IF chain THEN Begin(ended, waiting[1].id, FreshRun) ELSE ended
      ok == /\ CanEndRun(held, r, rt.cfg)
            /\ chain => CanBegin(ended, waiting[1].id, FreshRun)
  IN  /\ loop.pc = "finish" /\ (chain => RunsLeft)
      /\ \/ /\ Commits(ok, next) /\ UNCHANGED env
            /\ IF chain THEN Activate(FreshRun, agg.config)
               ELSE /\ rt' = [NoRun EXCEPT !.state = "idle", !.closing = rt.closing]
                    /\ loop' = NoLoop
         \/ /\ ~(ok /\ CanCommit(next)) /\ UNCHANGED env
            /\ agg' = Recovered(agg) /\ RecoverAfterRunFailure(Recovered(agg))
         \/ /\ env.faults < MaxFaults
            /\ env' = [env EXCEPT !.faults = @ + 1]
            /\ agg' = Recovered(agg) /\ RecoverAfterRunFailure(Recovered(agg))
         \/ /\ env.faults + 1 < MaxFaults
            /\ env' = [env EXCEPT !.faults = @ + 2]
            /\ agg' = agg /\ RecoverAfterRunFailure(agg)
      /\ UNCHANGED seq

-----------------------------------------------------------------------------
LoopStep ==
  \/ ActCanceled \/ RequestModel \/ RecordBudget \/ PrepareModelRequest
  \/ ComponentFails \/ Started
  \/ \E o \in {"succeeded", "failed", "canceled"}, t \in Usage : Finished(o, t)
  \/ \E n \in Batches : CommitCompletion(n)
  \/ EvaluateCompletion(FALSE)
  \/ Proposals \ env.accepted # {} /\ EvaluateCompletion(TRUE)
  \/ ContinueOrComplete \/ ExecuteTools
  \/ \E c \in Calls : RefuseCall(c) \/ MarkToolExecuting(c) \/ InvokeTool(c)
  \/ \E c \in Calls, s \in {"succeeded", "failed"}, v \in BOOLEAN : ToolReturns(c, s, v)
  \/ CommitToolResults \/ FinishRun

Command ==
  \/ Send \/ SteerRun \/ RunPending \/ Cancel \/ Close
  \/ \E m \in Inputs : DeleteQueued(m)
  \/ \E m \in Inputs, d \in ReclassifyTo : ReclassifyQueued(m, d)
  \/ \E g \in Configs : UpdateModelConfig(g)

Next == LoopStep \/ Command \/ FinishClose \/ Crash \/ Resume \/ OtherSessionStarts

Spec == Init /\ [][Next]_vars

\* The loop goroutine and finishClose are scheduled, and the model and the
\* tools return; commands, crashes and resumptions may or may not come.
FairSpec == Spec /\ WF_vars(LoopStep) /\ WF_vars(FinishClose)

-----------------------------------------------------------------------------
(* Properties.                                                             *)

TypeOK ==
  /\ agg \in Aggregate
  /\ rt \in [state: {"down", "idle", "running", "closed"}, active: Runs \cup {None},
             closing: BOOLEAN, cancel: BOOLEAN, cfg: Configs \cup {None},
             attempts: Nat, calls: Nat, tokens: Nat]
  /\ loop \in [pc: Places, work: [Calls -> CallPlaces], attempt: Attempts \cup {0},
               tries: Nat, proposal: BOOLEAN, broken: BOOLEAN, out: Outcomes]
  /\ seq \in Nat /\ env \in Env

\* A Tool is invoked at most once per call, only after the call's execution
\* mark is durable, and success is never reported for a call that did not run,
\* whatever crashes, cancellations and Store failures come in between.
ToolAtMostOnce ==
  \A c \in Calls :
    /\ env.ran[c] <= 1
    /\ env.ran[c] = 1 => agg.journal[c].status \notin {"absent", "prepared"}
    /\ agg.journal[c].status = "succeeded" => env.ran[c] = 1

\* The process may stop in any state: what is durable is readable, Recover
\* makes it readable again, restorePreparedRun can open it, and a second
\* Recover finds nothing left to do.
CrashSafe ==
  LET a == Recovered(agg)
  IN  /\ DocumentValid(agg) /\ DocumentValid(a)
      /\ a.runState = "running" => Restorable(a)
      /\ Recovered(a) = a

\* The Runtime and the Store agree on what is running: an idle Runtime has an
\* idle Session, a Runtime works on exactly the Run the Session names, and while
\* the Store works a physical model attempt whose end is not recorded belongs to
\* that Run: Runs leave no open attempt behind.
Agreement ==
  /\ rt.state = "idle" => agg.runState = "idle" /\ rt.active = None
  /\ rt.state = "running" => Active(agg, rt.active) /\ RunFrozen(agg.history, rt.active, rt.cfg)
  /\ (rt.state = "running") <=> (loop.pc # "none")
  /\ env.faults = 0 =>
       \A i \in DOMAIN agg.history :
         /\ agg.history[i].kind = "attempt" /\ agg.history[i].val = "started"
         /\ Orphan(agg, agg.history[i].id)
         => Active(agg, agg.history[i].run)

\* The configured limits of a Run hold over its whole durable life, including
\* the part before a crash, and the Runtime's counters are what History shows.
LimitsHold ==
  /\ TypeOK
  /\ \A r \in Runs :
       LET used(what) == UsedBefore(agg.history, Len(agg.history), r, what)
       IN  /\ MaxModelAttemptsPerRun > 0 => used("attempts") <= MaxModelAttemptsPerRun
           /\ MaxToolCallsPerRun > 0 => used("calls") <= MaxToolCallsPerRun
  /\ rt.state = "running" =>
       LET used(what) == UsedBefore(agg.history, Len(agg.history), rt.active, what)
       IN  /\ rt.attempts = used("attempts") /\ rt.calls = used("calls")
           /\ rt.tokens = used("tokens")

\* An accepted input is never lost and never consumed twice: it waits in the
\* Queue, or it is one message of History, or its user deleted it.
InputKept ==
  \A m \in env.accepted :
    \/ m \in env.deleted /\ ~InQueue(agg.queue, m) /\ ~HasMessage(agg.history, m)
    \/ m \notin env.deleted /\ (InQueue(agg.queue, m) <=> ~HasMessage(agg.history, m))

\* After a cancellation or a close was accepted, the Run starts no attempt,
\* passes no further tool call over its execution mark, does not complete and
\* starts no successor.
CancelHonoured ==
  [][rt.active # None /\ Canceled =>
       /\ \A x \in Attempts : Orphan(agg', x) => Orphan(agg, x)
       /\ \A c \in Calls : agg'.journal[c].status = "pending" =>
            agg.journal[c].status = "pending"
       /\ \A i \in DOMAIN agg'.history \ DOMAIN agg.history :
            agg'.history[i].val # "completed"
       /\ rt'.active \in {rt.active, None}]_vars

\* Every Run ends, given that the model and the tools answer: a Run with a
\* limit on its attempts cannot keep its Session busy for ever, and a close that
\* was accepted completes.
RunsEnd ==
  /\ \A r \in Runs : (rt.active = r) ~> (rt.active # r)
  /\ rt.closing ~> rt.state \in {"down", "closed"}

-----------------------------------------------------------------------------
(* What the documentation says and the code does not do (see README).      *)

\* A canceled or failed Run converges to a durable terminal fact: while the
\* Store works, a Runtime that stopped left no Run open.
RunsConverge == rt.state = "closed" => agg.runState = "idle"

\* The identity of the next physical attempt is not that of an attempt already
\* recorded in this Session.
AttemptIdentityFresh ==
  loop.pc = "execute" => ~AttemptHasStarted(agg.history, seq + 1)
=============================================================================
