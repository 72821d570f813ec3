------------------------------ MODULE ToolHooks ------------------------------
(***************************************************************************)
(* The hooks around one batch of tool calls (standardagent/                *)
(* runtime_tool_preflight.go, runtime_tool_result.go, the recovery of both *)
(* and the dispatch between them).  Every ToolPreflight that matches a call *)
(* advises on it before any call of the batch runs; every ToolResultHook   *)
(* sees the result of a call that ran and may attach context for the next  *)
(* step.  Each invocation is a journal entry, reserved in the commit that  *)
(* publishes the call or its result, so that a crash finds it.             *)
(*                                                                         *)
(* A Run can be canceled, the Runtime closed, a commit can fail with or    *)
(* without being durable, and the process can crash and restart with an    *)
(* application whose preflights are others.  The batch is what             *)
(* commitCompletion published; the model ends when the Run ends or goes on *)
(* to its next step.                                                       *)
(***************************************************************************)
EXTENDS Integers, FiniteSets, Sequences, SequencesExt, TLC, ExtensionJournal

CONSTANTS
  NumCalls,       \* calls of the batch
  MaxGates,       \* longest chain of preflights or of result hooks
  Applications,   \* [installed: BOOLEAN, chain: descriptors by call, posts: Nat]
  Failures,       \* statuses of a hook that does not succeed
  MaxTrouble      \* failed commits, crashes, cancellations and closes

Calls == 1..NumCalls
Inv   == {"pre", "post"} \X Calls \X (1..MaxGates)   \* invocations

NoEntry == [status |-> "absent", effect |-> "none", context |-> "none", decision |-> "none"]
Prepared == [NoEntry EXCEPT !.status = "prepared"]

VARIABLES
  ext,       \* durable ExtensionJournal
  reserved,  \* descriptors of the durable preflight entries, by call
  call,      \* durable RunJournal, by call
  run,       \* durable Run: in its "tools", "ended", or at its "next" step
  app,       \* the application
  invalid,   \* calls that validateCall refuses
  up,        \* the Runtime is live
  canceled,  \* cancel or close was asked for
  pc, todo, then,  \* where the loop is; commits to make and where to go on
  at,        \* the invocation it is at
  mem,       \* its copies of the entries
  batch,     \* the calls it handles
  results,   \* what dispatch answered
  failed,    \* the batch ends the Run
  hooks,     \* times each hook was invoked, ever
  tools,     \* times each tool was invoked, ever
  used       \* trouble met, failed commits in it, whether the Session was opened
             \* again, and whether the batch met an application without preflights

durable == <<ext, reserved, call, run>>
world   == <<app, invalid, up, canceled>>
loop    == <<pc, todo, then, at, mem, batch, results, failed>>
vars    == <<durable, world, loop, hooks, tools, used>>

Trouble == used.trouble < MaxTrouble
InPreflight == at[1] = "pre"

Present(hook) == {i \in Inv : i[1] = hook /\ mem[i].status # "absent"}
Before(i, j) == i[2] < j[2] \/ (i[2] = j[2] /\ i[3] < j[3])
After(i) == {j \in Present(i[1]) : Before(i, j) /\ j[2] \in batch}
FirstOf(is) == CHOOSE i \in is : \A j \in is \ {i} : Before(i, j)
Succeeded(hook) == {i \in Present(hook) : mem[i].status = "succeeded" /\ mem[i].effect = "pending"}

-----------------------------------------------------------------------------
(* The journal commits of both drivers.                                    *)

\* Do the commits cs one after the other, then go on at p; an empty one is
\* not made.
Do(cs, p) ==
  LET made == SelectSeq(cs, LAMBDA f : DOMAIN f # {})
  IN  IF made = <<>> THEN pc' = p /\ UNCHANGED <<todo, then>>
      ELSE pc' = "commit" /\ todo' = made /\ then' = p

Cancels(is) == [i \in {j \in is : mem[j].status = "prepared"} |-> CancelEntry(mem[i])]
Discards(is) == [i \in is |-> DisposeEntry(mem[i], "discarded")]
Applies(is) == [i \in is |-> DisposeEntry(mem[i], "applied")]
Consumes(is) == [i \in is |-> ConsumeEntry(mem[i])]

\* The commit is answered, lost, or durable although it failed.
Outcome(o) ==
  /\ o \in {"ok", "lost", "kept"}
  /\ IF o = "ok" THEN UNCHANGED used
     ELSE Trouble /\ used' = [used EXCEPT !.trouble = @ + 1, !.failures = @ + 1]

Durable(o, x, y) == IF o = "lost" THEN y ELSE x

\* commitToolPreflightEntries refuses after a cancellation; the commits of
\* result hooks do not ask.
CommitNext(o) ==
  LET last == Len(todo) = 1 \/ o # "ok"
  IN  /\ up /\ pc = "commit"
      /\ IF InPreflight /\ canceled THEN o = "lost" /\ UNCHANGED <<ext, used>>
         ELSE Outcome(o) /\ ext' = Durable(o, Head(todo) @@ ext, ext)
      /\ mem' = IF o = "ok" THEN Head(todo) @@ mem ELSE mem
      /\ pc' = IF o # "ok" THEN "unsure" ELSE IF last THEN then ELSE pc
      /\ todo' = IF last THEN <<>> ELSE Tail(todo)
      /\ then' = IF last THEN "idle" ELSE then
      /\ UNCHANGED <<reserved, call, run, world, at, batch, results, failed, hooks, tools>>

\* After a failed commit the driver reads the journal again: what was pending
\* is unknown, ...
Unsure(o) ==
  LET f == [i \in {j \in Inv : j[1] = at[1] /\ ext[j].status = "pending"} |-> RecoverEntry(ext[i])]
  IN  /\ up /\ pc = "unsure"
      /\ IF DOMAIN f = {} THEN o = "ok" /\ UNCHANGED <<ext, used>>
         ELSE Outcome(o) /\ ext' = Durable(o, f @@ ext, ext)
      /\ pc' = (IF o = "ok" THEN "settle" ELSE "finish") /\ failed' = TRUE
      /\ UNCHANGED <<reserved, call, run, world, todo, then, at, mem, batch, results, hooks, tools>>

\* ... and nothing is left undecided.  A settled preflight batch is refused as
\* a batch; after a result hook the error ends the Run.
Settle(o) ==
  LET f == [i \in {j \in Inv : j[1] = at[1] /\ SettleEntry(ext[j]) # ext[j]} |->
              SettleEntry(ext[i])]
  IN  /\ up /\ pc = "settle"
      /\ IF DOMAIN f = {} THEN o = "ok" /\ UNCHANGED <<ext, used>>
         ELSE Outcome(o) /\ ext' = Durable(o, f @@ ext, ext)
      /\ pc' = IF InPreflight /\ o = "ok" THEN "results" ELSE "finish"
      /\ UNCHANGED <<reserved, call, run, world, todo, then, at, mem, batch, results, failed,
                     hooks, tools>>

-----------------------------------------------------------------------------
(* Preflights (evaluateToolPreflights).                                    *)

Reservations(hook, cs, n) ==
  [i \in {j \in Inv : j[1] = hook /\ j[2] \in cs /\ j[3] <= n[j[2]]} |-> Prepared]
ChainLengths(a) == [c \in Calls |-> Len(a.chain[c])]

\* Act refuses a canceled Run; without preflights nothing is looked at.
Begin ==
  /\ up /\ pc = "begin"
  /\ pc' = IF canceled THEN "finish" ELSE IF ~app.installed THEN "dispatch" ELSE "call"
  /\ mem' = ext
  /\ UNCHANGED <<durable, world, todo, then, at, batch, results, failed, hooks, tools, used>>

\* A call published by an application without preflights gets reservations;
\* an error here is not settled.
Supplement(o) ==
  LET c == at[2]
      f == Reservations("pre", {c}, ChainLengths(app))
  IN  /\ up /\ pc = "call" /\ app.chain[c] # <<>> /\ reserved[c] = <<>>
      /\ IF canceled THEN o = "lost" /\ UNCHANGED <<ext, reserved, used>>
         ELSE /\ Outcome(o) /\ ext' = Durable(o, f @@ ext, ext)
              /\ reserved' = Durable(o, [reserved EXCEPT ![c] = app.chain[c]], reserved)
      /\ IF o = "ok" THEN mem' = f @@ mem /\ UNCHANGED <<pc, failed>>
         ELSE pc' = "finish" /\ failed' = TRUE /\ UNCHANGED mem
      /\ UNCHANGED <<call, run, world, todo, then, at, batch, results, hooks, tools>>

\* validateToolPreflightReservations.
Exact(c) == reserved[c] = app.chain[c]

CallEnter ==
  LET c == at[2]
      mine == {i \in Present("pre") : i[2] = c}
      all == {i \in Present("pre") : SettleEntry(mem[i]) # mem[i] /\ i[2] \in batch}
  IN  /\ up /\ pc = "call" /\ ~(app.chain[c] # <<>> /\ reserved[c] = <<>>)
      /\ IF ~Exact(c)
         THEN Do(<<[i \in all |-> SettleEntry(mem[i])]>>, "results") /\ failed' = TRUE
         ELSE /\ Do(IF c \in invalid THEN <<Cancels(mine)>> ELSE <<>>,
                    IF c \in invalid THEN "nextCall" ELSE "gate")
              /\ UNCHANGED failed
      /\ UNCHANGED <<durable, world, at, mem, batch, results, hooks, tools, used>>

\* Mutant: the call just decided is decided again.
LaterOrSame(c) == {d \in batch : d >= c}

Later(c) == {d \in batch : d > c}

\* After the last call all advice is applied (finalizeToolPreflightEffects).
NextCall ==
  LET more == Later(at[2])
  IN  /\ up /\ pc = "nextCall"
      /\ IF more = {} THEN Do(<<Applies(Succeeded("pre"))>>, "dispatch") /\ UNCHANGED at
         ELSE /\ at' = <<"pre", CHOOSE c \in more : \A d \in more : c <= d, 1>>
              /\ pc' = "call" /\ UNCHANGED <<todo, then>>
      /\ UNCHANGED <<durable, world, mem, batch, results, failed, hooks, tools, used>>

Rest == {j \in After(at) : j[2] = at[2]}

\* The rest of a denied call is not asked; a batch that fails discards the
\* advice it has, records the failure and cancels what it did not ask.
Deny == Do(<<Cancels(Rest)>>, "nextCall")

FailBatch(first) == Do(first \o <<Cancels(After(at))>>, "results") /\ failed' = TRUE

MayStart(e) == e.status = "prepared"

\* What the journal says of the next preflight of the call.
GateEnter ==
  LET e == mem[at]
      decided == e.status = "succeeded" /\ e.effect \in {"pending", "applied"}
      stay == UNCHANGED <<at, failed>>
  IN  /\ up /\ pc = "gate"
      /\ CASE at[3] > Len(reserved[at[2]]) \/ at[3] > MaxGates ->
                pc' = "nextCall" /\ UNCHANGED <<todo, then>> /\ stay
           [] decided /\ e.decision = "deny" -> Deny /\ stay
           [] decided /\ e.decision # "deny" ->
                at' = [at EXCEPT ![3] = @ + 1] /\ UNCHANGED <<pc, todo, then, failed>>
           [] MayStart(e) -> Do(<<[i \in {at} |-> StartEntry(e)]>>, "run") /\ stay
           [] OTHER ->
                /\ FailBatch(<<[i \in {j \in {at} : Unsettled(e)} |-> DisposeEntry(e, "applied")],
                               Discards(Succeeded("pre"))>>)
                /\ UNCHANGED at
      /\ UNCHANGED <<durable, world, mem, batch, results, hooks, tools, used>>

\* The preflight answers (advice that asks for approval is an allow that the
\* dispatcher's policy may refuse); the next one of the call starts in the same commit.
GateRun ==
  LET e == mem[at]
      done(d) == [i \in {at} |-> FinishEntry(e, "succeeded", d, "none")]
      next == FirstOf(Rest)
  IN  /\ up /\ pc = "run"
      /\ hooks' = [hooks EXCEPT ![at] = @ + 1]
      /\ \/ \E st \in Failures :
              LET f == FinishEntry(e, st, "none", "none")
              IN  /\ FailBatch(<<Discards(Succeeded("pre")), [i \in {at} |-> f],
                                 [i \in {at} |-> DisposeEntry(f, "applied")]>>)
                  /\ UNCHANGED at
         \/ Do(<<done("deny"), Cancels(Rest)>>, "nextCall") /\ UNCHANGED <<at, failed>>
         \/ /\ UNCHANGED failed
            /\ IF Rest = {} THEN Do(<<done("allow")>>, "nextCall") /\ UNCHANGED at
               ELSE /\ Do(<<done("allow") @@ [i \in {next} |-> StartEntry(mem[next])]>>, "run")
                    /\ at' = next
      /\ UNCHANGED <<durable, world, mem, batch, results, tools, used>>

-----------------------------------------------------------------------------
(* Dispatch (dispatchPreparedAuthorized, markToolExecuting).  The tools are *)
(* parallel-safe; policy and approval may refuse any call.                 *)

\* Mutant: only the first preflight of a call can deny it.
DeniedFirst(c) == \E i \in Present("pre") : i[2] = c /\ i[3] = 1 /\ mem[i].decision = "deny"

\* toolPreflightAuthorization.merge.
Denied(c) == \E i \in Present("pre") : i[2] = c /\ mem[i].decision = "deny"

MayRun(c) == c \notin invalid /\ (app.installed => ~Denied(c))

Refuse(c) ==
  /\ up /\ pc = "dispatch" /\ c \in batch /\ results[c] = "none"
  /\ results' = [results EXCEPT ![c] = "failed"]
  /\ UNCHANGED <<durable, world, pc, todo, then, at, mem, batch, failed, hooks, tools, used>>

MarkToolExecuting(c, o) ==
  /\ up /\ pc = "dispatch" /\ c \in batch /\ results[c] = "none" /\ MayRun(c) /\ ~canceled
  /\ Outcome(o)
  /\ call' = Durable(o, [call EXCEPT ![c] = "pending"], call)
  /\ results' = [results EXCEPT ![c] = IF o = "ok" THEN "running" ELSE "failed"]
  /\ UNCHANGED <<ext, reserved, run, world, pc, todo, then, at, mem, batch, failed, hooks, tools>>

\* A tool may break its contract, which ends the Run.
Execute(c) ==
  /\ up /\ pc = "dispatch" /\ results[c] = "running"
  /\ tools' = [tools EXCEPT ![c] = @ + 1]
  /\ \/ results' = [results EXCEPT ![c] = "succeeded"] /\ UNCHANGED failed
     \/ results' = [results EXCEPT ![c] = "failed"] /\ failed' \in {failed, TRUE}
  /\ UNCHANGED <<durable, world, pc, todo, then, at, mem, batch, hooks, used>>

DispatchDone ==
  /\ up /\ pc = "dispatch" /\ \A c \in batch : results[c] \notin {"none", "running"}
  /\ pc' = "results"
  /\ UNCHANGED <<durable, world, todo, then, at, mem, batch, results, failed, hooks, tools, used>>

-----------------------------------------------------------------------------
(* Results and their hooks (commitToolResults, evaluateToolResultHooks).   *)

\* Mutant: the results of calls that did not run are shown to hooks.
HookedAll == batch

\* Only calls that crossed the execution mark have a result to look at.
Hooked == {c \in batch : call[c] = "pending"}

\* The results, the journal of the calls and the reservations are one commit;
\* an error after it settles nothing.
CommitResults(o) ==
  LET f == Reservations("post", Hooked, [c \in Calls |-> app.posts])
      status(c) == IF results[c] = "succeeded" THEN "succeeded" ELSE "failed"
  IN  /\ up /\ pc = "results" /\ Outcome(o)
      /\ ext' = Durable(o, f @@ ext, ext)
      /\ call' = Durable(o, [c \in Calls |-> IF c \in batch THEN status(c) ELSE call[c]], call)
      /\ IF o # "ok" THEN pc' = "finish" /\ failed' = TRUE /\ UNCHANGED <<todo, then, at, mem>>
         ELSE /\ mem' = f @@ ext /\ UNCHANGED failed
              /\ at' = IF DOMAIN f = {} THEN <<"post", 1, 1>> ELSE FirstOf(DOMAIN f)
              /\ IF canceled THEN Do(<<[i \in DOMAIN f |-> CancelEntry(f[i])]>>, "finish")
                 ELSE pc' = (IF DOMAIN f = {} THEN "postDone" ELSE "post") /\ UNCHANGED <<todo, then>>
  /\ UNCHANGED <<reserved, run, world, batch, results, hooks, tools>>

\* settleToolResultHookAbort: what was not asked is canceled.
PostStart ==
  /\ up /\ pc = "post"
  /\ IF canceled
     THEN Do(<<Discards(Succeeded("post")) @@ Cancels({at} \cup After(at))>>, "finish")
     ELSE Do(<<[i \in {at} |-> StartEntry(mem[at])]>>, "postRun")
  /\ UNCHANGED <<durable, world, at, mem, batch, results, failed, hooks, tools, used>>

\* settleToolResultHookFailure.
PostFailure(f) ==
  [i \in {at} |-> DisposeEntry(f, "applied")] @@ Discards(Succeeded("post")) @@ Cancels(After(at))

PostRun ==
  LET e == mem[at]
      next == FirstOf(After(at))
      done(x) == [i \in {at} |-> FinishEntry(e, "succeeded", "none", x)]
  IN  /\ up /\ pc = "postRun"
      /\ hooks' = [hooks EXCEPT ![at] = @ + 1]
      /\ \/ \E st \in Failures :
              LET f == FinishEntry(e, st, "none", "none")
              IN  /\ Do(<<[i \in {at} |-> f], PostFailure(f)>>, "finish")
                  /\ failed' = TRUE /\ UNCHANGED at
         \/ \E x \in {"none", "pending"} :
              /\ UNCHANGED failed
              /\ IF After(at) = {} THEN Do(<<done(x)>>, "postDone") /\ UNCHANGED at
                 ELSE /\ at' = next
                      /\ IF canceled THEN Do(<<done(x)>>, "post")
                         ELSE Do(<<done(x) @@ [i \in {next} |-> StartEntry(mem[next])]>>, "postRun")
      /\ UNCHANGED <<durable, world, mem, batch, results, tools, used>>

\* All hooks succeeded: their contexts are consumed by the next step.
PostDone ==
  /\ up /\ pc = "postDone"
  /\ IF canceled THEN Do(<<Discards(Succeeded("post"))>>, "finish")
     ELSE Do(<<Consumes(Succeeded("post"))>>, IF failed THEN "finish" ELSE "next")
  /\ UNCHANGED <<durable, world, at, mem, batch, results, failed, hooks, tools, used>>

NextStep ==
  /\ up /\ pc = "next"
  /\ IF canceled THEN pc' = "finish" /\ UNCHANGED run ELSE pc' = "idle" /\ run' = "next"
  /\ UNCHANGED <<ext, reserved, call, world, todo, then, at, mem, batch, results, failed,
                 hooks, tools, used>>

-----------------------------------------------------------------------------
(* The end of the Run, and recovery.                                       *)

\* The loop is gone, with what it knew.
Stopped ==
  /\ pc' = "idle" /\ todo' = <<>> /\ then' = "idle" /\ at' = <<"pre", 1, 1>>
  /\ mem' = [i \in Inv |-> NoEntry] /\ batch' = {} /\ results' = [c \in Calls |-> "none"]
  /\ failed' = FALSE /\ canceled' = FALSE

StoreRecovered == [i \in Inv |-> RecoverEntry(ext[i])]
CallsRecovered == [c \in Calls |-> IF call[c] = "pending" THEN "unknown" ELSE call[c]]
Resumable == \E c \in Calls : call[c] = "prepared"

\* finishRun: refused while a call is unfinished.  After a failure the Store
\* recovers the Session, and a Run it cannot end fails the Runtime closed.
FinishRun(o) ==
  LET unfinished == \E c \in Calls : call[c] \in {"prepared", "pending"}
      recovers == unfinished \/ o # "ok"
  IN  /\ up /\ pc = "finish"
      /\ IF unfinished THEN o = "lost" /\ UNCHANGED used ELSE Outcome(o)
      /\ run' = IF Resumable THEN run ELSE "ended"
      /\ up' = ~Resumable
      /\ ext' = (IF recovers THEN StoreRecovered ELSE ext)
      /\ call' = (IF recovers THEN CallsRecovered ELSE call)
      /\ Stopped
      /\ UNCHANGED <<reserved, app, invalid, hooks, tools>>

Crash ==
  /\ up /\ run # "next" /\ Trouble /\ used' = [used EXCEPT !.trouble = @ + 1]
  /\ up' = FALSE /\ Stopped
  /\ UNCHANGED <<durable, app, invalid, hooks, tools>>

\* Mutant: result hooks wait for a Run that will not come back.
RecoverPostKept(e) == IF e.status = "prepared" THEN CancelEntry(e) ELSE e

\* toolResultRecoveryChanges.
RecoverPost(e) == SettleEntry(e)

\* Result hooks are settled when the Session is opened, preflights only by the
\* Run that is resumed, perhaps by another application.
Open(a, o) ==
  LET x == StoreRecovered
      y == [i \in Inv |-> IF i[1] = "post" THEN RecoverPost(x[i]) ELSE x[i]]
      resumed == run = "tools" /\ Resumable
  IN  /\ ~up
      /\ IF o = "ok" THEN used' = [used EXCEPT !.restarted = TRUE, !.unadvised = @ \/ ~a.installed]
         ELSE x # y /\ Outcome(o)
      /\ ext' = Durable(o, y, x) /\ call' = CallsRecovered
      /\ run' = IF run = "tools" /\ ~Resumable THEN "ended" ELSE run
      /\ up' = (o = "ok")
      /\ app' = a /\ (~resumed => a = app)
      /\ pc' = (IF resumed /\ o = "ok" THEN "begin" ELSE "idle")
      /\ at' = <<"pre", CHOOSE c \in Calls : resumed => /\ call[c] = "prepared"
                                                       /\ \A d \in Calls : call[d] = "prepared" => c <= d, 1>>
      /\ batch' = {c \in Calls : call[c] = "prepared"}
      /\ UNCHANGED <<reserved, invalid, canceled, todo, then, mem, results, failed, hooks, tools>>

Cancel ==
  /\ up /\ run = "tools" /\ pc # "idle" /\ ~canceled /\ Trouble
  /\ canceled' = TRUE /\ used' = [used EXCEPT !.trouble = @ + 1]
  /\ UNCHANGED <<durable, app, invalid, up, loop, hooks, tools>>

\* What commitCompletion published.
Init ==
  /\ app \in Applications /\ invalid \in {{}} \cup {{c} : c \in Calls}
  /\ reserved = app.chain
  /\ ext = Reservations("pre", Calls, ChainLengths(app)) @@ [i \in Inv |-> NoEntry]
  /\ call = [c \in Calls |-> "prepared"] /\ run = "tools" /\ up = TRUE /\ canceled = FALSE
  /\ pc = "begin" /\ todo = <<>> /\ then = "idle" /\ at = <<"pre", 1, 1>> /\ mem = ext
  /\ batch = Calls /\ results = [c \in Calls |-> "none"] /\ failed = FALSE
  /\ hooks = [i \in Inv |-> 0] /\ tools = [c \in Calls |-> 0]
  /\ used = [trouble |-> 0, failures |-> 0, restarted |-> FALSE, unadvised |-> ~app.installed]

Step ==
  \/ Begin \/ CallEnter \/ NextCall \/ GateEnter \/ GateRun
  \/ DispatchDone \/ PostStart \/ PostRun \/ PostDone \/ NextStep
  \/ \E c \in Calls : Refuse(c) \/ Execute(c)
  \/ \E o \in {"ok", "lost", "kept"} :
       \/ CommitNext(o) \/ Unsure(o) \/ Settle(o) \/ Supplement(o) \/ CommitResults(o)
       \/ FinishRun(o) \/ \E c \in Calls : MarkToolExecuting(c, o)

Next ==
  \/ Step \/ Cancel \/ Crash
  \/ \E a \in Applications, o \in {"ok", "lost", "kept"} : Open(a, o)

Spec == Init /\ [][Next]_vars

\* Hooks and tools return, and the loop is scheduled.
FairSpec == Spec /\ WF_vars(Step)

-----------------------------------------------------------------------------
(* Properties.                                                             *)

Boundary(i) == IF i[1] = "pre" THEN "tool_preflight" ELSE "tool_result"

TypeOK ==
  /\ run \in {"tools", "ended", "next"} /\ at \in {"pre", "post"} \X Calls \X (1..MaxGates + 1)
  /\ \A c \in Calls : call[c] \in {"prepared", "pending", "succeeded", "failed", "unknown"}
  /\ \A i \in Inv : ext[i].status # "absent" =>
       StatusShape(ext[i] @@ [boundary |-> Boundary(i)]) /\ ContextShape(ext[i])

Undecided(i) == ext[i].status # "absent" /\ (ext[i].status \notin TerminalStatuses \/ Unsettled(ext[i]))
PreOf(c) == {i \in Inv : i[1] = "pre" /\ i[2] = c /\ ext[i].status # "absent"}

\* A tool runs only when every preflight reserved for its call has allowed it
\* and that advice is durably applied, across crashes and changed applications,
\* and neither a preflight nor a result hook nor a tool is invoked twice.
AdviceHonoured ==
  /\ TypeOK
  /\ \A i \in Inv : hooks[i] <= 1
  /\ \A c \in Calls : tools[c] <= 1
  /\ ~used.unadvised => \A c \in Calls : tools[c] > 0 =>
       \A i \in PreOf(c) : /\ ext[i].status = "succeeded" /\ ext[i].effect = "applied"
                           /\ ext[i].decision # "deny"

\* The next step is told the contexts of all result hooks or of none, and only
\* about calls that ran or may have run; and a Run leaves nothing undecided when
\* its commits are answered, no preflight undecided when one of them fails, and
\* after a restart no preflight that could still be asked.
ContextAllOrNothing ==
  /\ \A i \in Inv : i[1] = "post" /\ ext[i].status = "succeeded" /\ ext[i].effect = "applied" =>
       \A j \in Inv : j[1] = "post" /\ ext[j].status # "absent" =>
         /\ ext[j].status = "succeeded" /\ ext[j].effect = "applied"
         /\ (tools[j[2]] > 0 \/ used.failures > 0)
  /\ run = "ended" /\ up /\ ~used.unadvised =>
       \A i \in Inv :
         /\ used.failures = 0 /\ ~used.restarted => ~Undecided(i)
         /\ used.failures <= 1 /\ ~used.restarted /\ i[1] = "pre" => ~Undecided(i)
         /\ used.failures = 0 /\ i[1] = "pre" => ext[i].status \in {"absent"} \cup TerminalStatuses

\* Every commit of a driver is a move that the Store accepts, once a preflight
\* has failed, or may have, no call of the batch starts, and opening a Session
\* leaves no result hook undecided.
OpenSettlesResults ==
  [][/\ up /\ pc = "commit" => \A i \in DOMAIN Head(todo) : StoreAccepts(ext[i], Head(todo)[i])
     /\ ~used.unadvised /\ (\E i \in Inv : /\ i[1] = "pre" /\ ext[i].effect # "discarded"
                                           /\ ext[i].status \in TerminalStatuses \ {"succeeded"}) =>
          tools' = tools
     /\ ~up /\ up' => \A i \in Inv : i[1] = "post" => ~Undecided(i)']_vars

\* A batch that is begun is over, or its Runtime is down.
BatchEnds == up ~> (~up \/ run # "tools")

-----------------------------------------------------------------------------
(* What the documentation says and the code does not do (see README).      *)

\* Whatever application resumes the batch, a call that the journal says is
\* denied is never run.
DeniedNeverRuns ==
  \A c \in Calls : tools[c] > 0 => \A i \in PreOf(c) : ext[i].decision # "deny"
=============================================================================
