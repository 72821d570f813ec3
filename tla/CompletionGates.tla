---------------------------- MODULE CompletionGates ----------------------------
(***************************************************************************)
(* How a Run ends naturally (standardagent/runtime_completion.go and the   *)
(* completion half of runtime_execution.go).  After a model answer without *)
(* tool calls the Runtime looks for a pending steer, asks the Goal         *)
(* evaluator, runs the ordered chain of CompletionGates, applies their     *)
(* effects, asks the legacy hooks and looks for a steer again.  All gates  *)
(* of one occurrence are prepared in one commit; a gate is pending in the  *)
(* ExtensionJournal before it is called, and the outcome of one gate and   *)
(* the start of the next share a commit.  The Goal lives in another store. *)
(*                                                                         *)
(* A commit can fail with or without being durable; the Runtime can crash  *)
(* and be reopened with other gates.  Users steer, withdraw a steer        *)
(* (delete or reclassify it), cancel, and edit the Goal at any time.       *)
(*                                                                         *)
(* One Run is modelled, with the number of gates of the application in     *)
(* gates; messages, digests and times are left out.  A decision record     *)
(* keeps whether its time still carries the monotonic clock reading of the *)
(* process, because the Goal store compares records for deep equality.     *)
(***************************************************************************)
EXTENDS Integers, FiniteSets, ExtensionJournal

CONSTANTS
  MaxGates,         \* gates the application installs, at most
  MaxOccurrences,   \* completion occurrences prepared
  MaxSteps,         \* model steps of the Run
  MaxTrouble,       \* failed commits, crashes, steers and edits of the Goal, together
  MaxFollowOns      \* follow-on limit of the Goal

ASSUME CompletionAssumption ==
  /\ {MaxGates, MaxOccurrences, MaxTrouble, MaxFollowOns} \subseteq Nat
  /\ MaxSteps \in Nat \ {0}

Invocation == (1..MaxOccurrences) \X (1..MaxGates)

NoGoal == [id |-> 0, version |-> 0, clock |-> "none", followOns |-> 0]
Absent == [status |-> "absent", effect |-> "none", context |-> "none",
           decision |-> "none", step |-> 0, goal |-> NoGoal]

VARIABLES
  ext,        \* durable ExtensionJournal of the Run, by invocation
  run,        \* durable state of the Run
  step,       \* the step the Run is at
  answered,   \* the last step the model answered, durably
  steers,     \* pending steers in the Queue
  goal,       \* the Goal store's current Goal
  decisions,  \* the Goal store's decision records
  gates,      \* number of gates of the application now running
  rt,         \* the goroutine of the Run
  cancel,     \* the Run was canceled, or its Runtime is closing
  calls,      \* how often each invocation was entered
  why,        \* how a Run that completed got past its gates
  used        \* what the environment has spent of its bounds

vars == <<ext, run, step, answered, steers, goal, decisions, gates, rt, cancel, calls, why, used>>

sessionVars == <<run, step, answered, steers>>
goalVars    == <<goal, decisions>>
restVars    == <<gates, cancel, why>>

RunEnd == {"completed", "canceled", "failed", "interrupted"}

\* Program counters at which the Runtime holds its mutex between two stores.
Locked == {"apply", "applyRetry"}

Fresh(pc) ==
  [pc |-> pc, occ |-> 0, idx |-> 1, good |-> {}, cont |-> FALSE, cand |-> NoGoal,
   seen |-> NoGoal, hand |-> Absent, recovered |-> FALSE, proposals |-> 0, out |-> "none",
   path |-> "none"]

At(pc) == rt.pc = pc
Goto(pc) == rt' = [rt EXCEPT !.pc = pc]
Finish(out) == rt' = [rt EXCEPT !.pc = "finish", !.out = out]

\* The entry of gate g in the occurrence at hand, and its gates.
Here(g) == ext[<<rt.occ, g>>]
Chain == {g \in 1..MaxGates : rt.occ # 0 /\ Here(g).status # "absent"}

\* The journal with entry g of the occurrence replaced by f[g].
Rewrite(f) ==
  [i \in Invocation |-> IF i[1] = rt.occ /\ i[2] \in DOMAIN f THEN f[i[2]] ELSE ext[i]]

\* The environment's budget.
Trouble == used.trouble < MaxTrouble
Spend == [used EXCEPT !.trouble = @ + 1]

\* Every entry of the Run moved by a settlement.
Settled == [i \in Invocation |-> SettleEntry(ext[i])]
Unknown == [i \in Invocation |-> RecoverEntry(ext[i])]

\* commitLocked: answered and durable, lost, or durable although it failed.
Commit(new, o) ==
  /\ o \in {"ok", "lost", "kept"}
  /\ o # "ok" => Trouble
  /\ ext' = IF o = "lost" THEN ext ELSE new
  /\ used' = IF o = "ok" THEN used ELSE Spend

\* A settlement without changes is no commit.
CommitIfChanged(new, o) == (new = ext => o = "ok") /\ Commit(new, o)

-----------------------------------------------------------------------------
(* The Goal store (goal/memory_store.go).                                  *)

SameDecision(d, rec) == d.step = rec.step /\ d.version = rec.version

\* RecordDecision: an identical record is answered again, another one under
\* the same identity refused; a replaced Goal is not found.
GoalAnswer(rec) ==
  IF \E d \in decisions : SameDecision(d, rec)
  THEN IF rec \in decisions THEN "recorded" ELSE "error"
  ELSE IF goal.id # rec.id THEN "error"
  ELSE IF goal.version # rec.version THEN "conflict"
  ELSE IF goal.status # "active" THEN "error"
  ELSE "recorded"

RecordDecision(rec) ==
  IF GoalAnswer(rec) # "recorded" \/ rec \in decisions THEN UNCHANGED <<goal, decisions>>
  ELSE /\ decisions' = decisions \cup {rec}
       /\ goal' = [goal EXCEPT !.version = @ + 1,
                               !.followOns = @ + (IF rec.verdict = "continue" THEN 1 ELSE 0),
                               !.status = CASE rec.verdict = "done"    -> "completed"
                                            [] rec.verdict = "blocked" -> "paused"
                                            [] OTHER                   -> @]

Decision(g, verdict) ==
  [id |-> g.id, version |-> g.version, clock |-> g.clock, verdict |-> verdict,
   step |-> IF rt.recovered THEN Here(1).step ELSE step]

\* Set replaces the Goal under a new identity.
SetGoal ==
  /\ Trouble
  /\ goal' = [id |-> goal.id + 1, version |-> goal.version + 1, status |-> "active",
              followOns |-> 0]
  /\ used' = Spend
  /\ UNCHANGED <<ext, decisions, rt, calls, sessionVars, restVars>>

ChangeStatus ==
  /\ Trouble
  /\ \E s \in {"active", "paused", "completed", "canceled"} :
       /\ \/ goal.status = "active" /\ s \in {"paused", "completed", "canceled"}
          \/ goal.status = "paused" /\ s \in {"active", "canceled"}
       /\ goal' = [goal EXCEPT !.status = s, !.version = @ + 1]
  /\ used' = Spend
  /\ UNCHANGED <<ext, decisions, rt, calls, sessionVars, restVars>>

-----------------------------------------------------------------------------
(* The first look and the Goal (continueAfterCompletionOnce,               *)
(* evaluateGoalCompletion).                                                *)

\* The model answers without tool calls; its message is durable.
ModelAnswers ==
  /\ At("model")
  /\ IF cancel THEN Finish("canceled") /\ UNCHANGED answered
     ELSE rt' = Fresh("look") /\ answered' = step
  /\ UNCHANGED <<ext, run, step, steers, calls, used, goalVars, restVars>>

FirstLook ==
  /\ At("look")
  /\ IF cancel THEN Finish("canceled")
     ELSE IF steers > 0 THEN rt' = [Fresh("second") EXCEPT !.path = "steer"]
     ELSE IF goal.status = "active"
          THEN rt' = [Fresh("evaluate") EXCEPT
                        !.seen = [id |-> goal.id, version |-> goal.version, clock |-> "live",
                                  followOns |-> goal.followOns]]
          ELSE rt' = Fresh("prepare")
  /\ UNCHANGED <<ext, calls, used, sessionVars, goalVars, restVars>>

\* ModelEvaluator.Evaluate: the decision of a well-formed reply, or an error.
EvaluatorReplies == {"done", "continue", "blocked", "error"}

\* An exhausted Goal is not evaluated; a failed evaluation blocks it.
Verdict(reply) ==
  IF rt.seen.followOns >= MaxFollowOns \/ reply = "error" THEN "blocked" ELSE reply

\* The evaluator's verdict on the Goal it was shown.  A steer that arrived
\* meanwhile makes it stale; done waits for the gates; the other verdicts are
\* recorded at once and skip the gates.
GoalEvaluated ==
  /\ At("evaluate")
  /\ \E reply \in EvaluatorReplies :
       LET v == Verdict(reply)
           rec == Decision(rt.seen, v)
       IN  /\ v = "continue" => step < MaxSteps
           /\ IF cancel THEN Finish("canceled") /\ UNCHANGED <<goal, decisions>>
              ELSE IF steers > 0
              THEN /\ rt' = [rt EXCEPT !.pc = "second", !.path = "steer"]
                   /\ UNCHANGED <<goal, decisions>>
              ELSE IF v = "done"
              THEN /\ rt' = [rt EXCEPT !.pc = "prepare", !.cand = rt.seen]
                   /\ UNCHANGED <<goal, decisions>>
              ELSE /\ RecordDecision(rec)
                   /\ CASE GoalAnswer(rec) = "error"    -> Finish("failed")
                        [] GoalAnswer(rec) = "conflict" ->
                             rt' = [rt EXCEPT !.pc = "second", !.path = "conflict"]
                        [] OTHER ->
                             rt' = [rt EXCEPT !.pc = "second", !.path = "goal",
                                              !.proposals = IF v = "continue" THEN 1 ELSE 0]
  /\ UNCHANGED <<ext, calls, used, sessionVars, restVars>>

\* Without gates a done Goal is committed as soon as no steer is pending.
GoalWithoutGates ==
  /\ At("prepare") /\ gates = 0 /\ rt.cand # NoGoal
  /\ LET rec == Decision(rt.cand, "done")
     IN  IF cancel THEN Finish("canceled") /\ UNCHANGED <<goal, decisions>>
         ELSE IF steers > 0
         THEN /\ rt' = [rt EXCEPT !.pc = "second", !.path = "steer"]
              /\ UNCHANGED <<goal, decisions>>
         ELSE /\ RecordDecision(rec)
              /\ CASE GoalAnswer(rec) = "error"    -> Finish("failed")
                   [] GoalAnswer(rec) = "conflict" -> Goto("look")
                   [] OTHER -> rt' = [rt EXCEPT !.pc = "second", !.path = "gated"]
  /\ UNCHANGED <<ext, calls, used, sessionVars, restVars>>

-----------------------------------------------------------------------------
(* The chain of gates.                                                     *)

\* prepareCompletionOccurrence: the whole chain in one commit.
Prepare ==
  /\ At("prepare") /\ (gates > 0 \/ rt.cand = NoGoal)
  /\ IF gates = 0
     THEN rt' = [rt EXCEPT !.pc = "hooks", !.path = "gated"] /\ UNCHANGED <<ext, used>>
     ELSE IF cancel THEN Finish("canceled") /\ UNCHANGED <<ext, used>>
     ELSE IF steers > 0
     THEN rt' = [rt EXCEPT !.pc = "second", !.path = "steer"] /\ UNCHANGED <<ext, used>>
     ELSE /\ used.occs < MaxOccurrences
          /\ \E o \in {"ok", "lost", "kept"} :
               LET k == used.occs + 1
                   new == [i \in Invocation |->
                             IF i[1] = k /\ i[2] <= gates
                             THEN [Absent EXCEPT !.status = "prepared", !.step = step,
                                                 !.goal = rt.cand]
                             ELSE ext[i]]
               IN  /\ o # "ok" => Trouble
                   /\ ext' = IF o = "lost" THEN ext ELSE new
                   /\ used' = [used EXCEPT !.occs = k,
                                           !.trouble = IF o = "ok" THEN @ ELSE @ + 1]
                   /\ rt' = [rt EXCEPT !.occ = k,
                                       !.pc = IF o = "ok" THEN "gate" ELSE "prepareSettle"]
  /\ UNCHANGED <<calls, sessionVars, goalVars, restVars>>

\* settleCompletionPreparationLocked: the failed commit may be durable.
PrepareSettle(o) ==
  /\ At("prepareSettle")
  /\ CommitIfChanged(Rewrite([g \in Chain |-> CancelEntry(Here(g))]), o)
  /\ Finish("failed")
  /\ UNCHANGED <<calls, sessionVars, goalVars, restVars>>

\* The outcome of the last gate stays in memory until it can be applied.
Outcome(g) ==
  IF g \in rt.good /\ Here(g).status = "pending" THEN rt.hand ELSE Here(g)

\* Mutant: gates whose outcome was applied to nothing keep their effect.
AbortedKeepsEffects(from) ==
  Rewrite([g \in Chain |-> IF g \in rt.good THEN ConsumeEntry(Outcome(g))
                          ELSE IF g >= from THEN CancelEntry(Here(g)) ELSE Here(g)])

\* finalizeCompletionEntriesFromSnapshot and cancelCompletionEntries: what
\* succeeded is discarded, what is still prepared is canceled.
Aborted(from) ==
  Rewrite([g \in Chain |-> IF g \in rt.good THEN DisposeEntry(Outcome(g), "discarded")
                          ELSE IF g >= from THEN CancelEntry(Here(g)) ELSE Here(g)])

\* settleCompletionAbort, then the Run is canceled or takes its steers.
Abort(from, o) ==
  /\ CommitIfChanged(Aborted(from), o)
  /\ IF cancel THEN Finish("canceled")
     ELSE IF o # "ok" THEN Finish("failed")
     ELSE IF rt.recovered THEN Goto("look")
     ELSE rt' = [rt EXCEPT !.pc = "second", !.path = "steer"]

\* Before each gate the context of the Run is looked at ...
GateEnter(o) ==
  /\ At("gate")
  /\ IF cancel THEN Abort(rt.idx, o)
     ELSE Goto("check") /\ o = "ok" /\ UNCHANGED <<ext, used>>
  /\ UNCHANGED <<calls, sessionVars, goalVars, restVars>>

\* Mutant: a canceled Run waits at the gate for somebody else to end it.
GateSupersededOnly(o) ==
  /\ At("check")
  /\ IF cancel THEN Goto("check") /\ o = "ok" /\ UNCHANGED <<ext, used>>
     ELSE steers > 0 /\ Abort(rt.idx, o)
  /\ UNCHANGED <<calls, sessionVars, goalVars, restVars>>

\* ... and then, under the mutex, the Run and the Queue.  A cancellation that
\* came in between ends the Run without settling the occurrence.
GateSuperseded(o) ==
  /\ At("check")
  /\ IF cancel THEN Finish("canceled") /\ o = "ok" /\ UNCHANGED <<ext, used>>
     ELSE steers > 0 /\ Abort(rt.idx, o)
  /\ UNCHANGED <<calls, sessionVars, goalVars, restVars>>

Proceeds == At("check") /\ ~cancel /\ steers = 0

NextGate(r, g) == [r EXCEPT !.good = @ \cup {g}, !.idx = g + 1,
                            !.pc = IF g + 1 \in Chain THEN "gate" ELSE "finalize"]

\* A recovered gate that had succeeded counts; it is not called again.
GateRestored ==
  /\ Proceeds
  /\ Here(rt.idx).status = "succeeded"
  /\ rt' = NextGate(rt, rt.idx)
  /\ UNCHANGED <<ext, calls, used, sessionVars, goalVars, restVars>>

\* Mutant: any recovered outcome counts as a success.
GateNotRestoredCounts ==
  /\ Proceeds
  /\ Here(rt.idx).status \in TerminalStatuses \ {"succeeded"}
  /\ rt' = NextGate(rt, rt.idx)
  /\ UNCHANGED <<ext, calls, used, sessionVars, goalVars, restVars>>

\* A recovered gate whose outcome is a failure or unknown ends the Run.
GateNotRestored ==
  /\ Proceeds
  /\ Here(rt.idx).status \in TerminalStatuses \ {"succeeded"}
  /\ Goto("failure")
  /\ UNCHANGED <<ext, calls, used, sessionVars, goalVars, restVars>>

\* Prepared, or made pending together with the outcome of the gate before.
MayStart(e) == e.status \in {"prepared", "pending"}

\* The gate is pending before it is called, outside the mutex.
GateStart(o) ==
  /\ Proceeds
  /\ MayStart(Here(rt.idx))
  /\ CommitIfChanged(Rewrite([g \in {rt.idx} |-> StartEntry(Here(g))]), o)
  /\ IF o = "ok"
     THEN Goto("run") /\ calls' = [calls EXCEPT ![<<rt.occ, rt.idx>>] = @ + 1]
     ELSE Goto("unsure") /\ UNCHANGED calls
  /\ UNCHANGED <<sessionVars, goalVars, restVars>>

\* A gate that panics or returns an invalid result failed; a declared failure
\* names its own status.
GateStatuses == {"succeeded", "failed", "canceled", "outcome_unknown"}

\* Complete carries no context for the next step, continue must.
ResultContext(verdict) == IF verdict = "continue" THEN "pending" ELSE "none"

\* The gate returns.  The outcome of the last gate is kept in memory when no
\* Goal decision has to be ordered after it; otherwise it is committed,
\* together with the start of the next gate.
GateReturns(o) ==
  /\ At("run")
  /\ \E status \in GateStatuses,
        verdict \in {"none", "complete", "continue"} :
       LET g == rt.idx
           more == verdict = "continue"
           e == FinishEntry(Here(g), status, verdict, ResultContext(verdict))
           next == IF status = "succeeded" /\ g + 1 \in Chain THEN {g + 1} ELSE {}
           kept == status = "succeeded" /\ g + 1 \notin Chain /\ rt.cand = NoGoal
           now == [rt EXCEPT !.cont = @ \/ more]
       IN  /\ (status = "succeeded") <=> (verdict # "none")
           /\ more => step < MaxSteps
           /\ IF kept
              THEN /\ rt' = [NextGate(now, g) EXCEPT !.hand = e]
                   /\ o = "ok" /\ UNCHANGED <<ext, used>>
              ELSE /\ Commit(Rewrite([h \in {g} \cup next |->
                                        IF h = g THEN e ELSE StartEntry(Here(h))]), o)
                   /\ rt' = IF o # "ok" THEN [now EXCEPT !.pc = "unsure"]
                            ELSE IF status = "succeeded" THEN NextGate(now, g)
                            ELSE [now EXCEPT !.pc = "failure"]
  /\ UNCHANGED <<calls, sessionVars, goalVars, restVars>>

\* settleCompletionFailure: the failure is applied, the rest is not.
GateFailure(o) ==
  /\ At("failure")
  /\ Commit(Rewrite([g \in Chain |->
                       IF g = rt.idx THEN DisposeEntry(Here(g), "applied")
                       ELSE IF g \in rt.good THEN DisposeEntry(Here(g), "discarded")
                       ELSE CancelEntry(Here(g))]), o)
  /\ Finish("interrupted")
  /\ UNCHANGED <<calls, sessionVars, goalVars, restVars>>

-----------------------------------------------------------------------------
(* Applying the chain (finalizeCompletionOccurrence).                      *)

\* A done Goal is committed when no gate asked to continue.
GoalIsDone == rt.cand # NoGoal /\ ~rt.cont

\* Under the mutex: nothing stale is applied, and the Goal goes first.
Finalize(o) ==
  /\ At("finalize")
  /\ LET rec == Decision(rt.cand, "done")
         answer == IF GoalIsDone THEN GoalAnswer(rec) ELSE "recorded"
     IN  IF cancel \/ steers > 0
         THEN Abort(MaxGates + 1, o) /\ UNCHANGED <<goal, decisions>>
         ELSE IF answer # "recorded"
         THEN /\ CommitIfChanged(Aborted(MaxGates + 1), o)
              /\ IF answer = "error" THEN Finish("interrupted")
                 ELSE IF o = "ok" THEN Goto("look") ELSE Finish("failed")
              /\ UNCHANGED <<goal, decisions>>
         ELSE /\ IF GoalIsDone THEN RecordDecision(rec) ELSE UNCHANGED <<goal, decisions>>
              /\ Goto("apply") /\ o = "ok" /\ UNCHANGED <<ext, used>>
  /\ UNCHANGED <<calls, sessionVars, restVars>>

Applied == Rewrite([g \in Chain |-> IF g \in rt.good THEN ConsumeEntry(Outcome(g)) ELSE Here(g)])

\* The Run goes on with the next step, or is done with its gates.  A
\* recovered occurrence does not ask the hooks and does not look again.
AfterGates ==
  IF rt.cont THEN rt' = Fresh("model") /\ step' = step + 1
  ELSE /\ rt' = [rt EXCEPT !.pc = IF rt.recovered THEN "finish"
                                  ELSE IF rt.cand = NoGoal THEN "hooks" ELSE "second",
                           !.out = IF rt.recovered THEN "completed" ELSE @,
                           !.path = IF rt.recovered /\ Here(1).step # step
                                    THEN "stale" ELSE "gated"]
       /\ UNCHANGED step

\* One commit.  When it fails the Runtime reads back whether it is durable;
\* after a Goal decision it tries once more instead.
Apply(o) ==
  /\ At("apply")
  /\ Commit(Applied, o)
  /\ IF o = "ok" \/ (o = "kept" /\ ~GoalIsDone) THEN AfterGates
     ELSE /\ Goto(IF GoalIsDone THEN "applyRetry" ELSE "unsure")
          /\ UNCHANGED step
  /\ UNCHANGED <<run, answered, steers, calls, goalVars, restVars>>

ApplyRetry(o) ==
  /\ At("applyRetry")
  /\ CommitIfChanged(Rewrite([g \in Chain |->
                        IF g \in rt.good /\ Unsettled(Here(g)) THEN ConsumeEntry(Here(g))
                        ELSE Here(g)]), o)
  /\ IF o = "ok" THEN AfterGates ELSE Finish("interrupted") /\ UNCHANGED step
  /\ UNCHANGED <<run, answered, steers, calls, goalVars, restVars>>

\* completionPersistenceFailure: the state is read back, what may have run is
\* unknown, and everything of the Run is settled.
Unsure(o) ==
  /\ At("unsure")
  /\ CommitIfChanged(Unknown, o)
  /\ IF o = "ok" THEN Goto("settle") ELSE Finish("interrupted")
  /\ UNCHANGED <<calls, sessionVars, goalVars, restVars>>

Settle(o) ==
  /\ At("settle")
  /\ CommitIfChanged(Settled, o)
  /\ Finish("interrupted")
  /\ UNCHANGED <<calls, sessionVars, goalVars, restVars>>

-----------------------------------------------------------------------------
(* The second look and the end of the Run.                                 *)

\* BeforeRunComplete: a legacy hook may propose a follow-on message.
Hooks ==
  /\ At("hooks")
  /\ \E n \in {0, 1} :
       /\ n = 1 => step < MaxSteps
       /\ rt' = [rt EXCEPT !.pc = "second", !.proposals = n]
  /\ UNCHANGED <<ext, calls, used, sessionVars, goalVars, restVars>>

\* Steers win over proposals; either starts the next step of the same Run.
SecondLook(o) ==
  /\ At("second")
  /\ IF cancel THEN Finish("canceled") /\ UNCHANGED <<step, steers, used>> /\ o = "ok"
     ELSE IF steers = 0 /\ rt.proposals = 0
     THEN Finish("completed") /\ UNCHANGED <<step, steers, used>> /\ o = "ok"
     ELSE /\ o # "ok" => Trouble
          /\ used' = IF o = "ok" THEN used ELSE Spend
          /\ steers' = IF o = "lost" THEN steers ELSE 0
          /\ step' = IF o = "lost" THEN step ELSE step + 1
          /\ IF o = "ok" THEN rt' = Fresh("model") ELSE Finish("failed")
  /\ UNCHANGED <<ext, run, answered, calls, goalVars, restVars>>

Resumable(x) == \E i \in Invocation : x[i].status = "prepared" \/ Unsettled(x[i])

\* finishRun.  When its commit fails the Store recovers the Session; a Run
\* that is not settled by that leaves the Runtime closed.
FinishRun(o) ==
  /\ At("finish")
  /\ LET out == IF cancel THEN "canceled" ELSE rt.out
         open == o = "lost" /\ Resumable(Unknown)
     IN  /\ o # "ok" => Trouble
         /\ used' = IF o = "ok" THEN used ELSE Spend
         /\ ext' = IF o = "ok" THEN ext ELSE Unknown
         /\ run' = IF o # "lost" THEN out ELSE IF open THEN "running" ELSE "interrupted"
         /\ steers' = IF open \/ (o # "lost" /\ out = "completed") THEN steers ELSE 0
         /\ why' = IF o = "lost" \/ out # "completed" THEN why
                   ELSE IF gates = 0 THEN "ungated" ELSE rt.path
         /\ Goto(IF open THEN "down" ELSE "idle")
  /\ UNCHANGED <<step, answered, goalVars, gates, cancel, calls>>

-----------------------------------------------------------------------------
(* Recovery (restorePreparedRun, restoreCompletionOccurrence,              *)
(* runCompletionRecovery).                                                 *)

\* The unsettled entries are exactly one occurrence of the current gates, and
\* their digest, which covers the tokens used, is still that of their input.
Matches(x, n, k) ==
  /\ \A i \in Invocation :
       (x[i].status = "prepared" \/ Unsettled(x[i])) <=> (i[1] = k /\ i[2] <= n)
  /\ n > 0 /\ x[<<k, 1>>].step = answered

Restored(x, k) ==
  LET cand == x[<<k, 1>>].goal
  IN  [Fresh("gate") EXCEPT
         !.occ = k, !.recovered = TRUE,
         !.cand = IF cand = NoGoal THEN NoGoal ELSE [cand EXCEPT !.clock = "stored"],
         !.cont = \E g \in 1..MaxGates : /\ x[<<k, g>>].status = "succeeded"
                                         /\ x[<<k, g>>].decision = "continue"]

\* The Runtime is opened again, perhaps by an application with other gates.
Restart ==
  /\ At("down")
  /\ ext' = Unknown
  /\ gates' \in 0..MaxGates
  /\ IF run # "running"
     THEN rt' = Fresh("idle") /\ UNCHANGED <<run, steers>>
     ELSE IF ~Resumable(Unknown)
     THEN rt' = Fresh("idle") /\ run' = "interrupted" /\ steers' = 0
     ELSE /\ UNCHANGED <<run, steers>>
          /\ rt' = IF \E k \in 1..MaxOccurrences : Matches(Unknown, gates', k)
                   THEN Restored(Unknown, CHOOSE k \in 1..MaxOccurrences :
                                            Matches(Unknown, gates', k))
                   ELSE Fresh("mismatch")
  /\ cancel' = FALSE
  /\ UNCHANGED <<step, answered, calls, used, why, goalVars>>

\* settleCompletionRecoveryEntries: other gates cannot finish the work.
Mismatch(o) ==
  /\ At("mismatch")
  /\ CommitIfChanged(Settled, o)
  /\ Finish("interrupted")
  /\ UNCHANGED <<calls, sessionVars, goalVars, restVars>>

-----------------------------------------------------------------------------
(* The environment.                                                        *)

Open == rt.pc \notin {"idle", "down"} \cup Locked

Steer ==
  /\ Open /\ Trouble
  /\ steers' = steers + 1 /\ used' = Spend
  /\ UNCHANGED <<ext, run, step, answered, rt, calls, goalVars, restVars>>

\* DeleteQueued, or ReclassifyQueued to another delivery.
Withdraw ==
  /\ Open /\ steers > 0
  /\ steers' = steers - 1
  /\ UNCHANGED <<ext, run, step, answered, rt, calls, used, goalVars, restVars>>

Cancel ==
  /\ Open /\ ~cancel /\ cancel' = TRUE
  /\ UNCHANGED <<ext, gates, rt, calls, used, why, sessionVars, goalVars>>

Crash ==
  /\ rt.pc # "down" /\ Trouble
  /\ rt' = Fresh("down") /\ cancel' = FALSE
  /\ used' = Spend
  /\ UNCHANGED <<ext, gates, calls, why, sessionVars, goalVars>>

Idle == At("idle") /\ UNCHANGED vars

Init ==
  /\ ext = [i \in Invocation |-> Absent]
  /\ run = "running" /\ step = 1 /\ answered = 0 /\ steers = 0
  /\ goal \in {[id |-> n, version |-> n, followOns |-> 0,
                status |-> IF n = 0 THEN "none" ELSE "active"] : n \in {0, 1}}
  /\ decisions = {} /\ gates \in 0..MaxGates
  /\ rt = Fresh("model") /\ cancel = FALSE
  /\ calls = [i \in Invocation |-> 0] /\ why = "none"
  /\ used = [trouble |-> 0, occs |-> 0]

\* What the goroutine of the Run does, whatever its commits answer.
Loop ==
  \/ ModelAnswers \/ FirstLook \/ GoalEvaluated \/ GoalWithoutGates \/ Prepare
  \/ GateRestored \/ GateNotRestored \/ Hooks
  \/ \E o \in {"ok", "lost", "kept"} :
       \/ PrepareSettle(o) \/ GateEnter(o) \/ GateSuperseded(o) \/ GateStart(o)
       \/ GateReturns(o) \/ GateFailure(o) \/ Finalize(o) \/ Apply(o) \/ ApplyRetry(o)
       \/ Unsure(o) \/ Settle(o) \/ SecondLook(o) \/ FinishRun(o) \/ Mismatch(o)

Environment == SetGoal \/ ChangeStatus \/ Steer \/ Withdraw \/ Cancel \/ Crash

Next == Loop \/ Restart \/ Environment \/ Idle

Spec == Init /\ [][Next]_vars

\* The goroutine is scheduled and model, evaluator, gates and hooks return.
FairSpec == Spec /\ WF_vars(Loop)

-----------------------------------------------------------------------------
(* Properties.                                                             *)

\* An entry as the ExtensionJournal knows it.
AsEntry(e) ==
  [boundary |-> "completion", status |-> e.status, effect |-> e.effect,
   context |-> e.context, decision |-> e.decision]

TypeOK ==
  /\ run \in {"running"} \cup RunEnd /\ step \in 1..(MaxSteps + MaxTrouble)
  /\ steers \in 0..MaxTrouble /\ gates \in 0..MaxGates
  /\ \A i \in Invocation : ext[i].status # "absent" =>
       StatusShape(AsEntry(ext[i])) /\ ContextShape(ext[i])

\* Whatever fails or restarts, a gate is entered at most once per occurrence,
\* and the effects of an occurrence are applied together: if one success
\* counts, every gate of the chain succeeded and counts (runCompletionGates,
\* settleCompletion, recoverCompletionGates).
AllOrNothing ==
  /\ TypeOK
  /\ \A i \in Invocation : calls[i] <= 1
  /\ \A i, j \in Invocation :
       /\ i[1] = j[1] /\ ext[j].status # "absent"
       /\ ext[i].status = "succeeded" /\ ext[i].effect = "applied"
       => ext[j].status = "succeeded" /\ ext[j].effect = "applied"

\* A Goal is done only when every gate of an occurrence that carried it as a
\* candidate said complete.
GoalNeedsGates ==
  \A d \in decisions : d.verdict = "done" =>
    LET shown(i) == ext[i].step = d.step /\ ext[i].goal.version = d.version
    IN  \/ \A i \in Invocation : ~shown(i)
        \/ \E k \in 1..MaxOccurrences :
             /\ shown(<<k, 1>>)
             /\ \A g \in 1..MaxGates : ext[<<k, g>>].status # "absent" =>
                  ext[<<k, g>>].status = "succeeded" /\ ext[<<k, g>>].decision = "complete"

\* The gates of the Run's last step let it complete, or a Goal decision took
\* their place.
Gated ==
  \/ \E k \in 1..MaxOccurrences :
       /\ ext[<<k, 1>>].step = step
       /\ \A g \in 1..MaxGates : ext[<<k, g>>].status # "absent" =>
            ext[<<k, g>>].decision = "complete" /\ ext[<<k, g>>].effect = "applied"
  \/ \E d \in decisions : d.step = step

\* Both a Goal and a Run are finished on the word of the gates: a Goal that is
\* done was let through by a whole chain, and a Run that completed passed its
\* gates at its last step or left them by one of the exits of the code (no
\* gates, a steer, a decision in conflict, a stale occurrence).
CompletionJustified ==
  /\ GoalNeedsGates
  /\ run = "completed" => why \in {"ungated", "steer", "conflict", "stale"} \/ Gated

\* Whatever commits are lost or kept and whichever gates a restart brings, the
\* Runtime only moves an entry of the journal where the Store lets it
\* (validateExtensionTransition): no commit is refused for the state that
\* recovery or an earlier commit left behind.
MovesAccepted ==
  [][\A i \in Invocation : ext[i].status # "absent" => StoreAccepts(ext[i], ext'[i])]_vars

\* With the goroutine scheduled the Run ends or its Runtime is down, and no
\* commit on the way is one that the Store refuses.
RunEnds == MovesAccepted /\ <>(run # "running" \/ At("down"))

-----------------------------------------------------------------------------
(* What the documentation says and the code does not do (see README).      *)

\* A Run with gates completes only through them.
GatesGuardCompletion == run = "completed" => why = "ungated" \/ Gated
=============================================================================
