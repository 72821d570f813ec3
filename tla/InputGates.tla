------------------------------ MODULE InputGates ------------------------------
(***************************************************************************)
(* The gates in front of the Queue (standardagent/runtime_input_gate.go,   *)
(* runtime_input_gate_context.go, runtime_input_gate_recovery.go).  Send,  *)
(* Steer and EditQueued propose an input; every InputGate of the           *)
(* application sees it, may reject it, and may attach context for the      *)
(* model.  Only when all accept is the input admitted, in the commit that  *)
(* applies the gates' effects.  The context of an accepted input waits in  *)
(* the ExtensionJournal until a Run consumes the message.                  *)
(*                                                                         *)
(* Gates run outside the Runtime's mutex: meanwhile the Run ends, another  *)
(* starts, the queued message is consumed, deleted or moved, the Runtime   *)
(* closes, or fails closed and is replaced while the submission still      *)
(* runs.  A commit can fail with or without being durable; the process can *)
(* crash.  Submissions are numbered; a number also stands for the text it  *)
(* proposes, its invocation identities and the message a Send creates.     *)
(***************************************************************************)
EXTENDS Integers, FiniteSets, TLC, ExtensionJournal

CONSTANTS
  MaxGates,
  MaxSubmissions,
  MaxTrouble      \* failed commits, crashes, closes and caller cancellations

Texts      == 1..MaxSubmissions
Invocation == Texts \X (1..MaxGates)
Owners     == {"own", "old"}   \* the Runtime of the registry, and a failed one
Deliveries == {"normal", "steer", "held"}

NoEntry == [status |-> "absent", effect |-> "none", context |-> "none",
            decision |-> "none", message |-> 0]
NoItem  == [text |-> 0, delivery |-> "none"]
NoInput == [text |-> 0, told |-> {}]
NoSub   == [pc |-> "idle", op |-> "none", text |-> 0, message |-> 0, seen |-> NoItem,
            run |-> 0, idx |-> 1, from |-> 1, canceled |-> FALSE,
            mem |-> [g \in 1..MaxGates |-> NoEntry]]

VARIABLES
  ext,       \* durable ExtensionJournal, by invocation
  queue,     \* durable Queue, by message
  consumed,  \* what Runs took into the History, with the contexts told
  run,       \* the durable active Run, 0 when idle
  active,    \* the Runtime's active Run
  runs,      \* Runs started
  rt,        \* state of the registry's Runtime
  gates,     \* number of gates of the application
  known,     \* hasInputGateJournal of the Runtime
  subs,      \* the submission each Runtime is working on
  answers,   \* what callers were told, by submission
  used       \* submissions made and trouble spent

vars == <<ext, queue, consumed, run, active, runs, rt, gates, known, subs, answers, used>>
runVars == <<run, active, runs>>
rtVars  == <<rt, gates, known>>

Trouble == used.trouble < MaxTrouble
Spend   == [used EXCEPT !.trouble = @ + 1]

Closed(s) == s = "old" \/ rt = "down"
Shut(s)   == s = "old" \/ rt # "open"

\* The Store accepts an update of an entry only as a move.
CanWrite(t, f) ==
  \A g \in DOMAIN f : ext[<<t, g>>] # f[g] /\
    (ext[<<t, g>>].status = "absent" \/ StoreAccepts(ext[<<t, g>>], f[g]))

Written(t, f) ==
  [i \in Invocation |-> IF i[1] = t /\ i[2] \in DOMAIN f THEN f[i[2]] ELSE ext[i]]

\* Whether a commit of accepted changes is answered, lost, or durable although
\* it failed; refused changes are lost.
Outcome(accepted, o) ==
  /\ o \in {"ok", "lost", "kept"}
  /\ IF ~accepted THEN o = "lost" /\ UNCHANGED used
     ELSE IF o = "ok" THEN UNCHANGED used
     ELSE Trouble /\ used' = Spend

Durable(o, x, y) == IF o = "lost" THEN y ELSE x

\* A commit of journal entries only.
CommitEntries(t, f, o) ==
  IF f = <<>> THEN o = "ok" /\ UNCHANGED <<ext, used>>
  ELSE Outcome(CanWrite(t, f), o) /\ ext' = Durable(o, Written(t, f), ext)

\* The contexts of a journal that wait for message m, and the journal in
\* which they are consumed or dropped.
Waiting(x, m) ==
  {i \in Invocation : /\ x[i].message = m /\ x[i].effect = "applied"
                      /\ x[i].context = "pending"}
Consume(x, is) == [i \in Invocation |-> IF i \in is THEN ConsumeEntry(x[i]) ELSE x[i]]
Drop(x, is) ==
  [i \in Invocation |-> IF i \in is THEN [x[i] EXCEPT !.context = "discarded"] ELSE x[i]]

Pending(d) == {m \in Texts : queue[m].delivery = d}
First(ms) == CHOOSE m \in ms : \A n \in ms : m <= n

Answer(t, a) == answers' = [answers EXCEPT ![t] = a]
Return(s) == subs' = [subs EXCEPT ![s] = NoSub]

-----------------------------------------------------------------------------
(* Submitting (sendThroughInputGates, steerThroughInputGates,              *)
(* editThroughInputGates, prepareInputGateLocked).                         *)

\* The proposal: its message, and for an edit the item it was shown.
Proposal(op, m) ==
  /\ \/ op = "send"  /\ m = used.subs + 1
     \/ op = "steer" /\ m = used.subs + 1 /\ active # 0
     \/ op = "edit"  /\ queue[m].delivery # "none"

\* All gates are prepared in one commit under the caller's revision.
Submit(op, m, o) ==
  /\ rt = "open" /\ gates > 0 /\ subs["own"].pc = "idle" /\ used.subs < MaxSubmissions
  /\ Proposal(op, m)
  /\ LET t == used.subs + 1
         f == [g \in 1..gates |-> [NoEntry EXCEPT !.status = "prepared", !.message = m]]
         mem == [g \in 1..MaxGates |-> IF g <= gates THEN f[g] ELSE NoEntry]
     IN  /\ o # "ok" => Trouble
         /\ used' = [used EXCEPT !.subs = t, !.trouble = IF o = "ok" THEN @ ELSE @ + 1]
         /\ ext' = Durable(o, Written(t, f), ext)
         /\ IF o = "ok"
            THEN /\ subs' = [subs EXCEPT !["own"] =
                      [NoSub EXCEPT !.pc = "enter", !.op = op, !.text = t, !.message = m,
                                    !.seen = queue[m], !.mem = mem,
                                    !.run = IF op = "steer" THEN active ELSE 0]]
                 /\ known' = TRUE /\ UNCHANGED answers
            ELSE Answer(t, "error") /\ UNCHANGED <<subs, known>>
  /\ UNCHANGED <<queue, consumed, runVars, rt, gates>>

-----------------------------------------------------------------------------
(* The chain (executeInputGateOccurrence).                                 *)

\* Only a prepared gate is started, only while the Runtime is open and the
\* caller is there; the rest of the chain is canceled otherwise.
Enter(s, o) ==
  LET sub == subs[s]
      e == StartEntry(sub.mem[sub.idx])
      stop(from) == subs' = [subs EXCEPT ![s].pc = "cancelRest", ![s].from = from]
  IN  /\ sub.pc = "enter"
      /\ IF sub.canceled \/ Shut(s)
         THEN stop(sub.idx) /\ o = "ok" /\ UNCHANGED <<ext, used>>
         ELSE /\ CommitEntries(sub.text, [g \in {sub.idx} |-> e], o)
              /\ IF o = "ok" THEN subs' = [subs EXCEPT ![s].pc = "run", ![s].mem[sub.idx] = e]
                 ELSE stop(sub.idx + 1)
      /\ UNCHANGED <<queue, consumed, runVars, rtVars, answers>>

\* The result of a gate (evaluateInputGate): a rejection carries no context,
\* and a canceled caller gets no decision.
Results(canceled) ==
  LET failures == [status : {"failed", "canceled", "outcome_unknown"},
                   decision : {"none"}, context : {"none"}]
      verdicts == [status : {"succeeded"}, decision : {"accept"}, context : {"none", "pending"}]
            \cup [status : {"succeeded"}, decision : {"reject"}, context : {"none"}]
  IN  IF canceled THEN failures ELSE failures \cup verdicts

Evaluate(s, o) ==
  LET sub == subs[s]
      stop == subs' = [subs EXCEPT ![s].pc = "cancelRest", ![s].from = sub.idx + 1]
  IN  /\ sub.pc = "run"
      /\ \E res \in Results(sub.canceled) :
           LET e == FinishEntry(sub.mem[sub.idx], res.status, res.decision, res.context)
               more == sub.idx < MaxGates /\ sub.mem[sub.idx + 1].status # "absent"
               done == [sub EXCEPT !.mem[sub.idx] = e]
           IN  IF Closed(s) THEN stop /\ o = "ok" /\ UNCHANGED <<ext, used>>
               ELSE /\ CommitEntries(sub.text, [g \in {sub.idx} |-> e], o)
                    /\ IF o # "ok" THEN stop
                       ELSE subs' = [subs EXCEPT ![s] =
                              IF res.decision # "accept"
                              THEN [done EXCEPT !.pc = "cancelRest", !.from = sub.idx + 1]
                              ELSE IF more THEN [done EXCEPT !.pc = "enter", !.idx = @ + 1]
                              ELSE [done EXCEPT !.pc = "accept"]]
      /\ UNCHANGED <<queue, consumed, runVars, rtVars, answers>>

\* cancelPreparedInputGates: its failure is ignored.
CancelRest(s, o) ==
  LET sub == subs[s]
      f == [g \in {h \in sub.from..MaxGates : sub.mem[h].status = "prepared"} |->
              CancelEntry(sub.mem[g])]
  IN  /\ sub.pc = "cancelRest"
      /\ IF Closed(s) THEN o = "ok" /\ UNCHANGED <<ext, used>>
         ELSE CommitEntries(sub.text, f, o)
      /\ subs' = [subs EXCEPT ![s].pc = "reject",
                    ![s].mem = IF o = "ok" /\ ~Closed(s)
                               THEN [g \in 1..MaxGates |-> IF g \in DOMAIN f THEN f[g] ELSE @[g]]
                               ELSE @]
      /\ UNCHANGED <<queue, consumed, runVars, rtVars, answers>>

Decisive(e) ==
  \/ e.status = "succeeded" /\ e.decision = "reject"
  \/ e.status \in {"failed", "outcome_unknown"}
  \/ e.status = "canceled" /\ e.effect = "pending"

\* finalizeRejectedInput: the decisive outcome is applied, the rest is not.
Reject(s, o) ==
  LET sub == subs[s]
      ds == {g \in 1..MaxGates : Decisive(sub.mem[g])}
      f == [g \in {h \in 1..MaxGates : Unsettled(sub.mem[h])} |->
              DisposeEntry(sub.mem[g], IF ds # {} /\ g = First(ds) THEN "applied" ELSE "discarded")]
  IN  /\ sub.pc = "reject"
      /\ CommitEntries(sub.text, f, o)
      /\ Answer(sub.text, "rejected") /\ Return(s)
      /\ UNCHANGED <<queue, consumed, runVars, rtVars>>

-----------------------------------------------------------------------------
(* Admission.                                                              *)

\* What the gates saw is no longer what the input would change.
Overtaken(s) ==
  LET sub == subs[s]
  IN  \/ Shut(s)
      \/ sub.op = "steer" /\ (active = 0 \/ active # sub.run)
      \/ sub.op = "edit" /\ queue[sub.message] # sub.seen

\* Mutant: a submission that finds the Runtime shut is never settled.
DiscardUnlessShut(s, o) ==
  /\ subs[s].pc = "accept" /\ Overtaken(s) /\ ~Shut(s)
  /\ Return(s) /\ UNCHANGED <<ext, queue, consumed, runVars, rtVars, answers, used>>

\* discardAcceptedInputLocked.
Discard(s, o) ==
  LET sub == subs[s]
      f == [g \in {h \in 1..MaxGates : sub.mem[h].effect = "pending"} |->
              DisposeEntry(sub.mem[g], "discarded")]
  IN  /\ sub.pc = "accept" /\ Overtaken(s)
      /\ CommitEntries(sub.text, f, o)
      /\ Answer(sub.text, "rejected") /\ Return(s)
      /\ UNCHANGED <<queue, consumed, runVars, rtVars>>

\* Mutant: only the first gate is settled.
AppliedEntriesFirst(sub) == [g \in {1} |-> [sub.mem[g] EXCEPT !.effect = "applied"]]

\* finalizeAcceptedInputEntries: context keeps waiting for its message.
AppliedEntries(sub) ==
  [g \in {h \in 1..MaxGates : sub.mem[h].status # "absent"} |->
     [sub.mem[g] EXCEPT !.effect = "applied"]]

\* Starting a Run with message m consumes it and its contexts.
StartRun(x, q, m, o) ==
  /\ runs' = Durable(o, runs + 1, runs)
  /\ run' = Durable(o, runs + 1, run)
  /\ active' = IF o = "ok" THEN runs + 1 ELSE active
  /\ ext' = Durable(o, Consume(x, Waiting(x, m)), ext)
  /\ queue' = Durable(o, [q EXCEPT ![m] = NoItem], queue)
  /\ consumed' = Durable(o, [consumed EXCEPT ![m] =
                               [text |-> q[m].text, told |-> Waiting(x, m)]], consumed)

\* finalizeAcceptedSend: queued behind the active Run, or starting one.
AcceptSend(o) ==
  LET sub == subs["own"]
      f == AppliedEntries(sub)
      q == [queue EXCEPT ![sub.message] = [text |-> sub.text, delivery |-> "normal"]]
  IN  /\ sub.pc = "accept" /\ sub.op = "send" /\ ~Overtaken("own")
      /\ Outcome(CanWrite(sub.text, f) /\ (active = 0 => run = 0), o)
      /\ IF active # 0
         THEN /\ ext' = Durable(o, Written(sub.text, f), ext) /\ queue' = Durable(o, q, queue)
              /\ UNCHANGED <<consumed, runVars>>
         ELSE StartRun(Written(sub.text, f), q, sub.message, o)
      /\ Answer(sub.text, IF o = "ok" THEN "accepted" ELSE "error") /\ Return("own")
      /\ UNCHANGED rtVars

\* Mutant: the contexts of the text that is replaced are kept.
AcceptedEditKeeps(x, m, t) == x

\* discardOlderInputContexts.
AcceptedEdit(x, m, t) ==
  Drop(x, {i \in Invocation : /\ x[i].message = m /\ x[i].context = "pending" /\ i[1] # t})

\* finalizeAcceptedSteer and finalizeAcceptedEdit.
AcceptQueued(o) ==
  LET sub == subs["own"]
      f == AppliedEntries(sub)
      x == Written(sub.text, f)
  IN  /\ sub.pc = "accept" /\ sub.op \in {"steer", "edit"} /\ ~Overtaken("own")
      /\ Outcome(CanWrite(sub.text, f), o)
      /\ ext' = Durable(o, IF sub.op = "steer" THEN x
                           ELSE AcceptedEdit(x, sub.message, sub.text), ext)
      /\ queue' = Durable(o, [queue EXCEPT ![sub.message] =
                                [text |-> sub.text,
                                 delivery |-> IF sub.op = "steer" THEN "steer" ELSE @.delivery]],
                          queue)
      /\ Answer(sub.text, IF o = "ok" THEN "accepted" ELSE "error") /\ Return("own")
      /\ UNCHANGED <<consumed, runVars, rtVars>>

-----------------------------------------------------------------------------
(* The Queue and the Run beside a submission.                              *)

\* An application without gates admits at once.
SubmitUngated(op, m, o) ==
  /\ rt = "open" /\ gates = 0 /\ used.subs < MaxSubmissions
  /\ Proposal(op, m)
  /\ LET t == used.subs + 1
         q == [queue EXCEPT ![m] = [text |-> t, delivery |-> CASE op = "send" -> "normal"
                                                               [] op = "steer" -> "steer"
                                                               [] OTHER -> @.delivery]]
     IN  /\ o # "ok" => Trouble \/ (op = "send" /\ active = 0 /\ run # 0 /\ o = "lost")
         /\ (op = "send" /\ active = 0 /\ run # 0) => o = "lost"
         /\ used' = [subs |-> t, trouble |-> IF o = "ok" \/ ~Trouble THEN used.trouble
                                             ELSE used.trouble + 1]
         /\ IF op = "send" /\ active = 0 THEN StartRun(ext, q, m, o)
            ELSE /\ queue' = Durable(o, q, queue)
                 /\ ext' = Durable(o, IF op = "edit" THEN Drop(ext, Waiting(ext, m)) ELSE ext, ext)
                 /\ UNCHANGED <<consumed, runVars>>
         /\ Answer(t, IF o = "ok" THEN "accepted" ELSE "error")
  /\ UNCHANGED <<rtVars, subs>>

\* discardPendingInputContexts, unless the Runtime knows of no gate entries.
Forget(x, m) == IF known THEN Drop(x, Waiting(x, m)) ELSE x

DeleteQueued(m, o) ==
  /\ rt = "open" /\ queue[m].delivery # "none"
  /\ Outcome(TRUE, o)
  /\ queue' = Durable(o, [queue EXCEPT ![m] = NoItem], queue)
  /\ ext' = Durable(o, Forget(ext, m), ext)
  /\ UNCHANGED <<consumed, runVars, rtVars, subs, answers>>

ReclassifyQueued(m, d) ==
  /\ rt = "open" /\ queue[m].delivery \notin {"none", d}
  /\ queue' = [queue EXCEPT ![m].delivery = d]
  /\ UNCHANGED <<ext, consumed, runVars, rtVars, subs, answers, used>>

RunPending(o) ==
  /\ rt = "open" /\ active = 0 /\ Pending("normal") # {}
  /\ Outcome(run = 0, o)
  /\ StartRun(ext, queue, First(Pending("normal")), o)
  /\ UNCHANGED <<rtVars, subs, answers>>

\* Between two steps the Run takes every pending steer.
TakeSteers(o) ==
  /\ active # 0 /\ rt = "open" /\ Pending("steer") # {}
  /\ Outcome(TRUE, o)
  /\ LET ms == Pending("steer")
     IN  /\ ext' = Durable(o, Consume(ext, UNION {Waiting(ext, m) : m \in ms}), ext)
         /\ queue' = Durable(o, [m \in Texts |-> IF m \in ms THEN NoItem ELSE queue[m]], queue)
         /\ consumed' = Durable(o, [m \in Texts |->
                          IF m \in ms THEN [text |-> queue[m].text, told |-> Waiting(ext, m)]
                          ELSE consumed[m]], consumed)
  /\ UNCHANGED <<runVars, rtVars, subs, answers>>

Hold == [m \in Texts |-> IF queue[m].delivery = "steer" THEN [queue[m] EXCEPT !.delivery = "held"]
                         ELSE queue[m]]

\* finishRun: a natural end starts the next Run in the same commit, any other
\* end holds the steers.
FinishRun ==
  /\ active # 0
  /\ IF rt = "open" /\ Pending("normal") # {}
     THEN \/ StartRun(ext, queue, First(Pending("normal")), "ok")
          \/ run' = 0 /\ active' = 0 /\ queue' = Hold /\ UNCHANGED <<ext, consumed, runs>>
     ELSE /\ queue' \in IF rt = "open" THEN {queue, Hold} ELSE {Hold}
          /\ run' = 0 /\ active' = 0 /\ UNCHANGED <<ext, consumed, runs>>
  /\ UNCHANGED <<rtVars, subs, answers, used>>

StoreRecovered == [i \in Invocation |-> RecoverEntry(ext[i])]

\* The commit that ends a Run fails: the Store recovers the Session and the
\* Runtime goes on, or fails closed while a submission is still running.
FinishRunFails ==
  /\ active # 0 /\ Trouble /\ used' = Spend
  /\ ext' = StoreRecovered /\ queue' = Hold /\ run' = 0 /\ active' = 0
  /\ \/ UNCHANGED <<rt, subs>>
     \/ /\ subs["old"].pc = "idle" /\ rt' = "down"
        /\ subs' = [subs EXCEPT !["old"] = subs["own"], !["own"] = NoSub]
  /\ UNCHANGED <<consumed, runs, gates, known, answers>>

-----------------------------------------------------------------------------
(* The Runtime's life.                                                     *)

CallerCancels(s) ==
  /\ subs[s].pc # "idle" /\ ~subs[s].canceled /\ Trouble
  /\ subs' = [subs EXCEPT ![s].canceled = TRUE] /\ used' = Spend
  /\ UNCHANGED <<ext, queue, consumed, runVars, rtVars, answers>>

Close ==
  /\ rt = "open" /\ Trouble /\ used' = Spend
  /\ rt' = "closing"
  /\ subs' = IF subs["own"].pc = "idle" THEN subs
             ELSE [subs EXCEPT !["own"].canceled = TRUE]
  /\ UNCHANGED <<ext, queue, consumed, runVars, gates, known, answers>>

\* finishClose waits for the Run and for the submission.
FinishClose ==
  /\ rt = "closing" /\ active = 0 /\ subs["own"].pc = "idle"
  /\ rt' = "down"
  /\ UNCHANGED <<ext, queue, consumed, runVars, gates, known, subs, answers, used>>

Crash ==
  /\ Trouble /\ used' = Spend
  /\ rt' = "down" /\ active' = 0 /\ subs' = [s \in Owners |-> NoSub]
  /\ UNCHANGED <<ext, queue, consumed, run, runs, gates, known, answers>>

\* Mutant: an accepted input that was not admitted keeps its outcome.
RecoverInputKept(e, queued) ==
  IF e.status = "prepared" THEN [e EXCEPT !.status = "failed", !.effect = "discarded"]
  ELSE IF e.context = "pending" /\ ~queued THEN [e EXCEPT !.context = "discarded"]
  ELSE e

\* inputGateRecoveryChanges: a proposal cannot be replayed; context waits on
\* only for a message that is still queued.
RecoverInput(e, queued) ==
  IF e.status = "prepared" THEN [e EXCEPT !.status = "failed", !.effect = "discarded"]
  ELSE IF Unsettled(e) THEN DisposeEntry(e, "discarded")
  ELSE IF e.context = "pending" /\ ~queued THEN [e EXCEPT !.context = "discarded"]
  ELSE e

\* The application opens the Session again, perhaps with other gates.
Open ==
  /\ rt = "down"
  /\ LET q == IF run = 0 THEN queue ELSE Hold
         x == StoreRecovered
         queued(e) == e.message # 0 /\ q[e.message].delivery # "none"
     IN  /\ queue' = q
         /\ ext' = [i \in Invocation |-> RecoverInput(x[i], queued(x[i]))]
  /\ run' = 0 /\ rt' = "open" /\ gates' \in 0..MaxGates
  /\ known' = (\E i \in Invocation : ext[i].status # "absent")
  /\ UNCHANGED <<consumed, active, runs, subs, answers, used>>

Init ==
  /\ ext = [i \in Invocation |-> NoEntry] /\ queue = [m \in Texts |-> NoItem]
  /\ consumed = [m \in Texts |-> NoInput]
  /\ run \in {0, 1} /\ active = run /\ runs = run
  /\ rt = "open" /\ gates \in 0..MaxGates /\ known = FALSE
  /\ subs = [s \in Owners |-> NoSub] /\ answers = [t \in Texts |-> "none"]
  /\ used = [subs |-> 0, trouble |-> 0]

\* A step of a submission, whatever its commit answers.
Work(s) ==
  \E o \in {"ok", "lost", "kept"} :
    \/ Enter(s, o) \/ Evaluate(s, o) \/ CancelRest(s, o) \/ Reject(s, o) \/ Discard(s, o)
    \/ s = "own" /\ (AcceptSend(o) \/ AcceptQueued(o))

Client ==
  \/ \E o \in {"ok", "lost", "kept"}, m \in Texts :
       \/ \E op \in {"send", "steer", "edit"} : Submit(op, m, o) \/ SubmitUngated(op, m, o)
       \/ DeleteQueued(m, o)
  \/ \E m \in Texts, d \in Deliveries : ReclassifyQueued(m, d)
  \/ \E o \in {"ok", "lost", "kept"} : RunPending(o) \/ TakeSteers(o)
  \/ \E s \in Owners : CallerCancels(s)
  \/ Close \/ Crash \/ FinishRunFails

Next == (\E s \in Owners : Work(s)) \/ Client \/ FinishRun \/ FinishClose \/ Open

Spec == Init /\ [][Next]_vars

\* Gates return, Runs end, and a closing Runtime is scheduled.
FairSpec ==
  /\ Spec /\ \A s \in Owners : WF_vars(Work(s))
  /\ WF_vars(FinishRun) /\ WF_vars(FinishClose)

-----------------------------------------------------------------------------
(* Properties.                                                             *)

TypeOK ==
  /\ rt \in {"open", "closing", "down"} /\ gates \in 0..MaxGates
  /\ run \in 0..runs /\ active \in 0..runs
  /\ \A m \in Texts : queue[m].delivery \in {"none"} \cup Deliveries
  /\ \A i \in Invocation : ext[i].status # "absent" =>
       StatusShape(ext[i] @@ [boundary |-> "input_gate"]) /\ ContextShape(ext[i])

Entries(t) == {i \in Invocation : i[1] = t /\ ext[i].status # "absent"}
Present(t) == \E m \in Texts : queue[m].text = t \/ consumed[m].text = t

\* Whoever is told that an input was not admitted never sees it used, whoever
\* is told that it was finds its gates' effects applied, and an input is in the
\* Queue or in the History only if every gate it was shown to accepted it.
AnswersHold ==
  /\ TypeOK
  /\ \A t \in Texts :
       /\ answers[t] = "rejected" => ~Present(t)
       /\ answers[t] = "accepted" => \A i \in Entries(t) : ext[i].effect = "applied"
       /\ Present(t) =>
            \A i \in Entries(t) : /\ ext[i].status = "succeeded" /\ ext[i].decision = "accept"
                                  /\ ext[i].effect = "applied"

\* The model is told exactly the contexts accepted with the text it reads, and
\* applied context waits only for the text it was accepted with, through edits,
\* deletions and reclassifications of the queued input.
ContextFollowsInput ==
  /\ \A m \in Texts :
       /\ consumed[m].text # 0 =>
            /\ consumed[m].told \subseteq Entries(consumed[m].text)
            /\ \A i \in Entries(consumed[m].text) :
                 ext[i].context = (IF i \in consumed[m].told THEN "consumed" ELSE "none")
       /\ queue[m].text # 0 =>
            \A i \in Entries(queue[m].text) : ext[i].context \in {"none", "pending"}
  /\ \A i \in Invocation : ext[i].effect = "applied" /\ ext[i].context = "pending" =>
       queue[ext[i].message].text = i[1]

\* After the Session is opened no gate of an earlier process is undecided.
OpenSettlesInputs ==
  [][rt = "down" /\ rt' = "open" =>
       \A i \in Invocation : ext'[i].status \in {"absent"} \cup TerminalStatuses /\ ~Unsettled(ext'[i])]_vars

\* Every submission returns and every close completes, although a close waits
\* for the submissions and a submission may find the Runtime closing.
SubmissionsReturn ==
  /\ \A s \in Owners : subs[s].pc # "idle" ~> subs[s].pc = "idle"
  /\ rt = "closing" ~> rt # "closing"
=============================================================================
