---------------------------- MODULE WorkflowProofs ----------------------------
(***************************************************************************)
(* StopDrains and ResultsTrue for any number of callers, Jobs, operations, *)
(* messages and failures.                                                  *)
(*                                                                         *)
(* Neither is inductive.  The invariant ties the registration of a Job to  *)
(* its goroutine and to the one Spawn that has not created it yet, the     *)
(* status of a stored Job to the step of its goroutine, and a canceled     *)
(* context to a reason that was recorded first.                            *)
(***************************************************************************)
EXTENDS Workflow, TLAPS

Reasons == {"none", "closed", "scheduler_stopped", "provider_canceled"}

JobStates ==
  [status: {"none", "queued", "running"} \cup Terminal, version: 0..3, reason: Reasons]

WorkerSteps == {"none", "registered", "load", "provider", "receiving", "finish",
                "publish", "remove", "gone"}

Workers ==
  [pc: WorkerSteps, result: Terminal \cup {"none"}, obeyed: BOOLEAN, read: Nat, chan: Nat]

CallerSteps == {"idle", "create", "check", "wait", "send", "mark", "cancel"}

Calls ==
  [pc: CallerSteps, kind: {"none", "wait", "send", "close"}, job: Jobs, after: Nat,
   chan: Nat]

Types ==
  /\ jobs \in [Jobs -> JobStates]
  /\ changed \in [Jobs -> Nat]
  /\ results \in Seq([from: Jobs, body: Terminal])
  /\ inbox \in [Jobs -> Nat]
  /\ posted \in [Jobs -> Nat]
  /\ sequence \in 0..MaxJobs
  /\ running \in SUBSET Jobs
  /\ reasons \in [Jobs -> Reasons \ {"provider_canceled"}]
  /\ canceled \in SUBSET Jobs
  /\ worker \in [Jobs -> Workers]
  /\ caller \in [Callers -> Calls]
  /\ stop \in [pc: {"none", "cancel", "wait", "done", "expired"}, cancels: SUBSET Jobs]
  /\ issued \in 0..MaxOps
  /\ trouble \in 0..MaxTrouble

\* A Job is registered exactly while its goroutine is counted, and beyond the
\* sequence there is nothing.
Registered ==
  \A j \in Jobs : /\ (j > sequence) <=> (worker[j].pc = "none")
                  /\ j \in running <=> worker[j].pc \notin {"none", "gone"}

\* A Spawn that registered its Job and has not created it: one for each such Job.
Spawning ==
  /\ \A c, d \in Callers :
       caller[c].pc = "create" /\ caller[d].pc = "create" /\ caller[c].job = caller[d].job
         => c = d
  /\ \A c \in Callers : caller[c].pc = "create" => worker[caller[c].job].pc = "registered"

\* The stored Job follows its goroutine, the only one to update it.
Follows ==
  \A j \in Jobs :
    /\ worker[j].pc \in {"none", "registered"} => jobs[j] = NoJob
    /\ worker[j].pc = "load" => jobs[j].status = "queued" /\ jobs[j].version = 1
    /\ worker[j].pc \in {"provider", "receiving", "finish"} =>
         jobs[j].status = "running" /\ jobs[j].version = 2
    /\ worker[j].pc = "finish" => worker[j].result \in Terminal
    /\ worker[j].pc = "publish" =>
         jobs[j].status = worker[j].result /\ worker[j].result \in Terminal
    /\ (jobs[j].status = "canceled") <=> (jobs[j].reason # "none")

\* Whoever cancels a registered Job has recorded a reason before.
ReasonFirst ==
  /\ \A j \in canceled : j <= sequence /\ (j \in running => reasons[j] # "none")
  /\ \A j \in stop.cancels : j <= sequence /\ (j \in running => reasons[j] # "none")
  /\ \A c \in Callers :
       /\ caller[c].pc \in {"mark", "cancel"} => caller[c].job <= sequence
       /\ caller[c].pc = "cancel" /\ caller[c].job \in running => reasons[caller[c].job] # "none"

\* A goroutine that heeded its context, up to the update that says so.
Obeyed ==
  \A j \in Jobs :
    worker[j].obeyed =>
      /\ j \in canceled
      /\ worker[j].pc \in {"finish", "publish", "remove", "gone"}
      /\ jobs[j].status = "canceled" => jobs[j].reason # "provider_canceled"

\* What the parent was told.
Told ==
  /\ \A i \in DOMAIN results :
       /\ worker[results[i].from].pc \in {"remove", "gone"}
       /\ jobs[results[i].from].status = results[i].body
  /\ \A i, k \in DOMAIN results : results[i].from = results[k].from => i = k

Drained == stop.pc = "done" => running = {}

IInv == Types /\ Registered /\ Spawning /\ Follows /\ ReasonFirst /\ Obeyed /\ Told /\ Drained

LEMMA InitInv == Init => IInv
<1> SUFFICES ASSUME Init PROVE IInv
  OBVIOUS
<1> USE WorkflowAssumption DEF Init, Jobs
<1>1. Types
  BY DEF Types, NoJob, NoWorker, NoCall, NoStop, JobStates, Workers, Calls, WorkerSteps,
         CallerSteps, Reasons, Terminal
<1>2. \A j \in Jobs : worker[j] = NoWorker /\ jobs[j] = NoJob
  OBVIOUS
<1>3. /\ NoWorker.pc = "none" /\ ~NoWorker.obeyed /\ NoJob.status = "none"
      /\ NoJob.reason = "none" /\ NoCall.pc = "idle" /\ NoStop.cancels = {} /\ NoStop.pc = "none"
  BY DEF NoWorker, NoJob, NoCall, NoStop
<1> QED
  BY <1>1, <1>2, <1>3 DEF IInv, Registered, Spawning, Follows, ReasonFirst, Obeyed, Told, Drained

-----------------------------------------------------------------------------
(* What an action does to the records it changes.                          *)

\* A goroutine moves on and keeps the rest of its state.
LEMMA GotoFields ==
  ASSUME worker \in [Jobs -> Workers], NEW j \in Jobs, NEW p \in WorkerSteps, Goto(j, p)
  PROVE  /\ worker' \in [Jobs -> Workers]
         /\ worker'[j].pc = p /\ worker'[j].result = worker[j].result
         /\ worker'[j].obeyed = worker[j].obeyed
         /\ \A k \in Jobs : k # j => worker'[k] = worker[k]
BY DEF Goto, Workers

\* A provider's answer becomes the result of the goroutine.
LEMMA AnswerFields ==
  ASSUME worker \in [Jobs -> Workers], NEW j \in Jobs, NEW r \in Terminal, NEW o \in BOOLEAN,
         worker' = [worker EXCEPT ![j].pc = "finish", ![j].result = r, ![j].obeyed = o]
  PROVE  /\ worker' \in [Jobs -> Workers]
         /\ worker'[j].pc = "finish" /\ worker'[j].result = r /\ worker'[j].obeyed = o
         /\ \A k \in Jobs : k # j => worker'[k] = worker[k]
BY DEF Workers, WorkerSteps, Terminal

\* An update that the Store accepts replaces one Job.
LEMMA UpdateFields ==
  ASSUME jobs \in [Jobs -> JobStates], changed \in [Jobs -> Nat], NEW j \in Jobs,
         NEW s \in {"queued", "running"} \cup Terminal, NEW v \in 1..3, NEW r \in Reasons,
         Store(j, [status |-> s, version |-> v, reason |-> r])
  PROVE  /\ jobs' \in [Jobs -> JobStates] /\ changed' \in [Jobs -> Nat]
         /\ jobs'[j].status = s /\ jobs'[j].version = v /\ jobs'[j].reason = r
         /\ \A k \in Jobs : k # j => jobs'[k] = jobs[k]
BY DEF Store, JobStates

\* A caller is given a call, or returns.
LEMMA CallFields ==
  ASSUME caller \in [Callers -> Calls], NEW c \in Callers, NEW call \in Calls,
         caller' = [caller EXCEPT ![c] = call]
  PROVE  /\ caller' \in [Callers -> Calls]
         /\ caller'[c] = call
         /\ \A d \in Callers : d # c => caller'[d] = caller[d]
OBVIOUS

\* No call is a call that a caller may have.
LEMMA NoCallFields == NoCall \in Calls /\ NoCall.pc = "idle"
BY WorkflowAssumption DEF NoCall, Calls, CallerSteps, Jobs

-----------------------------------------------------------------------------
(* Steps of callers that touch nothing but the caller and the inboxes.     *)

LEMMA CallerFrame ==
  ASSUME IInv, Types',
         UNCHANGED <<jobs, results, sequence, running, reasons, canceled, worker, stop>>,
         \A c \in Callers :
           \/ caller'[c] = caller[c]
           \/ /\ caller'[c].pc \notin {"create", "cancel"}
              /\ caller'[c].pc = "mark" => caller'[c].job <= sequence
  PROVE  IInv'
<1>1. Registered' /\ Follows' /\ Obeyed' /\ Told' /\ Drained'
  BY DEF IInv, Registered, Follows, Obeyed, Told, Drained
<1>2. Spawning'
  BY DEF IInv, Spawning
<1>3. ReasonFirst'
  BY DEF IInv, ReasonFirst
<1> QED
  BY <1>1, <1>2, <1>3 DEF IInv

\* Begin issues one operation.
LEMMA BeginFields ==
  ASSUME issued \in 0..MaxOps, NEW c \in Callers, Begin(c)
  PROVE  issued' \in 0..MaxOps
BY WorkflowAssumption DEF Begin

\* A Job that is stored was spawned.
LEMMA KnownSpawned ==
  ASSUME IInv, NEW j \in Jobs, Known(j)
  PROVE  j <= sequence
BY DEF IInv, Types, Registered, Follows, Known, Jobs

\* Versions are numbers.
LEMMA VersionsCount ==
  ASSUME IInv, NEW j \in Jobs
  PROVE  jobs[j].version \in Nat
<1>1. jobs[j] \in JobStates
  BY DEF IInv, Types
<1> QED
  BY <1>1 DEF JobStates

\* Results come from Jobs.
LEMMA ResultsFrom ==
  ASSUME IInv, NEW i \in DOMAIN results
  PROVE  results[i].from \in Jobs
<1> DEFINE R == [from: Jobs, body: Terminal]
<1>1. results \in Seq(R)
  BY DEF IInv, Types
<1> HIDE DEF R
<1>2. results[i] \in R
  BY <1>1
<1> QED
  BY <1>2 DEF R

\* Spend keeps to its bound.
LEMMA SpendFields == trouble \in 0..MaxTrouble /\ Spend => trouble' \in 0..MaxTrouble
BY WorkflowAssumption DEF Spend

\* An operation on a Job begins.
LEMMA BeginKeeps ==
  ASSUME IInv, NEW c \in Callers, NEW j \in Jobs,
         BeginWait(c, j) \/ BeginSend(c, j) \/ BeginClose(c, j)
  PROVE  IInv'
<1>0. jobs[j].version \in Nat
  BY VersionsCount
<1>1. PICK k \in {"wait", "send", "close"}, v \in Nat, p \in {"check", "send", "mark"} :
        Call(c, k, j, v, p)
  BY <1>0 DEF BeginWait, BeginSend, BeginClose
<1> DEFINE call == [pc |-> p, kind |-> k, job |-> j, after |-> v, chan |-> 0]
<1>2. call \in Calls /\ call.pc = p /\ call.job = j
  BY DEF Calls, CallerSteps
<1>3. /\ UNCHANGED <<jobs, results, sequence, running, reasons, canceled, worker, stop>>
      /\ UNCHANGED <<changed, inbox, posted, trouble>>
      /\ issued' \in 0..MaxOps
  BY BeginFields DEF BeginWait, BeginSend, BeginClose, storeVars, mailVars, schedulerVars,
                     IInv, Types
<1>4. j <= sequence
  BY KnownSpawned DEF BeginWait, BeginSend, BeginClose
<1> HIDE DEF call
<1>5. /\ caller' \in [Callers -> Calls] /\ caller'[c] = call
      /\ \A d \in Callers : d # c => caller'[d] = caller[d]
  BY <1>1, <1>2, CallFields DEF Call, call, IInv, Types
<1>6. Types'
  BY <1>3, <1>5 DEF IInv, Types
<1> QED
  BY <1>2, <1>3, <1>4, <1>5, <1>6, CallerFrame

\* A call goes on, or ends, without touching the Job.
LEMMA ContinueKeeps ==
  ASSUME IInv, NEW c \in Callers,
         CheckAgain(c) \/ Woken(c) \/ Send(c) \/ WaitCanceled(c)
  PROVE  IInv'
<1> DEFINE j == caller[c].job
<1>1. caller[c] \in Calls /\ j \in Jobs
  BY DEF IInv, Types, Calls
<1>2. /\ UNCHANGED <<jobs, changed, results, sequence, running, reasons, canceled>>
      /\ UNCHANGED <<worker, stop, issued>>
  BY DEF CheckAgain, Woken, Send, WaitCanceled, storeVars, mailVars, schedulerVars
<1>3. /\ inbox' \in [Jobs -> Nat] /\ posted' \in [Jobs -> Nat]
      /\ trouble' \in 0..MaxTrouble
  <2>1. CASE CheckAgain(c) \/ Woken(c)
    BY <2>1 DEF CheckAgain, Woken, mailVars, IInv, Types
  <2>2. CASE Send(c)
    BY <1>1, <2>2 DEF Send, Post, IInv, Types
  <2>3. CASE WaitCanceled(c)
    BY <2>3, SpendFields DEF WaitCanceled, mailVars, IInv, Types
  <2> QED
    BY <2>1, <2>2, <2>3
<1>4. PICK call \in Calls :
        /\ caller' = [caller EXCEPT ![c] = call]
        /\ call.pc \notin {"create", "cancel", "mark"}
  <2>1. CASE Return(c)
    BY <2>1, NoCallFields DEF Return
  <2>2. CASE CheckAgain(c) /\ caller' = [caller EXCEPT ![c].after = jobs[j].version]
    <3> DEFINE call == [caller[c] EXCEPT !.after = jobs[j].version]
    <3>1. call \in Calls /\ call.pc = "check"
      BY <1>1, <2>2, VersionsCount DEF Calls, CheckAgain
    <3> QED
      BY <2>2, <3>1
  <2>3. CASE caller' = [caller EXCEPT ![c].pc = "wait", ![c].chan = changed[j]]
    <3> DEFINE call == [caller[c] EXCEPT !.pc = "wait", !.chan = changed[j]]
    <3>1. call \in Calls /\ call.pc = "wait"
      BY <1>1 DEF Calls, CallerSteps, IInv, Types
    <3>2. caller' = [caller EXCEPT ![c] = call]
      BY <2>3 DEF IInv, Types
    <3> QED
      BY <3>1, <3>2
  <2>4. CASE caller' = [caller EXCEPT ![c].pc = "check", ![c].chan = 0]
    <3> DEFINE call == [caller[c] EXCEPT !.pc = "check", !.chan = 0]
    <3>1. call \in Calls /\ call.pc = "check"
      BY <1>1 DEF Calls, CallerSteps
    <3>2. caller' = [caller EXCEPT ![c] = call]
      BY <2>4 DEF IInv, Types
    <3> QED
      BY <3>1, <3>2
  <2> QED
    BY <2>1, <2>2, <2>3, <2>4 DEF CheckAgain, Woken, Send, WaitCanceled
<1>5. /\ caller' \in [Callers -> Calls] /\ caller'[c] = call
      /\ \A d \in Callers : d # c => caller'[d] = caller[d]
  BY <1>4, CallFields DEF IInv, Types
<1>6. Types'
  BY <1>2, <1>3, <1>5 DEF IInv, Types
<1> QED
  BY <1>2, <1>4, <1>5, <1>6, CallerFrame

-----------------------------------------------------------------------------
(* Steps of a goroutine that touch nothing but the goroutine.              *)

LEMMA WorkerFrame ==
  ASSUME IInv, Types', NEW j \in Jobs,
         UNCHANGED <<jobs, results, sequence, running, reasons, canceled, caller, stop>>,
         worker[j].pc \notin {"none", "registered", "gone", "remove"},
         \A k \in Jobs : k # j => worker'[k] = worker[k],
         \/ worker'[j].pc = "remove" /\ worker'[j].obeyed = worker[j].obeyed
         \/ /\ worker[j].pc \in {"provider", "receiving"}
            /\ \/ /\ worker'[j].pc = "finish" /\ worker'[j].result \in Terminal
                  /\ worker'[j].obeyed => j \in canceled
               \/ /\ worker'[j].pc \in {"provider", "receiving"}
                  /\ worker'[j].obeyed = worker[j].obeyed
  PROVE  IInv'
<1>1. Registered'
  BY DEF IInv, Registered
<1>2. Spawning'
  BY DEF IInv, Spawning, Types, Calls
<1>3. Follows'
  BY DEF IInv, Follows
<1>4. ReasonFirst' /\ Drained'
  BY DEF IInv, ReasonFirst, Drained
<1>5. Obeyed'
  BY DEF IInv, Obeyed, Follows
<1>6. Told'
  BY ResultsFrom DEF IInv, Told
<1> QED
  BY <1>1, <1>2, <1>3, <1>4, <1>5, <1>6 DEF IInv

\* The provider receives messages and returns.
LEMMA ProviderKeeps ==
  ASSUME IInv, NEW j \in Jobs,
         Receive(j) \/ Received(j) \/ ProviderReturns(j) \/ ProviderCanceled(j)
  PROVE  IInv'
<1>1. worker \in [Jobs -> Workers] /\ inbox \in [Jobs -> Nat] /\ posted \in [Jobs -> Nat]
  BY DEF IInv, Types
<1>2. /\ UNCHANGED <<jobs, results, sequence, running, reasons, canceled, caller, stop>>
      /\ UNCHANGED <<changed, inbox, posted, issued, trouble>>
  BY DEF Receive, Received, ProviderReturns, ProviderCanceled, storeVars, mailVars,
         schedulerVars
<1>3. CASE Receive(j) \/ Received(j)
  <2>1. /\ worker' \in [Jobs -> Workers]
        /\ \A k \in Jobs : k # j => worker'[k] = worker[k]
        /\ worker[j].pc \in {"provider", "receiving"}
        /\ worker'[j].pc \in {"provider", "receiving"}
        /\ worker'[j].obeyed = worker[j].obeyed
    <3>1. CASE worker' = [worker EXCEPT ![j].read = inbox[j]] /\ worker[j].pc = "provider"
      BY <1>1, <3>1 DEF Workers
    <3>2. CASE /\ worker' = [worker EXCEPT ![j].pc = "receiving", ![j].chan = posted[j]]
               /\ worker[j].pc = "provider"
      BY <1>1, <3>2 DEF Workers, WorkerSteps
    <3>3. CASE Received(j)
      <4>1. inbox[j] \in Nat /\ worker[j] \in Workers /\ worker[j].pc = "receiving"
        BY <1>1, <3>3 DEF Received, At
      <4> DEFINE w == [worker[j] EXCEPT !.pc = "provider", !.read = inbox[j], !.chan = 0]
      <4>2. w \in Workers /\ w.pc = "provider" /\ w.obeyed = worker[j].obeyed
        BY <4>1 DEF Workers, WorkerSteps
      <4>3. worker' = [worker EXCEPT ![j] = w]
        BY <1>1, <3>3 DEF Received
      <4> HIDE DEF w
      <4> QED
        BY <1>1, <4>1, <4>2, <4>3
    <3> QED
      BY <1>3, <3>1, <3>2, <3>3 DEF Receive, At
  <2>2. Types'
    BY <1>2, <2>1 DEF IInv, Types
  <2> QED
    BY <1>2, <2>1, <2>2, WorkerFrame
<1>4. CASE ProviderReturns(j) \/ ProviderCanceled(j)
  <2>1. PICK r \in Terminal, o \in BOOLEAN :
          /\ worker' = [worker EXCEPT ![j].pc = "finish", ![j].result = r, ![j].obeyed = o]
          /\ o => j \in canceled
    <3>1. CASE ProviderReturns(j)
      <4>1. PICK r \in Terminal :
              worker' = [worker EXCEPT ![j].pc = "finish", ![j].result = r,
                                       ![j].obeyed = r = "canceled" /\ j \in canceled]
        BY <3>1 DEF ProviderReturns, Outcomes
      <4> DEFINE o == r = "canceled" /\ j \in canceled
      <4>2. o \in BOOLEAN /\ (o => j \in canceled)
        OBVIOUS
      <4>3. worker' = [worker EXCEPT ![j].pc = "finish", ![j].result = r, ![j].obeyed = o]
        BY <4>1
      <4> HIDE DEF o
      <4> QED
        BY <4>2, <4>3
    <3>2. CASE ProviderCanceled(j)
      BY <3>2 DEF ProviderCanceled, Terminal
    <3> QED
      BY <1>4, <3>1, <3>2
  <2>2. /\ worker' \in [Jobs -> Workers]
        /\ worker'[j].pc = "finish" /\ worker'[j].result = r /\ worker'[j].obeyed = o
        /\ \A k \in Jobs : k # j => worker'[k] = worker[k]
    BY <1>1, <2>1, AnswerFields
  <2>3. worker[j].pc \in {"provider", "receiving"}
    BY <1>4 DEF ProviderReturns, ProviderCanceled, At
  <2>4. Types'
    BY <1>2, <2>2 DEF IInv, Types
  <2> QED
    BY <1>2, <2>1, <2>2, <2>3, <2>4, WorkerFrame
<1> QED
  BY <1>3, <1>4

\* A store or a mailbox fails in a goroutine.
LEMMA FailureKeeps ==
  ASSUME IInv, NEW j \in Jobs, UpdateFails(j) \/ PublishFails(j)
  PROVE  IInv'
<1>1. /\ UNCHANGED <<jobs, results, sequence, running, reasons, canceled, caller, stop>>
      /\ UNCHANGED <<changed, inbox, posted, issued>>
      /\ Goto(j, "remove") /\ worker[j].pc \in {"load", "finish", "publish"}
      /\ Spend
  BY DEF UpdateFails, PublishFails, At, storeVars, mailVars, schedulerVars
<1>2. /\ worker' \in [Jobs -> Workers]
      /\ worker'[j].pc = "remove" /\ worker'[j].obeyed = worker[j].obeyed
      /\ \A k \in Jobs : k # j => worker'[k] = worker[k]
  BY <1>1, GotoFields DEF IInv, Types, WorkerSteps
<1>3. Types'
  BY <1>1, <1>2, SpendFields DEF IInv, Types
<1> QED
  BY <1>1, <1>2, <1>3, WorkerFrame

-----------------------------------------------------------------------------
(* Spawn.                                                                  *)

\* The Job and its goroutine are registered together, before the Job exists.
LEMMA SpawnKeeps ==
  ASSUME IInv, NEW c \in Callers, SpawnRegister(c)
  PROVE  IInv'
<1> DEFINE j == sequence + 1
           call == [NoCall EXCEPT !.pc = "create", !.job = j]
<1>1. /\ sequence \in 0..MaxJobs /\ sequence < MaxJobs /\ sequence' = j /\ j \in Jobs
      /\ caller[c] = NoCall /\ stop.pc = "none"
  BY WorkflowAssumption DEF SpawnRegister, Begin, Closed, IInv, Types, Jobs
<1>2. /\ running' = running \cup {j} /\ Goto(j, "registered")
      /\ caller' = [caller EXCEPT ![c] = call]
      /\ UNCHANGED <<jobs, changed, results, inbox, posted, reasons, canceled, stop, trouble>>
      /\ issued' \in 0..MaxOps
  BY <1>1, BeginFields DEF SpawnRegister, Goto, storeVars, mailVars, IInv, Types
<1>3. call \in Calls /\ call.pc = "create" /\ call.job = j
  BY <1>1 DEF Calls, CallerSteps, NoCall
<1> HIDE DEF call
<1>4. /\ caller' \in [Callers -> Calls] /\ caller'[c] = call
      /\ \A d \in Callers : d # c => caller'[d] = caller[d]
  BY <1>2, <1>3, CallFields DEF IInv, Types
<1>5. /\ worker' \in [Jobs -> Workers]
      /\ worker'[j].pc = "registered" /\ worker'[j].obeyed = worker[j].obeyed
      /\ worker[j].pc = "none"
      /\ \A k \in Jobs : k # j => worker'[k] = worker[k]
  BY <1>1, <1>2, GotoFields DEF IInv, Types, WorkerSteps, Registered
<1>6. \A k \in Jobs : k <= MaxJobs /\ k \in Nat
  BY WorkflowAssumption DEF Jobs
<1> HIDE DEF j
<1>7. Types'
  BY <1>1, <1>2, <1>4, <1>5, WorkflowAssumption DEF IInv, Types, j
<1>8. Registered'
  BY <1>1, <1>2, <1>5, <1>6 DEF IInv, Registered, j
<1>9. Spawning'
  <2>1. \A d \in Callers : d # c /\ caller[d].pc = "create" => caller[d].job # j
    BY <1>5 DEF IInv, Spawning
  <2>2. \A d \in Callers : caller[d].job \in Jobs
    BY DEF IInv, Types, Calls
  <2> QED
    BY <1>3, <1>4, <1>5, <2>1, <2>2 DEF IInv, Spawning
<1>10. Follows' /\ Told'
  BY <1>2, <1>5, ResultsFrom DEF IInv, Follows, Told
<1>11. ReasonFirst'
  <2>1. \A k \in canceled \cup stop.cancels : k # j /\ k <= sequence'
    BY <1>1, <1>6 DEF IInv, ReasonFirst, j, Types
  <2>2. \A d \in Callers : d # c /\ caller[d].pc \in {"mark", "cancel"} =>
          caller[d].job # j /\ caller[d].job <= sequence'
    <3>1. \A d \in Callers : caller[d].job \in Jobs
      BY DEF IInv, Types, Calls
    <3>2. \A d \in Callers : caller[d].pc \in {"mark", "cancel"} => caller[d].job <= sequence
      BY DEF IInv, ReasonFirst
    <3>3. sequence \in Nat /\ sequence' = sequence + 1 /\ j = sequence + 1
      BY <1>1 DEF j
    <3> QED
      BY <1>6, <3>1, <3>2, <3>3
  <2> QED
    BY <1>2, <1>3, <1>4, <2>1, <2>2 DEF IInv, ReasonFirst
<1>12. Obeyed' /\ Drained'
  BY <1>1, <1>2, <1>5 DEF IInv, Obeyed, Drained
<1> QED
  BY <1>7, <1>8, <1>9, <1>10, <1>11, <1>12 DEF IInv

\* A caller whose Spawn ends.
LEMMA ReturnFields ==
  ASSUME caller \in [Callers -> Calls], NEW c \in Callers, Return(c)
  PROVE  /\ caller' \in [Callers -> Calls] /\ caller'[c].pc = "idle"
         /\ \A d \in Callers : d # c => caller'[d] = caller[d]
BY NoCallFields DEF Return

\* The Job is created, or the registration is taken back.
LEMMA CreateKeeps ==
  ASSUME IInv, NEW c \in Callers, Create(c) \/ CreateFails(c)
  PROVE  IInv'
<1> DEFINE j == caller[c].job
<1>1. j \in Jobs /\ caller[c].pc = "create" /\ worker[j].pc = "registered" /\ jobs[j] = NoJob
      /\ j \in running /\ running \subseteq Jobs /\ j <= sequence
  <2>1. caller[c] \in Calls /\ caller[c].pc = "create" /\ running \subseteq Jobs
    BY DEF Create, CreateFails, IInv, Types
  <2>2. j \in Jobs
    BY <2>1 DEF Calls
  <2>3. worker[j].pc = "registered" /\ jobs[j] = NoJob /\ j \in running
    BY <2>1, <2>2 DEF IInv, Spawning, Follows, Registered
  <2>4. j <= sequence
    BY <2>2, <2>3 DEF IInv, Types, Registered, Jobs
  <2> QED
    BY <2>1, <2>2, <2>3, <2>4
<1>2. /\ caller' \in [Callers -> Calls] /\ caller'[c].pc = "idle"
      /\ \A d \in Callers : d # c => caller'[d] = caller[d]
  BY ReturnFields DEF Create, CreateFails, IInv, Types
<1>3. \A d \in Callers : d # c /\ caller[d].pc = "create" => caller[d].job # j
  BY <1>1 DEF IInv, Spawning
<1>4. \A d \in Callers : caller[d].job \in Jobs
  BY DEF IInv, Types, Calls
<1>5. ~worker[j].obeyed
  BY <1>1 DEF IInv, Obeyed
<1>6. CASE Create(c)
  <2>1. /\ Store(j, [status |-> "queued", version |-> 1, reason |-> "none"]) /\ Goto(j, "load")
        /\ UNCHANGED <<results, inbox, posted, sequence, running, reasons, canceled>>
        /\ UNCHANGED <<stop, issued, trouble>>
    BY <1>6 DEF Create, Goto, mailVars, schedulerVars
  <2>2. /\ jobs' \in [Jobs -> JobStates] /\ changed' \in [Jobs -> Nat]
        /\ jobs'[j].status = "queued" /\ jobs'[j].version = 1 /\ jobs'[j].reason = "none"
        /\ \A k \in Jobs : k # j => jobs'[k] = jobs[k]
    <3>1. /\ "queued" \in {"queued", "running"} \cup Terminal /\ 1 \in 1..3 /\ "none" \in Reasons
          /\ jobs \in [Jobs -> JobStates] /\ changed \in [Jobs -> Nat]
      BY DEF IInv, Types, Reasons
    <3> HIDE DEF j
    <3> QED
      BY <1>1, <2>1, <3>1, UpdateFields
  <2>3. /\ worker' \in [Jobs -> Workers]
        /\ worker'[j].pc = "load" /\ worker'[j].obeyed = worker[j].obeyed
        /\ \A k \in Jobs : k # j => worker'[k] = worker[k]
    BY <1>1, <2>1, GotoFields DEF IInv, Types, WorkerSteps
  <2> HIDE DEF j
  <2>4. Types'
    BY <1>2, <2>1, <2>2, <2>3 DEF IInv, Types
  <2>5. Registered'
    BY <1>1, <2>1, <2>3 DEF IInv, Registered
  <2>6. Spawning'
    BY <1>2, <1>3, <1>4, <2>3 DEF IInv, Spawning
  <2>7. Follows'
    BY <2>2, <2>3 DEF IInv, Follows
  <2>8. ReasonFirst' /\ Drained'
    BY <1>2, <2>1 DEF IInv, ReasonFirst, Drained
  <2>9. Obeyed'
    BY <1>5, <2>1, <2>2, <2>3 DEF IInv, Obeyed
  <2>10. Told'
    BY <1>1, <2>1, <2>2, <2>3, ResultsFrom DEF IInv, Told
  <2> QED
    BY <2>4, <2>5, <2>6, <2>7, <2>8, <2>9, <2>10 DEF IInv
<1>7. CASE CreateFails(c)
  <2>1. /\ canceled' = canceled \cup {j} /\ running' = running \ {j}
        /\ reasons' = [reasons EXCEPT ![j] = "none"]
        /\ Goto(j, "gone") /\ Spend
        /\ UNCHANGED <<jobs, changed, results, inbox, posted, sequence, stop, issued>>
    BY <1>7 DEF CreateFails, Remove, Goto, storeVars, mailVars
  <2>2. /\ reasons' \in [Jobs -> Reasons \ {"provider_canceled"}]
        /\ \A k \in Jobs : k # j => reasons'[k] = reasons[k]
    BY <1>1, <2>1 DEF IInv, Types, Reasons
  <2>3. /\ worker' \in [Jobs -> Workers]
        /\ worker'[j].pc = "gone" /\ worker'[j].obeyed = worker[j].obeyed
        /\ \A k \in Jobs : k # j => worker'[k] = worker[k]
    BY <1>1, <2>1, GotoFields DEF IInv, Types, WorkerSteps
  <2> HIDE DEF j
  <2>4. Types'
    BY <1>1, <1>2, <2>1, <2>2, <2>3, SpendFields DEF IInv, Types
  <2>5. Registered'
    BY <1>1, <2>1, <2>3 DEF IInv, Registered
  <2>6. Spawning'
    BY <1>2, <1>3, <1>4, <2>3 DEF IInv, Spawning
  <2>7. Follows'
    BY <2>1, <2>3 DEF IInv, Follows
  <2>8. ReasonFirst'
    <3>1. canceled \subseteq Jobs /\ stop.cancels \subseteq Jobs
      BY DEF IInv, Types
    <3> QED
      BY <1>1, <1>2, <1>4, <2>1, <2>2, <3>1 DEF IInv, ReasonFirst
  <2>9. Obeyed' /\ Drained'
    BY <1>5, <2>1, <2>3 DEF IInv, Obeyed, Drained
  <2>10. Told'
    BY <1>1, <2>1, <2>3, ResultsFrom DEF IInv, Told
  <2> QED
    BY <2>4, <2>5, <2>6, <2>7, <2>8, <2>9, <2>10 DEF IInv
<1> QED
  BY <1>6, <1>7

-----------------------------------------------------------------------------
(* The updates of a goroutine.                                             *)

\* The Job becomes running and later terminal, each time from the status its
\* goroutine left it with.
LEMMA UpdateKeeps ==
  ASSUME IInv, NEW j \in Jobs, Run(j) \/ Finish(j)
  PROVE  IInv'
<1> DEFINE r == TerminalReason(j, worker[j].result)
<1>1. /\ UNCHANGED <<results, inbox, posted, sequence, running, reasons, canceled>>
      /\ UNCHANGED <<caller, stop, issued, trouble>>
  BY DEF Run, Finish, mailVars, schedulerVars
<1>2. /\ jobs \in [Jobs -> JobStates] /\ changed \in [Jobs -> Nat]
      /\ worker \in [Jobs -> Workers] /\ reasons[j] \in Reasons \ {"provider_canceled"}
  BY DEF IInv, Types
<1>3. PICK s \in {"running"} \cup Terminal, v \in 2..3, t \in Reasons,
           p \in {"provider", "publish"} :
        /\ Store(j, [status |-> s, version |-> v, reason |-> t]) /\ Goto(j, p)
        /\ worker[j].pc \in {"load", "finish"}
        /\ (s = "canceled") <=> (t # "none")
        /\ p = "provider" => s = "running" /\ v = 2
        /\ p = "publish" => s = worker[j].result /\ s \in Terminal
        /\ worker[j].obeyed => p = "publish" /\ t # "provider_canceled"
  <2>1. CASE Run(j)
    <3>1. /\ worker[j].pc = "load" /\ jobs[j].version = 1 /\ ~worker[j].obeyed
      BY <2>1 DEF Run, At, IInv, Follows, Obeyed
    <3>2. /\ Store(j, [status |-> "running", version |-> 2, reason |-> "none"])
          /\ Goto(j, "provider")
      BY <2>1, <3>1 DEF Run, Update
    <3>3. "none" \in Reasons /\ 2 \in 2..3
      BY DEF Reasons
    <3> QED
      BY <3>1, <3>2, <3>3 DEF Terminal
  <2>2. CASE Finish(j)
    <3>1. /\ worker[j].pc = "finish" /\ jobs[j].version = 2 /\ worker[j].result \in Terminal
          /\ j \in running
      BY <2>2 DEF Finish, At, IInv, Follows, Registered
    <3>2. /\ Store(j, [status |-> worker[j].result, version |-> 3, reason |-> r])
          /\ Goto(j, "publish")
      BY <2>2, <3>1 DEF Finish, Update
    <3>3. /\ r \in Reasons /\ 3 \in 2..3
          /\ (worker[j].result = "canceled") <=> (r # "none")
      BY <1>2 DEF Reasons, TerminalReason
    <3>4. worker[j].obeyed => r # "provider_canceled"
      BY <1>2, <3>1 DEF IInv, Obeyed, ReasonFirst, TerminalReason, Reasons
    <3> HIDE DEF r
    <3> QED
      BY <3>1, <3>2, <3>3, <3>4
  <2> QED
    BY <2>1, <2>2
<1>4. /\ jobs' \in [Jobs -> JobStates] /\ changed' \in [Jobs -> Nat]
      /\ jobs'[j].status = s /\ jobs'[j].version = v /\ jobs'[j].reason = t
      /\ \A k \in Jobs : k # j => jobs'[k] = jobs[k]
  <2>1. s \in {"queued", "running"} \cup Terminal /\ v \in 1..3
    OBVIOUS
  <2> QED
    BY <1>2, <1>3, <2>1, UpdateFields
<1>5. /\ worker' \in [Jobs -> Workers]
      /\ worker'[j].pc = p /\ worker'[j].result = worker[j].result
      /\ worker'[j].obeyed = worker[j].obeyed
      /\ \A k \in Jobs : k # j => worker'[k] = worker[k]
  BY <1>2, <1>3, GotoFields DEF WorkerSteps
<1>6. Types'
  BY <1>1, <1>4, <1>5 DEF IInv, Types
<1>7. Registered' /\ ReasonFirst' /\ Drained'
  BY <1>1, <1>3, <1>5 DEF IInv, Registered, ReasonFirst, Drained
<1>8. Spawning'
  BY <1>1, <1>3, <1>5 DEF IInv, Spawning, Types, Calls
<1>9. Follows'
  BY <1>3, <1>4, <1>5 DEF IInv, Follows
<1>10. Obeyed'
  BY <1>1, <1>3, <1>4, <1>5 DEF IInv, Obeyed
<1>11. Told'
  BY <1>1, <1>3, <1>4, <1>5, ResultsFrom DEF IInv, Told
<1> QED
  BY <1>6, <1>7, <1>8, <1>9, <1>10, <1>11 DEF IInv

\* The parent gets the first and only result of the Job.
LEMMA PublishKeeps ==
  ASSUME IInv, NEW j \in Jobs, Publish(j)
  PROVE  IInv'
<1> DEFINE m == [from |-> j, body |-> worker[j].result]
<1>1. /\ UNCHANGED <<jobs, changed, inbox, posted, sequence, running, reasons, canceled>>
      /\ UNCHANGED <<caller, stop, issued, trouble>>
      /\ results' = Append(results, m) /\ Goto(j, "remove") /\ worker[j].pc = "publish"
  BY DEF Publish, At, storeVars, schedulerVars
<1>2. /\ worker' \in [Jobs -> Workers]
      /\ worker'[j].pc = "remove" /\ worker'[j].obeyed = worker[j].obeyed
      /\ \A k \in Jobs : k # j => worker'[k] = worker[k]
  BY <1>1, GotoFields DEF IInv, Types, WorkerSteps
<1>3. /\ worker[j].result \in Terminal /\ jobs[j].status = worker[j].result
  BY <1>1 DEF IInv, Follows
<1>4. m \in [from: Jobs, body: Terminal] /\ m.from = j /\ m.body = jobs[j].status
  BY <1>3
<1>5. results \in Seq([from: Jobs, body: Terminal])
  BY DEF IInv, Types
<1> HIDE DEF m
<1>6. /\ results' \in Seq([from: Jobs, body: Terminal])
      /\ DOMAIN results' = DOMAIN results \cup {Len(results) + 1}
      /\ results'[Len(results) + 1] = m
      /\ \A i \in DOMAIN results : results'[i] = results[i] /\ i # Len(results) + 1
  BY <1>1, <1>4, <1>5
<1>7. Types'
  BY <1>1, <1>2, <1>6 DEF IInv, Types
<1>8. Registered' /\ ReasonFirst' /\ Drained' /\ Follows' /\ Obeyed'
  BY <1>1, <1>2 DEF IInv, Registered, ReasonFirst, Drained, Follows, Obeyed
<1>9. Spawning'
  BY <1>1, <1>2 DEF IInv, Spawning, Types, Calls
<1>10. Told'
  <2>1. \A i \in DOMAIN results : results[i].from # j
    BY <1>1 DEF IInv, Told
  <2> QED
    BY <1>1, <1>2, <1>4, <1>6, <2>1, ResultsFrom DEF IInv, Told
<1> QED
  BY <1>7, <1>8, <1>9, <1>10 DEF IInv

\* The goroutine takes its registration back, and is gone.
LEMMA RemoveKeeps ==
  ASSUME IInv, NEW j \in Jobs, RemoveRunning(j)
  PROVE  IInv'
<1>1. /\ UNCHANGED <<jobs, changed, results, inbox, posted, sequence, canceled>>
      /\ UNCHANGED <<caller, stop, issued, trouble>>
      /\ running' = running \ {j} /\ reasons' = [reasons EXCEPT ![j] = "none"]
      /\ Goto(j, "gone") /\ worker[j].pc = "remove"
  BY DEF RemoveRunning, Remove, At, storeVars, mailVars
<1>2. /\ worker' \in [Jobs -> Workers]
      /\ worker'[j].pc = "gone" /\ worker'[j].obeyed = worker[j].obeyed
      /\ \A k \in Jobs : k # j => worker'[k] = worker[k]
  BY <1>1, GotoFields DEF IInv, Types, WorkerSteps
<1>3. /\ reasons' \in [Jobs -> Reasons \ {"provider_canceled"}]
      /\ \A k \in Jobs : k # j => reasons'[k] = reasons[k]
  BY <1>1 DEF IInv, Types, Reasons
<1>4. canceled \subseteq Jobs /\ stop.cancels \subseteq Jobs /\ running \subseteq Jobs
      /\ \A d \in Callers : caller[d].job \in Jobs
  BY DEF IInv, Types, Calls
<1>5. Types'
  BY <1>1, <1>2, <1>3 DEF IInv, Types
<1>6. Registered' /\ Drained' /\ Follows' /\ Obeyed'
  BY <1>1, <1>2 DEF IInv, Registered, Drained, Follows, Obeyed
<1>7. ReasonFirst'
  BY <1>1, <1>3, <1>4 DEF IInv, ReasonFirst
<1>8. Spawning'
  BY <1>1, <1>2, <1>4 DEF IInv, Spawning
<1>9. Told'
  BY <1>1, <1>2, ResultsFrom DEF IInv, Told
<1> QED
  BY <1>5, <1>6, <1>7, <1>8, <1>9 DEF IInv

-----------------------------------------------------------------------------
(* Close and stop.                                                         *)

\* Close records its reason and then cancels the context.
LEMMA CloseKeeps ==
  ASSUME IInv, NEW c \in Callers, MarkClose(c) \/ CancelClose(c)
  PROVE  IInv'
<1> DEFINE j == caller[c].job
<1>1. /\ UNCHANGED <<jobs, changed, results, inbox, posted, sequence, running, worker>>
      /\ UNCHANGED <<stop, issued, trouble>>
      /\ caller[c].pc \in {"mark", "cancel"}
  BY DEF MarkClose, CancelClose, storeVars, mailVars
<1>2. /\ j \in Jobs /\ caller[c] \in Calls /\ caller \in [Callers -> Calls]
      /\ j <= sequence
      /\ reasons \in [Jobs -> Reasons \ {"provider_canceled"}]
      /\ canceled \subseteq Jobs /\ stop.cancels \subseteq Jobs
      /\ \A d \in Callers : caller[d].job \in Jobs
  BY <1>1 DEF IInv, Types, Calls, ReasonFirst
<1>3. /\ caller' \in [Callers -> Calls]
      /\ caller'[c].pc \in {"idle", "cancel", "check"}
      /\ caller'[c].pc = "cancel" => caller'[c].job = j /\ (j \in running => reasons'[j] # "none")
      /\ \A d \in Callers : d # c => caller'[d] = caller[d]
  <2>1. CASE Return(c)
    BY <1>2, <2>1, ReturnFields
  <2>2. CASE MarkClose(c) /\ j \in running
    <3>1. reasons' = [reasons EXCEPT ![j] = "closed"]
          /\ caller' = [caller EXCEPT ![c].pc = "cancel"]
      BY <2>2 DEF MarkClose, Marked
    <3> DEFINE call == [caller[c] EXCEPT !.pc = "cancel"]
    <3>2. call \in Calls /\ call.pc = "cancel" /\ call.job = j
      BY <1>2 DEF Calls, CallerSteps
    <3> QED
      BY <1>2, <3>1, <3>2
  <2>3. CASE CancelClose(c)
    <3> DEFINE call == [caller[c] EXCEPT !.pc = "check"]
    <3>1. call \in Calls /\ call.pc = "check"
      BY <1>2 DEF Calls, CallerSteps
    <3> QED
      BY <1>2, <2>3, <3>1 DEF CancelClose
  <2> QED
    BY <2>1, <2>2, <2>3 DEF MarkClose
<1>4. /\ reasons' \in [Jobs -> Reasons \ {"provider_canceled"}]
      /\ \A k \in Jobs : reasons[k] # "none" => reasons'[k] # "none"
      /\ canceled' \subseteq Jobs /\ canceled \subseteq canceled'
      /\ \A k \in canceled' \ canceled : k = j /\ (j \in running => reasons'[j] # "none")
  <2>1. CASE MarkClose(c)
    BY <1>2, <2>1 DEF MarkClose, Marked, Reasons
  <2>2. CASE CancelClose(c)
    BY <1>2, <2>2 DEF CancelClose, IInv, ReasonFirst
  <2> QED
    BY <2>1, <2>2
<1> HIDE DEF j
<1>5. Types'
  BY <1>1, <1>3, <1>4 DEF IInv, Types
<1>6. Registered' /\ Drained' /\ Follows' /\ Told'
  BY <1>1 DEF IInv, Registered, Drained, Follows, Told
<1>7. Spawning'
  BY <1>1, <1>3 DEF IInv, Spawning
<1>8. Obeyed'
  BY <1>1, <1>4 DEF IInv, Obeyed
<1>9. ReasonFirst'
  BY <1>1, <1>2, <1>3, <1>4 DEF IInv, ReasonFirst
<1> QED
  BY <1>5, <1>6, <1>7, <1>8, <1>9 DEF IInv

\* Stop closes the Scheduler, records its reason for every registered Job,
\* cancels them and waits.
LEMMA StopKeeps ==
  ASSUME IInv, StopLock \/ StopCancel \/ StopDone \/ StopExpires
  PROVE  IInv'
<1>1. /\ UNCHANGED <<jobs, changed, results, inbox, posted, sequence, running, worker>>
      /\ UNCHANGED <<caller, issued>>
  BY DEF StopLock, StopCancel, StopDone, StopExpires, storeVars, mailVars, schedulerVars
<1>2. /\ running \subseteq Jobs /\ canceled \subseteq Jobs /\ stop.cancels \subseteq Jobs
      /\ reasons \in [Jobs -> Reasons \ {"provider_canceled"}]
      /\ \A d \in Callers : caller[d].job \in Jobs
      /\ \A j \in running : j <= sequence
  BY DEF IInv, Types, Calls, Registered, Jobs
<1>3. /\ stop' \in [pc: {"none", "cancel", "wait", "done", "expired"}, cancels: SUBSET Jobs]
      /\ trouble' \in 0..MaxTrouble
  <2>1. CASE StopLock
    BY <1>2, <2>1 DEF StopLock, Cancels, IInv, Types
  <2>2. CASE StopCancel
    BY <2>2 DEF StopCancel, IInv, Types
  <2>3. CASE StopDone
    BY <2>3 DEF StopDone, IInv, Types
  <2>4. CASE StopExpires
    BY <2>4, SpendFields DEF StopExpires, IInv, Types
  <2> QED
    BY <2>1, <2>2, <2>3, <2>4
<1>4. /\ reasons' \in [Jobs -> Reasons \ {"provider_canceled"}]
      /\ \A j \in Jobs : reasons[j] # "none" => reasons'[j] # "none"
      /\ canceled' \subseteq Jobs /\ canceled \subseteq canceled'
      /\ \A j \in (canceled' \cup stop'.cancels) \ (canceled \cup stop.cancels) :
           j \in running /\ reasons'[j] # "none"
  <2>1. CASE StopLock
    BY <1>2, <2>1 DEF StopLock, Cancels, Reasons
  <2>2. CASE StopCancel
    BY <1>2, <2>2 DEF StopCancel
  <2>3. CASE StopDone \/ StopExpires
    BY <1>2, <2>3 DEF StopDone, StopExpires, schedulerVars, IInv, Types
  <2> QED
    BY <2>1, <2>2, <2>3
<1>5. Types'
  BY <1>1, <1>3, <1>4 DEF IInv, Types
<1>6. Registered' /\ Spawning' /\ Follows' /\ Told'
  BY <1>1 DEF IInv, Registered, Spawning, Follows, Told
<1>7. Obeyed'
  BY <1>1, <1>4 DEF IInv, Obeyed
<1>8. ReasonFirst'
  BY <1>1, <1>2, <1>4 DEF IInv, ReasonFirst
<1>9. Drained'
  <2>1. CASE StopDone
    <3>1. \A j \in Jobs : Counted(j) = {}
      BY <2>1 DEF StopDone
    <3>2. \A j \in Jobs : worker[j].pc \in {"none", "gone"}
      BY <3>1 DEF Counted
    <3> QED
      BY <1>1, <1>2, <3>2 DEF IInv, Registered, Drained
  <2>2. CASE StopLock \/ StopCancel \/ StopExpires
    <3>1. stop'.pc # "done"
      BY <2>2 DEF StopLock, StopCancel, StopExpires, IInv, Types
    <3> QED
      BY <3>1 DEF Drained
  <2> QED
    BY <2>1, <2>2
<1> QED
  BY <1>5, <1>6, <1>7, <1>8, <1>9 DEF IInv

-----------------------------------------------------------------------------
\* The inductive step, one case per group of actions.
LEMMA NextKeeps == IInv /\ [Next]_vars => IInv'
<1> SUFFICES ASSUME IInv, [Next]_vars PROVE IInv'
  OBVIOUS
<1>1. ASSUME NEW c \in Callers, Issue(c) \/ Continue(c) PROVE IInv'
  BY <1>1, SpawnKeeps, BeginKeeps, CreateKeeps, ContinueKeeps, CloseKeeps
     DEF Issue, Continue
<1>2. ASSUME NEW j \in Jobs, Execute(j) \/ Provider(j) PROVE IInv'
  BY <1>2, UpdateKeeps, ProviderKeeps, PublishKeeps, RemoveKeeps DEF Execute, Provider
<1>3. CASE Stopping
  BY <1>3, StopKeeps DEF Stopping
<1>4. CASE Failure
  BY <1>4, CreateKeeps, ContinueKeeps, FailureKeeps, StopKeeps DEF Failure
<1>5. CASE UNCHANGED vars
  <2> USE <1>5 DEF vars, storeVars, mailVars, schedulerVars
  <2>1. Types' /\ Registered' /\ Spawning' /\ Follows'
    BY DEF IInv, Types, Registered, Spawning, Follows
  <2>2. ReasonFirst' /\ Obeyed' /\ Told' /\ Drained'
    BY DEF IInv, ReasonFirst, Obeyed, Told, Drained
  <2> QED
    BY <2>1, <2>2 DEF IInv
<1> QED
  BY <1>1, <1>2, <1>3, <1>4, <1>5 DEF Next

\* The Scheduler's inductive invariant.
THEOREM Invariance == Spec => []IInv
BY InitInv, NextKeeps, PTL DEF Spec

\* Once stop has answered, no goroutine of a Job is left and none can come: the
\* WaitGroup counted every registration made before the Scheduler was closed.
THEOREM StopLeavesNothing == Spec => []StopDrains
<1>1. IInv => StopDrains
  <2> SUFFICES ASSUME IInv, stop.pc = "done" PROVE StopDrains
    BY DEF StopDrains
  <2>1. running = {} /\ sequence \in 0..MaxJobs
    BY DEF IInv, Drained, Types
  <2>2. \A j \in Jobs : j <= sequence => worker[j].pc = "gone"
    BY <2>1 DEF IInv, Registered, Jobs
  <2>3. \A c \in Callers : caller[c].pc # "create"
    <3> SUFFICES ASSUME NEW c \in Callers, caller[c].pc = "create" PROVE FALSE
      OBVIOUS
    <3>1. caller[c].job \in Jobs
      BY DEF IInv, Types, Calls
    <3>2. caller[c].job \in running
      BY <3>1 DEF IInv, Spawning, Registered
    <3> QED
      BY <2>1, <3>2
  <2> QED
    BY <2>1, <2>2, <2>3, WorkflowAssumption DEF StopDrains, Jobs
<1> QED
  BY <1>1, Invariance, PTL

\* The parent is told once, and the truth, of each Job, and a Job that heeded a
\* cancellation names whoever canceled it.
THEOREM ParentToldTruth == Spec => []ResultsTrue
<1>1. IInv => ResultsTrue
  <2> SUFFICES ASSUME IInv PROVE ResultsTrue
    OBVIOUS
  <2>1. \A j \in Jobs : jobs[j].version \in 0..3
    BY DEF IInv, Types, JobStates
  <2>2. running \subseteq 1..sequence /\ canceled \subseteq 1..sequence
    <3>1. /\ \A j \in Jobs : j \in Nat /\ j >= 1
          /\ sequence \in Nat /\ running \subseteq Jobs /\ canceled \subseteq Jobs
      BY WorkflowAssumption DEF IInv, Types, Jobs
    <3>2. \A j \in running : j <= sequence
      BY <3>1 DEF IInv, Registered
    <3>3. \A j \in canceled : j <= sequence
      BY DEF IInv, ReasonFirst
    <3> QED
      BY <3>1, <3>2, <3>3
  <2>3. \A c \in Callers : caller[c].job \in Jobs
    BY DEF IInv, Types, Calls
  <2>4. TypeOK
    BY <2>1, <2>2, <2>3 DEF IInv, Types, Follows, TypeOK
  <2> QED
    BY <2>4 DEF ResultsTrue, IInv, Told, Obeyed
<1> QED
  BY <1>1, Invariance, PTL
=============================================================================
