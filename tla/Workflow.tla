------------------------------ MODULE Workflow ------------------------------
(***************************************************************************)
(* The reference workflow Scheduler with the in-memory JobStore and        *)
(* Mailbox (workflow/scheduler.go, memory.go, wait.go): callers spawn      *)
(* Jobs, wait for them, send to them and close them; each Job is executed  *)
(* by a goroutine that runs an AgentProvider; the application stops.       *)
(*                                                                         *)
(* A caller's operation and a Job's goroutine are sequences of steps, one  *)
(* per critical section of the Scheduler's, the JobStore's or the          *)
(* Mailbox's mutex.  A wait holds the channel it found; the channels of a  *)
(* Job and of an inbox are numbered by how often they were replaced.       *)
(* A JobStore or Mailbox installed in the place of the in-memory ones may  *)
(* answer with an error.                                                   *)
(***************************************************************************)
EXTENDS Integers, Sequences, FiniteSets

CONSTANTS
    Callers,
    MaxJobs,        \* bound on the Jobs spawned
    MaxOps,         \* bound on the callers' operations
    MaxSends,       \* bound on the messages sent to Jobs
    MaxTrouble      \* bound on failing stores and on stops that time out

ASSUME WorkflowAssumption ==
    MaxJobs \in Nat \ {0} /\ {MaxOps, MaxSends, MaxTrouble} \subseteq Nat

VARIABLES
    jobs,           \* MemoryJobStore.jobs
    changed,        \* MemoryJobStore.changed: how often each was closed
    results,        \* messages to the parent Session, in order
    inbox,          \* messages to each Job
    posted,         \* MemoryMailbox.changed of each Job's address
    sequence,       \* Jobs spawned
    running,        \* referenceScheduler.running
    reasons,        \* referenceScheduler.cancelReasons
    canceled,       \* Jobs whose context is canceled
    worker,         \* the goroutine of each Job
    caller,         \* the operation of each caller
    stop,           \* the application's stop
    issued, trouble

schedulerVars == <<sequence, running, reasons, canceled>>
storeVars == <<jobs, changed>>
mailVars == <<results, inbox, posted>>
vars == <<storeVars, mailVars, schedulerVars, worker, caller, stop, issued, trouble>>

Jobs == 1..MaxJobs
Terminal == {"completed", "failed", "canceled"}
Outcomes == Terminal

NoJob == [status |-> "none", version |-> 0, reason |-> "none"]
NoWorker == [pc |-> "none", result |-> "none", obeyed |-> FALSE, read |-> 0, chan |-> 0]
NoCall == [pc |-> "idle", kind |-> "none", job |-> 1, after |-> 0, chan |-> 0]
NoStop == [pc |-> "none", cancels |-> {}]

Init ==
    /\ jobs = [j \in Jobs |-> NoJob]
    /\ changed = [j \in Jobs |-> 0]
    /\ results = <<>>
    /\ inbox = [j \in Jobs |-> 0]
    /\ posted = [j \in Jobs |-> 0]
    /\ sequence = 0
    /\ running = {}
    /\ reasons = [j \in Jobs |-> "none"]
    /\ canceled = {}
    /\ worker = [j \in Jobs |-> NoWorker]
    /\ caller = [c \in Callers |-> NoCall]
    /\ stop = NoStop
    /\ issued = 0
    /\ trouble = 0

Closed == stop.pc # "none"
Spend == trouble < MaxTrouble /\ trouble' = trouble + 1
Ends(j) == jobs[j].status \in Terminal
-----------------------------------------------------------------------------
(* The JobStore.                                                           *)

\* A write that wakes nobody.
StoreSilently(j, job) == jobs' = [jobs EXCEPT ![j] = job] /\ UNCHANGED changed

\* Create and Update: the Job is stored and those who wait for it are woken.
Store(j, job) ==
    /\ jobs' = [jobs EXCEPT ![j] = job]
    /\ changed' = [changed EXCEPT ![j] = @ + 1]

ValidTransition(from, to) ==
    \/ from = "queued" /\ to \in {"running", "canceled"}
    \/ from = "running" /\ to \in Terminal

\* MemoryJobStore.Update.  version is the one the caller read.  That Job.Validate
\* accepts the result is part of TypeOK.
Update(j, version, status, reason) ==
    /\ jobs[j].version = version
    /\ ValidTransition(jobs[j].status, status)
    /\ Store(j, [status |-> status, version |-> version + 1, reason |-> reason])

\* MemoryJobStore.Wait returns.
Newer(j, after) == jobs[j].version > after \/ Ends(j)
-----------------------------------------------------------------------------
(* Spawn, in a caller.                                                     *)

Begin(c) ==
    /\ caller[c] = NoCall /\ issued < MaxOps
    /\ issued' = issued + 1

Return(c) == caller' = [caller EXCEPT ![c] = NoCall]

\* A registration that stop does not wait for.
CountedLate(j) == {}

\* The goroutines stop waits for: WaitGroup.Add is called before the Job exists.
Counted(j) ==
    IF worker[j].pc \notin {"none", "gone"} THEN {j} ELSE {}

SpawnRegister(c) ==
    /\ Begin(c)
    /\ ~Closed /\ sequence < MaxJobs
    /\ sequence' = sequence + 1
    /\ running' = running \cup {sequence'}
    /\ worker' = [worker EXCEPT ![sequence'].pc = "registered"]
    /\ caller' = [caller EXCEPT ![c] = [NoCall EXCEPT !.pc = "create", !.job = sequence']]
    /\ UNCHANGED <<storeVars, mailVars, reasons, canceled, stop, trouble>>

Create(c) ==
    LET j == caller[c].job IN
    /\ caller[c].pc = "create"
    /\ Store(j, [status |-> "queued", version |-> 1, reason |-> "none"])
    /\ worker' = [worker EXCEPT ![j].pc = "load"]
    /\ Return(c)
    /\ UNCHANGED <<mailVars, schedulerVars, stop, issued, trouble>>

\* removeRunning
Remove(j) ==
    /\ running' = running \ {j}
    /\ reasons' = [reasons EXCEPT ![j] = "none"]

CreateFails(c) ==
    LET j == caller[c].job IN
    /\ caller[c].pc = "create" /\ Spend
    /\ canceled' = canceled \cup {j}
    /\ Remove(j)
    /\ worker' = [worker EXCEPT ![j].pc = "gone"]
    /\ Return(c)
    /\ UNCHANGED <<storeVars, mailVars, sequence, stop, issued>>
-----------------------------------------------------------------------------
(* execute, in the goroutine of a Job.                                     *)

At(j, pc) == worker[j].pc = pc
Goto(j, pc) == worker' = [worker EXCEPT ![j].pc = pc]

\* Get, and the update to running.
Run(j) ==
    /\ At(j, "load")
    /\ Update(j, jobs[j].version, "running", "none")
    /\ Goto(j, "provider")
    /\ UNCHANGED <<mailVars, schedulerVars, caller, stop, issued, trouble>>

\* The provider asks for the messages after the last one it read and waits if
\* there is none (jobInbox.Receive, MemoryMailbox.Wait).
Receive(j) ==
    /\ At(j, "provider")
    /\ \/ /\ inbox[j] > worker[j].read
          /\ worker' = [worker EXCEPT ![j].read = inbox[j]]
       \/ /\ inbox[j] = worker[j].read
          /\ worker' = [worker EXCEPT ![j].pc = "receiving", ![j].chan = posted[j]]
    /\ UNCHANGED <<storeVars, mailVars, schedulerVars, caller, stop, issued, trouble>>

Received(j) ==
    /\ At(j, "receiving")
    /\ posted[j] > worker[j].chan
    /\ worker' = [worker EXCEPT ![j].pc = "provider", ![j].read = inbox[j], ![j].chan = 0]
    /\ UNCHANGED <<storeVars, mailVars, schedulerVars, caller, stop, issued, trouble>>

\* The provider returns: with any outcome, or because its context is canceled.
ProviderReturns(j) ==
    /\ At(j, "provider")
    /\ \E outcome \in Outcomes :
         worker' = [worker EXCEPT ![j].pc = "finish", ![j].result = outcome,
                                  ![j].obeyed = outcome = "canceled" /\ j \in canceled]
    /\ UNCHANGED <<storeVars, mailVars, schedulerVars, caller, stop, issued, trouble>>

ProviderCanceled(j) ==
    /\ worker[j].pc \in {"provider", "receiving"}
    /\ j \in canceled
    /\ worker' = [worker EXCEPT ![j].pc = "finish", ![j].result = "canceled", ![j].obeyed = TRUE]
    /\ UNCHANGED <<storeVars, mailVars, schedulerVars, caller, stop, issued, trouble>>

\* The reason a canceled Job ends with: whoever canceled it left one.
TerminalReason(j, result) ==
    IF result # "canceled" THEN "none"
    ELSE IF reasons[j] = "none" THEN "provider_canceled" ELSE reasons[j]

\* The terminal update.  The reason is read under the Scheduler's mutex before
\* it; a reason that comes later changes nothing of it.
Finish(j) ==
    /\ At(j, "finish")
    /\ Update(j, jobs[j].version, worker[j].result, TerminalReason(j, worker[j].result))
    /\ Goto(j, "publish")
    /\ UNCHANGED <<mailVars, schedulerVars, caller, stop, issued, trouble>>

\* The parent's mailbox gets one message of the Job.
Publish(j) ==
    /\ At(j, "publish")
    /\ results' = Append(results, [from |-> j, body |-> worker[j].result])
    /\ Goto(j, "remove")
    /\ UNCHANGED <<storeVars, inbox, posted, schedulerVars, caller, stop, issued, trouble>>

PublishFails(j) ==
    /\ At(j, "publish") /\ Spend
    /\ Goto(j, "remove")
    /\ UNCHANGED <<storeVars, mailVars, schedulerVars, caller, stop, issued>>

\* A store that fails ends the goroutine and leaves the Job as it is.
UpdateFails(j) ==
    /\ worker[j].pc \in {"load", "finish"} /\ Spend
    /\ Goto(j, "remove")
    /\ UNCHANGED <<storeVars, mailVars, schedulerVars, caller, stop, issued>>

RemoveRunning(j) ==
    /\ At(j, "remove")
    /\ Remove(j)
    /\ Goto(j, "gone")
    /\ UNCHANGED <<storeVars, mailVars, sequence, canceled, caller, stop, issued, trouble>>
-----------------------------------------------------------------------------
(* Wait, Send and Close, in a caller.                                      *)

Known(j) == jobs[j] # NoJob

Call(c, kind, j, after, pc) ==
    caller' = [caller EXCEPT ![c] =
                 [pc |-> pc, kind |-> kind, job |-> j, after |-> after, chan |-> 0]]

\* WaitTerminal: Wait after the version the caller knows, until the Job ends.
BeginWait(c, j) ==
    /\ Begin(c) /\ Known(j)
    /\ Call(c, "wait", j, 0, "check")
    /\ UNCHANGED <<storeVars, mailVars, schedulerVars, worker, stop, trouble>>

\* Wait compares versions and takes the channel in one critical section.
CheckAgain(c) ==
    LET call == caller[c]
        j == call.job
    IN  /\ call.pc = "check"
        /\ IF Newer(j, call.after)
           THEN IF call.kind = "close" \/ Ends(j)
                THEN Return(c)
                ELSE caller' = [caller EXCEPT ![c].after = jobs[j].version]
           ELSE caller' = [caller EXCEPT ![c].pc = "wait", ![c].chan = changed[j]]
        /\ UNCHANGED <<storeVars, mailVars, schedulerVars, worker, stop, issued, trouble>>

Woken(c) ==
    /\ caller[c].pc = "wait"
    /\ changed[caller[c].job] > caller[c].chan
    /\ caller' = [caller EXCEPT ![c].pc = "check", ![c].chan = 0]
    /\ UNCHANGED <<storeVars, mailVars, schedulerVars, worker, stop, issued, trouble>>

WaitCanceled(c) ==
    /\ caller[c].pc = "wait" /\ Spend
    /\ Return(c)
    /\ UNCHANGED <<storeVars, mailVars, schedulerVars, worker, stop, issued>>

\* Send reads the Job; it may end before the message is published.
BeginSend(c, j) ==
    /\ Begin(c) /\ Known(j)
    /\ ~Ends(j) /\ inbox[j] < MaxSends
    /\ Call(c, "send", j, 0, "send")
    /\ UNCHANGED <<storeVars, mailVars, schedulerVars, worker, stop, trouble>>

Post(j) ==
    /\ inbox' = [inbox EXCEPT ![j] = @ + 1]
    /\ posted' = [posted EXCEPT ![j] = @ + 1]

Send(c) ==
    /\ caller[c].pc = "send"
    /\ Post(caller[c].job)
    /\ Return(c)
    /\ UNCHANGED <<storeVars, results, schedulerVars, worker, stop, issued, trouble>>

\* Close: Get answers with the Job if it has ended.
BeginClose(c, j) ==
    /\ Begin(c) /\ Known(j)
    /\ ~Ends(j)
    /\ Call(c, "close", j, jobs[j].version, "mark")
    /\ UNCHANGED <<storeVars, mailVars, schedulerVars, worker, stop, trouble>>

\* A reason that is not there yet when the context is canceled.
MarkedLate(j) == reasons

\* The reason is recorded under the mutex, before the context is canceled.
Marked(j) == [reasons EXCEPT ![j] = "closed"]

\* A Job that is no longer registered is detached: Close fails.
MarkClose(c) ==
    LET j == caller[c].job IN
    /\ caller[c].pc = "mark"
    /\ IF j \in running
       THEN /\ reasons' = Marked(j)
            /\ caller' = [caller EXCEPT ![c].pc = "cancel"]
       ELSE Return(c) /\ UNCHANGED reasons
    /\ UNCHANGED <<storeVars, mailVars, sequence, running, canceled, worker, stop, issued, trouble>>

CancelClose(c) ==
    /\ caller[c].pc = "cancel"
    /\ canceled' = canceled \cup {caller[c].job}
    /\ caller' = [caller EXCEPT ![c].pc = "check"]
    /\ UNCHANGED <<storeVars, mailVars, sequence, running, reasons, worker, stop, issued, trouble>>
-----------------------------------------------------------------------------
(* The application stops the Scheduler.                                    *)

\* Every registered Job is canceled, one that is only being spawned too.
Cancels == running

StopLock ==
    /\ stop.pc \in {"none", "expired"}
    /\ reasons' = [j \in Jobs |-> IF j \in running THEN "scheduler_stopped" ELSE reasons[j]]
    /\ stop' = [pc |-> "cancel", cancels |-> Cancels]
    /\ UNCHANGED <<storeVars, mailVars, sequence, running, canceled, worker, caller, issued, trouble>>

StopCancel ==
    /\ stop.pc = "cancel"
    /\ canceled' = canceled \cup stop.cancels
    /\ stop' = [pc |-> "wait", cancels |-> {}]
    /\ UNCHANGED <<storeVars, mailVars, sequence, running, reasons, worker, caller, issued, trouble>>

\* The WaitGroup is empty.
StopDone ==
    /\ stop.pc = "wait"
    /\ UNION {Counted(j) : j \in Jobs} = {}
    /\ stop' = [stop EXCEPT !.pc = "done"]
    /\ UNCHANGED <<storeVars, mailVars, schedulerVars, worker, caller, issued, trouble>>

StopExpires ==
    /\ stop.pc = "wait" /\ Spend
    /\ stop' = [stop EXCEPT !.pc = "expired"]
    /\ UNCHANGED <<storeVars, mailVars, schedulerVars, worker, caller, issued>>
-----------------------------------------------------------------------------
Execute(j) == Run(j) \/ Received(j) \/ ProviderCanceled(j) \/ Finish(j) \/ Publish(j) \/ RemoveRunning(j)

Provider(j) == Receive(j) \/ ProviderReturns(j)

Continue(c) == Create(c) \/ CheckAgain(c) \/ Woken(c) \/ Send(c) \/ MarkClose(c) \/ CancelClose(c)

Issue(c) ==
    \/ SpawnRegister(c)
    \/ \E j \in Jobs : BeginWait(c, j) \/ BeginSend(c, j) \/ BeginClose(c, j)

Stopping == StopLock \/ StopCancel \/ StopDone

Failure ==
    \/ \E c \in Callers : CreateFails(c) \/ WaitCanceled(c)
    \/ \E j \in Jobs : UpdateFails(j) \/ PublishFails(j)
    \/ StopExpires

Next ==
    \/ \E c \in Callers : Issue(c) \/ Continue(c)
    \/ \E j \in Jobs : Execute(j) \/ Provider(j)
    \/ Stopping
    \/ Failure

Spec == Init /\ [][Next]_vars

(***************************************************************************)
(* Go schedules every goroutine that can run, and a provider heeds its     *)
(* context; it need not ever return by itself.  Callers and the            *)
(* application need not issue anything.                                    *)
(***************************************************************************)
Fairness ==
    /\ \A j \in Jobs : WF_vars(Execute(j))
    /\ \A c \in Callers : WF_vars(Continue(c))
    /\ WF_vars(StopCancel \/ StopDone)

FairSpec == Spec /\ Fairness
-----------------------------------------------------------------------------
TypeOK ==
    /\ \A j \in Jobs : /\ jobs[j].version \in 0..3
                       /\ (jobs[j].status = "canceled") = (jobs[j].reason # "none")
    /\ running \subseteq 1..sequence
    /\ sequence \in 0..MaxJobs
    /\ canceled \subseteq 1..sequence
    /\ \A c \in Callers : caller[c].job \in Jobs
    /\ stop.pc \in {"none", "cancel", "wait", "done", "expired"}
    /\ issued \in 0..MaxOps /\ trouble \in 0..MaxTrouble

(***************************************************************************)
(* Once stop has answered, no goroutine of a Job is left, none is spawned  *)
(* and no Job changes any more, even when a Spawn was under way when it    *)
(* began (WaitGroup.Add under the mutex that guards closed).               *)
(***************************************************************************)
StopDrains ==
    stop.pc = "done" => /\ running = {}
                        /\ \A j \in 1..sequence : worker[j].pc = "gone"
                        /\ \A c \in Callers : caller[c].pc # "create"

(***************************************************************************)
(* The parent's mailbox holds at most one result of a Job and it reports   *)
(* how the Job ended in the JobStore; and a Job that ended because its     *)
(* provider heeded a cancellation says who canceled it, the caller that    *)
(* closed it or the Scheduler that stopped, never the provider itself      *)
(* (execute, Close and stop, which record the reason before they cancel).  *)
(***************************************************************************)
ResultsTrue ==
    /\ TypeOK
    /\ \A i \in DOMAIN results :
         /\ jobs[results[i].from].status = results[i].body
         /\ \A k \in DOMAIN results : results[k].from = results[i].from => k = i
    /\ \A j \in Jobs :
         worker[j].obeyed /\ jobs[j].status = "canceled" => jobs[j].reason # "provider_canceled"

(***************************************************************************)
(* A caller that waits for a Job returns once the Job has ended, and a     *)
(* provider that waits for a message gets the one that is sent to it or is *)
(* canceled, however the wait interleaves with the update that it waits    *)
(* for (Wait takes the channel under the lock that Update signals under).  *)
(* A Job that is canceled ends and is reported to its parent, or was left  *)
(* behind by a store that failed; so a stop, which waits for the Jobs it   *)
(* canceled, answers, with an error only when its context expires.         *)
(***************************************************************************)
WaitsReturn ==
    /\ \A c \in Callers : (caller[c].pc # "idle" /\ Ends(caller[c].job)) ~> caller[c].pc = "idle"
    /\ \A j \in Jobs : (At(j, "receiving") /\ inbox[j] > worker[j].read) ~> ~At(j, "receiving")
    /\ \A j \in Jobs :
         (j \in canceled) ~>
             (At(j, "gone") /\ (trouble = 0 => Ends(j) /\ \E i \in DOMAIN results : results[i].from = j))
    /\ (stop.pc = "cancel") ~> (stop.pc \in {"done", "expired"})
=============================================================================
