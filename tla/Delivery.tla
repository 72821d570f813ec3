------------------------------ MODULE Delivery ------------------------------
(***************************************************************************)
(* What a Session Runtime tells the outside of its commits, and how the    *)
(* application stops: the event hub and its streams                        *)
(* (standardagent/event_stream.go), the commit observers                   *)
(* (runtime_hooks.go), the observation hub (observations.go), and the      *)
(* binding through which clients reach the Runtime (gateway_binding.go,    *)
(* gateway.go).                                                            *)
(*                                                                         *)
(* One Session.  A commit and what it publishes happen under the Runtime's *)
(* mutex and are one step; a client's call, a Recv, a Close, the workers   *)
(* of the observers and of the observation hub, the closing of the Runtime *)
(* and the stop of the application are sequences of steps.  A revision     *)
(* event is its revision; chunk and reset events, which the hub treats     *)
(* alike, are 0.  A stream has one receiver; changed says that the channel *)
(* it took last has been closed since.                                     *)
(***************************************************************************)
EXTENDS Integers, Sequences, FiniteSets

CONSTANTS
    Clients,
    BufferLimit,    \* eventStreamBufferLimit
    RecordLimit,    \* observationBufferLimit
    MaxRevision,    \* bound on the Session's revision
    MaxTemporary,   \* bound on chunk and reset events
    MaxTrouble      \* bound on failed commits, recoveries and timeouts

ASSUME DeliveryAssumption ==
    /\ {BufferLimit, RecordLimit, MaxRevision} \subseteq Nat \ {0}
    /\ {MaxTemporary, MaxTrouble} \subseteq Nat

VARIABLES
    revision,       \* the durable revision of the Session
    announced,      \* the revisions that commits announced, in order
    temporary,      \* chunk and reset events so far
    runtime,        \* how far the Session Runtime is in its life
    hub,            \* eventHub: closed, subscribers, and what close has left to do
    stream,         \* the runtimeEventStream of each client
    client,         \* what each client is doing
    removing,       \* clients whose Close has not reached the hub yet
    observer,       \* sessionCommitObserver and its worker
    records,        \* observationHub and its worker
    app,            \* the application: its binding and its stop
    trouble

session == <<revision, announced, temporary, runtime>>
events == <<hub, stream, removing>>
vars == <<session, events, client, observer, records, app, trouble>>

NoStream == [state |-> "none", overflow |-> FALSE, queue |-> <<>>, changed |-> FALSE]
NoCall == [pc |-> "idle", view |-> 0, known |-> 0]

Init ==
    /\ revision = 0
    /\ announced = <<>>
    /\ temporary = 0
    /\ runtime = "none"
    /\ hub = [closed |-> FALSE, subscribers |-> {}, left |-> {}]
    /\ stream = [c \in Clients |-> NoStream]
    /\ client = [c \in Clients |-> NoCall]
    /\ removing = {}
    /\ observer = [queue |-> <<>>, stopped |-> FALSE, worker |-> "none", taken |-> 0]
    /\ records = [queue |-> 0, closed |-> FALSE, worker |-> "idle", refused |-> FALSE]
    /\ app = [pc |-> "new", expired |-> FALSE, failed |-> FALSE]
    /\ trouble = 0

Spend == trouble < MaxTrouble /\ trouble' = trouble + 1
Live(c) == stream[c].state = "live"
-----------------------------------------------------------------------------
(* The event hub.                                                          *)

Full(queue) == Len(queue) >= BufferLimit

\* The queue without its oldest chunk or reset event.
Evicted(queue) ==
    LET first == CHOOSE i \in DOMAIN queue :
                    queue[i] = 0 /\ \A k \in 1..i - 1 : queue[k] # 0
    IN  SubSeq(queue, 1, first - 1) \o SubSeq(queue, first + 1, Len(queue))

Evictable(queue) == \E i \in DOMAIN queue : queue[i] = 0

Overflown(s) ==
    [state |-> "closed", overflow |-> TRUE, queue |-> <<>>, changed |-> TRUE]

\* An event that wakes nobody.
PushedSilently(s, queue, event) == [s EXCEPT !.queue = Append(queue, event)]

Pushed(s, queue, event) ==
    [s EXCEPT !.queue = Append(queue, event), !.changed = TRUE]

\* runtimeEventStream.enqueue: what becomes of stream s.
Enqueued(s, event) ==
    IF s.state # "live" THEN s
    ELSE IF ~Full(s.queue) THEN Pushed(s, s.queue, event)
    ELSE IF event = 0 THEN s
    ELSE IF Evictable(s.queue) THEN Pushed(s, Evicted(s.queue), event)
    ELSE Overflown(s)

\* eventHub.publish
PublishEvent(event) ==
    IF hub.closed THEN UNCHANGED <<hub, stream>>
    ELSE /\ stream' = [c \in Clients |->
                         IF c \in hub.subscribers THEN Enqueued(stream[c], event) ELSE stream[c]]
         /\ hub' = [hub EXCEPT !.subscribers = {c \in @ : stream'[c].state = "live"}]
-----------------------------------------------------------------------------
(* The commit observers and the observation hub.                           *)

\* sessionCommitObserver.publish: the notice is queued and the worker signalled.
Noticed(notice) ==
    IF observer.stopped THEN observer
    ELSE [observer EXCEPT !.queue = Append(@, notice),
                          !.worker = IF @ = "wait" THEN "check" ELSE @]

\* observationHub.publish: a full queue drops the record, a closed one refuses it.
Recorded ==
    IF records.closed THEN [records EXCEPT !.refused = TRUE]
    ELSE IF records.queue < RecordLimit THEN [records EXCEPT !.queue = @ + 1]
    ELSE records

\* run: the worker, signalled or back from the observers, takes a notice to
\* them, sleeps or ends.
ObserverStep ==
    /\ observer.worker \in {"check", "busy"}
    /\ observer' =
         IF observer.queue # <<>>
         THEN [observer EXCEPT !.worker = "busy", !.queue = Tail(@), !.taken = @ + 1]
         ELSE [observer EXCEPT !.worker = IF observer.stopped THEN "gone" ELSE "wait"]
    /\ UNCHANGED <<session, events, client, records, app, trouble>>

\* The worker of the observation hub takes a record to the sinks.
SinkTakes ==
    /\ records.worker \in {"idle", "busy"} /\ records.queue > 0
    /\ records' = [records EXCEPT !.worker = "busy", !.queue = @ - 1]
    /\ UNCHANGED <<session, events, client, observer, app, trouble>>

SinkReturns ==
    /\ records.worker = "busy" /\ records.queue = 0
    /\ records' = [records EXCEPT !.worker = "idle"]
    /\ UNCHANGED <<session, events, client, observer, app, trouble>>

SinkEnds ==
    /\ records.worker = "idle" /\ records.queue = 0 /\ records.closed
    /\ records' = [records EXCEPT !.worker = "done"]
    /\ UNCHANGED <<session, events, client, observer, app, trouble>>
-----------------------------------------------------------------------------
(* The Session Runtime.                                                    *)

OpenSession ==
    /\ runtime = "none" /\ app.pc = "bound"
    /\ runtime' = "open"
    /\ revision' = 1
    /\ observer' = [observer EXCEPT !.worker = "check"]
    /\ UNCHANGED <<announced, temporary, events, client, records, app, trouble>>

Working == runtime \in {"open", "closing"} /\ revision < MaxRevision

\* commitLockedAs, applied: the observers, the event hub and the sinks are told.
Commit ==
    /\ Working
    /\ revision' = revision + 1
    /\ announced' = Append(announced, revision')
    /\ observer' = Noticed(revision')
    /\ PublishEvent(revision')
    /\ records' = Recorded
    /\ UNCHANGED <<temporary, runtime, removing, client, app, trouble>>

\* The Store answers with an error for a commit that it applied, or a failed
\* Run is recovered by the Store: nobody is told of the new revision.
CommitUntold ==
    /\ Working /\ Spend
    /\ revision' = revision + 1
    /\ UNCHANGED <<announced, temporary, runtime, events, client, observer, records, app>>

Temporary ==
    /\ runtime \in {"open", "closing"} /\ temporary < MaxTemporary
    /\ temporary' = temporary + 1
    /\ PublishEvent(0)
    /\ UNCHANGED <<revision, announced, runtime, removing, client, observer, records, app, trouble>>

\* CloseSession; the application's stop does the same.
CloseSession ==
    /\ runtime = "open" /\ app.pc = "bound"
    /\ runtime' = "closing"
    /\ UNCHANGED <<revision, announced, temporary, events, client, observer, records, app, trouble>>

StoppedObserver ==
    [observer EXCEPT !.stopped = TRUE, !.queue = <<>>,
                     !.worker = IF @ = "wait" THEN "check" ELSE @]

\* The commit observers are stopped and the event hub is closed: its subscribers
\* are taken over under its mutex and then closed one after the other.
Silence ==
    /\ runtime' = "silent"
    /\ observer' = StoppedObserver
    /\ hub' = [closed |-> TRUE, subscribers |-> {}, left |-> hub.subscribers]
    /\ UNCHANGED <<revision, announced, temporary, stream, removing, client, records, app>>

\* finishClose, after the Run and the extensions have ended.
FinishClose ==
    /\ runtime = "closing"
    /\ Silence
    /\ UNCHANGED trouble

\* recoverAfterRunFailureLocked, when the Run's end cannot be verified.
FailClosed ==
    /\ runtime = "open" /\ Spend
    /\ Silence

ClosedStream(s) ==
    IF s.state = "live"
    THEN [s EXCEPT !.state = "closed", !.queue = <<>>, !.changed = TRUE]
    ELSE s

CloseFromHub(c) ==
    /\ c \in hub.left
    /\ stream' = [stream EXCEPT ![c] = ClosedStream(@)]
    /\ hub' = [hub EXCEPT !.left = @ \ {c}]
    /\ UNCHANGED <<session, removing, client, observer, records, app, trouble>>

\* The last trace of the Runtime is recorded and its closeDone is closed.
Closed ==
    /\ runtime = "silent" /\ hub.left = {}
    /\ runtime' = "closed"
    /\ records' = Recorded
    /\ UNCHANGED <<revision, announced, temporary, events, client, observer, app, trouble>>
-----------------------------------------------------------------------------
(* A client: View, Subscribe, Recv and Close.                              *)

At(c, pc) == client[c].pc = pc
Goto(c, pc) == client' = [client EXCEPT ![c].pc = pc]

\* View of an open Session.  It is routed as Subscribe is; that it may be
\* outdated is all that matters here.
View(c) ==
    /\ At(c, "idle") /\ app.pc = "bound" /\ runtime = "open"
    /\ stream[c].state = "none" /\ c \notin removing
    /\ client' = [client EXCEPT ![c].view = revision]
    /\ UNCHANGED <<session, events, observer, records, app, trouble>>

\* gatewayBinding.access: the target that the call goes to, even if the binding
\* is removed meanwhile.
Route(c) ==
    /\ At(c, "idle") /\ app.pc = "bound" /\ client[c].view # 0
    /\ Goto(c, "routed")
    /\ UNCHANGED <<session, events, observer, records, app, trouble>>

Started == app.pc \in {"started", "bound", "unbound"}

\* applicationRuntime.acquire
Acquire(c) ==
    /\ At(c, "routed")
    /\ Goto(c, IF Started THEN "admitted" ELSE "idle")
    /\ UNCHANGED <<session, events, observer, records, app, trouble>>

\* A Subscribe that trusts the client's revision.
CurrentTrusted(c) == TRUE

\* AfterRevision must be the revision of the Session.
Current(c) == client[c].view = revision

Subscribe(c) ==
    /\ At(c, "admitted")
    /\ IF runtime = "open" /\ Current(c)
       THEN /\ stream' = [stream EXCEPT ![c] = [NoStream EXCEPT !.state = "live"]]
            /\ hub' = [hub EXCEPT !.subscribers = @ \cup {c}]
            /\ client' = [client EXCEPT ![c] = [NoCall EXCEPT !.known = client[c].view]]
       ELSE /\ client' = [client EXCEPT ![c] = NoCall]
            /\ UNCHANGED <<stream, hub>>
    /\ UNCHANGED <<session, removing, observer, records, app, trouble>>

\* One look at the stream, under its mutex: an event, the end, or the channel to
\* wait on.
Look(c) ==
    LET s == stream[c] IN
    /\ IF s.queue # <<>>
       THEN /\ stream' = [stream EXCEPT ![c].queue = Tail(@)]
            /\ client' = [client EXCEPT ![c].pc = "idle",
                                        ![c].known = IF Head(s.queue) = 0 THEN @ ELSE Head(s.queue)]
       ELSE IF s.state = "closed"
            THEN /\ client' = [client EXCEPT ![c] = NoCall]
                 /\ stream' = [stream EXCEPT ![c] = NoStream]
            ELSE /\ Goto(c, "wait")
                 /\ stream' = [stream EXCEPT ![c].changed = FALSE]
    /\ UNCHANGED <<session, hub, removing, observer, records, app, trouble>>

Recv(c) == At(c, "idle") /\ stream[c].state # "none" /\ Look(c)

\* The channel that Recv waits on is closed; it looks again.
Woken(c) == At(c, "wait") /\ stream[c].changed /\ Look(c)

\* Close, also while a Recv waits; the hub is told after the stream's mutex is
\* released.
CloseStream(c) ==
    /\ Live(c)
    /\ stream' = [stream EXCEPT ![c] = ClosedStream(@)]
    /\ removing' = removing \cup {c}
    /\ UNCHANGED <<session, hub, client, observer, records, app, trouble>>

Remove(c) ==
    /\ c \in removing
    /\ hub' = [hub EXCEPT !.subscribers = @ \ {c}]
    /\ removing' = removing \ {c}
    /\ UNCHANGED <<session, stream, client, observer, records, app, trouble>>
-----------------------------------------------------------------------------
(* The application starts and stops.                                       *)

Phase(from, to) == app.pc = from /\ app' = [app EXCEPT !.pc = to]

\* runtimeModule.Start: the application Runtime first, then the binding.
Start ==
    /\ Phase("new", "started")
    /\ UNCHANGED <<session, events, client, observer, records, trouble>>

Bind ==
    /\ Phase("started", "bound")
    /\ UNCHANGED <<session, events, client, observer, records, trouble>>

\* runtimeModule.Stop
Unbind ==
    /\ Phase("bound", "unbound")
    /\ UNCHANGED <<session, events, client, observer, records, trouble>>

\* applicationRuntime.stop: no call is admitted any more.
\* registry.closeAll closes the Session's Runtime.
CloseAll ==
    /\ Phase("unbound", "closing")
    /\ runtime' = IF runtime = "open" THEN "closing" ELSE runtime
    /\ UNCHANGED <<revision, announced, temporary, events, client, observer, records, trouble>>

\* Records are stopped with the Runtime still at work.
AllClosedEarly == TRUE

AllClosed == runtime \in {"none", "closed"}

StopExpires ==
    /\ app.pc \notin {"new", "started", "bound", "stopped"} /\ ~app.expired /\ Spend
    /\ app' = [app EXCEPT !.expired = TRUE]
    /\ UNCHANGED <<session, events, client, observer, records>>

\* closeAll has waited, or given up waiting.
Drain ==
    /\ app.pc = "closing"
    /\ \/ AllClosed /\ app' = [app EXCEPT !.pc = "draining"]
       \/ app.expired /\ app' = [app EXCEPT !.pc = "draining", !.failed = TRUE]
    /\ UNCHANGED <<session, events, client, observer, records, trouble>>

Active == {c \in Clients : At(c, "admitted")}

RecordsClosed == [records EXCEPT !.closed = TRUE]

\* finishStop, when no call is active; after a timeout somebody else does it.
FinishStop ==
    /\ app.pc \in {"draining", "late"}
    /\ Active = {}
    /\ app' = [app EXCEPT !.pc = IF @ = "late" THEN "stopped" ELSE "finishing"]
    /\ records' = RecordsClosed
    /\ UNCHANGED <<session, events, client, observer, trouble>>

StopTimesOut ==
    /\ app.pc = "draining" /\ app.expired
    /\ app' = [app EXCEPT !.pc = "late", !.failed = TRUE]
    /\ UNCHANGED <<session, events, client, observer, records, trouble>>

\* observationHub.stop returns.
StopReturns ==
    /\ app.pc = "finishing"
    /\ \/ records.worker = "done" /\ app' = [app EXCEPT !.pc = "stopped"]
       \/ app.expired /\ app' = [app EXCEPT !.pc = "stopped", !.failed = TRUE]
    /\ UNCHANGED <<session, events, client, observer, records, trouble>>
-----------------------------------------------------------------------------
Closing == FinishClose \/ Closed
Sinks == SinkTakes \/ SinkReturns \/ SinkEnds
Proceed(c) == Acquire(c) \/ Subscribe(c) \/ Woken(c)
Stopping == CloseAll \/ Drain \/ FinishStop \/ StopReturns

Next ==
    \/ OpenSession \/ Commit \/ CommitUntold \/ Temporary \/ CloseSession \/ FailClosed
    \/ Closing \/ ObserverStep \/ Sinks
    \/ \E c \in Clients :
         View(c) \/ Route(c) \/ Proceed(c) \/ Recv(c) \/ CloseStream(c) \/ Remove(c) \/ CloseFromHub(c)
    \/ Start \/ Bind \/ Unbind \/ Stopping \/ StopExpires \/ StopTimesOut

Spec == Init /\ [][Next]_vars

(***************************************************************************)
(* Go schedules every goroutine that can run, a Run that is canceled ends, *)
(* and observers and sinks return from a call.  Clients need not call      *)
(* anything, and contexts need not expire.                                 *)
(***************************************************************************)
Fairness ==
    /\ WF_vars(Closing) /\ WF_vars(ObserverStep) /\ WF_vars(Sinks) /\ WF_vars(Stopping)
    /\ \A c \in Clients :
         WF_vars(Proceed(c)) /\ WF_vars(CloseFromHub(c)) /\ WF_vars(Remove(c))

FairSpec == Spec /\ Fairness
-----------------------------------------------------------------------------
\* The announced revisions that client c has not received.
Missing(c) == {announced[i] : i \in {k \in DOMAIN announced : announced[k] > client[c].known}}

\* The revision events of a queue, and that they stand in ascending order.
Revisions(queue) == {queue[i] : i \in DOMAIN queue} \ {0}

InOrder(queue) ==
    \A i, k \in DOMAIN queue :
        i < k /\ queue[i] # 0 /\ queue[k] # 0 => queue[i] < queue[k]

TypeOK ==
    /\ revision \in 0..MaxRevision
    /\ \A c \in Clients :
         /\ Len(stream[c].queue) <= BufferLimit
         /\ stream[c].state \in {"none", "live", "closed"}
         /\ client[c].pc \in {"idle", "routed", "admitted", "wait"}
    /\ hub.subscribers \subseteq Clients /\ hub.left \subseteq Clients
    /\ records.queue \in 0..RecordLimit
    /\ trouble \in 0..MaxTrouble

(***************************************************************************)
(* A live stream holds exactly the announced revisions that its client has *)
(* not received, in order: none is missed between View and Subscribe, none *)
(* dropped for want of room, none duplicated (subscribe, enqueue).  It is  *)
(* closed for being slow only when its client is behind by more revisions  *)
(* than its buffer holds, temporary output alone never does that.  And     *)
(* until it is stopped, the commit observers' worker has been given, or    *)
(* holds in its queue, every announced commit once and in order            *)
(* (sessionCommitObserver.publish, run).                                   *)
(***************************************************************************)
NoSilentGap ==
    /\ TypeOK
    /\ \A c \in Clients :
         /\ Live(c) => Revisions(stream[c].queue) = Missing(c) /\ InOrder(stream[c].queue)
         /\ stream[c].overflow => Cardinality(Missing(c)) > BufferLimit
    /\ ~observer.stopped =>
         observer.queue = SubSeq(announced, observer.taken + 1, Len(announced))

(***************************************************************************)
(* When the application's Stop has answered without an error, the Runtime  *)
(* is closed, no call is under way, no stream is live, and every record    *)
(* the Runtime published, its last trace too, was given to the sinks       *)
(* unless the queue was full (stop, finishStop, observationHub.stop).      *)
(***************************************************************************)
StopIsComplete ==
    app.pc = "stopped" /\ ~app.failed =>
        /\ runtime \in {"none", "closed"}
        /\ Active = {}
        /\ \A c \in Clients : ~Live(c)
        /\ records.worker = "done" /\ ~records.refused

(***************************************************************************)
(* Nobody waits for what has happened: a Recv that waits returns once      *)
(* there is an event or the stream is closed, whoever closed it; the       *)
(* goroutine of the commit observers ends once the Runtime is closed; and  *)
(* a Stop of the application answers, although nothing bounds its context  *)
(* (Recv and enqueue, sessionCommitObserver.run, applicationRuntime.stop). *)
(***************************************************************************)
RecvReturns ==
    /\ \A c \in Clients :
         (At(c, "wait") /\ (stream[c].queue # <<>> \/ ~Live(c))) ~> (At(c, "idle"))
    /\ (runtime = "closed") ~> (observer.worker = "gone")
    /\ (app.pc = "unbound") ~> (app.pc \in {"late", "stopped"})

-----------------------------------------------------------------------------
(* What the documentation says and the code does not do (see README).      *)

(***************************************************************************)
(* A subscriber that has received everything knows the Session's revision. *)
(***************************************************************************)
SubscribersConverge ==
    \A c \in Clients : Live(c) /\ stream[c].queue = <<>> => client[c].known = revision
=============================================================================
