---------------------------- MODULE RuntimeRegistry ----------------------------
(***************************************************************************)
(* The process-local registry of Session Runtimes (standardagent/runtime   *)
(* .go, runtime_lifecycle.go), for one SessionID: Gateway clients resume   *)
(* and close the Session concurrently, lose their connection, Runtimes     *)
(* fail closed, and the application stops.                                 *)
(*                                                                         *)
(* A Runtime is abstracted to its lifecycle.  It can commit to its Session *)
(* from the moment it exists until it is closed.  An operation of a client *)
(* is a sequence of steps; the registry's mutex makes one step of each     *)
(* critical section.                                                       *)
(***************************************************************************)
EXTENDS Naturals, FiniteSets

CONSTANTS
  Clients, Runtimes,
  Events,       \* which of "close", "disconnect", "fail" and "stop" happen
  MaxOps,       \* bound on the operations clients issue
  None

ASSUME RegistryAssumption ==
  /\ None \notin Clients \cup Runtimes /\ MaxOps \in Nat
  /\ Events \subseteq {"close", "disconnect", "fail", "stop"}

VARIABLES
  app,      \* applicationRuntime: "running", then the phases of stop
  taken,    \* the Runtime closeAll took from the registry
  entry,    \* registry.entries[id]
  flight,   \* registry.inflight[id]: a creation by a client or a tombstone
  rts,      \* the Runtimes; used when some Resume has returned it
  op,       \* the operation each client is executing
  issued    \* how many operations clients have issued

vars == <<app, taken, entry, flight, rts, op, issued>>

NoFlight == [kind |-> "none", of |-> None]

Idle == [kind |-> "none", pc |-> "idle", rt |-> None, canceled |-> FALSE]

Init ==
  /\ app = "running" /\ taken = None /\ entry = None /\ flight = NoFlight
  /\ rts = [i \in Runtimes |-> [state |-> "none", opened |-> "no", used |-> FALSE]]
  /\ op = [c \in Clients |-> Idle]
  /\ issued = 0

Alive(i) == rts[i].state \in {"opening", "ready", "closing"}

At(c, kind, pc) == op[c].kind = kind /\ op[c].pc = pc

Step(c, pc) == op' = [op EXCEPT ![c].pc = pc]

Return(c) == op' = [op EXCEPT ![c] = Idle]

\* A flight ends: everyone who waited for it looks again, or returns its error.
\* Who is canceled too returns; a cancellation of the creator concerns nobody
\* else.
Woken(o, failed, cancellation) ==
  [c \in Clients |->
     IF o[c].kind = "resume" /\ o[c].pc = "wait"
     THEN IF failed /\ (~cancellation \/ o[c].canceled) THEN Idle
          ELSE [o[c] EXCEPT !.pc = "lookup"]
     ELSE o[c]]

\* acquire: the application is running and the client has nothing else to do.
Issue(c, kind, pc) ==
  /\ app = "running" /\ op[c] = Idle /\ issued < MaxOps
  /\ op' = [op EXCEPT ![c].kind = kind, ![c].pc = pc]
  /\ issued' = issued + 1
  /\ UNCHANGED <<app, taken, entry, flight, rts>>

\* runtime.close and startCloseLocked, on a Runtime whose opening is over.
StartClose(i) ==
  rts' = [rts EXCEPT ![i].state = IF @ \in {"opening", "ready"} THEN "closing" ELSE @]

-----------------------------------------------------------------------------
(* coordinator.resume                                                      *)

Resume(c) == Issue(c, "resume", "lookup")

\* Mutant: getOrCreate does not look for a flight.
LookupBlind(c) ==
  /\ At(c, "resume", "lookup")
  /\ \/ /\ entry # None
        /\ op' = [op EXCEPT ![c].pc = "open", ![c].rt = entry]
        /\ UNCHANGED flight
     \/ /\ entry = None
        /\ flight' = [kind |-> "create", of |-> c] /\ Step(c, "create")
  /\ UNCHANGED <<app, taken, entry, rts, issued>>

\* getOrCreate: the registered Runtime, the running flight, or a new flight.
Lookup(c) ==
  /\ At(c, "resume", "lookup")
  /\ \/ /\ entry # None
        /\ op' = [op EXCEPT ![c].pc = "open", ![c].rt = entry]
        /\ UNCHANGED flight
     \/ entry = None /\ flight # NoFlight /\ Step(c, "wait") /\ UNCHANGED flight
     \/ /\ entry = None /\ flight = NoFlight
        /\ flight' = [kind |-> "create", of |-> c] /\ Step(c, "create")
  /\ UNCHANGED <<app, taken, entry, rts, issued>>

WaitCanceled(c) ==
  /\ At(c, "resume", "wait") /\ op[c].canceled
  /\ Return(c)
  /\ UNCHANGED <<app, taken, entry, flight, rts, issued>>

\* manager.Resume (Store.Recover) and newRuntimeInstance.
Create(c, i) ==
  /\ At(c, "resume", "create") /\ rts[i].state = "none"
  /\ rts' = [rts EXCEPT ![i].state = "opening"]
  /\ op' = [op EXCEPT ![c].pc = "created", ![c].rt = i]
  /\ UNCHANGED <<app, taken, entry, flight, issued>>

CreateFails(c) ==
  /\ At(c, "resume", "create")
  /\ flight' = NoFlight
  /\ op' = Woken([op EXCEPT ![c] = Idle], TRUE, op[c].canceled)
  /\ UNCHANGED <<app, taken, entry, rts, issued>>

\* The context is checked once more before the Runtime is handed out.
CheckContext(c) ==
  /\ At(c, "resume", "created")
  /\ IF op[c].canceled
     THEN /\ rts' = [rts EXCEPT ![op[c].rt].state = "closing", ![op[c].rt].opened = "err"]
          /\ Step(c, "abort")
     ELSE Step(c, "register") /\ UNCHANGED rts
  /\ UNCHANGED <<app, taken, entry, flight, issued>>

Aborted(c) ==
  /\ At(c, "resume", "abort") /\ rts[op[c].rt].state = "closed"
  /\ flight' = NoFlight
  /\ op' = Woken([op EXCEPT ![c] = Idle], TRUE, TRUE)
  /\ UNCHANGED <<app, taken, entry, rts, issued>>

Register(c) ==
  /\ At(c, "resume", "register")
  /\ entry' = op[c].rt /\ flight' = NoFlight
  /\ op' = Woken([op EXCEPT ![c].pc = "open"], FALSE, FALSE)
  /\ UNCHANGED <<app, taken, rts, issued>>

\* runtime.open: the body runs once, whoever comes first, and may fail.
OpenBody(c, ok) ==
  LET i == op[c].rt
  IN  /\ At(c, "resume", "open") /\ rts[i].opened = "no"
      /\ rts' = [rts EXCEPT ![i].opened = IF ok THEN "ok" ELSE "err",
                            ![i].state = IF ok THEN "ready" ELSE @]
      /\ UNCHANGED <<app, taken, entry, flight, op, issued>>

\* awaitOpen chooses between the opening's result and a canceled context.
Opened(c) ==
  /\ At(c, "resume", "open") /\ rts[op[c].rt].opened = "ok"
  /\ rts' = [rts EXCEPT ![op[c].rt].used = TRUE]
  /\ Return(c)
  /\ UNCHANGED <<app, taken, entry, flight, issued>>

\* Otherwise resume closes the Runtime, waits for it and discards it.
OpenRefused(c) ==
  LET i == op[c].rt
  IN  /\ At(c, "resume", "open") /\ rts[i].opened # "no"
      /\ rts[i].opened = "err" \/ op[c].canceled
      /\ StartClose(i) /\ Step(c, "teardown")
      /\ UNCHANGED <<app, taken, entry, flight, issued>>

Discard(c) ==
  /\ At(c, "resume", "teardown") /\ rts[op[c].rt].state = "closed"
  /\ entry' = IF entry = op[c].rt THEN None ELSE entry
  /\ Return(c)
  /\ UNCHANGED <<app, taken, flight, rts, issued>>

ResumeStep(c) ==
  \/ Lookup(c) \/ WaitCanceled(c) \/ (\E i \in Runtimes : Create(c, i))
  \/ CreateFails(c) \/ CheckContext(c) \/ Aborted(c) \/ Register(c)
  \/ (\E ok \in BOOLEAN : OpenBody(c, ok)) \/ Opened(c) \/ OpenRefused(c) \/ Discard(c)

-----------------------------------------------------------------------------
(* coordinator.close                                                       *)

Close(c) == "close" \in Events /\ Issue(c, "close", "wait")

\* registry.wait: the registered Runtime, or nothing at all.
Find(c) ==
  /\ At(c, "close", "wait")
  /\ \/ /\ entry # None
        /\ op' = [op EXCEPT ![c].pc = "open", ![c].rt = entry]
     \/ entry = None /\ (flight = NoFlight \/ op[c].canceled) /\ Return(c)
  /\ UNCHANGED <<app, taken, entry, flight, rts, issued>>

\* awaitOpen, then ensureOpenLocked and startCloseLocked in beginClose.
BeginClose(c) ==
  LET i == op[c].rt
  IN  /\ At(c, "close", "open")
      /\ \/ rts[i].opened = "ok" /\ rts[i].state = "ready" /\ StartClose(i) /\ Step(c, "mark")
         \/ /\ rts[i].opened = "ok" /\ rts[i].state # "ready"
            /\ Return(c) /\ UNCHANGED rts
         \/ (rts[i].opened = "err" \/ op[c].canceled) /\ Return(c) /\ UNCHANGED rts
      /\ UNCHANGED <<app, taken, entry, flight, issued>>

\* Mutant: no tombstone keeps the Session's place while the Runtime closes.
MarkClosingUnmarked(c) ==
  /\ At(c, "close", "mark")
  /\ \/ entry = op[c].rt /\ entry' = None /\ Step(c, "done")
     \/ entry # op[c].rt /\ Return(c) /\ UNCHANGED entry
  /\ UNCHANGED <<app, taken, rts, flight, issued>>

MarkClosing(c) ==
  /\ At(c, "close", "mark")
  /\ \/ /\ entry = op[c].rt /\ flight = NoFlight
        /\ entry' = None /\ flight' = [kind |-> "close", of |-> op[c].rt]
        /\ Step(c, "done")
     \/ ~(entry = op[c].rt /\ flight = NoFlight) /\ Return(c) /\ UNCHANGED <<entry, flight>>
  /\ UNCHANGED <<app, taken, rts, issued>>

CloseDone(c) ==
  /\ At(c, "close", "done")
  /\ rts[op[c].rt].state = "closed" \/ op[c].canceled
  /\ Return(c)
  /\ UNCHANGED <<app, taken, entry, flight, rts, issued>>

CloseStep(c) == Find(c) \/ BeginClose(c) \/ MarkClosing(c) \/ CloseDone(c)

\* Mutant: the tombstone is never removed.
RemoveTombstoneNever == FALSE /\ UNCHANGED vars

\* The goroutine that markClosing starts.
RemoveTombstone ==
  /\ flight.kind = "close" /\ rts[flight.of].state = "closed"
  /\ flight' = NoFlight /\ op' = Woken(op, FALSE, FALSE)
  /\ UNCHANGED <<app, taken, entry, rts, issued>>

-----------------------------------------------------------------------------
(* Runtimes, connections and the end of the application.                   *)

FinishClose(i) ==
  /\ rts[i].state = "closing"
  /\ rts' = [rts EXCEPT ![i].state = "closed"]
  /\ UNCHANGED <<app, taken, entry, flight, op, issued>>

\* recoverAfterRunFailureLocked fails the Runtime closed.
FailClosed(i) ==
  /\ "fail" \in Events /\ rts[i].state = "ready"
  /\ rts' = [rts EXCEPT ![i].state = "closed"]
  /\ UNCHANGED <<app, taken, entry, flight, op, issued>>

Disconnect(c) ==
  /\ "disconnect" \in Events /\ op[c] # Idle
  /\ op' = [op EXCEPT ![c].canceled = TRUE]
  /\ UNCHANGED <<app, taken, entry, flight, rts, issued>>

\* stop cancels the operations' lifetime; context.AfterFunc delivers that to
\* each operation in a goroutine of its own.
StopBegin ==
  /\ "stop" \in Events /\ app = "running"
  /\ app' = "stopping"
  /\ UNCHANGED <<taken, entry, flight, rts, op, issued>>

LifetimeOver(c) ==
  /\ app # "running" /\ op[c] # Idle /\ ~op[c].canceled
  /\ op' = [op EXCEPT ![c].canceled = TRUE]
  /\ UNCHANGED <<app, taken, entry, flight, rts, issued>>

\* closeAll empties the registry, then closes what it found there.
CloseAll ==
  /\ app = "stopping"
  /\ app' = "closing" /\ taken' = entry /\ entry' = None
  /\ UNCHANGED <<flight, rts, op, issued>>

CloseTaken ==
  /\ app = "closing" /\ taken # None /\ rts[taken].opened # "no"
  /\ rts[taken].state \in {"opening", "ready"}
  /\ StartClose(taken)
  /\ UNCHANGED <<app, taken, entry, flight, op, issued>>

CloseAllDone ==
  /\ app = "closing" /\ (taken # None => rts[taken].state = "closed")
  /\ app' = "draining"
  /\ UNCHANGED <<taken, entry, flight, rts, op, issued>>

\* active.Wait and finishStop.
Drained ==
  /\ app = "draining" /\ \A c \in Clients : op[c] = Idle
  /\ app' = "stopped"
  /\ UNCHANGED <<taken, entry, flight, rts, op, issued>>

StopStep == CloseAll \/ CloseTaken \/ CloseAllDone \/ Drained

Next ==
  \/ \E c \in Clients : Resume(c) \/ ResumeStep(c) \/ Close(c) \/ CloseStep(c)
                          \/ Disconnect(c) \/ LifetimeOver(c)
  \/ \E i \in Runtimes : FinishClose(i) \/ FailClosed(i)
  \/ RemoveTombstone \/ StopBegin \/ StopStep

Spec == Init /\ [][Next]_vars

\* Every goroutine that can run does; clients, failures and stop are free.
Fairness ==
  /\ \A c \in Clients : WF_vars(ResumeStep(c) \/ CloseStep(c)) /\ WF_vars(LifetimeOver(c))
  /\ \A i \in Runtimes : WF_vars(FinishClose(i))
  /\ WF_vars(RemoveTombstone) /\ WF_vars(StopStep)

FairSpec == Spec /\ Fairness

-----------------------------------------------------------------------------
(* Properties.                                                             *)

Instances ==
  [Runtimes -> [state: {"none", "opening", "ready", "closing", "closed"},
                opened: {"no", "ok", "err"}, used: BOOLEAN]]

Operations ==
  [Clients -> [kind: {"none", "resume", "close"},
               pc: {"idle", "lookup", "wait", "create", "created", "register", "abort",
                    "open", "teardown", "mark", "done"},
               rt: Runtimes \cup {None}, canceled: BOOLEAN]]

TypeOK ==
  /\ app \in {"running", "stopping", "closing", "draining", "stopped"} /\ issued \in Nat
  /\ {taken, entry} \subseteq Runtimes \cup {None}
  /\ flight \in [kind: {"none", "create", "close"}, of: Clients \cup Runtimes \cup {None}]
  /\ rts \in Instances /\ op \in Operations

\* The single-flight promise of getOrCreate and markClosing: until the
\* application stops, a Session never has two Runtimes that can commit, so
\* Recover never runs under a Runtime.
OneRuntime ==
  app = "running" => \A i, j \in Runtimes : Alive(i) /\ Alive(j) => i = j

\* Until the application stops, a Runtime that clients can use is the
\* registered one: none is left running where no Close can reach it.
ReadyIsReachable ==
  app = "running" => \A i \in Runtimes : rts[i].state = "ready" => entry = i

\* Every operation returns, whoever it waits for: no client waits for ever on
\* a flight, a tombstone, an opening or a close, and a stop that has begun
\* completes.
OperationsReturn ==
  /\ \A c \in Clients : (op[c] # Idle) ~> (op[c] = Idle)
  /\ (app = "stopping") ~> (app = "stopped")

-----------------------------------------------------------------------------
(* What the documentation says and the code does not do (see README).      *)

\* A Session has one Runtime at a time, also while the application stops:
\* closeAll lets no new one begin while the old one can still commit.
OneRuntimeToTheEnd == \A i, j \in Runtimes : Alive(i) /\ Alive(j) => i = j

\* A Runtime that some client is using is closed only by a Close or by the end
\* of the application: another client that disconnects does not end its Run.
DisconnectIsHarmless ==
  [][\A i \in Runtimes :
       rts[i].state = "ready" /\ rts[i].used /\ rts'[i].state = "closing" =>
       app # "running" \/ \E c \in Clients : At(c, "close", "open") /\ op[c].rt = i]_vars

\* Resume of a Session whose Runtime has failed closed obtains a new one.
ResumeObtainsFresh ==
  [][\A c \in Clients :
       At(c, "resume", "lookup") /\ op'[c].pc = "open" => Alive(op'[c].rt)]_vars
=============================================================================
