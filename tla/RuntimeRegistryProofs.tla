------------------------- MODULE RuntimeRegistryProofs -------------------------
(***************************************************************************)
(* The registry's single-flight promise (OneRuntime, ReadyIsReachable) for *)
(* any number of clients, Runtimes and operations, up to the moment the    *)
(* application begins to stop: the run RuntimeRegistry_stop shows that     *)
(* closeAll breaks it.                                                     *)
(*                                                                         *)
(* OneRuntime is not inductive.  The invariant says where a live Runtime   *)
(* can be: registered, behind the tombstone of its own close, or in the    *)
(* hands of the one client whose flight is creating it; these exclude each *)
(* other.                                                                  *)
(***************************************************************************)
EXTENDS RuntimeRegistry, TLAPS

Steps == {"idle", "lookup", "wait", "create", "created", "register", "abort", "open",
          "teardown", "mark", "done"}

InstanceStates == {"none", "opening", "ready", "closing", "closed"}

\* The steps of resume between taking and ending a flight, and those of them
\* at which the flight's Runtime exists.
Creating(c) == op[c].kind = "resume" /\ op[c].pc \in {"create", "created", "register", "abort"}

Holding(c) == op[c].kind = "resume" /\ op[c].pc \in {"created", "register", "abort"}

FlightInv ==
  /\ flight.kind = "none" => flight = NoFlight
  /\ flight.kind # "none" => entry = None
  /\ flight.kind = "create" => flight.of \in Clients /\ Creating(flight.of)
  /\ flight.kind = "close" =>
       flight.of \in Runtimes /\ rts[flight.of].state \in {"closing", "closed"}
  /\ \A c \in Clients : Creating(c) => flight.kind = "create" /\ flight.of = c

OpInv ==
  \A c \in Clients :
    /\ op[c].pc \in {"created", "register", "abort", "open", "teardown", "mark", "done"} =>
         op[c].rt \in Runtimes
    /\ op[c].rt # None => rts[op[c].rt].state # "none"
    /\ op[c].pc = "mark" => rts[op[c].rt].state \in {"closing", "closed"}
    /\ Holding(c) => \A d \in Clients : op[d].rt = op[c].rt => d = c

RuntimeInv ==
  /\ entry # None => rts[entry].state # "none"
  /\ \A i \in Runtimes :
       /\ rts[i].opened = "no" => rts[i].state \in {"none", "opening"}
       /\ rts[i].state = "ready" => entry = i
       /\ Alive(i) => \/ entry = i
                      \/ flight.kind = "close" /\ flight.of = i
                      \/ \E c \in Clients : Holding(c) /\ op[c].rt = i

IInv == TypeOK /\ app = "running" /\ FlightInv /\ OpInv /\ RuntimeInv

-----------------------------------------------------------------------------
(* What an action does to the operations and to the Runtimes.              *)

\* Step moves one client and nobody else.
LEMMA StepFields ==
  ASSUME op \in Operations, NEW c \in Clients, NEW p \in Steps, Step(c, p)
  PROVE  /\ op' \in Operations
         /\ op'[c].pc = p /\ op'[c].kind = op[c].kind /\ op'[c].rt = op[c].rt
         /\ \A d \in Clients : d # c => op'[d] = op[d]
BY DEF Operations, Steps, Step

MoveTo(c, p, i) == op' = [op EXCEPT ![c].pc = p, ![c].rt = i]

\* So does a step that also gives the client a Runtime to work on.
LEMMA MoveFields ==
  ASSUME op \in Operations, NEW c \in Clients, NEW p \in Steps,
         NEW i \in Runtimes \cup {None}, MoveTo(c, p, i)
  PROVE  /\ op' \in Operations
         /\ op'[c].pc = p /\ op'[c].kind = op[c].kind /\ op'[c].rt = i
         /\ \A d \in Clients : d # c => op'[d] = op[d]
BY DEF Operations, Steps, MoveTo

\* Return leaves the client idle.
LEMMA ReturnFields ==
  ASSUME op \in Operations, NEW c \in Clients, Return(c)
  PROVE  /\ op' \in Operations
         /\ op'[c].pc = "idle" /\ op'[c].kind = "none" /\ op'[c].rt = None
         /\ \A d \in Clients : d # c => op'[d] = op[d]
BY DEF Operations, Idle, Return

WakesWaiters(o, n) ==
  /\ n \in Operations
  /\ \A d \in Clients :
       \/ n[d] = o[d]
       \/ o[d].pc = "wait" /\ n[d].pc \in {"idle", "lookup"} /\ n[d].rt \in {o[d].rt, None}

\* The end of a flight moves only clients that wait for a flight.
LEMMA WokenFields ==
  ASSUME NEW o \in Operations, NEW f \in BOOLEAN, NEW g \in BOOLEAN
  PROVE  WakesWaiters(o, Woken(o, f, g))
<1> DEFINE n == Woken(o, f, g)
           moved(d) == o[d].kind = "resume" /\ o[d].pc = "wait"
           looks(d) == [o[d] EXCEPT !.pc = "lookup"]
<1>1. \A d \in Clients : /\ looks(d).pc = "lookup" /\ looks(d).rt = o[d].rt
                         /\ looks(d).kind = o[d].kind
  BY DEF Operations
<1>2. \A d \in Clients : n[d] = o[d] \/ (moved(d) /\ n[d] \in {Idle, looks(d)})
  BY DEF Woken
<1>3. n \in Operations
  BY DEF Woken, Operations, Idle
<1>4. Idle.pc = "idle" /\ Idle.rt = None
  BY DEF Idle
<1> HIDE DEF n
<1>5. \A d \in Clients :
        \/ n[d] = o[d]
        \/ o[d].pc = "wait" /\ n[d].pc \in {"idle", "lookup"} /\ n[d].rt \in {o[d].rt, None}
  BY <1>1, <1>2, <1>4
<1> QED
  BY <1>3, <1>5 DEF n, WakesWaiters

Becomes(i, s) == rts' = [rts EXCEPT ![i].state = s]

\* A Runtime changes its state alone.
LEMMA StateFields ==
  ASSUME rts \in Instances, NEW i \in Runtimes, NEW s \in InstanceStates, Becomes(i, s)
  PROVE  /\ rts' \in Instances
         /\ rts'[i].state = s /\ rts'[i].opened = rts[i].opened
         /\ \A j \in Runtimes : j # i => rts'[j] = rts[j]
BY DEF Instances, InstanceStates, Becomes

\* runtime.close closes an opening or ready Runtime whose opening is over.
LEMMA StartCloseFields ==
  ASSUME rts \in Instances, NEW i \in Runtimes, StartClose(i)
  PROVE  /\ rts' \in Instances
         /\ rts'[i].state = IF rts[i].state \in {"opening", "ready"} THEN "closing"
                            ELSE rts[i].state
         /\ rts'[i].opened = rts[i].opened
         /\ \A j \in Runtimes : j # i => rts'[j] = rts[j]
BY DEF Instances, StartClose

-----------------------------------------------------------------------------
(* The inductive step.                                                     *)

\* A Session whose registry is empty satisfies the invariant.
LEMMA InitInv == Init => IInv
<1> SUFFICES ASSUME Init PROVE IInv
  OBVIOUS
<1>1. /\ op \in Operations /\ \A c \in Clients : op[c].pc = "idle" /\ op[c].rt = None
      /\ \A c \in Clients : op[c].kind = "none"
  BY DEF Init, Idle, Operations
<1>2. rts \in Instances /\ \A i \in Runtimes : rts[i].state = "none"
  BY DEF Init, Instances
<1>3. /\ flight = NoFlight /\ flight.kind = "none" /\ entry = None /\ app = "running"
      /\ TypeOK
  BY <1>1, <1>2 DEF Init, NoFlight, TypeOK
<1> QED
  BY <1>1, <1>2, <1>3 DEF IInv, FlightInv, OpInv, RuntimeInv, Creating, Holding, Alive

\* The invariant leaves room for one live Runtime, and a ready one is the
\* registered one.
LEMMA InvImplies == IInv => OneRuntime /\ ReadyIsReachable
<1> SUFFICES ASSUME IInv PROVE OneRuntime /\ ReadyIsReachable
  OBVIOUS
<1>1. ReadyIsReachable
  BY DEF IInv, RuntimeInv, ReadyIsReachable
<1>2. ASSUME NEW i \in Runtimes, NEW j \in Runtimes, Alive(i), Alive(j)
      PROVE  i = j
  <2>1. CASE flight.kind = "create"
    <3>1. \A k \in Runtimes : Alive(k) => Holding(flight.of) /\ op[flight.of].rt = k
      BY <2>1, RegistryAssumption DEF IInv, FlightInv, RuntimeInv, Creating, Holding
    <3> QED
      BY <1>2, <3>1
  <2>2. CASE flight.kind # "create"
    <3>1. \A k \in Runtimes : Alive(k) => entry = k \/ (flight.kind = "close" /\ flight.of = k)
      BY <2>2 DEF IInv, FlightInv, RuntimeInv, Creating, Holding
    <3>2. flight.kind = "close" => entry = None
      BY DEF IInv, FlightInv
    <3> QED
      BY <1>2, <3>1, <3>2, RegistryAssumption
  <2> QED
    BY <2>1, <2>2
<1> QED
  BY <1>1, <1>2 DEF OneRuntime

\* The Runtimes after a step that at most closes some whose opening is over.
Closes(old, new) ==
  \A i \in Runtimes :
    /\ new[i].opened = old[i].opened
    /\ \/ new[i].state = old[i].state
       \/ /\ old[i].opened # "no" /\ old[i].state \in {"opening", "ready", "closing"}
          /\ new[i].state \in {"closing", "closed"}

\* A client stays where it is, or takes a step outside a flight: it works on
\* the Runtime it had, on the registered one or on none.
Stays(c) == op'[c].kind = op[c].kind /\ op'[c].pc = op[c].pc /\ op'[c].rt = op[c].rt

Moves(c) ==
  /\ ~Creating(c) /\ op'[c].pc \notin {"create", "created", "register", "abort"}
  /\ op'[c].rt \in {op[c].rt, entry, None}
  /\ op'[c].pc \in {"open", "teardown", "mark", "done"} => op'[c].rt \in Runtimes
  /\ op'[c].pc = "mark" => rts'[op'[c].rt].state \in {"closing", "closed"}

\* Steps of clients outside a flight, which leave the registry alone and at
\* most close Runtimes, keep the invariant.
LEMMA QuietStep ==
  ASSUME IInv, app' = app, taken' = taken, entry' = entry, flight' = flight, issued' \in Nat,
         rts' \in Instances, Closes(rts, rts'),
         op' \in Operations, \A c \in Clients : Stays(c) \/ Moves(c)
  PROVE  IInv'
<1>1. TypeOK' /\ app' = "running"
  BY DEF IInv, TypeOK
<1>2. \A d \in Clients : (Creating(d)' <=> Creating(d)) /\ (Holding(d)' <=> Holding(d))
  BY DEF Creating, Holding, Stays, Moves
<1>3. FlightInv'
  <2>1. flight.kind = "close" => rts'[flight.of].state \in {"closing", "closed"}
    BY DEF IInv, FlightInv, Closes
  <2> QED
    BY <1>2, <2>1 DEF IInv, FlightInv, NoFlight
<1>4. OpInv'
  <2>1. \A i \in Runtimes : rts[i].state # "none" => rts'[i].state # "none"
    BY DEF Closes
  <2>2. \A i \in Runtimes : rts[i].state \in {"closing", "closed"}
                              => rts'[i].state \in {"closing", "closed"}
    BY DEF Closes
  <2>3. \A d \in Clients : op[d].rt \in Runtimes \cup {None}
    BY DEF IInv, TypeOK, Operations
  <2>4. entry \in Runtimes \cup {None} /\ (entry # None => rts[entry].state # "none")
    BY DEF IInv, TypeOK, RuntimeInv
  <2>5. ASSUME NEW d \in Clients
        PROVE  /\ op'[d].pc \in {"created", "register", "abort", "open", "teardown", "mark",
                                 "done"} => op'[d].rt \in Runtimes
               /\ op'[d].rt # None => rts'[op'[d].rt].state # "none"
               /\ op'[d].pc = "mark" => rts'[op'[d].rt].state \in {"closing", "closed"}
    <3>1. CASE Stays(d)
      BY <3>1, <2>1, <2>2, <2>3 DEF IInv, OpInv, Stays
    <3>2. CASE Moves(d)
      BY <3>2, <2>1, <2>2, <2>3, <2>4 DEF IInv, OpInv, Moves
    <3> QED
      BY <3>1, <3>2
  <2>6. ASSUME NEW d \in Clients, Holding(d), NEW e \in Clients, op'[e].rt = op'[d].rt
        PROVE  e = d
    <3>1. Stays(d) /\ entry = None /\ op[d].rt \in Runtimes
      BY <2>6 DEF IInv, FlightInv, OpInv, Creating, Holding, Moves
    <3>2. op'[e].rt \in {op[e].rt, None}
      BY <3>1 DEF Stays, Moves
    <3>3. op'[e].rt = op[e].rt
      BY <2>6, <3>1, <3>2, RegistryAssumption DEF Stays
    <3> QED
      BY <2>6, <3>1, <3>3 DEF IInv, OpInv, Stays
  <2> QED
    BY <1>2, <2>5, <2>6 DEF OpInv
<1>5. RuntimeInv'
  <2>1. entry \in Runtimes \cup {None}
    BY DEF IInv, TypeOK
  <2>2. \A i \in Runtimes : Alive(i)' => Alive(i)
    BY DEF Alive, Closes
  <2>3. \A d \in Clients : Holding(d) => op'[d].rt = op[d].rt
    BY DEF Holding, Creating, Stays, Moves
  <2> QED
    BY <1>2, <2>1, <2>2, <2>3 DEF IInv, RuntimeInv, Closes
<1> QED
  BY <1>1, <1>3, <1>4, <1>5 DEF IInv

-----------------------------------------------------------------------------
(* The quiet actions.                                                      *)

\* Issuing an operation gives an idle client its first step.
LEMMA IssueKeeps ==
  ASSUME IInv, NEW c \in Clients, NEW k \in {"resume", "close"}, NEW p \in {"lookup", "wait"},
         Issue(c, k, p)
  PROVE  IInv'
<1>1. /\ op' \in Operations /\ op'[c].pc = p /\ op'[c].rt = None /\ op[c].pc = "idle"
      /\ \A d \in Clients : d # c => op'[d] = op[d]
  BY DEF IInv, TypeOK, Issue, Operations, Idle
<1>2. \A d \in Clients : Stays(d) \/ Moves(d)
  BY <1>1 DEF Stays, Moves, Creating
<1>3. UNCHANGED <<app, taken, entry, flight, rts>> /\ issued' \in Nat /\ rts' \in Instances
  BY DEF Issue, IInv, TypeOK
<1>4. Closes(rts, rts')
  BY <1>3 DEF Closes
<1> QED
  BY <1>1, <1>2, <1>3, <1>4, QuietStep

\* A client outside a flight returns.
LEMMA LeaveKeeps ==
  ASSUME IInv, NEW c \in Clients, ~Creating(c), Return(c),
         UNCHANGED <<app, taken, entry, flight, issued>>, rts' \in Instances, Closes(rts, rts')
  PROVE  IInv'
<1>1. op \in Operations /\ issued' \in Nat
  BY DEF IInv, TypeOK
<1>2. /\ op' \in Operations /\ op'[c].pc = "idle" /\ op'[c].rt = None
      /\ \A d \in Clients : d # c => op'[d] = op[d]
  BY <1>1, ReturnFields
<1>3. \A d \in Clients : Stays(d) \/ Moves(d)
  BY <1>2 DEF Stays, Moves
<1> QED
  BY <1>1, <1>2, <1>3, QuietStep

\* A canceled client stops waiting for a flight.
LEMMA WaitCanceledKeeps ==
  ASSUME IInv, NEW c \in Clients, WaitCanceled(c)
  PROVE  IInv'
<1>1. ~Creating(c) /\ Return(c) /\ UNCHANGED <<app, taken, entry, flight, rts, issued>>
  BY DEF WaitCanceled, At, Creating
<1>2. rts' \in Instances /\ Closes(rts, rts')
  BY <1>1 DEF IInv, TypeOK, Closes
<1> QED
  BY <1>1, <1>2, LeaveKeeps

\* awaitOpen returns the Runtime: only the mark that it is in use changes.
LEMMA OpenedKeeps ==
  ASSUME IInv, NEW c \in Clients, Opened(c)
  PROVE  IInv'
<1>1. ~Creating(c) /\ Return(c) /\ UNCHANGED <<app, taken, entry, flight, issued>>
  BY DEF Opened, At, Creating
<1>2. op[c].rt \in Runtimes /\ rts \in Instances
  BY DEF IInv, OpInv, TypeOK, Opened, At
<1>3. rts' \in Instances /\ Closes(rts, rts')
  BY <1>2 DEF Opened, Instances, Closes
<1> QED
  BY <1>1, <1>3, LeaveKeeps

\* The opening failed or the client is canceled: resume closes the Runtime.
LEMMA OpenRefusedKeeps ==
  ASSUME IInv, NEW c \in Clients, OpenRefused(c)
  PROVE  IInv'
<1>1. /\ ~Creating(c) /\ Step(c, "teardown") /\ op[c].pc = "open"
      /\ UNCHANGED <<app, taken, entry, flight, issued>>
      /\ StartClose(op[c].rt) /\ rts[op[c].rt].opened # "no"
  BY DEF OpenRefused, At, Creating
<1>2. op[c].rt \in Runtimes /\ rts \in Instances
  BY <1>1 DEF IInv, OpInv, TypeOK
<1>3. rts' \in Instances /\ Closes(rts, rts')
  BY <1>1, <1>2, StartCloseFields DEF Closes
<1>4. op \in Operations /\ issued' \in Nat
  BY <1>1 DEF IInv, TypeOK
<1>5. /\ op' \in Operations /\ op'[c].pc = "teardown" /\ op'[c].rt = op[c].rt
      /\ \A d \in Clients : d # c => op'[d] = op[d]
  BY <1>1, <1>4, StepFields DEF Steps
<1>6. \A d \in Clients : Stays(d) \/ Moves(d)
  BY <1>1, <1>2, <1>5 DEF Stays, Moves
<1> QED
  BY <1>1, <1>3, <1>4, <1>5, <1>6, QuietStep

\* registry.wait.
LEMMA FindKeeps ==
  ASSUME IInv, NEW c \in Clients, Find(c)
  PROVE  IInv'
<1>1. ~Creating(c) /\ UNCHANGED <<app, taken, entry, flight, rts, issued>>
  BY DEF Find, At, Creating
<1>2. /\ rts' \in Instances /\ Closes(rts, rts') /\ op \in Operations /\ issued' \in Nat
      /\ entry \in Runtimes \cup {None}
  BY <1>1 DEF IInv, TypeOK, Closes
<1>3. CASE Return(c)
  BY <1>1, <1>2, <1>3, LeaveKeeps
<1>4. CASE entry # None /\ MoveTo(c, "open", entry)
  <2>1. /\ op' \in Operations /\ op'[c].pc = "open" /\ op'[c].rt = entry
        /\ \A d \in Clients : d # c => op'[d] = op[d]
    BY <1>2, <1>4, MoveFields DEF Steps
  <2>2. \A d \in Clients : Stays(d) \/ Moves(d)
    BY <1>1, <1>2, <1>4, <2>1 DEF Stays, Moves
  <2> QED
    BY <1>1, <1>2, <2>1, <2>2, QuietStep
<1> QED
  BY <1>3, <1>4 DEF Find, MoveTo

\* beginClose: the Runtime starts to close, or the client returns.
LEMMA BeginCloseKeeps ==
  ASSUME IInv, NEW c \in Clients, BeginClose(c)
  PROVE  IInv'
<1>1. /\ ~Creating(c) /\ UNCHANGED <<app, taken, entry, flight, issued>>
      /\ op[c].rt \in Runtimes /\ rts \in Instances /\ op \in Operations /\ issued' \in Nat
  BY DEF BeginClose, At, Creating, IInv, OpInv, TypeOK
<1>2. CASE Return(c) /\ UNCHANGED rts
  <2>1. rts' \in Instances /\ Closes(rts, rts')
    BY <1>1, <1>2 DEF Closes
  <2> QED
    BY <1>1, <1>2, <2>1, LeaveKeeps
<1>3. CASE /\ rts[op[c].rt].opened = "ok" /\ rts[op[c].rt].state = "ready"
           /\ StartClose(op[c].rt) /\ Step(c, "mark")
  <2>1. /\ rts' \in Instances /\ Closes(rts, rts')
        /\ rts'[op[c].rt].state = "closing"
    BY <1>1, <1>3, StartCloseFields DEF Closes
  <2>2. /\ op' \in Operations /\ op'[c].pc = "mark" /\ op'[c].rt = op[c].rt
        /\ \A d \in Clients : d # c => op'[d] = op[d]
    BY <1>1, <1>3, StepFields DEF Steps
  <2>3. \A d \in Clients : Stays(d) \/ Moves(d)
    BY <1>1, <2>1, <2>2 DEF Stays, Moves
  <2> QED
    BY <1>1, <2>1, <2>2, <2>3, QuietStep
<1> QED
  BY <1>2, <1>3 DEF BeginClose

\* A close that has been waited for.
LEMMA CloseDoneKeeps ==
  ASSUME IInv, NEW c \in Clients, CloseDone(c)
  PROVE  IInv'
<1>1. ~Creating(c) /\ Return(c) /\ UNCHANGED <<app, taken, entry, flight, rts, issued>>
  BY DEF CloseDone, At, Creating
<1>2. rts' \in Instances /\ Closes(rts, rts')
  BY <1>1 DEF IInv, TypeOK, Closes
<1> QED
  BY <1>1, <1>2, LeaveKeeps

\* A lost connection only cancels the client's context.
LEMMA DisconnectKeeps ==
  ASSUME IInv, NEW c \in Clients, Disconnect(c)
  PROVE  IInv'
<1>1. UNCHANGED <<app, taken, entry, flight, rts, issued>> /\ op \in Operations
  BY DEF Disconnect, IInv, TypeOK
<1>2. op' \in Operations /\ \A d \in Clients : Stays(d)
  BY <1>1 DEF Disconnect, Operations, Stays
<1>3. rts' \in Instances /\ Closes(rts, rts') /\ issued' \in Nat
  BY <1>1 DEF IInv, TypeOK, Closes
<1> QED
  BY <1>1, <1>2, <1>3, QuietStep

\* A Runtime finishes its close or fails closed.
LEMMA RuntimeEndsKeeps ==
  ASSUME IInv, NEW i \in Runtimes, FinishClose(i) \/ FailClosed(i)
  PROVE  IInv'
<1>1. /\ UNCHANGED <<app, taken, entry, flight, op, issued>> /\ Becomes(i, "closed")
      /\ rts[i].state \in {"closing", "ready"} /\ rts \in Instances /\ rts[i].opened # "no"
  BY DEF FinishClose, FailClosed, Becomes, IInv, TypeOK, RuntimeInv
<1>2. rts' \in Instances /\ Closes(rts, rts')
  BY <1>1, StateFields DEF Closes, InstanceStates
<1>3. op' \in Operations /\ issued' \in Nat /\ \A d \in Clients : Stays(d)
  BY <1>1 DEF IInv, TypeOK, Stays
<1> QED
  BY <1>1, <1>2, <1>3, QuietStep
-----------------------------------------------------------------------------
(* The actions on flights and the registry.                                *)

\* Where no live Runtime exists, a flight may end: the next Resume starts from
\* an empty place.
LEMMA FlightEnds ==
  ASSUME IInv, flight.kind # "none", flight' = NoFlight,
         UNCHANGED <<app, taken, entry, rts, issued>>, op' \in Operations,
         \A d \in Clients : /\ op'[d].rt \in {op[d].rt, None}
                            /\ Stays(d) \/ op'[d].pc \in {"idle", "lookup"}
                            /\ ~Creating(d)',
         \A i \in Runtimes : ~Alive(i)
  PROVE  IInv'
<1>1. flight'.kind = "none" /\ entry = None
  BY DEF NoFlight, IInv, FlightInv
<1>2. TypeOK' /\ app' = "running"
  BY <1>1 DEF IInv, TypeOK, NoFlight
<1>3. FlightInv'
  BY <1>1 DEF FlightInv, NoFlight
<1>4. OpInv'
  BY DEF IInv, OpInv, Stays, Creating, Holding
<1>5. RuntimeInv'
  BY <1>1 DEF IInv, RuntimeInv, Alive
<1> QED
  BY <1>2, <1>3, <1>4, <1>5 DEF IInv

\* The operations once the creator has left its flight and the waiters woke.
LEMMA WokenReturn ==
  ASSUME IInv, NEW c \in Clients, Creating(c), NEW f \in BOOLEAN, NEW g \in BOOLEAN,
         op' = Woken([op EXCEPT ![c] = Idle], f, g)
  PROVE  /\ op' \in Operations
         /\ \A d \in Clients : /\ op'[d].rt \in {op[d].rt, None}
                               /\ Stays(d) \/ op'[d].pc \in {"idle", "lookup"}
                               /\ ~Creating(d)'
<1>0. PICK o : o = [op EXCEPT ![c] = Idle]
  OBVIOUS
<1>1. /\ o \in Operations /\ o[c].pc = "idle" /\ o[c].rt = None /\ o[c].kind = "none"
      /\ \A d \in Clients : d # c => o[d] = op[d]
  BY <1>0 DEF IInv, TypeOK, Operations, Idle
<1>2. op' = Woken(o, f, g)
  BY <1>0
<1>3. /\ op' \in Operations
      /\ \A d \in Clients : \/ op'[d] = o[d]
                            \/ /\ o[d].pc = "wait" /\ op'[d].pc \in {"idle", "lookup"}
                               /\ op'[d].rt \in {o[d].rt, None}
  <2>1. WakesWaiters(o, Woken(o, f, g))
    BY <1>1, WokenFields, Zenon
  <2>2. WakesWaiters(o, op')
    BY <1>2, <2>1
  <2> QED
    BY <2>2 DEF WakesWaiters
<1>4. \A d \in Clients : d # c => ~Creating(d)
  BY DEF IInv, FlightInv
<1> QED
  BY <1>1, <1>3, <1>4 DEF Stays, Creating

\* While its creator is at "create", no Runtime of the Session is alive.
LEMMA CreateFailsKeeps ==
  ASSUME IInv, NEW c \in Clients, CreateFails(c)
  PROVE  IInv'
<1>1. /\ Creating(c) /\ ~Holding(c) /\ UNCHANGED <<app, taken, entry, rts, issued>>
      /\ flight' = NoFlight /\ op' = Woken([op EXCEPT ![c] = Idle], TRUE, op[c].canceled)
  BY DEF CreateFails, At, Creating, Holding
<1>2. op[c].canceled \in BOOLEAN
  BY DEF IInv, TypeOK, Operations
<1>3. flight.kind = "create" /\ entry = None /\ \A d \in Clients : ~Holding(d)
  BY <1>1 DEF IInv, FlightInv, Creating, Holding
<1>4. \A i \in Runtimes : ~Alive(i)
  BY <1>3, RegistryAssumption DEF IInv, RuntimeInv
<1> QED
  BY <1>1, <1>2, <1>3, <1>4, WokenReturn, FlightEnds

\* The creator was canceled: its flight ends once the Runtime is closed.
LEMMA AbortedKeeps ==
  ASSUME IInv, NEW c \in Clients, Aborted(c)
  PROVE  IInv'
<1>1. /\ Creating(c) /\ Holding(c) /\ UNCHANGED <<app, taken, entry, rts, issued>>
      /\ flight' = NoFlight /\ op' = Woken([op EXCEPT ![c] = Idle], TRUE, TRUE)
      /\ rts[op[c].rt].state = "closed"
  BY DEF Aborted, At, Creating, Holding
<1>2. flight.kind = "create" /\ entry = None /\ \A d \in Clients : Holding(d) => d = c
  BY <1>1 DEF IInv, FlightInv, Creating, Holding
<1>3. ~Alive(op[c].rt)
  BY <1>1 DEF Alive
<1>4. \A i \in Runtimes : ~Alive(i)
  BY <1>2, <1>3, RegistryAssumption DEF IInv, RuntimeInv
<1> QED
  BY <1>1, <1>2, <1>4, WokenReturn, FlightEnds

\* The tombstone goes only after the Runtime behind it is closed.
LEMMA RemoveTombstoneKeeps ==
  ASSUME IInv, RemoveTombstone
  PROVE  IInv'
<1>1. /\ flight.kind = "close" /\ rts[flight.of].state = "closed" /\ flight' = NoFlight
      /\ UNCHANGED <<app, taken, entry, rts, issued>> /\ op' = Woken(op, FALSE, FALSE)
      /\ op \in Operations
  BY DEF RemoveTombstone, IInv, TypeOK
<1>2. entry = None /\ \A d \in Clients : ~Creating(d) /\ ~Holding(d)
  BY <1>1 DEF IInv, FlightInv, Creating, Holding
<1>3. ~Alive(flight.of)
  BY <1>1 DEF Alive
<1>4. \A i \in Runtimes : ~Alive(i)
  BY <1>2, <1>3, RegistryAssumption DEF IInv, RuntimeInv
<1>5. /\ op' \in Operations
      /\ \A d \in Clients : \/ op'[d] = op[d]
                            \/ /\ op[d].pc = "wait" /\ op'[d].pc \in {"idle", "lookup"}
                               /\ op'[d].rt \in {op[d].rt, None}
  BY <1>1, WokenFields DEF WakesWaiters
<1>6. \A d \in Clients : /\ op'[d].rt \in {op[d].rt, None}
                         /\ Stays(d) \/ op'[d].pc \in {"idle", "lookup"}
                         /\ ~Creating(d)'
  BY <1>2, <1>5 DEF Stays, Creating
<1> QED
  BY <1>1, <1>4, <1>5, <1>6, FlightEnds

\* getOrCreate: the registered Runtime, a wait, or a new flight where there is
\* neither a Runtime nor a flight.
LEMMA LookupKeeps ==
  ASSUME IInv, NEW c \in Clients, Lookup(c)
  PROVE  IInv'
<1>0. /\ op \in Operations /\ op[c].kind = "resume" /\ op[c].pc = "lookup" /\ ~Creating(c)
      /\ UNCHANGED <<app, taken, entry, rts, issued>> /\ entry \in Runtimes \cup {None}
      /\ rts' \in Instances /\ Closes(rts, rts') /\ issued' \in Nat
  BY DEF IInv, TypeOK, Lookup, At, Creating, Closes
<1>1. CASE entry # None /\ MoveTo(c, "open", entry) /\ UNCHANGED flight
  <2>1. /\ op' \in Operations /\ op'[c].pc = "open" /\ op'[c].rt = entry
        /\ \A d \in Clients : d # c => op'[d] = op[d]
    BY <1>0, <1>1, MoveFields DEF Steps
  <2>2. \A d \in Clients : Stays(d) \/ Moves(d)
    BY <1>0, <1>1, <2>1 DEF Stays, Moves
  <2> QED
    BY <1>0, <1>1, <2>1, <2>2, QuietStep
<1>2. CASE Step(c, "wait") /\ UNCHANGED flight
  <2>1. /\ op' \in Operations /\ op'[c].pc = "wait" /\ op'[c].rt = op[c].rt
        /\ \A d \in Clients : d # c => op'[d] = op[d]
    BY <1>0, <1>2, StepFields DEF Steps
  <2>2. \A d \in Clients : Stays(d) \/ Moves(d)
    BY <1>0, <2>1 DEF Stays, Moves
  <2> QED
    BY <1>0, <1>2, <2>1, <2>2, QuietStep
<1>3. CASE /\ entry = None /\ flight = NoFlight
           /\ flight' = [kind |-> "create", of |-> c] /\ Step(c, "create")
  <2>1. /\ op' \in Operations /\ op'[c].pc = "create" /\ op'[c].rt = op[c].rt
        /\ op'[c].kind = "resume" /\ \A d \in Clients : d # c => op'[d] = op[d]
    BY <1>0, <1>3, StepFields DEF Steps
  <2>2. flight'.kind = "create" /\ flight'.of = c /\ flight.kind = "none"
    BY <1>3 DEF NoFlight
  <2>3. flight' \in [kind: {"none", "create", "close"}, of: Clients \cup Runtimes \cup {None}]
    BY <1>3
  <2>4. \A d \in Clients : ~Creating(d) /\ ~Holding(d)
    BY <2>2 DEF IInv, FlightInv, Creating, Holding
  <2>5. \A d \in Clients : (Creating(d)' => d = c) /\ ~Holding(d)' /\ Creating(c)'
    BY <2>1, <2>4 DEF Creating, Holding
  <2>6. TypeOK' /\ app' = "running"
    BY <1>0, <2>1, <2>3 DEF IInv, TypeOK
  <2>7. FlightInv'
    BY <1>0, <1>3, <2>2, <2>5 DEF FlightInv
  <2>8. OpInv'
    BY <1>0, <2>1, <2>5 DEF IInv, OpInv
  <2>9. RuntimeInv'
    BY <1>0, <1>3, <2>2, <2>4 DEF IInv, RuntimeInv, Alive
  <2> QED
    BY <2>6, <2>7, <2>8, <2>9 DEF IInv
<1> QED
  BY <1>1, <1>2, <1>3 DEF Lookup, MoveTo
\* newRuntimeInstance: the flight's Runtime is the only live one.
LEMMA CreateKeeps ==
  ASSUME IInv, NEW c \in Clients, NEW i \in Runtimes, Create(c, i)
  PROVE  IInv'
<1>1. /\ op \in Operations /\ rts \in Instances /\ op[c].kind = "resume" /\ op[c].pc = "create"
      /\ rts[i].state = "none" /\ Becomes(i, "opening") /\ MoveTo(c, "created", i)
      /\ UNCHANGED <<app, taken, entry, flight, issued>>
  BY DEF Create, At, Becomes, MoveTo, IInv, TypeOK
<1>2. /\ op' \in Operations /\ op'[c].pc = "created" /\ op'[c].rt = i
      /\ op'[c].kind = "resume" /\ \A d \in Clients : d # c => op'[d] = op[d]
  BY <1>1, MoveFields DEF Steps
<1>3. /\ rts' \in Instances /\ rts'[i].state = "opening" /\ rts'[i].opened = rts[i].opened
      /\ \A j \in Runtimes : j # i => rts'[j] = rts[j]
  BY <1>1, StateFields DEF InstanceStates
<1>4. /\ flight.kind = "create" /\ flight.of = c /\ entry = None
      /\ \A d \in Clients : d # c => ~Creating(d) /\ ~Holding(d)
  BY <1>1 DEF IInv, FlightInv, Creating, Holding
<1>5. /\ Creating(c)' /\ Holding(c)'
      /\ \A d \in Clients : d # c => ~Creating(d)' /\ ~Holding(d)'
  BY <1>2, <1>4 DEF Creating, Holding
<1>6. \A d \in Clients : d # c => op[d].rt # i
  BY <1>1, RegistryAssumption DEF IInv, OpInv
<1>7. \A d \in Clients : op[d].rt \in Runtimes \cup {None}
  BY <1>1 DEF Operations
<1>8. \A j \in Runtimes : ~Alive(j)
  BY <1>1, <1>4, RegistryAssumption DEF IInv, RuntimeInv, Holding
<1>9. TypeOK' /\ app' = "running"
  BY <1>1, <1>2, <1>3 DEF IInv, TypeOK
<1>10. FlightInv'
  BY <1>1, <1>4, <1>5 DEF FlightInv
<1>11. OpInv'
  <2>1. ASSUME NEW d \in Clients, d # c
        PROVE  /\ op'[d].pc \in {"created", "register", "abort", "open", "teardown", "mark",
                                 "done"} => op'[d].rt \in Runtimes
               /\ op'[d].rt # None => rts'[op'[d].rt].state # "none"
               /\ op'[d].pc = "mark" => rts'[op'[d].rt].state \in {"closing", "closed"}
    BY <2>1, <1>2, <1>3, <1>6, <1>7 DEF IInv, OpInv
  <2> QED
    BY <2>1, <1>2, <1>3, <1>5, <1>6 DEF OpInv
<1>12. RuntimeInv'
  <2>1. \A j \in Runtimes : Alive(j)' => j = i
    BY <1>3, <1>8 DEF Alive
  <2>2. \A j \in Runtimes : j # i => rts'[j].state # "ready"
    BY <1>3, <1>8 DEF Alive
  <2> QED
    BY <1>1, <1>2, <1>3, <1>4, <1>5, <2>1, <2>2 DEF IInv, RuntimeInv
<1> QED
  BY <1>9, <1>10, <1>11, <1>12 DEF IInv

\* The creator keeps its Runtime, which it closes when it is canceled.
LEMMA CheckContextKeeps ==
  ASSUME IInv, NEW c \in Clients, CheckContext(c)
  PROVE  IInv'
<1> DEFINE i == op[c].rt
<1>1. /\ op \in Operations /\ rts \in Instances /\ op[c].kind = "resume" /\ op[c].pc = "created"
      /\ i \in Runtimes /\ UNCHANGED <<app, taken, entry, flight, issued>>
  BY DEF CheckContext, At, IInv, TypeOK, OpInv
<1>2. \E p \in {"abort", "register"} : Step(c, p)
  BY DEF CheckContext
<1>3. /\ op' \in Operations /\ op'[c].pc \in {"abort", "register"} /\ op'[c].rt = i
      /\ op'[c].kind = "resume" /\ \A d \in Clients : d # c => op'[d] = op[d]
  BY <1>1, <1>2, StepFields DEF Steps
<1>4. /\ rts' \in Instances /\ \A j \in Runtimes : j # i => rts'[j] = rts[j]
      /\ \/ rts'[i] = rts[i]
         \/ rts'[i].state = "closing" /\ rts'[i].opened = "err"
  BY <1>1 DEF CheckContext, Instances
<1> HIDE DEF i
<1>5. \A d \in Clients : (Creating(d)' <=> Creating(d)) /\ (Holding(d)' <=> Holding(d))
  BY <1>1, <1>3 DEF Creating, Holding
<1>6. flight.kind = "create" /\ flight.of = c /\ entry = None
  BY <1>1 DEF IInv, FlightInv, Creating
<1>7. \A d \in Clients : op'[d].rt = op[d].rt /\ op[d].rt \in Runtimes \cup {None}
  BY <1>1, <1>3 DEF i, Operations
<1>8. TypeOK' /\ app' = "running"
  BY <1>1, <1>3, <1>4 DEF IInv, TypeOK
<1>9. FlightInv'
  BY <1>1, <1>5, <1>6 DEF IInv, FlightInv
<1>10. OpInv'
  <2>1. \A j \in Runtimes :
          /\ rts[j].state # "none" => rts'[j].state # "none"
          /\ rts[j].state \in {"closing", "closed"} => rts'[j].state \in {"closing", "closed"}
    BY <1>1, <1>4
  <2>2. ASSUME NEW d \in Clients
        PROVE  /\ op'[d].pc \in {"created", "register", "abort", "open", "teardown", "mark",
                                 "done"} => op'[d].rt \in Runtimes
               /\ op'[d].rt # None => rts'[op'[d].rt].state # "none"
               /\ op'[d].pc = "mark" => rts'[op'[d].rt].state \in {"closing", "closed"}
    BY <1>1, <1>3, <1>7, <2>1 DEF IInv, OpInv
  <2> QED
    BY <1>5, <1>7, <2>2 DEF IInv, OpInv
<1>11. RuntimeInv'
  <2>1. Holding(c)
    BY <1>1 DEF Holding
  <2>2. ASSUME NEW j \in Runtimes, Alive(j)'
        PROVE  \E d \in Clients : Holding(d)' /\ op'[d].rt = j
    <3>1. CASE j = i
      BY <3>1, <2>1, <1>3, <1>5
    <3>2. CASE j # i
      BY <3>2, <2>2, <1>4, <1>5, <1>6, <1>7, RegistryAssumption DEF IInv, RuntimeInv, Alive
    <3> QED
      BY <3>1, <3>2
  <2>3. \A j \in Runtimes : rts[j].state # "ready"
    BY <1>6, RegistryAssumption DEF IInv, RuntimeInv
  <2> QED
    BY <1>1, <1>4, <1>6, <2>2, <2>3 DEF IInv, RuntimeInv
<1> QED
  BY <1>8, <1>9, <1>10, <1>11 DEF IInv

\* The flight's Runtime is registered in the step that ends the flight.
LEMMA RegisterKeeps ==
  ASSUME IInv, NEW c \in Clients, Register(c)
  PROVE  IInv'
<1> DEFINE i == op[c].rt
<1>0. PICK o : o = [op EXCEPT ![c].pc = "open"]
  OBVIOUS
<1>1. /\ op \in Operations /\ rts \in Instances /\ op[c].kind = "resume" /\ op[c].pc = "register"
      /\ i \in Runtimes /\ UNCHANGED <<app, taken, rts, issued>> /\ entry' = i
      /\ flight' = NoFlight /\ op' = Woken(o, FALSE, FALSE)
  BY <1>0 DEF Register, At, IInv, TypeOK, OpInv
<1>2. /\ o \in Operations /\ o[c].pc = "open" /\ o[c].rt = i
      /\ \A d \in Clients : d # c => o[d] = op[d]
  BY <1>0, <1>1 DEF Operations
<1> HIDE DEF i
<1>3. /\ op' \in Operations
      /\ \A d \in Clients : \/ op'[d] = o[d]
                            \/ /\ o[d].pc = "wait" /\ op'[d].pc \in {"idle", "lookup"}
                               /\ op'[d].rt \in {o[d].rt, None}
  <2>1. WakesWaiters(o, Woken(o, FALSE, FALSE))
    BY <1>2, WokenFields, Zenon
  <2>2. WakesWaiters(o, op')
    BY <1>1, <2>1
  <2> QED
    BY <2>2 DEF WakesWaiters
<1>4. /\ flight.kind = "create" /\ flight.of = c /\ entry = None
      /\ \A d \in Clients : Creating(d) => d = c
  BY <1>1 DEF IInv, FlightInv, Creating
<1>5. op'[c].pc = "open" /\ op'[c].rt = i
  BY <1>2, <1>3
<1>6. \A d \in Clients : d # c => \/ Stays(d)
                                  \/ /\ op'[d].pc \in {"idle", "lookup"}
                                     /\ op'[d].rt \in {op[d].rt, None}
  BY <1>2, <1>3 DEF Stays
<1>7. \A d \in Clients : ~Creating(d)' /\ ~Holding(d)'
  BY <1>4, <1>5, <1>6 DEF Creating, Holding, Stays
<1>8. flight'.kind = "none"
  BY <1>1 DEF NoFlight
<1>9. \A j \in Runtimes : Alive(j) => j = i
  <2>1. \A d \in Clients : Holding(d) => d = c
    BY <1>4 DEF Creating, Holding
  <2> QED
    BY <1>4, <2>1, RegistryAssumption DEF IInv, RuntimeInv, i
<1>10. TypeOK' /\ app' = "running"
  BY <1>1, <1>3 DEF IInv, TypeOK, NoFlight
<1>11. FlightInv'
  BY <1>1, <1>7, <1>8 DEF FlightInv, NoFlight
<1>12. rts[i].state # "none"
  BY <1>1, RegistryAssumption DEF IInv, OpInv, i
<1>13. OpInv'
  BY <1>1, <1>5, <1>6, <1>7, <1>12 DEF IInv, OpInv, Stays
<1>14. RuntimeInv'
  BY <1>1, <1>9, <1>12 DEF IInv, RuntimeInv, Alive
<1> QED
  BY <1>10, <1>11, <1>13, <1>14 DEF IInv
\* The opening ends, in success or failure, on the registered Runtime.
LEMMA OpenBodyKeeps ==
  ASSUME IInv, NEW c \in Clients, NEW ok \in BOOLEAN, OpenBody(c, ok)
  PROVE  IInv'
<1> DEFINE i == op[c].rt
<1>1. /\ op \in Operations /\ rts \in Instances /\ op[c].kind = "resume" /\ op[c].pc = "open"
      /\ i \in Runtimes /\ rts[i].opened = "no"
      /\ UNCHANGED <<app, taken, entry, flight, op, issued>>
  BY DEF OpenBody, At, IInv, TypeOK, OpInv
<1>2. rts[i].state = "opening"
  BY <1>1, RegistryAssumption DEF IInv, OpInv, RuntimeInv
<1>3. /\ rts' \in Instances /\ \A j \in Runtimes : j # i => rts'[j] = rts[j]
      /\ rts'[i].state \in {"opening", "ready"} /\ rts'[i].opened # "no"
  BY <1>1, <1>2 DEF OpenBody, Instances
<1>4. entry = i
  <2>1. ASSUME NEW d \in Clients, Holding(d), op[d].rt = i PROVE FALSE
    <3>1. d = c
      BY <2>1 DEF IInv, OpInv
    <3> QED
      BY <2>1, <3>1, <1>1 DEF Holding
  <2>2. Alive(i)
    BY <1>2 DEF Alive
  <2>3. ~(flight.kind = "close" /\ flight.of = i)
    BY <1>2 DEF IInv, FlightInv
  <2> QED
    BY <1>1, <2>1, <2>2, <2>3 DEF IInv, RuntimeInv
<1> HIDE DEF i
<1>5. TypeOK' /\ app' = "running"
  BY <1>1, <1>3 DEF IInv, TypeOK
<1>6. flight.kind = "none"
  BY <1>1, <1>4, RegistryAssumption DEF IInv, TypeOK, FlightInv
<1>7. FlightInv'
  BY <1>1, <1>6 DEF IInv, FlightInv, Creating, NoFlight
<1>8. OpInv'
  <2>1. \A j \in Runtimes :
          /\ rts[j].state # "none" => rts'[j].state # "none"
          /\ rts[j].state \in {"closing", "closed"} => rts'[j].state \in {"closing", "closed"}
    BY <1>2, <1>3
  <2>2. \A d \in Clients : op[d].rt \in Runtimes \cup {None}
    BY <1>1 DEF Operations
  <2> QED
    BY <1>1, <2>1, <2>2 DEF IInv, OpInv, Holding
<1>9. RuntimeInv'
  BY <1>1, <1>2, <1>3, <1>4 DEF IInv, RuntimeInv, Alive, Holding
<1> QED
  BY <1>5, <1>7, <1>8, <1>9 DEF IInv

\* A closed Runtime leaves the registry.
LEMMA DiscardKeeps ==
  ASSUME IInv, NEW c \in Clients, Discard(c)
  PROVE  IInv'
<1>1. /\ op \in Operations /\ op[c].pc = "teardown" /\ op[c].rt \in Runtimes
      /\ rts[op[c].rt].state = "closed" /\ Return(c)
      /\ UNCHANGED <<app, taken, flight, rts, issued>>
      /\ entry' = IF entry = op[c].rt THEN None ELSE entry
  BY DEF Discard, At, IInv, TypeOK, OpInv
<1>2. CASE entry # op[c].rt
  <2>1. ~Creating(c) /\ UNCHANGED <<app, taken, entry, flight, issued>>
    BY <1>1, <1>2 DEF Creating
  <2>2. rts' \in Instances /\ Closes(rts, rts')
    BY <1>1 DEF IInv, TypeOK, Closes
  <2> QED
    BY <1>1, <2>1, <2>2, LeaveKeeps
<1>3. CASE entry = op[c].rt
  <2>1. /\ op' \in Operations /\ op'[c].pc = "idle" /\ op'[c].rt = None
        /\ op'[c].kind = "none" /\ \A d \in Clients : d # c => op'[d] = op[d]
    BY <1>1, ReturnFields
  <2>2. flight.kind = "none" /\ entry' = None
    BY <1>1, <1>3, RegistryAssumption DEF IInv, TypeOK, FlightInv
  <2>3. \A d \in Clients : ~Creating(d) /\ ~Holding(d)
    BY <2>2 DEF IInv, FlightInv, Creating, Holding
  <2>4. \A d \in Clients : ~Creating(d)' /\ ~Holding(d)'
    BY <2>1, <2>3 DEF Creating, Holding
  <2>5. \A j \in Runtimes : ~Alive(j)
    BY <1>1, <1>3, <2>2, <2>3 DEF IInv, RuntimeInv, Alive
  <2>6. TypeOK' /\ app' = "running"
    BY <1>1, <2>1, <2>2 DEF IInv, TypeOK
  <2>7. FlightInv'
    BY <1>1, <2>2, <2>4 DEF IInv, FlightInv, NoFlight
  <2>8. OpInv'
    BY <1>1, <2>1, <2>4 DEF IInv, OpInv
  <2>9. RuntimeInv'
    BY <1>1, <2>2, <2>5 DEF IInv, RuntimeInv, Alive
  <2> QED
    BY <2>6, <2>7, <2>8, <2>9 DEF IInv
<1> QED
  BY <1>2, <1>3

\* markClosing exchanges the entry for its tombstone in one step.
LEMMA MarkClosingKeeps ==
  ASSUME IInv, NEW c \in Clients, MarkClosing(c)
  PROVE  IInv'
<1> DEFINE i == op[c].rt
<1>1. /\ op \in Operations /\ op[c].pc = "mark" /\ op[c].kind = "close" /\ i \in Runtimes
      /\ rts[i].state \in {"closing", "closed"} /\ UNCHANGED <<app, taken, rts, issued>>
  BY DEF MarkClosing, At, IInv, TypeOK, OpInv
<1>2. CASE Return(c) /\ UNCHANGED <<entry, flight>>
  <2>1. ~Creating(c) /\ UNCHANGED <<app, taken, entry, flight, issued>>
    BY <1>1, <1>2 DEF Creating
  <2>2. rts' \in Instances /\ Closes(rts, rts')
    BY <1>1 DEF IInv, TypeOK, Closes
  <2> QED
    BY <1>2, <2>1, <2>2, LeaveKeeps
<1>3. CASE /\ entry = i /\ flight = NoFlight /\ entry' = None
           /\ flight' = [kind |-> "close", of |-> i] /\ Step(c, "done")
  <2>1. /\ op' \in Operations /\ op'[c].pc = "done" /\ op'[c].rt = i
        /\ op'[c].kind = "close" /\ \A d \in Clients : d # c => op'[d] = op[d]
    BY <1>1, <1>3, StepFields DEF Steps
  <2>2. /\ flight'.kind = "close" /\ flight'.of = i /\ flight.kind = "none"
        /\ flight' \in [kind: {"none", "create", "close"}, of: Clients \cup Runtimes \cup {None}]
    BY <1>1, <1>3 DEF NoFlight
  <2> HIDE DEF i
  <2>3. \A d \in Clients : ~Creating(d) /\ ~Holding(d)
    BY <2>2 DEF IInv, FlightInv, Creating, Holding
  <2>4. \A d \in Clients : ~Creating(d)' /\ ~Holding(d)'
    BY <2>1, <2>3 DEF Creating, Holding
  <2>5. \A j \in Runtimes : (Alive(j) => j = i) /\ rts[j].state # "ready"
    BY <1>1, <1>3, <2>2, <2>3 DEF IInv, RuntimeInv
  <2>6. TypeOK' /\ app' = "running"
    BY <1>1, <1>3, <2>1, <2>2 DEF IInv, TypeOK
  <2>7. FlightInv'
    BY <1>1, <1>3, <2>2, <2>4 DEF FlightInv
  <2>8. OpInv'
    <3>1. \A d \in Clients : op'[d].rt = op[d].rt
      BY <2>1 DEF i
    <3> QED
      BY <1>1, <2>1, <2>4, <3>1 DEF IInv, OpInv
  <2>9. RuntimeInv'
    BY <1>1, <1>3, <2>2, <2>5 DEF IInv, RuntimeInv, Alive
  <2> QED
    BY <2>6, <2>7, <2>8, <2>9 DEF IInv
<1> QED
  BY <1>2, <1>3 DEF MarkClosing

-----------------------------------------------------------------------------
(* The theorems.                                                           *)

\* The inductive step while the application runs: one case per action.
LEMMA RunningStep ==
  ASSUME IInv, [Next]_vars, ~StopBegin
  PROVE  IInv'
<1>1. CASE UNCHANGED vars
  <2>1. /\ UNCHANGED <<app, taken, entry, flight, rts, op, issued>>
        /\ rts' \in Instances /\ Closes(rts, rts') /\ op' \in Operations /\ issued' \in Nat
    BY <1>1 DEF vars, IInv, TypeOK, Closes
  <2>2. \A d \in Clients : Stays(d)
    BY <2>1 DEF Stays
  <2> QED
    BY <2>1, <2>2, QuietStep
<1>2. ASSUME NEW c \in Clients, Resume(c) \/ Close(c) PROVE IInv'
  BY <1>2, IssueKeeps DEF Resume, Close
<1>3. ASSUME NEW c \in Clients, ResumeStep(c) PROVE IInv'
  BY <1>3, LookupKeeps, WaitCanceledKeeps, CreateKeeps, CreateFailsKeeps, CheckContextKeeps,
     AbortedKeeps, RegisterKeeps, OpenBodyKeeps, OpenedKeeps, OpenRefusedKeeps, DiscardKeeps
  DEF ResumeStep
<1>4. ASSUME NEW c \in Clients, CloseStep(c) PROVE IInv'
  BY <1>4, FindKeeps, BeginCloseKeeps, MarkClosingKeeps, CloseDoneKeeps DEF CloseStep
<1>5. ASSUME NEW c \in Clients, Disconnect(c) PROVE IInv'
  BY <1>5, DisconnectKeeps
<1>6. ASSUME NEW i \in Runtimes, FinishClose(i) \/ FailClosed(i) PROVE IInv'
  BY <1>6, RuntimeEndsKeeps
<1>7. CASE RemoveTombstone
  BY <1>7, RemoveTombstoneKeeps
<1>8. ~StopStep /\ \A c \in Clients : ~LifetimeOver(c)
  BY DEF StopStep, CloseAll, CloseTaken, CloseAllDone, Drained, LifetimeOver, IInv
<1> QED
  BY <1>1, <1>2, <1>3, <1>4, <1>5, <1>6, <1>7, <1>8 DEF Next

\* A stop is not taken back: finishStop is the last thing it does.
LEMMA StopIsFinal ==
  ASSUME app # "running", [Next]_vars
  PROVE  app' # "running"
<1>1. ASSUME NEW c \in Clients, Resume(c) \/ Close(c) PROVE app' # "running"
  BY <1>1 DEF Resume, Close, Issue
<1>2. ASSUME NEW c \in Clients, ResumeStep(c) PROVE app' # "running"
  BY <1>2 DEF ResumeStep, Lookup, WaitCanceled, Create, CreateFails, CheckContext, Aborted,
     Register, OpenBody, Opened, OpenRefused, Discard
<1>3. ASSUME NEW c \in Clients, CloseStep(c) PROVE app' # "running"
  BY <1>3 DEF CloseStep, Find, BeginClose, MarkClosing, CloseDone
<1>4. ASSUME NEW c \in Clients, Disconnect(c) \/ LifetimeOver(c) PROVE app' # "running"
  BY <1>4 DEF Disconnect, LifetimeOver
<1>5. ASSUME NEW i \in Runtimes, FinishClose(i) \/ FailClosed(i) PROVE app' # "running"
  BY <1>5 DEF FinishClose, FailClosed
<1>6. CASE RemoveTombstone \/ StopBegin \/ StopStep
  BY <1>6 DEF RemoveTombstone, StopBegin, StopStep, CloseAll, CloseTaken, CloseAllDone, Drained
<1>7. CASE UNCHANGED vars
  BY <1>7 DEF vars
<1> QED
  BY <1>1, <1>2, <1>3, <1>4, <1>5, <1>6, <1>7 DEF Next

\* The invariant of the whole life of the application.
SafeUntilStop == app = "running" => IInv

\* A step keeps it, or is the one that begins the stop, or comes after it.
LEMMA NextSafe == SafeUntilStop /\ [Next]_vars => SafeUntilStop'
<1>1. CASE app # "running"
  BY <1>1, StopIsFinal DEF SafeUntilStop
<1>2. CASE StopBegin
  BY <1>2 DEF SafeUntilStop, StopBegin
<1>3. CASE app = "running" /\ ~StopBegin
  BY <1>3, RunningStep DEF SafeUntilStop
<1> QED
  BY <1>1, <1>2, <1>3

\* It holds in every reachable state.
LEMMA SafeInvariance == Spec => []SafeUntilStop
<1>1. Init => SafeUntilStop
  BY InitInv DEF SafeUntilStop
<1> QED
  BY <1>1, NextSafe, PTL DEF Spec

\* Until the application stops, getOrCreate, markClosing and discard keep a
\* Session's Runtime unique, whatever clients resume, close and disconnect and
\* however Runtimes fail.
THEOREM SingleRuntime == Spec => []OneRuntime
<1>1. SafeUntilStop => OneRuntime
  BY InvImplies DEF SafeUntilStop, OneRuntime
<1> QED
  BY SafeInvariance, <1>1, PTL

\* Until the application stops, a Runtime that clients can use is the one that
\* registry.entries names, so a Close can always reach it.
THEOREM ReadyReachable == Spec => []ReadyIsReachable
<1>1. SafeUntilStop => ReadyIsReachable
  BY InvImplies DEF SafeUntilStop, ReadyIsReachable
<1> QED
  BY SafeInvariance, <1>1, PTL
=============================================================================
