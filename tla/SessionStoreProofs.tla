--------------------------- MODULE SessionStoreProofs ---------------------------
(***************************************************************************)
(* Every aggregate that SessionStore commits or recovers to can be read    *)
(* again (CommittedReadable), for any number of Runs, messages, calls,     *)
(* attempts, hooks, keys and any bounds.                                   *)
(*                                                                         *)
(* CommittedReadable is not inductive: what Install publishes is the       *)
(* transaction's clone.  The inductive invariant says of the clone what    *)
(* DocumentValid says of the aggregate, except that inside a transaction a *)
(* queue claim may name a Run that is not (or not yet) active, which       *)
(* validateQueueClaims only looks at when the transaction closes.          *)
(***************************************************************************)
EXTENDS SessionStore, SessionAggregateProofs

IInv ==
  /\ TypeOK
  /\ DocumentValid(agg)
  /\ Sound(work)
  /\ phase = "recover" => ClaimsBelong(work)

-----------------------------------------------------------------------------
(* The changes of a transaction.                                           *)

\* A change that Change accepts moves the clone and nothing else.
LEMMA ChangeKeeps ==
  ASSUME IInv, NEW ok, NEW b \in Aggregate, Sound(b), Change(ok, b)
  PROVE  IInv'
BY DEF Change, IInv, TypeOK

\* The changes of the run state, the configuration and the Context keep the
\* inductive invariant.
LEMMA RunChangeKeeps ==
  ASSUME IInv, RunChange
  PROVE  IInv'
<1>1. work \in Aggregate /\ Sound(work) /\ work.config \in Configs
  BY DEF IInv, TypeOK, Aggregate
<1>2. CASE \E r \in Runs : StartRunChange(r)
  <2>1. PICK r \in Runs : StartRunChange(r)
    BY <1>2
  <2> DEFINE f == [kind |-> "run", id |-> r, run |-> r, ref |-> None, val |-> "started",
                   cfg |-> work.config, num |-> 0]
  <2>2. f \in Fact
    BY <1>1 DEF Fact, FactKinds, FactIds
  <2>3. Admissible(work.history, f) /\ f.kind \notin {"call", "result"}
    BY <2>1 DEF StartRunChange, Change, CanStartRun, Admissible
  <2>4. StartRun(work, r, work.config) = With(work, f)
    BY DEF StartRun, Log, FactOf, With
  <2> HIDE DEF f
  <2>5. StartRun(work, r, work.config) \in Aggregate /\ Sound(StartRun(work, r, work.config))
    BY <1>1, <2>2, <2>3, <2>4, PlainFact
  <2> QED
    BY <2>1, <2>5, ChangeKeeps DEF StartRunChange
<1>3. CASE \E r \in Runs : RunningChange(r)
  <2>1. PICK r \in Runs : RunningChange(r)
    BY <1>3
  <2>2. \A c \in Calls : work.journal[c].status \notin Unfinished
    BY <1>1, <2>1 DEF RunningChange, Change, CanSetRunning, Sound, JournalValid, Active
  <2>3. SetRunning(work, r) \in Aggregate /\ Sound(SetRunning(work, r))
    BY <1>1, <2>2, RunStateSound
  <2> QED
    BY <2>1, <2>3, ChangeKeeps DEF RunningChange
<1>4. CASE \E r \in Runs, g \in Configs, o \in RunEnds : EndRunChange(r, g, o)
  <2>1. PICK r \in Runs, g \in Configs, o \in RunEnds : EndRunChange(r, g, o)
    BY <1>4
  <2> DEFINE f == [kind |-> "run", id |-> r, run |-> r, ref |-> None, val |-> o,
                   cfg |-> g, num |-> 0]
  <2>2. f \in Fact
    BY DEF Fact, FactKinds, FactIds
  <2>3. Admissible(work.history, f) /\ f.kind \notin {"call", "result"}
    BY <2>1 DEF EndRunChange, Change, CanEndRun, Admissible, RunEnds
  <2>4. EndRun(work, r, g, o) = With(work, f)
    BY DEF EndRun, Log, FactOf, With
  <2> HIDE DEF f
  <2>5. EndRun(work, r, g, o) \in Aggregate /\ Sound(EndRun(work, r, g, o))
    BY <1>1, <2>2, <2>3, <2>4, PlainFact
  <2> QED
    BY <2>1, <2>5, ChangeKeeps DEF EndRunChange
<1>5. CASE \E g \in Configs : ConfigChange(g)
  <2>1. PICK g \in Configs : ConfigChange(g)
    BY <1>5
  <2> DEFINE f == [kind |-> "config", id |-> None, run |-> None, ref |-> None,
                   val |-> "none", cfg |-> g, num |-> 0]
             b == With(work, f)
             d == [b EXCEPT !.config = g]
  <2>2. f \in Fact
    BY DEF Fact, FactKinds, FactIds
  <2>3. Admissible(work.history, f) /\ f.kind \notin {"call", "result"}
    BY DEF Admissible
  <2>4. SetModelConfig(work, g) = d
    BY DEF SetModelConfig, Log, FactOf, With
  <2> HIDE DEF f
  <2>5. b \in Aggregate /\ Sound(b)
    BY <1>1, <2>2, <2>3, PlainFact
  <2> HIDE DEF b
  <2>6. /\ d \in Aggregate /\ d.history = b.history /\ d.queue = b.queue
        /\ d.journal = b.journal /\ d.ext = b.ext /\ d.runState = b.runState
        /\ d.activeRun = b.activeRun /\ d.ctx = b.ctx /\ d.retained = b.retained
    BY <2>5 DEF Aggregate
  <2> HIDE DEF d
  <2>7. JournalValid(d)
    BY <2>5, <2>6 DEF Sound, JournalValid, Active
  <2>8. d \in Aggregate /\ Sound(d)
    BY <2>5, <2>6, <2>7 DEF Sound, RunStateValid, ExtensionsValid, ContextValid
  <2> QED
    BY <2>1, <2>4, <2>8, ChangeKeeps DEF ConfigChange
<1>6. CASE \E r \in Runs, g \in Configs, b \in BOOLEAN : ContextChange(r, g, b)
  <2>1. PICK r \in Runs, g \in Configs, b \in BOOLEAN : ContextChange(r, g, b)
    BY <1>6
  <2>2. CanSetContext(work, r, g)
    BY <2>1 DEF ContextChange, Change
  <2>3. SetContext(work, r, g, b) \in Aggregate /\ Sound(SetContext(work, r, g, b))
    BY <1>1, <2>2, ContextSound
  <2> QED
    BY <2>1, <2>3, ChangeKeeps DEF ContextChange
<1> QED
  BY <1>2, <1>3, <1>4, <1>5, <1>6 DEF RunChange

\* The Queue's changes keep the inductive invariant.
LEMMA QueueChangeKeeps ==
  ASSUME IInv, QueueChange
  PROVE  IInv'
<1>1. work \in Aggregate /\ Sound(work)
  BY DEF IInv, TypeOK
<1>2. CASE \E m \in Messages, d \in Deliveries : EnqueueChange(m, d)
  <2>1. PICK m \in Messages, d \in Deliveries : EnqueueChange(m, d)
    BY <1>2
  <2>2. CanEnqueue(work, m)
    BY <2>1 DEF EnqueueChange, Change
  <2>3. Enqueue(work, m, d) \in Aggregate /\ Sound(Enqueue(work, m, d))
    BY <1>1, <2>2, EnqueueSound
  <2> QED
    BY <2>1, <2>3, ChangeKeeps DEF EnqueueChange
<1>3. CASE \E m \in Messages, d \in Deliveries : ReclassifyChange(m, d)
  <2>1. PICK m \in Messages, d \in Deliveries : ReclassifyChange(m, d)
    BY <1>3
  <2>2. Reclassify(work, m, d) \in Aggregate /\ Sound(Reclassify(work, m, d))
    BY <1>1, ReclassifySound
  <2> QED
    BY <2>1, <2>2, ChangeKeeps DEF ReclassifyChange
<1>4. CASE \E m \in Messages, r \in Runs : ClaimChange(m, r)
  <2>1. PICK m \in Messages, r \in Runs : ClaimChange(m, r)
    BY <1>4
  <2>2. Claim(work, m, r) \in Aggregate /\ Sound(Claim(work, m, r))
    BY <1>1, ClaimSound
  <2> QED
    BY <2>1, <2>2, ChangeKeeps DEF ClaimChange
<1>5. CASE \E m \in Messages, r \in Runs : ConsumeChange(m, r)
  <2>1. PICK m \in Messages, r \in Runs : ConsumeChange(m, r)
    BY <1>5
  <2>2. InQueue(work.queue, m)
    BY <2>1 DEF ConsumeChange, Change, CanConsume, InQueue
  <2>3. Consume(work, m) = [work EXCEPT !.queue = WithoutItem(work.queue, m)]
    BY DEF Consume
  <2>4. Consume(work, m) \in Aggregate /\ Sound(Consume(work, m))
    BY <1>1, <2>2, <2>3, WithoutSound
  <2> QED
    BY <2>1, <2>4, ChangeKeeps DEF ConsumeChange
<1>6. CASE \E m \in Messages : DeleteChange(m)
  <2>1. PICK m \in Messages : DeleteChange(m)
    BY <1>6
  <2>2. InQueue(work.queue, m)
    BY <2>1 DEF DeleteChange, Change, CanRevise, Unclaimed, InQueue
  <2>3. Delete(work, m) = [work EXCEPT !.queue = WithoutItem(work.queue, m)]
    BY DEF Delete
  <2>4. Delete(work, m) \in Aggregate /\ Sound(Delete(work, m))
    BY <1>1, <2>2, <2>3, WithoutSound
  <2> QED
    BY <2>1, <2>4, ChangeKeeps DEF DeleteChange
<1> QED
  BY <1>2, <1>3, <1>4, <1>5, <1>6 DEF QueueChange

\* Messages, tool calls, results and finished attempts keep the inductive
\* invariant.
LEMMA HistoryChangeKeeps ==
  ASSUME IInv, HistoryChange
  PROVE  IInv'
<1>1. work \in Aggregate /\ Sound(work)
  BY DEF IInv, TypeOK
<1>2. CASE \E m \in Messages, r \in Runs \cup {None}, role \in {"user", "assistant"} :
             MessageChange(m, r, role)
  <2>1. PICK m \in Messages, r \in Runs \cup {None}, role \in {"user", "assistant"} :
          MessageChange(m, r, role)
    BY <1>2
  <2> DEFINE f == [kind |-> "message", id |-> m, run |-> r, ref |-> None, val |-> role,
                   cfg |-> None, num |-> 0]
  <2>2. f \in Fact
    BY DEF Fact, FactKinds, FactIds
  <2>3. Admissible(work.history, f) /\ f.kind \notin {"call", "result"}
    BY <2>1 DEF MessageChange, Change, CanAppendMessage, Admissible
  <2>4. AppendMessage(work, m, r, role) = With(work, f)
    BY DEF AppendMessage, Log, FactOf, With
  <2> HIDE DEF f
  <2>5. AppendMessage(work, m, r, role) \in Aggregate /\ Sound(AppendMessage(work, m, r, role))
    BY <1>1, <2>2, <2>3, <2>4, PlainFact
  <2> QED
    BY <2>1, <2>5, ChangeKeeps DEF MessageChange
<1>3. CASE \E c \in Calls, m \in Messages, r \in Runs, s \in Unfinished :
             AdmitChange(c, m, r, s)
  <2>1. PICK c \in Calls, m \in Messages, r \in Runs, s \in Unfinished :
          AdmitChange(c, m, r, s)
    BY <1>3
  <2>2. CanAdmitToolCall(work, c, m, r)
    BY <2>1 DEF AdmitChange, Change
  <2>3. /\ AdmitToolCall(work, c, m, r, s) \in Aggregate
        /\ Sound(AdmitToolCall(work, c, m, r, s))
    BY <1>1, <2>2, AdmitSound
  <2> QED
    BY <2>1, <2>3, ChangeKeeps DEF AdmitChange
<1>4. CASE \E c \in Calls, s \in JournalTerminal : SettleChange(c, s)
  <2>1. PICK c \in Calls, s \in JournalTerminal : SettleChange(c, s)
    BY <1>4
  <2>2. work.journal[c].status \in Unfinished
    BY <2>1 DEF SettleChange, Change, CanSettleToolCall
  <2>3. SettleToolCall(work, c, s) \in Aggregate /\ Sound(SettleToolCall(work, c, s))
    BY <1>1, <2>2, SettleSound
  <2> QED
    BY <2>1, <2>3, ChangeKeeps DEF SettleChange
<1>5. CASE \E x \in Attempts, r \in Runs, g \in Configs, o \in AttemptEnds, t \in 0..MaxTokens :
             FinishAttemptChange(x, r, g, o, t)
  <2>1. PICK x \in Attempts, r \in Runs, g \in Configs, o \in AttemptEnds, t \in 0..MaxTokens :
          FinishAttemptChange(x, r, g, o, t)
    BY <1>5
  <2>2. CanFinishAttempt(work, x, r, g)
    BY <2>1 DEF FinishAttemptChange, Change
  <2>3. t \in Nat
    BY BoundsAssumption
  <2>4. /\ FinishAttempt(work, x, r, g, o, t) \in Aggregate
        /\ Sound(FinishAttempt(work, x, r, g, o, t))
    BY <1>1, <2>2, <2>3, FinishAttemptSound
  <2> QED
    BY <2>1, <2>4, ChangeKeeps DEF FinishAttemptChange
<1> QED
  BY <1>2, <1>3, <1>4, <1>5 DEF HistoryChange

\* The ExtensionJournal's changes keep the inductive invariant.
LEMMA ExtensionChangeKeeps ==
  ASSUME IInv, ExtensionChange
  PROVE  IInv'
<1> DEFINE E == EntryOf(Invocations, Runs \cup {None})
<1>1. work \in Aggregate /\ Sound(work)
  BY DEF IInv, TypeOK
<1>2. CASE \E v \in Invocations, b \in Boundaries, r \in Runs \cup {None} :
             AddEntryChange(NewEntry(v, b, r))
  <2>1. PICK v \in Invocations, b \in Boundaries, r \in Runs \cup {None} :
          AddEntryChange(NewEntry(v, b, r))
    BY <1>2
  <2>2. NewEntry(v, b, r) \in E
    BY DEF NewEntry, EntryOf, Statuses, Effects, Contexts, Decisions
  <2>3. CanAddEntry(work, NewEntry(v, b, r))
    BY <2>1 DEF AddEntryChange, Change
  <2>4. /\ AddEntry(work, NewEntry(v, b, r)) \in Aggregate
        /\ Sound(AddEntry(work, NewEntry(v, b, r)))
    BY <1>1, <2>2, <2>3, AddEntrySound
  <2> QED
    BY <2>1, <2>4, ChangeKeeps DEF AddEntryChange
<1>3. CASE \E i \in DOMAIN work.ext, s \in EntryStates : UpdateEntryChange(i, s)
  <2>1. PICK i \in DOMAIN work.ext, s \in EntryStates : UpdateEntryChange(i, s)
    BY <1>3
  <2> DEFINE e == [work.ext[i] EXCEPT !.status = s.status, !.effect = s.effect,
                                      !.context = s.context, !.decision = s.decision]
  <2>2. work.ext[i] \in E
    <3>1. work.ext \in Seq(E)
      BY <1>1 DEF Aggregate
    <3> HIDE DEF E
    <3> QED
      BY <3>1, LenProperties
  <2>3. e \in E
    BY <2>2 DEF EntryOf, EntryStates
  <2>4. Change(CanUpdateEntry(work, i, e), UpdateEntry(work, i, e))
    BY <2>1 DEF UpdateEntryChange
  <2> HIDE DEF e
  <2>5. CanUpdateEntry(work, i, e)
    BY <2>4 DEF Change
  <2>6. UpdateEntry(work, i, e) \in Aggregate /\ Sound(UpdateEntry(work, i, e))
    BY <1>1, <2>3, <2>5, UpdateEntrySound
  <2> QED
    BY <2>4, <2>6, ChangeKeeps
<1> QED
  BY <1>2, <1>3 DEF ExtensionChange

\* The changes that need the caller's promise.
LEMMA PromisedChangeKeeps ==
  ASSUME IInv, PromisedChange(TRUE)
  PROVE  IInv'
<1>1. work \in Aggregate /\ Sound(work)
  BY DEF IInv, TypeOK
<1>2. CASE \E c \in Calls, r \in Runs : work.journal[c].status = "prepared" /\ PendingChange(c, r)
  <2>1. PICK c \in Calls, r \in Runs : work.journal[c].status = "prepared" /\ PendingChange(c, r)
    BY <1>2
  <2>2. CanMarkPending(work, c, r)
    BY <2>1 DEF PendingChange, Change
  <2>3. MarkPending(work, c, r) \in Aggregate /\ Sound(MarkPending(work, c, r))
    BY <1>1, <2>1, <2>2, PendingSound
  <2> QED
    BY <2>1, <2>3, ChangeKeeps DEF PendingChange
<1>3. CASE \E r \in Runs : /\ \A c \in Calls : work.journal[c].status \notin Unfinished
                           /\ IdleChange(r)
  <2>1. PICK r \in Runs : /\ \A c \in Calls : work.journal[c].status \notin Unfinished
                          /\ IdleChange(r)
    BY <1>3
  <2>2. SetIdle(work) \in Aggregate /\ Sound(SetIdle(work))
    BY <1>1, <2>1, RunStateSound
  <2> QED
    BY <2>1, <2>2, ChangeKeeps DEF IdleChange
<1>4. CASE \E r \in Runs, x \in Attempts, g \in Configs : OpenRun(r) /\ StartAttemptChange(x, r, g)
  <2>1. PICK r \in Runs, x \in Attempts, g \in Configs : OpenRun(r) /\ StartAttemptChange(x, r, g)
    BY <1>4
  <2> DEFINE f == [kind |-> "attempt", id |-> x, run |-> r, ref |-> None, val |-> "started",
                   cfg |-> g, num |-> 0]
  <2>2. f \in Fact
    BY DEF Fact, FactKinds, FactIds
  <2>3. Admissible(work.history, f) /\ f.kind \notin {"call", "result"}
    BY <2>1 DEF StartAttemptChange, Change, CanStartAttempt, OpenRun, Admissible
  <2>4. StartAttempt(work, x, r, g) = With(work, f)
    BY DEF StartAttempt, Log, FactOf, With
  <2> HIDE DEF f
  <2>5. StartAttempt(work, x, r, g) \in Aggregate /\ Sound(StartAttempt(work, x, r, g))
    BY <1>1, <2>2, <2>3, <2>4, PlainFact
  <2> QED
    BY <2>1, <2>5, ChangeKeeps DEF StartAttemptChange
<1>5. CASE \E r \in Runs, k \in ContextKeys : OpenRun(r) /\ ContributeChange(k, r)
  <2>1. PICK r \in Runs, k \in ContextKeys : OpenRun(r) /\ ContributeChange(k, r)
    BY <1>5
  <2> DEFINE f == [kind |-> "context", id |-> k, run |-> r, ref |-> None, val |-> "none",
                   cfg |-> None, num |-> 0]
  <2>2. f \in Fact
    BY DEF Fact, FactKinds, FactIds
  <2>3. Admissible(work.history, f) /\ f.kind \notin {"call", "result"}
    BY <2>1 DEF ContributeChange, Change, CanContribute, OpenRun, Admissible
  <2>4. Contribute(work, k, r) = With(work, f)
    BY DEF Contribute, Log, FactOf, With
  <2> HIDE DEF f
  <2>5. Contribute(work, k, r) \in Aggregate /\ Sound(Contribute(work, k, r))
    BY <1>1, <2>2, <2>3, <2>4, PlainFact
  <2> QED
    BY <2>1, <2>5, ChangeKeeps DEF ContributeChange
<1>6. CASE \E r \in Runs, what \in LimitKinds, used \in 0..(MaxFacts * (MaxTokens + 1)) :
             OpenRun(r) /\ LimitChange(r, what, used)
  <2>1. PICK r \in Runs, what \in LimitKinds, used \in 0..(MaxFacts * (MaxTokens + 1)) :
          OpenRun(r) /\ LimitChange(r, what, used)
    BY <1>6
  <2> DEFINE f == [kind |-> "limit", id |-> None, run |-> r, ref |-> None, val |-> what,
                   cfg |-> None, num |-> used]
  <2>2. f \in Fact
    <3>1. used \in Nat
      OBVIOUS
    <3> QED
      BY <3>1 DEF Fact, FactKinds, FactIds
  <2>3. Admissible(work.history, f) /\ f.kind \notin {"call", "result"}
    BY <2>1 DEF LimitChange, Change, CanReachLimit, LimitReached, OpenRun, Admissible
  <2>4. ReachLimit(work, r, what, used) = With(work, f)
    BY DEF ReachLimit, Log, FactOf, With
  <2> HIDE DEF f
  <2>5. ReachLimit(work, r, what, used) \in Aggregate /\ Sound(ReachLimit(work, r, what, used))
    BY <1>1, <2>2, <2>3, <2>4, PlainFact
  <2> QED
    BY <2>1, <2>5, ChangeKeeps DEF LimitChange
<1> QED
  BY <1>2, <1>3, <1>4, <1>5, <1>6, Zenon DEF PromisedChange

-----------------------------------------------------------------------------
(* The ends of a transaction, recovery and the theorems.                   *)

\* validateFileDocument demands soundness and the closing check of the claims.
LEMMA DocumentIsSound ==
  ASSUME NEW a
  PROVE  DocumentValid(a) <=> Sound(a) /\ ClaimsBelong(a)
BY DEF DocumentValid, Sound, HistoryValid, QueueValid, QueueUnique

\* Advancing the revision changes nothing validateFileDocument looks at.
LEMMA NextRevisionSound ==
  ASSUME NEW a \in Aggregate, Sound(a), ClaimsBelong(a)
  PROVE  /\ NextRevision(a) \in Aggregate /\ Sound(NextRevision(a))
         /\ ClaimsBelong(NextRevision(a))
<1> DEFINE b == NextRevision(a)
<1>1. /\ b \in Aggregate /\ b.history = a.history /\ b.queue = a.queue
      /\ b.journal = a.journal /\ b.ext = a.ext /\ b.runState = a.runState
      /\ b.activeRun = a.activeRun /\ b.ctx = a.ctx /\ b.retained = a.retained
  <2>1. a.rev + 1 \in Nat
    BY DEF Aggregate
  <2> QED
    BY <2>1 DEF NextRevision, Aggregate
<1> HIDE DEF b
<1>2. JournalValid(b)
  BY <1>1 DEF Sound, JournalValid, Active
<1>3. b \in Aggregate /\ Sound(b) /\ ClaimsBelong(b)
  BY <1>1, <1>2 DEF Sound, RunStateValid, ExtensionsValid, ContextValid, ClaimsBelong, Active
<1> QED
  BY <1>3 DEF b

\* Replay, refusal, begin, install and abort of Commit keep the inductive
\* invariant.
LEMMA CommitKeeps ==
  ASSUME IInv, Commit
  PROVE  IInv'
<1>0. agg \in Aggregate /\ agg.rev \in Nat /\ Sound(agg)
  BY DocumentIsSound DEF IInv, TypeOK, Aggregate
<1>1. CASE \E k \in Keys, f \in Fingerprints : Replay(k, f)
  <2>1. PICK k \in Keys, f \in Fingerprints : Replay(k, f)
    BY <1>1
  <2>2. idem[k].rev \in Nat
    BY DEF IInv, TypeOK, Record
  <2>3. reply' \in Reply
    BY <2>1, <2>2 DEF Replay, Answer, Reply
  <2> QED
    BY <2>1, <2>3 DEF Replay, IInv, TypeOK
<1>2. CASE \E k \in Keys, f \in Fingerprints, e \in 1..MaxRev : RefuseStale(k, f, e)
  <2>1. PICK k \in Keys, f \in Fingerprints, e \in 1..MaxRev : RefuseStale(k, f, e)
    BY <1>2
  <2>2. reply' \in Reply
    BY <1>0, <2>1 DEF RefuseStale, Answer, Reply
  <2> QED
    BY <2>1, <2>2 DEF RefuseStale, IInv, TypeOK
<1>3. CASE \E k \in Keys, f \in Fingerprints, e \in 1..MaxRev : BeginCommit(k, f, e)
  BY <1>0, <1>3 DEF BeginCommit, IInv, TypeOK
<1>4. CASE Install
  <2>1. agg' = NextRevision(work) /\ work' = agg' /\ phase' = "free" /\ txn' = NoTxn
    BY <1>4 DEF Install
  <2>2. work \in Aggregate /\ Sound(work) /\ ClaimsBelong(work)
    BY <1>4 DEF Install, CanCommit, IInv, TypeOK
  <2>3. agg' \in Aggregate /\ Sound(agg') /\ ClaimsBelong(agg')
    BY <2>1, <2>2, NextRevisionSound
  <2>4. agg.rev + 1 \in Nat /\ txn.key \in Keys \cup {None} /\ txn.fp \in Fingerprints \cup {None}
    BY <1>0 DEF IInv, TypeOK
  <2>5. idem' \in [Keys -> Record] /\ reply' \in Reply
    BY <1>4, <2>4 DEF Install, Answer, Record, Reply, IInv, TypeOK
  <2>6. DocumentValid(agg')
    BY <2>3, DocumentIsSound
  <2> QED
    BY <2>1, <2>3, <2>5, <2>6 DEF IInv, TypeOK, NoTxn
<1>5. CASE Abort
  <2>1. reply' \in Reply
    BY <1>0, <1>5 DEF Abort, Answer, Reply, IInv, TypeOK
  <2> QED
    BY <1>0, <1>5, <2>1 DEF Abort, IInv, TypeOK, NoTxn
<1> QED
  BY <1>1, <1>2, <1>3, <1>4, <1>5 DEF Commit

\* Every step of Recover keeps the inductive invariant.
LEMMA RecoverKeeps ==
  ASSUME IInv, Recover
  PROVE  IInv'
<1>0. /\ work \in Aggregate /\ Sound(work)
      /\ agg \in Aggregate /\ Sound(agg) /\ ClaimsBelong(agg)
  BY DocumentIsSound DEF IInv, TypeOK
<1>1. CASE BeginRecover
  <2>1. work' \in Aggregate /\ Sound(work')
    BY <1>0, <1>1, RecoverExtensionsSound DEF BeginRecover
  <2>2. work'.queue = agg.queue /\ work'.runState = agg.runState
          /\ work'.activeRun = agg.activeRun
    BY <1>0, <1>1 DEF BeginRecover, RecoverExtensions, Aggregate
  <2>3. ClaimsBelong(work')
    BY <1>0, <2>2 DEF ClaimsBelong, Active
  <2> QED
    BY <1>1, <2>1, <2>3 DEF BeginRecover, IInv, TypeOK
<1>2. CASE \E x \in Attempts, r \in Runs, g \in Configs : RecoverAttemptStep(x, r, g)
  <2>1. PICK x \in Attempts, r \in Runs, g \in Configs : RecoverAttemptStep(x, r, g)
    BY <1>2
  <2>2. CanFinishAttempt(work, x, r, g) /\ "outcome_unknown" \in AttemptEnds /\ 0 \in Nat
    BY <2>1 DEF RecoverAttemptStep, Orphan, CanFinishAttempt, AttemptEnds
  <2>3. work' = FinishAttempt(work, x, r, g, "outcome_unknown", 0)
    BY <2>1 DEF RecoverAttemptStep, RecoverAttempt
  <2>4. work' \in Aggregate /\ Sound(work')
    BY <1>0, <2>2, <2>3, FinishAttemptSound
  <2>5. work'.queue = work.queue /\ work'.runState = work.runState
          /\ work'.activeRun = work.activeRun
    BY <1>0, <2>3 DEF FinishAttempt, Log, FactOf, Aggregate
  <2>6. ClaimsBelong(work')
    BY <2>1, <2>5 DEF RecoverAttemptStep, IInv, ClaimsBelong, Active
  <2> QED
    BY <2>1, <2>4, <2>6 DEF RecoverAttemptStep, IInv, TypeOK
<1>3. CASE \E c \in Calls : RecoverCallStep(c)
  <2>1. PICK c \in Calls : RecoverCallStep(c)
    BY <1>3
  <2>2. work' \in Aggregate /\ Sound(work')
    BY <1>0, <2>1, RecoverCallSound DEF RecoverCallStep
  <2>3. work'.queue = work.queue /\ work'.runState = work.runState
          /\ work'.activeRun = work.activeRun
    BY <1>0, <2>1 DEF RecoverCallStep, RecoverCall, Log, FactOf, Aggregate
  <2>4. ClaimsBelong(work')
    BY <2>1, <2>3 DEF RecoverCallStep, IInv, ClaimsBelong, Active
  <2> QED
    BY <2>1, <2>2, <2>4 DEF RecoverCallStep, IInv, TypeOK
<1>4. CASE \E g \in Configs : FinishRecover(g)
  <2>1. PICK g \in Configs : FinishRecover(g)
    BY <1>4
  <2> DEFINE done == IF work.runState = "running" /\ ~Recoverable(work)
                     THEN InterruptRun(work, g) ELSE work
  <2>2. agg' = (IF done = agg THEN agg ELSE NextRevision(done)) /\ work' = agg'
    BY <2>1 DEF FinishRecover
  <2>3. ClaimsBelong(work) /\ \A c \in Calls : work.journal[c].status # "pending"
    BY <2>1 DEF FinishRecover, IInv
  <2>4. done \in Aggregate /\ Sound(done) /\ ClaimsBelong(done)
    BY <1>0, <2>3, InterruptSound
  <2> HIDE DEF done
  <2>5. agg' \in Aggregate /\ Sound(agg') /\ ClaimsBelong(agg')
    BY <1>0, <2>2, <2>4, NextRevisionSound
  <2>6. DocumentValid(agg')
    BY <2>5, DocumentIsSound
  <2> QED
    BY <2>1, <2>2, <2>5, <2>6 DEF FinishRecover, IInv, TypeOK
<1> QED
  BY <1>1, <1>2, <1>3, <1>4 DEF Recover

\* A created Session satisfies the inductive invariant.
LEMMA InitSound == Init => IInv
<1> SUFFICES ASSUME Init PROVE IInv
  OBVIOUS
<1>1. PICK g \in Configs : agg = NewAggregate(g)
  BY DEF Init
<1>2. /\ NewAggregate(g).history = <<>> /\ NewAggregate(g).queue = <<>>
      /\ NewAggregate(g).ext = <<>> /\ NewAggregate(g).retained = <<>>
      /\ NewAggregate(g).runState = "idle" /\ NewAggregate(g).activeRun = None
      /\ NewAggregate(g).ctx.version = 0
      /\ \A c \in Calls : NewAggregate(g).journal[c].status = "absent"
  BY DEF NewAggregate
<1>3. NewAggregate(g) \in Aggregate
  BY DEF NewAggregate, Aggregate, JournalEntry, ContextView
<1>4. DocumentValid(agg)
  <2>1. HistoryValid(<<>>)
    BY DEF HistoryValid, MessagesUnique, CallsPaired, RunsPaired, AttemptsPaired,
           InsideRun, OncePerRun
  <2>2. JournalValid(agg)
    BY <1>1, <1>2 DEF JournalValid, Unfinished, JournalTerminal, HasCall
  <2>3. Sound(agg)
    BY <1>1, <1>2, <2>1, <2>2 DEF Sound, RunStateValid, QueueUnique, ContextValid,
                                  ExtensionsValid
  <2>4. ClaimsBelong(agg)
    BY <1>1, <1>2 DEF ClaimsBelong
  <2> QED
    BY <2>3, <2>4, DocumentIsSound
<1>5. Sound(work)
  BY <1>4, DocumentIsSound DEF Init
<1>6. TypeOK
  BY <1>1, <1>3 DEF Init, TypeOK, NoTxn, Record, Reply
<1> QED
  BY <1>4, <1>5, <1>6 DEF IInv, Init

\* The inductive step: one case per group of operations.
LEMMA NextKeeps == IInv /\ [Next]_vars => IInv'
<1> SUFFICES ASSUME IInv, [Next]_vars PROVE IInv'
  OBVIOUS
<1>1. CASE Commit
  BY <1>1, CommitKeeps
<1>2. CASE Recover
  BY <1>2, RecoverKeeps
<1>3. CASE RunChange
  BY <1>3, RunChangeKeeps
<1>4. CASE QueueChange
  BY <1>4, QueueChangeKeeps
<1>5. CASE HistoryChange
  BY <1>5, HistoryChangeKeeps
<1>6. CASE ExtensionChange
  BY <1>6, ExtensionChangeKeeps
<1>7. CASE PromisedChange(TRUE)
  BY <1>7, PromisedChangeKeeps
<1>8. CASE UNCHANGED vars
  BY <1>8 DEF vars, IInv, TypeOK
<1> QED
  BY <1>1, <1>2, <1>3, <1>4, <1>5, <1>6, <1>7, <1>8 DEF Next, StoreNext

\* The Store's inductive invariant: types, a readable committed aggregate and
\* a sound clone while a transaction or a recovery is running.
THEOREM Invariance == Spec => []IInv
BY InitSound, NextKeeps, PTL DEF Spec

\* The Store's variables keep their types under every transaction.
THEOREM TypeCorrect == Spec => []TypeOK
<1>1. IInv => TypeOK
  BY DEF IInv
<1> QED
  BY <1>1, Invariance, PTL

\* What MemoryStore.Commit and Recover publish, validateFileDocument accepts:
\* a Session that was committed can be recovered.
THEOREM CommittedIsReadable == Spec => []CommittedReadable
<1>1. IInv => CommittedReadable
  BY DEF IInv, CommittedReadable
<1> QED
  BY <1>1, Invariance, PTL
-----------------------------------------------------------------------------
(* Progress.  What one step does to the aggregate is known when the clone  *)
(* is installed, but what the clone did to the aggregate it was taken from *)
(* is the work of many steps.  Grows relates two aggregates so that the    *)
(* relation composes, and the invariant says it of agg and work.           *)

Extends(a, b) ==
  /\ b.rev = a.rev
  /\ Len(b.history) >= Len(a.history)
  /\ \A i \in DOMAIN a.history : b.history[i] = a.history[i]
  /\ \A c \in Calls : a.journal[c].status \in JournalTerminal => b.journal[c] = a.journal[c]
  /\ Len(b.ext) >= Len(a.ext)
  /\ \A i \in DOMAIN a.ext : a.ext[i].status \in TerminalStatuses =>
       b.ext[i].status = a.ext[i].status

RunsNamed(h) == \A i \in DOMAIN h : h[i].kind = "run" => h[i].id \in Runs

Recorded(h) == LimitsExact(h) /\ RunsNamed(h)

Grows(a, b) == Extends(a, b) /\ (Recorded(a.history) => Recorded(b.history))

\* The fact f may follow h without a limit fact becoming wrong.
Truthful(h, f) ==
  /\ f \in Fact
  /\ f.kind = "limit" => f.num = UsedBefore(h, Len(h), f.run, f.val)
  /\ f.kind = "run" => f.id \in Runs

NothingPending(e) == \A i \in DOMAIN e : e[i].status # "pending"

ProgressInv ==
  /\ Extends(agg, work) /\ Recorded(agg.history) /\ Recorded(work.history)
  /\ phase = "recover" =>
       /\ work.runState = agg.runState /\ work.activeRun = agg.activeRun
       /\ NothingPending(work.ext)

RetryInv ==
  /\ phase = "commit" =>
       txn.key \in Keys /\ txn.fp \in Fingerprints /\ idem[txn.key].fp = None
  /\ \A k \in Keys : idem[k].rev <= agg.rev
  /\ \A j, k \in Keys : idem[j].fp # None /\ idem[j].rev = idem[k].rev => j = k
  /\ reply.outcome \in {"applied", "replayed"} =>
       reply.key \in Keys /\ idem[reply.key] = [fp |-> reply.fp, rev |-> reply.rev]

\* A limit fact that appendRunBudgetExceededFact accepts reports the usage that
\* precedes it, and no later fact changes what precedes an earlier one.
LEMMA RecordedAppend ==
  ASSUME NEW h \in Seq(Fact), NEW f, Truthful(h, f), Recorded(h)
  PROVE  Recorded(Append(h, f))
<1> DEFINE n == Len(h)
           w == Append(h, f)
<1>1. /\ DOMAIN h = 1..n /\ n \in Nat /\ DOMAIN w = 1..(n + 1)
      /\ \A i \in 1..n : w[i] = h[i]
      /\ w[n + 1] = f
  BY AppendFacts DEF Truthful
<1> HIDE DEF w, n
<1>2. \A i \in DOMAIN w : (i \in 1..n /\ w[i] = h[i]) \/ (i = n + 1 /\ w[i] = f)
  BY <1>1
<1>3. RunsNamed(w)
  BY <1>1, <1>2 DEF RunsNamed, Truthful, Recorded
<1>4. LimitsExact(w)
  <2> SUFFICES ASSUME NEW i \in DOMAIN w, w[i].kind = "limit"
               PROVE  w[i].num = UsedBefore(w, i - 1, w[i].run, w[i].val)
    BY DEF LimitsExact
  <2>1. i - 1 \in Nat /\ \A j \in 1..(i - 1) : w[j] = h[j]
    BY <1>1, <1>2
  <2>2. UsedBefore(w, i - 1, w[i].run, w[i].val) = UsedBefore(h, i - 1, w[i].run, w[i].val)
    BY <2>1, UsedSame
  <2>3. CASE i \in 1..n /\ w[i] = h[i]
    <3>1. h[i].num = UsedBefore(h, i - 1, h[i].run, h[i].val)
      BY <1>1, <2>3 DEF Recorded, LimitsExact
    <3> QED
      BY <2>2, <2>3, <3>1
  <2>4. CASE i = n + 1 /\ w[i] = f
    <3>1. i - 1 = n
      BY <1>1, <2>4
    <3>2. f.num = UsedBefore(h, n, f.run, f.val)
      BY <2>4 DEF Truthful, n
    <3> QED
      BY <2>2, <2>4, <3>1, <3>2
  <2> QED
    BY <1>2, <2>3, <2>4
<1> QED
  BY <1>3, <1>4 DEF Recorded, w

\* Growing twice is growing: a transaction is a sequence of changes.
LEMMA ExtendsTwice ==
  ASSUME NEW a \in Aggregate, NEW b \in Aggregate, NEW d \in Aggregate,
         Extends(a, b), Extends(b, d)
  PROVE  Extends(a, d)
<1>1. /\ DOMAIN a.history = 1..Len(a.history) /\ DOMAIN b.history = 1..Len(b.history)
      /\ Len(a.history) \in Nat /\ Len(b.history) \in Nat /\ Len(d.history) \in Nat
  <2>1. a.history \in Seq(Fact) /\ b.history \in Seq(Fact) /\ d.history \in Seq(Fact)
    BY DEF Aggregate
  <2> QED
    BY <2>1, LenProperties
<1>2. /\ DOMAIN a.ext = 1..Len(a.ext) /\ DOMAIN b.ext = 1..Len(b.ext)
      /\ Len(a.ext) \in Nat /\ Len(b.ext) \in Nat /\ Len(d.ext) \in Nat
  <2> DEFINE E == EntryOf(Invocations, Runs \cup {None})
  <2>1. a.ext \in Seq(E) /\ b.ext \in Seq(E) /\ d.ext \in Seq(E)
    BY DEF Aggregate
  <2> HIDE DEF E
  <2> QED
    BY <2>1, LenProperties
<1>3. \A i \in DOMAIN a.history : i \in DOMAIN b.history
  BY <1>1 DEF Extends
<1>4. \A i \in DOMAIN a.ext : i \in DOMAIN b.ext
  BY <1>2 DEF Extends
<1>5. Len(d.history) >= Len(a.history) /\ Len(d.ext) >= Len(a.ext) /\ d.rev = a.rev
  BY <1>1, <1>2 DEF Extends
<1>6. \A i \in DOMAIN a.history : d.history[i] = a.history[i]
  BY <1>3 DEF Extends
<1>7. \A c \in Calls : a.journal[c].status \in JournalTerminal => d.journal[c] = a.journal[c]
  BY DEF Extends
<1>8. \A i \in DOMAIN a.ext : a.ext[i].status \in TerminalStatuses =>
        d.ext[i].status = a.ext[i].status
  BY <1>4 DEF Extends
<1> QED
  BY <1>5, <1>6, <1>7, <1>8 DEF Extends

\* A change of other fields of the Snapshot: Queue, run state, Context.
LEMMA OtherFieldsGrow ==
  ASSUME NEW a \in Aggregate, NEW b, b.rev = a.rev, b.history = a.history,
         b.journal = a.journal, b.ext = a.ext
  PROVE  Grows(a, b)
<1>1. Len(a.history) \in Nat /\ Len(a.ext) \in Nat
  <2> DEFINE E == EntryOf(Invocations, Runs \cup {None})
  <2>1. a.history \in Seq(Fact) /\ a.ext \in Seq(E)
    BY DEF Aggregate
  <2> HIDE DEF E
  <2> QED
    BY <2>1, LenProperties
<1> QED
  BY <1>1 DEF Grows, Extends

\* One more fact, with or without a move of the tool journal that leaves its
\* terminal entries alone.
LEMMA FactGrows ==
  ASSUME NEW a \in Aggregate, NEW f, Truthful(a.history, f), NEW b,
         b.rev = a.rev, b.history = Append(a.history, f), b.ext = a.ext,
         \A c \in Calls : a.journal[c].status \in JournalTerminal =>
           b.journal[c] = a.journal[c]
  PROVE  Grows(a, b)
<1>1. a.history \in Seq(Fact) /\ f \in Fact
  BY DEF Aggregate, Truthful
<1>2. Len(a.ext) \in Nat
  <2> DEFINE E == EntryOf(Invocations, Runs \cup {None})
  <2>1. a.ext \in Seq(E)
    BY DEF Aggregate
  <2> HIDE DEF E
  <2> QED
    BY <2>1, LenProperties
<1>3. /\ DOMAIN a.history = 1..Len(a.history) /\ Len(a.history) \in Nat
      /\ Len(b.history) = Len(a.history) + 1
      /\ \A i \in 1..Len(a.history) : b.history[i] = a.history[i]
  BY <1>1, AppendProperties, AppendFacts
<1>4. Recorded(a.history) => Recorded(b.history)
  BY <1>1, RecordedAppend
<1>5. Extends(a, b)
  BY <1>2, <1>3 DEF Extends
<1> QED
  BY <1>4, <1>5 DEF Grows

\* Appending a fact and nothing else.
LEMMA WithGrows ==
  ASSUME NEW a \in Aggregate, NEW f, Truthful(a.history, f)
  PROVE  Grows(a, With(a, f))
<1>1. f \in Fact
  BY DEF Truthful
<1>2. /\ With(a, f).history = Append(a.history, f) /\ With(a, f).ext = a.ext
      /\ With(a, f).journal = a.journal
  BY <1>1, WithFields
<1>3. With(a, f).rev = a.rev
  BY DEF With, Aggregate
<1> QED
  BY <1>2, <1>3, FactGrows

\* The aggregate with another tool journal entry.
JournalAt(a, c, e) == [a EXCEPT !.journal[c] = e]

\* A journal entry changes the tool journal at its call and no other field.
LEMMA JournalOnly ==
  ASSUME NEW a \in Aggregate, NEW c \in Calls, NEW e \in JournalEntry
  PROVE  /\ JournalAt(a, c, e) \in Aggregate
         /\ JournalAt(a, c, e).rev = a.rev /\ JournalAt(a, c, e).history = a.history
         /\ JournalAt(a, c, e).ext = a.ext
         /\ JournalAt(a, c, e).runState = a.runState
         /\ JournalAt(a, c, e).activeRun = a.activeRun
         /\ \A d \in Calls : d # c => JournalAt(a, c, e).journal[d] = a.journal[d]
<1> DEFINE b == JournalAt(a, c, e)
<1>1. a.journal \in [Calls -> JournalEntry]
  BY DEF Aggregate
<1>2. [a.journal EXCEPT ![c] = e] \in [Calls -> JournalEntry]
  BY <1>1
<1>3. /\ b \in Aggregate /\ b.rev = a.rev /\ b.history = a.history /\ b.ext = a.ext
      /\ b.runState = a.runState /\ b.activeRun = a.activeRun
      /\ b.journal = [a.journal EXCEPT ![c] = e]
  BY <1>2 DEF Aggregate, JournalAt
<1> HIDE DEF b
<1>4. \A d \in Calls : d # c => b.journal[d] = a.journal[d]
  BY <1>1, <1>3
<1> QED
  BY <1>3, <1>4 DEF b

\* The length of a sequence is the end of its domain.
LEMMA LenByDomain ==
  ASSUME NEW S, NEW s \in Seq(S), NEW n \in Nat, DOMAIN s = 1..n
  PROVE  Len(s) = n
BY LenProperties

\* The changes of applyChanges that settle or mark a call: a fact of the call
\* and its entry, which was not terminal.
LEMMA CallGrows ==
  ASSUME NEW a \in Aggregate, NEW f, Truthful(a.history, f), NEW c \in Calls,
         NEW e \in JournalEntry, a.journal[c].status \notin JournalTerminal
  PROVE  /\ Grows(a, JournalAt(With(a, f), c, e))
         /\ JournalAt(With(a, f), c, e).runState = a.runState
         /\ JournalAt(With(a, f), c, e).activeRun = a.activeRun
         /\ JournalAt(With(a, f), c, e).ext = a.ext
<1> DEFINE x == With(a, f)
           b == JournalAt(x, c, e)
<1>1. /\ x \in Aggregate /\ x.history = Append(a.history, f) /\ x.ext = a.ext
      /\ x.journal = a.journal /\ x.runState = a.runState /\ x.activeRun = a.activeRun
  BY WithFields DEF Truthful
<1>2. x.rev = a.rev
  BY DEF With, Aggregate
<1> HIDE DEF x
<1>3. /\ b.rev = x.rev /\ b.history = x.history /\ b.ext = x.ext
      /\ b.runState = x.runState /\ b.activeRun = x.activeRun
      /\ \A d \in Calls : d # c => b.journal[d] = x.journal[d]
  BY <1>1, JournalOnly
<1> HIDE DEF b
<1>4. \A d \in Calls : a.journal[d].status \in JournalTerminal =>
        b.journal[d] = a.journal[d]
  <2>1. \A d \in Calls : d # c => b.journal[d] = a.journal[d]
    BY <1>1, <1>3
  <2> QED
    BY <2>1
<1>5. b.rev = a.rev /\ b.history = Append(a.history, f) /\ b.ext = a.ext
  BY <1>1, <1>2, <1>3
<1>6. Grows(a, b)
  BY <1>4, <1>5, FactGrows
<1>7. b.runState = a.runState /\ b.activeRun = a.activeRun /\ b.ext = a.ext
  BY <1>1, <1>3
<1> QED
  BY <1>6, <1>7 DEF b, x

\* The ExtensionJournal gets longer, or one of its entries moves as
\* validateExtensionTransition allows.
EntriesKept(a, b) ==
  /\ Len(b.ext) >= Len(a.ext)
  /\ \A i \in DOMAIN a.ext : a.ext[i].status \in TerminalStatuses =>
       b.ext[i].status = a.ext[i].status

LEMMA EntriesGrow ==
  ASSUME NEW a \in Aggregate, NEW b, b.rev = a.rev, b.history = a.history,
         b.journal = a.journal, EntriesKept(a, b)
  PROVE  Grows(a, b)
<1>1. a.history \in Seq(Fact)
  BY DEF Aggregate
<1>2. Len(a.history) \in Nat
  BY <1>1, LenProperties
<1> QED
  BY <1>2 DEF Grows, Extends, EntriesKept

LEMMA AddEntryGrows ==
  ASSUME NEW a \in Aggregate, NEW e \in EntryOf(Invocations, Runs \cup {None})
  PROVE  Grows(a, AddEntry(a, e))
<1> DEFINE E == EntryOf(Invocations, Runs \cup {None})
           b == AddEntry(a, e)
<1>1. /\ b.rev = a.rev /\ b.history = a.history /\ b.journal = a.journal
      /\ b.ext = Append(a.ext, e)
  BY DEF AddEntry, Aggregate
<1>2. a.ext \in Seq(E) /\ e \in E
  BY DEF Aggregate
<1> HIDE DEF E, b
<1>3. /\ Len(b.ext) = Len(a.ext) + 1 /\ Len(a.ext) \in Nat
      /\ \A i \in DOMAIN a.ext : b.ext[i] = a.ext[i]
  BY <1>1, <1>2, AppendProperties, AppendFacts
<1>4. EntriesKept(a, b)
  <2>1. Len(b.ext) >= Len(a.ext)
    BY <1>3
  <2> QED
    BY <1>3, <2>1, Zenon DEF EntriesKept
<1>5. b.rev = a.rev /\ b.history = a.history /\ b.journal = a.journal
  BY <1>1
<1>6. Grows(a, b)
  BY <1>4, <1>5, EntriesGrow
<1> QED
  BY <1>6 DEF b

LEMMA UpdateEntryGrows ==
  ASSUME NEW a \in Aggregate, NEW i \in DOMAIN a.ext,
         NEW e \in EntryOf(Invocations, Runs \cup {None}), CanUpdateEntry(a, i, e)
  PROVE  Grows(a, UpdateEntry(a, i, e))
<1> DEFINE E == EntryOf(Invocations, Runs \cup {None})
           b == UpdateEntry(a, i, e)
<1>1. /\ b.rev = a.rev /\ b.history = a.history /\ b.journal = a.journal
      /\ b.ext = [a.ext EXCEPT ![i] = e]
  BY DEF UpdateEntry, Aggregate
<1>2. a.ext \in Seq(E) /\ e \in E
  BY DEF Aggregate
<1>3. a.ext[i].status \in TerminalStatuses => e.status = a.ext[i].status
  BY DEF CanUpdateEntry, ValidTransition, TerminalStatuses
<1> HIDE DEF E, b
<1>4. /\ DOMAIN a.ext = 1..Len(a.ext) /\ Len(a.ext) \in Nat
      /\ b.ext = [j \in 1..Len(a.ext) |-> IF j = i THEN e ELSE a.ext[j]]
  BY <1>1, <1>2, LenProperties
<1>5. b.ext \in Seq(E) /\ Len(b.ext) = Len(a.ext)
  <2>1. \A j \in 1..Len(a.ext) : a.ext[j] \in E
    BY <1>2, <1>4, LenProperties
  <2>2. \A j \in 1..Len(a.ext) : (IF j = i THEN e ELSE a.ext[j]) \in E
    BY <1>2, <2>1
  <2> QED
    BY <1>4, <2>2, SeqByIndex
<1>6. \A j \in DOMAIN a.ext : a.ext[j].status \in TerminalStatuses =>
        b.ext[j].status = a.ext[j].status
  BY <1>3, <1>4
<1>7. EntriesKept(a, b)
  <2>1. Len(b.ext) >= Len(a.ext)
    BY <1>4, <1>5
  <2> QED
    BY <1>6, <2>1, Zenon DEF EntriesKept
<1>8. b.rev = a.rev /\ b.history = a.history /\ b.journal = a.journal
  BY <1>1
<1>9. Grows(a, b)
  BY <1>7, <1>8, EntriesGrow
<1> QED
  BY <1>9 DEF b

\* recoverAggregate moves pending entries only, and leaves none.
LEMMA RecoverExtensionsGrows ==
  ASSUME NEW a \in Aggregate
  PROVE  /\ Grows(a, RecoverExtensions(a))
         /\ NothingPending(RecoverExtensions(a).ext)
         /\ RecoverExtensions(a).runState = a.runState
         /\ RecoverExtensions(a).activeRun = a.activeRun
<1> DEFINE E == EntryOf(Invocations, Runs \cup {None})
           b == RecoverExtensions(a)
<1>1. /\ b.rev = a.rev /\ b.history = a.history /\ b.journal = a.journal
      /\ b.runState = a.runState /\ b.activeRun = a.activeRun
      /\ b.ext = [i \in DOMAIN a.ext |-> RecoverEntry(a.ext[i])]
  BY DEF RecoverExtensions, Aggregate
<1>2. a.ext \in Seq(E)
  BY DEF Aggregate
<1>3. \A e \in E : /\ RecoverEntry(e).status # "pending"
                   /\ e.status \in TerminalStatuses => RecoverEntry(e).status = e.status
                   /\ RecoverEntry(e) \in E
  BY DEF RecoverEntry, EntryOf, TerminalStatuses, Statuses, Effects
<1> HIDE DEF E, b
<1>4. /\ DOMAIN a.ext = 1..Len(a.ext) /\ Len(a.ext) \in Nat
      /\ \A i \in DOMAIN a.ext : a.ext[i] \in E
  BY <1>2, LenProperties
<1>5. b.ext \in Seq(E) /\ Len(b.ext) = Len(a.ext)
  <2>1. \A j \in 1..Len(a.ext) : RecoverEntry(a.ext[j]) \in E
    BY <1>3, <1>4
  <2>2. b.ext = [i \in 1..Len(a.ext) |-> RecoverEntry(a.ext[i])]
    BY <1>1, <1>4
  <2> QED
    BY <1>4, <2>1, <2>2, SeqByIndex
<1>6. \A j \in DOMAIN a.ext : a.ext[j].status \in TerminalStatuses =>
        b.ext[j].status = a.ext[j].status
  <2>1. \A j \in DOMAIN a.ext : b.ext[j] = RecoverEntry(a.ext[j])
    BY <1>1
  <2> QED
    BY <1>3, <1>4, <2>1, Zenon
<1>7. EntriesKept(a, b)
  <2>1. Len(b.ext) >= Len(a.ext)
    BY <1>4, <1>5
  <2> QED
    BY <1>6, <2>1, Zenon DEF EntriesKept
<1>8. b.rev = a.rev /\ b.history = a.history /\ b.journal = a.journal
  BY <1>1
<1>9. Grows(a, b)
  BY <1>7, <1>8, EntriesGrow
<1>10. NothingPending(b.ext)
  <2>1. \A j \in DOMAIN b.ext : j \in DOMAIN a.ext /\ b.ext[j] = RecoverEntry(a.ext[j])
    BY <1>1
  <2> QED
    BY <1>3, <1>4, <2>1, Zenon DEF NothingPending
<1> QED
  BY <1>1, <1>9, <1>10 DEF b

\* A finished attempt is one more fact.
LEMMA FinishAttemptGrows ==
  ASSUME NEW a \in Aggregate, NEW x \in Attempts, NEW r \in Runs, NEW g \in Configs,
         NEW o \in AttemptEnds, NEW t \in Nat
  PROVE  /\ Grows(a, FinishAttempt(a, x, r, g, o, t))
         /\ FinishAttempt(a, x, r, g, o, t).ext = a.ext
         /\ FinishAttempt(a, x, r, g, o, t).runState = a.runState
         /\ FinishAttempt(a, x, r, g, o, t).activeRun = a.activeRun
<1> DEFINE f == [kind |-> "attempt", id |-> x, run |-> r, ref |-> None, val |-> o,
                 cfg |-> g, num |-> t]
<1>1. FinishAttempt(a, x, r, g, o, t) = With(a, f)
  BY DEF FinishAttempt, Log, FactOf, With
<1>2. Truthful(a.history, f) /\ f \in Fact
  BY DEF Truthful, Fact, FactKinds, FactIds
<1> HIDE DEF f
<1> QED
  BY <1>1, <1>2, WithGrows, WithFields

\* Recovery settles a pending call.
LEMMA RecoverCallGrows ==
  ASSUME NEW a \in Aggregate, NEW c \in Calls, a.journal[c].status = "pending"
  PROVE  /\ Grows(a, RecoverCall(a, c))
         /\ RecoverCall(a, c).ext = a.ext
         /\ RecoverCall(a, c).runState = a.runState
         /\ RecoverCall(a, c).activeRun = a.activeRun
<1> DEFINE f == [kind |-> "result", id |-> c, run |-> a.journal[c].run, ref |-> None,
                 val |-> "outcome_unknown", cfg |-> None, num |-> 0]
           e == [a.journal[c] EXCEPT !.status = "outcome_unknown"]
           b == RecoverCall(a, c)
<1>1. a.journal \in [Calls -> JournalEntry]
  BY DEF Aggregate
<1>2. e \in JournalEntry /\ a.journal[c].status \notin JournalTerminal
  BY <1>1 DEF JournalEntry, JournalTerminal
<1>3. Truthful(a.history, f) /\ f \in Fact
  BY <1>1 DEF Truthful, Fact, FactKinds, FactIds, JournalEntry, JournalTerminal
<1>4. CASE HasResult(a.history, c)
  <2>1. b = JournalAt(a, c, e)
    BY <1>1, <1>4 DEF RecoverCall, JournalAt
  <2> HIDE DEF e, b
  <2>2. /\ b.rev = a.rev /\ b.history = a.history /\ b.ext = a.ext
        /\ b.runState = a.runState /\ b.activeRun = a.activeRun
        /\ \A d \in Calls : d # c => b.journal[d] = a.journal[d]
    BY <1>2, <2>1, JournalOnly
  <2>3. Extends(a, b)
    <3>1. Len(a.history) \in Nat /\ Len(a.ext) \in Nat
      <4> DEFINE E == EntryOf(Invocations, Runs \cup {None})
      <4>1. a.history \in Seq(Fact) /\ a.ext \in Seq(E)
        BY DEF Aggregate
      <4> HIDE DEF E
      <4> QED
        BY <4>1, LenProperties
    <3> QED
      BY <1>2, <2>2, <3>1 DEF Extends
  <2>4. Grows(a, b)
    BY <2>2, <2>3 DEF Grows
  <2> QED
    BY <2>2, <2>4 DEF b
<1>5. CASE ~HasResult(a.history, c)
  <2>1. With(a, f).journal = a.journal /\ With(a, f) \in Aggregate
    BY <1>3, WithFields
  <2>2. b = [With(a, f) EXCEPT !.journal[c].status = "outcome_unknown"]
    BY <1>5 DEF RecoverCall, Log, FactOf, With
  <2> HIDE DEF f, b
  <2>3. b = JournalAt(With(a, f), c, e)
    BY <2>1, <2>2 DEF JournalAt
  <2> HIDE DEF e
  <2>4. Grows(a, b) /\ b.runState = a.runState /\ b.activeRun = a.activeRun /\ b.ext = a.ext
    BY <1>2, <1>3, <2>3, CallGrows
  <2> QED
    BY <2>4 DEF b
<1> QED
  BY <1>4, <1>5

\* The Run that cannot continue gets its terminal fact, or has one.
LEMMA InterruptGrows ==
  ASSUME NEW a \in Aggregate, a.activeRun \in Runs, NEW g \in Configs
  PROVE  /\ Grows(a, InterruptRun(a, g))
         /\ InterruptRun(a, g).journal = a.journal
         /\ InterruptRun(a, g).ext = a.ext
         /\ InterruptRun(a, g).runState = "idle"
         /\ InterruptRun(a, g).activeRun = None
         /\ DOMAIN InterruptRun(a, g).queue = DOMAIN a.queue
         /\ \A i \in DOMAIN a.queue :
              /\ a.queue[i].claimedBy \in {None, a.activeRun}
                   => InterruptRun(a, g).queue[i].claimedBy = None
              /\ InterruptRun(a, g).queue[i].delivery # "steer"
<1> DEFINE r == a.activeRun
           f == [kind |-> "run", id |-> r, run |-> r, ref |-> None,
                 val |-> "interrupted", cfg |-> g, num |-> 0]
           ended == IF RunFrozen(a.history, r, g) /\ ~RunHasEnded(a.history, r)
                    THEN EndRun(a, r, g, "interrupted") ELSE a
           released(it) ==
             [it EXCEPT !.claimedBy = IF @ = r THEN None ELSE @,
                        !.delivery  = IF @ = "steer" THEN "held" ELSE @]
           b == InterruptRun(a, g)
<1>1. EndRun(a, r, g, "interrupted") = With(a, f)
  BY DEF EndRun, Log, FactOf, With
<1>2. Truthful(a.history, f) /\ f \in Fact
  BY DEF Truthful, Fact, FactKinds, FactIds, RunEnds
<1>3. ended = a \/ ended = With(a, f)
  BY <1>1
<1>4. b = [ended EXCEPT !.runState = "idle", !.activeRun = None,
                        !.queue = [i \in DOMAIN a.queue |-> released(a.queue[i])]]
  BY DEF InterruptRun
<1>5. ended \in Aggregate /\ ended.journal = a.journal /\ ended.ext = a.ext
  <2> HIDE DEF f, ended
  <2> QED
    BY <1>2, <1>3, WithFields
<1>6. Grows(a, ended)
  <2>1. Grows(a, a)
    BY OtherFieldsGrow
  <2>2. Grows(a, With(a, f))
    BY <1>2, WithGrows
  <2> HIDE DEF f, ended
  <2> QED
    BY <1>3, <2>1, <2>2
<1> HIDE DEF ended
<1>7. /\ b.rev = ended.rev /\ b.history = ended.history /\ b.journal = ended.journal
      /\ b.ext = ended.ext /\ b.runState = "idle" /\ b.activeRun = None
      /\ b.queue = [i \in DOMAIN a.queue |-> released(a.queue[i])]
  BY <1>4, <1>5 DEF Aggregate
<1>8. \A it \in QueueItem : /\ it.claimedBy \in {None, r} => released(it).claimedBy = None
                            /\ released(it).delivery # "steer"
  BY DEF QueueItem
<1>9. \A i \in DOMAIN a.queue : a.queue[i] \in QueueItem
  <2>1. a.queue \in Seq(QueueItem)
    BY DEF Aggregate
  <2> QED
    BY <2>1, LenProperties
<1> HIDE DEF b, released, f
<1>10. Grows(a, b)
  BY <1>6, <1>7 DEF Grows, Extends
<1> QED
  BY <1>5, <1>7, <1>8, <1>9, <1>10 DEF b, r

-----------------------------------------------------------------------------
(* Every step of a transaction and of a recovery grows the clone.          *)

\* Run state, configuration and Context.
LEMMA RunChangeGrows ==
  ASSUME work \in Aggregate, RunChange
  PROVE  Grows(work, work') /\ UNCHANGED <<agg, phase, txn, idem, reply>> /\ phase = "commit"
<1>1. CASE \E r \in Runs : StartRunChange(r)
  <2>1. PICK r \in Runs : StartRunChange(r)
    BY <1>1
  <2> DEFINE f == [kind |-> "run", id |-> r, run |-> r, ref |-> None, val |-> "started",
                   cfg |-> work.config, num |-> 0]
  <2>2. work.config \in Configs
    BY DEF Aggregate
  <2>3. Truthful(work.history, f)
    BY <2>2 DEF Truthful, Fact, FactKinds, FactIds
  <2>4. work' = With(work, f)
    BY <2>1 DEF StartRunChange, Change, StartRun, Log, FactOf, With
  <2> HIDE DEF f
  <2> QED
    BY <2>1, <2>3, <2>4, WithGrows DEF StartRunChange, Change
<1>2. CASE \E r \in Runs : RunningChange(r)
  <2>1. PICK r \in Runs : RunningChange(r)
    BY <1>2
  <2>2. /\ work'.rev = work.rev /\ work'.history = work.history
        /\ work'.journal = work.journal /\ work'.ext = work.ext
    BY <2>1 DEF RunningChange, Change, SetRunning, Aggregate
  <2> QED
    BY <2>1, <2>2, OtherFieldsGrow DEF RunningChange, Change
<1>3. CASE \E r \in Runs, g \in Configs, o \in RunEnds : EndRunChange(r, g, o)
  <2>1. PICK r \in Runs, g \in Configs, o \in RunEnds : EndRunChange(r, g, o)
    BY <1>3
  <2> DEFINE f == [kind |-> "run", id |-> r, run |-> r, ref |-> None, val |-> o,
                   cfg |-> g, num |-> 0]
  <2>2. Truthful(work.history, f)
    BY DEF Truthful, Fact, FactKinds, FactIds
  <2>3. work' = With(work, f)
    BY <2>1 DEF EndRunChange, Change, EndRun, Log, FactOf, With
  <2> HIDE DEF f
  <2> QED
    BY <2>1, <2>2, <2>3, WithGrows DEF EndRunChange, Change
<1>4. CASE \E g \in Configs : ConfigChange(g)
  <2>1. PICK g \in Configs : ConfigChange(g)
    BY <1>4
  <2> DEFINE f == [kind |-> "config", id |-> None, run |-> None, ref |-> None,
                   val |-> "none", cfg |-> g, num |-> 0]
  <2>2. Truthful(work.history, f) /\ f \in Fact
    BY DEF Truthful, Fact, FactKinds, FactIds
  <2>3. work' = [With(work, f) EXCEPT !.config = g]
    BY <2>1 DEF ConfigChange, Change, SetModelConfig, Log, FactOf, With
  <2> HIDE DEF f
  <2>4. /\ With(work, f) \in Aggregate /\ With(work, f).history = Append(work.history, f)
        /\ With(work, f).journal = work.journal /\ With(work, f).ext = work.ext
        /\ With(work, f).rev = work.rev
    <3>1. With(work, f).rev = work.rev
      BY DEF With, Aggregate
    <3> QED
      BY <2>2, <3>1, WithFields
  <2>5. /\ work'.rev = work.rev /\ work'.history = Append(work.history, f)
        /\ work'.journal = work.journal /\ work'.ext = work.ext
    <3> DEFINE x == With(work, f)
    <3> HIDE DEF x
    <3>1. x \in Aggregate /\ work' = [x EXCEPT !.config = g]
      BY <2>3, <2>4 DEF x
    <3>2. /\ work'.rev = x.rev /\ work'.history = x.history
          /\ work'.journal = x.journal /\ work'.ext = x.ext
      BY <3>1 DEF Aggregate
    <3> QED
      BY <2>4, <3>2 DEF x
  <2> QED
    BY <2>1, <2>2, <2>5, FactGrows DEF ConfigChange, Change
<1>5. CASE \E r \in Runs, g \in Configs, b \in BOOLEAN : ContextChange(r, g, b)
  <2>1. PICK r \in Runs, g \in Configs, b \in BOOLEAN : ContextChange(r, g, b)
    BY <1>5
  <2>2. work' = SetContext(work, r, g, b)
    BY <2>1 DEF ContextChange, Change
  <2>3. /\ work'.rev = work.rev /\ work'.history = work.history
        /\ work'.journal = work.journal /\ work'.ext = work.ext
    BY <2>2 DEF SetContext, Aggregate
  <2> QED
    BY <2>1, <2>3, OtherFieldsGrow DEF ContextChange, Change
<1> QED
  BY <1>1, <1>2, <1>3, <1>4, <1>5 DEF RunChange

\* The Queue's changes touch nothing that Grows speaks of.
LEMMA QueueChangeGrows ==
  ASSUME work \in Aggregate, QueueChange
  PROVE  Grows(work, work') /\ UNCHANGED <<agg, phase, txn, idem, reply>> /\ phase = "commit"
<1>1. /\ \E q : work' = [work EXCEPT !.queue = q]
      /\ UNCHANGED <<agg, phase, txn, idem, reply>> /\ phase = "commit"
  <2>1. CASE \E m \in Messages, d \in Deliveries : EnqueueChange(m, d)
    BY <2>1 DEF EnqueueChange, Change, Enqueue
  <2>2. CASE \E m \in Messages, d \in Deliveries : ReclassifyChange(m, d)
    BY <2>2 DEF ReclassifyChange, Change, Reclassify
  <2>3. CASE \E m \in Messages, r \in Runs : ClaimChange(m, r)
    BY <2>3 DEF ClaimChange, Change, Claim
  <2>4. CASE \E m \in Messages, r \in Runs : ConsumeChange(m, r)
    BY <2>4 DEF ConsumeChange, Change, Consume
  <2>5. CASE \E m \in Messages : DeleteChange(m)
    BY <2>5 DEF DeleteChange, Change, Delete
  <2> QED
    BY <2>1, <2>2, <2>3, <2>4, <2>5 DEF QueueChange
<1>2. /\ work'.rev = work.rev /\ work'.history = work.history
      /\ work'.journal = work.journal /\ work'.ext = work.ext
  BY <1>1 DEF Aggregate
<1> QED
  BY <1>1, <1>2, OtherFieldsGrow

\* Messages, tool calls, results and ended attempts.
LEMMA HistoryChangeGrows ==
  ASSUME work \in Aggregate, HistoryChange
  PROVE  Grows(work, work') /\ UNCHANGED <<agg, phase, txn, idem, reply>> /\ phase = "commit"
<1>0. work.journal \in [Calls -> JournalEntry]
  BY DEF Aggregate
<1>1. CASE \E m \in Messages, r \in Runs \cup {None}, role \in {"user", "assistant"} :
             MessageChange(m, r, role)
  <2>1. PICK m \in Messages, r \in Runs \cup {None}, role \in {"user", "assistant"} :
          MessageChange(m, r, role)
    BY <1>1
  <2> DEFINE f == [kind |-> "message", id |-> m, run |-> r, ref |-> None, val |-> role,
                   cfg |-> None, num |-> 0]
  <2>2. Truthful(work.history, f)
    BY DEF Truthful, Fact, FactKinds, FactIds
  <2>3. work' = With(work, f)
    BY <2>1 DEF MessageChange, Change, AppendMessage, Log, FactOf, With
  <2> HIDE DEF f
  <2> QED
    BY <2>1, <2>2, <2>3, WithGrows DEF MessageChange, Change
<1>2. CASE \E c \in Calls, m \in Messages, r \in Runs, s \in Unfinished :
             AdmitChange(c, m, r, s)
  <2>1. PICK c \in Calls, m \in Messages, r \in Runs, s \in Unfinished :
          AdmitChange(c, m, r, s)
    BY <1>2
  <2> DEFINE f == [kind |-> "call", id |-> c, run |-> r, ref |-> m, val |-> "none",
                   cfg |-> None, num |-> 0]
             e == [status |-> s, run |-> r]
  <2>2. Truthful(work.history, f)
    BY DEF Truthful, Fact, FactKinds, FactIds
  <2>3. e \in JournalEntry /\ work.journal[c].status \notin JournalTerminal
    BY <2>1 DEF JournalEntry, JournalTerminal, AdmitChange, Change, CanAdmitToolCall
  <2>4. work' = JournalAt(With(work, f), c, e)
    BY <2>1 DEF AdmitChange, Change, AdmitToolCall, Log, FactOf, With, JournalAt
  <2> HIDE DEF f, e
  <2> QED
    BY <2>1, <2>2, <2>3, <2>4, CallGrows DEF AdmitChange, Change
<1>3. CASE \E c \in Calls, s \in JournalTerminal : SettleChange(c, s)
  <2>1. PICK c \in Calls, s \in JournalTerminal : SettleChange(c, s)
    BY <1>3
  <2> DEFINE f == [kind |-> "result", id |-> c, run |-> work.journal[c].run, ref |-> None,
                   val |-> s, cfg |-> None, num |-> 0]
             e == [work.journal[c] EXCEPT !.status = s]
  <2>2. Truthful(work.history, f) /\ f \in Fact
    BY <1>0 DEF Truthful, Fact, FactKinds, FactIds, JournalEntry
  <2>3. e \in JournalEntry /\ work.journal[c].status \notin JournalTerminal
    BY <1>0, <2>1 DEF JournalEntry, JournalTerminal, Unfinished, SettleChange, Change,
                      CanSettleToolCall
  <2>4. work' = [With(work, f) EXCEPT !.journal[c].status = s]
    BY <2>1 DEF SettleChange, Change, SettleToolCall, Log, FactOf, With
  <2>5. With(work, f).journal = work.journal /\ With(work, f) \in Aggregate
    BY <2>2, WithFields
  <2> HIDE DEF f
  <2>6. work' = JournalAt(With(work, f), c, e)
    BY <2>4, <2>5 DEF JournalAt
  <2> HIDE DEF e
  <2> QED
    BY <2>1, <2>2, <2>3, <2>6, CallGrows DEF SettleChange, Change
<1>4. CASE \E x \in Attempts, r \in Runs, g \in Configs, o \in AttemptEnds, t \in 0..MaxTokens :
             FinishAttemptChange(x, r, g, o, t)
  <2>1. PICK x \in Attempts, r \in Runs, g \in Configs, o \in AttemptEnds, t \in 0..MaxTokens :
          FinishAttemptChange(x, r, g, o, t)
    BY <1>4
  <2>2. t \in Nat
    BY BoundsAssumption
  <2>3. work' = FinishAttempt(work, x, r, g, o, t)
    BY <2>1 DEF FinishAttemptChange, Change
  <2> QED
    BY <2>1, <2>2, <2>3, FinishAttemptGrows DEF FinishAttemptChange, Change
<1> QED
  BY <1>1, <1>2, <1>3, <1>4 DEF HistoryChange

\* The ExtensionJournal.
LEMMA ExtensionChangeGrows ==
  ASSUME work \in Aggregate, ExtensionChange
  PROVE  Grows(work, work') /\ UNCHANGED <<agg, phase, txn, idem, reply>> /\ phase = "commit"
<1> DEFINE E == EntryOf(Invocations, Runs \cup {None})
<1>1. CASE \E v \in Invocations, b \in Boundaries, r \in Runs \cup {None} :
             AddEntryChange(NewEntry(v, b, r))
  <2>1. PICK v \in Invocations, b \in Boundaries, r \in Runs \cup {None} :
          AddEntryChange(NewEntry(v, b, r))
    BY <1>1
  <2>2. NewEntry(v, b, r) \in E
    BY DEF NewEntry, EntryOf, Statuses, Effects, Contexts, Decisions
  <2>3. work' = AddEntry(work, NewEntry(v, b, r))
    BY <2>1 DEF AddEntryChange, Change
  <2> QED
    BY <2>1, <2>2, <2>3, AddEntryGrows DEF AddEntryChange, Change
<1>2. CASE \E i \in DOMAIN work.ext, s \in EntryStates : UpdateEntryChange(i, s)
  <2>1. PICK i \in DOMAIN work.ext, s \in EntryStates : UpdateEntryChange(i, s)
    BY <1>2
  <2> DEFINE e == [work.ext[i] EXCEPT !.status = s.status, !.effect = s.effect,
                                      !.context = s.context, !.decision = s.decision]
  <2>2. work.ext[i] \in E
    <3>1. work.ext \in Seq(E)
      BY DEF Aggregate
    <3> HIDE DEF E
    <3> QED
      BY <3>1, LenProperties
  <2>3. e \in E
    BY <2>2 DEF EntryOf, EntryStates
  <2>4. Change(CanUpdateEntry(work, i, e), UpdateEntry(work, i, e))
    BY <2>1 DEF UpdateEntryChange
  <2> HIDE DEF e
  <2>5. Grows(work, UpdateEntry(work, i, e))
    BY <2>3, <2>4, UpdateEntryGrows DEF Change
  <2> QED
    BY <2>4, <2>5 DEF Change
<1> QED
  BY <1>1, <1>2 DEF ExtensionChange

\* The changes that rest on a promise of the caller: a pending mark is refused
\* for a terminal call, and a limit fact is exact when it is appended.
LEMMA PromisedChangeGrows ==
  ASSUME work \in Aggregate, PromisedChange(TRUE)
  PROVE  Grows(work, work') /\ UNCHANGED <<agg, phase, txn, idem, reply>> /\ phase = "commit"
<1>1. CASE \E c \in Calls, r \in Runs : PendingChange(c, r)
  <2>1. PICK c \in Calls, r \in Runs : PendingChange(c, r)
    BY <1>1
  <2> DEFINE e == [status |-> "pending", run |-> r]
  <2>2. e \in JournalEntry /\ work.journal[c].status \notin JournalTerminal
    BY <2>1 DEF PendingChange, Change, CanMarkPending, JournalEntry, Unfinished,
                JournalTerminal
  <2>3. work' = JournalAt(work, c, e)
    BY <2>1 DEF PendingChange, Change, MarkPending, JournalAt
  <2> HIDE DEF e
  <2>4. /\ work'.rev = work.rev /\ work'.history = work.history /\ work'.ext = work.ext
        /\ \A d \in Calls : d # c => work'.journal[d] = work.journal[d]
    BY <2>2, <2>3, JournalOnly
  <2>5. Len(work.history) \in Nat /\ Len(work.ext) \in Nat
    <3> DEFINE E == EntryOf(Invocations, Runs \cup {None})
    <3>1. work.history \in Seq(Fact) /\ work.ext \in Seq(E)
      BY DEF Aggregate
    <3> HIDE DEF E
    <3> QED
      BY <3>1, LenProperties
  <2>6. Grows(work, work')
    BY <2>2, <2>4, <2>5 DEF Grows, Extends
  <2> QED
    BY <2>1, <2>6 DEF PendingChange, Change
<1>2. CASE \E r \in Runs : IdleChange(r)
  <2>1. PICK r \in Runs : IdleChange(r)
    BY <1>2
  <2>2. /\ work'.rev = work.rev /\ work'.history = work.history
        /\ work'.journal = work.journal /\ work'.ext = work.ext
    BY <2>1 DEF IdleChange, Change, SetIdle, Aggregate
  <2> QED
    BY <2>1, <2>2, OtherFieldsGrow DEF IdleChange, Change
<1>3. CASE \E r \in Runs, x \in Attempts, g \in Configs : StartAttemptChange(x, r, g)
  <2>1. PICK r \in Runs, x \in Attempts, g \in Configs : StartAttemptChange(x, r, g)
    BY <1>3
  <2> DEFINE f == [kind |-> "attempt", id |-> x, run |-> r, ref |-> None, val |-> "started",
                   cfg |-> g, num |-> 0]
  <2>2. Truthful(work.history, f)
    BY DEF Truthful, Fact, FactKinds, FactIds
  <2>3. work' = With(work, f)
    BY <2>1 DEF StartAttemptChange, Change, StartAttempt, Log, FactOf, With
  <2> HIDE DEF f
  <2> QED
    BY <2>1, <2>2, <2>3, WithGrows DEF StartAttemptChange, Change
<1>4. CASE \E r \in Runs, k \in ContextKeys : ContributeChange(k, r)
  <2>1. PICK r \in Runs, k \in ContextKeys : ContributeChange(k, r)
    BY <1>4
  <2> DEFINE f == [kind |-> "context", id |-> k, run |-> r, ref |-> None, val |-> "none",
                   cfg |-> None, num |-> 0]
  <2>2. Truthful(work.history, f)
    BY DEF Truthful, Fact, FactKinds, FactIds
  <2>3. work' = With(work, f)
    BY <2>1 DEF ContributeChange, Change, Contribute, Log, FactOf, With
  <2> HIDE DEF f
  <2> QED
    BY <2>1, <2>2, <2>3, WithGrows DEF ContributeChange, Change
<1>5. CASE \E r \in Runs, what \in LimitKinds, used \in 0..(MaxFacts * (MaxTokens + 1)) :
             LimitChange(r, what, used)
  <2>1. PICK r \in Runs, what \in LimitKinds, used \in 0..(MaxFacts * (MaxTokens + 1)) :
          LimitChange(r, what, used)
    BY <1>5
  <2> DEFINE f == [kind |-> "limit", id |-> None, run |-> r, ref |-> None, val |-> what,
                   cfg |-> None, num |-> used]
  <2>2. used \in Nat
    OBVIOUS
  <2>3. used = UsedBefore(work.history, Len(work.history), r, what)
    BY <2>1 DEF LimitChange, Change, CanReachLimit
  <2>4. f \in Fact
    BY <2>2 DEF Fact, FactKinds, FactIds
  <2>5. Truthful(work.history, f)
    BY <2>3, <2>4 DEF Truthful
  <2>6. work' = With(work, f)
    BY <2>1 DEF LimitChange, Change, ReachLimit, Log, FactOf, With
  <2> HIDE DEF f
  <2> QED
    BY <2>1, <2>5, <2>6, WithGrows DEF LimitChange, Change
<1> QED
  BY <1>1, <1>2, <1>3, <1>4, <1>5, Zenon DEF PromisedChange

-----------------------------------------------------------------------------
(* Recovery settles what a crash left.                                     *)

\* What RecoverySettles says of the aggregate d that a recovery of a returns.
Settled(a, d) ==
  /\ \A c \in Calls : d.journal[c].status # "pending"
  /\ NothingPending(d.ext)
  /\ \A x \in Attempts : ~Orphan(d, x)
  /\ \/ Recoverable(d)
     \/ /\ d.runState = "idle"
        /\ RunHasStarted(d.history, a.activeRun) => RunHasEnded(d.history, a.activeRun)
        /\ \A i \in DOMAIN d.queue :
             /\ d.queue[i].claimedBy = None
             /\ a.runState = "running" => d.queue[i].delivery # "steer"

\* The terminal fact of an interrupted Run is written unless there is one, and
\* it ends no attempt and starts none.
LEMMA InterruptEnds ==
  ASSUME NEW a \in Aggregate, a.activeRun \in Runs, NEW g \in Configs,
         RunHasStarted(a.history, a.activeRun) => RunFrozen(a.history, a.activeRun, g)
  PROVE  /\ RunHasStarted(InterruptRun(a, g).history, a.activeRun)
              => RunHasEnded(InterruptRun(a, g).history, a.activeRun)
         /\ \A x : Orphan(InterruptRun(a, g), x) => Orphan(a, x)
<1> DEFINE r == a.activeRun
           f == [kind |-> "run", id |-> r, run |-> r, ref |-> None,
                 val |-> "interrupted", cfg |-> g, num |-> 0]
           h == InterruptRun(a, g).history
<1>1. f \in Fact /\ f.kind = "run" /\ f.id = r /\ f.val # "started"
  BY DEF Fact, FactKinds, FactIds, RunEnds
<1>2. /\ EndRun(a, r, g, "interrupted") = With(a, f)
      /\ With(a, f) \in Aggregate /\ With(a, f).history = Append(a.history, f)
  <2>1. EndRun(a, r, g, "interrupted") = With(a, f)
    BY DEF EndRun, Log, FactOf, With
  <2> HIDE DEF f
  <2> QED
    BY <1>1, <2>1, WithFields
<1>3. CASE RunFrozen(a.history, r, g) /\ ~RunHasEnded(a.history, r)
  <2>1. h = Append(a.history, f)
    <3> HIDE DEF f
    <3> QED
      BY <1>2, <1>3 DEF InterruptRun, Aggregate
  <2> HIDE DEF f, h
  <2>2. /\ DOMAIN a.history = 1..Len(a.history) /\ Len(a.history) \in Nat
        /\ DOMAIN h = 1..(Len(a.history) + 1)
        /\ \A i \in 1..Len(a.history) : h[i] = a.history[i]
        /\ h[Len(a.history) + 1] = f
    <3>1. a.history \in Seq(Fact)
      BY DEF Aggregate
    <3> QED
      BY <1>1, <2>1, <3>1, AppendFacts
  <2>3. Len(a.history) + 1 \in DOMAIN h
    BY <2>2
  <2>4. RunHasEnded(h, r)
    BY <1>1, <2>2, <2>3 DEF RunHasEnded
  <2>5. \A x : AttemptHasStarted(h, x) => AttemptHasStarted(a.history, x)
    BY <1>1, <2>2 DEF AttemptHasStarted
  <2>6. \A x : AttemptHasEnded(a.history, x) => AttemptHasEnded(h, x)
    BY <2>2 DEF AttemptHasEnded
  <2> QED
    BY <2>4, <2>5, <2>6 DEF Orphan, h, r
<1>4. CASE ~(RunFrozen(a.history, r, g) /\ ~RunHasEnded(a.history, r))
  <2>1. h = a.history
    BY <1>4 DEF InterruptRun, Aggregate
  <2>2. RunHasStarted(h, r) => RunHasEnded(h, r)
    BY <1>4, <2>1
  <2> QED
    BY <2>1, <2>2 DEF Orphan
<1> QED
  BY <1>3, <1>4

\* recoverAggregate with its loops run to their ends: FinishRecover returns a
\* settled aggregate, whether it interrupts the Run, lets it continue or finds
\* the Session idle.
LEMMA RecoveredIsSettled ==
  ASSUME IInv, ProgressInv, NEW g \in Configs, FinishRecover(g)
  PROVE  Settled(agg, agg')
<1> DEFINE done == IF work.runState = "running" /\ ~Recoverable(work)
                   THEN InterruptRun(work, g) ELSE work
<1>1. /\ work \in Aggregate /\ Sound(work) /\ ClaimsBelong(work) /\ Recorded(work.history)
      /\ work.runState = agg.runState /\ work.activeRun = agg.activeRun
      /\ NothingPending(work.ext)
  BY DEF FinishRecover, IInv, TypeOK, ProgressInv
<1>2. /\ \A x \in Attempts : ~Orphan(work, x)
      /\ \A c \in Calls : work.journal[c].status # "pending"
      /\ RunHasStarted(work.history, work.activeRun)
           => RunFrozen(work.history, work.activeRun, g)
      /\ agg' = IF done = agg THEN agg ELSE NextRevision(done)
  BY DEF FinishRecover
<1>3. \A i \in DOMAIN work.queue : work.queue[i].claimedBy \in {None, work.activeRun}
  BY <1>1 DEF ClaimsBelong, Active
<1>4. done \in Aggregate /\ Settled(agg, done)
  <2>1. CASE work.runState = "running" /\ ~Recoverable(work)
    <3> DEFINE d == InterruptRun(work, g)
    <3>1. done = d
      BY <2>1
    <3>2. work.activeRun \in Runs
      BY <1>1, <2>1 DEF Aggregate, Sound, RunStateValid
    <3>3. d \in Aggregate
      BY <1>1, <1>2, <2>1, InterruptSound
    <3>4. /\ d.journal = work.journal /\ d.ext = work.ext /\ d.runState = "idle"
          /\ DOMAIN d.queue = DOMAIN work.queue
          /\ \A i \in DOMAIN work.queue :
               d.queue[i].claimedBy = None /\ d.queue[i].delivery # "steer"
      BY <1>1, <1>3, <3>2, InterruptGrows
    <3>5. /\ RunHasStarted(d.history, work.activeRun) => RunHasEnded(d.history, work.activeRun)
          /\ \A x : Orphan(d, x) => Orphan(work, x)
      BY <1>1, <1>2, <3>2, InterruptEnds
    <3> HIDE DEF d, done
    <3>6. Settled(agg, d)
      BY <1>1, <1>2, <3>4, <3>5 DEF Settled
    <3> QED
      BY <3>1, <3>3, <3>6
  <2>2. CASE Recoverable(work)
    BY <1>1, <1>2, <2>2 DEF Settled
  <2>3. CASE work.runState # "running"
    <3>1. done = work /\ work.runState = "idle" /\ work.activeRun = None
      BY <1>1, <2>3 DEF Aggregate, Sound, RunStateValid
    <3>2. ~RunHasStarted(work.history, None)
      BY <1>1, NoneAssumption DEF RunHasStarted, Recorded, RunsNamed
    <3> HIDE DEF done
    <3>3. Settled(agg, work)
      BY <1>1, <1>2, <1>3, <3>1, <3>2 DEF Settled
    <3> QED
      BY <1>1, <3>1, <3>3
  <2> QED
    BY <2>1, <2>2, <2>3
<1> HIDE DEF done
<1>5. Settled(agg, NextRevision(done))
  <2> DEFINE b == NextRevision(done)
  <2>1. /\ b.journal = done.journal /\ b.ext = done.ext /\ b.history = done.history
        /\ b.queue = done.queue /\ b.runState = done.runState /\ b.activeRun = done.activeRun
    BY <1>4 DEF NextRevision, Aggregate
  <2> HIDE DEF b
  <2>2. Recoverable(done) => Recoverable(b)
    BY <2>1 DEF Recoverable
  <2>3. \A x : Orphan(b, x) => Orphan(done, x)
    BY <2>1 DEF Orphan
  <2>4. Settled(agg, b)
    BY <1>4, <2>1, <2>2, <2>3 DEF Settled
  <2> QED
    BY <2>4 DEF b
<1> QED
  BY <1>2, <1>4, <1>5

-----------------------------------------------------------------------------
(* The invariants and the theorems.                                        *)

\* A step that grows the clone and leaves the aggregate alone.
LEMMA CloneGrows ==
  ASSUME IInv, IInv', ProgressInv, Grows(work, work'), agg' = agg
  PROVE  Extends(agg', work') /\ Recorded(agg'.history) /\ Recorded(work'.history)
<1>1. agg \in Aggregate /\ work \in Aggregate /\ work' \in Aggregate
  BY DEF IInv, TypeOK
<1> QED
  BY <1>1, ExtendsTwice DEF ProgressInv, Grows

\* The aggregate a transaction installs, or a recovery returns, extends the
\* committed one.
LEMMA InstalledExtends ==
  ASSUME IInv, IInv', ProgressInv, NEW d \in Aggregate, Grows(work, d),
         agg' = NextRevision(d)
  PROVE  /\ agg'.rev = agg.rev + 1
         /\ Extends(agg, [agg' EXCEPT !.rev = agg.rev])
         /\ Recorded(agg'.history)
<1>1. agg \in Aggregate /\ work \in Aggregate
  BY DEF IInv, TypeOK
<1>2. Extends(agg, d)
  BY <1>1, ExtendsTwice DEF ProgressInv, Grows
<1>3. d.rev = agg.rev /\ agg'.rev = d.rev + 1 /\ agg'.history = d.history
  BY <1>2 DEF NextRevision, Aggregate, Extends
<1>4. [agg' EXCEPT !.rev = agg.rev] = d
  BY <1>3 DEF NextRevision, Aggregate
<1>5. Recorded(d.history)
  BY DEF ProgressInv, Grows
<1> QED
  BY <1>2, <1>3, <1>4, <1>5

\* What a step of Commit or Recover does to the committed aggregate.
Advanced ==
  \/ agg' = agg
  \/ /\ agg'.rev = agg.rev + 1
     /\ Extends(agg, [agg' EXCEPT !.rev = agg.rev])
     /\ Recorded(agg'.history)

LEMMA RecoverGrows ==
  ASSUME IInv, IInv', ProgressInv, Recover
  PROVE  ProgressInv' /\ Advanced /\ UNCHANGED <<txn, idem, reply>>
           /\ (phase = "recover" \/ phase = "free") /\ phase' \in {"recover", "free"}
<1>0. /\ agg \in Aggregate /\ work \in Aggregate /\ agg' \in Aggregate
      /\ Sound(work)
  BY DEF IInv, TypeOK
<1>1. CASE BeginRecover
  <2>1. /\ Grows(agg, work') /\ NothingPending(work'.ext)
        /\ work'.runState = agg.runState /\ work'.activeRun = agg.activeRun
    BY <1>0, <1>1, RecoverExtensionsGrows DEF BeginRecover
  <2> QED
    BY <1>1, <2>1 DEF BeginRecover, ProgressInv, Grows, Advanced
<1>2. CASE \E x \in Attempts, r \in Runs, g \in Configs : RecoverAttemptStep(x, r, g)
  <2>1. PICK x \in Attempts, r \in Runs, g \in Configs : RecoverAttemptStep(x, r, g)
    BY <1>2
  <2>2. work' = FinishAttempt(work, x, r, g, "outcome_unknown", 0)
    BY <2>1 DEF RecoverAttemptStep, RecoverAttempt
  <2>3. /\ Grows(work, work') /\ work'.ext = work.ext
        /\ work'.runState = work.runState /\ work'.activeRun = work.activeRun
    BY <1>0, <2>2, FinishAttemptGrows DEF AttemptEnds
  <2>4. /\ agg' = agg /\ phase = "recover" /\ phase' = phase
        /\ UNCHANGED <<txn, idem, reply>>
    BY <2>1 DEF RecoverAttemptStep
  <2>5. Extends(agg', work') /\ Recorded(agg'.history) /\ Recorded(work'.history)
    BY <2>3, <2>4, CloneGrows
  <2> QED
    BY <2>3, <2>4, <2>5 DEF ProgressInv, Advanced
<1>3. CASE \E c \in Calls : RecoverCallStep(c)
  <2>1. PICK c \in Calls : RecoverCallStep(c)
    BY <1>3
  <2>2. /\ Grows(work, work') /\ work'.ext = work.ext
        /\ work'.runState = work.runState /\ work'.activeRun = work.activeRun
    BY <1>0, <2>1, RecoverCallGrows DEF RecoverCallStep
  <2>3. /\ agg' = agg /\ phase = "recover" /\ phase' = phase
        /\ UNCHANGED <<txn, idem, reply>>
    BY <2>1 DEF RecoverCallStep
  <2>4. Extends(agg', work') /\ Recorded(agg'.history) /\ Recorded(work'.history)
    BY <2>2, <2>3, CloneGrows
  <2> QED
    BY <2>2, <2>3, <2>4 DEF ProgressInv, Advanced
<1>4. CASE \E g \in Configs : FinishRecover(g)
  <2>1. PICK g \in Configs : FinishRecover(g)
    BY <1>4
  <2> DEFINE done == IF work.runState = "running" /\ ~Recoverable(work)
                     THEN InterruptRun(work, g) ELSE work
  <2>2. /\ agg' = (IF done = agg THEN agg ELSE NextRevision(done)) /\ work' = agg'
        /\ phase = "recover" /\ phase' = "free" /\ UNCHANGED <<txn, idem, reply>>
    BY <2>1 DEF FinishRecover
  <2>3. done \in Aggregate /\ Grows(work, done)
    <3>1. CASE work.runState = "running" /\ ~Recoverable(work)
      <4>1. work.activeRun \in Runs
        BY <1>0, <3>1 DEF Aggregate, Sound, RunStateValid
      <4>2. /\ ClaimsBelong(work)
            /\ \A c \in Calls : work.journal[c].status # "pending"
        BY <2>1 DEF FinishRecover, IInv
      <4> QED
        BY <1>0, <3>1, <4>1, <4>2, InterruptSound, InterruptGrows
    <3>2. CASE ~(work.runState = "running" /\ ~Recoverable(work))
      BY <1>0, <3>2, OtherFieldsGrow
    <3> QED
      BY <3>1, <3>2
  <2> HIDE DEF done
  <2>4. Advanced
    <3>1. CASE agg' = agg
      BY <3>1 DEF Advanced
    <3>2. CASE agg' = NextRevision(done)
      BY <2>3, <3>2, InstalledExtends DEF Advanced
    <3> QED
      BY <2>2, <3>1, <3>2
  <2>5. Recorded(agg'.history)
    BY <2>4 DEF Advanced, ProgressInv
  <2>6. Extends(agg', agg')
    BY <1>0, OtherFieldsGrow DEF Grows
  <2> QED
    BY <2>2, <2>4, <2>5, <2>6 DEF ProgressInv
<1> QED
  BY <1>1, <1>2, <1>3, <1>4 DEF Recover

\* One change of a transaction keeps both invariants: it grows the clone and
\* touches neither the aggregate nor the idempotency records.
LEMMA ChangeProgresses ==
  ASSUME IInv, IInv', ProgressInv, RetryInv, Grows(work, work'),
         UNCHANGED <<agg, phase, txn, idem, reply>>, phase = "commit"
  PROVE  ProgressInv' /\ RetryInv' /\ Advanced
<1>1. Extends(agg', work') /\ Recorded(agg'.history) /\ Recorded(work'.history)
  BY CloneGrows
<1> QED
  BY <1>1 DEF ProgressInv, RetryInv, Advanced

\* Commit: only Install moves the aggregate and writes an idempotency record,
\* at a revision no other key was recorded at.
LEMMA CommitProgresses ==
  ASSUME IInv, IInv', ProgressInv, RetryInv, Commit
  PROVE  ProgressInv' /\ RetryInv' /\ Advanced
<1>0. /\ agg \in Aggregate /\ work \in Aggregate /\ agg.rev \in Nat /\ agg' \in Aggregate
      /\ idem \in [Keys -> Record]
      /\ \A k \in Keys : idem[k].rev \in Nat
  BY DEF IInv, TypeOK, Aggregate, Record
<1>1. CASE \E k \in Keys, f \in Fingerprints : Replay(k, f)
  <2>1. PICK k \in Keys, f \in Fingerprints : Replay(k, f)
    BY <1>1
  <2>2. idem[k] = [fp |-> idem[k].fp, rev |-> idem[k].rev]
    BY <1>0 DEF Record
  <2>3. reply'.outcome \in {"applied", "replayed"} =>
          reply'.key \in Keys /\ idem[reply'.key] = [fp |-> reply'.fp, rev |-> reply'.rev]
    BY <2>1, <2>2 DEF Replay, Answer
  <2> QED
    BY <2>1, <2>3 DEF Replay, ProgressInv, RetryInv, Advanced
<1>2. CASE \E k \in Keys, f \in Fingerprints, e \in 1..MaxRev : RefuseStale(k, f, e)
  <2>1. PICK k \in Keys, f \in Fingerprints, e \in 1..MaxRev : RefuseStale(k, f, e)
    BY <1>2
  <2>2. reply'.outcome \notin {"applied", "replayed"}
    BY <2>1 DEF RefuseStale, Answer
  <2> QED
    BY <2>1, <2>2 DEF RefuseStale, ProgressInv, RetryInv, Advanced
<1>3. CASE \E k \in Keys, f \in Fingerprints, e \in 1..MaxRev : BeginCommit(k, f, e)
  <2>1. PICK k \in Keys, f \in Fingerprints, e \in 1..MaxRev : BeginCommit(k, f, e)
    BY <1>3
  <2>2. Extends(agg, agg)
    BY <1>0, OtherFieldsGrow DEF Grows
  <2> QED
    BY <2>1, <2>2 DEF BeginCommit, ProgressInv, RetryInv, Advanced
<1>4. CASE Install
  <2>1. /\ phase = "commit" /\ agg' = NextRevision(work) /\ work' = agg' /\ phase' = "free"
        /\ idem' = [idem EXCEPT ![txn.key] = [fp |-> txn.fp, rev |-> agg.rev + 1]]
        /\ reply' = [key |-> txn.key, fp |-> txn.fp, rev |-> agg.rev + 1,
                     outcome |-> "applied"]
    BY <1>4 DEF Install, Answer
  <2>2. Grows(work, work)
    BY <1>0, OtherFieldsGrow
  <2>3. /\ agg'.rev = agg.rev + 1 /\ Extends(agg, [agg' EXCEPT !.rev = agg.rev])
        /\ Recorded(agg'.history)
    BY <1>0, <2>1, <2>2, InstalledExtends
  <2>4. Extends(agg', agg')
    BY <1>0, OtherFieldsGrow DEF Grows
  <2>5. txn.key \in Keys /\ txn.fp \in Fingerprints /\ idem[txn.key].fp = None
    BY <2>1 DEF RetryInv
  <2>6. /\ idem'[txn.key] = [fp |-> txn.fp, rev |-> agg.rev + 1]
        /\ \A k \in Keys : k # txn.key => idem'[k] = idem[k]
    BY <1>0, <2>1, <2>5
  <2>7. \A k \in Keys : idem[k].rev <= agg.rev
    BY DEF RetryInv
  <2>8. \A k \in Keys : idem'[k].rev <= agg'.rev
    BY <1>0, <2>3, <2>6, <2>7
  <2>9. \A j, k \in Keys : idem'[j].fp # None /\ idem'[j].rev = idem'[k].rev => j = k
    <3> SUFFICES ASSUME NEW j \in Keys, NEW k \in Keys, idem'[j].fp # None,
                        idem'[j].rev = idem'[k].rev, j # k
                 PROVE  FALSE
      OBVIOUS
    <3>1. CASE j = txn.key
      <4>1. idem'[j].rev = agg.rev + 1 /\ idem'[k].rev <= agg.rev /\ idem'[k].rev \in Nat
        BY <1>0, <2>6, <2>7, <3>1
      <4> QED
        BY <1>0, <4>1
    <3>2. CASE k = txn.key
      <4>1. idem'[k].rev = agg.rev + 1 /\ idem'[j].rev <= agg.rev /\ idem'[j].rev \in Nat
        BY <1>0, <2>6, <2>7, <3>2
      <4> QED
        BY <1>0, <4>1
    <3>3. CASE j # txn.key /\ k # txn.key
      BY <2>6, <3>3 DEF RetryInv
    <3> QED
      BY <3>1, <3>2, <3>3
  <2>10. reply'.key \in Keys /\ idem'[reply'.key] = [fp |-> reply'.fp, rev |-> reply'.rev]
    BY <2>1, <2>5, <2>6
  <2>11. ProgressInv'
    BY <2>1, <2>3, <2>4 DEF ProgressInv
  <2>12. RetryInv'
    BY <2>1, <2>8, <2>9, <2>10 DEF RetryInv
  <2> QED
    BY <2>3, <2>11, <2>12 DEF Advanced
<1>5. CASE Abort
  <2>1. Extends(agg, agg)
    BY <1>0, OtherFieldsGrow DEF Grows
  <2>2. reply'.outcome \notin {"applied", "replayed"}
    BY <1>5 DEF Abort, Answer
  <2> QED
    BY <1>5, <2>1, <2>2 DEF Abort, ProgressInv, RetryInv, Advanced
<1> QED
  BY <1>1, <1>2, <1>3, <1>4, <1>5 DEF Commit

\* Recovery writes no idempotency record and never takes a revision back.
LEMMA RecoverProgresses ==
  ASSUME IInv, IInv', ProgressInv, RetryInv, Recover
  PROVE  ProgressInv' /\ RetryInv' /\ Advanced
<1>1. /\ ProgressInv' /\ Advanced /\ UNCHANGED <<txn, idem, reply>>
      /\ phase' \in {"recover", "free"}
  BY RecoverGrows
<1>2. /\ agg.rev \in Nat /\ \A k \in Keys : idem[k].rev \in Nat
      /\ agg'.rev = agg.rev \/ agg'.rev = agg.rev + 1
  BY <1>1 DEF IInv, TypeOK, Aggregate, Record, Advanced
<1>3. \A k \in Keys : idem'[k].rev <= agg'.rev
  BY <1>1, <1>2 DEF RetryInv
<1> QED
  BY <1>1, <1>3 DEF RetryInv

\* A created Session: nothing recorded, nothing to grow from.
LEMMA InitProgresses == Init => ProgressInv /\ RetryInv
<1> SUFFICES ASSUME Init PROVE ProgressInv /\ RetryInv
  OBVIOUS
<1>1. PICK g \in Configs : agg = NewAggregate(g)
  BY DEF Init
<1>2. agg \in Aggregate /\ work = agg
  BY InitSound DEF Init, IInv, TypeOK
<1>3. agg.history = <<>> /\ agg.rev = 1
  BY <1>1 DEF NewAggregate
<1>4. Recorded(agg.history)
  BY <1>3 DEF Recorded, LimitsExact, RunsNamed
<1>5. Extends(agg, agg)
  BY <1>2, OtherFieldsGrow DEF Grows
<1>6. ProgressInv
  BY <1>2, <1>4, <1>5 DEF ProgressInv, Init
<1>7. RetryInv
  BY <1>3 DEF RetryInv, Init
<1> QED
  BY <1>6, <1>7

\* One case per group of operations.
LEMMA NextProgresses ==
  ASSUME IInv, IInv', ProgressInv, RetryInv, [Next]_vars
  PROVE  ProgressInv' /\ RetryInv' /\ Advanced
<1>0. work \in Aggregate
  BY DEF IInv, TypeOK
<1>1. CASE Commit
  BY <1>1, CommitProgresses
<1>2. CASE Recover
  BY <1>2, RecoverProgresses
<1>3. CASE RunChange
  <2>1. /\ Grows(work, work') /\ UNCHANGED <<agg, phase, txn, idem, reply>>
        /\ phase = "commit"
    BY <1>0, <1>3, RunChangeGrows
  <2> QED
    BY <2>1, ChangeProgresses
<1>4. CASE QueueChange
  <2>1. /\ Grows(work, work') /\ UNCHANGED <<agg, phase, txn, idem, reply>>
        /\ phase = "commit"
    BY <1>0, <1>4, QueueChangeGrows
  <2> QED
    BY <2>1, ChangeProgresses
<1>5. CASE HistoryChange
  <2>1. /\ Grows(work, work') /\ UNCHANGED <<agg, phase, txn, idem, reply>>
        /\ phase = "commit"
    BY <1>0, <1>5, HistoryChangeGrows
  <2> QED
    BY <2>1, ChangeProgresses
<1>6. CASE ExtensionChange
  <2>1. /\ Grows(work, work') /\ UNCHANGED <<agg, phase, txn, idem, reply>>
        /\ phase = "commit"
    BY <1>0, <1>6, ExtensionChangeGrows
  <2> QED
    BY <2>1, ChangeProgresses
<1>7. CASE PromisedChange(TRUE)
  <2>1. /\ Grows(work, work') /\ UNCHANGED <<agg, phase, txn, idem, reply>>
        /\ phase = "commit"
    BY <1>0, <1>7, PromisedChangeGrows
  <2> QED
    BY <2>1, ChangeProgresses
<1>8. CASE UNCHANGED vars
  <2>1. /\ agg' = agg /\ work' = work /\ phase' = phase /\ txn' = txn
        /\ idem' = idem /\ reply' = reply
    BY <1>8 DEF vars
  <2>2. ProgressInv'
    BY <2>1 DEF ProgressInv
  <2>3. RetryInv'
    BY <2>1 DEF RetryInv
  <2> QED
    BY <2>1, <2>2, <2>3 DEF Advanced
<1>9. Next \/ UNCHANGED vars
  OBVIOUS
<1> QED
  BY <1>1, <1>2, <1>3, <1>4, <1>5, <1>6, <1>7, <1>8, <1>9, Zenon DEF Next, StoreNext

\* The invariants of the running transaction and of the idempotency records.
THEOREM ProgressInvariance == Spec => [](IInv /\ ProgressInv /\ RetryInv)
<1>1. Init => IInv /\ ProgressInv /\ RetryInv
  BY InitSound, InitProgresses
<1>2. (IInv /\ ProgressInv /\ RetryInv) /\ [Next]_vars
        => (IInv /\ ProgressInv /\ RetryInv)'
  BY NextKeeps, NextProgresses
<1> QED
  BY <1>1, <1>2, PTL DEF Spec

\* MemoryStore.Commit and Recover advance the revision by one, keep every fact
\* of History, every settled call and every outcome of a hook, and leave each
\* limit fact exact: what was durable stays durable.
THEOREM HistoryOnlyGrows == Spec => DurableProgress
<1> DEFINE Step == agg' # agg =>
             /\ agg'.rev = agg.rev + 1
             /\ Len(agg'.history) >= Len(agg.history)
             /\ \A i \in DOMAIN agg.history : agg'.history[i] = agg.history[i]
             /\ \A c \in Calls : agg.journal[c].status \in JournalTerminal =>
                  agg'.journal[c] = agg.journal[c]
             /\ \A i \in DOMAIN agg.ext : agg.ext[i].status \in TerminalStatuses =>
                  agg'.ext[i].status = agg.ext[i].status
             /\ LimitsExact(agg'.history)
<1>1. (IInv /\ ProgressInv /\ RetryInv) /\ (IInv)' /\ [Next]_vars => [Step]_vars
  <2> SUFFICES ASSUME IInv, ProgressInv, RetryInv, IInv', [Next]_vars
               PROVE  Step
    OBVIOUS
  <2>1. Advanced
    BY NextProgresses
  <2> SUFFICES ASSUME agg' # agg PROVE Step
    OBVIOUS
  <2> DEFINE b == [agg' EXCEPT !.rev = agg.rev]
  <2>2. agg'.rev = agg.rev + 1 /\ Extends(agg, b) /\ Recorded(agg'.history)
    BY <2>1 DEF Advanced
  <2>3. b.history = agg'.history /\ b.journal = agg'.journal /\ b.ext = agg'.ext
    BY DEF IInv, TypeOK, Aggregate
  <2> HIDE DEF b
  <2> QED
    BY <2>2, <2>3 DEF Extends, Recorded
<1> QED
  BY <1>1, ProgressInvariance, PTL DEF Spec, DurableProgress

\* recoverAggregate leaves nothing in doubt, whatever was open when the
\* process crashed.
THEOREM RecoverySettlesAll == Spec => RecoverySettles
<1> DEFINE Step == phase = "recover" /\ phase' = "free" =>
             /\ \A c \in Calls : agg'.journal[c].status # "pending"
             /\ \A i \in DOMAIN agg'.ext : agg'.ext[i].status # "pending"
             /\ \A x \in Attempts : ~Orphan(agg', x)
             /\ \/ Recoverable(agg')
                \/ /\ agg'.runState = "idle"
                   /\ RunHasStarted(agg'.history, agg.activeRun)
                        => RunHasEnded(agg'.history, agg.activeRun)
                   /\ \A i \in DOMAIN agg'.queue :
                        /\ agg'.queue[i].claimedBy = None
                        /\ agg.runState = "running" => agg'.queue[i].delivery # "steer"
<1>1. (IInv /\ ProgressInv /\ RetryInv) /\ [Next]_vars => [Step]_vars
  <2> SUFFICES ASSUME IInv, ProgressInv, [Next]_vars, phase = "recover", phase' = "free"
               PROVE  Step
    OBVIOUS
  <2>1. \E g \in Configs : FinishRecover(g)
    <3>1. CASE Commit
      BY <3>1 DEF Commit, Replay, RefuseStale, BeginCommit, Install, Abort
    <3>2. CASE Recover
      BY <3>2 DEF Recover, BeginRecover, RecoverAttemptStep, RecoverCallStep
    <3>3. work \in Aggregate
      BY DEF IInv, TypeOK
    <3>4. CASE RunChange \/ QueueChange \/ HistoryChange \/ ExtensionChange
                 \/ PromisedChange(TRUE)
      BY <3>3, <3>4, RunChangeGrows, QueueChangeGrows, HistoryChangeGrows,
         ExtensionChangeGrows, PromisedChangeGrows
    <3>5. CASE UNCHANGED vars
      BY <3>5 DEF vars
    <3> QED
      BY <3>1, <3>2, <3>4, <3>5 DEF Next, StoreNext
  <2>2. Settled(agg, agg')
    BY <2>1, RecoveredIsSettled
  <2> QED
    BY <2>2 DEF Settled, NothingPending
<1> QED
  BY <1>1, ProgressInvariance, PTL DEF Spec, RecoverySettles

\* The idempotency records: a key names one revision, and every answer to a
\* retry is the recorded one.
THEOREM RetryIsSafe == Spec => RetrySafe
<1> DEFINE Step ==
             /\ \A j, k \in Keys : idem'[j].fp # None /\ idem'[j].rev = idem'[k].rev => j = k
             /\ \A k \in Keys : idem'[k].rev <= agg'.rev
             /\ reply'.outcome \in {"applied", "replayed"} =>
                  idem'[reply'.key] = [fp |-> reply'.fp, rev |-> reply'.rev]
<1>1. (IInv /\ ProgressInv /\ RetryInv)' => [Step]_<<idem, reply>>
  BY DEF RetryInv
<1> QED
  BY <1>1, ProgressInvariance, PTL DEF RetrySafe
=============================================================================
