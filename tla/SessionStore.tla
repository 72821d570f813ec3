----------------------------- MODULE SessionStore -----------------------------
(***************************************************************************)
(* SessionStore (session/memory_store.go): one Session aggregate behind a  *)
(* mutex.  Commit applies a transaction of changes to a clone under        *)
(* compare-and-swap on the revision and an idempotency key, and installs   *)
(* the clone only when every change and the closing checks accept it.      *)
(* Recover resolves work that crossed a process crash.                     *)
(*                                                                         *)
(* The mutex is held from BeginCommit to Install or Abort, and from        *)
(* BeginRecover to FinishRecover, so phase is the mutex.  The content of a *)
(* request is chosen change by change; Abort is the change the Store       *)
(* refuses, or the cancelled context, at any point of the transaction.     *)
(***************************************************************************)
EXTENDS SessionAggregate

CONSTANTS
  Keys, Fingerprints,      \* idempotency keys and request contents
  MaxFacts, MaxQueue, MaxRev, MaxVersion, MaxTokens   \* bounds of an instance

ASSUME BoundsAssumption ==
  {MaxFacts, MaxQueue, MaxRev, MaxVersion, MaxTokens} \subseteq Nat

ASSUME ConfigsAssumption == Configs # {}

VARIABLES
  agg,      \* the committed aggregate: s.sessions[id].snapshot
  work,     \* the clone the running transaction or recovery changes
  phase,    \* "free", "commit" or "recover": who holds s.mu
  txn,      \* key and fingerprint of the running Commit
  idem,     \* aggregate.idempotency
  reply     \* the result of the last Commit that returned

vars == <<agg, work, phase, txn, idem, reply>>

NoTxn == [key |-> None, fp |-> None]

Reply == [key: Keys \cup {None}, fp: Fingerprints \cup {None}, rev: Nat,
          outcome: {"none", "applied", "replayed", "conflict", "rejected"}]

Record == [fp: Fingerprints \cup {None}, rev: Nat]

Init ==
  /\ \E g \in Configs : agg = NewAggregate(g)
  /\ work = agg
  /\ phase = "free"
  /\ txn = NoTxn
  /\ idem = [k \in Keys |-> [fp |-> None, rev |-> 0]]
  /\ reply = [key |-> None, fp |-> None, rev |-> 0, outcome |-> "none"]

-----------------------------------------------------------------------------
(* Commit.                                                                 *)

Answer(k, f, rev, outcome) ==
  reply' = [key |-> k, fp |-> f, rev |-> rev, outcome |-> outcome]

\* Mutant: a replay reports the current revision.
ReplayCurrent(k, f) ==
  /\ phase = "free" /\ idem[k].fp # None
  /\ Answer(k, f, agg.rev, IF idem[k].fp = f THEN "replayed" ELSE "conflict")
  /\ UNCHANGED <<agg, work, phase, txn, idem>>

\* The key was used before: the recorded result is returned, or the caller is
\* told that the key names another request.  The revision is not compared.
Replay(k, f) ==
  /\ phase = "free" /\ idem[k].fp # None
  /\ Answer(k, f, idem[k].rev, IF idem[k].fp = f THEN "replayed" ELSE "conflict")
  /\ UNCHANGED <<agg, work, phase, txn, idem>>

\* A fresh key whose expected revision is stale.
RefuseStale(k, f, expected) ==
  /\ phase = "free" /\ idem[k].fp = None /\ expected # agg.rev
  /\ Answer(k, f, agg.rev, "conflict")
  /\ UNCHANGED <<agg, work, phase, txn, idem>>

BeginCommit(k, f, expected) ==
  /\ phase = "free" /\ idem[k].fp = None /\ expected = agg.rev
  /\ agg.rev < MaxRev
  /\ phase' = "commit" /\ txn' = [key |-> k, fp |-> f] /\ work' = agg
  /\ UNCHANGED <<agg, idem, reply>>

\* One change of the transaction, accepted under the condition ok.
Change(ok, next) ==
  /\ phase = "commit" /\ ok
  /\ work' = next
  /\ UNCHANGED <<agg, phase, txn, idem, reply>>

Room == Len(work.history) < MaxFacts

\* What the runtime promises about its requests beyond what the Store checks
\* (see README): it marks only prepared calls as executing, adds attempts,
\* context and limits only inside an open Run, and ends a Run only after its
\* tool calls are settled.
OpenRun(r) == RunHasStarted(work.history, r) /\ ~RunHasEnded(work.history, r)

MessageChange(m, r, role) ==
  Change(Room /\ CanAppendMessage(work, m), AppendMessage(work, m, r, role))

AdmitChange(c, m, r, status) ==
  Change(Room /\ CanAdmitToolCall(work, c, m, r), AdmitToolCall(work, c, m, r, status))

SettleChange(c, status) ==
  Change(Room /\ CanSettleToolCall(work, agg.history, c), SettleToolCall(work, c, status))

PendingChange(c, r) ==
  Change(CanMarkPending(work, c, r), MarkPending(work, c, r))

StartRunChange(r) ==
  Change(Room /\ CanStartRun(work, r), StartRun(work, r, work.config))

EndRunChange(r, g, outcome) ==
  Change(Room /\ CanEndRun(work, r, g), EndRun(work, r, g, outcome))

StartAttemptChange(x, r, g) ==
  Change(Room /\ CanStartAttempt(work, x, r, g), StartAttempt(work, x, r, g))

FinishAttemptChange(x, r, g, outcome, tokens) ==
  Change(Room /\ CanFinishAttempt(work, x, r, g),
         FinishAttempt(work, x, r, g, outcome, tokens))

ContributeChange(k, r) ==
  Change(Room /\ CanContribute(work, k, r), Contribute(work, k, r))

LimitChange(r, what, used) ==
  Change(Room /\ CanReachLimit(work, r, what, used), ReachLimit(work, r, what, used))

ConfigChange(g) ==
  Change(Room /\ CanSetModelConfig(work), SetModelConfig(work, g))

EnqueueChange(m, d) ==
  Change(Len(work.queue) < MaxQueue /\ CanEnqueue(work, m), Enqueue(work, m, d))

ClaimChange(m, r) == Change(CanClaim(work, m, r), Claim(work, m, r))

ConsumeChange(m, r) == Change(CanConsume(work, m, r), Consume(work, m))

ReclassifyChange(m, d) == Change(CanRevise(work, m), Reclassify(work, m, d))

DeleteChange(m) == Change(CanRevise(work, m), Delete(work, m))

RunningChange(r) == Change(CanSetRunning(work), SetRunning(work, r))

IdleChange(r) == Change(CanSetIdle(work, r), SetIdle(work))

ContextChange(r, g, retain) ==
  Change(work.ctx.version < MaxVersion /\ CanSetContext(work, r, g),
         SetContext(work, r, g, retain))

AddEntryChange(e) == Change(CanAddEntry(work, e), AddEntry(work, e))

UpdateEntryChange(i, s) ==
  LET e == [work.ext[i] EXCEPT !.status = s.status, !.effect = s.effect,
                               !.context = s.context, !.decision = s.decision]
  IN  Change(CanUpdateEntry(work, i, e), UpdateEntry(work, i, e))

\* The closing checks pass: the clone becomes the aggregate.
Install ==
  /\ phase = "commit" /\ CanCommit(work)
  /\ agg' = NextRevision(work)
  /\ idem' = [idem EXCEPT ![txn.key] = [fp |-> txn.fp, rev |-> agg.rev + 1]]
  /\ Answer(txn.key, txn.fp, agg.rev + 1, "applied")
  /\ phase' = "free" /\ txn' = NoTxn /\ work' = agg'

\* A change or the closing checks refuse: nothing of the clone survives.
Abort ==
  /\ phase = "commit"
  /\ Answer(txn.key, txn.fp, agg.rev, "rejected")
  /\ phase' = "free" /\ txn' = NoTxn /\ work' = agg
  /\ UNCHANGED <<agg, idem>>

-----------------------------------------------------------------------------
(* Recover.                                                                *)

BeginRecover ==
  /\ phase = "free" /\ agg.rev < MaxRev
  /\ phase' = "recover" /\ work' = RecoverExtensions(agg)
  /\ UNCHANGED <<agg, txn, idem, reply>>

\* Started attempts are visited in the order of a Go map: any order.
RecoverAttemptStep(x, r, g) ==
  /\ phase = "recover"
  /\ Orphan(work, x) /\ AttemptOf(work.history, x, r, g)
  /\ work' = RecoverAttempt(work, x, r, g)
  /\ UNCHANGED <<agg, phase, txn, idem, reply>>

RecoverCallStep(c) ==
  /\ phase = "recover"
  /\ \A x \in Attempts : ~Orphan(work, x)
  /\ work.journal[c].status = "pending"
  /\ work' = RecoverCall(work, c)
  /\ UNCHANGED <<agg, phase, txn, idem, reply>>

\* The revision advances only when recovery changed something.
FinishRecover(g) ==
  /\ phase = "recover"
  /\ \A x \in Attempts : ~Orphan(work, x)
  /\ \A c \in Calls : work.journal[c].status # "pending"
  /\ RunHasStarted(work.history, work.activeRun) => RunFrozen(work.history, work.activeRun, g)
  /\ LET done == IF work.runState = "running" /\ ~Recoverable(work)
                 THEN InterruptRun(work, g) ELSE work
     IN  agg' = IF done = agg THEN agg ELSE NextRevision(done)
  /\ work' = agg' /\ phase' = "free"
  /\ UNCHANGED <<txn, idem, reply>>

-----------------------------------------------------------------------------
RunChange ==
  \/ \E r \in Runs : StartRunChange(r) \/ RunningChange(r)
  \/ \E r \in Runs, g \in Configs, o \in RunEnds : EndRunChange(r, g, o)
  \/ \E g \in Configs : ConfigChange(g)
  \/ \E r \in Runs, g \in Configs, b \in BOOLEAN : ContextChange(r, g, b)

QueueChange ==
  \/ \E m \in Messages, d \in Deliveries : EnqueueChange(m, d) \/ ReclassifyChange(m, d)
  \/ \E m \in Messages, r \in Runs : ClaimChange(m, r) \/ ConsumeChange(m, r)
  \/ \E m \in Messages : DeleteChange(m)

HistoryChange ==
  \/ \E m \in Messages, r \in Runs \cup {None}, role \in {"user", "assistant"} :
       MessageChange(m, r, role)
  \/ \E c \in Calls, m \in Messages, r \in Runs, s \in Unfinished : AdmitChange(c, m, r, s)
  \/ \E c \in Calls, s \in JournalTerminal : SettleChange(c, s)
  \/ \E x \in Attempts, r \in Runs, g \in Configs, o \in AttemptEnds, t \in 0..MaxTokens :
       FinishAttemptChange(x, r, g, o, t)

ExtensionChange ==
  \/ \E v \in Invocations, b \in Boundaries, r \in Runs \cup {None} :
       AddEntryChange(NewEntry(v, b, r))
  \/ \E i \in DOMAIN work.ext, s \in EntryStates : UpdateEntryChange(i, s)

\* The changes whose acceptance the Store leaves partly to its caller, with
\* the caller's promise (guarded) and without it.
PromisedChange(guarded) ==
  \/ \E c \in Calls, r \in Runs :
       /\ guarded => work.journal[c].status = "prepared"
       /\ PendingChange(c, r)
  \/ \E r \in Runs :
       /\ guarded => \A c \in Calls : work.journal[c].status \notin Unfinished
       /\ IdleChange(r)
  \/ \E r \in Runs :
       /\ guarded => OpenRun(r)
       /\ \/ \E x \in Attempts, g \in Configs : StartAttemptChange(x, r, g)
          \/ \E k \in ContextKeys : ContributeChange(k, r)
          \/ \E what \in LimitKinds, used \in 0..(MaxFacts * (MaxTokens + 1)) :
               LimitChange(r, what, used)

Commit ==
  \/ \E k \in Keys, f \in Fingerprints :
       Replay(k, f) \/ \E e \in 1..MaxRev : RefuseStale(k, f, e) \/ BeginCommit(k, f, e)
  \/ Install
  \/ Abort

Recover ==
  \/ BeginRecover
  \/ \E x \in Attempts, r \in Runs, g \in Configs : RecoverAttemptStep(x, r, g)
  \/ \E c \in Calls : RecoverCallStep(c)
  \/ \E g \in Configs : FinishRecover(g)

StoreNext == Commit \/ Recover \/ RunChange \/ QueueChange \/ HistoryChange
               \/ ExtensionChange

Next == StoreNext \/ PromisedChange(TRUE)

\* The Store as its own clients use it.
Spec == Init /\ [][Next]_vars

\* The Store alone, with a client that promises nothing.
OpenNext == StoreNext \/ PromisedChange(FALSE)

OpenSpec == Init /\ [][OpenNext]_vars

-----------------------------------------------------------------------------
(* Properties.                                                             *)

TypeOK ==
  /\ agg \in Aggregate /\ work \in Aggregate
  /\ phase \in {"free", "commit", "recover"}
  /\ txn \in [key: Keys \cup {None}, fp: Fingerprints \cup {None}]
  /\ idem \in [Keys -> Record]
  /\ reply \in Reply

\* Every aggregate the Store commits or recovers to is one that FileStore will
\* read again: validateFileDocument accepts it.  If this failed, a Session
\* would be accepted once and then be unrecoverable for ever.
CommittedReadable == DocumentValid(agg)

\* A step that changes the aggregate advances the revision by one, extends
\* History without touching what was there, never reopens a settled tool call
\* and never revives an extension invocation that has an outcome; and a limit
\* fact reports exactly the usage that precedes it, so the terminal reason of a
\* Run can be recomputed from the durable facts.
DurableProgress ==
  [][agg' # agg =>
       /\ agg'.rev = agg.rev + 1
       /\ Len(agg'.history) >= Len(agg.history)
       /\ \A i \in DOMAIN agg.history : agg'.history[i] = agg.history[i]
       /\ \A c \in Calls : agg.journal[c].status \in JournalTerminal =>
            agg'.journal[c] = agg.journal[c]
       /\ \A i \in DOMAIN agg.ext : agg.ext[i].status \in TerminalStatuses =>
            agg'.ext[i].status = agg.ext[i].status
       /\ LimitsExact(agg'.history)]_vars

\* What a crash left behind is settled when Recover returns: no call and no
\* hook is pending, no attempt is open, and a Run that nothing can continue is
\* over, with its claims released and its steers held.
RecoverySettles ==
  [][phase = "recover" /\ phase' = "free" =>
       /\ \A c \in Calls : agg'.journal[c].status # "pending"
       /\ \A i \in DOMAIN agg'.ext : agg'.ext[i].status # "pending"
       /\ \A x \in Attempts : ~Orphan(agg', x)
       /\ \/ Recoverable(agg')
          \/ /\ agg'.runState = "idle"
             /\ RunHasStarted(agg'.history, agg.activeRun)
                  => RunHasEnded(agg'.history, agg.activeRun)
             /\ \A i \in DOMAIN agg'.queue :
                  /\ agg'.queue[i].claimedBy = None
                  /\ agg.runState = "running" => agg'.queue[i].delivery # "steer"]_vars

\* Retrying a request is safe: a key takes effect at one revision only, and a
\* replay reports that revision whatever was committed in between.
RetrySafe ==
  [][/\ \A j, k \in Keys : idem'[j].fp # None /\ idem'[j].rev = idem'[k].rev => j = k
     /\ \A k \in Keys : idem'[k].rev <= agg'.rev
     /\ reply'.outcome \in {"applied", "replayed"} =>
          idem'[reply'.key] = [fp |-> reply'.fp, rev |-> reply'.rev]]_<<idem, reply>>
=============================================================================
