# agentSlot: a TLA+ model of the control plane

agentSlot assembles AI agents from replaceable components ("Slots"). What is
fixed, and what this project is about, is the control plane between them: the
durable Session aggregate and its Stores, the Runtime that drives one Session,
the five kinds of hooks around it, the registry that gives each Session at most
one Runtime, what subscribers are told, the host that starts and stops modules,
and the workflow scheduler. Paths below are relative to the repository root
(`src/` in PROJECT.json).

## 1. Inventory

| Component | State | Operations | Hard because |
|---|---|---|---|
| SessionStore (`session/contracts.go`, `memory_store.go`, `history.go`) | one aggregate per Session: revision, History, Queue, RunJournal, ExtensionJournal, run state, Context, model config; idempotency records | Create, Load, Commit, Recover, pages | a transaction is a list of twenty kinds of changes accepted one by one; what Commit accepts and what a later read demands are two different pieces of code |
| FileStore (`session/file_store.go`) | one JSON document per Session | the same, by temporary file, rename, sync | crash between any two system calls; an error after the rename |
| SessionManager, list (`session/memory_manager.go`, `list.go`) | list index, cursors | fork, summary, list | a traversal in pages while Sessions move, a clock that is set back |
| AgentRuntime (`standardagent/runtime_execution.go`, `runtime_commands.go`, `runtime_context.go`) | lifecycle state, the active Run with its cancellation flag, counters and frozen configuration | send, steer, pending, cancel, edit/delete/reclassify, update config, close; the loop of a Run | commands interleave with a loop that holds the mutex only while it commits; crashes; Store failures |
| Standard loop (`standardagent/loop_module.go`, `loop/`) | the Loop state | Act: request model, execute tools, continue, wait, finish | a protocol of ordered actions |
| Tool dispatcher (`standardagent/tool_dispatcher.go`, `policy/`) | results of a batch | validate, authorize, mark, invoke | parallel calls, the point of no return |
| Model executor (`model/openaicompat/`) | a sequence counter per process | attempts, retries, events | identities across restarts |
| Registry and application Runtime (`standardagent/runtime.go`, `runtime_lifecycle.go`) | entries, in-flight creations and close tombstones; open once; the operation lifetime | resume, close, create, start, stop | single flight, cancellation delivered by other goroutines |
| Hooks (`hook/`, `standardagent/runtime_input_gate*.go`, `runtime_tool_*.go`, `runtime_completion.go`, `runtime_hooks.go`, `runtime_extension_*.go`) | ExtensionJournal entries | prepare, mark pending, settle, apply, recover | code runs outside every lock between two commits |
| Goal (`goal/`) | decisions per Run | evaluate, record | stale decisions |
| Event stream, observation hub (`standardagent/event_stream.go`, `observations.go`) | bounded queues | publish, receive, drain | overflow |
| Gateway and channels (`standardagent/gateway*.go`, `interaction/`) | bindings | forward to the coordinator | service generations |
| Builder, lifecycle (`builder.go`, `resolver.go`, `lifecycle.go`, ...) | module order | build, start, rollback, stop | partial failure |
| Workflow (`workflow/`) | jobs, mailboxes | spawn, execute, cancel, wait | races between completion and cancellation |
| Leaves: `memory/`, `context/`, `billing/`, `credential/`, `artifact/`, `workspace/`, `tool/*`, `observe/jsonlines`, `cmd/`, `internal/`, `componentcatalog/` | | | I/O, value types, static data |

How they interact: a channel calls the Gateway; the Gateway acquires the
application Runtime and calls the coordinator; the coordinator asks the
registry for the Session's Runtime, creating it through the SessionManager
(Store.Recover) when there is none; the Runtime commits to the Store under its
own mutex; the loop goroutine of the active Run calls the executor and the
tools without the mutex and takes it for every commit; the executor calls back
into the Runtime (`Started`, `Finished`) for every physical attempt.

What makes each correct:

- the Store: History is append-only, a retried request takes effect once, what
  is committed can be read again, recovery settles everything a crash left; the
  file Store keeps what it acknowledged and leaves no unreadable file;
- the Runtime: a Tool runs at most once per call, accepted inputs are neither
  lost nor consumed twice, limits hold across crashes, cancellation is
  honoured, Runs and closes end, Runtime and Store agree on what is running;
- hooks: an invocation happens at most once, the effects of a chain are applied
  together or not at all, the answer given to a caller stays true, context
  reaches the model with what it belongs to, and opening a Session decides
  whatever an earlier process left undecided;
- the registry: one Runtime per Session, a usable Runtime can be reached,
  every operation returns, stop completes;
- delivery: a subscriber misses no announced revision without being told, and a
  stop that succeeds has drained everything;
- the host: start order respects the selected dependencies, and whatever was
  started is stopped;
- workflow: every wait returns, results and reasons are true, stop drains.

The hazards behind these, each at its line, are listed in PROJECT.json.

## 2. Modules

| Module | Models | Extends |
|---|---|---|
| `ExtensionJournal` | one journal entry of a hook: shape, transitions, recovery | |
| `SessionAggregate` | the aggregate; every change as a pair `CanX`/`X`; recovery; `DocumentValid`, the conditions of `validateFileDocument` | `ExtensionJournal` |
| `SessionStore` | Commit and Recover as steps of whoever holds the Store's mutex | `SessionAggregate` |
| `SessionAggregateProofs` | lemmas about the changes of an aggregate and about `Positions` | `SessionAggregate`, `Positions`, `TLAPS` |
| `SessionStoreProofs` | theorems about `SessionStore` | `SessionStore`, `SessionAggregateProofs` |
| `AgentRuntime` | commands and loop of one Runtime over the aggregate | `SessionAggregate`, `Positions` |
| `AgentRuntimeProofs` | theorems about `AgentRuntime` | `AgentRuntime`, `SessionAggregateProofs` |
| `Positions` | the part of a sequence at given positions: a loop that keeps some elements (operators) | |
| `InputGates` | Send, Steer and EditQueued through a chain of gates | `ExtensionJournal` |
| `ToolHooks` | preflights, dispatch and result hooks of one batch of tool calls | `ExtensionJournal` |
| `CompletionGates` | the natural end of a Run: Goal, gates, legacy hooks | `ExtensionJournal` |
| `CompletionGatesProofs` | theorems about `CompletionGates` | `CompletionGates`, `TLAPS` |
| `SessionLifecycle` | the component chains of opening and closing a Session | `ExtensionJournal` |
| `RuntimeRegistry` | clients, registry and lifecycles for one SessionID | |
| `RuntimeRegistryProofs` | theorems about `RuntimeRegistry` | `RuntimeRegistry`, `TLAPS` |
| `SessionList` | the list index: logical times, cursors, pages (operators) | |
| `FileStore` | the file Store over a directory that can lose what was not synced | `SessionList` |
| `FileStoreProofs` | theorems about `FileStore`, the refinement among them | `FileStore`, `TLAPS` |
| `DurableLog` | abstract: what a crash-safe Store promises; implemented by `FileStore` | |
| `Delivery` | event hub and streams, commit observers, observation hub, Gateway binding, application stop | |
| `DeliveryProofs` | theorems about `Delivery` | `Delivery`, `TLAPS` |
| `Application` | mounting, selection, ordering, start, rollback and stop of modules | |
| `Workflow` | Scheduler, JobStore and Mailbox | |
| `WorkflowProofs` | theorems about `Workflow` | `Workflow`, `TLAPS` |
| `MC*` | symmetry, view, constraint and constants of the runs | the module checked |

**SessionAggregate.** A History fact keeps its kind, identity, Run, status,
configuration and count. Text, arguments, actors and timestamps are left out; a
step and a context source together are one `ContextKey`. A tool call and its
journal entry are one change, likewise a result and its terminal entry, because
`validateToolTransactions` refuses one without the other. Budget and limit facts
are one kind with three meters (tokens, attempts, calls). The trigger identity
of a limit fact is not kept. Queue edits are reclassifications: only the
delivery is modelled.

**SessionStore.** `phase` is the mutex: it is held from `BeginCommit` to
`Install` or `Abort`, and from `BeginRecover` to `FinishRecover`. Changes are
chosen one at a time into the clone `work`, so a transaction is any sequence of
changes; the committed aggregate `agg` moves only in `Install` and
`FinishRecover`. Recovery visits attempts and calls in any order, as the Go map
does. The Store trusts its client in three places: a pending mark for a call
that is not in History, attempts, context and limits before the start fact of
their Run, and going idle with an unfinished call that a later change of the
same transaction hides from the closing check. `Spec` has a client that keeps
these promises (`PromisedChange(TRUE)`), which `AgentRuntime` does; `OpenSpec`
has one that does not.

**AgentRuntime.** `rt` is `runtimeInstance` and `activeRun`, `loop` the stack of
the loop goroutine, `seq` the executor's counter, `env` a history variable for
what happened outside (how often each Tool ran, which inputs were acknowledged
or deleted, faults and crashes so far). Every critical section is one action.
`Errs` is a commit that returns an error: because the Store refuses it, or
because the Store fails, at most `MaxFaults` times. `Crash` forgets everything
but `agg`; `Resume` is `Store.Recover`, `newRuntimeInstance` and
`restorePreparedRun`. The revision is not modelled: the Runtime is the only
writer and re-reads it under its mutex, and a command with a stale revision
does nothing. Serial tools run one at a time in any order. Hooks and the Goal
appear only as a proposal that the evaluation of a completion may or may not
produce; the ExtensionJournal stays empty here. The four hook modules take the
other half: they keep the journal and reduce the Run to what the hooks see.

**RuntimeRegistry.** For one SessionID: `entry` and `flight` are the registry's
two maps, `rts` the Runtimes with their lifecycle and the result of their
opening, `op` where each client is in `resume` or `close`. `app` follows
`stop`: cancel the lifetime, empty the registry, close what was there, wait for
the operations. `LifetimeOver` is the goroutine of `context.AfterFunc`; it may
be late. `Events` selects which of close, disconnect, fail and stop happen.

**The hook modules** share one picture. An entry is a record with a status, an
effect, a context and a decision (`ExtensionJournal`); the durable journal is a
function from invocations to entries, and the driver keeps copies of its own in
memory, as the code does. Every commit of a driver is a step with three results:
answered, failed and lost, or failed and durable; `MaxTrouble` bounds the
failures. What the Store refuses (`StoreAccepts`, `ValidTransition`) fails
without trouble. A crash forgets the memory and keeps the journal. Names,
digests, fingerprints, sizes and times are left out, except in two places: the
set of hooks may differ after a restart, and a Goal decision remembers whether
its time still has the monotonic reading of the process, since the Goal store
compares records for deep equality.

**InputGates.** A submission number stands for the text it proposes, for its
invocations and for the message a Send creates. `subs` is the stack of the
submission each Runtime works on: `submissionMu` admits one at a time, and a
Runtime that failed closed (owner "old") may still be in one while its successor
is open. `consumed` is what Runs took into History, with the contexts told.

**ToolHooks.** `pc`, `todo` and `then` are the loop goroutine and the commits it
still has to make; `at` the invocation it is at. `Applications` are the
applications the batch may meet: the one it starts under and the one of a
restart. `hooks` and `tools` count invocations over all processes.

**CompletionGates.** One Run from a model answer without tool calls to its end.
`why` is a history variable: by which exit a completed Run got past its gates.
`goal` and `decisions` belong to the Goal store, which has its own failures.

**SessionLifecycle.** `work` is the chain each owner evaluates; the owner "old"
is the goroutine of `finishClose` that a Runtime which failed closed while it
was closing leaves behind. At most one such goroutine is kept at a time.

**FileStore.** `dir` is the directory as the process sees it, `disk` the set of
files each Session may have after a loss of power. A write adds a torn file
until the temporary file is synced, a rename keeps the old file until the
directory is. An operation is a `step` that advances, fails or crashes. A
document is its log of committed entries, whether a Run is active, whether it
has hook records (its format), and its idempotency records. `kept` is what
callers were told; with `log` it is the state of `DurableLog`.

**Delivery.** A commit and its announcement are one step (the mutex is held); a
stream is a queue and a flag for the channel `Recv` took. The application's stop
has its phases: unbind, close the Runtime, expire, drain, answer; after an
expired stop the second half goes on in the background.

**Application.** `Applications` are sequences of modules from a catalog with a
single, a keyed and a chain Slot, defaults and overrides, required and optional
requirements, and a module that contributes nothing; every triple is an initial
state. Selection, requirement resolution and order are operators over it.

**Workflow.** One step per critical section of the Scheduler, the JobStore and
the Mailbox. A wait holds the number of the channel it found.

## 3. Runs

| Run | Question | Bounds |
|---|---|---|
| `SessionStore_all` | transactions of the Queue, of tool calls, attempts and limits, or of hook records, with retries and recovery | 1 Run, 4 facts, 3 revisions, 2 keys, 2 contents |
| `AgentRuntime_crash` | a crash anywhere in a Run with parallel tools, retries and a token budget, Store failures; other Sessions share the executor | 2 calls, 3 attempts, 1 crash, 2 faults |
| `AgentRuntime_live` | all commands against chained Runs; safety of inputs and liveness | 2 Runs, 2 inputs, 1 proposal, 2 calls |
| `RuntimeRegistry_all` | single flight until stop, and liveness, with every event | 2 clients, 2 Runtimes, 4 operations |
| `CompletionGates_all` | two gates, a Goal, steers, restart with other gates | 4 occurrences, 2 steps, 2 troubles |
| `InputGates_all` | two submissions of any kind through up to two gates | 1 trouble |
| `ToolHooks_all` | two calls, two preflights, a result hook, three applications | 2 troubles |
| `FileStore_all` | two Sessions, two keys, a clock with two times in any order, pages of one | 3 writes, 2 epochs, 2 troubles |
| `Workflow_all` | two callers, one Job | 3 operations, 1 message, 1 trouble |
| `Application_all` | 1331 applications, two profiles, two callers | 2 failures |
| `Delivery_all` | one subscriber, one commit observer, one sink | buffer 2, 4 revisions, 1 temporary event, 1 trouble |
| `SessionLifecycle_all` | two components with any phases | 3 occurrences, 2 troubles |

What they show is in PROJECT.json ("about"); the properties are stated, each with
the code it is about, at the end of its module. Type invariants are conjuncts of
one invariant of each module, or proved.

Why the bounds are enough to be interesting. Recovery needs a call in each
journal status and an item in each delivery, claimed and not; a retry needs
another commit in between; a batch needs two calls for one to be marked and the
other not; a Store that fails twice refuses the end of a Run and then its
recovery. A chain needs two hooks for one to succeed and the other to fail, and
an occurrence after a restart to be confused with the one before. Open context
needs two openings before a Run to be superseded. A listing needs two Sessions
with equal times and a page of one. A start needs three modules for a rollback
to pass a failing Stop. Where an instance may be too small, the properties
proved in section 4 hold for any: of the Store, the file Store, `Workflow` and
`Delivery` all but liveness, of the Runtime, of the registry and of
`CompletionGates` all safety. Every constant named `Max...` only bounds the
instance, but for the limits of a Run in `AgentRuntime` and the Goal's
`MaxFollowOns`, which are the code's own.

`SessionStore_all` explores three parts of the aggregate (Queue; tool calls,
attempts and limits; hooks, context and contributions) each with Runs, keys and
recovery, and not their product (`Apart`); it identifies states that differ only
in the last reply, which no action reads, and permutes interchangeable
identities. Its two commits after the first revision are enough for a retry with
a commit in between; that no longer history breaks its properties is proved.
`SessionStore_open.cfg` checks `RetrySafe` and `DurableProgress` for a client
that keeps none of the promises. Deadlock is checked in
`CompletionGates_all`; elsewhere, with identities and operations used up, the
system may stop.

Fairness. Only goroutines that the code starts and that hold no one else's
decision are assumed to be scheduled, by weak fairness: the loop of a Run (the
model, the tools and the hooks return), `finishClose`, a submission that is past
its guard, a Job's goroutine, the workers of the observers and of the
observation hub, the phases of a stop that has begun, a client inside a call.
Commands, crashes, resumptions, failures, expirations and what providers do are
never required; a provider's answer to a cancellation in `Workflow` is part of
the Job's goroutine. `MaxOps` matters for liveness in `RuntimeRegistry`: clients
that start new creations for ever could starve one that waits, since a woken
waiter has to look again.

Refinement. `FileStore` implements `DurableLog` with `log` mapped to the logs of
the documents the process sees and `kept` to what was acknowledged
(`DurableLogSpec`): an operation extends one log by one entry that was not in
it, an acknowledgement keeps what is there, and a crash takes only entries that
were never acknowledged.

### Where the code and its documentation disagree

Each of these configurations checks one sentence of the repository, and TLC
refutes it. They are kept beside the runs and can be repeated with
`tlc -config <name>.cfg MC<module>`.

| Configuration | Sentence | What happens |
|---|---|---|
| `AgentRuntime_converge` | `CHANGELOG.md:207` "cancellation, Loop errors, and panics converge to durable Run terminal facts" | a cancellation between the commit of prepared calls and their execution: the finishing transaction is refused (`memory_store.go:562`), recovery keeps the Run, the Runtime fails closed |
| `AgentRuntime_identity` | `model/contracts.go:253` "AttemptID is local, stable identity" | after a restart the executor repeats attempt identities the Session already has, and the Store refuses them |
| `RuntimeRegistry_stop` | `runtime.go:162` "A SessionID has one Runtime even when multiple Gateway channels resume it concurrently." | stop leaves no tombstone; a Resume whose cancellation is late creates a second Runtime |
| `RuntimeRegistry_disconnect` | `COMPONENT_MAP.md:423` "disconnect never cancels the Run" | a client that disconnects while resuming closes a Runtime others use |
| `RuntimeRegistry_failed` | `runtime_execution.go:1361` "an explicit Close/Resume obtains a fresh recovery attempt" | a Runtime that failed closed stays registered; Resume returns it and Close is refused |
| `CompletionGates_bypass` | `README.md:574` "`hook.CompletionGate` owns the fail-closed natural-completion seam" | a steer seen at the first look (`runtime_execution.go:958`) and withdrawn before the second: the Run completes and no gate was asked |
| `ToolHooks_denied` | `README.md:563` "Recovery can resume only an exact prepared call/preflight set" | an application without any preflight resumes the batch: `evaluateToolPreflights` returns at once (`runtime_tool_preflight.go:65`) and a call the journal says is denied runs |
| `FileStore_ack` | `file_store.go:28` "FileStore is a crash-safe, single-process SessionStore" | after a failed directory sync a retry is answered from the idempotency record without a sync (`file_store.go:328`), and a loss of power takes the commit |
| `Delivery_converge` | `README.md:492` "Every newly applied commit emits only a `SessionID + Revision` notification" | the recovery after a failed finish advances the revision (`runtime_execution.go:1374`) and announces nothing; a subscriber that is up to date does not know |
| `SessionLifecycle_zombie` | `runtime.go:256` "Concurrent Resume therefore cannot create a second Runtime while the old one can still commit." | a Runtime that fails closed while it is closing signals `closeDone` (`runtime_execution.go:1371`), its tombstone goes, and its close chain goes on committing beside a new Runtime; `CloseSession` answers with an empty receipt and no error |

Observations of the same kind without a configuration:

- A steer accepted between the decision to complete and `finishRun` stays a
  steer after its Run completed, and the next Run consumes it; no input is lost.
- A Resume that was past its last context check when stop began registers its
  Runtime after `closeAll`, which nothing closes.
- A pending lifecycle entry is carried to its outcome and its disposition in one
  change (`runtime_lifecycle.go:158`), which `validateExtensionTransition`
  refuses; only the goroutine of the last row above can leave one to be found.
- `failToolPreflightBatch` ends a batch in up to four commits; when one fails,
  the entries are settled by the next open, not by the Run's end.
- A Goal that is replaced while gates run makes the recorded decision conflict,
  and the Run is interrupted although every gate agreed.
- A Job whose JobStore fails at its start or end stays non-terminal for ever; a
  Close of a queued Job may answer while it is "running"; a completion message
  that cannot be published is not retried.
- After a Stop of the application has failed or expired, its answer is final:
  modules that are still up cannot be stopped again.

`AgentRuntime_converge` also tells how to read `CrashSafe` and `Agreement`: the
Runtime that fails closed is safe, and a restart of the process continues the
Run; it is the promise of a terminal fact that is not kept.

## 4. Proofs

Each theorem holds for every value of the constants that satisfies the module's
assumption: any sets of identities, any bounds. The assumptions say that bounds
are natural numbers and that sets the code keeps apart do not meet; beyond that,
`RuntimeAssumption` asks for finitely many calls and attempts that are numbered,
as the executor numbers them, `DeliveryAssumption` for buffers with at least
one place, which `newEventHub` ensures, and `CompletionAssumption` for a Run of
at least one step.

| Theorem | Statement | In words |
|---|---|---|
| `SessionStoreProofs!TypeCorrect` | `Spec => []TypeOK` | |
| `SessionStoreProofs!CommittedIsReadable` | `Spec => []CommittedReadable` | what Commit accepts, a later read accepts |
| `SessionStoreProofs!HistoryOnlyGrows` | `Spec => DurableProgress` | History is append-only, terminal entries stay, limits are recorded truthfully |
| `SessionStoreProofs!RecoverySettlesAll` | `Spec => RecoverySettles` | recovery leaves nothing undecided, in any order of its loops |
| `SessionStoreProofs!RetryIsSafe` | `Spec => RetrySafe` | a key takes effect at one revision, and every answer names it |
| `AgentRuntimeProofs!OneRunPerCall` | `Spec => []ToolAtMostOnce` | across any crashes and Store failures |
| `AgentRuntimeProofs!RuntimeAgreesWithStore` | `Spec => []Agreement` | Runtime and Store agree on what is running |
| `AgentRuntimeProofs!NoInputLost` | `Spec => []InputKept` | an accepted input is neither lost nor consumed twice |
| `AgentRuntimeProofs!CancellationWins` | `Spec => CancelHonoured` | nothing new starts after a cancellation |
| `AgentRuntimeProofs!LimitsAreKept` | `Spec => []LimitsHold` | limits hold over a Run's durable life, and the counters are what History shows |
| `AgentRuntimeProofs!CrashesAreSafe` | `Spec => []CrashSafe` | the process may stop anywhere and its Session can be read, recovered and reopened |
| `FileStoreProofs!EveryFileReadable` | `Spec => []AlwaysReadable` | whatever a loss of power leaves can be read |
| `FileStoreProofs!AnswersNameEntries` | `Spec => AnswersTrue` | an answer names the entry of its request |
| `FileStoreProofs!StoreIsDurableLog` | `Spec => DurableLogSpec` | `FileStore` implements `DurableLog` |
| `FileStoreProofs!TraversalIsComplete` | `Spec => []WalkComplete` | a listing misses nothing and repeats nothing |
| `RuntimeRegistryProofs!SingleRuntime` | `Spec => []OneRuntime` | one Runtime per Session until stop begins |
| `RuntimeRegistryProofs!ReadyReachable` | `Spec => []ReadyIsReachable` | a usable Runtime can be reached |
| `DeliveryProofs!NoRevisionMissed` | `Spec => []NoSilentGap` | a subscriber misses no announced revision unknowingly |
| `DeliveryProofs!StopIsSilent` | `Spec => []StopIsComplete` | a stop that succeeds has drained everything |
| `CompletionGatesProofs!GatesAllOrNothing` | `Spec => []AllOrNothing` | the effects of an occurrence are applied together |
| `CompletionGatesProofs!CompletionIsJustified` | `Spec => []CompletionJustified` | Goal and Run are done on the word of the gates |
| `CompletionGatesProofs!EveryMoveAccepted` | `Spec => MovesAccepted` | the safety half of `RunEnds`: no commit of a completion is refused for its journal |
| `WorkflowProofs!StopLeavesNothing` | `Spec => []StopDrains` | |
| `WorkflowProofs!ParentToldTruth` | `Spec => []ResultsTrue` | each result is told once and is the Job's |

No property is inductive as it stands. Each module of proofs has one `IInv`,
shows that `Init` implies it, that every action keeps it (one lemma per action,
or per group of actions that change the same state), and reads the properties
off it. Why `IInv` says more than the property:

**SessionStoreProofs.** `CommittedReadable` speaks of the committed aggregate,
and the next one grows change by change in the clone, where a transaction is not
complete. `IInv` says of `agg` that it is a valid document, and of the clone
`work` what every prefix of a transaction keeps: the History conditions in full
(`MessagesUnique`, `CallsPaired`, `RunsPaired`, `AttemptsPaired`, `InsideRun`,
`OncePerRun`), the journal paired with History, Context versions and entries
well-shaped, and the Queue free of duplicates. What a transaction may break on
the way (claims belong to the active Run, no unfinished call in an idle Session)
comes back from `CanCommit` at `Install`, and from the guards of the recovery
loops at `FinishRecover`. The proofs lean on the three promises in
`PromisedChange(TRUE)`.

The second part proves the action properties. `Install` publishes many changes
at once, so each has to be a relation between `agg` and the clone that composes:
`Grows` (History extends, terminal entries stay, every new limit fact is
truthful). `ProgressInv` says that `Grows(agg, work)` holds while a transaction
or a recovery is at work, and where the Queue of a recovery came from.
`LimitsExact` compares a fact with a count over the facts before it; `UsedSame`
shows that the count depends on those facts alone, and a limit fact is appended
with the count of exactly those facts. `RetryInv` says that a record is never ahead of the
aggregate and no two records have the same revision; a new one gets the revision
after all of them.

**AgentRuntimeProofs.** `RanAsMarked` relates how often a Tool ran to the status
of its journal entry and to its place in the loop; that a call which is still to
be done is "prepared" and one which is inside is "pending" is what makes a second
run impossible after a crash, when only the journal is left. `RunInv` and
`AttemptInv` tie the Runtime's Run to the Session's and the open attempt to the
loop; `Placed` says of each message that Queue, History and the deleted inputs
exclude each other. Most of this does not depend on the order of History, so an
action is described by the set of facts it adds (`Grows`), and its effect on the
Queue by positions.

`LimitsHold` and `CrashSafe` need more (`DocumentInvariance`): the Runtime and its
loop have the types of the code (`Typed`), and what is durable is a document
after each of their commits, although most commits add several facts (`Document`:
valid, every call of a Run that started, the active Run open). Facts of one kind
with distinct identities that are admissible one by one are admissible together
(`IsBatch`, in `SessionAggregateProofs`), so a step is one batch after another. `BatchInv` says
where unfinished calls can be: nowhere between two batches of calls, in a batch
only where the loop still works on them, and never in a Run whose limit is
recorded, so Recover finds nothing to continue in such a Run and interrupts it. `UsageInv` says
that the counters are those of History; a count is the number of tokens, attempts
and calls seen one by one, so a fact that is one more use adds one and a step
without such a fact leaves it, and no induction over History is needed. For
`CrashSafe`, `Recovered` is described by what it changes (`RecoversTo`: every
attempt ended, no call pending; `Recoverable`: a Run is left running only when a
call of it is prepared). From there it is a document again (`RecoveredDocument`), it can be
opened (`LimitRecovered`), and Recover would find nothing (`NothingToRecover`).

**FileStoreProofs.** Every file a loss of power may leave is sound, its log is a
prefix of what the process sees, and it reaches as far as any caller was told
(`FilesInv`); the document of the operation at work adds one entry to the log,
and a key only once (`OpInv`). `StoreIsDurableLog` maps each step to a step of
`DurableLog` or to a stutter.

A traversal has an invariant of its own (`WalkInv`). While the Store honours the
client's cursor (`Live`), whatever was not there at the first page has a later
generation than the cursor's, whatever was there and was not written since was
returned or lies behind the cursor, and what was returned does not. A write can
disturb this only by moving a Session; its stamp is later than every time the
index has seen, hence than the cursor's (`UpdateTimeGrows`, `LatestIs`), and so
it leaves the part that is still to come. That a failed write, a crash or a
reopening does no harm is in `Live` and in the Sessions counted as moved. `SortedIs`
and `PageIs` show once that a page is in order and that what it leaves out
follows its last summary.

**RuntimeRegistryProofs.** Up to the moment stop begins (`RuntimeRegistry_stop`
shows that the promise ends there; `StopIsFinal`), a creation in flight belongs
to exactly one client, which is in the creating part of `resume`, and then no
Runtime is registered (`FlightInv`); what each client holds at each program
counter (`OpInv`); and every live Runtime is the registered one, or the one
behind its own close tombstone, or the one the creating client holds
(`RuntimeInv`). These three places exclude each other, which gives `OneRuntime`.

**DeliveryProofs.** That no revision falls between a view and its subscription
needs the life of a subscription (`Wired`); that a stream overflows only when
its client is behind needs the order of the queue (`InOrder`): a full queue of
revisions is as many revisions as it has places, so the client has missed more
than the limit. `StopInv` says how far each phase of the stop has come while the
Runtime still lives.

**CompletionGatesProofs.** `AllOrNothing` says nothing of a chain that is under
way, and one gate's entry can only be judged beside those before and behind it.
`Journal` orders any two entries of an occurrence (`Ordered`): behind a prepared
gate nothing started, behind a pending one nothing ended but by cancellation, and
an earlier success is applied exactly if the later ones are. `ChainAtHand`,
`Good` and `GateAtHand` tie that to the goroutine: the gates before the one at
hand succeeded, the outcome of the last may be known only in memory, and a gate
that is pending before it is called was not called. Every settlement is then one
fact (`MovedTo`): each entry makes a move the Store accepts, keeps its step and
Goal, and the order stands. `AbortedMoved`, `ReturnMoved`, `AppliedMoved` and
their like prove it once per settlement; what a Goal decision or the end of the
Run was based on is never taken back by such a move (`DecisionsStand`,
`GatedStands`). `GoalAhead` keeps the version of a decision behind the Goal's, so
that a later chain cannot be mistaken for the one that carried it. `Bounded`
counts steps and steers together, because each steer may cost a step beyond
the limit.

**WorkflowProofs.** A Job is registered exactly while its goroutine is counted
(`Registered`), and its stored status follows the goroutine (`Follows`), the only
one to update it; whoever cancels a registered Job has recorded a reason before
(`ReasonFirst`).

How definitions are written for this. The provers know neither a fold nor
`SelectSeq`, so loops that keep some elements of a slice are selections by
positions (`Positions`), maxima are `CHOOSE`, and what a queue of events holds is
a set (`Revisions`, `Missing`). The summaries of a listing are sorted by how many
come before each (`Sorted`), which is the order of `sortSessionSummaries` because
no two have the same ID. What a Run has used of a limit is the number of
tokens, attempts and calls counted one by one (`Uses`). `SessionAggregateProofs`
shows once what a selection holds and what each change keeps of an aggregate.

Only model-checked:

- all liveness (fairness and `ENABLED` are outside the provers' fragment);
- `OrderExact` and `NothingLeaks` of `Application`: the order is a recursive
  function over the modules;
- the invariants and action properties of `InputGates`, `ToolHooks` and
  `SessionLifecycle`, whose proofs have not been attempted. In every module of the
  table all safety properties that the runs check are proved.

## 5. Not modelled

Content: message text, tool arguments and results, prompts, token counting,
JSON, actors; time, but for the logical times of the listing. I/O: HTTP,
processes, protocol adapters (`interaction/*channel`, `interaction/cli`),
credentials, artifacts, workspaces, the installed tools. Static assembly:
catalog, scaffold, wiring of the standard agent, request validation in the
Gateway. Sequential protocol checkers and value types of `model/` and `memory/`;
the tail compactor, a function of text and token counts; billing, a projection
of attempts. Create, fork and summary (`session/memory_manager.go`) build a new
Session from a Snapshot and register its Runtime under a fresh SessionID, which
nobody else can contend for.

Composition. A hook module reduces the Run to what its hooks see, and
`AgentRuntime` reduces hooks to a proposal; that two boundaries do not disturb
each other's entries is by the boundary field each driver filters on, and is not
checked in one model.

## 6. Plan

Done: the Store, the Runtime, the registry, all hooks, the file Store and the
listing, delivery, the application host, the workflow scheduler; theorems about
the Store, the Runtime, the file Store and its refinement, the registry, delivery,
workflow and the completion gates. Next:

1. `AgentRuntime` with commits that are durable although they failed, as the
   hook modules have them, and the trigger of a limit fact.
2. The composition of `SessionLifecycle` with `RuntimeRegistry`: the goroutine
   of a Runtime that failed closed beside the tombstones.
