--------------------------- MODULE SessionLifecycle ---------------------------
(***************************************************************************)
(* The chain of SessionLifecycle components around a Session's Runtime     *)
(* (standardagent/runtime_lifecycle.go, beginClose in runtime.go,          *)
(* startCloseLocked and finishClose in runtime_commands.go).  Opening a    *)
(* Runtime settles what earlier ones left in the ExtensionJournal, then    *)
(* evaluates the components of the open phase; their context waits in the  *)
(* journal for the next Run.  An explicit close prepares the chain of the  *)
(* close phase, waits for the Run and evaluates it.                        *)
(*                                                                         *)
(* Components run outside every lock and commit their progress one by one. *)
(* A commit can fail with or without being durable, the process can crash, *)
(* and a Runtime whose Run could not be ended fails closed: when it was    *)
(* closing, its goroutine goes on with the close chain although the        *)
(* registry already admits a new Runtime (owner "old").                    *)
(*                                                                         *)
(* An invocation is an occurrence of the chain and a component of it.  A   *)
(* View and the Commit that follows it under the Runtime's mutex are one   *)
(* step; a compare-and-swap lost to the other owner is a failed commit.    *)
(***************************************************************************)
EXTENDS Integers, FiniteSets, FiniteSetsExt, TLC, ExtensionJournal

CONSTANTS
  MaxComponents,   \* the length of the application's chain
  MaxOccurrences,  \* chains prepared over the life of the Session
  MaxTrouble,      \* failed commits, crashes and Runs that cannot be ended
  Failures         \* the statuses a component's failure may be classified as

ASSUME LifecycleBounds == {MaxComponents, MaxOccurrences, MaxTrouble} \subseteq Nat \ {0}

ASSUME FailureStatuses == Failures \subseteq TerminalStatuses \ {"succeeded"}

Components == 1..MaxComponents
Phases     == {"open", "close"}
Invocation == (1..MaxOccurrences) \X Components
Owners     == {"own", "old"}   \* the registry's Runtime, and a failed one

NoEntry == [phase |-> "none", status |-> "absent", effect |-> "none", context |-> "none",
            decision |-> "none"]
NoWork  == [pc |-> "none", phase |-> "none", n |-> 0, at |-> 0, failed |-> 0,
            mem |-> [c \in Components |-> NoEntry]]

VARIABLES
  scope,     \* the phases of each component, fixed when the application is built
  journal,   \* durable lifecycle entries of the ExtensionJournal
  told,      \* how often an invocation's context was appended to the History
  run,       \* the durable RunState
  rt,        \* the registry's Runtime: down, opening, open, closing or failed
  active,    \* whether it has an active Run
  work,      \* the chain each owner is evaluating
  used       \* occurrences prepared and trouble spent

vars    == <<scope, journal, told, run, rt, active, work, used>>
runVars == <<told, run, active>>

Matching(phase) == {c \in Components : phase \in scope[c]}

Unused    == used.n < MaxOccurrences
Trouble   == used.trouble < MaxTrouble
Spend     == [used EXCEPT !.trouble = @ + 1]

\* The Store takes an update only as a legal move to a well-formed entry.
CanWrite(f) ==
  \A i \in DOMAIN f : /\ ContextShape(f[i])
                      /\ journal[i].status = "absent" \/ StoreAccepts(journal[i], f[i])

Written(f) == [i \in Invocation |-> IF i \in DOMAIN f THEN f[i] ELSE journal[i]]

\* A commit is answered, lost, or durable although it failed; what the Store
\* refuses is lost.
Outcome(accepted, o) ==
  /\ o \in {"ok", "lost", "kept"}
  /\ IF ~accepted THEN o = "lost" /\ UNCHANGED used
     ELSE IF o = "ok" THEN UNCHANGED used
     ELSE Trouble /\ used' = Spend

CommitEntries(f, o) ==
  Outcome(CanWrite(f), o) /\ journal' = IF o = "lost" THEN journal ELSE Written(f)

Stay(s, pc) == work' = [work EXCEPT ![s].pc = pc]

\* The work of an owner is over.  For the registry's Runtime that means that
\* its opening failed or that its close is done: it leaves the registry.
Over(s) ==
  /\ work' = [work EXCEPT ![s] = NoWork]
  /\ rt' = IF s = "own" THEN "down" ELSE rt

\* A new Session, just created, forked or started from a summary, is opened.
Init ==
  /\ scope \in [Components -> (SUBSET Phases) \ {{}}]
  /\ journal = [i \in Invocation |-> NoEntry]
  /\ told = [i \in Invocation |-> 0]
  /\ run = "idle" /\ active = FALSE
  /\ rt = "opening"
  /\ work = [s \in Owners |-> IF s = "own" THEN [NoWork EXCEPT !.pc = "recover"] ELSE NoWork]
  /\ used = [n |-> 0, trouble |-> 0]

-----------------------------------------------------------------------------
(* Opening (resume, finishOpen).                                           *)

\* The Session's Store recovers first: an invocation that may have run has an
\* unknown outcome, and a Run is ended unless it can be continued.
Resume ==
  /\ rt = "down" /\ Unused
  /\ journal' = [i \in Invocation |-> RecoverEntry(journal[i])]
  /\ run' \in {"idle", run}
  /\ rt' = "opening"
  /\ work' = [work EXCEPT !["own"] = [NoWork EXCEPT !.pc = "recover"]]
  /\ UNCHANGED <<scope, told, active, used>>

\* Mutant: an outcome that was recorded and never applied is left alone.
LifecycleRecoveredKept(e) == CancelEntry(e)

\* What recoverSessionLifecycleEntries makes of an entry: nothing of an
\* abandoned chain is applied.
LifecycleRecovered(e) ==
  IF e.status = "pending" THEN [e EXCEPT !.status = "outcome_unknown", !.effect = "discarded"]
  ELSE DisposeEntry(CancelEntry(e), "discarded")

\* One change per entry, so the Store refuses to carry a pending entry through
\* its outcome to its disposition at once (validateExtensionTransition).
RecoverLifecycle(o) ==
  LET dirty == {i \in Invocation : LifecycleRecovered(journal[i]) # journal[i]}
      f == [i \in dirty |-> LifecycleRecovered(journal[i])]
  IN  /\ work["own"].pc = "recover"
      /\ IF dirty = {} THEN o = "ok" /\ UNCHANGED <<journal, used>>
         ELSE /\ Outcome(\A i \in dirty : ValidTransition(journal[i], f[i]), o)
              /\ journal' = IF o = "lost" THEN journal ELSE Written(f)
      /\ IF o = "ok" THEN Stay("own", "prepare") /\ UNCHANGED rt ELSE Over("own")
      /\ UNCHANGED <<scope, runVars>>

\* The entries of a new occurrence, all prepared in one commit.
Prepared(phase) ==
  [c \in Components |->
     IF c \in Matching(phase) THEN [NoEntry EXCEPT !.phase = phase, !.status = "prepared"]
     ELSE NoEntry]

Occurrence(phase, pc) ==
  [NoWork EXCEPT !.pc = pc, !.phase = phase, !.n = used.n + 1, !.mem = Prepared(phase),
                 !.at = Min(Matching(phase))]

\* Outcome of a commit that also uses up an occurrence number.
CommitPrepared(phase, o) ==
  /\ Unused /\ o \in {"ok", "lost", "kept"} /\ (o # "ok" => Trouble)
  /\ used' = [n |-> used.n + 1, trouble |-> used.trouble + IF o = "ok" THEN 0 ELSE 1]
  /\ journal' = IF o = "lost" THEN journal
                ELSE Written([i \in {used.n + 1} \X Matching(phase) |-> Prepared(phase)[i[2]]])

Prepare(o) ==
  /\ work["own"].pc = "prepare"
  /\ IF Matching("open") = {}
     THEN o = "ok" /\ Stay("own", "settle") /\ UNCHANGED <<journal, rt, used>>
     ELSE /\ CommitPrepared("open", o)
          /\ IF o = "ok" THEN UNCHANGED rt /\ work' = [work EXCEPT !["own"] = Occurrence("open", "start")]
             ELSE Over("own")
  /\ UNCHANGED <<scope, runVars>>

\* The other boundaries settle (recoverExtensionsAfterOpen) and a Run that can
\* be continued is restored; then the Runtime is open to commands.
Settle(ok) ==
  /\ work["own"].pc = "settle"
  /\ IF ok THEN /\ rt' = "open" /\ active' = (run = "running")
                /\ work' = [work EXCEPT !["own"] = NoWork] /\ UNCHANGED used
     ELSE Trouble /\ used' = Spend /\ Over("own") /\ UNCHANGED active
  /\ UNCHANGED <<scope, journal, told, run>>

-----------------------------------------------------------------------------
(* The chain (executeSessionLifecycle, finalizeSessionLifecycle).          *)

\* The first component is marked pending before it is called.
Start(s, o) ==
  LET w == work[s]
      e == StartEntry(w.mem[w.at])
  IN  /\ w.pc = "start"
      /\ CommitEntries((<<w.n, w.at>> :> e), o)
      /\ IF o = "ok" THEN /\ work' = [work EXCEPT ![s].pc = "call", ![s].mem[w.at] = e]
                          /\ UNCHANGED rt
         ELSE Over(s)
      /\ UNCHANGED <<scope, runVars>>

Later(w) == {c \in Matching(w.phase) : c > w.at}

\* The component answers: context, nothing, or a failure it classifies.  A
\* close component has no Run to give context to: that result is invalid.
Evaluate(s, answer) ==
  LET w == work[s]
      status == IF answer \in {"context", "plain"}
                THEN IF answer = "context" /\ w.phase = "close" THEN "failed" ELSE "succeeded"
                ELSE answer
      e == FinishEntry(w.mem[w.at], status, "none",
                       IF answer = "context" /\ status = "succeeded" THEN "pending" ELSE "none")
  IN  /\ w.pc = "call"
      /\ work' = [work EXCEPT ![s] =
           [w EXCEPT !.mem[w.at] = e,
                     !.failed = IF status = "succeeded" THEN 0 ELSE w.at,
                     !.pc = IF status = "succeeded" /\ Later(w) # {} THEN "advance"
                            ELSE "finalize"]]
      /\ UNCHANGED <<scope, journal, runVars, rt, used>>

\* The outcome and the next component's mark are one commit.
Advance(s, o) ==
  LET w == work[s]
      next == Min(Later(w))
      e == StartEntry(w.mem[next])
  IN  /\ w.pc = "advance"
      /\ CommitEntries((<<w.n, w.at>> :> w.mem[w.at]) @@ (<<w.n, next>> :> e), o)
      /\ IF o = "ok" THEN /\ work' = [work EXCEPT ![s].pc = "call", ![s].at = next, ![s].mem[next] = e]
                          /\ UNCHANGED rt
         ELSE Over(s)
      /\ UNCHANGED <<scope, runVars>>

\* How the chain disposes of component c: all succeeded and are applied, or
\* only the failure that stopped the chain is.
Final(w, c) ==
  IF w.failed = 0 THEN [w.mem[c] EXCEPT !.effect = "applied"]
  ELSE IF c = w.failed THEN DisposeEntry(w.mem[c], "applied")
  ELSE DisposeEntry(CancelEntry(w.mem[c]), "discarded")

\* Mutant: older context of the same component stays.
SupersededNever(w) == {}

\* Open context that no Run has read gives way to newer context of the same
\* component (discardSupersededLifecycleContexts).
Superseded(w) ==
  {i \in Invocation : /\ w.phase = "open" /\ w.failed = 0 /\ i[1] # w.n
                      /\ journal[i].phase = "open" /\ journal[i].context = "pending"
                      /\ w.mem[i[2]].context = "pending"}

\* A component's failure is a diagnostic: the open or the close goes on.
Finalize(s, o) ==
  LET w == work[s]
      f == [i \in ({w.n} \X Matching(w.phase)) \cup Superseded(w) |->
              IF i[1] = w.n THEN Final(w, i[2]) ELSE [journal[i] EXCEPT !.context = "discarded"]]
  IN  /\ w.pc = "finalize"
      /\ CommitEntries(f, o)
      /\ IF o = "ok" /\ w.phase = "open" THEN Stay(s, "settle") /\ UNCHANGED rt ELSE Over(s)
      /\ UNCHANGED <<scope, runVars>>

-----------------------------------------------------------------------------
(* Runs (startChangesLocked, finishRun, recoverAfterRunFailureLocked).     *)

\* Applied open context that a Run takes into its first step.
Waiting ==
  {i \in Invocation : /\ journal[i].phase = "open" /\ journal[i].status = "succeeded"
                      /\ journal[i].effect = "applied" /\ journal[i].context = "pending"}

\* A Run starts, alone or in the commit that ends the one before.
Begin ==
  /\ run' = "running"
  /\ told' = [i \in Invocation |-> told[i] + IF i \in Waiting THEN 1 ELSE 0]
  /\ journal' = [i \in Invocation |-> IF i \in Waiting THEN ConsumeEntry(journal[i]) ELSE journal[i]]

StartRun(o) ==
  /\ rt = "open" /\ ~active
  /\ Outcome(run = "idle", o)
  /\ IF o = "lost" THEN UNCHANGED <<run, told, journal>> ELSE Begin
  /\ active' = (o = "ok")
  /\ UNCHANGED <<scope, rt, work>>

EndRun ==
  /\ active
  /\ \/ rt = "open" /\ Begin /\ UNCHANGED active
     \/ run' = "idle" /\ active' = FALSE /\ UNCHANGED <<told, journal>>
  /\ UNCHANGED <<scope, rt, work, used>>

\* The Run cannot be ended.  The Store recovers: when that shows the Run
\* settled the Runtime goes on, otherwise it fails closed.  Closing, it tells
\* the registry that it is closed and leaves its close chain to a goroutine.
RunFails(settled) ==
  /\ active /\ Trouble /\ used' = Spend
  /\ active' = FALSE
  /\ journal' = [i \in Invocation |-> RecoverEntry(journal[i])]
  /\ IF settled THEN run' = "idle" /\ UNCHANGED <<rt, work>>
     ELSE /\ UNCHANGED run
          /\ rt' = IF rt = "closing" THEN "down" ELSE "failed"
          /\ IF rt = "open" \/ work["own"].n = 0 THEN work' = [work EXCEPT !["own"] = NoWork]
             ELSE /\ work["old"].pc = "none"   \* bound: one such goroutine at a time
                  /\ work' = [work EXCEPT !["own"] = NoWork, !["old"] = work["own"]]
  /\ UNCHANGED <<scope, told>>

-----------------------------------------------------------------------------
(* Closing (beginClose, startCloseLocked, finishClose).                    *)

\* CloseSession prepares its whole chain under the caller's revision, then
\* cancels the Run.
BeginClose(o) ==
  /\ rt = "open"
  /\ IF Matching("close") = {}
     THEN /\ o = "ok" /\ rt' = "closing" /\ UNCHANGED <<journal, used>>
          /\ Stay("own", "await")
     ELSE /\ CommitPrepared("close", o)
          /\ IF o = "ok" THEN /\ rt' = "closing"
                              /\ work' = [work EXCEPT !["own"] = Occurrence("close", "await")]
             ELSE UNCHANGED <<rt, work>>
  /\ UNCHANGED <<scope, runVars>>

\* The application stops, or a resume that gave up closes the Runtime: no
\* close chain.
Shutdown ==
  /\ rt = "open" /\ rt' = "closing"
  /\ Stay("own", "await")
  /\ UNCHANGED <<scope, journal, runVars, used>>

\* Mutant: the close waits for the Session to be idle instead of for the Run.
DrainedDurably(s) == run = "idle"

\* The Run of a Runtime that failed closed is over.
Drained(s) == s = "old" \/ ~active

Await(s) ==
  /\ work[s].pc = "await" /\ Drained(s)
  /\ IF work[s].n = 0 THEN Over(s) ELSE Stay(s, "start") /\ UNCHANGED rt
  /\ UNCHANGED <<scope, journal, runVars, used>>

Crash ==
  /\ Trouble /\ used' = Spend
  /\ rt # "down" \/ work["old"].pc # "none"
  /\ rt' = "down" /\ active' = FALSE
  /\ work' = [s \in Owners |-> NoWork]
  /\ UNCHANGED <<scope, journal, told, run>>

-----------------------------------------------------------------------------
Answers == {"context", "plain"} \cup Failures

Chain(s) ==
  \/ \E o \in {"ok", "lost", "kept"} : Start(s, o) \/ Advance(s, o) \/ Finalize(s, o)
  \/ \E answer \in Answers : Evaluate(s, answer)
  \/ Await(s)

Opening ==
  \/ \E o \in {"ok", "lost", "kept"} : RecoverLifecycle(o) \/ Prepare(o)
  \/ \E ok \in BOOLEAN : Settle(ok)

Finishing == EndRun \/ \E settled \in BOOLEAN : RunFails(settled)

Next ==
  \/ Opening \/ Finishing \/ Resume \/ Shutdown \/ Crash
  \/ \E s \in Owners : Chain(s)
  \/ \E o \in {"ok", "lost", "kept"} : StartRun(o) \/ BeginClose(o)

Spec == Init /\ [][Next]_vars

\* Goroutines are scheduled, components return, and a canceled Run ends.
FairSpec ==
  /\ Spec
  /\ WF_vars(Opening) /\ \A s \in Owners : WF_vars(Chain(s))
  /\ WF_vars(rt = "closing" /\ Finishing)

-----------------------------------------------------------------------------
TypeOK ==
  /\ rt \in {"down", "opening", "open", "closing", "failed"}
  /\ run \in {"idle", "running"} /\ active \in BOOLEAN
  /\ \A i \in Invocation : journal[i].status # "absent" =>
       StatusShape(journal[i] @@ [boundary |-> "session_lifecycle"]) /\ ContextShape(journal[i])
  /\ used.n \in 0..MaxOccurrences /\ used.trouble \in 0..MaxTrouble

Chained(i) == {<<i[1], c>> : c \in Matching("open")}

(***************************************************************************)
(* The History gets an open context exactly once, when its entry is        *)
(* consumed, and only when every component of its occurrence succeeded     *)
(* and was applied; and applied context of one component never piles up    *)
(* over restarts (finalizeSessionLifecycle, consumePendingLifecycle-       *)
(* Contexts, discardSupersededLifecycleContexts).                          *)
(***************************************************************************)
OpenContextOnce ==
  /\ TypeOK
  /\ \A i \in Invocation :
       /\ told[i] = IF journal[i].context = "consumed" THEN 1 ELSE 0
       /\ (told[i] = 1 \/ i \in Waiting) =>
            \A k \in Chained(i) : journal[k].status = "succeeded" /\ journal[k].effect = "applied"
  /\ \A i, k \in Waiting : i[2] = k[2] => i = k

(***************************************************************************)
(* When a Runtime becomes open, no invocation of this or of an earlier     *)
(* Runtime is undecided: each has an outcome and its effect is settled,    *)
(* whatever was abandoned, by a crash, a failed commit or a Runtime that   *)
(* failed closed (finishOpen, recoverSessionLifecycleEntries).             *)
(***************************************************************************)
OpenSettlesLifecycle ==
  [][rt = "opening" /\ rt' = "open" =>
       \A i \in Invocation : /\ journal'[i].status \in {"absent"} \cup TerminalStatuses
                             /\ ~Unsettled(journal'[i])]_vars

(***************************************************************************)
(* Every opening ends and every accepted close completes, with components  *)
(* that fail and commits that are lost.                                    *)
(***************************************************************************)
OpeningsAndClosesEnd ==
  /\ rt = "opening" ~> rt # "opening"
  /\ rt = "closing" ~> rt # "closing"
  /\ work["old"].pc # "none" ~> work["old"].pc = "none"

-----------------------------------------------------------------------------
(* What the documentation says and the code does not do (see README).      *)

(***************************************************************************)
(* While a Runtime can still commit, no other one is created: markClosing  *)
(* keeps its tombstone until Close finishes.                               *)
(***************************************************************************)
ClosedMeansQuiet == work["old"].pc # "none" => rt = "down"
=============================================================================
