------------------------ MODULE CompletionGatesProofs ------------------------
(***************************************************************************)
(* AllOrNothing and CompletionJustified for any number of gates, steps,    *)
(* occurrences and failures, and that every move of the journal is one the *)
(* Store accepts.                                                          *)
(***************************************************************************)
EXTENDS CompletionGates, TLAPS

Steps == {"model", "look", "evaluate", "prepare", "prepareSettle", "gate", "check", "run",
          "unsure", "failure", "finalize", "apply", "applyRetry", "settle", "hooks",
          "second", "finish", "idle", "down", "mismatch"}

\* The steps of a goroutine that has a chain at hand.
AtGate  == {"gate", "check", "run", "failure"}
InChain == AtGate \cup {"finalize", "apply", "applyRetry"}

Shown == [id: Nat, version: Nat, clock: {"none", "live", "stored"}, followOns: Nat]
Entry ==
  [status: Statuses \cup {"absent"}, effect: Effects, context: Contexts,
   decision: {"none", "complete", "continue"}, step: Nat, goal: Shown]
Verdicts == {"done", "continue", "blocked"}
Paths == {"none", "steer", "goal", "conflict", "gated", "stale"}

Goals == [id: Nat, version: Nat, followOns: Nat,
          status: {"none", "active", "paused", "completed", "canceled"}]
Records == [id: Nat, version: Nat, clock: {"none", "live", "stored"}, verdict: Verdicts, step: Nat]
Goroutines ==
  [pc: Steps, occ: 0..MaxOccurrences, idx: 1..(MaxGates + 1), good: SUBSET (1..MaxGates),
   cont: BOOLEAN, cand: Shown, seen: Shown, hand: Entry, recovered: BOOLEAN,
   proposals: {0, 1}, out: {"none"} \cup RunEnd, path: Paths]

Types ==
  /\ ext \in [Invocation -> Entry]
  /\ run \in {"running"} \cup RunEnd
  /\ step \in Nat \ {0} /\ answered \in Nat /\ steers \in Nat
  /\ goal \in Goals /\ decisions \in SUBSET Records
  /\ gates \in 0..MaxGates
  /\ rt \in Goroutines /\ cancel \in BOOLEAN
  /\ calls \in [Invocation -> Nat]
  /\ why \in Paths \cup {"ungated"}
  /\ used \in [trouble: Nat, occs: 0..MaxOccurrences]

\* An entry at rest.
Whole(e) ==
  IF e.status = "absent" THEN e = Absent
  ELSE StatusShape(AsEntry(e)) /\ ContextShape(e)

Wins(e) == e.status = "succeeded" /\ e.effect = "applied"

\* An entry e and a later one f of the same occurrence.
Ordered(e, f) ==
  /\ f.status # "absent" => e.status # "absent" /\ f.step = e.step /\ f.goal = e.goal
  /\ e.status = "prepared" => f.status \in {"absent", "prepared"}
  /\ e.status = "pending" => f.status \in {"absent", "prepared", "canceled"}
  /\ f.status = "succeeded" =>
       e.status \in TerminalStatuses /\ (f.effect # "pending" => e.effect # "pending")
  /\ Wins(e) => f.status = "absent" \/ Wins(f)
  /\ Wins(f) => Wins(e)

\* The journal, and how often its gates were entered.
Journal ==
  /\ \A i \in Invocation : Whole(ext[i])
  /\ \A k \in 1..MaxOccurrences, g, h \in 1..MaxGates :
       g < h => Ordered(ext[<<k, g>>], ext[<<k, h>>])
  /\ \A i \in Invocation :
       /\ calls[i] <= 1
       /\ ext[i].status \in {"absent", "prepared"} => calls[i] = 0
       /\ i[1] > used.occs => ext[i].status = "absent"

\* The chain at hand.  Good gates are the ones before idx.
ChainAtHand ==
  /\ rt.pc \in InChain \cup {"prepareSettle"} => rt.occ \in 1..used.occs
  /\ rt.pc \in InChain =>
       /\ gates > 0 /\ Chain # {}
       /\ rt.good = 1..(rt.idx - 1) /\ rt.good \subseteq Chain
       /\ IF rt.pc \in AtGate THEN rt.idx \in Chain ELSE Chain = rt.good
       /\ ~rt.recovered => Here(1).step = step
       /\ Here(1).goal.version = rt.cand.version

Good ==
  rt.pc \in InChain =>
    \A g \in rt.good :
      /\ \/ Here(g).status = "succeeded"
         \/ Here(g).status = "pending" /\ rt.pc \in {"finalize", "apply"} /\ rt.cand = NoGoal
      /\ Outcome(g).status = "succeeded"
      /\ Outcome(g).decision = "continue" => rt.cont
      /\ Whole(Outcome(g)) /\ Outcome(g).step = Here(g).step /\ Outcome(g).goal = Here(g).goal
      /\ rt.pc # "applyRetry" => Outcome(g).effect = "pending"
      /\ Outcome(g).effect \in {"pending", "applied"}

GateAtHand ==
  rt.pc \in AtGate =>
    /\ \A g \in Chain : Here(g).status = "succeeded" =>
         Here(g).effect = "pending" /\ (Here(g).decision = "continue" => rt.cont)
    /\ rt.pc \in {"gate", "check"} => \A g \in Chain : g > rt.idx => Here(g).status # "pending"
    /\ rt.pc \in {"gate", "check"} /\ Here(rt.idx).status = "pending" =>
         calls[<<rt.occ, rt.idx>>] = 0
    /\ rt.pc \in {"gate", "check", "run"} /\ Here(rt.idx).status = "pending" =>
         \A g \in Chain : g > rt.idx => Here(g).status = "prepared"
    /\ rt.pc = "run" => Here(rt.idx).status = "pending"
    /\ rt.pc = "failure" => Here(rt.idx).status \in TerminalStatuses \ {"succeeded"}

Bounded ==
  /\ used.trouble <= MaxTrouble /\ steers <= used.trouble
  /\ step + steers <= MaxSteps + used.trouble
  /\ rt.pc = "down" \/ rt.recovered => step + steers < MaxSteps + used.trouble
  /\ rt.pc \in InChain /\ rt.cont /\ ~rt.recovered => step < MaxSteps
  /\ rt.proposals = 1 /\ rt.pc \notin {"finish", "idle", "down"} => step < MaxSteps
  /\ rt.pc \in Locked => steers = 0

NoEntries == \A i \in Invocation : ext[i].status = "absent"

GoalAhead ==
  /\ \A d \in decisions : d.version >= 1 /\ d.version < goal.version
  /\ goal.status = "active" => goal.version >= 1
  /\ rt.pc = "evaluate" =>
       rt.seen.version >= 1 /\ \A d \in decisions : d.version < rt.seen.version
  /\ rt.pc \in {"evaluate", "prepare"} /\ rt.cand # NoGoal =>
       rt.cand.version >= 1 /\ \A d \in decisions : d.version < rt.cand.version
  /\ rt.pc \in {"evaluate", "prepare"} =>
       ~rt.recovered /\ ~rt.cont /\ rt.idx = 1 /\ rt.good = {}
  /\ rt.pc = "evaluate" => rt.cand = NoGoal
  /\ gates = 0 /\ rt.pc \in {"model", "look", "evaluate", "prepare", "hooks", "second"} =>
       NoEntries

Leaving == rt.pc \in {"hooks", "second"} \/ (rt.pc = "finish" /\ rt.out = "completed")

WayOut ==
  /\ rt.pc \notin {"idle", "down"} => run = "running"
  /\ rt.pc = "finish" => rt.out # "none"
  /\ Leaving => rt.path # "none"
  /\ Leaving /\ rt.path = "goal" => \E d \in decisions : d.step = step
  /\ Leaving /\ rt.path = "gated" /\ gates > 0 => Gated

Completed ==
  run = "completed" => why \in {"ungated", "steer", "conflict", "stale"} \/ Gated

IInv ==
  /\ Types /\ Journal /\ ChainAtHand /\ Good /\ GateAtHand /\ Bounded /\ GoalAhead
  /\ WayOut /\ GoalNeedsGates /\ Completed

-----------------------------------------------------------------------------
(* What a move does to one entry.                                          *)

\* f is e after a commit that did not prepare it.
Moves(e, f) ==
  /\ f \in Entry /\ Whole(f) /\ f.step = e.step /\ f.goal = e.goal
  /\ (f.status = "absent") <=> (e.status = "absent")
  /\ e.status = "absent" => f = e
  /\ e.status # "prepared" => f.status # "prepared"
  /\ e.status \in TerminalStatuses => f.status = e.status /\ f.decision = e.decision
  /\ Wins(e) => Wins(f)
  /\ e.status # "absent" => StoreAccepts(e, f)

LEMMA EntryFields ==
  ASSUME NEW e \in Entry
  PROVE  /\ e.status \in Statuses \cup {"absent"} /\ e.effect \in Effects /\ e.context \in Contexts
         /\ e.decision \in {"none", "complete", "continue"} /\ e.step \in Nat /\ e.goal \in Shown
         /\ e = [status |-> e.status, effect |-> e.effect, context |-> e.context,
                 decision |-> e.decision, step |-> e.step, goal |-> e.goal]
BY DEF Entry

\* What a whole entry is, in one formula.
LEMMA WholeIs ==
  ASSUME NEW e \in Entry, e.status # "absent"
  PROVE  Whole(e) <=>
           /\ e.status \in {"prepared", "pending"} =>
                e.effect = "none" /\ e.decision = "none" /\ e.context = "none"
           /\ e.status \in TerminalStatuses => e.effect # "none"
           /\ e.status = "succeeded" =>
                e.decision \in {"complete", "continue"}
                /\ ((e.decision = "continue") <=> (e.context # "none"))
           /\ e.status # "succeeded" => e.decision = "none"
           /\ ContextShape(e)
BY EntryFields DEF Whole, AsEntry, StatusShape, BoundaryResult, ContextShape, Statuses,
   TerminalStatuses, Effects, Contexts

\* Recovery.
LEMMA RecoverMoves ==
  ASSUME NEW e \in Entry, Whole(e)
  PROVE  LET f == RecoverEntry(e)
         IN  /\ Moves(e, f)
             /\ e.status # "pending" => f = e
             /\ e.status = "pending" => f.status = "outcome_unknown" /\ f.effect = "pending"
<1> DEFINE f == RecoverEntry(e)
<1>1. CASE e.status # "pending"
  BY <1>1, EntryFields DEF RecoverEntry, Moves, StoreAccepts
<1>2. CASE e.status = "pending"
  <2>1. /\ f \in Entry /\ f.status = "outcome_unknown" /\ f.effect = "pending"
        /\ f.context = e.context /\ f.decision = e.decision /\ f.step = e.step /\ f.goal = e.goal
    BY <1>2, EntryFields DEF RecoverEntry, Entry, Statuses, TerminalStatuses, Effects
  <2> HIDE DEF f
  <2>2. e.effect = "none" /\ e.decision = "none" /\ e.context = "none"
    BY <1>2, WholeIs
  <2>3. Whole(f)
    BY <2>1, <2>2, WholeIs DEF ContextShape, TerminalStatuses
  <2>4. StoreAccepts(e, f)
    BY <1>2, <2>1 DEF StoreAccepts, ValidTransition, TerminalStatuses
  <2> QED
    BY <1>2, <2>1, <2>3, <2>4 DEF Moves, TerminalStatuses, Wins, f
<1> QED
  BY <1>1, <1>2

\* An invocation that never ran is canceled.
LEMMA CancelMoves ==
  ASSUME NEW e \in Entry, Whole(e)
  PROVE  LET f == CancelEntry(e)
         IN  /\ Moves(e, f)
             /\ e.status # "prepared" => f = e
             /\ e.status = "prepared" => f.status = "canceled" /\ f.effect = "discarded"
<1> DEFINE f == CancelEntry(e)
<1>1. CASE e.status # "prepared"
  BY <1>1, EntryFields DEF CancelEntry, Moves, StoreAccepts
<1>2. CASE e.status = "prepared"
  <2>1. /\ f \in Entry /\ f.status = "canceled" /\ f.effect = "discarded"
        /\ f.context = e.context /\ f.decision = e.decision /\ f.step = e.step /\ f.goal = e.goal
    BY <1>2, EntryFields DEF CancelEntry, Entry, Statuses, TerminalStatuses, Effects
  <2> HIDE DEF f
  <2>2. e.effect = "none" /\ e.decision = "none" /\ e.context = "none"
    BY <1>2, WholeIs
  <2>3. Whole(f)
    BY <2>1, <2>2, WholeIs DEF ContextShape, TerminalStatuses
  <2>4. StoreAccepts(e, f)
    BY <1>2, <2>1 DEF StoreAccepts, ValidTransition, TerminalStatuses
  <2> QED
    BY <1>2, <2>1, <2>3, <2>4 DEF Moves, TerminalStatuses, Wins, f
<1> QED
  BY <1>1, <1>2

\* The execution mark.
LEMMA StartMoves ==
  ASSUME NEW e \in Entry, Whole(e), MayStart(e)
  PROVE  LET f == StartEntry(e)
         IN  Moves(e, f) /\ f.status = "pending" /\ (e.status = "pending" => f = e)
<1> DEFINE f == StartEntry(e)
<1>1. /\ f \in Entry /\ f.status = "pending" /\ f.effect = e.effect
      /\ f.context = e.context /\ f.decision = e.decision /\ f.step = e.step /\ f.goal = e.goal
  BY EntryFields DEF StartEntry, Entry, Statuses
<1>2. e.status = "pending" => f = e
  <2> SUFFICES ASSUME e.status = "pending" PROVE f = e
    OBVIOUS
  <2>1. f \in Entry /\ f.status = e.status
    BY <1>1
  <2> HIDE DEF f
  <2> QED
    BY <1>1, <2>1, EntryFields
<1> HIDE DEF f
<1>3. e.effect = "none" /\ e.decision = "none" /\ e.context = "none"
  BY WholeIs DEF MayStart
<1>4. Whole(f)
  BY <1>1, <1>3, WholeIs DEF ContextShape, TerminalStatuses
<1>5. StoreAccepts(e, f)
  BY <1>1, <1>2 DEF StoreAccepts, ValidTransition, TerminalStatuses, MayStart
<1> QED
  BY <1>1, <1>2, <1>4, <1>5 DEF Moves, TerminalStatuses, Wins, MayStart, f

\* The effect of an unsettled entry is decided.
LEMMA DisposeMoves ==
  ASSUME NEW e \in Entry, Whole(e), NEW x \in {"applied", "discarded"},
         x = "applied" => e.status # "succeeded"
  PROVE  LET f == DisposeEntry(e, x)
         IN  /\ Moves(e, f) /\ f.status = e.status
             /\ ~Unsettled(e) => f = e
             /\ Unsettled(e) => f.effect = x
<1> DEFINE f == DisposeEntry(e, x)
<1>1. CASE ~Unsettled(e)
  BY <1>1, EntryFields DEF DisposeEntry, Moves, StoreAccepts
<1>2. CASE Unsettled(e)
  <2>1. /\ f \in Entry /\ f.status = e.status /\ f.effect = x
        /\ f.context = (IF e.context = "pending" THEN "discarded" ELSE e.context)
        /\ f.decision = e.decision /\ f.step = e.step /\ f.goal = e.goal
    BY <1>2, EntryFields DEF DisposeEntry, Entry, Effects, Contexts
  <2> HIDE DEF f
  <2>2. e.status \in TerminalStatuses /\ e.effect = "pending"
    BY <1>2 DEF Unsettled
  <2>3. Whole(f)
    <3>1. e.status # "absent" /\ f.status # "absent"
      BY <2>1, <2>2 DEF TerminalStatuses
    <3>2. ContextShape(f)
      BY <2>1, <2>2, <3>1, WholeIs DEF ContextShape
    <3> QED
      BY <2>1, <2>2, <3>1, <3>2, WholeIs, EntryFields DEF TerminalStatuses, Contexts
  <2>4. StoreAccepts(e, f)
    BY <2>1, <2>2 DEF StoreAccepts, ValidTransition, TerminalStatuses, EffectAdvance, ContextAdvance
  <2> QED
    BY <1>2, <2>1, <2>2, <2>3, <2>4 DEF Moves, TerminalStatuses, Wins, f
<1> QED
  BY <1>1, <1>2

\* A success is applied, its context consumed.
LEMMA ConsumeMoves ==
  ASSUME NEW e \in Entry, Whole(e), e.status = "succeeded", e.effect = "pending"
  PROVE  LET f == ConsumeEntry(e) IN Moves(e, f) /\ f.status = "succeeded" /\ f.effect = "applied"
<1> DEFINE f == ConsumeEntry(e)
<1>1. /\ f \in Entry /\ f.status = e.status /\ f.effect = "applied"
      /\ f.context = (IF e.context = "pending" THEN "consumed" ELSE e.context)
      /\ f.decision = e.decision /\ f.step = e.step /\ f.goal = e.goal
  BY EntryFields DEF ConsumeEntry, Entry, Effects, Contexts
<1> HIDE DEF f
<1>2. Whole(f)
  <2>1. ContextShape(f)
    BY <1>1, WholeIs DEF ContextShape
  <2> QED
    BY <1>1, <2>1, WholeIs, EntryFields DEF TerminalStatuses, Contexts
<1>3. StoreAccepts(e, f)
  BY <1>1 DEF StoreAccepts, ValidTransition, TerminalStatuses, EffectAdvance, ContextAdvance
<1> QED
  BY <1>1, <1>2, <1>3 DEF Moves, TerminalStatuses, Wins, f

\* An abandoned chain: nothing is prepared or unsettled any more.
LEMMA SettleMoves ==
  ASSUME NEW e \in Entry, Whole(e)
  PROVE  LET f == SettleEntry(e)
         IN  /\ Moves(e, f)
             /\ e.status # "prepared" => f.status = e.status
             /\ f.status # "prepared"
             /\ e.status \in {"absent", "pending"} => f = e
             /\ e.status = "prepared" => f.status = "canceled"
             /\ f.status \in TerminalStatuses => f.effect # "pending"
             /\ Wins(f) => Wins(e)
<1> DEFINE c == CancelEntry(e)
           x == IF e.status = "succeeded" THEN "discarded" ELSE "applied"
           f == DisposeEntry(c, x)
<1>1. /\ Moves(e, c) /\ (e.status # "prepared" => c = e)
      /\ e.status = "prepared" => c.status = "canceled" /\ c.effect = "discarded"
  BY CancelMoves
<1>2. c \in Entry /\ Whole(c)
  BY <1>1 DEF Moves
<1> HIDE DEF c
<1>3. x \in {"applied", "discarded"} /\ (x = "applied" => c.status # "succeeded")
  BY <1>1
<1>4. /\ Moves(c, f) /\ f.status = c.status /\ (~Unsettled(c) => f = c)
      /\ Unsettled(c) => f.effect = x
  BY <1>2, <1>3, DisposeMoves
<1>5. f = SettleEntry(e)
  BY DEF SettleEntry, c
<1> HIDE DEF f
<1>6. CASE e.status = "prepared"
  <2>1. f = c
    BY <1>1, <1>4, <1>6 DEF Unsettled
  <2> QED
    BY <1>1, <1>5, <1>6, <2>1 DEF Wins
<1>7. CASE e.status # "prepared"
  <2>1. c = e /\ f.status = e.status
    BY <1>1, <1>4, <1>7
  <2>2. Wins(f) => Wins(e)
    BY <1>3, <1>4, <2>1 DEF Wins, Unsettled
  <2>3. f.status \in TerminalStatuses => f.effect # "pending"
    BY <1>3, <1>4, <2>1 DEF Unsettled
  <2>4. e.status \in {"absent", "pending"} => f = e
    BY <1>4, <2>1 DEF Unsettled, TerminalStatuses
  <2> QED
    BY <1>4, <1>5, <1>7, <2>1, <2>2, <2>3, <2>4
<1> QED
  BY <1>6, <1>7

\* The outcome of a gate.
LEMMA FinishMoves ==
  ASSUME NEW e \in Entry, Whole(e), e.status = "pending", NEW s \in GateStatuses,
         NEW v \in {"none", "complete", "continue"}, (s = "succeeded") <=> (v # "none")
  PROVE  LET f == FinishEntry(e, s, v, ResultContext(v))
         IN  Moves(e, f) /\ f.status = s /\ f.effect = "pending" /\ f.decision = v
<1> DEFINE f == FinishEntry(e, s, v, ResultContext(v))
<1>1. /\ f \in Entry /\ f.status = s /\ f.effect = "pending" /\ f.context = ResultContext(v)
      /\ f.decision = v /\ f.step = e.step /\ f.goal = e.goal
  <2>1. s \in Statuses
    BY DEF GateStatuses, Statuses, TerminalStatuses
  <2> DEFINE c == ResultContext(v)
  <2>2. c \in Contexts
    BY DEF ResultContext, Contexts
  <2> HIDE DEF c
  <2>3. f = [e EXCEPT !.status = s, !.effect = "pending", !.decision = v, !.context = c]
    BY DEF FinishEntry, c
  <2> QED
    BY <2>1, <2>2, <2>3, EntryFields DEF Entry, Effects, c
<1> HIDE DEF f
<1>2. s \in TerminalStatuses
  BY DEF GateStatuses, TerminalStatuses
<1>3. Whole(f)
  <2>1. ContextShape(f)
    BY <1>1 DEF ContextShape, ResultContext
  <2> QED
    BY <1>1, <1>2, <2>1, WholeIs DEF TerminalStatuses, ResultContext
<1>4. StoreAccepts(e, f)
  BY <1>1, <1>2 DEF StoreAccepts, ValidTransition
<1> QED
  BY <1>1, <1>2, <1>3, <1>4 DEF Moves, TerminalStatuses, Wins, f

\* The outcome o of a gate that is pending in the journal is committed
\* together with what becomes of it.
LEMMA MovesVia ==
  ASSUME NEW e \in Entry, NEW o \in Entry, NEW f, e.status = "pending",
         o.step = e.step, o.goal = e.goal, o.status = "succeeded",
         Moves(o, f), f.effect \in {"applied", "discarded"}
  PROVE  Moves(e, f)
<1>1. /\ f \in Entry /\ Whole(f) /\ f.step = e.step /\ f.goal = e.goal
      /\ f.status = "succeeded"
  BY DEF Moves, TerminalStatuses
<1>2. StoreAccepts(e, f)
  BY <1>1 DEF StoreAccepts, TerminalStatuses
<1> QED
  BY <1>1, <1>2 DEF Moves, TerminalStatuses, Wins

LEMMA SameMoves ==
  ASSUME NEW e \in Entry, Whole(e)
  PROVE  Moves(e, e)
BY DEF Moves, StoreAccepts

-----------------------------------------------------------------------------
(* The entries of one occurrence.                                          *)

\* A later entry is absent, or the chain ends before it.
LEMMA OrderedAbsent ==
  ASSUME NEW e \in Entry, NEW f \in Entry, f.status = "absent"
  PROVE  Ordered(e, f)
BY DEF Ordered, Wins

\* The first is settled without counting, and so is what follows, or it is open.
LEMMA OrderedSettled ==
  ASSUME NEW e \in Entry, NEW f \in Entry, e.status \in TerminalStatuses, e.effect # "pending",
         ~Wins(e), ~Wins(f), f.status # "absent" => f.step = e.step /\ f.goal = e.goal
  PROVE  Ordered(e, f)
BY DEF Ordered, TerminalStatuses

\* A gate with an outcome that is not applied yet, and one without an outcome,
\* or with one just as new.
LEMMA OrderedOpen ==
  ASSUME NEW e \in Entry, NEW f \in Entry, e.status \in TerminalStatuses,
         f.status = "succeeded" => f.effect = "pending", ~Wins(e),
         f.status # "absent" => f.step = e.step /\ f.goal = e.goal
  PROVE  Ordered(e, f)
BY DEF Ordered, TerminalStatuses, Wins

\* Nothing behind the gate at work has started.
LEMMA OrderedWaiting ==
  ASSUME NEW e \in Entry, NEW f \in Entry, e.status # "absent", ~Wins(e),
         f.status \in {"absent", "prepared"},
         f.status # "absent" => f.step = e.step /\ f.goal = e.goal
  PROVE  Ordered(e, f)
BY DEF Ordered, Wins, TerminalStatuses

LEMMA OrderedApplied ==
  ASSUME NEW e \in Entry, NEW f \in Entry, Wins(e), Wins(f), f.step = e.step, f.goal = e.goal
  PROVE  Ordered(e, f)
BY DEF Ordered, Wins, TerminalStatuses

\* Recovery, settlement and cancellation treat both entries alike.
LEMMA OrderedRecover ==
  ASSUME NEW e \in Entry, NEW f \in Entry, Whole(e), Whole(f), Ordered(e, f)
  PROVE  Ordered(RecoverEntry(e), RecoverEntry(f))
<1> DEFINE x == RecoverEntry(e)
           y == RecoverEntry(f)
<1>1. /\ Moves(e, x) /\ (e.status # "pending" => x = e)
      /\ e.status = "pending" => x.status = "outcome_unknown" /\ x.effect = "pending"
  BY RecoverMoves
<1>2. /\ Moves(f, y) /\ (f.status # "pending" => y = f)
      /\ f.status = "pending" => y.status = "outcome_unknown" /\ y.effect = "pending"
  BY RecoverMoves
<1> HIDE DEF x, y
<1>3. CASE e.status = "pending"
  <2>1. f.status \in {"absent", "prepared", "canceled"} /\ y = f
    BY <1>2, <1>3 DEF Ordered
  <2>2. x.status = "outcome_unknown" /\ x.step = e.step /\ x.goal = e.goal /\ e.status # "absent"
    BY <1>1, <1>3 DEF Moves
  <2> QED
    BY <2>1, <2>2 DEF Ordered, Wins, x, y
<1>4. CASE e.status # "pending"
  <2>1. x = e
    BY <1>1, <1>4
  <2>2. CASE f.status = "pending"
    <3>1. /\ y.status = "outcome_unknown" /\ y.step = e.step /\ y.goal = e.goal
          /\ e.status # "absent" /\ e.status # "prepared" /\ ~Wins(e)
      BY <1>2, <2>2 DEF Ordered, Moves, Wins
    <3> QED
      BY <1>4, <2>1, <3>1 DEF Ordered, Wins, x, y
  <2>3. CASE f.status # "pending"
    BY <1>2, <2>1, <2>3 DEF x, y
  <2> QED
    BY <2>2, <2>3
<1> QED
  BY <1>3, <1>4

LEMMA OrderedCancel ==
  ASSUME NEW e \in Entry, NEW f \in Entry, Whole(e), Whole(f), Ordered(e, f)
  PROVE  Ordered(CancelEntry(e), CancelEntry(f))
<1> DEFINE x == CancelEntry(e)
           y == CancelEntry(f)
<1>1. /\ Moves(e, x) /\ (e.status # "prepared" => x = e)
      /\ e.status = "prepared" => x.status = "canceled" /\ x.effect = "discarded"
  BY CancelMoves
<1>2. /\ Moves(f, y) /\ (f.status # "prepared" => y = f)
      /\ f.status = "prepared" => y.status = "canceled" /\ y.effect = "discarded"
  BY CancelMoves
<1> HIDE DEF x, y
<1>3. CASE e.status = "prepared"
  <2>1. f.status \in {"absent", "prepared"}
    BY <1>3 DEF Ordered
  <2>2. /\ x.status = "canceled" /\ x.step = e.step /\ x.goal = e.goal
        /\ y.step = f.step /\ y.goal = f.goal /\ y.status \in {"absent", "canceled"}
        /\ y.status # "absent" => f.status # "absent"
    BY <1>1, <1>2, <1>3, <2>1 DEF Moves
  <2> QED
    BY <2>1, <2>2 DEF Ordered, Wins, x, y
<1>4. CASE e.status # "prepared"
  <2>1. x = e
    BY <1>1, <1>4
  <2>2. CASE f.status = "prepared"
    <3>1. /\ y.status = "canceled" /\ y.step = f.step /\ y.goal = f.goal /\ ~Wins(f) /\ ~Wins(y)
      BY <1>2, <2>2 DEF Moves, Wins
    <3>2. e.status # "absent" /\ f.step = e.step /\ f.goal = e.goal /\ ~Wins(e)
      BY <2>2 DEF Ordered, Wins
    <3> QED
      BY <1>4, <2>1, <3>1, <3>2 DEF Ordered, x, y
  <2>3. CASE f.status # "prepared"
    BY <1>2, <2>1, <2>3 DEF x, y
  <2> QED
    BY <2>2, <2>3
<1> QED
  BY <1>3, <1>4

LEMMA OrderedSettle ==
  ASSUME NEW e \in Entry, NEW f \in Entry, Whole(e), Whole(f), Ordered(e, f)
  PROVE  Ordered(SettleEntry(e), SettleEntry(f))
<1> DEFINE x == SettleEntry(e)
           y == SettleEntry(f)
<1>1. /\ Moves(e, x) /\ (e.status # "prepared" => x.status = e.status) /\ x.status # "prepared"
      /\ e.status \in {"absent", "pending"} => x = e
      /\ e.status = "prepared" => x.status = "canceled"
      /\ x.status \in TerminalStatuses => x.effect # "pending"
      /\ Wins(x) => Wins(e)
  BY SettleMoves
<1>2. /\ Moves(f, y) /\ (f.status # "prepared" => y.status = f.status) /\ y.status # "prepared"
      /\ f.status \in {"absent", "pending"} => y = f
      /\ f.status = "prepared" => y.status = "canceled"
      /\ y.status \in TerminalStatuses => y.effect # "pending"
      /\ Wins(y) => Wins(f)
  BY SettleMoves
<1> HIDE DEF x, y
<1>3. /\ x.step = e.step /\ x.goal = e.goal /\ y.step = f.step /\ y.goal = f.goal
      /\ (x.status = "absent") <=> (e.status = "absent")
      /\ (y.status = "absent") <=> (f.status = "absent")
      /\ Wins(e) => Wins(x)
      /\ Wins(f) => Wins(y)
  BY <1>1, <1>2 DEF Moves
<1>4. x.status = "pending" => y.status \in {"absent", "prepared", "canceled"}
  BY <1>1, <1>2 DEF Ordered
<1>5. y.status = "succeeded" =>
        x.status \in TerminalStatuses /\ (y.effect # "pending" => x.effect # "pending")
  <2>1. y.status = "succeeded" => f.status = "succeeded"
    BY <1>2
  <2>2. f.status = "succeeded" => e.status \in TerminalStatuses
    BY DEF Ordered
  <2>3. e.status \in TerminalStatuses => x.status \in TerminalStatuses
    BY <1>1 DEF TerminalStatuses
  <2> QED
    BY <1>1, <2>1, <2>2, <2>3
<1>6. (Wins(x) => y.status = "absent" \/ Wins(y)) /\ (Wins(y) => Wins(x))
  BY <1>1, <1>2, <1>3 DEF Ordered
<1> QED
  BY <1>1, <1>3, <1>4, <1>5, <1>6 DEF Ordered, x, y

-----------------------------------------------------------------------------
(* What a commit does to the journal.                                      *)

\* x is the journal after moves of its entries.
MovedTo(x) ==
  /\ x \in [Invocation -> Entry]
  /\ \A i \in Invocation : Moves(ext[i], x[i])
  /\ \A k \in 1..MaxOccurrences, g, h \in 1..MaxGates :
       g < h => Ordered(x[<<k, g>>], x[<<k, h>>])

LEMMA InvocationIs ==
  /\ \A k \in 1..MaxOccurrences, g \in 1..MaxGates : <<k, g>> \in Invocation
  /\ \A i \in Invocation : i = <<i[1], i[2]>> /\ i[1] \in 1..MaxOccurrences /\ i[2] \in 1..MaxGates
BY DEF Invocation

LEMMA ExtIs ==
  ASSUME Types, Journal
  PROVE  /\ \A i \in Invocation : ext[i] \in Entry /\ Whole(ext[i])
         /\ \A k \in 1..MaxOccurrences, g \in 1..MaxGates :
              ext[<<k, g>>] \in Entry /\ Whole(ext[<<k, g>>])
         /\ \A k \in 1..MaxOccurrences, g, h \in 1..MaxGates :
              g < h => Ordered(ext[<<k, g>>], ext[<<k, h>>])
<1>1. \A i \in Invocation : ext[i] \in Entry /\ Whole(ext[i])
  BY DEF Types, Journal
<1> QED
  BY <1>1, InvocationIs DEF Journal

LEMMA SameMoved ==
  ASSUME Types, Journal
  PROVE  MovedTo(ext)
BY ExtIs, SameMoves DEF MovedTo, Types

\* The journal of the Run is moved as a whole.
LEMMA UnknownMoved ==
  ASSUME Types, Journal
  PROVE  /\ MovedTo(Unknown)
         /\ \A i \in Invocation : Unknown[i] = RecoverEntry(ext[i])
<1>1. \A i \in Invocation : ext[i] \in Entry /\ Whole(ext[i])
  BY ExtIs
<1>2. \A i \in Invocation : Unknown[i] = RecoverEntry(ext[i])
  BY DEF Unknown
<1>3. \A i \in Invocation : Moves(ext[i], Unknown[i])
  BY <1>1, <1>2, RecoverMoves
<1>4. Unknown \in [Invocation -> Entry]
  BY <1>1, RecoverMoves DEF Unknown, Moves
<1>5. ASSUME NEW k \in 1..MaxOccurrences, NEW g \in 1..MaxGates, NEW h \in 1..MaxGates, g < h
      PROVE  Ordered(Unknown[<<k, g>>], Unknown[<<k, h>>])
  <2>1. /\ ext[<<k, g>>] \in Entry /\ ext[<<k, h>>] \in Entry
        /\ Whole(ext[<<k, g>>]) /\ Whole(ext[<<k, h>>])
        /\ Ordered(ext[<<k, g>>], ext[<<k, h>>])
    BY <1>5, ExtIs
  <2>2. /\ Unknown[<<k, g>>] = RecoverEntry(ext[<<k, g>>])
        /\ Unknown[<<k, h>>] = RecoverEntry(ext[<<k, h>>])
    BY <1>2, InvocationIs
  <2> QED
    BY <2>1, <2>2, OrderedRecover
<1> QED
  BY <1>2, <1>3, <1>4, <1>5 DEF MovedTo

LEMMA SettledMoved ==
  ASSUME Types, Journal
  PROVE  MovedTo(Settled)
<1>1. \A i \in Invocation : ext[i] \in Entry /\ Whole(ext[i])
  BY ExtIs
<1>2. \A i \in Invocation : Settled[i] = SettleEntry(ext[i])
  BY DEF Settled
<1>3. \A i \in Invocation : Moves(ext[i], Settled[i])
  BY <1>1, <1>2, SettleMoves
<1>4. Settled \in [Invocation -> Entry]
  BY <1>1, SettleMoves DEF Settled, Moves
<1>5. ASSUME NEW k \in 1..MaxOccurrences, NEW g \in 1..MaxGates, NEW h \in 1..MaxGates, g < h
      PROVE  Ordered(Settled[<<k, g>>], Settled[<<k, h>>])
  <2>1. /\ ext[<<k, g>>] \in Entry /\ ext[<<k, h>>] \in Entry
        /\ Whole(ext[<<k, g>>]) /\ Whole(ext[<<k, h>>])
        /\ Ordered(ext[<<k, g>>], ext[<<k, h>>])
    BY <1>5, ExtIs
  <2>2. /\ Settled[<<k, g>>] = SettleEntry(ext[<<k, g>>])
        /\ Settled[<<k, h>>] = SettleEntry(ext[<<k, h>>])
    BY <1>2, InvocationIs
  <2> QED
    BY <2>1, <2>2, OrderedSettle
<1> QED
  BY <1>3, <1>4, <1>5 DEF MovedTo

\* Only the entries of the occurrence at hand move.
LEMMA RewriteIs ==
  ASSUME Types, NEW f, DOMAIN f \subseteq 1..MaxGates, \A g \in DOMAIN f : f[g] \in Entry,
         rt.occ \in 1..MaxOccurrences
  PROVE  /\ Rewrite(f) \in [Invocation -> Entry]
         /\ \A g \in 1..MaxGates :
              Rewrite(f)[<<rt.occ, g>>] = IF g \in DOMAIN f THEN f[g] ELSE Here(g)
         /\ \A k \in 1..MaxOccurrences, g \in 1..MaxGates :
              k # rt.occ => Rewrite(f)[<<k, g>>] = ext[<<k, g>>]
<1>1. \A i \in Invocation :
        Rewrite(f)[i] = IF i[1] = rt.occ /\ i[2] \in DOMAIN f THEN f[i[2]] ELSE ext[i]
  BY DEF Rewrite
<1>2. Rewrite(f) \in [Invocation -> Entry]
  BY DEF Rewrite, Types
<1>3. \A k \in 1..MaxOccurrences, g \in 1..MaxGates :
        /\ <<k, g>> \in Invocation
        /\ Rewrite(f)[<<k, g>>] = IF k = rt.occ /\ g \in DOMAIN f THEN f[g] ELSE ext[<<k, g>>]
  BY <1>1, InvocationIs
<1> QED
  BY <1>2, <1>3 DEF Here

LEMMA OccurrenceMoved ==
  ASSUME Types, Journal, NEW x \in [Invocation -> Entry], rt.occ \in 1..MaxOccurrences,
         \A k \in 1..MaxOccurrences, g \in 1..MaxGates : k # rt.occ => x[<<k, g>>] = ext[<<k, g>>],
         \A g \in 1..MaxGates : Moves(Here(g), x[<<rt.occ, g>>]),
         \A g, h \in 1..MaxGates : g < h => Ordered(x[<<rt.occ, g>>], x[<<rt.occ, h>>])
  PROVE  MovedTo(x)
<1>1. ASSUME NEW k \in 1..MaxOccurrences, NEW g \in 1..MaxGates
      PROVE  Moves(ext[<<k, g>>], x[<<k, g>>])
  <2>1. CASE k = rt.occ
    BY <2>1 DEF Here
  <2>2. CASE k # rt.occ
    BY <2>2, ExtIs, SameMoves
  <2> QED
    BY <2>1, <2>2
<1>2. \A i \in Invocation : Moves(ext[i], x[i])
  BY <1>1, InvocationIs
<1>3. ASSUME NEW k \in 1..MaxOccurrences, NEW g \in 1..MaxGates, NEW h \in 1..MaxGates, g < h
      PROVE  Ordered(x[<<k, g>>], x[<<k, h>>])
  <2>1. CASE k = rt.occ
    BY <1>3, <2>1
  <2>2. CASE k # rt.occ
    BY <1>3, <2>2, ExtIs
  <2> QED
    BY <2>1, <2>2
<1> QED
  BY <1>2, <1>3 DEF MovedTo

-----------------------------------------------------------------------------
(* The chain at hand.                                                      *)

LEMMA PcIs ==
  ASSUME Types
  PROVE  /\ rt.pc \in Steps /\ rt.idx \in 1..(MaxGates + 1) /\ rt.good \subseteq 1..MaxGates
         /\ rt.cand \in Shown /\ rt.hand \in Entry
BY DEF Types, Goroutines

\* The entries of the chain: one block of gates, for one step and one Goal.
LEMMA ChainFacts ==
  ASSUME Types, Journal, ChainAtHand, rt.pc \in InChain \cup {"prepareSettle"}
  PROVE  /\ rt.occ \in 1..used.occs /\ rt.occ \in 1..MaxOccurrences
         /\ Chain = {g \in 1..MaxGates : Here(g).status # "absent"}
         /\ \A g \in 1..MaxGates : Here(g) \in Entry /\ Whole(Here(g))
         /\ \A g, h \in 1..MaxGates : g < h => Ordered(Here(g), Here(h))
         /\ \A g \in Chain, h \in 1..MaxGates : h < g => h \in Chain
         /\ \A g \in Chain : Here(g).step = Here(1).step /\ Here(g).goal = Here(1).goal
         /\ rt.pc \in InChain => 1 \in Chain
<1>1. rt.occ \in 1..used.occs /\ rt.occ \in 1..MaxOccurrences
  BY CompletionAssumption DEF ChainAtHand, Types
<1>2. Chain = {g \in 1..MaxGates : Here(g).status # "absent"}
  BY <1>1 DEF Chain
<1>3. \A g \in 1..MaxGates : Here(g) \in Entry /\ Whole(Here(g))
  BY <1>1, ExtIs DEF Here
<1>4. \A g, h \in 1..MaxGates : g < h => Ordered(Here(g), Here(h))
  BY <1>1, ExtIs DEF Here
<1>5. \A g \in Chain, h \in 1..MaxGates : h < g => h \in Chain
  BY <1>2, <1>4 DEF Ordered
<1>6. ASSUME NEW g \in Chain
      PROVE  Here(g).step = Here(1).step /\ Here(g).goal = Here(1).goal
  <2>1. g \in 1..MaxGates /\ 1 \in 1..MaxGates /\ Here(g).status # "absent"
    BY <1>2, CompletionAssumption
  <2>2. CASE g = 1
    BY <2>2
  <2>3. CASE 1 < g
    BY <1>4, <2>1, <2>3 DEF Ordered
  <2> QED
    BY <2>1, <2>2, <2>3
<1>7. rt.pc \in InChain => 1 \in Chain
  <2> SUFFICES ASSUME rt.pc \in InChain PROVE 1 \in Chain
    OBVIOUS
  <2>1. PICK g \in Chain : TRUE
    BY DEF ChainAtHand
  <2>2. g \in 1..MaxGates /\ 1 \in 1..MaxGates
    BY <1>2, <2>1, CompletionAssumption
  <2> QED
    BY <1>5, <2>1, <2>2
<1> QED
  BY <1>1, <1>2, <1>3, <1>4, <1>5, <1>6, <1>7

\* A gate that counts: its outcome, and what may become of it.
LEMMA GoodFacts ==
  ASSUME Types, Journal, ChainAtHand, Good, rt.pc \in InChain, NEW g \in rt.good
  PROVE  /\ g \in Chain /\ g \in 1..MaxGates /\ Outcome(g) \in Entry /\ Whole(Outcome(g))
         /\ Outcome(g).status = "succeeded"
         /\ Outcome(g).step = Here(1).step /\ Outcome(g).goal = Here(1).goal
         /\ rt.pc # "applyRetry" => Outcome(g).effect = "pending"
         /\ Here(g).status = "succeeded" => Outcome(g) = Here(g)
         /\ \A f : Moves(Outcome(g), f) /\ f.effect \in {"applied", "discarded"}
                     => Moves(Here(g), f)
<1>1. g \in Chain /\ g \in 1..MaxGates
  BY PcIs DEF ChainAtHand
<1>2. Here(g) \in Entry /\ Here(g).step = Here(1).step /\ Here(g).goal = Here(1).goal
  BY <1>1, ChainFacts
<1>3. Outcome(g) \in Entry
  BY <1>2, PcIs DEF Outcome
<1>4. /\ Outcome(g).status = "succeeded" /\ Whole(Outcome(g))
      /\ Outcome(g).step = Here(g).step /\ Outcome(g).goal = Here(g).goal
      /\ rt.pc # "applyRetry" => Outcome(g).effect = "pending"
      /\ Here(g).status \in {"succeeded", "pending"}
  BY DEF Good
<1>5. Here(g).status = "succeeded" => Outcome(g) = Here(g)
  BY DEF Outcome
<1>6. ASSUME NEW f, Moves(Outcome(g), f), f.effect \in {"applied", "discarded"}
      PROVE  Moves(Here(g), f)
  <2>1. CASE Here(g).status = "succeeded"
    BY <1>5, <1>6, <2>1
  <2>2. CASE Here(g).status = "pending"
    <3> DEFINE o == Outcome(g)
    <3> HIDE DEF o
    <3>1. Moves(o, f) /\ o \in Entry
      BY <1>3, <1>6 DEF o
    <3>2. o.step = Here(g).step /\ o.goal = Here(g).goal /\ o.status = "succeeded"
      BY <1>4 DEF o
    <3> QED
      BY <1>2, <1>6, <2>2, <3>1, <3>2, MovesVia
  <2> QED
    BY <1>4, <2>1, <2>2
<1> QED
  BY <1>1, <1>2, <1>3, <1>4, <1>5, <1>6

\* What becomes of an entry when the chain is given up: a success is
\* discarded, what has not started is canceled.
LEMMA AbortedMoved ==
  ASSUME Types, Journal, ChainAtHand, Good, GateAtHand, NEW from,
         \/ rt.pc \in {"gate", "check"} /\ from = rt.idx
         \/ rt.pc = "finalize" /\ from = MaxGates + 1
  PROVE  MovedTo(Aborted(from))
<1> DEFINE f == [g \in Chain |-> IF g \in rt.good THEN DisposeEntry(Outcome(g), "discarded")
                                ELSE IF g >= from THEN CancelEntry(Here(g)) ELSE Here(g)]
           x == Aborted(from)
           y(g) == x[<<rt.occ, g>>]
<1>1. rt.pc \in InChain /\ rt.pc # "applyRetry"
  BY DEF InChain, AtGate
<1>2. rt.occ \in 1..MaxOccurrences /\ Chain \subseteq 1..MaxGates
  BY <1>1, ChainFacts
<1>3. ASSUME NEW g \in rt.good
      PROVE  /\ g \in Chain /\ f[g] \in Entry /\ Moves(Here(g), f[g])
             /\ f[g].status = "succeeded" /\ f[g].effect = "discarded"
  <2>1. /\ Outcome(g) \in Entry /\ Whole(Outcome(g)) /\ Outcome(g).status = "succeeded"
        /\ Outcome(g).effect = "pending" /\ g \in Chain
    BY <1>1, GoodFacts
  <2> DEFINE z == DisposeEntry(Outcome(g), "discarded")
  <2>2. f[g] = z
    BY <2>1
  <2>3. Moves(Outcome(g), z) /\ z.status = "succeeded" /\ z.effect = "discarded"
    BY <2>1, DisposeMoves DEF Unsettled, TerminalStatuses
  <2> HIDE DEF z, f
  <2>4. Moves(Here(g), z)
    BY <1>1, <2>3, GoodFacts
  <2> QED
    BY <2>1, <2>2, <2>3, <2>4 DEF Moves
<1>4. ASSUME NEW g \in Chain, g \notin rt.good
      PROVE  g >= from /\ f[g] = CancelEntry(Here(g))
  <2>1. rt.pc \in AtGate /\ from = rt.idx /\ rt.good = 1..(rt.idx - 1)
    BY <1>1, <1>4 DEF ChainAtHand, AtGate, InChain
  <2>2. g >= from
    <3>1. g \in 1..MaxGates /\ rt.idx \in 1..(MaxGates + 1) /\ MaxGates \in Nat
      BY <1>2, PcIs, CompletionAssumption
    <3> QED
      BY <1>4, <2>1, <3>1
  <2>3. f[g] = IF g \in rt.good THEN DisposeEntry(Outcome(g), "discarded")
               ELSE IF g >= from THEN CancelEntry(Here(g)) ELSE Here(g)
    OBVIOUS
  <2> HIDE DEF f
  <2> QED
    BY <1>4, <2>2, <2>3
<1>6. x = Rewrite(f) /\ DOMAIN f = Chain
  BY DEF Aborted
<1> HIDE DEF f
<1>5. ASSUME NEW g \in Chain
      PROVE  f[g] \in Entry /\ Moves(Here(g), f[g])
  <2>1. CASE g \in rt.good
    BY <1>3, <2>1
  <2>2. CASE g \notin rt.good
    <3>1. f[g] = CancelEntry(Here(g)) /\ Here(g) \in Entry /\ Whole(Here(g))
      BY <1>1, <1>2, <1>4, <2>2, ChainFacts
    <3>2. Moves(Here(g), f[g])
      BY <3>1, CancelMoves
    <3> QED
      BY <3>2 DEF Moves
  <2> QED
    BY <2>1, <2>2
<1>7. /\ x \in [Invocation -> Entry]
      /\ \A g \in 1..MaxGates : y(g) = IF g \in Chain THEN f[g] ELSE Here(g)
      /\ \A k \in 1..MaxOccurrences, g \in 1..MaxGates : k # rt.occ => x[<<k, g>>] = ext[<<k, g>>]
  <2>1. DOMAIN f \subseteq 1..MaxGates /\ \A g \in DOMAIN f : f[g] \in Entry
    BY <1>2, <1>5, <1>6
  <2> HIDE DEF x
  <2>2. /\ Rewrite(f) \in [Invocation -> Entry]
        /\ \A g \in 1..MaxGates :
             Rewrite(f)[<<rt.occ, g>>] = IF g \in DOMAIN f THEN f[g] ELSE Here(g)
        /\ \A k \in 1..MaxOccurrences, g \in 1..MaxGates :
             k # rt.occ => Rewrite(f)[<<k, g>>] = ext[<<k, g>>]
    BY <1>2, <2>1, RewriteIs
  <2> QED
    BY <1>6, <2>2
<1> HIDE DEF x
<1>8. \A g \in 1..MaxGates : Moves(Here(g), y(g)) /\ y(g) \in Entry
  BY <1>1, <1>5, <1>7, ChainFacts, SameMoves DEF Moves
<1>9. ASSUME NEW g \in 1..MaxGates, NEW h \in 1..MaxGates, g < h
      PROVE  Ordered(y(g), y(h))
  <2>1. Here(g) \in Entry /\ Here(h) \in Entry /\ Whole(Here(g)) /\ Whole(Here(h))
    BY <1>1, ChainFacts
  <2>2. CASE h \notin Chain
    <3>1. y(h).status = "absent"
      BY <1>1, <1>7, <2>2, ChainFacts
    <3> QED
      BY <1>8, <3>1, OrderedAbsent
  <2>3. CASE h \in Chain /\ g \in rt.good
    <3>1. y(g) = f[g] /\ y(h) = f[h] /\ g \in Chain
      BY <1>3, <1>7, <2>3
    <3>2. y(g).status = "succeeded" /\ y(g).effect = "discarded"
      BY <1>3, <2>3, <3>1
    <3>3. y(h).step = y(g).step /\ y(h).goal = y(g).goal
      <4>1. /\ y(g).step = Here(g).step /\ y(g).goal = Here(g).goal
            /\ y(h).step = Here(h).step /\ y(h).goal = Here(h).goal
        BY <1>8 DEF Moves
      <4>2. Here(g).step = Here(h).step /\ Here(g).goal = Here(h).goal
        BY <1>1, <2>3, <3>1, ChainFacts
      <4> QED
        BY <4>1, <4>2
    <3>4. ~Wins(y(h))
      <4>1. CASE h \in rt.good
        BY <1>3, <3>1, <4>1 DEF Wins
      <4>2. CASE h \notin rt.good
        <5>1. rt.pc \in AtGate
          BY <1>1, <2>3, <4>2 DEF ChainAtHand
        <5>2. ~Wins(Here(h))
          BY <2>3, <5>1 DEF GateAtHand, Wins
        <5>3. y(h) = CancelEntry(Here(h))
          BY <1>4, <2>3, <3>1, <4>2
        <5> QED
          BY <2>1, <5>2, <5>3, CancelMoves DEF Wins
      <4> QED
        BY <4>1, <4>2
    <3>5. y(g) \in Entry /\ y(h) \in Entry /\ ~Wins(y(g)) /\ y(g).status \in TerminalStatuses
      BY <1>8, <3>2 DEF Wins, TerminalStatuses
    <3> QED
      BY <3>2, <3>3, <3>4, <3>5, OrderedSettled
  <2>4. CASE h \in Chain /\ g \notin rt.good
    <3>1. g \in Chain /\ h \notin rt.good
      <4>1. g \in Chain
        BY <1>1, <1>9, <2>4, ChainFacts
      <4>2. h \notin rt.good
        BY <1>1, <1>9, <2>4, PcIs DEF ChainAtHand
      <4> QED
        BY <4>1, <4>2
    <3>2. y(g) = CancelEntry(Here(g)) /\ y(h) = CancelEntry(Here(h))
      BY <1>4, <1>7, <2>4, <3>1
    <3>3. Ordered(Here(g), Here(h))
      BY <1>1, <1>9, ChainFacts
    <3> QED
      BY <2>1, <3>2, <3>3, OrderedCancel
  <2> QED
    BY <2>2, <2>3, <2>4
<1>10. MovedTo(x)
  BY <1>2, <1>7, <1>8, <1>9, OccurrenceMoved
<1> QED
  BY <1>10 DEF x

\* The occurrence at hand after a rewrite by f.
Now(f) == [g \in 1..MaxGates |-> IF g \in DOMAIN f THEN f[g] ELSE Here(g)]

LEMMA RewriteMoved ==
  ASSUME Types, Journal, ChainAtHand, rt.pc \in InChain \cup {"prepareSettle"},
         NEW f, DOMAIN f \subseteq 1..MaxGates, \A g \in DOMAIN f : Moves(Here(g), f[g]),
         \A g, h \in 1..MaxGates : g < h => Ordered(Now(f)[g], Now(f)[h])
  PROVE  /\ MovedTo(Rewrite(f))
         /\ \A g \in 1..MaxGates : Rewrite(f)[<<rt.occ, g>>] = Now(f)[g]
<1> DEFINE x == Rewrite(f)
<1>1. rt.occ \in 1..MaxOccurrences /\ \A g \in 1..MaxGates : Here(g) \in Entry /\ Whole(Here(g))
  BY ChainFacts
<1>2. \A g \in DOMAIN f : f[g] \in Entry
  BY DEF Moves
<1>3. /\ x \in [Invocation -> Entry]
      /\ \A g \in 1..MaxGates : x[<<rt.occ, g>>] = IF g \in DOMAIN f THEN f[g] ELSE Here(g)
      /\ \A k \in 1..MaxOccurrences, g \in 1..MaxGates : k # rt.occ => x[<<k, g>>] = ext[<<k, g>>]
  BY <1>1, <1>2, RewriteIs
<1> HIDE DEF x
<1>4. \A g \in 1..MaxGates : x[<<rt.occ, g>>] = Now(f)[g]
  BY <1>3 DEF Now
<1>5. \A g \in 1..MaxGates : Moves(Here(g), x[<<rt.occ, g>>])
  BY <1>1, <1>3, SameMoves
<1>6. \A g, h \in 1..MaxGates : g < h => Ordered(x[<<rt.occ, g>>], x[<<rt.occ, h>>])
  BY <1>4
<1>7. MovedTo(x)
  BY <1>1, <1>3, <1>5, <1>6, OccurrenceMoved
<1> QED
  BY <1>4, <1>7 DEF x

\* settleCompletionPreparationLocked cancels what it finds.
LEMMA CanceledMoved ==
  ASSUME Types, Journal, ChainAtHand, rt.pc = "prepareSettle"
  PROVE  MovedTo(Rewrite([g \in Chain |-> CancelEntry(Here(g))]))
<1> DEFINE f == [g \in Chain |-> CancelEntry(Here(g))]
<1>1. /\ Chain = {g \in 1..MaxGates : Here(g).status # "absent"}
      /\ \A g \in 1..MaxGates : Here(g) \in Entry /\ Whole(Here(g))
      /\ \A g, h \in 1..MaxGates : g < h => Ordered(Here(g), Here(h))
  BY ChainFacts
<1>2. DOMAIN f \subseteq 1..MaxGates /\ \A g \in DOMAIN f : Moves(Here(g), f[g])
  BY <1>1, CancelMoves
<1>3. ASSUME NEW g \in 1..MaxGates
      PROVE  Now(f)[g] = CancelEntry(Here(g))
  <2>1. g \notin Chain => CancelEntry(Here(g)) = Here(g)
    BY <1>1, CancelMoves
  <2> QED
    BY <2>1 DEF Now
<1> HIDE DEF f
<1>4. ASSUME NEW g \in 1..MaxGates, NEW h \in 1..MaxGates, g < h
      PROVE  Ordered(Now(f)[g], Now(f)[h])
  BY <1>1, <1>3, <1>4, OrderedCancel
<1>5. MovedTo(Rewrite(f))
  BY <1>2, <1>4, RewriteMoved
<1> QED
  BY <1>5 DEF f

\* settleCompletionFailure.
LEMMA FailureMoved ==
  ASSUME Types, Journal, ChainAtHand, Good, GateAtHand, rt.pc = "failure"
  PROVE  MovedTo(Rewrite([g \in Chain |->
                   IF g = rt.idx THEN DisposeEntry(Here(g), "applied")
                   ELSE IF g \in rt.good THEN DisposeEntry(Here(g), "discarded")
                   ELSE CancelEntry(Here(g))]))
<1> DEFINE f == [g \in Chain |->
                   IF g = rt.idx THEN DisposeEntry(Here(g), "applied")
                   ELSE IF g \in rt.good THEN DisposeEntry(Here(g), "discarded")
                   ELSE CancelEntry(Here(g))]
           y(g) == Now(f)[g]
<1>1. /\ Chain = {g \in 1..MaxGates : Here(g).status # "absent"}
      /\ \A g \in 1..MaxGates : Here(g) \in Entry /\ Whole(Here(g))
      /\ \A g, h \in 1..MaxGates : g < h => Ordered(Here(g), Here(h))
      /\ \A g \in Chain, h \in 1..MaxGates : h < g => h \in Chain
      /\ \A g \in Chain : Here(g).step = Here(1).step /\ Here(g).goal = Here(1).goal
  BY ChainFacts DEF InChain, AtGate
<1>2. /\ rt.idx \in Chain /\ rt.good = 1..(rt.idx - 1) /\ rt.good \subseteq Chain
      /\ \A g \in rt.good : Here(g).status = "succeeded"
      /\ \A g \in Chain : Here(g).status = "succeeded" => Here(g).effect = "pending"
      /\ Here(rt.idx).status \in TerminalStatuses \ {"succeeded"}
  BY DEF ChainAtHand, Good, GateAtHand, InChain, AtGate
<1>3. ASSUME NEW g \in Chain
      PROVE  /\ Moves(Here(g), f[g]) /\ ~Wins(f[g])
             /\ g <= rt.idx => f[g].status \in TerminalStatuses /\ f[g].effect # "pending"
             /\ g > rt.idx => f[g] = CancelEntry(Here(g))
  <2>1. Here(g) \in Entry /\ Whole(Here(g)) /\ g \in 1..MaxGates /\ rt.idx \in 1..MaxGates
    BY <1>1, <1>2
  <2>2. CASE g = rt.idx
    <3> DEFINE z == DisposeEntry(Here(g), "applied")
    <3>1. f[g] = z
      BY <2>2
    <3>2. Here(g).status # "succeeded"
      BY <1>2, <2>2
    <3>3. /\ Moves(Here(g), z) /\ z.status = Here(g).status
          /\ (~Unsettled(Here(g)) => z = Here(g)) /\ (Unsettled(Here(g)) => z.effect = "applied")
      BY <2>1, <3>2, DisposeMoves
    <3> HIDE DEF f, z
    <3>4. z.effect # "pending"
      BY <1>2, <2>2, <3>3 DEF Unsettled
    <3> QED
      BY <1>2, <2>1, <2>2, <3>1, <3>2, <3>3, <3>4 DEF Wins
  <2>3. CASE g < rt.idx
    <3> DEFINE z == DisposeEntry(Here(g), "discarded")
    <3>1. g \in rt.good
      BY <1>2, <2>1, <2>3
    <3>2. f[g] = z
      BY <2>1, <2>3, <3>1
    <3>3. Moves(Here(g), z) /\ z.status = "succeeded" /\ z.effect = "discarded"
      BY <1>2, <2>1, <3>1, DisposeMoves DEF Unsettled, TerminalStatuses
    <3> HIDE DEF f, z
    <3> QED
      BY <2>1, <2>3, <3>2, <3>3 DEF Wins, TerminalStatuses
  <2>4. CASE g > rt.idx
    <3>1. g \notin rt.good /\ g # rt.idx
      BY <1>2, <2>1, <2>4
    <3>2. f[g] = CancelEntry(Here(g))
      BY <3>1
    <3> HIDE DEF f
    <3>3. Moves(Here(g), f[g]) /\ ~Wins(f[g])
      BY <1>2, <2>1, <3>2, CancelMoves DEF Wins
    <3> QED
      BY <2>1, <2>4, <3>2, <3>3
  <2> QED
    BY <2>1, <2>2, <2>3, <2>4
<1>4. DOMAIN f = Chain
  OBVIOUS
<1> HIDE DEF f
<1>5. \A g \in 1..MaxGates : y(g) = IF g \in Chain THEN f[g] ELSE Here(g)
  BY <1>4 DEF Now
<1>6. ASSUME NEW g \in 1..MaxGates, NEW h \in 1..MaxGates, g < h
      PROVE  Ordered(y(g), y(h))
  <2>1. /\ Here(g) \in Entry /\ Here(h) \in Entry /\ Whole(Here(g)) /\ Whole(Here(h))
        /\ Ordered(Here(g), Here(h)) /\ rt.idx \in 1..MaxGates
    BY <1>1, <1>2, <1>6
  <2>2. CASE h \notin Chain
    <3>1. y(h) = Here(h) /\ y(h).status = "absent" /\ y(g) \in Entry
      BY <1>1, <1>3, <1>5, <2>1, <2>2 DEF Moves
    <3> QED
      BY <2>1, <3>1, OrderedAbsent
  <2>3. CASE h \in Chain /\ g <= rt.idx
    <3>1. g \in Chain
      BY <1>1, <1>6, <2>3
    <3>2. y(g) = f[g] /\ y(h) = f[h]
      BY <1>5, <2>3, <3>1
    <3>3. f[h].step = f[g].step /\ f[h].goal = f[g].goal /\ f[g] \in Entry /\ f[h] \in Entry
      BY <1>1, <1>3, <2>3, <3>1 DEF Moves
    <3> QED
      BY <1>3, <2>3, <3>1, <3>2, <3>3, OrderedSettled
  <2>4. CASE h \in Chain /\ g > rt.idx
    <3>1. g \in Chain /\ h > rt.idx
      BY <1>1, <1>6, <2>1, <2>4
    <3>2. y(g) = CancelEntry(Here(g)) /\ y(h) = CancelEntry(Here(h))
      BY <1>3, <1>5, <2>4, <3>1
    <3> QED
      BY <2>1, <3>2, OrderedCancel
  <2> QED
    BY <2>1, <2>2, <2>3, <2>4
<1>7. MovedTo(Rewrite(f))
  <2>1. DOMAIN f \subseteq 1..MaxGates /\ \A g \in DOMAIN f : Moves(Here(g), f[g])
    BY <1>1, <1>3, <1>4
  <2> QED
    BY <1>6, <2>1, RewriteMoved DEF InChain, AtGate
<1> QED
  BY <1>7 DEF f

\* A gate becomes pending; nothing behind it has started.
LEMMA StartMoved ==
  ASSUME Types, Journal, ChainAtHand, Good, GateAtHand, rt.pc = "check",
         MayStart(Here(rt.idx))
  PROVE  LET x == Rewrite([g \in {rt.idx} |-> StartEntry(Here(g))])
         IN  /\ MovedTo(x)
             /\ \A g \in 1..MaxGates : g # rt.idx => x[<<rt.occ, g>>] = Here(g)
             /\ x[<<rt.occ, rt.idx>>].status = "pending"
             /\ \A g \in Chain : g > rt.idx => Here(g).status = "prepared"
<1> DEFINE f == [g \in {rt.idx} |-> StartEntry(Here(g))]
           y(g) == Now(f)[g]
<1>1. /\ Chain = {g \in 1..MaxGates : Here(g).status # "absent"}
      /\ \A g \in 1..MaxGates : Here(g) \in Entry /\ Whole(Here(g))
      /\ \A g, h \in 1..MaxGates : g < h => Ordered(Here(g), Here(h))
      /\ \A g \in Chain, h \in 1..MaxGates : h < g => h \in Chain
      /\ \A g \in Chain : Here(g).step = Here(1).step /\ Here(g).goal = Here(1).goal
  BY ChainFacts DEF InChain, AtGate
<1>2. /\ rt.idx \in Chain /\ rt.good = 1..(rt.idx - 1)
      /\ \A g \in rt.good : Here(g).status = "succeeded"
      /\ \A g \in Chain : Here(g).status = "succeeded" => Here(g).effect = "pending"
      /\ Here(rt.idx).status = "pending" =>
           \A g \in Chain : g > rt.idx => Here(g).status = "prepared"
  BY DEF ChainAtHand, Good, GateAtHand, InChain, AtGate
<1>3. rt.idx \in 1..MaxGates
  BY <1>1, <1>2
<1>4. \A g \in Chain : g > rt.idx => Here(g).status = "prepared"
  <2> SUFFICES ASSUME NEW g \in Chain, g > rt.idx, Here(rt.idx).status = "prepared"
               PROVE  Here(g).status = "prepared"
    BY <1>2 DEF MayStart
  <2>1. Ordered(Here(rt.idx), Here(g)) /\ Here(g).status # "absent"
    BY <1>1, <1>3
  <2> QED
    BY <2>1 DEF Ordered
<1>5. f[rt.idx] = StartEntry(Here(rt.idx)) /\ DOMAIN f = {rt.idx}
  OBVIOUS
<1>6. Moves(Here(rt.idx), f[rt.idx]) /\ f[rt.idx].status = "pending"
  BY <1>1, <1>3, <1>5, StartMoves
<1> HIDE DEF f
<1>7. \A g \in 1..MaxGates : y(g) = IF g = rt.idx THEN f[rt.idx] ELSE Here(g)
  BY <1>5 DEF Now
<1>8. ASSUME NEW g \in 1..MaxGates, NEW h \in 1..MaxGates, g < h
      PROVE  Ordered(y(g), y(h))
  <2>1. CASE g # rt.idx /\ h # rt.idx
    BY <1>1, <1>7, <1>8, <2>1
  <2>2. CASE h = rt.idx
    <3>1. g \in Chain /\ g \in rt.good /\ y(g) = Here(g) /\ y(h) = f[rt.idx]
      BY <1>1, <1>2, <1>3, <1>7, <1>8, <2>2
    <3>2. y(g).status = "succeeded" /\ y(g).effect = "pending"
      BY <1>2, <3>1
    <3>3. y(h).step = y(g).step /\ y(h).goal = y(g).goal /\ y(h) \in Entry /\ y(g) \in Entry
      BY <1>1, <1>2, <1>6, <3>1 DEF Moves
    <3> QED
      BY <1>6, <3>1, <3>2, <3>3, OrderedOpen DEF Wins, TerminalStatuses
  <2>3. CASE g = rt.idx
    <3>1. y(g) = f[rt.idx] /\ y(h) = Here(h)
      BY <1>7, <1>8, <2>3
    <3>2. y(h).status \in {"absent", "prepared"}
      BY <1>1, <1>4, <1>8, <2>3, <3>1
    <3>3. y(h).status # "absent" => y(h).step = y(g).step /\ y(h).goal = y(g).goal
      BY <1>1, <1>2, <1>6, <3>1 DEF Moves
    <3>4. y(g) \in Entry /\ y(h) \in Entry /\ y(g).status = "pending"
      BY <1>1, <1>6, <3>1 DEF Moves
    <3> QED
      BY <3>2, <3>3, <3>4, OrderedWaiting DEF Wins
  <2> QED
    BY <2>1, <2>2, <2>3
<1>9. /\ MovedTo(Rewrite(f))
      /\ \A g \in 1..MaxGates : Rewrite(f)[<<rt.occ, g>>] = Now(f)[g]
  <2>1. DOMAIN f \subseteq 1..MaxGates /\ \A g \in DOMAIN f : Moves(Here(g), f[g])
    BY <1>3, <1>5, <1>6
  <2> QED
    BY <1>8, <2>1, RewriteMoved DEF InChain, AtGate
<1> QED
  BY <1>3, <1>4, <1>6, <1>7, <1>9 DEF f

\* A gate returns, and the next one starts in the same commit.
Answered(e, next) ==
  Rewrite([h \in {rt.idx} \cup next |-> IF h = rt.idx THEN e ELSE StartEntry(Here(h))])

LEMMA ReturnMoved ==
  ASSUME Types, Journal, ChainAtHand, Good, GateAtHand, rt.pc = "run",
         NEW e, Moves(Here(rt.idx), e), e.status \in TerminalStatuses, e.effect = "pending",
         NEW next, next \in {{}, {rt.idx + 1}}, next \subseteq Chain
  PROVE  LET x == Answered(e, next)
         IN  /\ MovedTo(x)
             /\ \A g \in 1..MaxGates :
                  x[<<rt.occ, g>>] = IF g = rt.idx THEN e
                                     ELSE IF g \in next THEN StartEntry(Here(g)) ELSE Here(g)
             /\ \A g \in next : x[<<rt.occ, g>>].status = "pending"
             /\ \A g \in Chain : g > rt.idx => Here(g).status = "prepared"
<1> DEFINE f == [h \in {rt.idx} \cup next |-> IF h = rt.idx THEN e ELSE StartEntry(Here(h))]
           y(g) == Now(f)[g]
<1>1. /\ Chain = {g \in 1..MaxGates : Here(g).status # "absent"}
      /\ \A g \in 1..MaxGates : Here(g) \in Entry /\ Whole(Here(g))
      /\ \A g, h \in 1..MaxGates : g < h => Ordered(Here(g), Here(h))
      /\ \A g \in Chain, h \in 1..MaxGates : h < g => h \in Chain
      /\ \A g \in Chain : Here(g).step = Here(1).step /\ Here(g).goal = Here(1).goal
  BY ChainFacts DEF InChain, AtGate
<1>2. /\ rt.idx \in Chain /\ rt.good = 1..(rt.idx - 1)
      /\ \A g \in rt.good : Here(g).status = "succeeded"
      /\ \A g \in Chain : Here(g).status = "succeeded" => Here(g).effect = "pending"
      /\ \A g \in Chain : g > rt.idx => Here(g).status = "prepared"
  BY DEF ChainAtHand, Good, GateAtHand, InChain, AtGate
<1>3. rt.idx \in 1..MaxGates /\ \A g \in next : g = rt.idx + 1 /\ g \in 1..MaxGates /\ g \in Chain
  BY <1>1, <1>2
<1>4. /\ DOMAIN f = {rt.idx} \cup next /\ f[rt.idx] = e
      /\ \A g \in next : f[g] = StartEntry(Here(g))
  <2>1. \A g \in next : g # rt.idx
    BY <1>3
  <2> QED
    BY <2>1
<1>5. \A g \in next : Moves(Here(g), f[g]) /\ f[g].status = "pending"
  <2> SUFFICES ASSUME NEW g \in next PROVE Moves(Here(g), f[g]) /\ f[g].status = "pending"
    OBVIOUS
  <2>1. Here(g) \in Entry /\ Whole(Here(g)) /\ MayStart(Here(g))
    BY <1>1, <1>2, <1>3 DEF MayStart
  <2> QED
    BY <1>4, <2>1, StartMoves
<1> HIDE DEF f
<1>6. \A g \in 1..MaxGates :
        y(g) = IF g = rt.idx THEN e ELSE IF g \in next THEN f[g] ELSE Here(g)
  BY <1>4 DEF Now
<1>7. \A g \in 1..MaxGates : y(g) \in Entry /\ Moves(Here(g), y(g))
  BY <1>1, <1>5, <1>6, SameMoves DEF Moves
<1>8. ASSUME NEW g \in 1..MaxGates, NEW h \in 1..MaxGates, g < h
      PROVE  Ordered(y(g), y(h))
  <2>1. CASE h \notin Chain
    <3>1. y(h).status = "absent"
      BY <1>1, <1>2, <1>3, <1>6, <2>1
    <3> QED
      BY <1>7, <3>1, OrderedAbsent
  <2>2. CASE h \in Chain
    <3>1. g \in Chain
      BY <1>1, <1>8, <2>2
    <3>2. y(h).step = y(g).step /\ y(h).goal = y(g).goal
      BY <1>1, <1>7, <2>2, <3>1 DEF Moves
    <3>3. CASE g <= rt.idx
      <4>1. y(g).status \in TerminalStatuses /\ ~Wins(y(g))
        <5>1. CASE g = rt.idx
          BY <1>6, <5>1 DEF Wins
        <5>2. CASE g < rt.idx
          <6>1. g \in rt.good /\ g \notin next
            BY <1>2, <1>3, <5>2
          <6>2. y(g) = Here(g)
            BY <1>6, <5>2, <6>1
          <6> QED
            BY <1>2, <3>1, <6>1, <6>2 DEF Wins, TerminalStatuses
        <5> QED
          BY <1>3, <3>3, <5>1, <5>2
      <4>2. y(h).status = "succeeded" => y(h).effect = "pending"
        BY <1>2, <1>5, <1>6, <2>2
      <4> QED
        BY <1>7, <3>2, <4>1, <4>2, OrderedOpen
    <3>4. CASE g > rt.idx
      <4>1. y(h) = Here(h) /\ y(h).status = "prepared"
        BY <1>2, <1>3, <1>6, <1>8, <2>2, <3>4
      <4>2. y(g).status \in {"prepared", "pending"}
        BY <1>2, <1>3, <1>5, <1>6, <3>1, <3>4
      <4> QED
        BY <1>7, <3>2, <4>1, <4>2, OrderedWaiting DEF Wins
    <3> QED
      BY <1>3, <3>3, <3>4
  <2> QED
    BY <2>1, <2>2
<1>9. /\ MovedTo(Rewrite(f))
      /\ \A g \in 1..MaxGates : Rewrite(f)[<<rt.occ, g>>] = Now(f)[g]
  <2>1. DOMAIN f \subseteq 1..MaxGates /\ \A g \in DOMAIN f : Moves(Here(g), f[g])
    BY <1>3, <1>4, <1>5
  <2> QED
    BY <1>8, <2>1, RewriteMoved DEF InChain, AtGate
<1>10. ASSUME NEW g \in 1..MaxGates
       PROVE  Rewrite(f)[<<rt.occ, g>>] = IF g = rt.idx THEN e
                                          ELSE IF g \in next THEN StartEntry(Here(g)) ELSE Here(g)
  BY <1>4, <1>6, <1>9
<1>11. \A g \in next : Rewrite(f)[<<rt.occ, g>>].status = "pending"
  BY <1>3, <1>4, <1>5, <1>10
<1>12. Rewrite(f) = Answered(e, next)
  BY DEF f, Answered
<1> QED
  BY <1>2, <1>9, <1>10, <1>11, <1>12

\* The whole chain is applied.
LEMMA AppliedMoved ==
  ASSUME Types, Journal, ChainAtHand, Good, rt.pc = "apply"
  PROVE  /\ MovedTo(Applied)
         /\ \A g \in Chain : /\ Wins(Applied[<<rt.occ, g>>])
                             /\ Applied[<<rt.occ, g>>].decision = Outcome(g).decision
<1> DEFINE f == [g \in Chain |-> IF g \in rt.good THEN ConsumeEntry(Outcome(g)) ELSE Here(g)]
           y(g) == Now(f)[g]
<1>1. /\ Chain = {g \in 1..MaxGates : Here(g).status # "absent"}
      /\ \A g \in 1..MaxGates : Here(g) \in Entry
      /\ \A g \in Chain, h \in 1..MaxGates : h < g => h \in Chain
      /\ \A g \in Chain : Here(g).step = Here(1).step /\ Here(g).goal = Here(1).goal
  BY ChainFacts DEF InChain, AtGate
<1>2. Chain = rt.good
  BY DEF ChainAtHand, InChain, AtGate
<1>3. ASSUME NEW g \in Chain
      PROVE  Moves(Here(g), f[g]) /\ Wins(f[g]) /\ f[g].decision = Outcome(g).decision
  <2> DEFINE z == ConsumeEntry(Outcome(g))
  <2>1. f[g] = z
    BY <1>2
  <2>2. /\ Outcome(g) \in Entry /\ Whole(Outcome(g)) /\ Outcome(g).status = "succeeded"
        /\ Outcome(g).effect = "pending"
    BY <1>2, GoodFacts DEF InChain, AtGate
  <2>3. Moves(Outcome(g), z) /\ z.status = "succeeded" /\ z.effect = "applied"
    BY <2>2, ConsumeMoves
  <2> HIDE DEF f, z
  <2>4. Moves(Here(g), z)
    BY <1>2, <2>3, GoodFacts DEF InChain, AtGate
  <2> QED
    BY <2>1, <2>2, <2>3, <2>4 DEF Wins, Moves, TerminalStatuses
<1>4. DOMAIN f = Chain
  OBVIOUS
<1> HIDE DEF f
<1>5. \A g \in 1..MaxGates : y(g) = IF g \in Chain THEN f[g] ELSE Here(g)
  BY <1>4 DEF Now
<1>6. ASSUME NEW g \in 1..MaxGates, NEW h \in 1..MaxGates, g < h
      PROVE  Ordered(y(g), y(h))
  <2>1. y(g) \in Entry /\ y(h) \in Entry
    BY <1>1, <1>3, <1>5 DEF Moves
  <2>2. CASE h \notin Chain
    BY <1>1, <1>5, <2>1, <2>2, OrderedAbsent
  <2>3. CASE h \in Chain
    <3>1. g \in Chain
      BY <1>1, <1>6, <2>3
    <3>2. y(h).step = y(g).step /\ y(h).goal = y(g).goal
      BY <1>1, <1>3, <1>5, <2>3, <3>1 DEF Moves
    <3> QED
      BY <1>3, <1>5, <2>1, <2>3, <3>1, <3>2, OrderedApplied
  <2> QED
    BY <2>2, <2>3
<1>7. /\ MovedTo(Rewrite(f))
      /\ \A g \in 1..MaxGates : Rewrite(f)[<<rt.occ, g>>] = Now(f)[g]
  <2>1. DOMAIN f \subseteq 1..MaxGates /\ \A g \in DOMAIN f : Moves(Here(g), f[g])
    BY <1>1, <1>3, <1>4
  <2> QED
    BY <1>6, <2>1, RewriteMoved DEF InChain, AtGate
<1>8. \A g \in Chain : Rewrite(f)[<<rt.occ, g>>] = f[g]
  BY <1>1, <1>5, <1>7
<1> QED
  BY <1>3, <1>7, <1>8 DEF f, Applied

\* After a Goal decision the commit is tried again; it may have been durable.
Retried ==
  Rewrite([g \in Chain |-> IF g \in rt.good /\ Unsettled(Here(g)) THEN ConsumeEntry(Here(g))
                           ELSE Here(g)])

LEMMA RetryMoved ==
  ASSUME Types, Journal, ChainAtHand, Good, rt.pc = "applyRetry"
  PROVE  /\ MovedTo(Retried)
         /\ \A g \in Chain : /\ Wins(Retried[<<rt.occ, g>>])
                             /\ Retried[<<rt.occ, g>>].decision = Outcome(g).decision
<1> DEFINE f == [g \in Chain |-> IF g \in rt.good /\ Unsettled(Here(g)) THEN ConsumeEntry(Here(g))
                                ELSE Here(g)]
           y(g) == Now(f)[g]
<1>1. /\ Chain = {g \in 1..MaxGates : Here(g).status # "absent"}
      /\ \A g \in 1..MaxGates : Here(g) \in Entry /\ Whole(Here(g))
      /\ \A g \in Chain, h \in 1..MaxGates : h < g => h \in Chain
      /\ \A g \in Chain : Here(g).step = Here(1).step /\ Here(g).goal = Here(1).goal
  BY ChainFacts DEF InChain, AtGate
<1>2. Chain = rt.good
  BY DEF ChainAtHand, InChain, AtGate
<1>3. ASSUME NEW g \in Chain
      PROVE  Moves(Here(g), f[g]) /\ Wins(f[g]) /\ f[g].decision = Outcome(g).decision
  <2>1. /\ Here(g).status = "succeeded" /\ Outcome(g) = Here(g)
        /\ Here(g).effect \in {"pending", "applied"} /\ Here(g) \in Entry /\ Whole(Here(g))
    BY <1>1, <1>2 DEF Good, Outcome, InChain, AtGate
  <2>2. CASE Here(g).effect = "pending"
    <3> DEFINE z == ConsumeEntry(Here(g))
    <3>1. f[g] = z
      BY <1>2, <2>1, <2>2 DEF Unsettled, TerminalStatuses
    <3>2. Moves(Here(g), z) /\ z.status = "succeeded" /\ z.effect = "applied"
      BY <2>1, <2>2, ConsumeMoves
    <3> HIDE DEF f, z
    <3> QED
      BY <2>1, <3>1, <3>2 DEF Wins, Moves, TerminalStatuses
  <2>3. CASE Here(g).effect = "applied"
    <3>1. f[g] = Here(g)
      BY <2>3 DEF Unsettled
    <3> HIDE DEF f
    <3> QED
      BY <2>1, <2>3, <3>1, SameMoves DEF Wins
  <2> QED
    BY <2>1, <2>2, <2>3
<1>4. DOMAIN f = Chain
  OBVIOUS
<1> HIDE DEF f
<1>5. \A g \in 1..MaxGates : y(g) = IF g \in Chain THEN f[g] ELSE Here(g)
  BY <1>4 DEF Now
<1>6. ASSUME NEW g \in 1..MaxGates, NEW h \in 1..MaxGates, g < h
      PROVE  Ordered(y(g), y(h))
  <2>1. y(g) \in Entry /\ y(h) \in Entry
    BY <1>1, <1>3, <1>5 DEF Moves
  <2>2. CASE h \notin Chain
    BY <1>1, <1>5, <2>1, <2>2, OrderedAbsent
  <2>3. CASE h \in Chain
    <3>1. g \in Chain
      BY <1>1, <1>6, <2>3
    <3>2. y(h).step = y(g).step /\ y(h).goal = y(g).goal
      BY <1>1, <1>3, <1>5, <2>3, <3>1 DEF Moves
    <3> QED
      BY <1>3, <1>5, <2>1, <2>3, <3>1, <3>2, OrderedApplied
  <2> QED
    BY <2>2, <2>3
<1>7. /\ MovedTo(Rewrite(f))
      /\ \A g \in 1..MaxGates : Rewrite(f)[<<rt.occ, g>>] = Now(f)[g]
  <2>1. DOMAIN f \subseteq 1..MaxGates /\ \A g \in DOMAIN f : Moves(Here(g), f[g])
    BY <1>1, <1>3, <1>4
  <2> QED
    BY <1>6, <2>1, RewriteMoved DEF InChain, AtGate
<1>8. \A g \in Chain : Rewrite(f)[<<rt.occ, g>>] = f[g]
  BY <1>1, <1>5, <1>7
<1> QED
  BY <1>3, <1>7, <1>8 DEF f, Retried

-----------------------------------------------------------------------------
(* What a step leaves standing when the journal only moves.                *)

LEMMA MovedFacts ==
  ASSUME Types, Journal, MovedTo(ext')
  PROVE  /\ ext' \in [Invocation -> Entry]
         /\ \A i \in Invocation :
              ext[i] \in Entry /\ Whole(ext[i]) /\ Moves(ext[i], ext'[i]) /\ Whole(ext'[i])
         /\ \A k \in 1..MaxOccurrences, g \in 1..MaxGates :
              /\ ext[<<k, g>>] \in Entry /\ Whole(ext[<<k, g>>])
              /\ Moves(ext[<<k, g>>], ext'[<<k, g>>])
         /\ \A k \in 1..MaxOccurrences, g, h \in 1..MaxGates :
              g < h => Ordered(ext'[<<k, g>>], ext'[<<k, h>>])
         /\ MaxGates = 0 => ext' = ext
<1>1. ext' \in [Invocation -> Entry] /\ \A i \in Invocation : Moves(ext[i], ext'[i])
  BY DEF MovedTo
<1>2. \A i \in Invocation : ext[i] \in Entry /\ Whole(ext[i]) /\ Whole(ext'[i])
  BY <1>1, ExtIs DEF Moves
<1>3. MaxGates = 0 => ext' = ext
  <2>1. MaxGates = 0 => Invocation = {}
    BY DEF Invocation
  <2> QED
    BY <1>1, <2>1 DEF Types
<1>4. \A k \in 1..MaxOccurrences, g, h \in 1..MaxGates :
        g < h => Ordered(ext'[<<k, g>>], ext'[<<k, h>>])
  BY DEF MovedTo
<1> QED
  BY <1>1, <1>2, <1>3, <1>4, InvocationIs

LEMMA JournalMoved ==
  ASSUME Types, Journal, MovedTo(ext'), used'.occs = used.occs,
         \A i \in Invocation :
           \/ calls'[i] = calls[i]
           \/ calls'[i] <= 1 /\ ext'[i].status \notin {"absent", "prepared"}
  PROVE  Journal'
<1>1. ASSUME NEW i \in Invocation
      PROVE  /\ calls'[i] <= 1
             /\ ext'[i].status \in {"absent", "prepared"} => calls'[i] = 0
             /\ i[1] > used'.occs => ext'[i].status = "absent"
  <2>1. Moves(ext[i], ext'[i])
    BY MovedFacts
  <2>2. calls[i] <= 1 /\ (ext[i].status \in {"absent", "prepared"} => calls[i] = 0)
    BY DEF Journal
  <2>3. ext'[i].status \in {"absent", "prepared"} => ext[i].status \in {"absent", "prepared"}
    BY <2>1 DEF Moves
  <2>4. i[1] > used'.occs => ext'[i].status = "absent"
    BY <2>1 DEF Moves, Journal
  <2> QED
    BY <2>2, <2>3, <2>4
<1> QED
  BY <1>1, MovedFacts DEF Journal

\* A word that gates gave is never taken back.
LEMMA DecisionsStand ==
  ASSUME Types, Journal, GoalNeedsGates, MovedTo(ext'), decisions' = decisions
  PROVE  GoalNeedsGates'
<1> SUFFICES ASSUME NEW d \in decisions, d.verdict = "done"
             PROVE  \/ \A i \in Invocation :
                         ~(ext'[i].step = d.step /\ ext'[i].goal.version = d.version)
                    \/ \E k \in 1..MaxOccurrences :
                         /\ ext'[<<k, 1>>].step = d.step /\ ext'[<<k, 1>>].goal.version = d.version
                         /\ \A g \in 1..MaxGates : ext'[<<k, g>>].status # "absent" =>
                              /\ ext'[<<k, g>>].status = "succeeded"
                              /\ ext'[<<k, g>>].decision = "complete"
  BY DEF GoalNeedsGates
<1>1. CASE \A i \in Invocation : ~(ext[i].step = d.step /\ ext[i].goal.version = d.version)
  BY <1>1, MovedFacts DEF Moves
<1>2. CASE MaxGates = 0
  BY <1>2 DEF Invocation
<1>3. ASSUME MaxGates # 0, NEW k \in 1..MaxOccurrences,
             ext[<<k, 1>>].step = d.step, ext[<<k, 1>>].goal.version = d.version,
             \A g \in 1..MaxGates : ext[<<k, g>>].status # "absent" =>
               ext[<<k, g>>].status = "succeeded" /\ ext[<<k, g>>].decision = "complete"
      PROVE  /\ ext'[<<k, 1>>].step = d.step /\ ext'[<<k, 1>>].goal.version = d.version
             /\ \A g \in 1..MaxGates : ext'[<<k, g>>].status # "absent" =>
                  ext'[<<k, g>>].status = "succeeded" /\ ext'[<<k, g>>].decision = "complete"
  <2>1. 1 \in 1..MaxGates
    BY <1>3, CompletionAssumption
  <2>2. \A g \in 1..MaxGates : Moves(ext[<<k, g>>], ext'[<<k, g>>])
    BY MovedFacts
  <2> QED
    BY <1>3, <2>1, <2>2 DEF Moves, TerminalStatuses
<1>4. \/ \A i \in Invocation : ~(ext[i].step = d.step /\ ext[i].goal.version = d.version)
      \/ \E k \in 1..MaxOccurrences :
           /\ ext[<<k, 1>>].step = d.step /\ ext[<<k, 1>>].goal.version = d.version
           /\ \A g \in 1..MaxGates : ext[<<k, g>>].status # "absent" =>
                ext[<<k, g>>].status = "succeeded" /\ ext[<<k, g>>].decision = "complete"
  BY DEF GoalNeedsGates
<1> QED
  BY <1>1, <1>2, <1>3, <1>4

LEMMA GatedStands ==
  ASSUME Types, Journal, Gated, MovedTo(ext'), step' = step, decisions \subseteq decisions'
  PROVE  Gated'
<1>1. CASE \E d \in decisions : d.step = step
  BY <1>1 DEF Gated
<1>2. CASE MaxGates = 0
  BY <1>2, MovedFacts DEF Gated
<1>3. ASSUME MaxGates # 0, NEW k \in 1..MaxOccurrences, ext[<<k, 1>>].step = step,
             \A g \in 1..MaxGates : ext[<<k, g>>].status # "absent" =>
               ext[<<k, g>>].decision = "complete" /\ ext[<<k, g>>].effect = "applied"
      PROVE  Gated'
  <2>1. 1 \in 1..MaxGates
    BY <1>3, CompletionAssumption
  <2>2. \A g \in 1..MaxGates :
          /\ ext[<<k, g>>] \in Entry /\ Whole(ext[<<k, g>>])
          /\ Moves(ext[<<k, g>>], ext'[<<k, g>>])
    BY MovedFacts
  <2>3. ASSUME NEW g \in 1..MaxGates, ext'[<<k, g>>].status # "absent"
        PROVE  ext'[<<k, g>>].decision = "complete" /\ ext'[<<k, g>>].effect = "applied"
    <3>1. /\ ext[<<k, g>>].status # "absent"
          /\ ext[<<k, g>>].decision = "complete" /\ ext[<<k, g>>].effect = "applied"
      BY <1>3, <2>2, <2>3 DEF Moves
    <3>2. Wins(ext[<<k, g>>])
      BY <2>2, <3>1, WholeIs DEF Wins
    <3> QED
      BY <2>2, <3>1, <3>2 DEF Moves, Wins, TerminalStatuses
  <2>4. ext'[<<k, 1>>].step = step'
    BY <1>3, <2>1, <2>2 DEF Moves
  <2> QED
    BY <2>3, <2>4 DEF Gated
<1> QED
  BY <1>1, <1>2, <1>3 DEF Gated

LEMMA OffChain ==
  ASSUME rt'.pc \notin InChain \cup {"prepareSettle"}
  PROVE  ChainAtHand' /\ Good' /\ GateAtHand'
BY DEF ChainAtHand, Good, GateAtHand, InChain

\* The answer o of a commit, in the budget.
Spends(o) ==
  /\ used' \in [trouble: Nat, occs: 0..MaxOccurrences]
  /\ used'.occs = used.occs
  /\ used'.trouble = used.trouble + (IF o = "ok" THEN 0 ELSE 1)
  /\ used'.trouble <= MaxTrouble

LEMMA SpendIs ==
  ASSUME Types, Bounded, NEW o, o # "ok" => Trouble,
         used' = IF o = "ok" THEN used ELSE Spend
  PROVE  Spends(o)
BY CompletionAssumption DEF Types, Bounded, Trouble, Spend, Spends

LEMMA CommitIs ==
  ASSUME Types, Journal, Bounded, NEW new, MovedTo(new), NEW o, Commit(new, o)
  PROVE  /\ o \in {"ok", "lost", "kept"} /\ MovedTo(ext') /\ Spends(o)
         /\ ext' = IF o = "lost" THEN ext ELSE new
<1>1. o \in {"ok", "lost", "kept"} /\ ext' = IF o = "lost" THEN ext ELSE new
  BY DEF Commit
<1>2. MovedTo(ext')
  BY <1>1, SameMoved
<1> QED
  BY <1>1, <1>2, SpendIs DEF Commit

\* A goroutine record keeps its chain.
SameChain ==
  /\ rt'.occ = rt.occ /\ rt'.idx = rt.idx /\ rt'.good = rt.good /\ rt'.cont = rt.cont
  /\ rt'.cand = rt.cand /\ rt'.hand = rt.hand /\ rt'.recovered = rt.recovered

LEMMA GotoIs ==
  ASSUME Types, NEW p \in Steps, Goto(p)
  PROVE  /\ rt' \in Goroutines /\ rt'.pc = p /\ SameChain
         /\ rt'.seen = rt.seen /\ rt'.proposals = rt.proposals /\ rt'.out = rt.out
         /\ rt'.path = rt.path
BY DEF Types, Goto, Goroutines, SameChain

LEMMA FinishIs ==
  ASSUME Types, NEW out \in RunEnd, Finish(out)
  PROVE  /\ rt' \in Goroutines /\ rt'.pc = "finish" /\ rt'.out = out /\ SameChain
         /\ rt'.proposals = rt.proposals /\ rt'.path = rt.path
BY DEF Types, Finish, Goroutines, SameChain, Steps

LEMMA FreshIs ==
  ASSUME NEW p \in Steps
  PROVE  /\ Fresh(p) \in Goroutines /\ Fresh(p).pc = p /\ Fresh(p).occ = 0 /\ Fresh(p).idx = 1
         /\ Fresh(p).good = {} /\ Fresh(p).cont = FALSE /\ Fresh(p).cand = NoGoal
         /\ Fresh(p).recovered = FALSE /\ Fresh(p).proposals = 0 /\ Fresh(p).out = "none"
         /\ Fresh(p).path = "none"
BY CompletionAssumption DEF Fresh, Goroutines, NoGoal, Absent, Shown, Entry, Effects, Contexts,
   Paths

LEMMA SecondIs ==
  ASSUME Types, NEW w \in Paths, rt' = [rt EXCEPT !.pc = "second", !.path = w]
  PROVE  /\ rt' \in Goroutines /\ rt'.pc = "second" /\ rt'.path = w /\ SameChain
         /\ rt'.proposals = rt.proposals /\ rt'.out = rt.out
BY DEF Types, Goroutines, SameChain, Steps

\* A step that leaves the chain, the Session and the Goal alone except for the
\* moves of a settlement.
LEMMA LeftChain ==
  ASSUME IInv, MovedTo(ext'), NEW o, Spends(o), rt' \in Goroutines,
         rt'.pc \notin InChain \cup {"prepareSettle", "idle", "down"},
         rt.pc \notin {"idle", "down"},
         rt'.recovered => rt.recovered,
         rt'.proposals = 1 => rt'.pc = "finish" \/ step < MaxSteps
                              \/ (rt.proposals = 1 /\ rt.pc # "finish"),
         UNCHANGED <<calls, sessionVars, goalVars, restVars>>
  PROVE  /\ Types' /\ Journal' /\ ChainAtHand' /\ Good' /\ GateAtHand' /\ Bounded'
         /\ GoalNeedsGates' /\ Completed' /\ run' = "running"
<1>1. Types /\ Journal /\ Bounded /\ GoalNeedsGates /\ WayOut
  BY DEF IInv
<1>2. /\ calls' = calls /\ run' = run /\ step' = step /\ answered' = answered /\ steers' = steers
      /\ goal' = goal /\ decisions' = decisions /\ gates' = gates /\ cancel' = cancel /\ why' = why
  BY DEF sessionVars, goalVars, restVars
<1>3. ext' \in [Invocation -> Entry] /\ used' \in [trouble: Nat, occs: 0..MaxOccurrences]
  BY DEF MovedTo, Spends
<1>4. Types'
  BY <1>1, <1>2, <1>3 DEF Types
<1>5. Journal'
  BY <1>1, <1>2, JournalMoved DEF Spends
<1>6. ChainAtHand' /\ Good' /\ GateAtHand'
  BY OffChain
<1>7. Bounded'
  <2>1. /\ used.trouble <= used'.trouble /\ used'.trouble <= MaxTrouble
        /\ used.trouble \in Nat /\ used'.trouble \in Nat
    BY <1>1 DEF Spends, Types
  <2>2. /\ steers <= used.trouble /\ step + steers <= MaxSteps + used.trouble
        /\ rt.recovered => step + steers < MaxSteps + used.trouble
        /\ rt.proposals = 1 /\ rt.pc # "finish" => step < MaxSteps
    BY <1>1 DEF Bounded
  <2>3. step \in Nat /\ steers \in Nat /\ MaxSteps \in Nat
    BY <1>1, CompletionAssumption DEF Types
  <2>4. /\ rt'.pc # "down" /\ rt'.pc \notin InChain /\ rt'.pc \notin Locked
        /\ rt'.proposals = 1 => rt'.pc = "finish" \/ step < MaxSteps
    BY <2>2 DEF InChain, Locked
  <2> QED
    BY <1>2, <2>1, <2>2, <2>3, <2>4 DEF Bounded
<1>8. GoalNeedsGates'
  BY <1>1, <1>2, DecisionsStand
<1>9. run' = "running" /\ Completed'
  BY <1>1, <1>2 DEF WayOut, Completed
<1> QED
  BY <1>4, <1>5, <1>6, <1>7, <1>8, <1>9

\* The Run is ended without having completed.
LEMMA Ended ==
  ASSUME IInv, NEW out \in {"canceled", "failed", "interrupted"}, Finish(out),
         MovedTo(ext'), NEW o, Spends(o), rt.pc \notin {"idle", "down"},
         UNCHANGED <<calls, sessionVars, goalVars, restVars>>
  PROVE  IInv'
<1>1. /\ rt' \in Goroutines /\ rt'.pc = "finish" /\ rt'.out = out /\ SameChain
  BY FinishIs DEF IInv, RunEnd
<1>2. /\ Types' /\ Journal' /\ ChainAtHand' /\ Good' /\ GateAtHand' /\ Bounded'
      /\ GoalNeedsGates' /\ Completed' /\ run' = "running"
  BY <1>1, LeftChain DEF InChain, AtGate, SameChain
<1>3. GoalAhead'
  BY <1>1 DEF IInv, GoalAhead, goalVars
<1>4. WayOut'
  BY <1>1, <1>2 DEF WayOut, Leaving
<1> QED
  BY <1>2, <1>3, <1>4 DEF IInv

\* The Run takes its steers, or looks again, with its chain given up.
LEMMA Released ==
  ASSUME IInv, MovedTo(ext'), NEW o, Spends(o), rt' \in Goroutines, SameChain,
         rt'.proposals = rt.proposals, rt.pc # "finish",
         \/ rt'.pc = "second" /\ rt'.path \in {"steer", "conflict"}
         \/ rt'.pc = "look",
         gates > 0 \/ (rt.pc \in {"look", "evaluate", "prepare"} /\ ext' = ext),
         rt.pc \notin {"idle", "down"},
         UNCHANGED <<calls, sessionVars, goalVars, restVars>>
  PROVE  IInv'
<1>1. /\ Types' /\ Journal' /\ ChainAtHand' /\ Good' /\ GateAtHand' /\ Bounded'
      /\ GoalNeedsGates' /\ Completed' /\ run' = "running"
  BY LeftChain DEF InChain, AtGate, SameChain
<1>2. GoalAhead'
  <2>1. gates' = gates /\ goal' = goal /\ decisions' = decisions
    BY DEF goalVars, restVars
  <2>2. gates' = 0 => NoEntries'
    <3> SUFFICES ASSUME gates' = 0 PROVE NoEntries'
      OBVIOUS
    <3>1. gates = 0 /\ rt.pc \in {"look", "evaluate", "prepare"} /\ ext' = ext
      BY <2>1
    <3> QED
      BY <3>1 DEF IInv, GoalAhead, NoEntries
  <2> QED
    BY <2>1, <2>2 DEF IInv, GoalAhead
<1>3. WayOut'
  BY <1>1 DEF WayOut, Leaving
<1> QED
  BY <1>1, <1>2, <1>3 DEF IInv

LEMMA AbortStep ==
  ASSUME IInv, NEW from, NEW o, Abort(from, o),
         \/ rt.pc \in {"gate", "check"} /\ from = rt.idx
         \/ rt.pc = "finalize" /\ from = MaxGates + 1,
         UNCHANGED <<calls, sessionVars, goalVars, restVars>>
  PROVE  IInv'
<1>1. MovedTo(Aborted(from)) /\ Commit(Aborted(from), o)
  BY AbortedMoved DEF IInv, Abort, CommitIfChanged
<1>2. MovedTo(ext') /\ Spends(o)
  BY <1>1, CommitIs DEF IInv
<1>3. gates > 0 /\ rt.pc \notin {"idle", "down", "finish"}
  BY DEF IInv, ChainAtHand, InChain, AtGate
<1>4. CASE \E out \in {"canceled", "failed"} : Finish(out)
  BY <1>2, <1>3, <1>4, Ended
<1>5. CASE Goto("look")
  <2>1. /\ rt' \in Goroutines /\ rt'.pc = "look" /\ SameChain /\ rt'.proposals = rt.proposals
    BY <1>5, GotoIs DEF IInv, Steps
  <2> QED
    BY <1>2, <1>3, <2>1, Released
<1>6. CASE rt' = [rt EXCEPT !.pc = "second", !.path = "steer"]
  <2>1. /\ rt' \in Goroutines /\ rt'.pc = "second" /\ rt'.path = "steer" /\ SameChain
        /\ rt'.proposals = rt.proposals
    BY <1>6, SecondIs DEF IInv, Paths
  <2> QED
    BY <1>2, <1>3, <2>1, Released
<1> QED
  BY <1>4, <1>5, <1>6 DEF Abort

-----------------------------------------------------------------------------
(* The environment.                                                        *)

\* The journal and the goroutine are left alone.
LEMMA Undisturbed ==
  ASSUME IInv, ext' = ext, rt' = rt, calls' = calls, used'.occs = used.occs, step' = step,
         gates' = gates, run' = run, why' = why, decisions' = decisions
  PROVE  /\ Journal' /\ ChainAtHand' /\ Good' /\ GateAtHand' /\ WayOut' /\ GoalNeedsGates'
         /\ Completed' /\ (NoEntries <=> NoEntries')
<1>1. Chain' = Chain /\ (\A g : Here(g)' = Here(g)) /\ (\A g : Outcome(g)' = Outcome(g))
  BY DEF Chain, Here, Outcome
<1>2. Journal'
  BY DEF IInv, Journal
<1>3. ChainAtHand'
  BY <1>1 DEF IInv, ChainAtHand
<1>4. Good'
  BY <1>1 DEF IInv, Good
<1>5. GateAtHand'
  BY <1>1 DEF IInv, GateAtHand
<1>6. Gated' <=> Gated
  BY DEF Gated
<1>7. WayOut' /\ Completed'
  BY <1>6 DEF IInv, WayOut, Leaving, Completed
<1>8. GoalNeedsGates' /\ (NoEntries <=> NoEntries')
  BY DEF IInv, GoalNeedsGates, NoEntries
<1> QED
  BY <1>2, <1>3, <1>4, <1>5, <1>7, <1>8

LEMMA SpendOne ==
  ASSUME Types, Bounded, Trouble, used' = Spend
  PROVE  Spends("lost") /\ used'.trouble = used.trouble + 1 /\ used'.trouble <= MaxTrouble
BY SpendIs DEF Spends

LEMMA SetGoalStep ==
  ASSUME IInv, SetGoal
  PROVE  IInv'
<1>1. /\ ext' = ext /\ rt' = rt /\ calls' = calls /\ step' = step /\ gates' = gates /\ run' = run
      /\ why' = why /\ decisions' = decisions /\ steers' = steers /\ answered' = answered
      /\ cancel' = cancel
  BY DEF SetGoal, sessionVars, restVars
<1>2. Spends("lost") /\ used'.trouble = used.trouble + 1 /\ used'.trouble <= MaxTrouble
  BY SpendOne DEF IInv, SetGoal
<1>3. goal' \in Goals /\ goal'.version = goal.version + 1 /\ goal.version \in Nat
  BY DEF IInv, SetGoal, Types, Goals
<1>4. Types'
  BY <1>1, <1>2, <1>3 DEF IInv, Types, Spends
<1>5. /\ Journal' /\ ChainAtHand' /\ Good' /\ GateAtHand' /\ WayOut' /\ GoalNeedsGates'
      /\ Completed' /\ (NoEntries <=> NoEntries')
  BY <1>1, <1>2, Undisturbed DEF Spends
<1>6. Bounded'
  BY <1>1, <1>2, CompletionAssumption DEF IInv, Bounded, Types
<1>7. GoalAhead'
  <2>1. \A d \in decisions : d.version \in Nat
    BY DEF IInv, Types, Records
  <2> QED
    BY <1>1, <1>3, <1>5, <2>1 DEF IInv, GoalAhead
<1> QED
  BY <1>4, <1>5, <1>6, <1>7 DEF IInv

LEMMA ChangeStatusStep ==
  ASSUME IInv, ChangeStatus
  PROVE  IInv'
<1>1. /\ ext' = ext /\ rt' = rt /\ calls' = calls /\ step' = step /\ gates' = gates /\ run' = run
      /\ why' = why /\ decisions' = decisions /\ steers' = steers /\ answered' = answered
      /\ cancel' = cancel
  BY DEF ChangeStatus, sessionVars, restVars
<1>2. Spends("lost") /\ used'.trouble = used.trouble + 1 /\ used'.trouble <= MaxTrouble
  BY SpendOne DEF IInv, ChangeStatus
<1>3. goal' \in Goals /\ goal'.version = goal.version + 1 /\ goal.version \in Nat
  <2>1. PICK s \in {"active", "paused", "completed", "canceled"} :
          /\ goal.status \in {"active", "paused"}
          /\ goal' = [goal EXCEPT !.status = s, !.version = @ + 1]
    <3> DEFINE P(s) == goal' = [goal EXCEPT !.status = s, !.version = @ + 1]
    <3>1. \E s \in {"active", "paused", "completed", "canceled"} :
            /\ \/ goal.status = "active" /\ s \in {"paused", "completed", "canceled"}
               \/ goal.status = "paused" /\ s \in {"active", "canceled"}
            /\ P(s)
      BY DEF ChangeStatus
    <3> HIDE DEF P
    <3>2. \E s \in {"active", "paused", "completed", "canceled"} :
            goal.status \in {"active", "paused"} /\ P(s)
      BY <3>1
    <3> QED
      BY <3>2 DEF P
  <2> DEFINE v == goal.version + 1
  <2>2. goal \in Goals /\ v \in Nat /\ goal.version \in Nat
    BY DEF IInv, Types, Goals
  <2>3. goal' = [goal EXCEPT !.status = s, !.version = v]
    BY <2>1
  <2> HIDE DEF v
  <2>4. goal' \in Goals /\ goal'.version = v
    BY <2>2, <2>3 DEF Goals
  <2> QED
    BY <2>2, <2>4 DEF v
<1>4. Types'
  BY <1>1, <1>2, <1>3 DEF IInv, Types, Spends
<1>5. /\ Journal' /\ ChainAtHand' /\ Good' /\ GateAtHand' /\ WayOut' /\ GoalNeedsGates'
      /\ Completed' /\ (NoEntries <=> NoEntries')
  BY <1>1, <1>2, Undisturbed DEF Spends
<1>6. Bounded'
  BY <1>1, <1>2, CompletionAssumption DEF IInv, Bounded, Types
<1>7. GoalAhead'
  <2>1. \A d \in decisions : d.version \in Nat
    BY DEF IInv, Types, Records
  <2> QED
    BY <1>1, <1>3, <1>5, <2>1 DEF IInv, GoalAhead
<1> QED
  BY <1>4, <1>5, <1>6, <1>7 DEF IInv

LEMMA SteerStep ==
  ASSUME IInv, Steer
  PROVE  IInv'
<1>1. /\ ext' = ext /\ rt' = rt /\ calls' = calls /\ step' = step /\ gates' = gates /\ run' = run
      /\ why' = why /\ decisions' = decisions /\ steers' = steers + 1 /\ answered' = answered
      /\ cancel' = cancel /\ goal' = goal
  BY DEF Steer, goalVars, restVars
<1>2. Spends("lost") /\ used'.trouble = used.trouble + 1 /\ used'.trouble <= MaxTrouble
  BY SpendOne DEF IInv, Steer
<1>3. Types'
  BY <1>1, <1>2 DEF IInv, Types, Spends
<1>4. /\ Journal' /\ ChainAtHand' /\ Good' /\ GateAtHand' /\ WayOut' /\ GoalNeedsGates'
      /\ Completed' /\ (NoEntries <=> NoEntries')
  BY <1>1, <1>2, Undisturbed DEF Spends
<1>5. Bounded'
  <2>1. rt.pc # "down" /\ rt.pc \notin Locked
    BY DEF Steer, Open
  <2> QED
    BY <1>1, <1>2, <2>1, CompletionAssumption DEF IInv, Bounded, Types
<1>6. GoalAhead'
  BY <1>1, <1>4 DEF IInv, GoalAhead
<1> QED
  BY <1>3, <1>4, <1>5, <1>6 DEF IInv

LEMMA WithdrawStep ==
  ASSUME IInv, Withdraw
  PROVE  IInv'
<1>1. /\ ext' = ext /\ rt' = rt /\ calls' = calls /\ step' = step /\ gates' = gates /\ run' = run
      /\ why' = why /\ decisions' = decisions /\ answered' = answered /\ used' = used
      /\ cancel' = cancel /\ goal' = goal /\ steers' = steers - 1 /\ steers > 0
  BY DEF Withdraw, goalVars, restVars
<1>2. Types'
  BY <1>1 DEF IInv, Types
<1>3. /\ Journal' /\ ChainAtHand' /\ Good' /\ GateAtHand' /\ WayOut' /\ GoalNeedsGates'
      /\ Completed' /\ (NoEntries <=> NoEntries')
  BY <1>1, Undisturbed
<1>4. Bounded'
  <2>1. rt.pc \notin Locked
    BY DEF Withdraw, Open
  <2> QED
    BY <1>1, <2>1, CompletionAssumption DEF IInv, Bounded, Types
<1>5. GoalAhead'
  BY <1>1, <1>3 DEF IInv, GoalAhead
<1> QED
  BY <1>2, <1>3, <1>4, <1>5 DEF IInv

LEMMA CancelStep ==
  ASSUME IInv, Cancel
  PROVE  IInv'
<1>1. /\ ext' = ext /\ rt' = rt /\ calls' = calls /\ step' = step /\ gates' = gates /\ run' = run
      /\ why' = why /\ decisions' = decisions /\ answered' = answered /\ used' = used
      /\ cancel' = TRUE /\ goal' = goal /\ steers' = steers
  BY DEF Cancel, goalVars, sessionVars
<1>2. Types'
  BY <1>1 DEF IInv, Types
<1>3. /\ Journal' /\ ChainAtHand' /\ Good' /\ GateAtHand' /\ WayOut' /\ GoalNeedsGates'
      /\ Completed' /\ (NoEntries <=> NoEntries')
  BY <1>1, Undisturbed
<1>4. Bounded'
  BY <1>1 DEF IInv, Bounded
<1>5. GoalAhead'
  BY <1>1, <1>3 DEF IInv, GoalAhead
<1> QED
  BY <1>2, <1>3, <1>4, <1>5 DEF IInv

\* The process ends between two steps, and with it the goroutine.
LEMMA CrashStep ==
  ASSUME IInv, Crash
  PROVE  IInv'
<1>1. /\ ext' = ext /\ calls' = calls /\ step' = step /\ gates' = gates /\ run' = run
      /\ why' = why /\ decisions' = decisions /\ answered' = answered
      /\ cancel' = FALSE /\ goal' = goal /\ steers' = steers
  BY DEF Crash, goalVars, sessionVars
<1>2. Spends("lost") /\ used'.trouble = used.trouble + 1 /\ used'.trouble <= MaxTrouble
  BY SpendOne DEF IInv, Crash
<1>3. /\ rt' \in Goroutines /\ rt'.pc = "down" /\ rt'.recovered = FALSE /\ rt'.proposals = 0
  BY FreshIs DEF Crash, Steps
<1>4. Types'
  BY <1>1, <1>2, <1>3 DEF IInv, Types, Spends
<1>5. MovedTo(ext')
  BY <1>1, SameMoved DEF IInv
<1>6. Journal' /\ GoalNeedsGates'
  BY <1>1, <1>2, <1>5, JournalMoved, DecisionsStand DEF IInv, Spends
<1>7. ChainAtHand' /\ Good' /\ GateAtHand'
  BY <1>3, OffChain DEF InChain, AtGate
<1>8. Bounded'
  BY <1>1, <1>2, <1>3, CompletionAssumption DEF IInv, Bounded, Types, InChain, AtGate, Locked
<1>9. GoalAhead' /\ WayOut'
  BY <1>1, <1>3 DEF IInv, GoalAhead, WayOut, Leaving
<1>10. Completed'
  BY <1>1 DEF IInv, Completed, Gated
<1> QED
  BY <1>4, <1>6, <1>7, <1>8, <1>9, <1>10 DEF IInv

-----------------------------------------------------------------------------
(* The Goal store.                                                         *)

\* A decision is about a version that the Goal has left since.
LEMMA RecordIs ==
  ASSUME Types, GoalAhead, NEW rec \in Records, RecordDecision(rec)
  PROVE  /\ goal' \in Goals /\ decisions' \in SUBSET Records
         /\ decisions' = IF GoalAnswer(rec) = "recorded" THEN decisions \cup {rec} ELSE decisions
         /\ \A d \in decisions' : d.version >= 1 /\ d.version < goal'.version
         /\ goal'.status = "active" => goal'.version >= 1
<1>1. /\ goal \in Goals /\ decisions \in SUBSET Records /\ goal.version \in Nat
      /\ \A d \in decisions : d.version \in Nat /\ d.version >= 1 /\ d.version < goal.version
      /\ goal.status = "active" => goal.version >= 1
  BY DEF Types, GoalAhead, Goals, Records
<1>2. CASE GoalAnswer(rec) # "recorded" \/ rec \in decisions
  <2>1. goal' = goal /\ decisions' = decisions
    BY <1>2 DEF RecordDecision
  <2> QED
    BY <1>1, <1>2, <2>1
<1>3. CASE GoalAnswer(rec) = "recorded" /\ rec \notin decisions
  <2> DEFINE s == CASE rec.verdict = "done"    -> "completed"
                    [] rec.verdict = "blocked" -> "paused"
                    [] OTHER                   -> goal.status
             n == goal.followOns + (IF rec.verdict = "continue" THEN 1 ELSE 0)
             v == goal.version + 1
  <2>1. goal.version = rec.version /\ goal.status = "active"
    BY <1>3 DEF GoalAnswer
  <2>2. /\ decisions' = decisions \cup {rec}
        /\ goal' = [goal EXCEPT !.version = v, !.followOns = n, !.status = s]
    BY <1>3 DEF RecordDecision
  <2>3. s \in {"active", "paused", "completed"} /\ n \in Nat /\ v \in Nat
    BY <1>1, <2>1 DEF Goals
  <2> HIDE DEF s, n, v
  <2>4. goal' \in Goals /\ goal'.version = v
    BY <1>1, <2>2, <2>3 DEF Goals
  <2>5. goal'.version = goal.version + 1
    BY <2>4 DEF v
  <2> QED
    BY <1>1, <1>3, <2>1, <2>2, <2>4, <2>5
<1> QED
  BY <1>2, <1>3

LEMMA DecisionIs ==
  ASSUME Types, NEW g \in Shown, NEW v \in Verdicts, rt.recovered => Here(1).step \in Nat
  PROVE  /\ Decision(g, v) \in Records /\ Decision(g, v).version = g.version
         /\ Decision(g, v).verdict = v
         /\ Decision(g, v).step = IF rt.recovered THEN Here(1).step ELSE step
BY DEF Types, Decision, Records, Shown

-----------------------------------------------------------------------------
(* From the answer of the model to the gates.                              *)

\* Nothing is done that cancellation or a steer could make wrong.
LEMMA Stay ==
  ASSUME IInv, ext' = ext, used' = used
  PROVE  MovedTo(ext') /\ Spends("ok")
BY SameMoved DEF IInv, Types, Bounded, Spends

LEMMA ModelAnswersStep ==
  ASSUME IInv, ModelAnswers
  PROVE  IInv'
<1>1. /\ rt.pc = "model" /\ ext' = ext /\ run' = run /\ step' = step /\ steers' = steers
      /\ calls' = calls /\ used' = used /\ goal' = goal /\ decisions' = decisions
      /\ gates' = gates /\ cancel' = cancel /\ why' = why
  BY DEF ModelAnswers, At, goalVars, restVars
<1>2. CASE cancel
  <2>1. Finish("canceled") /\ answered' = answered
    BY <1>2 DEF ModelAnswers
  <2> QED
    BY <1>1, <2>1, Stay, Ended DEF sessionVars, goalVars, restVars
<1>3. CASE ~cancel
  <2>1. rt' = Fresh("look") /\ answered' = step
    BY <1>3 DEF ModelAnswers
  <2>2. /\ rt' \in Goroutines /\ rt'.pc = "look" /\ rt'.recovered = FALSE /\ rt'.proposals = 0
    BY <2>1, FreshIs DEF Steps
  <2>3. Types'
    BY <1>1, <2>1, <2>2 DEF IInv, Types
  <2>4. Journal' /\ GoalNeedsGates'
    BY <1>1, Stay, JournalMoved, DecisionsStand DEF IInv
  <2>5. ChainAtHand' /\ Good' /\ GateAtHand'
    BY <2>2, OffChain DEF InChain, AtGate
  <2>6. Bounded'
    BY <1>1, <2>2 DEF IInv, Bounded, InChain, AtGate, Locked
  <2>7. GoalAhead'
    BY <1>1, <2>2 DEF IInv, GoalAhead, NoEntries
  <2>8. WayOut' /\ Completed'
    BY <1>1, <2>2 DEF IInv, WayOut, Leaving, Completed
  <2> QED
    BY <2>3, <2>4, <2>5, <2>6, <2>7, <2>8 DEF IInv
<1> QED
  BY <1>2, <1>3

LEMMA FirstLookStep ==
  ASSUME IInv, FirstLook
  PROVE  IInv'
<1>1. /\ rt.pc = "look" /\ ext' = ext /\ used' = used
      /\ UNCHANGED <<calls, sessionVars, goalVars, restVars>>
  BY DEF FirstLook, At
<1>2. CASE cancel
  <2>1. Finish("canceled")
    BY <1>2 DEF FirstLook
  <2> QED
    BY <1>1, <2>1, Stay, Ended
<1>3. CASE ~cancel
  <2> DEFINE s == [id |-> goal.id, version |-> goal.version, clock |-> "live",
                   followOns |-> goal.followOns]
  <2>1. \/ rt' = [Fresh("second") EXCEPT !.path = "steer"]
        \/ goal.status = "active" /\ rt' = [Fresh("evaluate") EXCEPT !.seen = s]
        \/ rt' = Fresh("prepare")
    BY <1>3 DEF FirstLook
  <2>2. s \in Shown /\ s.version = goal.version
    BY DEF IInv, Types, Goals, Shown
  <2> HIDE DEF s
  <2>3. /\ rt' \in Goroutines /\ rt'.recovered = FALSE /\ rt'.proposals = 0 /\ rt'.cand = NoGoal
        /\ rt'.cont = FALSE /\ rt'.idx = 1 /\ rt'.good = {}
        /\ rt'.pc \in {"second", "evaluate", "prepare"} /\ rt'.out = "none"
        /\ rt'.pc = "second" => rt'.path = "steer"
        /\ rt'.pc = "evaluate" => goal.status = "active" /\ rt'.seen.version = goal.version
    <3>1. {"second", "evaluate", "prepare"} \subseteq Steps
      BY DEF Steps
    <3>2. \A p \in {"second", "evaluate", "prepare"} :
            /\ Fresh(p) \in Goroutines /\ Fresh(p).pc = p /\ Fresh(p).recovered = FALSE
            /\ Fresh(p).proposals = 0 /\ Fresh(p).cand = NoGoal /\ Fresh(p).out = "none"
            /\ Fresh(p).cont = FALSE /\ Fresh(p).idx = 1 /\ Fresh(p).good = {}
      BY <3>1, FreshIs
    <3>3. CASE rt' = [Fresh("second") EXCEPT !.path = "steer"]
      <4> DEFINE f == Fresh("second")
      <4>1. f \in Goroutines /\ f.recovered = FALSE /\ f.proposals = 0 /\ f.cand = NoGoal
            /\ f.cont = FALSE /\ f.idx = 1 /\ f.good = {}
            /\ f.pc = "second" /\ f.out = "none" /\ rt' = [f EXCEPT !.path = "steer"]
        BY <3>2, <3>3
      <4> HIDE DEF f
      <4> QED
        BY <4>1 DEF Goroutines, Paths
    <3>4. CASE goal.status = "active" /\ rt' = [Fresh("evaluate") EXCEPT !.seen = s]
      <4> DEFINE f == Fresh("evaluate")
      <4>1. f \in Goroutines /\ f.recovered = FALSE /\ f.proposals = 0 /\ f.cand = NoGoal
            /\ f.cont = FALSE /\ f.idx = 1 /\ f.good = {}
            /\ f.pc = "evaluate" /\ f.out = "none" /\ rt' = [f EXCEPT !.seen = s]
        BY <3>2, <3>4
      <4> HIDE DEF f
      <4> QED
        BY <2>2, <3>4, <4>1 DEF Goroutines
    <3>5. CASE rt' = Fresh("prepare")
      BY <3>2, <3>5
    <3> QED
      BY <2>1, <3>3, <3>4, <3>5
  <2>4. /\ Types' /\ Journal' /\ ChainAtHand' /\ Good' /\ GateAtHand' /\ Bounded'
        /\ GoalNeedsGates' /\ Completed' /\ run' = "running"
    BY <1>1, <2>3, Stay, LeftChain DEF InChain, AtGate
  <2>5. GoalAhead'
    BY <1>1, <2>3 DEF IInv, GoalAhead, NoEntries, goalVars, restVars
  <2>6. WayOut'
    BY <2>3, <2>4 DEF WayOut, Leaving
  <2> QED
    BY <2>4, <2>5, <2>6 DEF IInv
<1> QED
  BY <1>2, <1>3

LEMMA AnswerIs ==
  ASSUME NEW rec
  PROVE  /\ GoalAnswer(rec) \in {"error", "conflict", "recorded"}
         /\ GoalAnswer(rec) # "recorded" /\ RecordDecision(rec)
              => goal' = goal /\ decisions' = decisions
BY DEF GoalAnswer, RecordDecision

LEMMA GoalEvaluatedStep ==
  ASSUME IInv, GoalEvaluated
  PROVE  IInv'
<1>1. /\ rt.pc = "evaluate" /\ ext' = ext /\ used' = used
      /\ calls' = calls /\ run' = run /\ step' = step /\ answered' = answered /\ steers' = steers
      /\ gates' = gates /\ cancel' = cancel /\ why' = why
  BY DEF GoalEvaluated, At, sessionVars, restVars
<1>2. UNCHANGED <<calls, sessionVars, restVars>>
  BY DEF GoalEvaluated
<1>3. PICK reply \in EvaluatorReplies :
        LET v == Verdict(reply)
            rec == Decision(rt.seen, v)
        IN  /\ v = "continue" => step < MaxSteps
            /\ IF cancel THEN Finish("canceled") /\ UNCHANGED <<goal, decisions>>
               ELSE IF steers > 0
               THEN /\ rt' = [rt EXCEPT !.pc = "second", !.path = "steer"]
                    /\ UNCHANGED <<goal, decisions>>
               ELSE IF v = "done"
               THEN /\ rt' = [rt EXCEPT !.pc = "prepare", !.cand = rt.seen]
                    /\ UNCHANGED <<goal, decisions>>
               ELSE /\ RecordDecision(rec)
                    /\ CASE GoalAnswer(rec) = "error"    -> Finish("failed")
                         [] GoalAnswer(rec) = "conflict" ->
                              rt' = [rt EXCEPT !.pc = "second", !.path = "conflict"]
                         [] OTHER ->
                              rt' = [rt EXCEPT !.pc = "second", !.path = "goal",
                                               !.proposals = IF v = "continue" THEN 1 ELSE 0]
  BY DEF GoalEvaluated
<1> DEFINE v == Verdict(reply)
           rec == Decision(rt.seen, v)
<1>4. v \in Verdicts
  BY DEF Verdict, EvaluatorReplies, Verdicts
<1> HIDE DEF v
<1>5. rt.seen \in Shown /\ ~rt.recovered /\ rt.seen.version \in Nat
  BY <1>1 DEF IInv, Types, Goroutines, GoalAhead, Shown
<1>6. rec \in Records /\ rec.version = rt.seen.version /\ rec.verdict = v /\ rec.step = step
  BY <1>4, <1>5, DecisionIs DEF IInv
<1>7. MovedTo(ext') /\ Spends("ok")
  BY <1>1, Stay
<1>8. ASSUME goal' = goal, decisions' = decisions,
             \/ \E out \in {"canceled", "failed"} : Finish(out)
             \/ \E w \in {"steer", "conflict"} : rt' = [rt EXCEPT !.pc = "second", !.path = w]
      PROVE  IInv'
  <2>1. UNCHANGED <<calls, sessionVars, goalVars, restVars>>
    BY <1>2, <1>8 DEF goalVars
  <2>2. CASE \E out \in {"canceled", "failed"} : Finish(out)
    BY <1>1, <1>7, <2>1, <2>2, Ended
  <2>3. ASSUME NEW w \in {"steer", "conflict"}, rt' = [rt EXCEPT !.pc = "second", !.path = w]
        PROVE  IInv'
    <3>1. /\ rt' \in Goroutines /\ rt'.pc = "second" /\ rt'.path = w /\ SameChain
          /\ rt'.proposals = rt.proposals
      BY <2>3, SecondIs DEF IInv, Paths
    <3> QED
      BY <1>1, <1>7, <2>1, <3>1, Released
  <2> QED
    BY <1>8, <2>2, <2>3
<1>9. ASSUME goal' = goal, decisions' = decisions,
             rt' = [rt EXCEPT !.pc = "prepare", !.cand = rt.seen]
      PROVE  IInv'
  <2>1. /\ rt' \in Goroutines /\ rt'.pc = "prepare" /\ rt'.cand = rt.seen
        /\ rt'.recovered = rt.recovered /\ rt'.proposals = rt.proposals
        /\ rt'.cont = rt.cont /\ rt'.idx = rt.idx /\ rt'.good = rt.good
    BY <1>5, <1>9 DEF IInv, Types, Goroutines, Steps
  <2>2. UNCHANGED <<calls, sessionVars, goalVars, restVars>>
    BY <1>2, <1>9 DEF goalVars
  <2>3. /\ Types' /\ Journal' /\ ChainAtHand' /\ Good' /\ GateAtHand' /\ Bounded'
        /\ GoalNeedsGates' /\ Completed' /\ run' = "running"
    BY <1>1, <1>7, <2>1, <2>2, LeftChain DEF InChain, AtGate
  <2>4. GoalAhead'
    BY <1>1, <1>5, <1>9, <2>1 DEF IInv, GoalAhead, NoEntries
  <2>5. WayOut'
    BY <2>1, <2>3 DEF WayOut, Leaving
  <2> QED
    BY <2>3, <2>4, <2>5 DEF IInv
<1>10. ASSUME v # "done", v = "continue" => step < MaxSteps,
              RecordDecision(rec), GoalAnswer(rec) = "recorded",
              rt' = [rt EXCEPT !.pc = "second", !.path = "goal",
                               !.proposals = IF v = "continue" THEN 1 ELSE 0]
       PROVE  IInv'
  <2>1. /\ rt' \in Goroutines /\ rt'.pc = "second" /\ rt'.path = "goal"
        /\ rt'.recovered = rt.recovered /\ (rt'.proposals = 1 => v = "continue")
    <3> DEFINE n == IF v = "continue" THEN 1 ELSE 0
    <3>1. "second" \in Steps /\ "goal" \in Paths /\ n \in {0, 1} /\ rt \in Goroutines
      BY DEF Steps, Paths, IInv, Types
    <3>2. n = 1 => v = "continue"
      OBVIOUS
    <3>3. rt' = [rt EXCEPT !.pc = "second", !.path = "goal", !.proposals = n]
      BY <1>10
    <3> HIDE DEF n
    <3> QED
      BY <3>1, <3>2, <3>3 DEF Goroutines
  <2>2. /\ goal' \in Goals /\ decisions' \in SUBSET Records /\ decisions' = decisions \cup {rec}
        /\ \A d \in decisions' : d.version >= 1 /\ d.version < goal'.version
        /\ goal'.status = "active" => goal'.version >= 1
    BY <1>6, <1>10, RecordIs DEF IInv
  <2>3. Types'
    BY <1>1, <2>1, <2>2 DEF IInv, Types
  <2>4. Journal'
    BY <1>1, <1>7, JournalMoved DEF IInv
  <2>5. ChainAtHand' /\ Good' /\ GateAtHand'
    BY <2>1, OffChain DEF InChain, AtGate
  <2>6. Bounded'
    BY <1>1, <1>5, <1>10, <2>1 DEF IInv, Bounded, InChain, AtGate, Locked
  <2>7. GoalAhead'
    BY <1>1, <2>1, <2>2 DEF IInv, GoalAhead, NoEntries
  <2>8. WayOut'
    BY <1>1, <1>6, <2>1, <2>2 DEF IInv, WayOut, Leaving
  <2>9. GoalNeedsGates'
    BY <1>1, <1>6, <1>10, <2>2 DEF IInv, GoalNeedsGates
  <2>10. Completed'
    BY <1>1 DEF IInv, WayOut, Completed
  <2> QED
    BY <2>3, <2>4, <2>5, <2>6, <2>7, <2>8, <2>9, <2>10 DEF IInv
<1> QED
  <2>1. /\ v = "continue" => step < MaxSteps
        /\ IF cancel THEN Finish("canceled") /\ UNCHANGED <<goal, decisions>>
           ELSE IF steers > 0
           THEN /\ rt' = [rt EXCEPT !.pc = "second", !.path = "steer"]
                /\ UNCHANGED <<goal, decisions>>
           ELSE IF v = "done"
           THEN /\ rt' = [rt EXCEPT !.pc = "prepare", !.cand = rt.seen]
                /\ UNCHANGED <<goal, decisions>>
           ELSE /\ RecordDecision(rec)
                /\ CASE GoalAnswer(rec) = "error"    -> Finish("failed")
                     [] GoalAnswer(rec) = "conflict" ->
                          rt' = [rt EXCEPT !.pc = "second", !.path = "conflict"]
                     [] OTHER ->
                          rt' = [rt EXCEPT !.pc = "second", !.path = "goal",
                                           !.proposals = IF v = "continue" THEN 1 ELSE 0]
    BY <1>3 DEF v
  <2> HIDE DEF rec
  <2>2. CASE cancel
    BY <1>8, <2>1, <2>2
  <2>3. CASE ~cancel /\ steers > 0
    BY <1>8, <2>1, <2>3
  <2>4. CASE ~cancel /\ ~(steers > 0) /\ v = "done"
    BY <1>9, <2>1, <2>4
  <2>5. CASE ~cancel /\ ~(steers > 0) /\ v # "done"
    <3>1. /\ RecordDecision(rec) /\ (v = "continue" => step < MaxSteps)
          /\ GoalAnswer(rec) = "error" => Finish("failed")
          /\ GoalAnswer(rec) = "conflict" =>
               rt' = [rt EXCEPT !.pc = "second", !.path = "conflict"]
          /\ GoalAnswer(rec) = "recorded" =>
               rt' = [rt EXCEPT !.pc = "second", !.path = "goal",
                                !.proposals = IF v = "continue" THEN 1 ELSE 0]
      BY <2>1, <2>5
    <3>2. CASE GoalAnswer(rec) = "error"
      BY <1>8, <3>1, <3>2, AnswerIs
    <3>3. CASE GoalAnswer(rec) = "conflict"
      BY <1>8, <3>1, <3>3, AnswerIs
    <3>4. CASE GoalAnswer(rec) = "recorded"
      BY <1>10, <2>5, <3>1, <3>4 DEF rec
    <3> QED
      BY <3>2, <3>3, <3>4, AnswerIs
  <2> QED
    BY <2>2, <2>3, <2>4, <2>5

\* Without gates nothing in the journal speaks about the decision.
LEMMA GoalWithoutGatesStep ==
  ASSUME IInv, GoalWithoutGates
  PROVE  IInv'
<1>1. /\ rt.pc = "prepare" /\ gates = 0 /\ rt.cand # NoGoal /\ ext' = ext /\ used' = used
      /\ calls' = calls /\ run' = run /\ step' = step /\ answered' = answered /\ steers' = steers
      /\ gates' = gates /\ cancel' = cancel /\ why' = why
      /\ UNCHANGED <<calls, sessionVars, restVars>>
  BY DEF GoalWithoutGates, At, sessionVars, restVars
<1> DEFINE rec == Decision(rt.cand, "done")
<1>2. rt.cand \in Shown /\ ~rt.recovered /\ rt.cand.version >= 1 /\ NoEntries
  BY <1>1 DEF IInv, Types, Goroutines, GoalAhead
<1>3. rec \in Records /\ rec.version = rt.cand.version /\ rec.verdict = "done" /\ rec.step = step
  BY <1>2, DecisionIs DEF IInv, Verdicts
<1>4. /\ cancel => Finish("canceled") /\ goal' = goal /\ decisions' = decisions
      /\ ~cancel /\ steers > 0 =>
           /\ rt' = [rt EXCEPT !.pc = "second", !.path = "steer"]
           /\ goal' = goal /\ decisions' = decisions
      /\ ~cancel /\ ~(steers > 0) =>
           /\ RecordDecision(rec)
           /\ GoalAnswer(rec) = "error" => Finish("failed")
           /\ GoalAnswer(rec) = "conflict" => Goto("look")
           /\ GoalAnswer(rec) = "recorded" =>
                rt' = [rt EXCEPT !.pc = "second", !.path = "gated"]
  BY DEF GoalWithoutGates
<1> HIDE DEF rec
<1>5. MovedTo(ext') /\ Spends("ok")
  BY <1>1, Stay
<1>6. ASSUME goal' = goal, decisions' = decisions,
             \/ \E out \in {"canceled", "failed"} : Finish(out)
             \/ rt' = [rt EXCEPT !.pc = "second", !.path = "steer"]
             \/ Goto("look")
      PROVE  IInv'
  <2>1. UNCHANGED <<calls, sessionVars, goalVars, restVars>>
    BY <1>1, <1>6 DEF goalVars
  <2>2. CASE \E out \in {"canceled", "failed"} : Finish(out)
    BY <1>1, <1>5, <2>1, <2>2, Ended
  <2>3. CASE rt' = [rt EXCEPT !.pc = "second", !.path = "steer"]
    <3>1. /\ rt' \in Goroutines /\ rt'.pc = "second" /\ rt'.path = "steer" /\ SameChain
          /\ rt'.proposals = rt.proposals
      BY <2>3, SecondIs DEF IInv, Paths
    <3> QED
      BY <1>1, <1>5, <2>1, <3>1, Released
  <2>4. CASE Goto("look")
    <3>1. /\ rt' \in Goroutines /\ rt'.pc = "look" /\ SameChain /\ rt'.proposals = rt.proposals
      BY <2>4, GotoIs DEF IInv, Steps
    <3> QED
      BY <1>1, <1>5, <2>1, <3>1, Released
  <2> QED
    BY <1>6, <2>2, <2>3, <2>4
<1>7. ASSUME RecordDecision(rec), GoalAnswer(rec) = "recorded",
             rt' = [rt EXCEPT !.pc = "second", !.path = "gated"]
      PROVE  IInv'
  <2>1. /\ rt' \in Goroutines /\ rt'.pc = "second" /\ rt'.path = "gated" /\ SameChain
        /\ rt'.proposals = rt.proposals
    BY <1>7, SecondIs DEF IInv, Paths
  <2>2. /\ goal' \in Goals /\ decisions' \in SUBSET Records /\ decisions' = decisions \cup {rec}
        /\ \A d \in decisions' : d.version >= 1 /\ d.version < goal'.version
        /\ goal'.status = "active" => goal'.version >= 1
    BY <1>3, <1>7, RecordIs DEF IInv
  <2>3. Types'
    BY <1>1, <2>1, <2>2 DEF IInv, Types
  <2>4. Journal'
    BY <1>1, <1>5, JournalMoved DEF IInv
  <2>5. ChainAtHand' /\ Good' /\ GateAtHand'
    BY <2>1, OffChain DEF InChain, AtGate
  <2>6. Bounded'
    BY <1>1, <1>2, <2>1 DEF IInv, Bounded, InChain, AtGate, Locked, SameChain
  <2>7. GoalAhead'
    BY <1>1, <1>2, <2>1, <2>2 DEF IInv, GoalAhead, NoEntries
  <2>8. WayOut'
    BY <1>1, <2>1 DEF IInv, WayOut, Leaving
  <2>9. GoalNeedsGates'
    <3>1. \A i \in Invocation : ext[i].goal.version = 0
      BY <1>2, ExtIs DEF IInv, NoEntries, Whole, Absent, NoGoal
    <3>2. \A d \in decisions', i \in Invocation : ~(ext'[i].goal.version = d.version)
      BY <1>1, <2>2, <3>1
    <3> QED
      BY <3>2 DEF GoalNeedsGates
  <2>10. Completed'
    BY <1>1 DEF IInv, WayOut, Completed
  <2> QED
    BY <2>3, <2>4, <2>5, <2>6, <2>7, <2>8, <2>9, <2>10 DEF IInv
<1>8. CASE cancel \/ steers > 0
  BY <1>4, <1>6, <1>8
<1>9. CASE ~cancel /\ ~(steers > 0)
  <2>1. CASE GoalAnswer(rec) \in {"error", "conflict"}
    BY <1>4, <1>6, <1>9, <2>1, AnswerIs
  <2>2. CASE GoalAnswer(rec) = "recorded"
    BY <1>4, <1>7, <1>9, <2>2
  <2> QED
    BY <2>1, <2>2, AnswerIs
<1> QED
  BY <1>8, <1>9

LEMMA HooksStep ==
  ASSUME IInv, Hooks
  PROVE  IInv'
<1>1. /\ rt.pc = "hooks" /\ ext' = ext /\ used' = used /\ gates' = gates /\ decisions' = decisions
      /\ goal' = goal /\ step' = step /\ UNCHANGED <<calls, sessionVars, goalVars, restVars>>
  BY DEF Hooks, At, sessionVars, restVars, goalVars
<1>2. PICK n \in {0, 1} : /\ n = 1 => step < MaxSteps
                          /\ rt' = [rt EXCEPT !.pc = "second", !.proposals = n]
  BY DEF Hooks
<1>3. "second" \in Steps /\ rt \in Goroutines
  BY DEF IInv, Types, Steps
<1>4. /\ rt' \in Goroutines /\ rt'.pc = "second" /\ rt'.path = rt.path /\ rt'.out = rt.out
      /\ rt'.recovered = rt.recovered /\ rt'.proposals = n
  BY <1>2, <1>3 DEF Goroutines
<1>5. /\ Types' /\ Journal' /\ ChainAtHand' /\ Good' /\ GateAtHand' /\ Bounded'
      /\ GoalNeedsGates' /\ Completed' /\ run' = "running"
  BY <1>1, <1>2, <1>4, Stay, LeftChain DEF InChain, AtGate
<1>6. GoalAhead'
  BY <1>1, <1>4 DEF IInv, GoalAhead, NoEntries
<1>7. WayOut'
  BY <1>1, <1>4, <1>5 DEF IInv, WayOut, Leaving, Gated
<1> QED
  BY <1>5, <1>6, <1>7 DEF IInv

LEMMA SecondLookStep ==
  ASSUME IInv, NEW o, SecondLook(o)
  PROVE  IInv'
<1>1. /\ rt.pc = "second" /\ ext' = ext /\ run' = run /\ answered' = answered /\ calls' = calls
      /\ goal' = goal /\ decisions' = decisions /\ gates' = gates /\ cancel' = cancel /\ why' = why
  BY DEF SecondLook, At, goalVars, restVars
<1>2. CASE cancel
  <2>1. Finish("canceled") /\ step' = step /\ steers' = steers /\ used' = used
    BY <1>2 DEF SecondLook
  <2> QED
    BY <1>1, <2>1, Stay, Ended DEF sessionVars, goalVars, restVars
<1>3. CASE ~cancel /\ steers = 0 /\ rt.proposals = 0
  <2>1. Finish("completed") /\ step' = step /\ steers' = steers /\ used' = used
    BY <1>3 DEF SecondLook
  <2>2. /\ rt' \in Goroutines /\ rt'.pc = "finish" /\ rt'.out = "completed" /\ SameChain
        /\ rt'.proposals = rt.proposals /\ rt'.path = rt.path
    BY <2>1, FinishIs DEF IInv, RunEnd
  <2>3. UNCHANGED <<calls, sessionVars, goalVars, restVars>>
    BY <1>1, <2>1 DEF sessionVars, goalVars, restVars
  <2>4. /\ Types' /\ Journal' /\ ChainAtHand' /\ Good' /\ GateAtHand' /\ Bounded'
        /\ GoalNeedsGates' /\ Completed' /\ run' = "running"
    BY <1>1, <2>1, <2>2, <2>3, Stay, LeftChain DEF InChain, AtGate, SameChain
  <2>5. GoalAhead'
    BY <1>1, <2>2 DEF IInv, GoalAhead
  <2>6. WayOut'
    BY <1>1, <2>1, <2>2, <2>4 DEF IInv, WayOut, Leaving, Gated
  <2> QED
    BY <2>4, <2>5, <2>6 DEF IInv
<1>4. CASE ~cancel /\ ~(steers = 0 /\ rt.proposals = 0)
  <2>1. /\ o # "ok" => Trouble
        /\ used' = IF o = "ok" THEN used ELSE Spend
        /\ steers' = IF o = "lost" THEN steers ELSE 0
        /\ step' = IF o = "lost" THEN step ELSE step + 1
        /\ IF o = "ok" THEN rt' = Fresh("model") ELSE Finish("failed")
    BY <1>4 DEF SecondLook
  <2>2. Spends(o)
    BY <2>1, SpendIs DEF IInv
  <2>3. /\ rt' \in Goroutines
        /\ o = "ok" => rt'.pc = "model" /\ rt'.recovered = FALSE /\ rt'.proposals = 0
        /\ o # "ok" => /\ rt'.pc = "finish" /\ rt'.out = "failed"
                       /\ rt'.recovered = rt.recovered
    <3>1. CASE o = "ok"
      <4>1. "model" \in Steps /\ rt' = Fresh("model")
        BY <2>1, <3>1 DEF Steps
      <4> QED
        BY <3>1, <4>1, FreshIs
    <3>2. CASE o # "ok"
      BY <2>1, <3>2, FinishIs DEF IInv, RunEnd, SameChain
    <3> QED
      BY <3>1, <3>2
  <2>4. step' \in Nat \ {0} /\ steers' \in Nat
    BY <2>1 DEF IInv, Types
  <2>5. Types'
    BY <1>1, <2>2, <2>3, <2>4 DEF IInv, Types, Spends
  <2>6. MovedTo(ext')
    BY <1>1, SameMoved DEF IInv
  <2>7. Journal' /\ GoalNeedsGates'
    BY <1>1, <2>2, <2>6, JournalMoved, DecisionsStand DEF IInv, Spends
  <2>8. ChainAtHand' /\ Good' /\ GateAtHand'
    BY <2>3, OffChain DEF InChain, AtGate
  <2>9. Bounded'
    <3>1. rt.proposals \in {0, 1} /\ (rt.proposals = 1 => step < MaxSteps)
      BY <1>1 DEF IInv, Types, Goroutines, Bounded
    <3>2. /\ step \in Nat /\ steers \in Nat /\ MaxSteps \in Nat /\ used.trouble \in Nat
          /\ used.trouble <= MaxTrouble /\ steers <= used.trouble
          /\ step + steers <= MaxSteps + used.trouble
          /\ rt.recovered => step + steers < MaxSteps + used.trouble
      BY CompletionAssumption DEF IInv, Types, Bounded
    <3>3. /\ used'.trouble \in Nat /\ used'.trouble <= MaxTrouble
          /\ used'.trouble = used.trouble + (IF o = "ok" THEN 0 ELSE 1)
      BY <2>2 DEF Spends
    <3>4. /\ steers' <= used'.trouble /\ step' + steers' <= MaxSteps + used'.trouble
          /\ o # "ok" => step' + steers' < MaxSteps + used'.trouble
      BY <1>4, <2>1, <3>1, <3>2, <3>3
    <3>5. rt'.recovered => o # "ok"
      BY <2>3
    <3>6. /\ rt'.pc # "down" /\ rt'.pc \notin InChain /\ rt'.pc \notin Locked
          /\ rt'.proposals = 1 => rt'.pc = "finish"
      BY <2>3 DEF InChain, AtGate, Locked
    <3> QED
      BY <3>3, <3>4, <3>5, <3>6 DEF Bounded
  <2>10. GoalAhead'
    BY <1>1, <2>3 DEF IInv, GoalAhead, NoEntries
  <2>11. WayOut' /\ Completed'
    BY <1>1, <2>3 DEF IInv, WayOut, Leaving, Completed
  <2> QED
    BY <2>5, <2>7, <2>8, <2>9, <2>10, <2>11 DEF IInv
<1> QED
  BY <1>2, <1>3, <1>4

\* The settlements that end the Run.
LEMMA PrepareSettleStep ==
  ASSUME IInv, NEW o, PrepareSettle(o)
  PROVE  IInv'
<1>1. /\ rt.pc = "prepareSettle" /\ Finish("failed")
      /\ UNCHANGED <<calls, sessionVars, goalVars, restVars>>
  BY DEF PrepareSettle, At
<1>2. MovedTo(ext') /\ Spends(o)
  BY <1>1, CanceledMoved, CommitIs DEF IInv, PrepareSettle, CommitIfChanged
<1> QED
  BY <1>1, <1>2, Ended

LEMMA GateFailureStep ==
  ASSUME IInv, NEW o, GateFailure(o)
  PROVE  IInv'
<1>1. /\ rt.pc = "failure" /\ Finish("interrupted")
      /\ UNCHANGED <<calls, sessionVars, goalVars, restVars>>
  BY DEF GateFailure, At
<1>2. MovedTo(ext') /\ Spends(o)
  BY <1>1, FailureMoved, CommitIs DEF IInv, GateFailure
<1> QED
  BY <1>1, <1>2, Ended

LEMMA SettleStep ==
  ASSUME IInv, NEW o, Settle(o)
  PROVE  IInv'
<1>1. /\ rt.pc = "settle" /\ Finish("interrupted")
      /\ UNCHANGED <<calls, sessionVars, goalVars, restVars>>
  BY DEF Settle, At
<1>2. MovedTo(ext') /\ Spends(o)
  BY SettledMoved, CommitIs DEF IInv, Settle, CommitIfChanged
<1> QED
  BY <1>1, <1>2, Ended

LEMMA MismatchStep ==
  ASSUME IInv, NEW o, Mismatch(o)
  PROVE  IInv'
<1>1. /\ rt.pc = "mismatch" /\ Finish("interrupted")
      /\ UNCHANGED <<calls, sessionVars, goalVars, restVars>>
  BY DEF Mismatch, At
<1>2. MovedTo(ext') /\ Spends(o)
  BY SettledMoved, CommitIs DEF IInv, Mismatch, CommitIfChanged
<1> QED
  BY <1>1, <1>2, Ended

LEMMA UnsureStep ==
  ASSUME IInv, NEW o, Unsure(o)
  PROVE  IInv'
<1>1. rt.pc = "unsure" /\ UNCHANGED <<calls, sessionVars, goalVars, restVars>>
  BY DEF Unsure, At
<1>2. MovedTo(ext') /\ Spends(o)
  BY UnknownMoved, CommitIs DEF IInv, Unsure, CommitIfChanged
<1>3. CASE Finish("interrupted")
  BY <1>1, <1>2, <1>3, Ended
<1>4. CASE Goto("settle")
  <2>1. /\ rt' \in Goroutines /\ rt'.pc = "settle" /\ SameChain /\ rt'.proposals = rt.proposals
    BY <1>4, GotoIs DEF IInv, Steps
  <2>2. /\ Types' /\ Journal' /\ ChainAtHand' /\ Good' /\ GateAtHand' /\ Bounded'
        /\ GoalNeedsGates' /\ Completed' /\ run' = "running"
    BY <1>1, <1>2, <2>1, LeftChain DEF InChain, AtGate, SameChain
  <2>3. GoalAhead'
    BY <1>1, <2>1 DEF IInv, GoalAhead, goalVars
  <2>4. WayOut'
    BY <2>1, <2>2 DEF WayOut, Leaving
  <2> QED
    BY <2>2, <2>3, <2>4 DEF IInv
<1> QED
  BY <1>3, <1>4 DEF Unsure

\* The end of the Run is committed, or recovered by the Store.
LEMMA FinishRunStep ==
  ASSUME IInv, NEW o, o \in {"ok", "lost", "kept"}, FinishRun(o)
  PROVE  IInv'
<1> DEFINE out == IF cancel THEN "canceled" ELSE rt.out
           open == o = "lost" /\ Resumable(Unknown)
<1>1. /\ rt.pc = "finish" /\ step' = step /\ answered' = answered /\ goal' = goal
      /\ decisions' = decisions /\ gates' = gates /\ cancel' = cancel /\ calls' = calls
  BY DEF FinishRun, At, goalVars
<1>2. /\ o # "ok" => Trouble
      /\ used' = IF o = "ok" THEN used ELSE Spend
      /\ ext' = IF o = "ok" THEN ext ELSE Unknown
      /\ run' = IF o # "lost" THEN out ELSE IF open THEN "running" ELSE "interrupted"
      /\ steers' = IF open \/ (o # "lost" /\ out = "completed") THEN steers ELSE 0
      /\ why' = IF o = "lost" \/ out # "completed" THEN why
                ELSE IF gates = 0 THEN "ungated" ELSE rt.path
      /\ Goto(IF open THEN "down" ELSE "idle")
  BY DEF FinishRun
<1>3. open => o = "lost"
  OBVIOUS
<1>4. out \in RunEnd /\ (out = "completed" => ~cancel /\ rt.out = "completed")
  BY <1>1 DEF IInv, WayOut, Types, Goroutines, RunEnd
<1> HIDE DEF out, open
<1>5. Spends(o) /\ MovedTo(ext')
  BY <1>2, SpendIs, UnknownMoved, SameMoved DEF IInv
<1>6. /\ rt' \in Goroutines /\ rt'.pc = (IF open THEN "down" ELSE "idle") /\ SameChain
  BY <1>2, GotoIs DEF IInv, Steps
<1>7. Types'
  <2>1. rt.path \in Paths /\ run' \in {"running"} \cup RunEnd
    BY <1>2, <1>4 DEF IInv, Types, Goroutines, RunEnd
  <2>2. why' \in Paths \cup {"ungated"} /\ steers' \in Nat
    BY <1>2, <2>1 DEF IInv, Types
  <2> QED
    BY <1>1, <1>5, <1>6, <2>1, <2>2 DEF IInv, Types, MovedTo, Spends
<1>8. Journal' /\ GoalNeedsGates'
  BY <1>1, <1>5, JournalMoved, DecisionsStand DEF IInv, Spends
<1>9. ChainAtHand' /\ Good' /\ GateAtHand'
  BY <1>6, OffChain DEF InChain, AtGate
<1>10. Bounded'
  <2>1. /\ used.trouble <= MaxTrouble /\ steers <= used.trouble /\ used.trouble \in Nat
        /\ step + steers <= MaxSteps + used.trouble
        /\ rt.recovered => step + steers < MaxSteps + used.trouble
        /\ step \in Nat /\ steers \in Nat /\ MaxSteps \in Nat
    BY CompletionAssumption DEF IInv, Bounded, Types
  <2>2. /\ used'.trouble \in Nat /\ used'.trouble <= MaxTrouble
        /\ used'.trouble = used.trouble + (IF o = "ok" THEN 0 ELSE 1)
    BY <1>5 DEF Spends
  <2>3. steers' \in {0, steers}
    BY <1>2
  <2>4. /\ rt'.pc \in {"down", "idle"} /\ (rt'.pc = "down" => o = "lost")
        /\ rt'.recovered = rt.recovered
    BY <1>3, <1>6 DEF SameChain
  <2>5. /\ steers' <= used'.trouble /\ step' + steers' <= MaxSteps + used'.trouble
        /\ rt'.pc = "down" \/ rt'.recovered => step' + steers' < MaxSteps + used'.trouble
    BY <1>1, <2>1, <2>2, <2>3, <2>4
  <2> QED
    BY <2>2, <2>4, <2>5 DEF Bounded, InChain, AtGate, Locked
<1>11. GoalAhead'
  BY <1>1, <1>6 DEF IInv, GoalAhead
<1>12. WayOut'
  BY <1>6 DEF WayOut, Leaving
<1>13. Completed'
  <2> SUFFICES ASSUME run' = "completed"
               PROVE  why' \in {"ungated", "steer", "conflict", "stale"} \/ Gated'
    BY DEF Completed
  <2>1. o # "lost" /\ out = "completed" /\ why' = IF gates = 0 THEN "ungated" ELSE rt.path
    BY <1>2
  <2>2. Leaving /\ rt.path \in Paths
    BY <1>1, <1>4, <2>1 DEF Leaving, IInv, Types, Goroutines
  <2>3. /\ rt.path # "none"
        /\ rt.path = "goal" => \E d \in decisions : d.step = step
        /\ rt.path = "gated" /\ gates > 0 => Gated
    BY <2>2 DEF IInv, WayOut
  <2>4. CASE gates = 0 \/ rt.path \in {"steer", "conflict", "stale"}
    BY <2>1, <2>4
  <2>5. CASE gates # 0 /\ rt.path \in {"goal", "gated"}
    <3>1. Gated
      BY <2>3, <2>5 DEF Gated, IInv, Types
    <3> QED
      BY <1>1, <1>5, <3>1, GatedStands DEF IInv
  <2> QED
    BY <2>2, <2>3, <2>4, <2>5 DEF Paths
<1> QED
  BY <1>7, <1>8, <1>9, <1>10, <1>11, <1>12, <1>13 DEF IInv

-----------------------------------------------------------------------------
(* The chain of gates.                                                     *)

LEMMA PreparedIs ==
  ASSUME Types
  PROVE  LET p == [Absent EXCEPT !.status = "prepared", !.step = step, !.goal = rt.cand]
         IN  /\ p \in Entry /\ Whole(p) /\ p.status = "prepared" /\ ~Wins(p)
             /\ p.step = step /\ p.goal = rt.cand
<1> DEFINE p == [Absent EXCEPT !.status = "prepared", !.step = step, !.goal = rt.cand]
           a == Absent
<1>1. /\ a \in Entry /\ a.effect = "none" /\ a.context = "none" /\ a.decision = "none"
      /\ p = [a EXCEPT !.status = "prepared", !.step = step, !.goal = rt.cand]
  BY DEF Absent, Entry, Effects, Contexts, Shown, NoGoal
<1>2. rt.cand \in Shown /\ step \in Nat /\ "prepared" \in Statuses
  BY DEF Types, Goroutines, Statuses
<1> HIDE DEF a, p
<1>3. /\ p \in Entry /\ p.status = "prepared" /\ p.step = step /\ p.goal = rt.cand
      /\ p.effect = "none" /\ p.context = "none" /\ p.decision = "none"
  BY <1>1, <1>2 DEF Entry
<1>4. Whole(p)
  BY <1>3, WholeIs DEF ContextShape, TerminalStatuses
<1> QED
  BY <1>3, <1>4 DEF p, Wins

\* The commit of a whole chain under an occurrence of its own.
Prepares(o) ==
  /\ o \in {"ok", "lost", "kept"} /\ used.occs < MaxOccurrences /\ (o # "ok" => Trouble)
  /\ ext' = IF o = "lost" THEN ext
             ELSE [i \in Invocation |->
                     IF i[1] = used.occs + 1 /\ i[2] <= gates
                     THEN [Absent EXCEPT !.status = "prepared", !.step = step, !.goal = rt.cand]
                     ELSE ext[i]]
  /\ used' = [used EXCEPT !.occs = used.occs + 1,
                          !.trouble = IF o = "ok" THEN @ ELSE @ + 1]
  /\ rt' = [rt EXCEPT !.occ = used.occs + 1,
                      !.pc = IF o = "ok" THEN "gate" ELSE "prepareSettle"]

LEMMA ChainPrepared ==
  ASSUME IInv, NEW o, Prepares(o), rt.pc = "prepare", gates > 0,
         UNCHANGED <<calls, sessionVars, goalVars, restVars>>
  PROVE  IInv'
<1> DEFINE k == used.occs + 1
           p == [Absent EXCEPT !.status = "prepared", !.step = step, !.goal = rt.cand]
<1>1. /\ calls' = calls /\ run' = run /\ step' = step /\ answered' = answered /\ steers' = steers
      /\ goal' = goal /\ decisions' = decisions /\ gates' = gates /\ cancel' = cancel /\ why' = why
  BY DEF sessionVars, goalVars, restVars
<1>2. /\ used \in [trouble: Nat, occs: 0..MaxOccurrences] /\ MaxOccurrences \in Nat
      /\ gates \in 1..MaxGates /\ MaxGates \in Nat /\ used.trouble \in Nat
  BY CompletionAssumption DEF IInv, Types
<1>3. k \in 1..MaxOccurrences /\ 1 \in 1..MaxGates
  BY <1>2 DEF Prepares
<1>4. p \in Entry /\ Whole(p) /\ p.status = "prepared" /\ ~Wins(p) /\ p.step = step
      /\ p.goal = rt.cand
  BY PreparedIs DEF IInv
<1>5. \A i \in Invocation : /\ ext[i] \in Entry /\ Whole(ext[i])
                            /\ i[1] = k => ext[i].status = "absent" /\ calls[i] = 0
                            /\ i[1] > k => ext[i].status = "absent"
  <2>1. \A i \in Invocation : i[1] \in Nat /\ (i[1] >= k => i[1] > used.occs)
    BY <1>2, InvocationIs
  <2> QED
    BY <1>2, <2>1, ExtIs DEF IInv, Journal
<1>6. /\ used' \in [trouble: Nat, occs: 0..MaxOccurrences] /\ used'.occs = k
      /\ used'.trouble = used.trouble + (IF o = "ok" THEN 0 ELSE 1)
  <2> DEFINE n == used.trouble + (IF o = "ok" THEN 0 ELSE 1)
  <2>0. n = IF o = "ok" THEN used.trouble ELSE used.trouble + 1
    BY <1>2
  <2> HIDE DEF n
  <2>1. used' = [used EXCEPT !.occs = k, !.trouble = n]
    BY <2>0 DEF Prepares
  <2>2. n \in Nat /\ k \in 0..MaxOccurrences
    BY <1>2, <1>3, <2>0
  <2> HIDE DEF k
  <2>3. used' \in [trouble: Nat, occs: 0..MaxOccurrences] /\ used'.occs = k /\ used'.trouble = n
    BY <1>2, <2>1, <2>2
  <2> QED
    BY <2>3 DEF n
<1>7. used'.trouble <= MaxTrouble /\ used.trouble <= used'.trouble
  BY <1>2, <1>6, CompletionAssumption DEF IInv, Bounded, Trouble, Prepares
<1>8. /\ rt' \in Goroutines /\ rt'.occ = k /\ rt'.idx = 1 /\ rt'.good = {} /\ ~rt'.cont
      /\ ~rt'.recovered /\ rt'.cand = rt.cand /\ rt'.proposals = rt.proposals
      /\ rt'.pc = IF o = "ok" THEN "gate" ELSE "prepareSettle"
  <2>0. /\ rt \in Goroutines /\ rt.idx = 1 /\ rt.good = {} /\ ~rt.cont /\ ~rt.recovered
    BY DEF IInv, Types, GoalAhead
  <2>1. {"gate", "prepareSettle"} \subseteq Steps /\ k \in 0..MaxOccurrences
    BY <1>2, <1>3 DEF Steps
  <2>2. rt' = [rt EXCEPT !.occ = k, !.pc = IF o = "ok" THEN "gate" ELSE "prepareSettle"]
    BY DEF Prepares
  <2> HIDE DEF k
  <2> QED
    BY <2>0, <2>1, <2>2 DEF Goroutines
<1> HIDE DEF p, k
<1>9. \A i \in Invocation :
        ext'[i] = IF o # "lost" /\ i[1] = k /\ i[2] <= gates THEN p ELSE ext[i]
  BY DEF p, k, Prepares
<1>10. ext' \in [Invocation -> Entry]
  <2>1. CASE o = "lost"
    BY <2>1 DEF IInv, Types, Prepares
  <2>2. CASE o # "lost"
    <3>1. ext' = [i \in Invocation |-> IF i[1] = k /\ i[2] <= gates THEN p ELSE ext[i]]
      BY <2>2 DEF p, k, Prepares
    <3> QED
      BY <1>4, <1>5, <3>1
  <2> QED
    BY <2>1, <2>2
<1>11. Types'
  BY <1>1, <1>6, <1>8, <1>10 DEF IInv, Types
<1>12. \A j \in 1..MaxOccurrences, g \in 1..MaxGates :
         /\ ext'[<<j, g>>] = IF o # "lost" /\ j = k /\ g <= gates THEN p ELSE ext[<<j, g>>]
         /\ ext[<<j, g>>] \in Entry /\ (j = k => ext[<<j, g>>].status = "absent")
  BY <1>5, <1>9, InvocationIs
<1>13. Journal'
  <2>1. \A i \in Invocation : Whole(ext'[i])
    BY <1>4, <1>5, <1>9
  <2>2. ASSUME NEW j \in 1..MaxOccurrences, NEW g \in 1..MaxGates, NEW h \in 1..MaxGates, g < h
        PROVE  Ordered(ext'[<<j, g>>], ext'[<<j, h>>])
    <3>1. CASE o = "lost" \/ j # k
      BY <1>12, <2>2, <3>1 DEF IInv, Journal
    <3>2. CASE o # "lost" /\ j = k /\ h <= gates
      <4>1. ext'[<<j, g>>] = p /\ ext'[<<j, h>>] = p
        BY <1>2, <1>12, <2>2, <3>2
      <4> QED
        BY <1>4, <4>1, OrderedWaiting
    <3>3. CASE o # "lost" /\ j = k /\ ~(h <= gates)
      <4>1. /\ ext'[<<j, h>>] \in Entry /\ ext'[<<j, h>>].status = "absent"
            /\ ext'[<<j, g>>] \in Entry
        BY <1>4, <1>12, <3>3
      <4> QED
        BY <4>1, OrderedAbsent
    <3> QED
      BY <3>1, <3>2, <3>3
  <2>3. ASSUME NEW i \in Invocation
        PROVE  /\ calls'[i] <= 1
               /\ ext'[i].status \in {"absent", "prepared"} => calls'[i] = 0
               /\ i[1] > used'.occs => ext'[i].status = "absent"
    <3>1. calls[i] <= 1 /\ (ext[i].status \in {"absent", "prepared"} => calls[i] = 0)
      BY DEF IInv, Journal
    <3>2. i[1] > k => i[1] # k
      BY <1>3, InvocationIs
    <3> QED
      BY <1>1, <1>5, <1>6, <1>9, <3>1, <3>2
  <2> QED
    BY <2>1, <2>2, <2>3 DEF Journal
<1>14. \A g \in 1..MaxGates :
         ext'[<<k, g>>] = IF o # "lost" /\ g <= gates THEN p ELSE ext[<<k, g>>]
  BY <1>3, <1>12
<1>15. o = "ok" => Chain' = 1..gates /\ \A g \in 1..gates : ext'[<<k, g>>] = p
  <2> SUFFICES ASSUME o = "ok" PROVE Chain' = 1..gates /\ \A g \in 1..gates : ext'[<<k, g>>] = p
    OBVIOUS
  <2>1. \A g \in 1..gates : g \in 1..MaxGates /\ ext'[<<k, g>>] = p
    BY <1>2, <1>14
  <2>2. rt'.occ # 0
    BY <1>3, <1>8
  <2>3. ASSUME NEW g \in 1..MaxGates PROVE ext'[<<k, g>>].status # "absent" <=> g \in 1..gates
    BY <1>2, <1>3, <1>4, <1>12, <1>14
  <2>4. Chain' = {g \in 1..MaxGates : ext'[<<k, g>>].status # "absent"}
    BY <1>8, <2>2 DEF Chain, Here
  <2> QED
    BY <2>1, <2>3, <2>4
<1>16. ChainAtHand'
  <2>1. rt'.occ \in 1..used'.occs
    BY <1>2, <1>3, <1>6, <1>8
  <2>2. CASE o = "ok"
    <3>1. /\ gates' > 0 /\ Chain' # {} /\ rt'.good = 1..(rt'.idx - 1) /\ rt'.good \subseteq Chain'
          /\ rt'.idx \in Chain' /\ Here(1)'.step = step' /\ Here(1)'.goal.version = rt'.cand.version
      <4>1. 1 \in 1..gates
        BY <1>2
      <4>2. rt'.good = 1..(rt'.idx - 1)
        BY <1>8
      <4>3. ext'[<<k, 1>>] = p /\ Chain' = 1..gates
        BY <1>15, <2>2, <4>1
      <4> QED
        BY <1>1, <1>4, <1>8, <4>1, <4>2, <4>3 DEF Here
    <3>2. rt'.pc \in AtGate
      BY <1>8, <2>2 DEF AtGate
    <3> QED
      BY <2>1, <3>1, <3>2 DEF ChainAtHand
  <2>3. CASE o # "ok"
    BY <1>8, <2>1, <2>3 DEF ChainAtHand, InChain, AtGate
  <2> QED
    BY <2>2, <2>3
<1>17. Good'
  BY <1>8 DEF Good
<1>18. GateAtHand'
  <2> SUFFICES ASSUME rt'.pc \in AtGate PROVE GateAtHand'
    BY DEF GateAtHand
  <2>1. o = "ok" /\ rt'.pc = "gate"
    BY <1>8 DEF AtGate
  <2>2. rt'.idx \in Chain' /\ \A g \in Chain' : ext'[<<rt'.occ, g>>].status = "prepared"
    BY <1>2, <1>4, <1>8, <1>15, <2>1
  <2> QED
    BY <2>1, <2>2 DEF GateAtHand, TerminalStatuses, Here
<1>19. Bounded'
  <2>1. /\ rt'.proposals = 1 => step < MaxSteps
        /\ steers <= used.trouble /\ step + steers <= MaxSteps + used.trouble
    BY <1>8 DEF IInv, Bounded
  <2>2. step \in Nat /\ steers \in Nat /\ MaxSteps \in Nat /\ used'.trouble \in Nat
    BY <1>6, CompletionAssumption DEF IInv, Types
  <2>3. steers <= used'.trouble /\ step + steers <= MaxSteps + used'.trouble
    BY <1>2, <1>7, <2>1, <2>2
  <2> QED
    BY <1>1, <1>7, <1>8, <2>1, <2>3 DEF Bounded, Locked
<1>20. GoalAhead'
  BY <1>1, <1>8 DEF IInv, GoalAhead
<1>21. WayOut' /\ Completed'
  BY <1>1, <1>8 DEF IInv, WayOut, Leaving, Completed
<1>22. GoalNeedsGates'
  <2> SUFFICES ASSUME NEW d \in decisions, d.verdict = "done"
               PROVE  \/ \A i \in Invocation :
                           ~(ext'[i].step = d.step /\ ext'[i].goal.version = d.version)
                      \/ \E j \in 1..MaxOccurrences :
                           /\ ext'[<<j, 1>>].step = d.step
                           /\ ext'[<<j, 1>>].goal.version = d.version
                           /\ \A g \in 1..MaxGates : ext'[<<j, g>>].status # "absent" =>
                                /\ ext'[<<j, g>>].status = "succeeded"
                                /\ ext'[<<j, g>>].decision = "complete"
    BY <1>1 DEF GoalNeedsGates
  <2>1. p.goal.version # d.version
    <3>1. d.version >= 1 /\ d.version \in Nat
      BY DEF IInv, GoalAhead, Types, Records
    <3>2. CASE rt.cand = NoGoal
      BY <1>4, <3>1, <3>2 DEF NoGoal
    <3>3. CASE rt.cand # NoGoal
      BY <1>4, <3>1, <3>3 DEF IInv, GoalAhead
    <3> QED
      BY <3>2, <3>3
  <2>2. CASE \A i \in Invocation : ~(ext[i].step = d.step /\ ext[i].goal.version = d.version)
    BY <1>9, <2>1, <2>2
  <2>3. ASSUME NEW j \in 1..MaxOccurrences,
               ext[<<j, 1>>].step = d.step, ext[<<j, 1>>].goal.version = d.version,
               \A g \in 1..MaxGates : ext[<<j, g>>].status # "absent" =>
                 ext[<<j, g>>].status = "succeeded" /\ ext[<<j, g>>].decision = "complete"
        PROVE  /\ ext'[<<j, 1>>].step = d.step /\ ext'[<<j, 1>>].goal.version = d.version
               /\ \A g \in 1..MaxGates : ext'[<<j, g>>].status # "absent" =>
                    ext'[<<j, g>>].status = "succeeded" /\ ext'[<<j, g>>].decision = "complete"
    <3>1. j # k
      <4> SUFFICES ASSUME j = k PROVE FALSE
        OBVIOUS
      <4>1. ext[<<j, 1>>].status = "absent" /\ <<j, 1>> \in Invocation
        BY <1>3, <1>12, InvocationIs
      <4>2. ext[<<j, 1>>] = Absent
        BY <1>5, <4>1 DEF Whole
      <4>3. d.version >= 1 /\ d.version \in Nat
        BY DEF IInv, GoalAhead, Types, Records
      <4> QED
        BY <2>3, <4>2, <4>3 DEF Absent, NoGoal
    <3> QED
      BY <1>3, <1>12, <2>3, <3>1
  <2>4. \/ \A i \in Invocation : ~(ext[i].step = d.step /\ ext[i].goal.version = d.version)
        \/ \E j \in 1..MaxOccurrences :
             /\ ext[<<j, 1>>].step = d.step /\ ext[<<j, 1>>].goal.version = d.version
             /\ \A g \in 1..MaxGates : ext[<<j, g>>].status # "absent" =>
                  ext[<<j, g>>].status = "succeeded" /\ ext[<<j, g>>].decision = "complete"
    BY DEF IInv, GoalNeedsGates
  <2> QED
    BY <2>2, <2>3, <2>4
<1> QED
  BY <1>11, <1>13, <1>16, <1>17, <1>18, <1>19, <1>20, <1>21, <1>22 DEF IInv

LEMMA PrepareStep ==
  ASSUME IInv, Prepare
  PROVE  IInv'
<1>1. /\ rt.pc = "prepare" /\ (gates > 0 \/ rt.cand = NoGoal)
      /\ UNCHANGED <<calls, sessionVars, goalVars, restVars>>
  BY DEF Prepare, At
<1>2. /\ gates = 0 => /\ rt' = [rt EXCEPT !.pc = "hooks", !.path = "gated"]
                      /\ ext' = ext /\ used' = used
      /\ gates # 0 /\ cancel => Finish("canceled") /\ ext' = ext /\ used' = used
      /\ gates # 0 /\ ~cancel /\ steers > 0 =>
           rt' = [rt EXCEPT !.pc = "second", !.path = "steer"] /\ ext' = ext /\ used' = used
      /\ gates # 0 /\ ~cancel /\ ~(steers > 0) => \E o : Prepares(o)
  BY DEF Prepare, Prepares
<1>3. CASE gates = 0
  <2>1. /\ rt' = [rt EXCEPT !.pc = "hooks", !.path = "gated"] /\ ext' = ext /\ used' = used
        /\ "hooks" \in Steps /\ "gated" \in Paths /\ rt \in Goroutines
    BY <1>2, <1>3 DEF Steps, Paths, IInv, Types
  <2>2. /\ rt' \in Goroutines /\ rt'.pc = "hooks" /\ rt'.path = "gated"
        /\ rt'.recovered = rt.recovered /\ rt'.proposals = rt.proposals
    BY <2>1 DEF Goroutines
  <2>3. /\ Types' /\ Journal' /\ ChainAtHand' /\ Good' /\ GateAtHand' /\ Bounded'
        /\ GoalNeedsGates' /\ Completed' /\ run' = "running"
    BY <1>1, <2>1, <2>2, Stay, LeftChain DEF InChain, AtGate
  <2>4. GoalAhead'
    BY <1>1, <2>1, <2>2 DEF IInv, GoalAhead, NoEntries, goalVars, restVars
  <2>5. WayOut'
    BY <1>1, <1>3, <2>2, <2>3 DEF WayOut, Leaving, restVars
  <2> QED
    BY <2>3, <2>4, <2>5 DEF IInv
<1>4. CASE gates # 0 /\ cancel
  BY <1>1, <1>2, <1>4, Stay, Ended
<1>5. CASE gates # 0 /\ ~cancel /\ steers > 0
  <2>1. /\ rt' \in Goroutines /\ rt'.pc = "second" /\ rt'.path = "steer" /\ SameChain
        /\ rt'.proposals = rt.proposals
    BY <1>2, <1>5, SecondIs DEF IInv, Paths
  <2> QED
    BY <1>1, <1>2, <1>5, <2>1, Stay, Released
<1>6. CASE gates # 0 /\ ~cancel /\ ~(steers > 0)
  <2>1. gates > 0
    BY <1>6 DEF IInv, Types
  <2> QED
    BY <1>1, <1>2, <1>6, <2>1, ChainPrepared
<1> QED
  BY <1>3, <1>4, <1>5, <1>6

\* A goroutine that stays with its chain.
LEMMA OnChain ==
  ASSUME IInv, MovedTo(ext'), NEW o, Spends(o), rt' \in Goroutines,
         rt.pc \in InChain, rt'.pc \in InChain,
         rt'.occ = rt.occ, rt'.cand = rt.cand, rt'.recovered = rt.recovered,
         rt'.proposals = rt.proposals,
         rt'.cont => rt.cont \/ step < MaxSteps, rt'.pc \in Locked => steers = 0,
         goal' \in Goals, decisions' \in SUBSET Records,
         calls' \in [Invocation -> Nat],
         \A i \in Invocation :
           \/ calls'[i] = calls[i]
           \/ calls'[i] <= 1 /\ ext'[i].status \notin {"absent", "prepared"},
         UNCHANGED <<sessionVars, restVars>>
  PROVE  /\ Types' /\ Journal' /\ Bounded' /\ WayOut' /\ Completed'
         /\ goal' = goal /\ decisions' = decisions => GoalAhead' /\ GoalNeedsGates'
         /\ Chain' = Chain /\ rt.occ \in 1..MaxOccurrences
         /\ \A g \in 1..MaxGates : Moves(Here(g), ext'[<<rt.occ, g>>])
         /\ /\ rt'.good = 1..(rt'.idx - 1) /\ rt'.good \subseteq Chain
            /\ IF rt'.pc \in AtGate THEN rt'.idx \in Chain ELSE Chain = rt'.good
            => ChainAtHand'
<1>1. /\ run' = run /\ step' = step /\ answered' = answered /\ steers' = steers
      /\ gates' = gates /\ cancel' = cancel /\ why' = why
  BY DEF sessionVars, restVars
<1>2. ext' \in [Invocation -> Entry] /\ used' \in [trouble: Nat, occs: 0..MaxOccurrences]
  BY DEF MovedTo, Spends
<1>3. Types'
  BY <1>1, <1>2 DEF IInv, Types
<1>4. Journal'
  BY JournalMoved DEF IInv, Spends
<1>5. rt'.pc \notin {"finish", "idle", "down", "hooks", "second", "evaluate", "prepare", "look",
                     "model"} /\ rt.pc \notin {"finish", "idle", "down"}
  BY DEF InChain, AtGate
<1>6. Bounded'
  <2>1. /\ used.trouble <= used'.trouble /\ used'.trouble <= MaxTrouble
        /\ used.trouble \in Nat /\ used'.trouble \in Nat
    BY DEF IInv, Spends, Types
  <2>2. /\ steers <= used.trouble /\ step + steers <= MaxSteps + used.trouble
        /\ rt.recovered => step + steers < MaxSteps + used.trouble
        /\ rt.cont /\ ~rt.recovered => step < MaxSteps
        /\ rt.proposals = 1 => step < MaxSteps
    BY <1>5 DEF IInv, Bounded
  <2>3. step \in Nat /\ steers \in Nat /\ MaxSteps \in Nat
    BY CompletionAssumption DEF IInv, Types
  <2> QED
    BY <1>1, <1>5, <2>1, <2>2, <2>3 DEF Bounded
<1>7. WayOut' /\ Completed'
  BY <1>1, <1>5 DEF IInv, WayOut, Leaving, Completed
<1>8. goal' = goal /\ decisions' = decisions => GoalAhead' /\ GoalNeedsGates'
  BY <1>5, DecisionsStand DEF IInv, GoalAhead
<1>9. rt.occ \in 1..MaxOccurrences /\ rt.occ \in 1..used.occs /\ 1 \in Chain
  BY ChainFacts DEF IInv
<1>10. \A g \in 1..MaxGates : Moves(Here(g), ext'[<<rt.occ, g>>])
  BY <1>9, MovedFacts DEF IInv, Here
<1>11. Chain' = Chain
  BY <1>10 DEF Chain, Here, Moves
<1>12. ASSUME rt'.good = 1..(rt'.idx - 1), rt'.good \subseteq Chain,
              IF rt'.pc \in AtGate THEN rt'.idx \in Chain ELSE Chain = rt'.good
       PROVE  ChainAtHand'
  <2>1. /\ gates > 0 /\ Chain # {} /\ (~rt.recovered => Here(1).step = step)
        /\ Here(1).goal.version = rt.cand.version
    BY DEF IInv, ChainAtHand
  <2>2. ext'[<<rt.occ, 1>>].step = Here(1).step /\ ext'[<<rt.occ, 1>>].goal = Here(1).goal
    BY <1>9, <1>10 DEF Chain, Moves
  <2>3. rt'.occ \in 1..used'.occs
    BY <1>9 DEF Spends
  <2> QED
    BY <1>1, <1>11, <1>12, <2>1, <2>2, <2>3 DEF ChainAtHand, Here
<1> QED
  BY <1>3, <1>4, <1>6, <1>7, <1>8, <1>9, <1>10, <1>11, <1>12

LEMMA CallsKept ==
  ASSUME IInv, calls' = calls
  PROVE  /\ calls' \in [Invocation -> Nat]
         /\ \A i \in Invocation :
              \/ calls'[i] = calls[i]
              \/ calls'[i] <= 1 /\ ext'[i].status \notin {"absent", "prepared"}
BY DEF IInv, Types

\* The context of the Run, and then the Run and its Queue, do not stop it.
LEMMA GateEnterStep ==
  ASSUME IInv, NEW o, GateEnter(o)
  PROVE  IInv'
<1>1. rt.pc = "gate" /\ UNCHANGED <<calls, sessionVars, goalVars, restVars>>
  BY DEF GateEnter, At
<1>2. CASE cancel
  BY <1>1, <1>2, AbortStep DEF GateEnter
<1>3. CASE ~cancel
  <2>1. Goto("check") /\ ext' = ext /\ used' = used
    BY <1>3 DEF GateEnter
  <2>2. /\ rt' \in Goroutines /\ rt'.pc = "check" /\ SameChain /\ rt'.proposals = rt.proposals
    BY <2>1, GotoIs DEF IInv, Steps
  <2>3. MovedTo(ext') /\ Spends("ok")
    BY <2>1, Stay
  <2>4. /\ rt.pc \in InChain /\ rt'.pc \in InChain /\ rt.pc \in AtGate /\ rt'.pc \in AtGate
        /\ rt'.pc \notin Locked
    BY <1>1, <2>2 DEF InChain, AtGate, Locked
  <2>5. goal' = goal /\ decisions' = decisions /\ goal' \in Goals /\ decisions' \in SUBSET Records
        /\ calls' = calls
    BY <1>1 DEF goalVars, IInv, Types
  <2>6. /\ rt.good = 1..(rt.idx - 1) /\ rt.good \subseteq Chain /\ rt.idx \in Chain
    BY <2>4 DEF IInv, ChainAtHand
  <2>7. /\ Types' /\ Journal' /\ Bounded' /\ WayOut' /\ Completed' /\ GoalAhead'
        /\ GoalNeedsGates' /\ Chain' = Chain /\ ChainAtHand'
    BY <1>1, <2>2, <2>3, <2>4, <2>5, <2>6, CallsKept, OnChain DEF SameChain
  <2>8. Good' /\ GateAtHand'
    BY <1>1, <2>1, <2>2, <2>4, <2>5, <2>7
       DEF IInv, Good, GateAtHand, Outcome, Here, SameChain
  <2> QED
    BY <2>7, <2>8 DEF IInv
<1> QED
  BY <1>2, <1>3

LEMMA GateSupersededStep ==
  ASSUME IInv, NEW o, GateSuperseded(o)
  PROVE  IInv'
<1>1. rt.pc = "check" /\ UNCHANGED <<calls, sessionVars, goalVars, restVars>>
  BY DEF GateSuperseded, At
<1>2. CASE cancel
  <2>1. Finish("canceled") /\ ext' = ext /\ used' = used
    BY <1>2 DEF GateSuperseded
  <2> QED
    BY <1>1, <2>1, Stay, Ended
<1>3. CASE ~cancel
  <2>1. Abort(rt.idx, o)
    BY <1>3 DEF GateSuperseded
  <2> QED
    BY <1>1, <2>1, AbortStep
<1> QED
  BY <1>2, <1>3

LEMMA GateNotRestoredStep ==
  ASSUME IInv, GateNotRestored
  PROVE  IInv'
<1>1. /\ rt.pc = "check" /\ Here(rt.idx).status \in TerminalStatuses \ {"succeeded"}
      /\ Goto("failure") /\ ext' = ext /\ used' = used
      /\ UNCHANGED <<calls, sessionVars, goalVars, restVars>>
  BY DEF GateNotRestored, Proceeds, At
<1>2. /\ rt' \in Goroutines /\ rt'.pc = "failure" /\ SameChain /\ rt'.proposals = rt.proposals
  BY <1>1, GotoIs DEF IInv, Steps
<1>3. MovedTo(ext') /\ Spends("ok")
  BY <1>1, Stay
<1>4. /\ rt.pc \in InChain /\ rt'.pc \in InChain /\ rt.pc \in AtGate /\ rt'.pc \in AtGate
      /\ rt'.pc \notin Locked
  BY <1>1, <1>2 DEF InChain, AtGate, Locked
<1>5. goal' = goal /\ decisions' = decisions /\ goal' \in Goals /\ decisions' \in SUBSET Records
      /\ calls' = calls
  BY <1>1 DEF goalVars, IInv, Types
<1>6. /\ rt.good = 1..(rt.idx - 1) /\ rt.good \subseteq Chain /\ rt.idx \in Chain
  BY <1>4 DEF IInv, ChainAtHand
<1>7. /\ Types' /\ Journal' /\ Bounded' /\ WayOut' /\ Completed' /\ GoalAhead'
      /\ GoalNeedsGates' /\ Chain' = Chain /\ ChainAtHand'
  BY <1>1, <1>2, <1>3, <1>4, <1>5, <1>6, CallsKept, OnChain DEF SameChain
<1>8. Good' /\ GateAtHand'
  BY <1>1, <1>2, <1>4, <1>5, <1>7 DEF IInv, Good, GateAtHand, Outcome, Here, SameChain
<1> QED
  BY <1>7, <1>8 DEF IInv

\* One more gate counts; the next one is at hand, or the chain is complete.
LEMMA NextIs ==
  ASSUME IInv, rt.pc \in AtGate, NEW r \in Goroutines, r.good = rt.good
  PROVE  LET n == NextGate(r, rt.idx)
         IN  /\ n \in Goroutines /\ n.idx = rt.idx + 1 /\ n.good = rt.good \cup {rt.idx}
             /\ n.good = 1..(n.idx - 1) /\ n.good \subseteq Chain
             /\ n.pc \in {"gate", "finalize"} /\ rt.idx \in 1..MaxGates
             /\ n.pc \in InChain /\ n.pc \notin Locked
             /\ IF n.pc \in AtGate THEN n.idx \in Chain ELSE Chain = n.good
             /\ n.occ = r.occ /\ n.cont = r.cont /\ n.cand = r.cand /\ n.hand = r.hand
             /\ n.recovered = r.recovered /\ n.proposals = r.proposals
<1> DEFINE n == NextGate(r, rt.idx)
           p == IF rt.idx + 1 \in Chain THEN "gate" ELSE "finalize"
           j == rt.idx + 1
           s == rt.good \cup {rt.idx}
<1>1. rt.pc \in InChain /\ MaxGates \in Nat
  BY CompletionAssumption DEF InChain
<1>2. /\ rt.idx \in Chain /\ Chain \subseteq 1..MaxGates /\ rt.good = 1..(rt.idx - 1)
      /\ rt.good \subseteq Chain
      /\ \A g \in Chain, h \in 1..MaxGates : h < g => h \in Chain
  BY <1>1, ChainFacts DEF IInv, ChainAtHand
<1>3. /\ s = 1..rt.idx /\ s \subseteq Chain /\ s \in SUBSET (1..MaxGates)
      /\ j \in 1..(MaxGates + 1) /\ s = 1..(j - 1)
  <2>1. rt.idx \in 1..MaxGates
    BY <1>2
  <2>2. s = 1..rt.idx /\ j - 1 = rt.idx
    <3> DEFINE m == rt.idx
    <3>1. m \in Nat \ {0} /\ rt.good = 1..(m - 1)
      BY <1>1, <1>2, <2>1
    <3> HIDE DEF m
    <3>2. (1..(m - 1)) \cup {m} = 1..m /\ (m + 1) - 1 = m
      BY <3>1
    <3> QED
      BY <3>1, <3>2 DEF m
  <2>3. s \subseteq Chain
    BY <1>2, <2>1, <2>2
  <2> QED
    BY <1>1, <1>2, <2>1, <2>2, <2>3
<1>4. p \in Steps /\ (p = "gate" <=> j \in Chain) /\ p \in {"gate", "finalize"}
  <2>1. "gate" \in Steps /\ "finalize" \in Steps
    BY DEF Steps
  <2>2. CASE j \in Chain
    BY <2>1, <2>2
  <2>3. CASE j \notin Chain
    BY <2>1, <2>3
  <2> QED
    BY <2>2, <2>3
<1>5. n = [r EXCEPT !.good = s, !.idx = j, !.pc = p]
  BY DEF NextGate
<1>6. p = "finalize" => Chain = s
  <2> SUFFICES ASSUME p = "finalize", NEW g \in Chain PROVE g \in s
    BY <1>3
  <2>1. g \in 1..MaxGates /\ rt.idx \in 1..MaxGates /\ j \notin Chain
    BY <1>2, <1>4
  <2>2. g > rt.idx => j \in Chain
    <3> SUFFICES ASSUME g > rt.idx PROVE j \in Chain
      OBVIOUS
    <3>1. j \in 1..MaxGates /\ (j < g \/ j = g)
      BY <1>1, <2>1
    <3> QED
      BY <1>2, <3>1
  <2> QED
    BY <1>3, <2>1, <2>2
<1>7. rt.idx \in 1..MaxGates
  BY <1>2
<1> HIDE DEF p, j, s, n
<1>8. /\ n \in Goroutines /\ n.good = s /\ n.idx = j /\ n.pc = p
      /\ n.occ = r.occ /\ n.cont = r.cont /\ n.cand = r.cand /\ n.hand = r.hand
      /\ n.recovered = r.recovered /\ n.proposals = r.proposals
  BY <1>3, <1>4, <1>5 DEF Goroutines
<1>9. /\ n.pc \in InChain /\ n.pc \notin Locked /\ (n.pc \in AtGate <=> p = "gate")
  BY <1>4, <1>8 DEF InChain, AtGate, Locked
<1> QED
  BY <1>3, <1>4, <1>6, <1>7, <1>8, <1>9 DEF s, j, n

LEMMA GateRestoredStep ==
  ASSUME IInv, GateRestored
  PROVE  IInv'
<1>1. /\ rt.pc = "check" /\ Here(rt.idx).status = "succeeded" /\ rt' = NextGate(rt, rt.idx)
      /\ ext' = ext /\ used' = used /\ UNCHANGED <<calls, sessionVars, goalVars, restVars>>
  BY DEF GateRestored, Proceeds, At
<1>2. rt.pc \in InChain /\ rt.pc \in AtGate
  BY <1>1 DEF InChain, AtGate
<1>3. /\ rt' \in Goroutines /\ rt'.idx = rt.idx + 1 /\ rt'.good = rt.good \cup {rt.idx}
      /\ rt'.good = 1..(rt'.idx - 1) /\ rt'.good \subseteq Chain
      /\ rt'.pc \in {"gate", "finalize"} /\ rt.idx \in 1..MaxGates
      /\ rt'.pc \in InChain /\ rt'.pc \notin Locked
      /\ IF rt'.pc \in AtGate THEN rt'.idx \in Chain ELSE Chain = rt'.good
      /\ rt'.occ = rt.occ /\ rt'.cont = rt.cont /\ rt'.cand = rt.cand /\ rt'.hand = rt.hand
      /\ rt'.recovered = rt.recovered /\ rt'.proposals = rt.proposals
  BY <1>1, <1>2, NextIs DEF IInv, Types
<1>4. MovedTo(ext') /\ Spends("ok")
  BY <1>1, Stay
<1>5. goal' = goal /\ decisions' = decisions /\ goal' \in Goals /\ decisions' \in SUBSET Records
      /\ calls' = calls
  BY <1>1 DEF goalVars, IInv, Types
<1>6. /\ Types' /\ Journal' /\ Bounded' /\ WayOut' /\ Completed' /\ GoalAhead'
      /\ GoalNeedsGates' /\ Chain' = Chain /\ ChainAtHand'
  BY <1>1, <1>2, <1>3, <1>4, <1>5, CallsKept, OnChain
<1>7. /\ rt.idx \in Chain /\ rt.good \subseteq Chain
      /\ \A g \in Chain : g \in 1..MaxGates /\ Here(g) \in Entry /\ Whole(Here(g))
  BY <1>2, ChainFacts DEF IInv, ChainAtHand
<1>8. /\ \A g \in Chain : Here(g).status = "succeeded" =>
           Here(g).effect = "pending" /\ (Here(g).decision = "continue" => rt.cont)
      /\ \A g \in Chain : g > rt.idx => Here(g).status # "pending"
  BY <1>1, <1>2 DEF IInv, GateAtHand
<1>9. \A g \in rt.good : Here(g).status = "succeeded"
  BY <1>1, <1>2 DEF IInv, Good
<1>10. Good'
  <2> SUFFICES ASSUME NEW g \in rt'.good
               PROVE  /\ Here(g).status = "succeeded" /\ Here(g).effect = "pending"
                      /\ Here(g).decision = "continue" => rt.cont
                      /\ Whole(Here(g))
    BY <1>1, <1>3 DEF Good, Outcome, Here
  <2> QED
    BY <1>1, <1>3, <1>7, <1>8, <1>9
<1>11. GateAtHand'
  <2>1. rt'.pc = "finalize" => rt'.pc \notin AtGate
    BY DEF AtGate
  <2>2. CASE rt'.pc = "gate"
    <3>1. rt'.idx \in Chain /\ rt'.idx > rt.idx
      BY <1>3, <2>2 DEF AtGate
    <3>2. \A g \in Chain : g > rt'.idx => g > rt.idx
      BY <1>3, <1>7, <3>1
    <3>3. Here(rt'.idx).status # "pending" /\ \A g \in Chain : g > rt'.idx => Here(g).status # "pending"
      BY <1>8, <3>1, <3>2
    <3> QED
      BY <1>1, <1>3, <1>6, <1>8, <2>2, <3>3 DEF GateAtHand, Here
  <2> QED
    BY <1>3, <2>1, <2>2 DEF GateAtHand
<1> QED
  BY <1>6, <1>10, <1>11 DEF IInv

\* A commit of the chain failed and its owner does not know what is durable.
LEMMA Unknowing ==
  ASSUME IInv, MovedTo(ext'), NEW o, Spends(o), rt' \in Goroutines, rt.pc \in InChain,
         rt'.pc = "unsure", rt'.recovered = rt.recovered, rt'.proposals = rt.proposals,
         UNCHANGED <<calls, sessionVars, goalVars, restVars>>
  PROVE  IInv'
<1>1. rt.pc \notin {"idle", "down", "finish"}
  BY DEF InChain, AtGate
<1>2. /\ Types' /\ Journal' /\ ChainAtHand' /\ Good' /\ GateAtHand' /\ Bounded'
      /\ GoalNeedsGates' /\ Completed' /\ run' = "running"
  BY <1>1, LeftChain DEF InChain, AtGate
<1>3. GoalAhead'
  BY <1>1 DEF IInv, GoalAhead, goalVars
<1>4. WayOut'
  BY <1>2 DEF WayOut, Leaving
<1> QED
  BY <1>2, <1>3, <1>4 DEF IInv

\* Gates whose success is durable count.
LEMMA SuccessIsGood ==
  ASSUME rt'.occ = rt.occ,
         \A g \in rt'.good :
           LET e == ext'[<<rt.occ, g>>]
           IN  /\ e.status = "succeeded" /\ e.effect = "pending" /\ Whole(e)
               /\ e.decision = "continue" => rt'.cont
  PROVE  Good'
<1> SUFFICES ASSUME NEW g \in rt'.good
             PROVE  LET e == ext'[<<rt'.occ, g>>]
                        c == IF g \in rt'.good /\ e.status = "pending" THEN rt'.hand ELSE e
                    IN  /\ e.status = "succeeded" /\ c.status = "succeeded"
                        /\ c.decision = "continue" => rt'.cont
                        /\ Whole(c) /\ c.step = e.step /\ c.goal = e.goal
                        /\ c.effect = "pending"
  BY DEF Good, Outcome, Here
<1> QED
  OBVIOUS

\* The gate is pending before it is entered, and is entered for the first time.
LEMMA GateStartStep ==
  ASSUME IInv, NEW o, GateStart(o)
  PROVE  IInv'
<1> DEFINE x == Rewrite([g \in {rt.idx} |-> StartEntry(Here(g))])
<1>1. /\ rt.pc = "check" /\ MayStart(Here(rt.idx)) /\ CommitIfChanged(x, o)
      /\ IF o = "ok"
         THEN Goto("run") /\ calls' = [calls EXCEPT ![<<rt.occ, rt.idx>>] = @ + 1]
         ELSE Goto("unsure") /\ UNCHANGED calls
      /\ UNCHANGED <<sessionVars, goalVars, restVars>>
  BY DEF GateStart, Proceeds, At
<1>2. /\ MovedTo(x)
      /\ \A g \in 1..MaxGates : g # rt.idx => x[<<rt.occ, g>>] = Here(g)
      /\ x[<<rt.occ, rt.idx>>].status = "pending"
      /\ \A g \in Chain : g > rt.idx => Here(g).status = "prepared"
  BY <1>1, StartMoved DEF IInv
<1> HIDE DEF x
<1>3. MovedTo(ext') /\ Spends(o) /\ (o = "ok" => ext' = x)
  BY <1>1, <1>2, CommitIs DEF IInv, CommitIfChanged, Commit
<1>4. rt.pc \in InChain /\ rt.pc \in AtGate
  BY <1>1 DEF InChain, AtGate
<1>5. CASE o # "ok"
  <2>1. /\ rt' \in Goroutines /\ rt'.pc = "unsure" /\ SameChain /\ rt'.proposals = rt.proposals
    BY <1>1, <1>5, GotoIs DEF IInv, Steps
  <2>2. UNCHANGED <<calls, sessionVars, goalVars, restVars>>
    BY <1>1, <1>5
  <2> QED
    BY <1>3, <1>4, <2>1, <2>2, Unknowing DEF SameChain
<1>6. CASE o = "ok"
  <2>1. /\ rt' \in Goroutines /\ rt'.pc = "run" /\ SameChain /\ rt'.proposals = rt.proposals
    BY <1>1, <1>6, GotoIs DEF IInv, Steps
  <2>2. /\ rt'.pc \in InChain /\ rt'.pc \in AtGate /\ rt'.pc \notin Locked
    BY <2>1 DEF InChain, AtGate, Locked
  <2>3. goal' = goal /\ decisions' = decisions /\ goal' \in Goals /\ decisions' \in SUBSET Records
        /\ UNCHANGED <<sessionVars, restVars>>
    BY <1>1 DEF goalVars, IInv, Types
  <2>4. /\ rt.good = 1..(rt.idx - 1) /\ rt.good \subseteq Chain /\ rt.idx \in Chain
        /\ rt.idx \in 1..MaxGates /\ Chain \subseteq 1..MaxGates
        /\ rt.occ \in 1..MaxOccurrences /\ <<rt.occ, rt.idx>> \in Invocation
    BY <1>4, ChainFacts DEF IInv, ChainAtHand, Invocation
  <2>5. calls[<<rt.occ, rt.idx>>] = 0 /\ calls \in [Invocation -> Nat]
    BY <1>1, <2>4 DEF IInv, GateAtHand, Journal, Types, MayStart, Here, AtGate
  <2>6. calls' = [calls EXCEPT ![<<rt.occ, rt.idx>>] = @ + 1]
    BY <1>1, <1>6
  <2>7. /\ calls' \in [Invocation -> Nat] /\ calls'[<<rt.occ, rt.idx>>] = 1
        /\ \A i \in Invocation : i # <<rt.occ, rt.idx>> => calls'[i] = calls[i]
    BY <2>4, <2>5, <2>6
  <2>8. ext'[<<rt.occ, rt.idx>>].status = "pending"
    BY <1>2, <1>3, <1>6
  <2>9. \A i \in Invocation :
          \/ calls'[i] = calls[i]
          \/ calls'[i] <= 1 /\ ext'[i].status \notin {"absent", "prepared"}
    BY <2>7, <2>8
  <2>10. /\ Types' /\ Journal' /\ Bounded' /\ WayOut' /\ Completed' /\ GoalAhead'
         /\ GoalNeedsGates' /\ Chain' = Chain /\ ChainAtHand'
    BY <1>3, <1>4, <2>1, <2>2, <2>3, <2>4, <2>7, <2>9, OnChain DEF SameChain
  <2>11. \A g \in Chain : g # rt.idx => ext'[<<rt.occ, g>>] = Here(g)
    BY <1>2, <1>3, <1>6, <2>4
  <2>12. Good'
    <3> SUFFICES ASSUME NEW g \in rt.good
                 PROVE  LET e == ext'[<<rt.occ, g>>]
                        IN  /\ e.status = "succeeded" /\ e.effect = "pending" /\ Whole(e)
                            /\ e.decision = "continue" => rt.cont
      BY <2>1, SuccessIsGood DEF SameChain
    <3>1. g \in Chain /\ g \in 1..MaxGates /\ g # rt.idx
      BY <2>4
    <3>2. Here(g).status = "succeeded" /\ Whole(Here(g))
      BY <1>1, <1>4, <3>1, ChainFacts DEF IInv, Good
    <3>3. Here(g).effect = "pending" /\ (Here(g).decision = "continue" => rt.cont)
      BY <1>4, <3>1, <3>2 DEF IInv, GateAtHand
    <3> QED
      BY <2>11, <3>1, <3>2, <3>3
  <2>13. GateAtHand'
    <3>1. \A g \in Chain : Here(g).status = "succeeded" =>
             Here(g).effect = "pending" /\ (Here(g).decision = "continue" => rt.cont)
      BY <1>4 DEF IInv, GateAtHand
    <3>2. \A g \in Chain : ext'[<<rt.occ, g>>].status = "succeeded" =>
             /\ ext'[<<rt.occ, g>>].effect = "pending"
             /\ ext'[<<rt.occ, g>>].decision = "continue" => rt.cont
      BY <2>8, <2>11, <3>1
    <3>3. \A g \in Chain : g > rt.idx => ext'[<<rt.occ, g>>].status = "prepared"
      BY <1>2, <2>4, <2>11
    <3> QED
      BY <2>1, <2>8, <2>10, <3>2, <3>3 DEF GateAtHand, Here, SameChain
  <2> QED
    BY <2>10, <2>12, <2>13 DEF IInv
<1> QED
  BY <1>5, <1>6

\* The goroutine after an answer that may ask for another step.
Hearing(more) == [rt EXCEPT !.cont = @ \/ more]

LEMMA HearingIs ==
  ASSUME Types, NEW more \in BOOLEAN
  PROVE  LET now == Hearing(more)
         IN  /\ now \in Goroutines /\ now.occ = rt.occ /\ now.idx = rt.idx /\ now.good = rt.good
             /\ now.cont \in BOOLEAN /\ (now.cont <=> rt.cont \/ more) /\ now.cand = rt.cand
             /\ now.recovered = rt.recovered /\ now.proposals = rt.proposals
<1> DEFINE c == rt.cont \/ more
<1>1. rt \in Goroutines /\ c \in BOOLEAN /\ (c <=> rt.cont \/ more)
  BY DEF Types
<1>2. Hearing(more) = [rt EXCEPT !.cont = c]
  BY DEF Hearing
<1> HIDE DEF c
<1> QED
  BY <1>1, <1>2 DEF Goroutines

\* The outcomes before the gate that is running.
LEMMA Before ==
  ASSUME IInv, rt.pc = "run"
  PROVE  /\ rt.idx \in Chain /\ rt.idx \in 1..MaxGates /\ Chain \subseteq 1..MaxGates
         /\ rt.occ \in 1..MaxOccurrences /\ rt.good = 1..(rt.idx - 1) /\ rt.good \subseteq Chain
         /\ Here(rt.idx) \in Entry /\ Whole(Here(rt.idx)) /\ Here(rt.idx).status = "pending"
         /\ \A g \in rt.good :
              /\ g < rt.idx /\ Here(g).status = "succeeded" /\ Here(g).effect = "pending"
              /\ Here(g).decision = "continue" => rt.cont
              /\ Whole(Here(g))
<1>1. rt.pc \in InChain /\ rt.pc \in AtGate
  BY DEF InChain, AtGate
<1>2. /\ rt.idx \in Chain /\ rt.idx \in 1..MaxGates /\ Chain \subseteq 1..MaxGates
      /\ rt.occ \in 1..MaxOccurrences /\ rt.good = 1..(rt.idx - 1) /\ rt.good \subseteq Chain
      /\ \A g \in 1..MaxGates : Here(g) \in Entry /\ Whole(Here(g))
  BY <1>1, ChainFacts DEF IInv, ChainAtHand
<1>3. Here(rt.idx).status = "pending"
  BY <1>1 DEF IInv, GateAtHand
<1>4. ASSUME NEW g \in rt.good
      PROVE  /\ g < rt.idx /\ Here(g).status = "succeeded" /\ Here(g).effect = "pending"
             /\ Here(g).decision = "continue" => rt.cont
             /\ Whole(Here(g))
  <2>1. g \in Chain /\ g < rt.idx
    BY <1>2
  <2>2. Here(g).status = "succeeded" /\ Whole(Here(g))
    BY <1>1, <1>2, <2>1 DEF IInv, Good
  <2>3. Here(g).effect = "pending" /\ (Here(g).decision = "continue" => rt.cont)
    BY <1>1, <2>1, <2>2 DEF IInv, GateAtHand
  <2> QED
    BY <2>1, <2>2, <2>3
<1> QED
  BY <1>2, <1>3, <1>4

\* The outcome of the last gate is kept in memory.
LEMMA OutcomeKept ==
  ASSUME IInv, rt.pc = "run", NEW e, Moves(Here(rt.idx), e), e.status = "succeeded",
         e.effect = "pending", NEW more \in BOOLEAN, e.decision = "continue" => more,
         more => step < MaxSteps, rt.idx + 1 \notin Chain, rt.cand = NoGoal,
         rt' = [NextGate(Hearing(more), rt.idx) EXCEPT !.hand = e],
         ext' = ext, used' = used, UNCHANGED <<calls, sessionVars, goalVars, restVars>>
  PROVE  IInv'
<1> DEFINE n == NextGate(Hearing(more), rt.idx)
<1>1. rt.pc \in InChain /\ rt.pc \in AtGate
  BY DEF InChain, AtGate
<1>2. /\ n \in Goroutines /\ n.idx = rt.idx + 1 /\ n.good = rt.good \cup {rt.idx}
      /\ n.good = 1..(n.idx - 1) /\ n.good \subseteq Chain
      /\ n.pc \in {"gate", "finalize"} /\ (n.pc \in AtGate => n.idx \in Chain)
      /\ (n.pc \notin AtGate => Chain = n.good)
      /\ n.occ = rt.occ /\ n.cont \in BOOLEAN /\ (n.cont <=> rt.cont \/ more)
      /\ n.cand = rt.cand /\ n.recovered = rt.recovered /\ n.proposals = rt.proposals
  BY <1>1, HearingIs, NextIs DEF IInv
<1>3. e \in Entry /\ rt' = [n EXCEPT !.hand = e]
  BY DEF Moves
<1> HIDE DEF n
<1>4. /\ rt' \in Goroutines /\ rt'.idx = n.idx /\ rt'.good = n.good /\ rt'.pc = n.pc
      /\ rt'.occ = n.occ /\ rt'.cont = n.cont /\ rt'.cand = n.cand
      /\ rt'.recovered = n.recovered /\ rt'.proposals = n.proposals /\ rt'.hand = e
  BY <1>2, <1>3 DEF Goroutines
<1>5. rt'.pc = "finalize" /\ rt'.pc \notin AtGate /\ rt'.pc \in InChain /\ rt'.pc \notin Locked
  BY <1>2, <1>4 DEF AtGate, InChain, Locked
<1>6. MovedTo(ext') /\ Spends("ok")
  BY Stay
<1>7. goal' = goal /\ decisions' = decisions /\ goal' \in Goals /\ decisions' \in SUBSET Records
      /\ calls' = calls /\ UNCHANGED <<sessionVars, restVars>>
  BY DEF goalVars, IInv, Types
<1>8. /\ Types' /\ Journal' /\ Bounded' /\ WayOut' /\ Completed' /\ GoalAhead'
      /\ GoalNeedsGates' /\ ChainAtHand'
  BY <1>1, <1>2, <1>4, <1>5, <1>6, <1>7, CallsKept, OnChain
<1>9. /\ Whole(e) /\ e.step = Here(rt.idx).step /\ e.goal = Here(rt.idx).goal
  BY DEF Moves
<1>10. Good'
  <2> SUFFICES ASSUME NEW g \in rt'.good
               PROVE  LET c == IF g \in rt'.good /\ Here(g).status = "pending" THEN rt'.hand
                               ELSE Here(g)
                      IN  /\ Here(g).status \in {"succeeded", "pending"}
                          /\ c.status = "succeeded"
                          /\ c.decision = "continue" => rt'.cont
                          /\ Whole(c) /\ c.step = Here(g).step /\ c.goal = Here(g).goal
                          /\ c.effect = "pending"
    BY <1>2, <1>4, <1>5 DEF Good, Outcome, Here
  <2>1. CASE g = rt.idx
    BY <1>2, <1>4, <1>9, <2>1, Before
  <2>2. CASE g \in rt.good
    BY <1>2, <1>4, <2>2, Before
  <2> QED
    BY <1>2, <1>4, <2>1, <2>2
<1>11. GateAtHand'
  BY <1>5 DEF GateAtHand
<1> QED
  BY <1>8, <1>10, <1>11 DEF IInv

LEMMA OutcomeCommitted ==
  ASSUME IInv, rt.pc = "run", NEW e, Moves(Here(rt.idx), e), e.status \in TerminalStatuses,
         e.effect = "pending", NEW more \in BOOLEAN, e.decision = "continue" => more,
         more => step < MaxSteps, NEW next, NEW o,
         next = IF e.status = "succeeded" /\ rt.idx + 1 \in Chain THEN {rt.idx + 1} ELSE {},
         Commit(Answered(e, next), o),
         rt' = IF o # "ok" THEN [Hearing(more) EXCEPT !.pc = "unsure"]
               ELSE IF e.status = "succeeded" THEN NextGate(Hearing(more), rt.idx)
               ELSE [Hearing(more) EXCEPT !.pc = "failure"],
         UNCHANGED <<calls, sessionVars, goalVars, restVars>>
  PROVE  IInv'
<1> DEFINE x == Answered(e, next)
           now == Hearing(more)
           n == NextGate(now, rt.idx)
<1>1. rt.pc \in InChain /\ rt.pc \in AtGate
  BY DEF InChain, AtGate
<1>2. next \in {{}, {rt.idx + 1}} /\ next \subseteq Chain
  OBVIOUS
<1>3. /\ MovedTo(x)
      /\ \A g \in 1..MaxGates :
           x[<<rt.occ, g>>] = IF g = rt.idx THEN e
                              ELSE IF g \in next THEN StartEntry(Here(g)) ELSE Here(g)
      /\ \A g \in next : x[<<rt.occ, g>>].status = "pending"
      /\ \A g \in Chain : g > rt.idx => Here(g).status = "prepared"
  BY <1>2, ReturnMoved DEF IInv
<1>4. MovedTo(ext') /\ Spends(o) /\ (o = "ok" => ext' = x)
  BY <1>3, CommitIs DEF IInv
<1>5. /\ now \in Goroutines /\ now.occ = rt.occ /\ now.idx = rt.idx /\ now.good = rt.good
      /\ now.cont \in BOOLEAN /\ (now.cont <=> rt.cont \/ more) /\ now.cand = rt.cand
      /\ now.recovered = rt.recovered /\ now.proposals = rt.proposals
  BY HearingIs DEF IInv
<1> HIDE DEF x, now
<1>6. CASE o # "ok"
  <2>1. rt' = [now EXCEPT !.pc = "unsure"] /\ "unsure" \in Steps
    BY <1>6 DEF Steps, now
  <2>2. /\ rt' \in Goroutines /\ rt'.pc = "unsure" /\ rt'.recovered = rt.recovered
        /\ rt'.proposals = rt.proposals
    BY <1>5, <2>1 DEF Goroutines
  <2> QED
    BY <1>1, <1>4, <2>2, Unknowing
<1>7. goal' = goal /\ decisions' = decisions /\ goal' \in Goals /\ decisions' \in SUBSET Records
      /\ calls' = calls /\ UNCHANGED <<sessionVars, restVars>>
  BY DEF goalVars, IInv, Types
<1>8. CASE o = "ok" /\ e.status = "succeeded"
  <2>1. /\ n \in Goroutines /\ n.idx = rt.idx + 1 /\ n.good = rt.good \cup {rt.idx}
        /\ n.good = 1..(n.idx - 1) /\ n.good \subseteq Chain
        /\ n.pc \in {"gate", "finalize"} /\ n.pc \in InChain /\ n.pc \notin Locked
        /\ (n.pc \in AtGate => n.idx \in Chain) /\ (n.pc \notin AtGate => Chain = n.good)
        /\ n.occ = rt.occ /\ n.cont \in BOOLEAN /\ (n.cont <=> rt.cont \/ more)
        /\ n.cand = rt.cand /\ n.recovered = rt.recovered /\ n.proposals = rt.proposals
    BY <1>1, <1>5, NextIs
  <2>2. rt' = n /\ ext' = x
    BY <1>4, <1>8 DEF now
  <2> HIDE DEF n
  <2>3. /\ Types' /\ Journal' /\ Bounded' /\ WayOut' /\ Completed' /\ GoalAhead'
        /\ GoalNeedsGates' /\ Chain' = Chain /\ ChainAtHand'
    BY <1>1, <1>4, <1>7, <2>1, <2>2, CallsKept, OnChain
  <2>4. Good'
    <3> SUFFICES ASSUME NEW g \in rt'.good
                 PROVE  LET f == ext'[<<rt.occ, g>>]
                        IN  /\ f.status = "succeeded" /\ f.effect = "pending" /\ Whole(f)
                            /\ f.decision = "continue" => rt'.cont
      BY <2>1, <2>2, SuccessIsGood
    <3>1. CASE g = rt.idx
      <4>1. ext'[<<rt.occ, g>>] = e /\ Whole(e)
        BY <1>3, <2>2, <3>1, Before DEF Moves
      <4> QED
        BY <1>8, <2>1, <2>2, <4>1
    <3>2. CASE g \in rt.good
      <4>1. g \in 1..MaxGates /\ g # rt.idx /\ g \notin next
        BY <1>2, <3>2, Before
      <4>2. ext'[<<rt.occ, g>>] = Here(g)
        BY <1>3, <2>2, <4>1
      <4> QED
        BY <2>1, <2>2, <3>2, <4>2, Before
    <3> QED
      BY <2>1, <2>2, <3>1, <3>2
  <2>5. CASE rt'.pc \notin AtGate
    <3>1. GateAtHand'
      BY <2>5 DEF GateAtHand
    <3> QED
      BY <2>3, <2>4, <3>1 DEF IInv
  <2>6. CASE rt'.pc \in AtGate
    <3>1. rt'.pc = "gate" /\ rt'.idx = rt.idx + 1 /\ rt.idx + 1 \in Chain /\ next = {rt.idx + 1}
      BY <1>8, <2>1, <2>2, <2>6 DEF AtGate
    <3>2. /\ rt.idx \in 1..MaxGates /\ Chain \subseteq 1..MaxGates /\ rt.occ \in 1..MaxOccurrences
          /\ rt.idx \in Chain
      BY Before
    <3>3. \A g \in Chain : g # rt.idx /\ g # rt.idx + 1 => ext'[<<rt.occ, g>>] = Here(g)
      BY <1>3, <2>2, <3>1, <3>2
    <3>4. ext'[<<rt.occ, rt.idx>>] = e /\ ext'[<<rt.occ, rt.idx + 1>>].status = "pending"
      BY <1>3, <2>2, <3>1, <3>2
    <3>5. \A g \in Chain : Here(g).status = "succeeded" =>
             Here(g).effect = "pending" /\ (Here(g).decision = "continue" => rt.cont)
      BY <1>1 DEF IInv, GateAtHand
    <3>6. \A g \in Chain : ext'[<<rt.occ, g>>].status = "succeeded" =>
             /\ ext'[<<rt.occ, g>>].effect = "pending"
             /\ ext'[<<rt.occ, g>>].decision = "continue" => rt'.cont
      BY <2>1, <2>2, <3>3, <3>4, <3>5
    <3>7. \A g \in Chain : g > rt'.idx => ext'[<<rt.occ, g>>].status = "prepared"
      <4> SUFFICES ASSUME NEW g \in Chain, g > rt.idx + 1
                   PROVE  ext'[<<rt.occ, g>>].status = "prepared"
        BY <3>1
      <4>1. g # rt.idx /\ g # rt.idx + 1 /\ g > rt.idx
        BY <3>2
      <4> QED
        BY <1>3, <3>3, <4>1
    <3>8. calls'[<<rt.occ, rt.idx + 1>>] = 0
      <4>1. Here(rt.idx + 1).status = "prepared" /\ <<rt.occ, rt.idx + 1>> \in Invocation
        BY <1>3, <3>1, <3>2 DEF Invocation
      <4> QED
        BY <1>7, <4>1 DEF IInv, Journal, Here
    <3>9. GateAtHand'
      BY <2>1, <2>2, <2>3, <3>1, <3>6, <3>7, <3>8 DEF GateAtHand, Here
    <3> QED
      BY <2>3, <2>4, <3>9 DEF IInv
  <2> QED
    BY <2>5, <2>6
<1>9. CASE o = "ok" /\ e.status # "succeeded"
  <2>1. rt' = [now EXCEPT !.pc = "failure"] /\ "failure" \in Steps /\ ext' = x /\ next = {}
    BY <1>4, <1>9 DEF Steps, now
  <2>2. /\ rt' \in Goroutines /\ rt'.pc = "failure" /\ rt'.recovered = rt.recovered
        /\ rt'.proposals = rt.proposals /\ rt'.occ = rt.occ /\ rt'.idx = rt.idx
        /\ rt'.good = rt.good /\ rt'.cont = now.cont /\ rt'.cand = rt.cand
    BY <1>5, <2>1 DEF Goroutines
  <2>3. rt'.pc \in InChain /\ rt'.pc \in AtGate /\ rt'.pc \notin Locked
    BY <2>2 DEF InChain, AtGate, Locked
  <2>4. /\ Types' /\ Journal' /\ Bounded' /\ WayOut' /\ Completed' /\ GoalAhead'
        /\ GoalNeedsGates' /\ Chain' = Chain /\ ChainAtHand'
    BY <1>1, <1>4, <1>5, <1>7, <2>2, <2>3, CallsKept, Before, OnChain
  <2>5. \A g \in Chain : g # rt.idx => ext'[<<rt.occ, g>>] = Here(g)
    BY <1>3, <2>1, Before
  <2>6. ext'[<<rt.occ, rt.idx>>] = e
    BY <1>3, <2>1, Before
  <2>7. Good'
    <3> SUFFICES ASSUME NEW g \in rt.good
                 PROVE  LET f == ext'[<<rt.occ, g>>]
                        IN  /\ f.status = "succeeded" /\ f.effect = "pending" /\ Whole(f)
                            /\ f.decision = "continue" => rt'.cont
      BY <2>2, SuccessIsGood
    <3>1. ext'[<<rt.occ, g>>] = Here(g)
      BY <2>5, Before
    <3> QED
      BY <1>5, <2>2, <3>1, Before
  <2>8. GateAtHand'
    <3>1. \A g \in Chain : Here(g).status = "succeeded" =>
             Here(g).effect = "pending" /\ (Here(g).decision = "continue" => rt.cont)
      BY <1>1 DEF IInv, GateAtHand
    <3>2. \A g \in Chain : ext'[<<rt.occ, g>>].status = "succeeded" =>
             /\ ext'[<<rt.occ, g>>].effect = "pending"
             /\ ext'[<<rt.occ, g>>].decision = "continue" => rt'.cont
      BY <1>5, <1>9, <2>2, <2>5, <2>6, <3>1
    <3> QED
      BY <1>9, <2>2, <2>4, <2>6, <3>2 DEF GateAtHand, Here
  <2> QED
    BY <2>4, <2>7, <2>8 DEF IInv
<1> QED
  BY <1>6, <1>8, <1>9

LEMMA GateReturnsStep ==
  ASSUME IInv, NEW o, GateReturns(o)
  PROVE  IInv'
<1>1. rt.pc = "run" /\ UNCHANGED <<calls, sessionVars, goalVars, restVars>>
  BY DEF GateReturns, At
<1>2. PICK status \in GateStatuses, verdict \in {"none", "complete", "continue"} :
        LET more == verdict = "continue"
            e == FinishEntry(Here(rt.idx), status, verdict, ResultContext(verdict))
            next == IF status = "succeeded" /\ rt.idx + 1 \in Chain THEN {rt.idx + 1} ELSE {}
            kept == status = "succeeded" /\ rt.idx + 1 \notin Chain /\ rt.cand = NoGoal
        IN  /\ (status = "succeeded") <=> (verdict # "none")
            /\ more => step < MaxSteps
            /\ IF kept
               THEN /\ rt' = [NextGate(Hearing(more), rt.idx) EXCEPT !.hand = e]
                    /\ o = "ok" /\ UNCHANGED <<ext, used>>
               ELSE /\ Commit(Answered(e, next), o)
                    /\ rt' = IF o # "ok" THEN [Hearing(more) EXCEPT !.pc = "unsure"]
                             ELSE IF status = "succeeded" THEN NextGate(Hearing(more), rt.idx)
                             ELSE [Hearing(more) EXCEPT !.pc = "failure"]
  BY DEF GateReturns, Hearing, Answered
<1> DEFINE more == verdict = "continue"
           e == FinishEntry(Here(rt.idx), status, verdict, ResultContext(verdict))
           next == IF status = "succeeded" /\ rt.idx + 1 \in Chain THEN {rt.idx + 1} ELSE {}
<1>3. (status = "succeeded") <=> (verdict # "none")
  BY <1>2
<1>4. /\ Moves(Here(rt.idx), e) /\ e.status = status /\ e.effect = "pending"
      /\ e.decision = verdict
  BY <1>1, <1>3, Before, FinishMoves
<1>5. more \in BOOLEAN /\ (more => step < MaxSteps) /\ (e.decision = "continue" => more)
      /\ status \in TerminalStatuses
  BY <1>2, <1>4 DEF GateStatuses, TerminalStatuses
<1>6. CASE status = "succeeded" /\ rt.idx + 1 \notin Chain /\ rt.cand = NoGoal
  <2>1. /\ rt' = [NextGate(Hearing(more), rt.idx) EXCEPT !.hand = e]
        /\ ext' = ext /\ used' = used
    BY <1>2, <1>6
  <2> HIDE DEF more, e
  <2> QED
    BY <1>1, <1>4, <1>5, <1>6, <2>1, OutcomeKept
<1>7. CASE ~(status = "succeeded" /\ rt.idx + 1 \notin Chain /\ rt.cand = NoGoal)
  <2>1. /\ Commit(Answered(e, next), o)
        /\ rt' = IF o # "ok" THEN [Hearing(more) EXCEPT !.pc = "unsure"]
                 ELSE IF status = "succeeded" THEN NextGate(Hearing(more), rt.idx)
                 ELSE [Hearing(more) EXCEPT !.pc = "failure"]
    BY <1>2, <1>7
  <2>2. next = IF e.status = "succeeded" /\ rt.idx + 1 \in Chain THEN {rt.idx + 1} ELSE {}
    BY <1>4
  <2> HIDE DEF more, e, next
  <2> QED
    BY <1>1, <1>4, <1>5, <2>1, <2>2, OutcomeCommitted
<1> QED
  BY <1>6, <1>7

-----------------------------------------------------------------------------
(* Applying the chain.                                                     *)

\* The chain when every gate of it counts.
LEMMA WholeChain ==
  ASSUME IInv, rt.pc \in {"finalize", "apply", "applyRetry"}
  PROVE  /\ rt.pc \in InChain /\ rt.pc \notin AtGate /\ Chain = rt.good /\ 1 \in Chain
         /\ rt.good = 1..(rt.idx - 1) /\ gates > 0
         /\ rt.occ \in 1..MaxOccurrences /\ 1 \in 1..MaxGates
         /\ Chain = {g \in 1..MaxGates : Here(g).status # "absent"}
         /\ Here(1).step \in Nat /\ Here(1).goal.version = rt.cand.version
         /\ ~rt.recovered => Here(1).step = step
         /\ \A g \in Chain :
              /\ Outcome(g).status = "succeeded" /\ Outcome(g).step = Here(1).step
              /\ Outcome(g).goal = Here(1).goal
              /\ rt.pc # "applyRetry" => Outcome(g).effect = "pending"
              /\ Outcome(g).effect \in {"pending", "applied"}
              /\ ~rt.cont => Outcome(g).decision = "complete"
              /\ rt.cand # NoGoal \/ rt.pc = "applyRetry" =>
                   Here(g).status = "succeeded" /\ Outcome(g) = Here(g)
<1>1. rt.pc \in InChain /\ rt.pc \notin AtGate
  BY DEF InChain, AtGate
<1>2. /\ Types /\ Journal /\ ChainAtHand /\ Good
  BY DEF IInv
<1>3. /\ Chain = rt.good /\ 1 \in Chain /\ rt.good = 1..(rt.idx - 1) /\ gates > 0
      /\ rt.occ \in 1..MaxOccurrences /\ 1 \in 1..MaxGates
      /\ Chain = {g \in 1..MaxGates : Here(g).status # "absent"}
      /\ Here(1) \in Entry /\ Here(1).goal.version = rt.cand.version
      /\ ~rt.recovered => Here(1).step = step
  BY <1>1, <1>2, ChainFacts DEF ChainAtHand
<1>4. ASSUME NEW g \in Chain
      PROVE  /\ Outcome(g).status = "succeeded" /\ Outcome(g).step = Here(1).step
             /\ Outcome(g).goal = Here(1).goal
             /\ rt.pc # "applyRetry" => Outcome(g).effect = "pending"
             /\ Outcome(g).effect \in {"pending", "applied"}
             /\ ~rt.cont => Outcome(g).decision = "complete"
             /\ rt.cand # NoGoal \/ rt.pc = "applyRetry" =>
                  Here(g).status = "succeeded" /\ Outcome(g) = Here(g)
  <2>1. g \in rt.good
    BY <1>3
  <2>2. /\ Outcome(g) \in Entry /\ Whole(Outcome(g)) /\ Outcome(g).status = "succeeded"
        /\ Outcome(g).step = Here(1).step /\ Outcome(g).goal = Here(1).goal
        /\ rt.pc # "applyRetry" => Outcome(g).effect = "pending"
        /\ Here(g).status = "succeeded" => Outcome(g) = Here(g)
    BY <1>1, <1>2, <2>1, GoodFacts
  <2>3. /\ Outcome(g).effect \in {"pending", "applied"}
        /\ Outcome(g).decision = "continue" => rt.cont
        /\ \/ Here(g).status = "succeeded"
           \/ rt.pc \in {"finalize", "apply"} /\ rt.cand = NoGoal
    BY <1>1, <1>2, <2>1 DEF Good
  <2>4. Outcome(g).decision \in {"complete", "continue"}
    BY <2>2, WholeIs
  <2> QED
    BY <2>2, <2>3, <2>4
<1> QED
  BY <1>1, <1>3, <1>4 DEF Entry

\* The chain is kept as it is for its application.
LEMMA GoodStays ==
  ASSUME IInv, rt.pc = "finalize", ext' = ext, rt'.pc = "apply", SameChain
  PROVE  Good' /\ GateAtHand'
<1>1. \A g \in rt.good : Outcome(g).effect = "pending" /\ Outcome(g).effect \in {"pending", "applied"}
  BY WholeChain
<1>2. GateAtHand'
  BY DEF GateAtHand, AtGate
<1>3. Good
  BY DEF IInv
<1> QED
  BY <1>1, <1>2, <1>3 DEF Good, Outcome, Here, SameChain, InChain

LEMMA GoalStep ==
  ASSUME IInv, rt.pc = "finalize", NEW rec \in Records, RecordDecision(rec),
         GoalAnswer(rec) = "recorded", rec.verdict = "done", rt.cand # NoGoal, ~rt.cont,
         rec.version = rt.cand.version,
         rec.step = IF rt.recovered THEN Here(1).step ELSE step,
         ext' = ext, rt'.pc = "apply"
  PROVE  /\ goal' \in Goals /\ decisions' \in SUBSET Records
         /\ GoalAhead' /\ GoalNeedsGates'
<1>1. /\ goal' \in Goals /\ decisions' \in SUBSET Records /\ decisions' = decisions \cup {rec}
      /\ \A d \in decisions' : d.version >= 1 /\ d.version < goal'.version
      /\ goal'.status = "active" => goal'.version >= 1
  BY RecordIs DEF IInv
<1>2. GoalAhead'
  BY <1>1 DEF GoalAhead
<1>3. /\ rec.step = Here(1).step /\ rec.version = Here(1).goal.version
      /\ rt.occ \in 1..MaxOccurrences
      /\ \A g \in 1..MaxGates : Here(g).status # "absent" =>
           Here(g).status = "succeeded" /\ Here(g).decision = "complete"
  BY WholeChain
<1>4. GoalNeedsGates'
  <2> SUFFICES ASSUME NEW d \in decisions', d.verdict = "done"
               PROVE  LET shown(i) == ext[i].step = d.step /\ ext[i].goal.version = d.version
                      IN  \/ \A i \in Invocation : ~shown(i)
                          \/ \E k \in 1..MaxOccurrences :
                               /\ shown(<<k, 1>>)
                               /\ \A g \in 1..MaxGates : ext[<<k, g>>].status # "absent" =>
                                    /\ ext[<<k, g>>].status = "succeeded"
                                    /\ ext[<<k, g>>].decision = "complete"
    BY DEF GoalNeedsGates
  <2>1. CASE d \in decisions
    BY <2>1 DEF IInv, GoalNeedsGates
  <2>2. CASE d = rec
    BY <1>3, <2>2 DEF Here
  <2> QED
    BY <1>1, <2>1, <2>2
<1> QED
  BY <1>1, <1>2, <1>4

LEMMA FinalizeStep ==
  ASSUME IInv, NEW o, Finalize(o)
  PROVE  IInv'
<1> DEFINE rec == Decision(rt.cand, "done")
           answer == IF GoalIsDone THEN GoalAnswer(rec) ELSE "recorded"
<1>1. rt.pc = "finalize" /\ UNCHANGED <<calls, sessionVars, restVars>>
  BY DEF Finalize, At
<1>2. IF cancel \/ steers > 0
      THEN Abort(MaxGates + 1, o) /\ UNCHANGED <<goal, decisions>>
      ELSE IF answer # "recorded"
      THEN /\ CommitIfChanged(Aborted(MaxGates + 1), o)
           /\ IF answer = "error" THEN Finish("interrupted")
              ELSE IF o = "ok" THEN Goto("look") ELSE Finish("failed")
           /\ UNCHANGED <<goal, decisions>>
      ELSE /\ IF GoalIsDone THEN RecordDecision(rec) ELSE UNCHANGED <<goal, decisions>>
           /\ Goto("apply") /\ o = "ok" /\ UNCHANGED <<ext, used>>
  BY DEF Finalize
<1>3. /\ rec \in Records /\ rec.version = rt.cand.version /\ rec.verdict = "done"
      /\ rec.step = IF rt.recovered THEN Here(1).step ELSE step
  <2>1. Here(1).step \in Nat /\ rt.cand \in Shown /\ "done" \in Verdicts /\ Types
    BY <1>1, WholeChain DEF IInv, Types, Goroutines, Verdicts
  <2> QED
    BY <2>1, DecisionIs
<1> HIDE DEF rec, answer
<1>4. CASE cancel \/ steers > 0
  <2>1. Abort(MaxGates + 1, o) /\ UNCHANGED <<calls, sessionVars, goalVars, restVars>>
    BY <1>1, <1>2, <1>4 DEF goalVars
  <2> QED
    BY <1>1, <2>1, AbortStep
<1>5. CASE ~(cancel \/ steers > 0) /\ answer # "recorded"
  <2>1. /\ CommitIfChanged(Aborted(MaxGates + 1), o)
        /\ IF answer = "error" THEN Finish("interrupted")
           ELSE IF o = "ok" THEN Goto("look") ELSE Finish("failed")
        /\ UNCHANGED <<calls, sessionVars, goalVars, restVars>>
    BY <1>1, <1>2, <1>5 DEF goalVars
  <2>2. MovedTo(ext') /\ Spends(o)
    BY <1>1, <2>1, AbortedMoved, CommitIs DEF IInv, CommitIfChanged
  <2>3. gates > 0
    BY <1>1, WholeChain
  <2>4. CASE \E out \in {"interrupted", "failed"} : Finish(out)
    BY <1>1, <2>1, <2>2, <2>4, Ended
  <2>5. CASE Goto("look")
    <3>1. /\ rt' \in Goroutines /\ rt'.pc = "look" /\ SameChain /\ rt'.proposals = rt.proposals
      BY <2>5, GotoIs DEF IInv, Steps
    <3> QED
      BY <1>1, <2>1, <2>2, <2>3, <3>1, Released
  <2> QED
    BY <2>1, <2>4, <2>5
<1>6. CASE ~(cancel \/ steers > 0) /\ answer = "recorded"
  <2>1. /\ IF GoalIsDone THEN RecordDecision(rec) ELSE UNCHANGED <<goal, decisions>>
        /\ Goto("apply") /\ ext' = ext /\ used' = used
    BY <1>2, <1>6
  <2>2. /\ rt' \in Goroutines /\ rt'.pc = "apply" /\ SameChain /\ rt'.proposals = rt.proposals
    BY <2>1, GotoIs DEF IInv, Steps
  <2>3. rt'.pc \in InChain /\ rt'.pc \notin AtGate
    BY <2>2 DEF InChain, AtGate
  <2>4. steers = 0 /\ calls' = calls
    BY <1>1, <1>6 DEF IInv, Types
  <2>5. MovedTo(ext') /\ Spends("ok")
    BY <2>1, Stay
  <2>6. CASE GoalIsDone
    <3>1. /\ RecordDecision(rec) /\ GoalAnswer(rec) = "recorded" /\ rt.cand # NoGoal /\ ~rt.cont
      BY <1>6, <2>1, <2>6 DEF answer, GoalIsDone
    <3>2. /\ goal' \in Goals /\ decisions' \in SUBSET Records /\ GoalAhead' /\ GoalNeedsGates'
      BY <1>1, <1>3, <2>1, <2>2, <3>1, GoalStep
    <3>3. /\ Types' /\ Journal' /\ Bounded' /\ WayOut' /\ Completed' /\ ChainAtHand'
      BY <1>1, <2>2, <2>3, <2>4, <2>5, <3>2, CallsKept, WholeChain, OnChain DEF SameChain
    <3>4. Good' /\ GateAtHand'
      BY <1>1, <2>1, <2>2, GoodStays
    <3> QED
      BY <3>2, <3>3, <3>4 DEF IInv
  <2>7. CASE ~GoalIsDone
    <3>1. goal' = goal /\ decisions' = decisions /\ goal' \in Goals /\ decisions' \in SUBSET Records
      BY <2>1, <2>7 DEF IInv, Types
    <3>2. /\ Types' /\ Journal' /\ Bounded' /\ WayOut' /\ Completed' /\ ChainAtHand'
          /\ GoalAhead' /\ GoalNeedsGates'
      BY <1>1, <2>2, <2>3, <2>4, <2>5, <3>1, CallsKept, WholeChain, OnChain DEF SameChain
    <3>3. Good' /\ GateAtHand'
      BY <1>1, <2>1, <2>2, GoodStays
    <3> QED
      BY <3>2, <3>3 DEF IInv
  <2> QED
    BY <2>6, <2>7
<1> QED
  BY <1>4, <1>5, <1>6

\* Every gate of the chain counts: the next step, or the way out of the Run.
LEMMA AfterGatesStep ==
  ASSUME IInv, rt.pc \in {"apply", "applyRetry"}, NEW o, MovedTo(ext'), Spends(o), AfterGates,
         \A g \in Chain : /\ Wins(ext'[<<rt.occ, g>>])
                          /\ ext'[<<rt.occ, g>>].decision = Outcome(g).decision,
         UNCHANGED <<run, answered, steers, calls, goalVars, restVars>>
  PROVE  IInv'
<1>1. /\ run' = run /\ answered' = answered /\ steers' = steers /\ calls' = calls
      /\ goal' = goal /\ decisions' = decisions
      /\ gates' = gates /\ cancel' = cancel /\ why' = why
  BY DEF goalVars, restVars
<1>2. /\ rt.pc \in InChain /\ gates > 0 /\ 1 \in Chain /\ rt.occ \in 1..MaxOccurrences
      /\ Chain = {g \in 1..MaxGates : Here(g).status # "absent"} /\ 1 \in 1..MaxGates
      /\ ~rt.recovered => Here(1).step = step
      /\ \A g \in Chain : ~rt.cont => Outcome(g).decision = "complete"
  BY WholeChain
<1>3. steers = 0 /\ run = "running" /\ rt.pc \notin {"idle", "down", "finish"}
  BY DEF IInv, Bounded, WayOut, Locked
<1>4. CASE rt.cont
  <2>1. rt' = Fresh("model") /\ step' = step + 1
    BY <1>4 DEF AfterGates
  <2>2. /\ rt' \in Goroutines /\ rt'.pc = "model" /\ ~rt'.recovered /\ rt'.proposals = 0
        /\ ~rt'.cont
    <3>1. "model" \in Steps
      BY DEF Steps
    <3> QED
      BY <2>1, <3>1, FreshIs
  <2>3. Types'
    <3>1. step' \in Nat \ {0}
      BY <2>1 DEF IInv, Types
    <3> QED
      BY <1>1, <2>2, <3>1 DEF IInv, Types, MovedTo, Spends
  <2>4. Journal' /\ GoalNeedsGates'
    BY <1>1, JournalMoved, DecisionsStand DEF IInv, Spends
  <2>5. ChainAtHand' /\ Good' /\ GateAtHand'
    BY <2>2, OffChain DEF InChain, AtGate
  <2>6. Bounded'
    <3>1. /\ used.trouble <= used'.trouble /\ used'.trouble <= MaxTrouble
          /\ used.trouble \in Nat /\ used'.trouble \in Nat
      BY DEF IInv, Spends, Types
    <3>2. /\ step + steers <= MaxSteps + used.trouble
          /\ rt.recovered => step + steers < MaxSteps + used.trouble
          /\ ~rt.recovered => step < MaxSteps
      BY <1>2, <1>4 DEF IInv, Bounded
    <3>3. step \in Nat /\ MaxSteps \in Nat
      BY CompletionAssumption DEF IInv, Types
    <3>4. step < MaxSteps + used.trouble
      BY <1>3, <3>1, <3>2, <3>3
    <3>5. steers' = 0 /\ step' + steers' <= MaxSteps + used'.trouble /\ steers' <= used'.trouble
      BY <1>1, <1>3, <2>1, <3>1, <3>3, <3>4
    <3> QED
      BY <2>2, <3>1, <3>5 DEF Bounded, InChain, AtGate, Locked
  <2>7. GoalAhead'
    BY <1>1, <1>2, <2>2 DEF IInv, GoalAhead
  <2>8. WayOut' /\ Completed'
    BY <1>1, <1>3, <2>2 DEF WayOut, Leaving, Completed
  <2> QED
    BY <2>3, <2>4, <2>5, <2>6, <2>7, <2>8 DEF IInv
<1>5. CASE ~rt.cont
  <2> DEFINE p == IF rt.recovered THEN "finish" ELSE IF rt.cand = NoGoal THEN "hooks" ELSE "second"
             u == IF rt.recovered THEN "completed" ELSE rt.out
             w == IF rt.recovered /\ Here(1).step # step THEN "stale" ELSE "gated"
  <2>1. rt' = [rt EXCEPT !.pc = p, !.out = u, !.path = w] /\ step' = step
    BY <1>5 DEF AfterGates
  <2>2. /\ p \in Steps /\ p \in {"finish", "hooks", "second"} /\ (p = "finish" => u = "completed")
        /\ p = "finish" => rt.recovered
        /\ w \in Paths /\ w \in {"stale", "gated"} /\ (w = "gated" => Here(1).step = step)
    BY <1>2 DEF Steps, Paths
  <2>3. u \in {"none"} \cup RunEnd /\ rt \in Goroutines
    BY DEF IInv, Types, Goroutines, RunEnd
  <2> HIDE DEF p, u, w
  <2>4. /\ rt' \in Goroutines /\ rt'.pc = p /\ rt'.out = u /\ rt'.path = w
        /\ rt'.recovered = rt.recovered /\ rt'.proposals = rt.proposals
    BY <2>1, <2>2, <2>3 DEF Goroutines
  <2>5. UNCHANGED <<calls, sessionVars, goalVars, restVars>>
    BY <2>1 DEF sessionVars
  <2>6. rt'.pc \notin InChain \cup {"prepareSettle", "idle", "down"}
    BY <2>2, <2>4 DEF InChain, AtGate
  <2>7. /\ Types' /\ Journal' /\ ChainAtHand' /\ Good' /\ GateAtHand' /\ Bounded'
        /\ GoalNeedsGates' /\ Completed' /\ run' = "running"
    BY <1>3, <2>4, <2>5, <2>6, LeftChain
  <2>8. GoalAhead'
    BY <1>1, <1>2, <2>2, <2>4 DEF IInv, GoalAhead
  <2>9. w = "gated" => Gated'
    <3> SUFFICES ASSUME w = "gated" PROVE Gated'
      OBVIOUS
    <3>1. \A g \in 1..MaxGates : Moves(Here(g), ext'[<<rt.occ, g>>])
      BY <1>2, MovedFacts DEF IInv, Here
    <3>2. ext'[<<rt.occ, 1>>].step = step'
      BY <1>2, <2>1, <2>2, <3>1 DEF Moves
    <3>3. \A g \in 1..MaxGates : ext'[<<rt.occ, g>>].status # "absent" =>
            /\ ext'[<<rt.occ, g>>].decision = "complete"
            /\ ext'[<<rt.occ, g>>].effect = "applied"
      BY <1>2, <1>5, <3>1 DEF Moves, Wins
    <3> QED
      BY <1>2, <3>2, <3>3 DEF Gated
  <2>10. WayOut'
    BY <2>2, <2>4, <2>7, <2>9 DEF WayOut, Leaving
  <2> QED
    BY <2>7, <2>8, <2>10 DEF IInv
<1> QED
  BY <1>4, <1>5 DEF IInv, Types, Goroutines

\* The Goal is done and its gates may have been applied: once more.
LEMMA RetryAhead ==
  ASSUME IInv, rt.pc = "apply", GoalIsDone, NEW o, Spends(o), MovedTo(ext'),
         Goto("applyRetry"), MovedTo(Applied), ext' = ext \/ ext' = Applied,
         \A g \in Chain : /\ Wins(Applied[<<rt.occ, g>>])
                          /\ Applied[<<rt.occ, g>>].decision = Outcome(g).decision,
         UNCHANGED <<calls, sessionVars, goalVars, restVars>>
  PROVE  IInv'
<1>1. /\ rt' \in Goroutines /\ rt'.pc = "applyRetry" /\ SameChain /\ rt'.proposals = rt.proposals
  BY GotoIs DEF IInv, Steps
<1>2. rt'.pc \in InChain /\ rt'.pc \notin AtGate /\ steers = 0
  BY <1>1 DEF InChain, AtGate, Locked, IInv, Bounded
<1>3. goal' = goal /\ decisions' = decisions /\ goal' \in Goals /\ decisions' \in SUBSET Records
      /\ calls' = calls
  BY DEF goalVars, IInv, Types
<1>4. /\ Types' /\ Journal' /\ Bounded' /\ WayOut' /\ Completed' /\ GoalAhead'
      /\ GoalNeedsGates' /\ Chain' = Chain /\ ChainAtHand'
      /\ \A g \in 1..MaxGates : Moves(Here(g), ext'[<<rt.occ, g>>])
  BY <1>1, <1>2, <1>3, CallsKept, WholeChain, OnChain DEF SameChain
<1>5. rt.cand # NoGoal /\ ~rt.cont
  BY DEF GoalIsDone
<1>6. ASSUME NEW g \in rt.good
      PROVE  LET e == ext'[<<rt.occ, g>>]
             IN  /\ e.status = "succeeded" /\ e.effect \in {"pending", "applied"} /\ Whole(e)
                 /\ e.decision = "continue" => rt.cont
  <2>1. /\ g \in Chain /\ g \in 1..MaxGates /\ Here(g).status = "succeeded" /\ Outcome(g) = Here(g)
        /\ Outcome(g).effect = "pending" /\ Outcome(g).decision = "complete"
    BY <1>5, WholeChain
  <2>2. Whole(ext'[<<rt.occ, g>>])
    BY <1>4, <2>1 DEF Moves
  <2>3. CASE ext' = ext
    BY <2>1, <2>2, <2>3 DEF Here
  <2>4. CASE ext' = Applied
    BY <2>1, <2>2, <2>4 DEF Wins
  <2> QED
    BY <2>3, <2>4
<1>7. Good'
  BY <1>1, <1>6 DEF Good, Outcome, Here, SameChain
<1>8. GateAtHand'
  BY <1>2 DEF GateAtHand
<1> QED
  BY <1>4, <1>7, <1>8 DEF IInv

LEMMA ApplyStep ==
  ASSUME IInv, NEW o, Apply(o)
  PROVE  IInv'
<1>1. /\ rt.pc = "apply" /\ Commit(Applied, o)
      /\ UNCHANGED <<run, answered, steers, calls, goalVars, restVars>>
  BY DEF Apply, At
<1>2. IF o = "ok" \/ (o = "kept" /\ ~GoalIsDone) THEN AfterGates
      ELSE /\ Goto(IF GoalIsDone THEN "applyRetry" ELSE "unsure")
           /\ UNCHANGED step
  BY DEF Apply
<1>3. /\ MovedTo(Applied)
      /\ \A g \in Chain : /\ Wins(Applied[<<rt.occ, g>>])
                          /\ Applied[<<rt.occ, g>>].decision = Outcome(g).decision
  BY <1>1, AppliedMoved DEF IInv
<1>4. /\ o \in {"ok", "lost", "kept"} /\ MovedTo(ext') /\ Spends(o)
      /\ ext' = IF o = "lost" THEN ext ELSE Applied
  BY <1>1, <1>3, CommitIs DEF IInv
<1>5. CASE o = "ok" \/ (o = "kept" /\ ~GoalIsDone)
  <2>1. ext' = Applied /\ AfterGates
    BY <1>2, <1>4, <1>5
  <2> QED
    BY <1>1, <1>3, <1>4, <2>1, AfterGatesStep
<1>6. CASE ~(o = "ok" \/ (o = "kept" /\ ~GoalIsDone)) /\ GoalIsDone
  <2>1. Goto("applyRetry") /\ UNCHANGED <<calls, sessionVars, goalVars, restVars>>
    BY <1>1, <1>2, <1>6 DEF sessionVars
  <2>2. ext' = ext \/ ext' = Applied
    BY <1>4
  <2> QED
    BY <1>1, <1>3, <1>4, <1>6, <2>1, <2>2, RetryAhead
<1>7. CASE ~(o = "ok" \/ (o = "kept" /\ ~GoalIsDone)) /\ ~GoalIsDone
  <2>1. Goto("unsure") /\ UNCHANGED <<calls, sessionVars, goalVars, restVars>>
    BY <1>1, <1>2, <1>7 DEF sessionVars
  <2>2. /\ rt' \in Goroutines /\ rt'.pc = "unsure" /\ SameChain /\ rt'.proposals = rt.proposals
    BY <2>1, GotoIs DEF IInv, Steps
  <2>3. rt.pc \in InChain
    BY <1>1 DEF InChain
  <2> QED
    BY <1>4, <2>1, <2>2, <2>3, Unknowing DEF SameChain
<1> QED
  BY <1>5, <1>6, <1>7

LEMMA ApplyRetryStep ==
  ASSUME IInv, NEW o, ApplyRetry(o)
  PROVE  IInv'
<1>1. /\ rt.pc = "applyRetry" /\ CommitIfChanged(Retried, o)
      /\ UNCHANGED <<run, answered, steers, calls, goalVars, restVars>>
      /\ IF o = "ok" THEN AfterGates ELSE Finish("interrupted") /\ UNCHANGED step
  BY DEF ApplyRetry, At, Retried
<1>2. /\ MovedTo(Retried)
      /\ \A g \in Chain : /\ Wins(Retried[<<rt.occ, g>>])
                          /\ Retried[<<rt.occ, g>>].decision = Outcome(g).decision
  BY <1>1, RetryMoved DEF IInv
<1>3. /\ MovedTo(ext') /\ Spends(o) /\ (o = "ok" => ext' = Retried)
  BY <1>1, <1>2, CommitIs DEF IInv, CommitIfChanged
<1>4. CASE o = "ok"
  <2>1. ext' = Retried /\ AfterGates
    BY <1>1, <1>3, <1>4
  <2> QED
    BY <1>1, <1>2, <1>3, <2>1, AfterGatesStep
<1>5. CASE o # "ok"
  <2>1. Finish("interrupted") /\ UNCHANGED <<calls, sessionVars, goalVars, restVars>>
    BY <1>1, <1>5 DEF sessionVars
  <2> QED
    BY <1>1, <1>3, <2>1, Ended
<1> QED
  BY <1>4, <1>5

-----------------------------------------------------------------------------
(* Recovery.                                                               *)

\* After recovery nothing is pending, and what was not is as it was.
LEMMA RecoveredIs ==
  ASSUME IInv, ext' = Unknown
  PROVE  /\ MovedTo(ext') /\ ext' \in [Invocation -> Entry]
         /\ \A i \in Invocation : ext'[i].status # "pending"
<1>1. MovedTo(ext') /\ \A i \in Invocation : ext'[i] = RecoverEntry(ext[i])
  BY UnknownMoved DEF IInv
<1>2. \A i \in Invocation : ext'[i].status # "pending"
  <2> SUFFICES ASSUME NEW i \in Invocation PROVE ext'[i].status # "pending"
    OBVIOUS
  <2>1. ext[i] \in Entry /\ Whole(ext[i])
    BY ExtIs DEF IInv
  <2> QED
    BY <1>1, <2>1, RecoverMoves
<1> QED
  BY <1>1, <1>2 DEF MovedTo

\* The occurrence that a restarted Runtime takes up.
LEMMA RestoredIs ==
  ASSUME IInv, NEW x \in [Invocation -> Entry], NEW k \in 1..MaxOccurrences, MaxGates > 0
  PROVE  LET r == Restored(x, k)
         IN  /\ r \in Goroutines /\ r.pc = "gate" /\ r.occ = k /\ r.idx = 1 /\ r.good = {}
             /\ r.recovered /\ r.proposals = 0 /\ r.cand.version = x[<<k, 1>>].goal.version
             /\ r.cont <=> \E g \in 1..MaxGates : /\ x[<<k, g>>].status = "succeeded"
                                                  /\ x[<<k, g>>].decision = "continue"
<1> DEFINE cand == x[<<k, 1>>].goal
           c == IF cand = NoGoal THEN NoGoal ELSE [cand EXCEPT !.clock = "stored"]
           m == \E g \in 1..MaxGates : /\ x[<<k, g>>].status = "succeeded"
                                       /\ x[<<k, g>>].decision = "continue"
           f == Fresh("gate")
<1>1. cand \in Shown
  <2>1. <<k, 1>> \in Invocation
    BY CompletionAssumption, InvocationIs
  <2> QED
    BY <2>1 DEF Entry
<1> HIDE DEF cand
<1>2. c \in Shown /\ c.version = cand.version
  BY <1>1 DEF Shown
<1>3. "gate" \in Steps /\ m \in BOOLEAN
  BY DEF Steps
<1>4. /\ f \in Goroutines /\ f.pc = "gate" /\ f.idx = 1 /\ f.good = {} /\ f.proposals = 0
  BY <1>3, FreshIs
<1>5. Restored(x, k) = [f EXCEPT !.occ = k, !.recovered = TRUE, !.cand = c, !.cont = m]
  BY DEF Restored, cand
<1>6. k \in 0..MaxOccurrences
  BY CompletionAssumption
<1>7. m <=> \E g \in 1..MaxGates : /\ x[<<k, g>>].status = "succeeded"
                                   /\ x[<<k, g>>].decision = "continue"
  OBVIOUS
<1> HIDE DEF c, m, f
<1>8. LET r == Restored(x, k)
      IN  /\ r \in Goroutines /\ r.pc = "gate" /\ r.occ = k /\ r.idx = 1 /\ r.good = {}
          /\ r.recovered = TRUE /\ r.proposals = 0 /\ r.cand = c /\ r.cont = m
  BY <1>2, <1>3, <1>4, <1>5, <1>6 DEF Goroutines
<1> QED
  BY <1>2, <1>7, <1>8 DEF cand

LEMMA ChainRestored ==
  ASSUME IInv, rt.pc = "down", ext' = Unknown, gates' \in 0..MaxGates, run = "running",
         NEW k \in 1..MaxOccurrences, Matches(ext', gates', k), rt' = Restored(ext', k),
         used' = used
  PROVE  ChainAtHand' /\ Good' /\ GateAtHand' /\ rt' \in Goroutines /\ rt'.pc = "gate"
         /\ rt'.proposals = 0 /\ gates' > 0
<1>1. /\ MovedTo(ext') /\ ext' \in [Invocation -> Entry]
      /\ \A i \in Invocation : ext'[i].status # "pending"
  BY RecoveredIs
<1>2. /\ \A i \in Invocation :
           (ext'[i].status = "prepared" \/ Unsettled(ext'[i])) <=> (i[1] = k /\ i[2] <= gates')
      /\ gates' > 0
  BY DEF Matches
<1>3. gates' \in 1..MaxGates /\ 1 \in 1..MaxGates /\ MaxGates > 0
  BY <1>2, CompletionAssumption
<1>4. /\ rt' \in Goroutines /\ rt'.pc = "gate" /\ rt'.occ = k /\ rt'.idx = 1 /\ rt'.good = {}
      /\ rt'.recovered /\ rt'.proposals = 0 /\ rt'.cand.version = ext'[<<k, 1>>].goal.version
      /\ rt'.cont <=> \E g \in 1..MaxGates : /\ ext'[<<k, g>>].status = "succeeded"
                                             /\ ext'[<<k, g>>].decision = "continue"
  BY <1>1, <1>3, RestoredIs
<1>5. \A g \in 1..MaxGates :
        (ext'[<<k, g>>].status = "prepared" \/ Unsettled(ext'[<<k, g>>])) <=> g <= gates'
  BY <1>2, InvocationIs
<1>6. ext'[<<k, 1>>].status # "absent" /\ ext'[<<k, 1>>].status # "pending"
  BY <1>1, <1>3, <1>5, InvocationIs DEF Unsettled, TerminalStatuses
<1>7. k \in 1..used.occs
  <2>1. ext[<<k, 1>>].status # "absent" /\ <<k, 1>> \in Invocation
    BY <1>1, <1>3, <1>6, InvocationIs DEF MovedTo, Moves
  <2>2. ~(k > used.occs)
    BY <2>1 DEF IInv, Journal
  <2>3. used.occs \in Nat
    BY CompletionAssumption DEF IInv, Types
  <2> QED
    BY <2>2, <2>3
<1>8. Chain' = {g \in 1..MaxGates : k # 0 /\ ext'[<<k, g>>].status # "absent"}
  BY <1>4 DEF Chain, Here
<1>9. 1 \in Chain' /\ Chain' \subseteq 1..MaxGates
  BY <1>3, <1>6, <1>8
<1>10. rt'.good = 1..(rt'.idx - 1) /\ rt'.good \subseteq Chain' /\ rt'.idx \in Chain'
  BY <1>4, <1>9
<1>11. ChainAtHand'
  BY <1>2, <1>4, <1>7, <1>9, <1>10 DEF ChainAtHand, Here, InChain, AtGate
<1>12. Good'
  BY <1>4 DEF Good
<1>13. ASSUME NEW g \in 1..MaxGates, ext'[<<k, g>>].status = "succeeded"
       PROVE  ext'[<<k, g>>].effect = "pending" /\ (ext'[<<k, g>>].decision = "continue" => rt'.cont)
  <2>1. CASE g <= gates'
    BY <1>4, <1>5, <1>13, <2>1 DEF Unsettled
  <2>2. CASE g > gates'
    <3> DEFINE n == gates'
    <3>1. Ordered(ext'[<<k, n>>], ext'[<<k, g>>])
      BY <1>1, <1>3, <2>2 DEF MovedTo
    <3>2. /\ ext'[<<k, n>>].status \in TerminalStatuses
          /\ ext'[<<k, g>>].effect # "pending" => ext'[<<k, n>>].effect # "pending"
      BY <1>13, <3>1 DEF Ordered
    <3>3. Unsettled(ext'[<<k, n>>])
      BY <1>3, <1>5, <3>2 DEF TerminalStatuses
    <3>4. Unsettled(ext'[<<k, g>>])
      BY <1>13, <3>2, <3>3 DEF Unsettled, TerminalStatuses
    <3> QED
      BY <1>3, <1>5, <2>2, <3>4
  <2> QED
    BY <1>3, <2>1, <2>2
<1>14. \A g \in 1..MaxGates : ext'[<<k, g>>].status # "pending"
  BY <1>1, InvocationIs
<1>15. GateAtHand'
  BY <1>3, <1>4, <1>9, <1>13, <1>14 DEF GateAtHand, Here
<1> QED
  BY <1>2, <1>4, <1>11, <1>12, <1>15

LEMMA RestartStep ==
  ASSUME IInv, Restart
  PROVE  IInv'
<1>1. /\ rt.pc = "down" /\ ext' = Unknown /\ gates' \in 0..MaxGates /\ cancel' = FALSE
      /\ step' = step /\ answered' = answered /\ calls' = calls /\ used' = used /\ why' = why
      /\ goal' = goal /\ decisions' = decisions
  BY DEF Restart, At, goalVars
<1>2. MovedTo(ext')
  BY <1>1, RecoveredIs
<1>3. Journal' /\ GoalNeedsGates'
  BY <1>1, <1>2, JournalMoved, DecisionsStand DEF IInv
<1>4. /\ step + steers < MaxSteps + used.trouble /\ used.trouble <= MaxTrouble
      /\ steers <= used.trouble /\ step \in Nat /\ steers \in Nat /\ used.trouble \in Nat
      /\ MaxSteps \in Nat
  BY <1>1, CompletionAssumption DEF IInv, Bounded, Types
<1>5. ASSUME rt' \in Goroutines, run' \in {"running"} \cup RunEnd, steers' \in {0, steers},
             rt'.pc \in {"idle", "mismatch", "gate"}, rt'.proposals = 0,
             rt'.pc # "idle" => run' = "running",
             rt'.pc = "gate" => rt'.recovered
      PROVE  Types' /\ Bounded' /\ GoalAhead' /\ WayOut'
  <2>1. Types'
    <3>1. /\ steers' \in Nat /\ ext' \in [Invocation -> Entry]
          /\ cancel' \in BOOLEAN
      <4>1. steers' \in Nat
        BY <1>4, <1>5
      <4>2. ext' \in [Invocation -> Entry]
        BY <1>2 DEF MovedTo
      <4>3. cancel' \in BOOLEAN
        BY <1>1
      <4> QED
        BY <4>1, <4>2, <4>3
    <3>2. /\ step \in Nat \ {0} /\ answered \in Nat /\ goal \in Goals
          /\ decisions \in SUBSET Records /\ calls \in [Invocation -> Nat]
          /\ why \in Paths \cup {"ungated"} /\ used \in [trouble: Nat, occs: 0..MaxOccurrences]
      BY DEF IInv, Types
    <3> QED
      BY <1>1, <1>5, <3>1, <3>2 DEF Types
  <2>2. /\ steers' <= used.trouble /\ step + steers' < MaxSteps + used.trouble
        /\ step + steers' <= MaxSteps + used.trouble
    BY <1>4, <1>5
  <2>3. Bounded'
    BY <1>1, <1>4, <1>5, <2>2 DEF Bounded, InChain, AtGate, Locked
  <2>4. GoalAhead'
    BY <1>1, <1>5 DEF IInv, GoalAhead
  <2>5. WayOut'
    BY <1>5 DEF WayOut, Leaving
  <2> QED
    BY <2>1, <2>3, <2>4, <2>5
<1>6. /\ "idle" \in Steps /\ "mismatch" \in Steps
      /\ run \in {"running"} \cup RunEnd /\ "interrupted" \in RunEnd
  BY DEF Steps, IInv, Types, RunEnd
<1>7. CASE run # "running"
  <2>1. rt' = Fresh("idle") /\ run' = run /\ steers' = steers
    BY <1>7 DEF Restart
  <2>2. rt' \in Goroutines /\ rt'.pc = "idle" /\ rt'.proposals = 0
    BY <1>6, <2>1, FreshIs
  <2>3. ChainAtHand' /\ Good' /\ GateAtHand'
    BY <2>2, OffChain DEF InChain, AtGate
  <2>4. Types' /\ Bounded' /\ GoalAhead' /\ WayOut'
    BY <1>5, <1>6, <2>1, <2>2
  <2>5. Gated => Gated'
    BY <1>1, <1>2, GatedStands DEF IInv
  <2>6. Completed'
    BY <1>1, <2>1, <2>5 DEF IInv, Completed
  <2> QED
    BY <1>3, <2>3, <2>4, <2>6 DEF IInv
<1>8. CASE run = "running" /\ ~Resumable(Unknown)
  <2>1. rt' = Fresh("idle") /\ run' = "interrupted" /\ steers' = 0
    BY <1>8 DEF Restart
  <2>2. rt' \in Goroutines /\ rt'.pc = "idle" /\ rt'.proposals = 0
    BY <1>6, <2>1, FreshIs
  <2>3. ChainAtHand' /\ Good' /\ GateAtHand'
    BY <2>2, OffChain DEF InChain, AtGate
  <2>4. Types' /\ Bounded' /\ GoalAhead' /\ WayOut'
    BY <1>5, <1>6, <2>1, <2>2
  <2>5. Completed'
    BY <2>1 DEF Completed
  <2> QED
    BY <1>3, <2>3, <2>4, <2>5 DEF IInv
<1>9. CASE run = "running" /\ Resumable(Unknown)
  <2>1. /\ run' = run /\ steers' = steers
        /\ rt' = IF \E k \in 1..MaxOccurrences : Matches(Unknown, gates', k)
                 THEN Restored(Unknown, CHOOSE k \in 1..MaxOccurrences :
                                          Matches(Unknown, gates', k))
                 ELSE Fresh("mismatch")
    BY <1>9 DEF Restart
  <2>2. Completed'
    BY <1>9, <2>1 DEF Completed
  <2>3. CASE \E k \in 1..MaxOccurrences : Matches(ext', gates', k)
    <3> DEFINE k == CHOOSE n \in 1..MaxOccurrences : Matches(ext', gates', n)
    <3>1. k \in 1..MaxOccurrences /\ Matches(ext', gates', k)
      BY <2>3
    <3>2. rt' = Restored(ext', k)
      BY <1>1, <2>1, <2>3
    <3> HIDE DEF k
    <3>3. /\ ChainAtHand' /\ Good' /\ GateAtHand' /\ rt' \in Goroutines /\ rt'.pc = "gate"
          /\ rt'.proposals = 0
      BY <1>1, <1>9, <3>1, <3>2, ChainRestored
    <3>4. rt'.recovered
      BY <3>2 DEF Restored, Fresh
    <3>5. Types' /\ Bounded' /\ GoalAhead' /\ WayOut'
      BY <1>5, <1>6, <1>9, <2>1, <3>3, <3>4
    <3> QED
      BY <1>3, <2>2, <3>3, <3>5 DEF IInv
  <2>4. CASE ~\E k \in 1..MaxOccurrences : Matches(ext', gates', k)
    <3>1. rt' = Fresh("mismatch")
      BY <1>1, <2>1, <2>4
    <3>2. rt' \in Goroutines /\ rt'.pc = "mismatch" /\ rt'.proposals = 0
      BY <1>6, <3>1, FreshIs
    <3>3. ChainAtHand' /\ Good' /\ GateAtHand'
      BY <3>2, OffChain DEF InChain, AtGate
    <3>4. Types' /\ Bounded' /\ GoalAhead' /\ WayOut'
      BY <1>5, <1>6, <1>9, <2>1, <3>2
    <3> QED
      BY <1>3, <2>2, <3>3, <3>4 DEF IInv
  <2> QED
    BY <2>3, <2>4
<1> QED
  BY <1>7, <1>8, <1>9

-----------------------------------------------------------------------------
(* The invariant.                                                          *)

LEMMA InitIs ==
  ASSUME Init
  PROVE  IInv
<1>1. /\ \A i \in Invocation : ext[i] = Absent
      /\ run = "running" /\ step = 1 /\ answered = 0 /\ steers = 0 /\ decisions = {}
      /\ gates \in 0..MaxGates /\ rt = Fresh("model") /\ cancel = FALSE
      /\ calls = [i \in Invocation |-> 0] /\ why = "none" /\ used = [trouble |-> 0, occs |-> 0]
  BY DEF Init
<1>2. goal \in Goals /\ (goal.status = "active" => goal.version >= 1)
  BY DEF Init, Goals
<1>3. /\ Absent \in Entry /\ Absent.status = "absent" /\ Absent.effect = "none"
      /\ Whole(Absent) /\ Ordered(Absent, Absent)
  BY DEF Absent, Entry, Effects, Contexts, NoGoal, Shown, Whole, Ordered, Wins
<1>4. "model" \in Steps
  BY DEF Steps
<1>5. /\ rt \in Goroutines /\ rt.pc = "model" /\ rt.recovered = FALSE /\ rt.proposals = 0
      /\ rt.cont = FALSE
  BY <1>1, <1>4, FreshIs
<1>6. Types
  <2>1. ext \in [Invocation -> Entry]
    BY <1>1, <1>3 DEF Init
  <2>2. used \in [trouble: Nat, occs: 0..MaxOccurrences] /\ calls \in [Invocation -> Nat]
    BY <1>1, CompletionAssumption
  <2>3. /\ run \in {"running"} \cup RunEnd /\ why \in Paths \cup {"ungated"}
        /\ cancel \in BOOLEAN /\ decisions \in SUBSET Records
    BY <1>1 DEF Paths
  <2>4. step \in Nat \ {0} /\ answered \in Nat /\ steers \in Nat
    BY <1>1
  <2> QED
    BY <1>1, <1>2, <1>5, <2>1, <2>2, <2>3, <2>4 DEF Types
<1>7. Journal
  BY <1>1, <1>3, InvocationIs DEF Journal
<1>8. ChainAtHand /\ Good /\ GateAtHand
  BY <1>5 DEF ChainAtHand, Good, GateAtHand, InChain, AtGate
<1>9. Bounded
  BY <1>1, <1>5, CompletionAssumption DEF Bounded, InChain, AtGate, Locked
<1>10. GoalAhead
  BY <1>1, <1>2, <1>3, <1>5 DEF GoalAhead, NoEntries
<1>11. WayOut /\ GoalNeedsGates /\ Completed
  BY <1>1, <1>5 DEF WayOut, Leaving, GoalNeedsGates, Completed
<1> QED
  BY <1>6, <1>7, <1>8, <1>9, <1>10, <1>11 DEF IInv

\* Nothing happens.
LEMMA StutterStep ==
  ASSUME IInv, UNCHANGED vars
  PROVE  IInv'
<1>1. /\ ext' = ext /\ run' = run /\ step' = step /\ answered' = answered /\ steers' = steers
      /\ goal' = goal /\ decisions' = decisions /\ gates' = gates /\ rt' = rt
      /\ cancel' = cancel /\ calls' = calls /\ why' = why /\ used' = used
  BY DEF vars
<1>2. /\ Journal' /\ ChainAtHand' /\ Good' /\ GateAtHand' /\ WayOut' /\ GoalNeedsGates'
      /\ Completed' /\ (NoEntries <=> NoEntries')
  BY <1>1, Undisturbed
<1>3. Types'
  BY <1>1 DEF IInv, Types
<1>4. Bounded'
  BY <1>1 DEF IInv, Bounded
<1>5. GoalAhead'
  BY <1>1, <1>2 DEF IInv, GoalAhead
<1> QED
  BY <1>2, <1>3, <1>4, <1>5 DEF IInv

LEMMA NextStep ==
  ASSUME IInv, [Next]_vars
  PROVE  IInv'
<1>1. CASE UNCHANGED vars
  BY <1>1, StutterStep
<1>2. CASE Loop
  <2>1. CASE \/ ModelAnswers \/ FirstLook \/ GoalEvaluated \/ GoalWithoutGates \/ Prepare
             \/ GateRestored \/ GateNotRestored \/ Hooks
    BY <2>1, ModelAnswersStep, FirstLookStep, GoalEvaluatedStep, GoalWithoutGatesStep,
       PrepareStep, GateRestoredStep, GateNotRestoredStep, HooksStep
  <2>2. ASSUME NEW o \in {"ok", "lost", "kept"},
               \/ PrepareSettle(o) \/ GateEnter(o) \/ GateSuperseded(o) \/ GateStart(o)
               \/ GateReturns(o) \/ GateFailure(o) \/ Finalize(o)
        PROVE  IInv'
    BY <2>2, PrepareSettleStep, GateEnterStep, GateSupersededStep, GateStartStep,
       GateReturnsStep, GateFailureStep, FinalizeStep
  <2>3. ASSUME NEW o \in {"ok", "lost", "kept"},
               \/ Apply(o) \/ ApplyRetry(o) \/ Unsure(o) \/ Settle(o) \/ SecondLook(o)
               \/ FinishRun(o) \/ Mismatch(o)
        PROVE  IInv'
    BY <2>3, ApplyStep, ApplyRetryStep, UnsureStep, SettleStep, SecondLookStep,
       FinishRunStep, MismatchStep
  <2> QED
    BY <1>2, <2>1, <2>2, <2>3 DEF Loop
<1>3. CASE Restart
  BY <1>3, RestartStep
<1>4. CASE Environment
  BY <1>4, SetGoalStep, ChangeStatusStep, SteerStep, WithdrawStep, CancelStep, CrashStep
     DEF Environment
<1>5. CASE Idle
  BY <1>5, StutterStep DEF Idle
<1> QED
  BY <1>1, <1>2, <1>3, <1>4, <1>5 DEF Next

LEMMA Invariance == Spec => []IInv
<1>1. Init => IInv
  BY InitIs
<1>2. IInv /\ [Next]_vars => IInv'
  BY NextStep
<1> QED
  BY <1>1, <1>2, PTL DEF Spec

-----------------------------------------------------------------------------
(* The theorems.                                                           *)

LEMMA InvariantAllOrNothing ==
  ASSUME IInv
  PROVE  AllOrNothing
<1>1. Types /\ Journal /\ Bounded
  BY DEF IInv
<1>2. \A i \in Invocation : ext[i].status # "absent" =>
        StatusShape(AsEntry(ext[i])) /\ ContextShape(ext[i])
  BY <1>1 DEF Journal, Whole
<1>3. step \in 1..(MaxSteps + MaxTrouble) /\ steers \in 0..MaxTrouble
  <2>1. /\ step \in Nat \ {0} /\ steers \in Nat /\ used.trouble \in Nat
        /\ used.trouble <= MaxTrouble /\ steers <= used.trouble
        /\ step + steers <= MaxSteps + used.trouble /\ MaxSteps \in Nat /\ MaxTrouble \in Nat
    BY <1>1, CompletionAssumption DEF Types, Bounded
  <2> QED
    BY <2>1
<1>4. TypeOK
  BY <1>1, <1>2, <1>3 DEF TypeOK, Types
<1>5. \A i \in Invocation : calls[i] <= 1
  BY <1>1 DEF Journal
<1>6. ASSUME NEW i \in Invocation, NEW j \in Invocation, i[1] = j[1],
             ext[j].status # "absent", Wins(ext[i])
      PROVE  Wins(ext[j])
  <2>1. /\ i = <<i[1], i[2]>> /\ j = <<i[1], j[2]>> /\ i[1] \in 1..MaxOccurrences
        /\ i[2] \in 1..MaxGates /\ j[2] \in 1..MaxGates
    BY <1>6, InvocationIs
  <2>2. i[2] < j[2] => Ordered(ext[<<i[1], i[2]>>], ext[<<i[1], j[2]>>])
    BY <1>1, <2>1 DEF Journal
  <2>3. j[2] < i[2] => Ordered(ext[<<i[1], j[2]>>], ext[<<i[1], i[2]>>])
    BY <1>1, <2>1 DEF Journal
  <2>4. CASE i[2] < j[2]
    <3>1. Ordered(ext[i], ext[j])
      BY <2>1, <2>2, <2>4
    <3> QED
      BY <1>6, <3>1 DEF Ordered
  <2>5. CASE j[2] < i[2]
    <3>1. Ordered(ext[j], ext[i])
      BY <2>1, <2>3, <2>5
    <3> QED
      BY <1>6, <3>1 DEF Ordered
  <2>6. CASE i[2] = j[2]
    <3>1. i = j
      BY <2>1, <2>6
    <3> QED
      BY <1>6, <3>1
  <2>7. i[2] < j[2] \/ j[2] < i[2] \/ i[2] = j[2]
    BY <2>1
  <2> QED
    BY <2>4, <2>5, <2>6, <2>7
<1> QED
  BY <1>4, <1>5, <1>6 DEF AllOrNothing, Wins

\* A gate is entered at most once per occurrence and the effects of an
\* occurrence are applied together (runCompletionGates, settleCompletion,
\* recoverCompletionGates), however many gates, failures and restarts.
THEOREM GatesAllOrNothing == Spec => []AllOrNothing
BY Invariance, InvariantAllOrNothing, PTL

\* A Goal is done only on the word of a whole chain, and a Run completed only
\* past its gates or by one of the exits of continueAfterCompletionOnce.
THEOREM CompletionIsJustified == Spec => []CompletionJustified
<1>1. IInv => CompletionJustified
  BY DEF IInv, Completed, CompletionJustified
<1> QED
  BY <1>1, Invariance, PTL

-----------------------------------------------------------------------------
(* Every move of the journal is one that the Store accepts.                *)

Accepted == \A i \in Invocation : ext[i].status # "absent" => StoreAccepts(ext[i], ext'[i])

LEMMA MovedAccepted ==
  ASSUME MovedTo(ext')
  PROVE  Accepted
BY DEF MovedTo, Moves, Accepted

LEMMA SameAccepted ==
  ASSUME ext' = ext
  PROVE  Accepted
BY DEF Accepted, StoreAccepts

\* A chain is prepared where there was nothing.
LEMMA PreparesAccepted ==
  ASSUME IInv, NEW o, Prepares(o)
  PROVE  Accepted
<1>1. CASE o = "lost"
  BY <1>1, SameAccepted DEF Prepares
<1>2. CASE o # "lost"
  <2> SUFFICES ASSUME NEW i \in Invocation, ext[i].status # "absent"
               PROVE  ext'[i] = ext[i]
    BY DEF Accepted, StoreAccepts
  <2>1. ~(i[1] > used.occs) /\ i[1] \in 1..MaxOccurrences
    BY InvocationIs DEF IInv, Journal
  <2>2. used.occs \in Nat
    BY CompletionAssumption DEF IInv, Types
  <2>3. i[1] # used.occs + 1
    BY <2>1, <2>2
  <2> QED
    BY <1>2, <2>3 DEF Prepares
<1> QED
  BY <1>1, <1>2

LEMMA AbortAccepted ==
  ASSUME IInv, NEW from, NEW o, Abort(from, o),
         \/ rt.pc \in {"gate", "check"} /\ from = rt.idx
         \/ rt.pc = "finalize" /\ from = MaxGates + 1
  PROVE  Accepted
<1>1. MovedTo(Aborted(from)) /\ Commit(Aborted(from), o)
  BY AbortedMoved DEF IInv, Abort, CommitIfChanged
<1> QED
  BY <1>1, CommitIs, MovedAccepted DEF IInv

LEMMA ReturnsAccepted ==
  ASSUME IInv, NEW o, GateReturns(o)
  PROVE  Accepted
<1>1. rt.pc = "run"
  BY DEF GateReturns, At
<1>2. PICK status \in GateStatuses, verdict \in {"none", "complete", "continue"} :
        LET e == FinishEntry(Here(rt.idx), status, verdict, ResultContext(verdict))
            next == IF status = "succeeded" /\ rt.idx + 1 \in Chain THEN {rt.idx + 1} ELSE {}
        IN  /\ (status = "succeeded") <=> (verdict # "none")
            /\ ext' = ext \/ Commit(Answered(e, next), o)
  BY DEF GateReturns, Answered
<1> DEFINE e == FinishEntry(Here(rt.idx), status, verdict, ResultContext(verdict))
           next == IF status = "succeeded" /\ rt.idx + 1 \in Chain THEN {rt.idx + 1} ELSE {}
<1>3. (status = "succeeded") <=> (verdict # "none")
  BY <1>2
<1>4. /\ Moves(Here(rt.idx), e) /\ e.status = status /\ e.effect = "pending"
  BY <1>1, <1>3, Before, FinishMoves
<1>5. status \in TerminalStatuses
  BY DEF GateStatuses, TerminalStatuses
<1>6. next \in {{}, {rt.idx + 1}} /\ next \subseteq Chain
  OBVIOUS
<1>7. ext' = ext \/ Commit(Answered(e, next), o)
  BY <1>2
<1> HIDE DEF e, next
<1>8. MovedTo(Answered(e, next))
  BY <1>1, <1>4, <1>5, <1>6, ReturnMoved DEF IInv
<1>9. CASE ext' = ext
  BY <1>9, SameAccepted
<1>10. CASE Commit(Answered(e, next), o)
  BY <1>8, <1>10, CommitIs, MovedAccepted DEF IInv
<1> QED
  BY <1>7, <1>9, <1>10

LEMMA ChainAccepted ==
  ASSUME IInv, NEW o, o \in {"ok", "lost", "kept"},
         \/ GateEnter(o) \/ GateSuperseded(o) \/ GateStart(o) \/ GateReturns(o)
         \/ GateFailure(o) \/ Finalize(o) \/ Apply(o) \/ ApplyRetry(o)
  PROVE  Accepted
<1>1. CASE GateEnter(o)
  <2>1. rt.pc = "gate" /\ (ext' = ext \/ Abort(rt.idx, o))
    BY <1>1 DEF GateEnter, At
  <2> QED
    BY <2>1, SameAccepted, AbortAccepted
<1>2. CASE GateSuperseded(o)
  <2>1. rt.pc = "check" /\ (ext' = ext \/ Abort(rt.idx, o))
    BY <1>2 DEF GateSuperseded, At
  <2> QED
    BY <2>1, SameAccepted, AbortAccepted
<1>3. CASE GateStart(o)
  <2> DEFINE x == Rewrite([g \in {rt.idx} |-> StartEntry(Here(g))])
  <2>1. rt.pc = "check" /\ MayStart(Here(rt.idx)) /\ Commit(x, o)
    BY <1>3 DEF GateStart, Proceeds, At, CommitIfChanged
  <2>2. MovedTo(x)
    BY <2>1, StartMoved DEF IInv
  <2> HIDE DEF x
  <2> QED
    BY <2>1, <2>2, CommitIs, MovedAccepted DEF IInv
<1>4. CASE GateReturns(o)
  BY <1>4, ReturnsAccepted
<1>5. CASE GateFailure(o)
  <2>1. MovedTo(ext')
    BY <1>5, FailureMoved, CommitIs DEF IInv, GateFailure, At
  <2> QED
    BY <2>1, MovedAccepted
<1>6. CASE Finalize(o)
  <2>1. /\ rt.pc = "finalize"
        /\ Abort(MaxGates + 1, o) \/ Commit(Aborted(MaxGates + 1), o) \/ ext' = ext
    BY <1>6 DEF Finalize, At, CommitIfChanged
  <2>2. MovedTo(Aborted(MaxGates + 1))
    BY <2>1, AbortedMoved DEF IInv
  <2>3. CASE Commit(Aborted(MaxGates + 1), o)
    BY <2>2, <2>3, CommitIs, MovedAccepted DEF IInv
  <2> QED
    BY <2>1, <2>3, SameAccepted, AbortAccepted
<1>7. CASE Apply(o)
  <2>1. MovedTo(ext')
    BY <1>7, AppliedMoved, CommitIs DEF IInv, Apply, At
  <2> QED
    BY <2>1, MovedAccepted
<1>8. CASE ApplyRetry(o)
  <2>1. rt.pc = "applyRetry" /\ Commit(Retried, o)
    BY <1>8 DEF ApplyRetry, At, Retried, CommitIfChanged
  <2>2. MovedTo(ext')
    BY <2>1, RetryMoved, CommitIs DEF IInv
  <2> QED
    BY <2>2, MovedAccepted
<1> QED
  BY <1>1, <1>2, <1>3, <1>4, <1>5, <1>6, <1>7, <1>8

LEMMA EndAccepted ==
  ASSUME IInv, NEW o, o \in {"ok", "lost", "kept"},
         PrepareSettle(o) \/ Unsure(o) \/ Settle(o) \/ Mismatch(o) \/ FinishRun(o)
  PROVE  Accepted
<1>1. MovedTo(Unknown) /\ MovedTo(Settled)
  BY UnknownMoved, SettledMoved DEF IInv
<1>2. CASE PrepareSettle(o)
  <2>1. MovedTo(ext')
    BY <1>2, CanceledMoved, CommitIs DEF IInv, PrepareSettle, CommitIfChanged, At
  <2> QED
    BY <2>1, MovedAccepted
<1>3. CASE Commit(Unknown, o) \/ Commit(Settled, o)
  BY <1>1, <1>3, CommitIs, MovedAccepted DEF IInv
<1>4. CASE FinishRun(o)
  <2>1. ext' = ext \/ ext' = Unknown
    BY <1>4 DEF FinishRun
  <2> QED
    BY <1>1, <2>1, SameAccepted, MovedAccepted
<1> QED
  BY <1>2, <1>3, <1>4 DEF Unsure, Settle, Mismatch, CommitIfChanged

LEMMA NextAccepted ==
  ASSUME IInv, [Next]_vars
  PROVE  Accepted
<1>1. CASE Loop
  <2>1. CASE \/ ModelAnswers \/ FirstLook \/ GoalEvaluated \/ GoalWithoutGates
             \/ GateRestored \/ GateNotRestored \/ Hooks
    <3>1. ext' = ext
      BY <2>1 DEF ModelAnswers, FirstLook, GoalEvaluated, GoalWithoutGates, GateRestored,
                  GateNotRestored, Hooks
    <3> QED
      BY <3>1, SameAccepted
  <2>2. CASE Prepare
    <3>1. ext' = ext \/ \E o : Prepares(o)
      BY <2>2 DEF Prepare, Prepares
    <3> QED
      BY <3>1, SameAccepted, PreparesAccepted
  <2>3. ASSUME NEW o \in {"ok", "lost", "kept"}, SecondLook(o)
        PROVE  Accepted
    BY <2>3, SameAccepted DEF SecondLook
  <2>4. ASSUME NEW o \in {"ok", "lost", "kept"},
               PrepareSettle(o) \/ Unsure(o) \/ Settle(o) \/ Mismatch(o) \/ FinishRun(o)
        PROVE  Accepted
    BY <2>4, EndAccepted
  <2>5. ASSUME NEW o \in {"ok", "lost", "kept"},
               \/ GateEnter(o) \/ GateSuperseded(o) \/ GateStart(o) \/ GateReturns(o)
               \/ GateFailure(o) \/ Finalize(o) \/ Apply(o) \/ ApplyRetry(o)
        PROVE  Accepted
    BY <2>5, ChainAccepted
  <2> QED
    BY <1>1, <2>1, <2>2, <2>3, <2>4, <2>5 DEF Loop
<1>2. CASE Restart
  <2>1. ext' = Unknown
    BY <1>2 DEF Restart
  <2> QED
    BY <2>1, RecoveredIs, MovedAccepted
<1>3. CASE Environment \/ Idle \/ UNCHANGED vars
  <2>1. ext' = ext
    BY <1>3 DEF Environment, SetGoal, ChangeStatus, Steer, Withdraw, Cancel, Crash, Idle, vars
  <2> QED
    BY <2>1, SameAccepted
<1> QED
  BY <1>1, <1>2, <1>3 DEF Next

\* No commit of the Runtime is refused for its journal
\* (validateExtensionTransition): every entry it writes is a transition of the
\* one it read, whatever the Store's recovery and earlier commits left.
THEOREM EveryMoveAccepted == Spec => MovesAccepted
<1>1. IInv /\ [Next]_vars => [Accepted]_vars
  BY NextAccepted
<1>2. Spec => []IInv /\ [][Next]_vars
  BY Invariance DEF Spec
<1>3. Spec => [][Accepted]_vars
  BY <1>1, <1>2, PTL
<1> QED
  BY <1>3 DEF MovesAccepted, Accepted
=============================================================================
