-------------------------- MODULE SessionAggregateProofs --------------------------
(***************************************************************************)
(* What every change keeps of an aggregate, for all sets of identities:    *)
(* its type, and all that DocumentValid demands but for the claims of the  *)
(* Queue, which only the end of a transaction makes right (Sound).         *)
(*                                                                         *)
(* One lemma per change: X is sound when a is and CanX holds.  Appending a *)
(* fact is treated once, for all of History, and so is a batch of facts.   *)
(***************************************************************************)
EXTENDS SessionAggregate, Positions, FiniteSetTheorems, SequenceTheorems, TLAPS

-----------------------------------------------------------------------------
(* Positions.  The number of smaller positions tells a position apart, so  *)
(* it takes every value below the number of positions, and Nth is well     *)
(* defined.                                                                *)

Below(P, p) == {q \in P : q < p}

\* Positions are numbers.
LEMMA ElementsAreInt ==
  ASSUME NEW P \in SUBSET Int
  PROVE  \A p \in P : p \in Int
BY Zenon

\* The number of smaller positions grows with the position.
LEMMA RankGrows ==
  ASSUME NEW P \in SUBSET Int, IsFiniteSet(P), NEW p \in P, NEW r \in P, p < r
  PROVE  /\ Cardinality(Below(P, p)) \in Nat /\ Cardinality(Below(P, r)) \in Nat
         /\ Cardinality(Below(P, p)) < Cardinality(Below(P, r))
         /\ Cardinality(Below(P, r)) < Cardinality(P)
<1>1. IsFiniteSet(Below(P, p)) /\ IsFiniteSet(Below(P, r))
  BY FS_Subset DEF Below
<1>2. /\ Cardinality(Below(P, p)) \in Nat /\ Cardinality(Below(P, r)) \in Nat
      /\ Cardinality(P) \in Nat
  BY <1>1, FS_CardinalityType
<1>3. Below(P, p) \subseteq Below(P, r) /\ p \in Below(P, r) /\ p \notin Below(P, p)
  <2>1. p \in Int /\ r \in Int /\ \A q \in P : q \in Int
    BY ElementsAreInt
  <2>2. \A q \in P : q < p => q < r
    BY <2>1
  <2>3. ~(p < p)
    BY <2>1
  <2> QED
    BY <2>2, <2>3 DEF Below
<1>4. Cardinality(Below(P, p)) < Cardinality(Below(P, r))
  BY <1>1, <1>2, <1>3, FS_Subset
<1>5. Below(P, r) \subseteq P /\ r \notin Below(P, r)
  BY ElementsAreInt DEF Below
<1>6. Cardinality(Below(P, r)) < Cardinality(P)
  BY <1>2, <1>5, FS_Subset
<1> QED
  BY <1>2, <1>4, <1>6

\* A position has fewer smaller ones than there are positions.
LEMMA RankRange ==
  ASSUME NEW P \in SUBSET Int, IsFiniteSet(P), NEW p \in P
  PROVE  Cardinality(Below(P, p)) \in 0..(Cardinality(P) - 1)
<1>1. IsFiniteSet(Below(P, p)) /\ Below(P, p) \subseteq P /\ p \notin Below(P, p)
  BY ElementsAreInt, FS_Subset DEF Below
<1>2. Cardinality(Below(P, p)) \in Nat /\ Cardinality(P) \in Nat
  BY <1>1, FS_CardinalityType
<1>3. Cardinality(Below(P, p)) < Cardinality(P)
  BY <1>1, <1>2, FS_Subset
<1> QED
  BY <1>2, <1>3

\* Nth is a position, with k - 1 smaller ones.
LEMMA NthIs ==
  ASSUME NEW P \in SUBSET Int, IsFiniteSet(P), NEW k \in 1..Cardinality(P)
  PROVE  Nth(P, k) \in P /\ Cardinality(Below(P, Nth(P, k))) = k - 1
<1> DEFINE n == Cardinality(P)
           Ranks == 0..(n - 1)
           rank == [p \in P |-> Cardinality(Below(P, p))]
<1>1. n \in Nat
  BY FS_CardinalityType
<1>2. IsFiniteSet(Ranks) /\ Cardinality(Ranks) = n
  <2>1. 0 \in Int /\ n - 1 \in Int /\ (0 > n - 1 => n = 0)
    BY <1>1
  <2>2. /\ IsFiniteSet(0..(n - 1))
        /\ Cardinality(0..(n - 1)) = IF 0 > n - 1 THEN 0 ELSE (n - 1) - 0 + 1
    BY <2>1, FS_Interval
  <2> QED
    BY <1>1, <2>1, <2>2
<1>3. rank \in Injection(P, Ranks)
  <2>1. rank \in [P -> Ranks]
    BY RankRange
  <2>2. ASSUME NEW p \in P, NEW r \in P, rank[p] = rank[r]
        PROVE  p = r
    <3>1. CASE p < r
      BY <2>2, <3>1, RankGrows
    <3>2. CASE r < p
      BY <2>2, <3>2, RankGrows
    <3> QED
      BY <3>1, <3>2, ElementsAreInt
  <2> QED
    BY <2>1, <2>2 DEF Injection, IsInjective
<1>4. rank \in Surjection(P, Ranks)
  <2> HIDE DEF rank, Ranks
  <2> QED
    BY <1>2, <1>3, FS_Injection
<1>5. k - 1 \in Ranks
  BY <1>1
<1>6. \E p \in P : Cardinality(Below(P, p)) = k - 1
  BY <1>4, <1>5 DEF Surjection
<1> QED
  BY <1>6 DEF Nth, Below

\* The positions are taken in increasing order.
LEMMA NthIncreases ==
  ASSUME NEW P \in SUBSET Int, IsFiniteSet(P),
         NEW i \in 1..Cardinality(P), NEW j \in 1..Cardinality(P), i < j
  PROVE  Nth(P, i) < Nth(P, j)
<1>1. Nth(P, i) \in P /\ Nth(P, j) \in P
  BY NthIs
<1>2. Cardinality(Below(P, Nth(P, i))) = i - 1 /\ Cardinality(Below(P, Nth(P, j))) = j - 1
  BY NthIs
<1>3. Cardinality(P) \in Nat
  BY FS_CardinalityType
<1>4. Nth(P, i) # Nth(P, j)
  BY <1>2, <1>3
<1>5. ~(Nth(P, j) < Nth(P, i))
  <2>1. Nth(P, j) < Nth(P, i) => j - 1 < i - 1
    BY <1>1, <1>2, RankGrows
  <2> QED
    BY <1>3, <2>1
<1>6. Nth(P, i) \in Int /\ Nth(P, j) \in Int
  BY <1>1, ElementsAreInt
<1> QED
  BY <1>4, <1>5, <1>6

\* Every position is taken.
LEMMA NthCovers ==
  ASSUME NEW P \in SUBSET Int, IsFiniteSet(P), NEW p \in P
  PROVE  \E k \in 1..Cardinality(P) : Nth(P, k) = p
<1> DEFINE k == Cardinality(Below(P, p)) + 1
<1>1. k \in 1..Cardinality(P)
  BY RankRange, FS_CardinalityType
<1>2. Nth(P, k) \in P /\ Cardinality(Below(P, Nth(P, k))) = k - 1
  BY <1>1, NthIs
<1>3. Cardinality(Below(P, Nth(P, k))) = Cardinality(Below(P, p)) /\ Cardinality(Below(P, p)) \in Nat
  BY <1>2, RankRange
<1>4. Nth(P, k) = p
  <2> HIDE DEF k
  <2> DEFINE r == Nth(P, k)
  <2>1. r < p => Cardinality(Below(P, r)) < Cardinality(Below(P, p))
    BY <1>2, RankGrows
  <2>2. p < r => Cardinality(Below(P, p)) < Cardinality(Below(P, r))
    BY <1>2, RankGrows
  <2>3. r \in Int /\ p \in Int
    BY <1>2, ElementsAreInt
  <2> HIDE DEF r
  <2>4. ~(r < p) /\ ~(p < r)
    BY <1>3, <2>1, <2>2 DEF r
  <2> QED
    BY <2>3, <2>4 DEF r
<1> QED
  BY <1>1, <1>4

\* A selection is a sequence of the elements at its positions.
LEMMA SelectionIs ==
  ASSUME NEW S, NEW s \in Seq(S), NEW P \in SUBSET DOMAIN s
  PROVE  /\ IsFiniteSet(P) /\ P \in SUBSET Int /\ Cardinality(P) \in Nat
         /\ Selection(s, P) \in Seq(S) /\ Len(Selection(s, P)) = Cardinality(P)
         /\ \A k \in 1..Cardinality(P) : /\ Nth(P, k) \in P
                                         /\ Selection(s, P)[k] = s[Nth(P, k)]
         /\ \A p \in P : \E k \in 1..Cardinality(P) : Selection(s, P)[k] = s[p]
<1>1. DOMAIN s = 1..Len(s) /\ Len(s) \in Nat
  OBVIOUS
<1>2. IsFiniteSet(P) /\ P \in SUBSET Int
  <2>1. IsFiniteSet(1..Len(s))
    BY <1>1, FS_Interval
  <2> QED
    BY <1>1, <2>1, FS_Subset
<1>3. Cardinality(P) \in Nat
  BY <1>2, FS_CardinalityType
<1>4. ASSUME NEW k \in 1..Cardinality(P)
      PROVE  Nth(P, k) \in P /\ Selection(s, P)[k] = s[Nth(P, k)] /\ s[Nth(P, k)] \in S
  BY <1>1, <1>2, NthIs DEF Selection
<1>5. Selection(s, P) \in [1..Cardinality(P) -> S]
  BY <1>4 DEF Selection
<1>6. Selection(s, P) \in Seq(S) /\ Len(Selection(s, P)) = Cardinality(P)
  <2> HIDE DEF Selection
  <2> QED
    BY <1>3, <1>5
<1>7. \A p \in P : \E k \in 1..Cardinality(P) : Selection(s, P)[k] = s[p]
  BY <1>2, <1>4, NthCovers
<1> QED
  BY <1>2, <1>3, <1>4, <1>6, <1>7

-----------------------------------------------------------------------------
(* Sound aggregates.                                                       *)

HistoryValid(h) ==
  /\ MessagesUnique(h) /\ CallsPaired(h) /\ RunsPaired(h) /\ AttemptsPaired(h)
  /\ InsideRun(h) /\ OncePerRun(h)

QueueUnique(q) == \A i, j \in DOMAIN q : q[i].id = q[j].id => i = j

\* A valid document, but for the claims of its Queue.
Sound(a) ==
  /\ RunStateValid(a) /\ QueueUnique(a.queue) /\ JournalValid(a)
  /\ HistoryValid(a.history) /\ ContextValid(a) /\ ExtensionsValid(a)

-----------------------------------------------------------------------------
(* What one more fact does to a valid History.                             *)

\* The condition under which a fact may follow the History h: the union of
\* the CanX conditions that concern History.
Admissible(h, f) ==
  /\ f.kind = "message" => ~HasMessage(h, f.id)
  /\ f.kind = "call" =>
       /\ ~HasCall(h, f.id)
       /\ \E k \in DOMAIN h : /\ h[k].kind = "message" /\ h[k].id = f.ref
                              /\ h[k].val = "assistant" /\ h[k].run = f.run
  /\ f.kind = "result" => HasCall(h, f.id) /\ ~HasResult(h, f.id)
  /\ f.kind = "run" /\ f.val = "started" => ~RunHasStarted(h, f.id)
  /\ f.kind = "run" /\ f.val # "started" =>
       RunFrozen(h, f.id, f.cfg) /\ ~RunHasEnded(h, f.id)
  /\ f.kind = "attempt" /\ f.val = "started" =>
       /\ ~AttemptHasStarted(h, f.id)
       /\ RunFrozen(h, f.run, f.cfg) /\ ~RunHasEnded(h, f.run)
  /\ f.kind = "attempt" /\ f.val # "started" =>
       AttemptOf(h, f.id, f.run, f.cfg) /\ ~AttemptHasEnded(h, f.id)
  /\ f.kind \in {"context", "limit"} =>
       /\ RunHasStarted(h, f.run) /\ ~RunHasEnded(h, f.run)
       /\ ~ \E k \in DOMAIN h : h[k].kind = f.kind /\ h[k].run = f.run /\ h[k].id = f.id

\* Append keeps the old positions and adds one: the facts every proof about a
\* longer History starts from.
LEMMA AppendFacts ==
  ASSUME NEW S, NEW h \in Seq(S), NEW f \in S
  PROVE  /\ Append(h, f) \in Seq(S)
         /\ DOMAIN h = 1..Len(h) /\ Len(h) \in Nat
         /\ DOMAIN Append(h, f) = 1..(Len(h) + 1)
         /\ \A i \in 1..Len(h) : Append(h, f)[i] = h[i]
         /\ Append(h, f)[Len(h) + 1] = f
BY AppendProperties, LenProperties

\* Appending an admissible fact to a valid History leaves it valid
\* (validateHistoryConsistency accepts what applyChanges appended).
LEMMA HistoryAppend ==
  ASSUME NEW h \in Seq(Fact), NEW f \in Fact, HistoryValid(h), Admissible(h, f)
  PROVE  HistoryValid(Append(h, f))
<1> DEFINE n == Len(h)
           w == Append(h, f)
<1>1. /\ DOMAIN h = 1..n /\ n \in Nat /\ DOMAIN w = 1..(n + 1)
      /\ \A i \in 1..n : w[i] = h[i]
      /\ w[n + 1] = f
  BY AppendFacts
<1>2. \A i \in DOMAIN w : (i \in DOMAIN h /\ w[i] = h[i]) \/ (i = n + 1 /\ w[i] = f)
  BY <1>1
<1>3. \A i \in DOMAIN w :
        \/ /\ i \in DOMAIN h /\ w[i] = h[i]
           /\ \A k \in 1..(i - 1) : w[k] = h[k]
        \/ /\ w[i] = f /\ \A k : k \in 1..(i - 1) <=> k \in DOMAIN h
           /\ \A k \in DOMAIN h : w[k] = h[k]
  BY <1>1
<1> HIDE DEF w, n
<1>5. MessagesUnique(w)
  BY <1>1, <1>2 DEF MessagesUnique, HistoryValid, Admissible, HasMessage
<1>6. CallsPaired(w)
  <2>1. \A i, j \in DOMAIN w :
          w[i].kind = w[j].kind /\ w[i].kind \in {"call", "result"} /\ w[i].id = w[j].id
            => i = j
    BY <1>2 DEF CallsPaired, HistoryValid, Admissible, HasCall, HasResult
  <2>2. \A i \in DOMAIN w : w[i].kind = "call" =>
          \E k \in 1..(i - 1) : /\ w[k].kind = "message" /\ w[k].id = w[i].ref
                                /\ w[k].val = "assistant" /\ w[k].run = w[i].run
    BY <1>3 DEF CallsPaired, HistoryValid, Admissible
  <2>3. \A i \in DOMAIN w : w[i].kind = "result" =>
          \E k \in 1..(i - 1) : w[k].kind = "call" /\ w[k].id = w[i].id
    BY <1>3 DEF CallsPaired, HistoryValid, Admissible, HasCall
  <2> QED
    BY <2>1, <2>2, <2>3 DEF CallsPaired
<1>7. RunsPaired(w)
  <2>1. \A i, j \in DOMAIN w :
          /\ w[i].kind = "run" /\ w[j].kind = "run" /\ w[i].id = w[j].id
          /\ (w[i].val = "started") <=> (w[j].val = "started")
          => i = j
    BY <1>2 DEF RunsPaired, HistoryValid, Admissible, RunHasStarted, RunHasEnded
  <2>2. \A i \in DOMAIN w : w[i].kind = "run" /\ w[i].val # "started" =>
          \E k \in 1..(i - 1) : /\ w[k].kind = "run" /\ w[k].id = w[i].id
                                /\ w[k].val = "started" /\ w[k].cfg = w[i].cfg
    BY <1>3 DEF RunsPaired, HistoryValid, Admissible, RunFrozen
  <2> QED
    BY <2>1, <2>2 DEF RunsPaired
<1>8. AttemptsPaired(w)
  <2>1. \A i, j \in DOMAIN w :
          /\ w[i].kind = "attempt" /\ w[j].kind = "attempt" /\ w[i].id = w[j].id
          /\ (w[i].val = "started") <=> (w[j].val = "started")
          => i = j
    BY <1>2 DEF AttemptsPaired, HistoryValid, Admissible, AttemptHasStarted, AttemptHasEnded
  <2>2. \A i \in DOMAIN w : w[i].kind = "attempt" /\ w[i].val # "started" =>
          \E k \in 1..(i - 1) : /\ w[k].kind = "attempt" /\ w[k].id = w[i].id
                                /\ w[k].val = "started" /\ w[k].run = w[i].run
                                /\ w[k].cfg = w[i].cfg
    BY <1>3 DEF AttemptsPaired, HistoryValid, Admissible, AttemptOf
  <2> QED
    BY <2>1, <2>2 DEF AttemptsPaired
<1>9. InsideRun(w)
  <2> SUFFICES ASSUME NEW i \in DOMAIN w,
                      \/ w[i].kind = "attempt" /\ w[i].val = "started"
                      \/ w[i].kind \in {"context", "limit"}
               PROVE  /\ \E k \in 1..(i - 1) :
                           /\ w[k].kind = "run" /\ w[k].id = w[i].run
                           /\ w[k].val = "started"
                           /\ w[i].kind = "attempt" => w[k].cfg = w[i].cfg
                      /\ ~ \E k \in 1..(i - 1) :
                           /\ w[k].kind = "run" /\ w[k].id = w[i].run
                           /\ w[k].val # "started"
    BY DEF InsideRun
  <2>1. CASE i \in DOMAIN h /\ w[i] = h[i] /\ \A k \in 1..(i - 1) : w[k] = h[k]
    BY <2>1 DEF InsideRun, HistoryValid
  <2>2. CASE /\ w[i] = f /\ \A k : k \in 1..(i - 1) <=> k \in DOMAIN h
             /\ \A k \in DOMAIN h : w[k] = h[k]
    <3>1. ~RunHasEnded(h, f.run)
      BY <2>2 DEF Admissible
    <3>2. PICK p \in DOMAIN h : /\ h[p].kind = "run" /\ h[p].id = f.run
                                /\ h[p].val = "started"
                                /\ f.kind = "attempt" => h[p].cfg = f.cfg
      BY <2>2 DEF Admissible, RunFrozen, RunHasStarted
    <3>3. \E j \in 1..(i - 1) : /\ w[j].kind = "run" /\ w[j].id = w[i].run
                                /\ w[j].val = "started"
                                /\ w[i].kind = "attempt" => w[j].cfg = w[i].cfg
      BY <2>2, <3>2
    <3>4. ~ \E j \in 1..(i - 1) : /\ w[j].kind = "run" /\ w[j].id = w[i].run
                                  /\ w[j].val # "started"
      BY <2>2, <3>1 DEF RunHasEnded
    <3> QED
      BY <3>3, <3>4, Zenon
  <2> QED
    BY <1>3, <2>1, <2>2
<1>10. OncePerRun(w)
  BY <1>2 DEF OncePerRun, HistoryValid, Admissible
<1> QED
  BY <1>5, <1>6, <1>7, <1>8, <1>9, <1>10 DEF HistoryValid, w

-----------------------------------------------------------------------------
(* A longer History never hides what it showed.                            *)

\* What a History says of Runs, calls and results, it still says when
\* appendHistoryFact has added a fact; calls and results change by that fact.
LEMMA Monotone ==
  ASSUME NEW h \in Seq(Fact), NEW f \in Fact
  PROVE  /\ \A r, g : RunFrozen(h, r, g) => RunFrozen(Append(h, f), r, g)
         /\ \A c : HasCall(Append(h, f), c)
                     <=> HasCall(h, c) \/ (f.kind = "call" /\ f.id = c)
         /\ \A c : HasResult(Append(h, f), c)
                     <=> HasResult(h, c) \/ (f.kind = "result" /\ f.id = c)
         /\ \A c, s : ResultIs(h, c, s) => ResultIs(Append(h, f), c, s)
<1> DEFINE w == Append(h, f)
<1>1. /\ \A i \in DOMAIN w : (i \in DOMAIN h /\ w[i] = h[i]) \/ w[i] = f
      /\ \A i \in DOMAIN h : i \in DOMAIN w /\ w[i] = h[i]
      /\ \E i \in DOMAIN w : w[i] = f
  <2>1. Len(h) + 1 \in DOMAIN w
    BY AppendFacts
  <2> QED
    BY <2>1, AppendFacts
<1> HIDE DEF w
<1>2. \A r, g : RunFrozen(h, r, g) => RunFrozen(w, r, g)
  BY <1>1 DEF RunFrozen
<1>3. \A c : HasCall(w, c) <=> HasCall(h, c) \/ (f.kind = "call" /\ f.id = c)
  BY <1>1 DEF HasCall
<1>4. \A c : HasResult(w, c) <=> HasResult(h, c) \/ (f.kind = "result" /\ f.id = c)
  BY <1>1 DEF HasResult
<1>5. \A c, s : ResultIs(h, c, s) => ResultIs(w, c, s)
  BY <1>1 DEF ResultIs
<1> QED
  BY <1>2, <1>3, <1>4, <1>5 DEF w

\* The aggregate with one more fact.
With(a, f) == [a EXCEPT !.history = Append(a.history, f)]

\* Appending a fact changes History and no other field of the Snapshot.
LEMMA WithFields ==
  ASSUME NEW a \in Aggregate, NEW f \in Fact
  PROVE  /\ With(a, f) \in Aggregate
         /\ With(a, f).history = Append(a.history, f)
         /\ With(a, f).queue = a.queue /\ With(a, f).journal = a.journal
         /\ With(a, f).ext = a.ext /\ With(a, f).runState = a.runState
         /\ With(a, f).activeRun = a.activeRun /\ With(a, f).ctx = a.ctx
         /\ With(a, f).retained = a.retained
<1>1. a.history \in Seq(Fact)
  BY DEF Aggregate
<1>2. Append(a.history, f) \in Seq(Fact)
  BY <1>1, AppendFacts
<1> QED
  BY <1>2 DEF With, Aggregate

\* validateContext looks for the start fact of a Context's Run, and no append
\* removes one.
LEMMA ContextAppend ==
  ASSUME NEW a \in Aggregate, NEW f \in Fact, ContextValid(a)
  PROVE  ContextValid(With(a, f))
<1>1. a.history \in Seq(Fact)
  BY DEF Aggregate
<1> DEFINE b == With(a, f)
<1>2. \A r, g : RunFrozen(a.history, r, g) => RunFrozen(b.history, r, g)
  <2>1. b.history = Append(a.history, f)
    BY WithFields
  <2> HIDE DEF b
  <2> QED
    BY <1>1, <2>1, Monotone, Zenon
<1>3. b.ctx = a.ctx /\ b.retained = a.retained
  BY WithFields
<1> HIDE DEF b
<1>4. ContextValid(b)
  BY <1>2, <1>3 DEF ContextValid
<1> QED
  BY <1>4 DEF b

\* A fact that is neither a call nor a result keeps the aggregate sound.
LEMMA PlainFact ==
  ASSUME NEW a \in Aggregate, NEW f \in Fact, Sound(a), Admissible(a.history, f),
         f.kind \notin {"call", "result"}
  PROVE  With(a, f) \in Aggregate /\ Sound(With(a, f))
<1> DEFINE b == With(a, f)
<1>1. a.history \in Seq(Fact)
  BY DEF Aggregate
<1>2. HistoryValid(b.history)
  BY <1>1, HistoryAppend, WithFields DEF Sound
<1>3. ContextValid(b)
  BY ContextAppend DEF Sound
<1>4. /\ \A c : HasCall(b.history, c) <=> HasCall(a.history, c)
      /\ \A c : HasResult(b.history, c) <=> HasResult(a.history, c)
      /\ \A c, s : ResultIs(a.history, c, s) => ResultIs(b.history, c, s)
  <2>1. b.history = Append(a.history, f)
    BY WithFields
  <2> HIDE DEF b
  <2>2. /\ \A c : HasCall(Append(a.history, f), c) <=> HasCall(a.history, c)
        /\ \A c : HasResult(Append(a.history, f), c) <=> HasResult(a.history, c)
        /\ \A c, s : ResultIs(a.history, c, s) => ResultIs(Append(a.history, f), c, s)
    BY <1>1, Monotone, Zenon
  <2> QED
    BY <2>1, <2>2, Zenon
<1>5. /\ b \in Aggregate /\ b.queue = a.queue /\ b.journal = a.journal /\ b.ext = a.ext
      /\ b.runState = a.runState /\ b.activeRun = a.activeRun
  BY WithFields
<1> HIDE DEF b
<1>6. JournalValid(b)
  <2>1. \A r : Active(b, r) <=> Active(a, r)
    BY <1>5 DEF Active
  <2> QED
    BY <1>4, <1>5, <2>1, Zenon DEF JournalValid, Sound
<1>7. RunStateValid(b) /\ QueueUnique(b.queue) /\ ExtensionsValid(b)
  BY <1>5 DEF RunStateValid, ExtensionsValid, Sound
<1>8. b \in Aggregate /\ Sound(b)
  BY <1>2, <1>3, <1>5, <1>6, <1>7 DEF Sound
<1> QED
  BY <1>8 DEF b

-----------------------------------------------------------------------------
(* Tool calls: a fact and its journal entry change together.               *)

\* A call enters History with an unfinished entry of the active Run.
LEMMA AdmitSound ==
  ASSUME NEW a \in Aggregate, Sound(a), NEW c \in Calls, NEW m \in Messages,
         NEW r \in Runs, NEW s \in Unfinished, CanAdmitToolCall(a, c, m, r)
  PROVE  AdmitToolCall(a, c, m, r, s) \in Aggregate /\ Sound(AdmitToolCall(a, c, m, r, s))
<1> DEFINE f == [kind |-> "call", id |-> c, run |-> r, ref |-> m, val |-> "none",
                 cfg |-> None, num |-> 0]
           e == [status |-> s, run |-> r]
           b == [With(a, f) EXCEPT !.journal[c] = e]
<1>1. AdmitToolCall(a, c, m, r, s) = b
  BY DEF AdmitToolCall, Log, FactOf, With
<1>2. f \in Fact
  BY DEF Fact, FactKinds, FactIds
<1>3. Admissible(a.history, f)
  BY DEF Admissible, CanAdmitToolCall
<1>4. f.kind = "call" /\ f.id = c
  OBVIOUS
<1> HIDE DEF f
<1>5. a.history \in Seq(Fact) /\ a.journal \in [Calls -> JournalEntry]
  BY DEF Aggregate
<1>6. e \in JournalEntry
  BY DEF JournalEntry
<1>7. [a.journal EXCEPT ![c] = e] \in [Calls -> JournalEntry]
  BY <1>5, <1>6
<1>8. /\ b \in Aggregate /\ b.history = Append(a.history, f) /\ b.queue = a.queue
      /\ b.journal = [a.journal EXCEPT ![c] = e] /\ b.ext = a.ext
      /\ b.runState = a.runState /\ b.activeRun = a.activeRun
      /\ b.ctx = With(a, f).ctx /\ b.retained = With(a, f).retained
      /\ b.history = With(a, f).history
  BY <1>2, <1>7, WithFields DEF Aggregate
<1>9. /\ b.journal[c] = e
      /\ \A d \in Calls : d # c => b.journal[d] = a.journal[d]
  BY <1>5, <1>8
<1>10. e.status \in Unfinished /\ e.run = r
  OBVIOUS
<1> HIDE DEF e, b
<1>11. HistoryValid(b.history)
  BY <1>2, <1>3, <1>5, <1>8, HistoryAppend DEF Sound
<1>12. ContextValid(b)
  <2>1. ContextValid(With(a, f))
    BY <1>2, ContextAppend DEF Sound
  <2> QED
    BY <2>1, <1>8 DEF ContextValid
<1>13. JournalValid(b)
  <2>1. /\ \A d : HasCall(b.history, d) <=> HasCall(a.history, d) \/ d = c
        /\ \A d : HasResult(b.history, d) <=> HasResult(a.history, d)
        /\ \A d, t : ResultIs(a.history, d, t) => ResultIs(b.history, d, t)
    <3>1. /\ \A d : HasCall(Append(a.history, f), d)
                      <=> HasCall(a.history, d) \/ (f.kind = "call" /\ f.id = d)
          /\ \A d : HasResult(Append(a.history, f), d)
                      <=> HasResult(a.history, d) \/ (f.kind = "result" /\ f.id = d)
          /\ \A d, t : ResultIs(a.history, d, t) => ResultIs(Append(a.history, f), d, t)
      BY <1>2, <1>5, Monotone, Zenon
    <3> QED
      BY <1>4, <1>8, <3>1
  <2>2. \A t : Active(b, t) <=> Active(a, t)
    BY <1>8 DEF Active
  <2>3. ~HasResult(a.history, c)
    <3>1. ~HasCall(a.history, c)
      BY DEF CanAdmitToolCall
    <3>2. DOMAIN a.history = 1..Len(a.history) /\ Len(a.history) \in Nat
      BY <1>5
    <3>3. \A i \in DOMAIN a.history : \A k \in 1..(i - 1) : k \in DOMAIN a.history
      BY <3>2
    <3>4. \A i \in DOMAIN a.history : a.history[i].kind = "result" =>
            \E k \in 1..(i - 1) : a.history[k].kind = "call" /\ a.history[k].id = a.history[i].id
      BY DEF Sound, HistoryValid, CallsPaired
    <3> QED
      BY <3>1, <3>3, <3>4, Zenon DEF HasResult, HasCall
  <2>4. Active(a, r) /\ e.status # "absent" /\ e.status \notin JournalTerminal
    BY <1>10 DEF CanAdmitToolCall, Unfinished, JournalTerminal
  <2> SUFFICES ASSUME NEW d \in Calls
               PROVE  /\ b.journal[d].status \in Unfinished =>
                           Active(b, b.journal[d].run) /\ ~HasResult(b.history, d)
                      /\ b.journal[d].status # "absent" => HasCall(b.history, d)
                      /\ b.journal[d].status \in JournalTerminal =>
                           ResultIs(b.history, d, b.journal[d].status)
                      /\ HasCall(b.history, d) /\ ~HasResult(b.history, d) =>
                           b.journal[d].status \in Unfinished
    BY DEF JournalValid
  <2>5. CASE d = c
    BY <1>9, <1>10, <2>1, <2>2, <2>3, <2>4, <2>5, Zenon
  <2>6. CASE d # c
    BY <1>9, <2>1, <2>2, <2>6, Zenon DEF Sound, JournalValid
  <2> QED
    BY <2>5, <2>6
<1>14. RunStateValid(b) /\ QueueUnique(b.queue) /\ ExtensionsValid(b)
  BY <1>8 DEF RunStateValid, ExtensionsValid, Sound
<1> QED
  BY <1>1, <1>8, <1>11, <1>12, <1>13, <1>14 DEF Sound

\* A result enters History with the terminal entry of its call.
LEMMA SettleSound ==
  ASSUME NEW a \in Aggregate, Sound(a), NEW c \in Calls, NEW s \in JournalTerminal,
         a.journal[c].status \in Unfinished
  PROVE  SettleToolCall(a, c, s) \in Aggregate /\ Sound(SettleToolCall(a, c, s))
<1> DEFINE f == [kind |-> "result", id |-> c, run |-> a.journal[c].run, ref |-> None,
                 val |-> s, cfg |-> None, num |-> 0]
           e == [a.journal[c] EXCEPT !.status = s]
           b == [With(a, f) EXCEPT !.journal[c].status = s]
<1>1. SettleToolCall(a, c, s) = b
  BY DEF SettleToolCall, Log, FactOf, With
<1>2. a.history \in Seq(Fact) /\ a.journal \in [Calls -> JournalEntry]
  BY DEF Aggregate
<1>3. f \in Fact /\ e \in JournalEntry
  BY <1>2 DEF Fact, FactKinds, FactIds, JournalEntry
<1>4. HasCall(a.history, c) /\ ~HasResult(a.history, c)
  BY DEF Sound, JournalValid, Unfinished
<1>5. Admissible(a.history, f)
  BY <1>4 DEF Admissible
<1>6. f.kind = "result" /\ f.id = c /\ f.val = s /\ e.status = s
  BY <1>2 DEF JournalEntry
<1>7. [a.journal EXCEPT ![c] = e] \in [Calls -> JournalEntry]
  BY <1>2, <1>3
<1>8. /\ b \in Aggregate /\ b.history = Append(a.history, f) /\ b.queue = a.queue
      /\ b.journal = [a.journal EXCEPT ![c] = e] /\ b.ext = a.ext
      /\ b.runState = a.runState /\ b.activeRun = a.activeRun
      /\ b.ctx = With(a, f).ctx /\ b.retained = With(a, f).retained
      /\ b.history = With(a, f).history
  <2> HIDE DEF f
  <2>1. b = [With(a, f) EXCEPT !.journal = [a.journal EXCEPT ![c] = e]]
    BY <1>3, WithFields DEF Aggregate
  <2> HIDE DEF b, e
  <2> QED
    BY <1>3, <1>7, <2>1, WithFields DEF Aggregate
<1> HIDE DEF f
<1>9. /\ b.journal[c] = e
      /\ \A d \in Calls : d # c => b.journal[d] = a.journal[d]
  <2> HIDE DEF b, e
  <2> QED
    BY <1>2, <1>8
<1> HIDE DEF e, b
<1>11. HistoryValid(b.history)
  BY <1>2, <1>3, <1>5, <1>8, HistoryAppend DEF Sound
<1>12. ContextValid(b)
  <2>1. ContextValid(With(a, f))
    BY <1>3, ContextAppend DEF Sound
  <2> QED
    BY <2>1, <1>8 DEF ContextValid
<1>13. JournalValid(b)
  <2>1. /\ \A d : HasCall(b.history, d) <=> HasCall(a.history, d)
        /\ \A d : HasResult(b.history, d) <=> HasResult(a.history, d) \/ d = c
        /\ \A d, t : ResultIs(a.history, d, t) => ResultIs(b.history, d, t)
    <3>1. /\ \A d : HasCall(Append(a.history, f), d)
                      <=> HasCall(a.history, d) \/ (f.kind = "call" /\ f.id = d)
          /\ \A d : HasResult(Append(a.history, f), d)
                      <=> HasResult(a.history, d) \/ (f.kind = "result" /\ f.id = d)
          /\ \A d, t : ResultIs(a.history, d, t) => ResultIs(Append(a.history, f), d, t)
      BY <1>2, <1>3, Monotone, Zenon
    <3> QED
      BY <1>6, <1>8, <3>1
  <2>2. \A t : Active(b, t) <=> Active(a, t)
    BY <1>8 DEF Active
  <2>3. ResultIs(b.history, c, s)
    <3>1. /\ Len(a.history) + 1 \in DOMAIN Append(a.history, f)
          /\ Append(a.history, f)[Len(a.history) + 1] = f
      BY <1>2, <1>3, AppendFacts
    <3> QED
      BY <1>6, <1>8, <3>1 DEF ResultIs
  <2>4. s \notin Unfinished
    BY DEF Unfinished, JournalTerminal
  <2> SUFFICES ASSUME NEW d \in Calls
               PROVE  /\ b.journal[d].status \in Unfinished =>
                           Active(b, b.journal[d].run) /\ ~HasResult(b.history, d)
                      /\ b.journal[d].status # "absent" => HasCall(b.history, d)
                      /\ b.journal[d].status \in JournalTerminal =>
                           ResultIs(b.history, d, b.journal[d].status)
                      /\ HasCall(b.history, d) /\ ~HasResult(b.history, d) =>
                           b.journal[d].status \in Unfinished
    BY DEF JournalValid
  <2>5. CASE d = c
    BY <1>4, <1>6, <1>9, <2>1, <2>3, <2>4, <2>5, Zenon
  <2>6. CASE d # c
    BY <1>9, <2>1, <2>2, <2>6, Zenon DEF Sound, JournalValid
  <2> QED
    BY <2>5, <2>6
<1>14. RunStateValid(b) /\ QueueUnique(b.queue) /\ ExtensionsValid(b)
  BY <1>8 DEF RunStateValid, ExtensionsValid, Sound
<1> QED
  BY <1>1, <1>8, <1>11, <1>12, <1>13, <1>14 DEF Sound

\* The execution boundary of a prepared call.
LEMMA PendingSound ==
  ASSUME NEW a \in Aggregate, Sound(a), NEW c \in Calls, NEW r \in Runs,
         a.journal[c].status = "prepared", CanMarkPending(a, c, r)
  PROVE  MarkPending(a, c, r) \in Aggregate /\ Sound(MarkPending(a, c, r))
<1> DEFINE e == [status |-> "pending", run |-> r]
           b == [a EXCEPT !.journal[c] = e]
<1>1. a.journal \in [Calls -> JournalEntry] /\ e \in JournalEntry
  BY DEF Aggregate, JournalEntry, Unfinished
<1>2. [a.journal EXCEPT ![c] = e] \in [Calls -> JournalEntry]
  BY <1>1
<1>3. /\ b \in Aggregate /\ b.history = a.history /\ b.queue = a.queue
      /\ b.journal = [a.journal EXCEPT ![c] = e] /\ b.ext = a.ext
      /\ b.runState = a.runState /\ b.activeRun = a.activeRun
      /\ b.ctx = a.ctx /\ b.retained = a.retained
  BY <1>2 DEF Aggregate
<1>4. /\ b.journal[c].status = "pending" /\ b.journal[c].run = r
      /\ \A d \in Calls : d # c => b.journal[d] = a.journal[d]
  BY <1>1, <1>3
<1>5. a.journal[c].run = r
  BY DEF CanMarkPending
<1>6. MarkPending(a, c, r) = b
  BY DEF MarkPending
<1> HIDE DEF b, e
<1>7. JournalValid(b)
  BY <1>3, <1>4, <1>5 DEF Sound, JournalValid, Active, Unfinished, JournalTerminal
<1> QED
  BY <1>3, <1>6, <1>7 DEF Sound, RunStateValid, ExtensionsValid, ContextValid

-----------------------------------------------------------------------------
(* The Queue.                                                              *)

\* A function on 1..n is a sequence of length n: how the Queue and the
\* ExtensionJournal are rewritten item by item.
LEMMA SeqByIndex ==
  ASSUME NEW S, NEW n \in Nat, NEW f \in [1..n -> S]
  PROVE  f \in Seq(S) /\ DOMAIN f = 1..n
BY SeqDef

\* Nothing but its claims ties the Queue to the rest of the aggregate.
LEMMA QueueOnly ==
  ASSUME NEW a \in Aggregate, Sound(a), NEW q \in Seq(QueueItem), QueueUnique(q)
  PROVE  [a EXCEPT !.queue = q] \in Aggregate /\ Sound([a EXCEPT !.queue = q])
<1> DEFINE b == [a EXCEPT !.queue = q]
<1>1. /\ b \in Aggregate /\ b.history = a.history /\ b.queue = q
      /\ b.journal = a.journal /\ b.ext = a.ext
      /\ b.runState = a.runState /\ b.activeRun = a.activeRun
      /\ b.ctx = a.ctx /\ b.retained = a.retained
  BY DEF Aggregate
<1> HIDE DEF b
<1>2. JournalValid(b)
  BY <1>1 DEF Sound, JournalValid, Active
<1>3. b \in Aggregate /\ Sound(b)
  BY <1>1, <1>2 DEF Sound, RunStateValid, ExtensionsValid, ContextValid
<1> QED
  BY <1>3 DEF b

\* EnqueueMessage: the refused duplicate identity is what keeps the Queue's
\* identities unique.
LEMMA EnqueueSound ==
  ASSUME NEW a \in Aggregate, Sound(a), NEW m \in Messages, NEW d \in Deliveries,
         CanEnqueue(a, m)
  PROVE  Enqueue(a, m, d) \in Aggregate /\ Sound(Enqueue(a, m, d))
<1> DEFINE it == [id |-> m, delivery |-> d, claimedBy |-> None]
           q == Append(a.queue, it)
<1>1. a.queue \in Seq(QueueItem) /\ it \in QueueItem /\ it.id = m
  BY DEF Aggregate, QueueItem
<1>2. Enqueue(a, m, d) = [a EXCEPT !.queue = q]
  BY DEF Enqueue
<1> HIDE DEF it
<1>3. /\ q \in Seq(QueueItem)
      /\ \A i \in DOMAIN q : (i \in DOMAIN a.queue /\ q[i] = a.queue[i])
                               \/ (i = Len(a.queue) + 1 /\ q[i] = it)
  BY <1>1, AppendFacts
<1> HIDE DEF q
<1>4. QueueUnique(q)
  BY <1>1, <1>3 DEF QueueUnique, Sound, CanEnqueue, InQueue
<1> QED
  BY <1>2, <1>3, <1>4, QueueOnly

\* ClaimQueueItem rewrites the claim of an item and keeps every identity.
LEMMA ClaimSound ==
  ASSUME NEW a \in Aggregate, Sound(a), NEW m \in Messages, NEW r \in Runs
  PROVE  Claim(a, m, r) \in Aggregate /\ Sound(Claim(a, m, r))
<1> DEFINE q == [i \in DOMAIN a.queue |->
                   IF a.queue[i].id = m THEN [a.queue[i] EXCEPT !.claimedBy = r]
                   ELSE a.queue[i]]
<1>1. /\ a.queue \in Seq(QueueItem) /\ DOMAIN a.queue = 1..Len(a.queue)
      /\ Len(a.queue) \in Nat /\ \A i \in DOMAIN a.queue : a.queue[i] \in QueueItem
  BY DEF Aggregate
<1>2. \A i \in DOMAIN a.queue : q[i] \in QueueItem /\ q[i].id = a.queue[i].id
  BY <1>1 DEF QueueItem
<1>3. q \in [1..Len(a.queue) -> QueueItem]
  BY <1>1, <1>2
<1>4. q \in Seq(QueueItem) /\ DOMAIN q = DOMAIN a.queue
  BY <1>1, <1>3, SeqByIndex
<1>5. Claim(a, m, r) = [a EXCEPT !.queue = q]
  BY DEF Claim
<1> HIDE DEF q
<1>6. QueueUnique(q)
  BY <1>2, <1>4 DEF QueueUnique, Sound
<1> QED
  BY <1>4, <1>5, <1>6, QueueOnly

\* ReclassifyQueueItem rewrites the delivery of an item and keeps every
\* identity.
LEMMA ReclassifySound ==
  ASSUME NEW a \in Aggregate, Sound(a), NEW m \in Messages, NEW d \in Deliveries
  PROVE  Reclassify(a, m, d) \in Aggregate /\ Sound(Reclassify(a, m, d))
<1> DEFINE q == [i \in DOMAIN a.queue |->
                   IF a.queue[i].id = m THEN [a.queue[i] EXCEPT !.delivery = d]
                   ELSE a.queue[i]]
<1>1. /\ a.queue \in Seq(QueueItem) /\ DOMAIN a.queue = 1..Len(a.queue)
      /\ Len(a.queue) \in Nat /\ \A i \in DOMAIN a.queue : a.queue[i] \in QueueItem
  BY DEF Aggregate
<1>2. \A i \in DOMAIN a.queue : q[i] \in QueueItem /\ q[i].id = a.queue[i].id
  BY <1>1 DEF QueueItem
<1>3. q \in [1..Len(a.queue) -> QueueItem]
  BY <1>1, <1>2
<1>4. q \in Seq(QueueItem) /\ DOMAIN q = DOMAIN a.queue
  BY <1>1, <1>3, SeqByIndex
<1>5. Reclassify(a, m, d) = [a EXCEPT !.queue = q]
  BY DEF Reclassify
<1> HIDE DEF q
<1>6. QueueUnique(q)
  BY <1>2, <1>4 DEF QueueUnique, Sound
<1> QED
  BY <1>4, <1>5, <1>6, QueueOnly

\* Consuming or deleting an item leaves a Queue of unique identities.
LEMMA WithoutSound ==
  ASSUME NEW a \in Aggregate, Sound(a), NEW m \in Messages, InQueue(a.queue, m)
  PROVE  /\ [a EXCEPT !.queue = WithoutItem(a.queue, m)] \in Aggregate
         /\ Sound([a EXCEPT !.queue = WithoutItem(a.queue, m)])
<1> DEFINE n == Len(a.queue)
           p == PositionOf(a.queue, m)
           q == WithoutItem(a.queue, m)
<1>1. /\ a.queue \in Seq(QueueItem) /\ DOMAIN a.queue = 1..n /\ n \in Nat
      /\ \A i \in DOMAIN a.queue : a.queue[i] \in QueueItem
  BY DEF Aggregate
<1>2. p \in 1..n
  BY <1>1 DEF InQueue, PositionOf
<1>3. q = [i \in 1..(n - 1) |-> IF i < p THEN a.queue[i] ELSE a.queue[i + 1]]
  BY DEF WithoutItem
<1> HIDE DEF p, q
<1>4. n - 1 \in Nat
  BY <1>1, <1>2
<1>5. q \in [1..(n - 1) -> QueueItem]
  BY <1>1, <1>2, <1>3, <1>4
<1>6. q \in Seq(QueueItem) /\ DOMAIN q = 1..(n - 1)
  BY <1>4, <1>5, SeqByIndex
<1>7. QueueUnique(q)
  <2> SUFFICES ASSUME NEW i \in DOMAIN q, NEW j \in DOMAIN q, q[i].id = q[j].id
               PROVE  i = j
    BY DEF QueueUnique
  <2> DEFINE old(k) == IF k < p THEN k ELSE k + 1
  <2>1. /\ old(i) \in DOMAIN a.queue /\ q[i] = a.queue[old(i)]
        /\ old(j) \in DOMAIN a.queue /\ q[j] = a.queue[old(j)]
    BY <1>1, <1>2, <1>3, <1>6
  <2>2. i \in Int /\ j \in Int /\ p \in Int
    BY <1>2, <1>6
  <2>3. old(i) = old(j)
    <3> HIDE DEF old
    <3> QED
      BY <2>1 DEF QueueUnique, Sound
  <2> QED
    BY <2>2, <2>3
<1>8. [a EXCEPT !.queue = q] \in Aggregate /\ Sound([a EXCEPT !.queue = q])
  BY <1>6, <1>7, QueueOnly
<1> QED
  BY <1>8 DEF q

-----------------------------------------------------------------------------
(* The run state, the Context and the ExtensionJournal.                    *)

\* No unfinished call is left behind when the active Run changes.
LEMMA RunStateSound ==
  ASSUME NEW a \in Aggregate, Sound(a),
         \A c \in Calls : a.journal[c].status \notin Unfinished
  PROVE  /\ SetIdle(a) \in Aggregate /\ Sound(SetIdle(a))
         /\ \A r \in Runs : SetRunning(a, r) \in Aggregate /\ Sound(SetRunning(a, r))
<1>1. ASSUME NEW b \in Aggregate, RunStateValid(b), b.history = a.history,
             b.queue = a.queue, b.journal = a.journal, b.ext = a.ext, b.ctx = a.ctx,
             b.retained = a.retained
      PROVE  Sound(b)
  <2>1. JournalValid(b)
    BY <1>1 DEF Sound, JournalValid
  <2> QED
    BY <1>1, <2>1 DEF Sound, ExtensionsValid, ContextValid
<1>2. SetIdle(a) \in Aggregate /\ RunStateValid(SetIdle(a))
  BY DEF SetIdle, Aggregate, RunStateValid
<1>3. /\ SetIdle(a).history = a.history /\ SetIdle(a).queue = a.queue
      /\ SetIdle(a).journal = a.journal /\ SetIdle(a).ext = a.ext
      /\ SetIdle(a).ctx = a.ctx /\ SetIdle(a).retained = a.retained
  BY DEF SetIdle, Aggregate
<1>4. ASSUME NEW r \in Runs
      PROVE  SetRunning(a, r) \in Aggregate /\ Sound(SetRunning(a, r))
  <2>1. SetRunning(a, r) \in Aggregate /\ RunStateValid(SetRunning(a, r))
    BY NoneAssumption DEF SetRunning, Aggregate, RunStateValid
  <2>2. /\ SetRunning(a, r).history = a.history /\ SetRunning(a, r).queue = a.queue
        /\ SetRunning(a, r).journal = a.journal /\ SetRunning(a, r).ext = a.ext
        /\ SetRunning(a, r).ctx = a.ctx /\ SetRunning(a, r).retained = a.retained
    BY DEF SetRunning, Aggregate
  <2> QED
    BY <1>1, <2>1, <2>2
<1> QED
  BY <1>1, <1>2, <1>3, <1>4

\* SetContext: the version grows, so the retained versions stay increasing and
\* below the current one.
LEMMA ContextSound ==
  ASSUME NEW a \in Aggregate, Sound(a), NEW r \in Runs, NEW g \in Configs,
         NEW retain \in BOOLEAN, CanSetContext(a, r, g)
  PROVE  SetContext(a, r, g, retain) \in Aggregate /\ Sound(SetContext(a, r, g, retain))
<1> DEFINE v == [version |-> a.ctx.version + 1, run |-> r, cfg |-> g]
           kept == IF ~retain THEN <<>>
                   ELSE IF a.ctx.version # 0 THEN Append(a.retained, a.ctx) ELSE a.retained
           b == [a EXCEPT !.ctx = v, !.retained = kept]
<1>1. SetContext(a, r, g, retain) = b
  BY DEF SetContext
<1>2. a.ctx \in ContextView /\ a.retained \in Seq(ContextView) /\ a.ctx.version \in Nat
  BY DEF Aggregate, ContextView
<1>3. v \in ContextView /\ v.version = a.ctx.version + 1 /\ v.run = r /\ v.cfg = g
  BY <1>2 DEF ContextView
<1>4. kept \in Seq(ContextView)
  BY <1>2
<1>5. \A i \in DOMAIN kept :
        /\ kept[i].version \in 1..(v.version - 1)
        /\ RunFrozen(a.history, kept[i].run, kept[i].cfg)
  <2>1. CASE kept = <<>>
    BY <2>1
  <2>2. CASE kept = a.retained
    <3>1. \A i \in DOMAIN a.retained :
            /\ a.retained[i].version \in 1..(a.ctx.version - 1)
            /\ RunFrozen(a.history, a.retained[i].run, a.retained[i].cfg)
      BY DEF Sound, ContextValid
    <3> HIDE DEF kept, v
    <3> QED
      BY <1>2, <1>3, <2>2, <3>1
  <2>3. CASE kept = Append(a.retained, a.ctx) /\ a.ctx.version # 0
    <3>1. \A i \in DOMAIN a.retained :
            /\ a.retained[i].version \in 1..(a.ctx.version - 1)
            /\ RunFrozen(a.history, a.retained[i].run, a.retained[i].cfg)
      BY DEF Sound, ContextValid
    <3>2. RunFrozen(a.history, a.ctx.run, a.ctx.cfg)
      BY <2>3 DEF Sound, ContextValid
    <3>3. \A i \in DOMAIN kept : (i \in DOMAIN a.retained /\ kept[i] = a.retained[i])
                                   \/ kept[i] = a.ctx
      BY <1>2, <2>3, AppendFacts
    <3> HIDE DEF kept, v
    <3> QED
      <4>1. ASSUME NEW i \in DOMAIN kept
            PROVE  kept[i].version \in 1..(v.version - 1)
        <5>1. CASE i \in DOMAIN a.retained /\ kept[i] = a.retained[i]
          BY <1>2, <1>3, <3>1, <5>1
        <5>2. CASE kept[i] = a.ctx
          BY <1>2, <1>3, <2>3, <5>2
        <5> QED
          BY <3>3, <5>1, <5>2
      <4>2. \A i \in DOMAIN kept : RunFrozen(a.history, kept[i].run, kept[i].cfg)
        BY <3>1, <3>2, <3>3, Zenon
      <4> QED
        BY <4>1, <4>2
  <2> QED
    BY <2>1, <2>2, <2>3
<1>6. \A i, j \in DOMAIN kept : i < j => kept[i].version < kept[j].version
  <2>1. CASE kept = <<>>
    BY <2>1
  <2>2. CASE kept = a.retained
    BY <2>2 DEF Sound, ContextValid
  <2>3. CASE kept = Append(a.retained, a.ctx) /\ a.ctx.version # 0
    <3>1. /\ \A i \in DOMAIN a.retained : a.retained[i].version \in 1..(a.ctx.version - 1)
          /\ \A i, j \in DOMAIN a.retained :
               i < j => a.retained[i].version < a.retained[j].version
      BY DEF Sound, ContextValid
    <3>2. /\ DOMAIN a.retained = 1..Len(a.retained) /\ Len(a.retained) \in Nat
          /\ DOMAIN kept = 1..(Len(a.retained) + 1)
          /\ \A i \in DOMAIN kept :
               (i \in DOMAIN a.retained /\ kept[i] = a.retained[i])
                 \/ (i = Len(a.retained) + 1 /\ kept[i] = a.ctx)
      BY <1>2, <2>3, AppendFacts
    <3> HIDE DEF kept
    <3> QED
      BY <1>2, <3>1, <3>2
  <2> QED
    BY <2>1, <2>2, <2>3
<1> HIDE DEF v, kept
<1>7. /\ b \in Aggregate /\ b.history = a.history /\ b.queue = a.queue
      /\ b.journal = a.journal /\ b.ext = a.ext
      /\ b.runState = a.runState /\ b.activeRun = a.activeRun
      /\ b.ctx = v /\ b.retained = kept
  BY <1>3, <1>4 DEF Aggregate
<1> HIDE DEF b
<1>8. ContextValid(b)
  BY <1>3, <1>5, <1>6, <1>7 DEF ContextValid, CanSetContext
<1>9. JournalValid(b)
  BY <1>7 DEF Sound, JournalValid, Active
<1> QED
  BY <1>1, <1>7, <1>8, <1>9 DEF Sound, RunStateValid, ExtensionsValid

\* The ExtensionJournal is tied to nothing else in the aggregate.
LEMMA ExtensionsOnly ==
  ASSUME NEW a \in Aggregate, Sound(a),
         NEW x \in Seq(EntryOf(Invocations, Runs \cup {None})),
         \A i \in DOMAIN x : EntryShape(x[i], None),
         \A i, j \in DOMAIN x : x[i].inv = x[j].inv => i = j
  PROVE  [a EXCEPT !.ext = x] \in Aggregate /\ Sound([a EXCEPT !.ext = x])
<1> DEFINE b == [a EXCEPT !.ext = x]
<1>1. /\ b \in Aggregate /\ b.history = a.history /\ b.queue = a.queue
      /\ b.journal = a.journal /\ b.ext = x
      /\ b.runState = a.runState /\ b.activeRun = a.activeRun
      /\ b.ctx = a.ctx /\ b.retained = a.retained
  BY DEF Aggregate
<1> HIDE DEF b
<1>2. JournalValid(b)
  BY <1>1 DEF Sound, JournalValid, Active
<1>3. b \in Aggregate /\ Sound(b)
  BY <1>1, <1>2 DEF Sound, RunStateValid, ExtensionsValid, ContextValid
<1> QED
  BY <1>3 DEF b

\* A new ExtensionJournal entry has its own invocation and a valid shape.
LEMMA AddEntrySound ==
  ASSUME NEW a \in Aggregate, Sound(a), NEW e \in EntryOf(Invocations, Runs \cup {None}),
         CanAddEntry(a, e)
  PROVE  AddEntry(a, e) \in Aggregate /\ Sound(AddEntry(a, e))
<1> DEFINE x == Append(a.ext, e)
<1>1. a.ext \in Seq(EntryOf(Invocations, Runs \cup {None}))
  BY DEF Aggregate
<1>2. /\ x \in Seq(EntryOf(Invocations, Runs \cup {None}))
      /\ \A i \in DOMAIN x : (i \in DOMAIN a.ext /\ x[i] = a.ext[i])
                               \/ (i = Len(a.ext) + 1 /\ x[i] = e)
  BY <1>1, AppendFacts
<1>3. AddEntry(a, e) = [a EXCEPT !.ext = x]
  BY DEF AddEntry
<1> HIDE DEF x
<1>4. /\ \A i \in DOMAIN x : EntryShape(x[i], None)
      /\ \A i, j \in DOMAIN x : x[i].inv = x[j].inv => i = j
  BY <1>2 DEF Sound, ExtensionsValid, CanAddEntry
<1> QED
  BY <1>2, <1>3, <1>4, ExtensionsOnly

\* An update of an ExtensionJournal entry keeps its identity and is valid at
\* rest.
LEMMA UpdateEntrySound ==
  ASSUME NEW a \in Aggregate, Sound(a), NEW i \in DOMAIN a.ext,
         NEW e \in EntryOf(Invocations, Runs \cup {None}), CanUpdateEntry(a, i, e)
  PROVE  UpdateEntry(a, i, e) \in Aggregate /\ Sound(UpdateEntry(a, i, e))
<1> DEFINE x == [a.ext EXCEPT ![i] = e]
<1>1. a.ext \in Seq(EntryOf(Invocations, Runs \cup {None})) /\ i \in 1..Len(a.ext)
  BY DEF Aggregate
<1>2. /\ x \in Seq(EntryOf(Invocations, Runs \cup {None})) /\ DOMAIN x = DOMAIN a.ext
      /\ x[i] = e /\ \A j \in DOMAIN a.ext : j # i => x[j] = a.ext[j]
  BY <1>1, ExceptSeq
<1>3. UpdateEntry(a, i, e) = [a EXCEPT !.ext = x]
  BY DEF UpdateEntry
<1> HIDE DEF x
<1>4. e.inv = a.ext[i].inv /\ EntryShape(e, None)
  BY DEF CanUpdateEntry, SameIdentity
<1>5. /\ \A j \in DOMAIN x : EntryShape(x[j], None)
      /\ \A j, k \in DOMAIN x : x[j].inv = x[k].inv => j = k
  BY <1>2, <1>4 DEF Sound, ExtensionsValid
<1> QED
  BY <1>2, <1>3, <1>5, ExtensionsOnly

-----------------------------------------------------------------------------
(* Recovery.                                                               *)

\* recoverAggregate's resolution of pending invocations leaves valid entries.
LEMMA RecoverExtensionsSound ==
  ASSUME NEW a \in Aggregate, Sound(a)
  PROVE  RecoverExtensions(a) \in Aggregate /\ Sound(RecoverExtensions(a))
<1> DEFINE x == [i \in DOMAIN a.ext |-> RecoverEntry(a.ext[i])]
           E == EntryOf(Invocations, Runs \cup {None})
<1>1. /\ a.ext \in Seq(E) /\ DOMAIN a.ext = 1..Len(a.ext) /\ Len(a.ext) \in Nat
      /\ \A i \in DOMAIN a.ext : a.ext[i] \in E
  <2>1. a.ext \in Seq(E)
    BY DEF Aggregate
  <2> HIDE DEF E
  <2> QED
    BY <2>1, LenProperties
<1>2. ASSUME NEW e \in E, EntryShape(e, None)
      PROVE  RecoverEntry(e) \in E /\ EntryShape(RecoverEntry(e), None)
               /\ RecoverEntry(e).inv = e.inv
  <2>1. CASE e.status = "pending"
    <3> DEFINE d == [e EXCEPT !.status = "outcome_unknown", !.effect = "pending"]
    <3>1. /\ d \in E /\ d.inv = e.inv /\ d.run = e.run /\ d.boundary = e.boundary
          /\ d.status = "outcome_unknown" /\ d.effect = "pending"
          /\ d.context = e.context /\ d.decision = e.decision
      BY DEF EntryOf, Statuses, TerminalStatuses, Effects
    <3>2. e.decision = "none" /\ e.context = "none"
      BY <1>2, <2>1 DEF EntryShape, StatusShape, ContextShape, EntryOf, Contexts
    <3> HIDE DEF d
    <3>3. EntryShape(d, None)
      BY <1>2, <3>1, <3>2 DEF EntryShape, SubjectShape, StatusShape, ContextShape,
                              TerminalStatuses
    <3> QED
      BY <2>1, <3>1, <3>3 DEF RecoverEntry, d
  <2> QED
    BY <1>2, <2>1 DEF RecoverEntry
<1>3. \A i \in DOMAIN a.ext : /\ x[i] \in E /\ EntryShape(x[i], None)
                              /\ x[i].inv = a.ext[i].inv
  BY <1>1, <1>2 DEF Sound, ExtensionsValid
<1>4. x \in [1..Len(a.ext) -> E]
  BY <1>1, <1>3
<1>5. x \in Seq(E) /\ DOMAIN x = DOMAIN a.ext
  BY <1>1, <1>4, SeqByIndex
<1>6. RecoverExtensions(a) = [a EXCEPT !.ext = x]
  BY DEF RecoverExtensions
<1> HIDE DEF x
<1>7. \A i, j \in DOMAIN x : x[i].inv = x[j].inv => i = j
  BY <1>3, <1>5 DEF Sound, ExtensionsValid
<1> QED
  BY <1>3, <1>5, <1>6, <1>7, ExtensionsOnly

\* Recovering a pending call is settling it with an unknown outcome.
LEMMA RecoverCallSound ==
  ASSUME NEW a \in Aggregate, Sound(a), NEW c \in Calls, a.journal[c].status = "pending"
  PROVE  RecoverCall(a, c) \in Aggregate /\ Sound(RecoverCall(a, c))
<1>1. ~HasResult(a.history, c)
  BY DEF Sound, JournalValid, Unfinished
<1>2. RecoverCall(a, c) = SettleToolCall(a, c, "outcome_unknown")
  BY <1>1 DEF RecoverCall, SettleToolCall
<1>3. "outcome_unknown" \in JournalTerminal /\ a.journal[c].status \in Unfinished
  BY DEF JournalTerminal, Unfinished
<1> QED
  BY <1>2, <1>3, SettleSound

\* The Run that nothing can continue ends, and no claim survives it.
LEMMA InterruptSound ==
  ASSUME NEW a \in Aggregate, Sound(a), ClaimsBelong(a), NEW g \in Configs,
         a.runState = "running", ~Recoverable(a),
         \A c \in Calls : a.journal[c].status # "pending"
  PROVE  /\ InterruptRun(a, g) \in Aggregate /\ Sound(InterruptRun(a, g))
         /\ ClaimsBelong(InterruptRun(a, g))
<1> DEFINE r == a.activeRun
           ended == IF RunFrozen(a.history, r, g) /\ ~RunHasEnded(a.history, r)
                    THEN EndRun(a, r, g, "interrupted") ELSE a
           q == [i \in DOMAIN a.queue |->
                   [a.queue[i] EXCEPT !.claimedBy = IF @ = r THEN None ELSE @,
                                      !.delivery  = IF @ = "steer" THEN "held" ELSE @]]
<1>1. r \in Runs \cup {None} /\ r # None
  BY DEF Aggregate, Sound, RunStateValid
<1>2. /\ ended \in Aggregate /\ Sound(ended)
      /\ ended.queue = a.queue /\ ended.journal = a.journal
  <2>1. CASE RunFrozen(a.history, r, g) /\ ~RunHasEnded(a.history, r)
    <3> DEFINE f == [kind |-> "run", id |-> r, run |-> r, ref |-> None,
                     val |-> "interrupted", cfg |-> g, num |-> 0]
    <3>1. f \in Fact
      BY <1>1 DEF Fact, FactKinds, FactIds, RunEnds
    <3>2. Admissible(a.history, f) /\ f.kind \notin {"call", "result"}
      BY <2>1 DEF Admissible
    <3>3. ended = With(a, f)
      BY <2>1 DEF EndRun, Log, FactOf, With
    <3> HIDE DEF f, ended
    <3> QED
      BY <3>1, <3>2, <3>3, PlainFact, WithFields
  <2>2. CASE ~(RunFrozen(a.history, r, g) /\ ~RunHasEnded(a.history, r))
    <3>1. ended = a
      BY <2>2
    <3> QED
      BY <3>1
  <2> QED
    BY <2>1, <2>2
<1>3. \A c \in Calls : a.journal[c].status \notin Unfinished
  BY <1>1 DEF Sound, JournalValid, Active, Recoverable, Unfinished
<1>4. InterruptRun(a, g) = [SetIdle(ended) EXCEPT !.queue = q]
  BY <1>2 DEF InterruptRun, SetIdle, Aggregate
<1>5. /\ a.queue \in Seq(QueueItem) /\ DOMAIN a.queue = 1..Len(a.queue)
      /\ Len(a.queue) \in Nat /\ \A i \in DOMAIN a.queue : a.queue[i] \in QueueItem
  BY DEF Aggregate
<1>6. \A i \in DOMAIN a.queue : a.queue[i].claimedBy \in {r, None}
  BY DEF ClaimsBelong, Active
<1>7. \A i \in DOMAIN a.queue : /\ q[i] \in QueueItem /\ q[i].id = a.queue[i].id
                                /\ q[i].claimedBy = None
  BY <1>5, <1>6 DEF QueueItem, Deliveries
<1>8. q \in [1..Len(a.queue) -> QueueItem]
  BY <1>5, <1>7
<1>9. q \in Seq(QueueItem) /\ DOMAIN q = DOMAIN a.queue
  BY <1>5, <1>8, SeqByIndex
<1> HIDE DEF q, ended
<1>10. QueueUnique(q)
  BY <1>7, <1>9 DEF QueueUnique, Sound
<1>11. SetIdle(ended) \in Aggregate /\ Sound(SetIdle(ended))
  BY <1>2, <1>3, RunStateSound
<1>12. InterruptRun(a, g) \in Aggregate /\ Sound(InterruptRun(a, g))
  BY <1>4, <1>9, <1>10, <1>11, QueueOnly
<1>13. InterruptRun(a, g).queue = q
  BY <1>4, <1>11 DEF Aggregate
<1> QED
  BY <1>7, <1>9, <1>12, <1>13 DEF ClaimsBelong

\* The end of a physical attempt closes the start that precedes it.
LEMMA FinishAttemptSound ==
  ASSUME NEW a \in Aggregate, Sound(a), NEW x \in Attempts, NEW r \in Runs,
         NEW g \in Configs, NEW o \in AttemptEnds, NEW t \in Nat,
         CanFinishAttempt(a, x, r, g)
  PROVE  FinishAttempt(a, x, r, g, o, t) \in Aggregate /\ Sound(FinishAttempt(a, x, r, g, o, t))
<1> DEFINE f == [kind |-> "attempt", id |-> x, run |-> r, ref |-> None, val |-> o,
                 cfg |-> g, num |-> t]
<1>1. f \in Fact
  BY DEF Fact, FactKinds, FactIds
<1>2. Admissible(a.history, f) /\ f.kind \notin {"call", "result"}
  BY DEF CanFinishAttempt, Admissible, AttemptEnds
<1>3. FinishAttempt(a, x, r, g, o, t) = With(a, f)
  BY DEF FinishAttempt, Log, FactOf, With
<1> HIDE DEF f
<1> QED
  BY <1>1, <1>2, <1>3, PlainFact
-----------------------------------------------------------------------------
(* What History shows of the use of a limit.                               *)

\* The positions a limit counts among the first n facts.
AttemptsEnded(h, n, r) == {i \in 1..n : h[i].kind = "attempt" /\ h[i].run = r /\ h[i].val # "started"}
AttemptsBegun(h, n, r) == {i \in 1..n : h[i].kind = "attempt" /\ h[i].run = r /\ h[i].val = "started"}
CallsAdmitted(h, n, r) == {i \in 1..n : h[i].kind = "call" /\ h[i].run = r}

\* What a limit counts, by its kind.
LEMMA UsesAre ==
  ASSUME NEW h, NEW n, NEW r
  PROVE  /\ Uses(h, n, r, "tokens") = UNION {{i} \X (1..h[i].num) : i \in AttemptsEnded(h, n, r)}
         /\ Uses(h, n, r, "attempts") = AttemptsBegun(h, n, r)
         /\ Uses(h, n, r, "calls") = CallsAdmitted(h, n, r)
BY DEF Uses, AttemptsEnded, AttemptsBegun, CallsAdmitted

\* What runUsageAtHistory adds up over the first n facts depends on these
\* facts only.
LEMMA UsedSame ==
  ASSUME NEW h, NEW k, NEW n \in Nat, \A i \in 1..n : h[i] = k[i], NEW r, NEW what
  PROVE  UsedBefore(h, n, r, what) = UsedBefore(k, n, r, what)
<1>1. /\ AttemptsEnded(h, n, r) = AttemptsEnded(k, n, r) /\ AttemptsBegun(h, n, r) = AttemptsBegun(k, n, r)
      /\ CallsAdmitted(h, n, r) = CallsAdmitted(k, n, r)
  BY DEF AttemptsEnded, AttemptsBegun, CallsAdmitted
<1>2. {{i} \X (1..h[i].num) : i \in AttemptsEnded(h, n, r)} = {{i} \X (1..k[i].num) : i \in AttemptsEnded(h, n, r)}
  <2>1. \A i \in AttemptsEnded(h, n, r) : h[i] = k[i]
    BY DEF AttemptsEnded
  <2> DEFINE S == AttemptsEnded(h, n, r)
  <2> HIDE DEF S
  <2>2. \A i \in S : {i} \X (1..h[i].num) = {i} \X (1..k[i].num)
    BY <2>1 DEF S
  <2> QED
    BY <2>2, Zenon DEF S
<1>3. Uses(h, n, r, what) = Uses(k, n, r, what)
  BY <1>1, <1>2, Zenon DEF Uses, AttemptsEnded, AttemptsBegun, CallsAdmitted
<1> QED
  BY <1>3 DEF UsedBefore

-----------------------------------------------------------------------------
(* What a batch of facts does to a valid History.                          *)

\* Facts that one transaction may append together: of one kind, about
\* different things, each admissible before any of them is appended.
IsBatch(h, s, kind) ==
  /\ \A i \in DOMAIN s : /\ Admissible(h, s[i]) /\ s[i].kind = kind
                         /\ kind = "attempt" => s[i].val # "started"
  /\ \A i, j \in DOMAIN s : s[i].id = s[j].id => i = j

BatchKinds == {"message", "call", "result", "attempt"}

\* The facts of a longer History: the old ones where they were, then the batch.
LEMMA ConcatFacts ==
  ASSUME NEW S, NEW h \in Seq(S), NEW s \in Seq(S)
  PROVE  /\ h \o s \in Seq(S) /\ Len(h \o s) = Len(h) + Len(s)
         /\ DOMAIN h = 1..Len(h) /\ Len(h) \in Nat /\ DOMAIN s = 1..Len(s) /\ Len(s) \in Nat
         /\ DOMAIN (h \o s) = 1..(Len(h) + Len(s))
         /\ \A i \in DOMAIN h : i \in DOMAIN (h \o s) /\ (h \o s)[i] = h[i]
         /\ \A j \in DOMAIN s : Len(h) + j \in DOMAIN (h \o s) /\ (h \o s)[Len(h) + j] = s[j]
         /\ \A i \in DOMAIN (h \o s) :
              \/ /\ i \in DOMAIN h /\ (h \o s)[i] = h[i]
                 /\ \A k \in 1..(i - 1) : k \in DOMAIN h /\ (h \o s)[k] = h[k]
              \/ /\ i \notin DOMAIN h /\ \A k \in DOMAIN h : k \in 1..(i - 1)
                 /\ \E j \in DOMAIN s : i = Len(h) + j /\ (h \o s)[i] = s[j]
<1> DEFINE w == h \o s
<1>1. /\ w \in Seq(S) /\ Len(w) = Len(h) + Len(s)
      /\ DOMAIN h = 1..Len(h) /\ Len(h) \in Nat /\ DOMAIN s = 1..Len(s) /\ Len(s) \in Nat
      /\ DOMAIN w = 1..(Len(h) + Len(s))
      /\ \A i \in 1..Len(h) : w[i] = h[i]
      /\ \A i \in 1..(Len(h) + Len(s)) : i > Len(h) => w[i] = s[i - Len(h)]
  OBVIOUS
<1> HIDE DEF w
<1>2. ASSUME NEW j \in DOMAIN s
      PROVE  Len(h) + j \in DOMAIN w /\ w[Len(h) + j] = s[j]
  <2>1. Len(h) + j \in 1..(Len(h) + Len(s)) /\ Len(h) + j > Len(h) /\ (Len(h) + j) - Len(h) = j
    BY <1>1
  <2> QED
    BY <1>1, <2>1
<1>3. ASSUME NEW i \in DOMAIN w
      PROVE  \/ /\ i \in DOMAIN h /\ w[i] = h[i]
                /\ \A k \in 1..(i - 1) : k \in DOMAIN h /\ w[k] = h[k]
             \/ /\ i \notin DOMAIN h /\ \A k \in DOMAIN h : k \in 1..(i - 1)
                /\ \E j \in DOMAIN s : i = Len(h) + j /\ w[i] = s[j]
  <2>1. CASE i <= Len(h)
    BY <1>1, <2>1
  <2>2. CASE i > Len(h)
    <3>1. i - Len(h) \in DOMAIN s /\ i = Len(h) + (i - Len(h)) /\ w[i] = s[i - Len(h)]
      BY <1>1, <2>2
    <3> QED
      BY <1>1, <2>2, <3>1
  <2> QED
    BY <1>1, <2>1, <2>2
<1>4. \A i \in DOMAIN h : i \in DOMAIN w /\ w[i] = h[i]
  BY <1>1
<1> QED
  BY <1>1, <1>2, <1>3, <1>4 DEF w

\* Appending a batch to a valid History leaves it valid.
LEMMA HistoryConcat ==
  ASSUME NEW h \in Seq(Fact), NEW s \in Seq(Fact), HistoryValid(h),
         NEW kind \in BatchKinds, IsBatch(h, s, kind)
  PROVE  HistoryValid(h \o s)
<1> DEFINE w == h \o s
           New(i) == /\ i \notin DOMAIN h /\ Admissible(h, w[i]) /\ w[i].kind = kind
                     /\ kind = "attempt" => w[i].val # "started"
                     /\ \A k \in DOMAIN h : k \in 1..(i - 1)
           Old(i) == /\ i \in DOMAIN h /\ w[i] = h[i]
                     /\ \A k \in 1..(i - 1) : k \in DOMAIN h /\ w[k] = h[k]
<1>1. \A i \in DOMAIN h : i \in DOMAIN w /\ w[i] = h[i]
  BY ConcatFacts
<1>2. \A i \in DOMAIN w : Old(i) \/ New(i)
  <2> SUFFICES ASSUME NEW i \in DOMAIN w, ~Old(i) PROVE New(i)
    OBVIOUS
  <2>1. /\ i \notin DOMAIN h /\ \A k \in DOMAIN h : k \in 1..(i - 1)
        /\ \E j \in DOMAIN s : i = Len(h) + j /\ w[i] = s[j]
    BY ConcatFacts
  <2>2. PICK j \in DOMAIN s : w[i] = s[j]
    BY <2>1
  <2> HIDE DEF w
  <2> QED
    BY <2>1, <2>2 DEF IsBatch
<1>3. \A i, j \in DOMAIN w : New(i) /\ New(j) /\ w[i].id = w[j].id => i = j
  <2> SUFFICES ASSUME NEW i \in DOMAIN w, NEW j \in DOMAIN w, i \notin DOMAIN h, j \notin DOMAIN h,
                      w[i].id = w[j].id
               PROVE  i = j
    OBVIOUS
  <2>1. /\ \E p \in DOMAIN s : i = Len(h) + p /\ w[i] = s[p]
        /\ \E p \in DOMAIN s : j = Len(h) + p /\ w[j] = s[p]
    BY ConcatFacts
  <2> HIDE DEF w
  <2>2. PICK p \in DOMAIN s : i = Len(h) + p /\ w[i] = s[p]
    BY <2>1
  <2>3. PICK q \in DOMAIN s : j = Len(h) + q /\ w[j] = s[q]
    BY <2>1
  <2>4. p = q
    BY <2>2, <2>3 DEF IsBatch
  <2> QED
    BY <2>2, <2>3, <2>4
<1>4. \A i \in DOMAIN w : New(i) => w[i].kind \in BatchKinds /\ w[i].kind = kind
  OBVIOUS
<1> HIDE DEF w
<1>5. MessagesUnique(w)
  <2> SUFFICES ASSUME NEW i \in DOMAIN w, NEW j \in DOMAIN w,
                      w[i].kind = "message", w[j].kind = "message", w[i].id = w[j].id
               PROVE  i = j
    BY DEF MessagesUnique
  <2> QED
    BY <1>2, <1>3 DEF MessagesUnique, HistoryValid, Admissible, HasMessage
<1>6. CallsPaired(w)
  <2>1. \A i, j \in DOMAIN w :
          w[i].kind = w[j].kind /\ w[i].kind \in {"call", "result"} /\ w[i].id = w[j].id
            => i = j
    <3> SUFFICES ASSUME NEW i \in DOMAIN w, NEW j \in DOMAIN w, w[i].kind = w[j].kind,
                        w[i].kind \in {"call", "result"}, w[i].id = w[j].id
                 PROVE  i = j
      OBVIOUS
    <3>1. CASE Old(i) /\ Old(j)
      BY <3>1 DEF CallsPaired, HistoryValid
    <3>2. CASE New(i) /\ New(j)
      BY <1>3, <3>2
    <3>3. CASE Old(i) /\ New(j)
      BY <3>3 DEF Admissible, HasCall, HasResult
    <3>4. CASE New(i) /\ Old(j)
      BY <3>4 DEF Admissible, HasCall, HasResult
    <3> QED
      BY <1>2, <3>1, <3>2, <3>3, <3>4
  <2>2. \A i \in DOMAIN w : w[i].kind = "call" =>
          \E k \in 1..(i - 1) : /\ w[k].kind = "message" /\ w[k].id = w[i].ref
                                /\ w[k].val = "assistant" /\ w[k].run = w[i].run
    <3> SUFFICES ASSUME NEW i \in DOMAIN w, w[i].kind = "call"
                 PROVE  \E k \in 1..(i - 1) : /\ w[k].kind = "message" /\ w[k].id = w[i].ref
                                              /\ w[k].val = "assistant" /\ w[k].run = w[i].run
      OBVIOUS
    <3>1. CASE Old(i)
      BY <3>1 DEF CallsPaired, HistoryValid
    <3>2. CASE New(i)
      BY <1>1, <3>2 DEF Admissible
    <3> QED
      BY <1>2, <3>1, <3>2
  <2>3. \A i \in DOMAIN w : w[i].kind = "result" =>
          \E k \in 1..(i - 1) : w[k].kind = "call" /\ w[k].id = w[i].id
    <3> SUFFICES ASSUME NEW i \in DOMAIN w, w[i].kind = "result"
                 PROVE  \E k \in 1..(i - 1) : w[k].kind = "call" /\ w[k].id = w[i].id
      OBVIOUS
    <3>1. CASE Old(i)
      BY <3>1 DEF CallsPaired, HistoryValid
    <3>2. CASE New(i)
      BY <1>1, <3>2 DEF Admissible, HasCall
    <3> QED
      BY <1>2, <3>1, <3>2
  <2> QED
    BY <2>1, <2>2, <2>3 DEF CallsPaired
<1>7. RunsPaired(w)
  <2>1. \A i \in DOMAIN w : w[i].kind = "run" => Old(i)
    BY <1>2, <1>4 DEF BatchKinds
  <2>2. \A i, j \in DOMAIN w :
          /\ w[i].kind = "run" /\ w[j].kind = "run" /\ w[i].id = w[j].id
          /\ (w[i].val = "started") <=> (w[j].val = "started")
          => i = j
    BY <2>1 DEF RunsPaired, HistoryValid
  <2>3. \A i \in DOMAIN w : w[i].kind = "run" /\ w[i].val # "started" =>
          \E k \in 1..(i - 1) : /\ w[k].kind = "run" /\ w[k].id = w[i].id
                                /\ w[k].val = "started" /\ w[k].cfg = w[i].cfg
    BY <2>1 DEF RunsPaired, HistoryValid
  <2> QED
    BY <2>2, <2>3 DEF RunsPaired
<1>8. AttemptsPaired(w)
  <2>1. \A i, j \in DOMAIN w :
          /\ w[i].kind = "attempt" /\ w[j].kind = "attempt" /\ w[i].id = w[j].id
          /\ (w[i].val = "started") <=> (w[j].val = "started")
          => i = j
    BY <1>2, <1>3 DEF AttemptsPaired, HistoryValid, Admissible, AttemptHasEnded
  <2>2. \A i \in DOMAIN w : w[i].kind = "attempt" /\ w[i].val # "started" =>
          \E k \in 1..(i - 1) : /\ w[k].kind = "attempt" /\ w[k].id = w[i].id
                                /\ w[k].val = "started" /\ w[k].run = w[i].run
                                /\ w[k].cfg = w[i].cfg
    <3> SUFFICES ASSUME NEW i \in DOMAIN w, w[i].kind = "attempt", w[i].val # "started"
                 PROVE  \E k \in 1..(i - 1) : /\ w[k].kind = "attempt" /\ w[k].id = w[i].id
                                /\ w[k].val = "started" /\ w[k].run = w[i].run
                                /\ w[k].cfg = w[i].cfg
      OBVIOUS
    <3>1. CASE Old(i)
      BY <3>1 DEF AttemptsPaired, HistoryValid
    <3>2. CASE New(i)
      BY <1>1, <3>2 DEF Admissible, AttemptOf
    <3> QED
      BY <1>2, <3>1, <3>2
  <2> QED
    BY <2>1, <2>2 DEF AttemptsPaired
<1>9. InsideRun(w)
  <2>1. \A i \in DOMAIN w :
          (w[i].kind = "attempt" /\ w[i].val = "started") \/ w[i].kind \in {"context", "limit"}
          => Old(i)
    BY <1>2, <1>4 DEF BatchKinds
  <2> SUFFICES ASSUME NEW i \in DOMAIN w, Old(i),
                      \/ w[i].kind = "attempt" /\ w[i].val = "started"
                      \/ w[i].kind \in {"context", "limit"}
               PROVE  /\ \E k \in 1..(i - 1) :
                           /\ w[k].kind = "run" /\ w[k].id = w[i].run
                           /\ w[k].val = "started"
                           /\ w[i].kind = "attempt" => w[k].cfg = w[i].cfg
                      /\ ~ \E k \in 1..(i - 1) :
                           /\ w[k].kind = "run" /\ w[k].id = w[i].run
                           /\ w[k].val # "started"
    BY <2>1 DEF InsideRun
  <2>2. InsideRun(h) /\ i \in DOMAIN h /\ w[i] = h[i]
    BY DEF HistoryValid
  <2>3. \A k \in 1..(i - 1) : w[k] = h[k]
    OBVIOUS
  <2>4. /\ \E k \in 1..(i - 1) :
             /\ h[k].kind = "run" /\ h[k].id = h[i].run
             /\ h[k].val = "started"
             /\ h[i].kind = "attempt" => h[k].cfg = h[i].cfg
        /\ ~ \E k \in 1..(i - 1) :
             /\ h[k].kind = "run" /\ h[k].id = h[i].run
             /\ h[k].val # "started"
    BY <2>2 DEF InsideRun
  <2> QED
    BY <2>2, <2>3, <2>4
<1>10. OncePerRun(w)
  <2>1. \A i \in DOMAIN w : w[i].kind \in {"context", "limit"} => Old(i)
    BY <1>2, <1>4 DEF BatchKinds
  <2> QED
    BY <2>1 DEF OncePerRun, HistoryValid
<1> QED
  BY <1>5, <1>6, <1>7, <1>8, <1>9, <1>10 DEF HistoryValid, w

\* w consists of the facts of h and s.
Follows(h, s, w) ==
  /\ \A i \in DOMAIN h : i \in DOMAIN w /\ w[i] = h[i]
  /\ \A j \in DOMAIN s : \E i \in DOMAIN w : w[i] = s[j]
  /\ \A i \in DOMAIN w : (i \in DOMAIN h /\ w[i] = h[i]) \/ \E j \in DOMAIN s : w[i] = s[j]

\* A fact of the batch follows every fact of the old History.
LEMMA ConcatFollows ==
  ASSUME NEW h \in Seq(Fact), NEW s \in Seq(Fact)
  PROVE  Follows(h, s, h \o s)
<1> DEFINE w == h \o s
<1>1. /\ \A i \in DOMAIN h : i \in DOMAIN w /\ w[i] = h[i]
      /\ \A j \in DOMAIN s : Len(h) + j \in DOMAIN w /\ w[Len(h) + j] = s[j]
      /\ \A i \in DOMAIN w : (i \in DOMAIN h /\ w[i] = h[i]) \/ \E j \in DOMAIN s : w[i] = s[j]
  BY ConcatFacts
<1> HIDE DEF w
<1>2. \A j \in DOMAIN s : \E i \in DOMAIN w : w[i] = s[j]
  BY <1>1
<1> QED
  BY <1>1, <1>2 DEF Follows, w

\* What a History says of Runs, calls and results after a batch.
LEMMA BatchMonotone ==
  ASSUME NEW h, NEW s, NEW w, Follows(h, s, w)
  PROVE  /\ \A r, g : RunFrozen(h, r, g) => RunFrozen(w, r, g)
         /\ \A c : HasCall(w, c)
                     <=> HasCall(h, c) \/ \E j \in DOMAIN s : s[j].kind = "call" /\ s[j].id = c
         /\ \A c : HasResult(w, c)
                     <=> HasResult(h, c) \/ \E j \in DOMAIN s : s[j].kind = "result" /\ s[j].id = c
         /\ \A c, v : ResultIs(w, c, v)
              <=> \/ ResultIs(h, c, v)
                  \/ \E j \in DOMAIN s : s[j].kind = "result" /\ s[j].id = c /\ s[j].val = v
<1>3. \A r, g : RunFrozen(h, r, g) => RunFrozen(w, r, g)
  BY DEF Follows, RunFrozen
<1>4. \A c : HasCall(w, c) <=> HasCall(h, c) \/ \E j \in DOMAIN s : s[j].kind = "call" /\ s[j].id = c
  BY DEF Follows, HasCall
<1>5. \A c : HasResult(w, c)
               <=> HasResult(h, c) \/ \E j \in DOMAIN s : s[j].kind = "result" /\ s[j].id = c
  BY DEF Follows, HasResult
<1>6. \A c, v : ResultIs(w, c, v)
        <=> \/ ResultIs(h, c, v)
            \/ \E j \in DOMAIN s : s[j].kind = "result" /\ s[j].id = c /\ s[j].val = v
  BY DEF Follows, ResultIs
<1> QED
  BY <1>3, <1>4, <1>5, <1>6

\* The aggregate with a batch of facts and another journal.
WithBatch(a, s, j) == [a EXCEPT !.history = a.history \o s, !.journal = j]

\* An aggregate with a longer History and another journal.
LEMMA WithBatchFields ==
  ASSUME NEW a \in Aggregate, NEW s \in Seq(Fact), NEW j \in [Calls -> JournalEntry]
  PROVE  LET b == WithBatch(a, s, j)
         IN  /\ b \in Aggregate /\ b.history = a.history \o s /\ b.journal = j
             /\ b.queue = a.queue /\ b.ext = a.ext /\ b.config = a.config
             /\ b.runState = a.runState /\ b.activeRun = a.activeRun
             /\ b.ctx = a.ctx /\ b.retained = a.retained
<1>1. a.history \in Seq(Fact)
  BY DEF Aggregate
<1>2. a.history \o s \in Seq(Fact)
  BY <1>1, ConcatFacts
<1> QED
  BY <1>2 DEF WithBatch, Aggregate

\* A batch keeps the aggregate sound when the journal goes with it.
LEMMA BatchSound ==
  ASSUME NEW a \in Aggregate, Sound(a), NEW s \in Seq(Fact), NEW kind \in BatchKinds,
         IsBatch(a.history, s, kind), NEW j \in [Calls -> JournalEntry],
         JournalValid(WithBatch(a, s, j))
  PROVE  WithBatch(a, s, j) \in Aggregate /\ Sound(WithBatch(a, s, j))
<1> DEFINE b == WithBatch(a, s, j)
<1>1. a.history \in Seq(Fact)
  BY DEF Aggregate
<1>2. /\ b \in Aggregate /\ b.history = a.history \o s
      /\ b.queue = a.queue /\ b.ext = a.ext
      /\ b.runState = a.runState /\ b.activeRun = a.activeRun
      /\ b.ctx = a.ctx /\ b.retained = a.retained
  BY WithBatchFields
<1> HIDE DEF b
<1>3. HistoryValid(b.history)
  BY <1>1, <1>2, HistoryConcat DEF Sound
<1>4. \A r, g : RunFrozen(a.history, r, g) => RunFrozen(b.history, r, g)
  <2>1. Follows(a.history, s, b.history)
    BY <1>1, <1>2, ConcatFollows
  <2> QED
    BY <2>1, BatchMonotone
<1>5. ContextValid(b)
  BY <1>2, <1>4 DEF ContextValid, Sound
<1>6. RunStateValid(b) /\ QueueUnique(b.queue) /\ ExtensionsValid(b)
  BY <1>2 DEF RunStateValid, ExtensionsValid, Sound
<1>7. JournalValid(b)
  BY DEF b
<1>8. b \in Aggregate /\ Sound(b)
  BY <1>2, <1>3, <1>5, <1>6, <1>7 DEF Sound
<1> QED
  BY <1>8 DEF b

\* Messages or ends of attempts: the journal has nothing to do with them.
LEMMA PlainBatchSound ==
  ASSUME NEW a \in Aggregate, Sound(a), NEW s \in Seq(Fact), NEW kind \in {"message", "attempt"},
         IsBatch(a.history, s, kind), NEW b, b = [a EXCEPT !.history = a.history \o s]
  PROVE  b \in Aggregate /\ Sound(b)
<1>1. a.history \in Seq(Fact) /\ a.journal \in [Calls -> JournalEntry]
  BY DEF Aggregate
<1> DEFINE w == WithBatch(a, s, a.journal)
<1>2. /\ w \in Aggregate /\ w.history = a.history \o s /\ w.journal = a.journal
      /\ w.runState = a.runState /\ w.activeRun = a.activeRun
  BY <1>1, WithBatchFields
<1>3. b = w
  BY DEF WithBatch, Aggregate
<1> HIDE DEF w
<1>4. \A i \in DOMAIN s : s[i].kind \notin {"call", "result"}
  BY DEF IsBatch
<1>5. /\ \A c : HasCall(w.history, c) <=> HasCall(a.history, c)
      /\ \A c : HasResult(w.history, c) <=> HasResult(a.history, c)
      /\ \A c, v : ResultIs(w.history, c, v) <=> ResultIs(a.history, c, v)
  <2>0. Follows(a.history, s, w.history)
    BY <1>1, <1>2, ConcatFollows
  <2>1. /\ \A c : HasCall(w.history, c)
                   <=> HasCall(a.history, c) \/ \E j \in DOMAIN s : s[j].kind = "call" /\ s[j].id = c
        /\ \A c : HasResult(w.history, c)
                   <=> HasResult(a.history, c) \/ \E j \in DOMAIN s : s[j].kind = "result" /\ s[j].id = c
        /\ \A c, v : ResultIs(w.history, c, v)
              <=> \/ ResultIs(a.history, c, v)
                  \/ \E j \in DOMAIN s : s[j].kind = "result" /\ s[j].id = c /\ s[j].val = v
    BY <2>0, BatchMonotone
  <2> QED
    BY <1>4, <2>1
<1>6. \A r : Active(w, r) <=> Active(a, r)
  BY <1>2 DEF Active
<1>7. JournalValid(w)
  BY <1>2, <1>5, <1>6, Zenon DEF JournalValid, Sound
<1>8. kind \in BatchKinds
  BY DEF BatchKinds
<1>9. w \in Aggregate /\ Sound(w)
  BY <1>1, <1>7, <1>8, BatchSound DEF w
<1> QED
  BY <1>3, <1>9

\* The results of a set of unfinished calls enter History with their entries.
LEMMA ResultBatchSound ==
  ASSUME NEW a \in Aggregate, Sound(a), NEW done \in SUBSET Calls, NEW s \in Seq(Fact),
         NEW j \in [Calls -> JournalEntry],
         \A c \in done : a.journal[c].status \in Unfinished /\ j[c].status \in JournalTerminal,
         \A c \in Calls \ done : j[c] = a.journal[c],
         \A i \in DOMAIN s : /\ s[i].kind = "result" /\ s[i].id \in done
                             /\ s[i].val = j[s[i].id].status,
         \A i, k \in DOMAIN s : s[i].id = s[k].id => i = k,
         \A c \in done : \E i \in DOMAIN s : s[i].id = c
  PROVE  WithBatch(a, s, j) \in Aggregate /\ Sound(WithBatch(a, s, j))
<1>1. a.history \in Seq(Fact)
  BY DEF Aggregate
<1> DEFINE w == WithBatch(a, s, j)
<1>2. /\ w.history = a.history \o s /\ w.journal = j
      /\ w.runState = a.runState /\ w.activeRun = a.activeRun
  BY WithBatchFields
<1>3. \A c \in done : HasCall(a.history, c) /\ ~HasResult(a.history, c)
  BY DEF Sound, JournalValid, Unfinished
<1>4. IsBatch(a.history, s, "result")
  <2>1. ASSUME NEW i \in DOMAIN s PROVE Admissible(a.history, s[i])
    BY <1>3 DEF Admissible
  <2> QED
    BY <2>1 DEF IsBatch
<1> HIDE DEF w
<1>5. /\ \A c : HasCall(w.history, c) <=> HasCall(a.history, c)
      /\ \A c : HasResult(w.history, c) <=> HasResult(a.history, c) \/ c \in done
      /\ \A c, v : ResultIs(a.history, c, v) => ResultIs(w.history, c, v)
      /\ \A c \in done : ResultIs(w.history, c, j[c].status)
  <2>0. Follows(a.history, s, w.history)
    BY <1>1, <1>2, ConcatFollows
  <2>1. /\ \A c : HasCall(w.history, c)
                   <=> HasCall(a.history, c) \/ \E k \in DOMAIN s : s[k].kind = "call" /\ s[k].id = c
        /\ \A c : HasResult(w.history, c)
                   <=> HasResult(a.history, c) \/ \E k \in DOMAIN s : s[k].kind = "result" /\ s[k].id = c
        /\ \A c, v : ResultIs(w.history, c, v)
              <=> \/ ResultIs(a.history, c, v)
                  \/ \E k \in DOMAIN s : s[k].kind = "result" /\ s[k].id = c /\ s[k].val = v
    BY <2>0, BatchMonotone
  <2>2. \A c : (\E k \in DOMAIN s : s[k].kind = "result" /\ s[k].id = c) <=> c \in done
    OBVIOUS
  <2>3. \A c \in done : \E k \in DOMAIN s : s[k].kind = "result" /\ s[k].id = c /\ s[k].val = j[c].status
    OBVIOUS
  <2>4. \A k \in DOMAIN s : s[k].kind # "call"
    OBVIOUS
  <2>5. \A c \in done : ResultIs(w.history, c, j[c].status)
    BY <2>1, <2>3
  <2> HIDE DEF IsBatch
  <2> QED
    BY <2>1, <2>2, <2>4, <2>5
<1>6. \A r : Active(w, r) <=> Active(a, r)
  BY <1>2 DEF Active
<1>7. JournalValid(w)
  <2> SUFFICES ASSUME NEW d \in Calls
               PROVE  /\ w.journal[d].status \in Unfinished =>
                           Active(w, w.journal[d].run) /\ ~HasResult(w.history, d)
                      /\ w.journal[d].status # "absent" => HasCall(w.history, d)
                      /\ w.journal[d].status \in JournalTerminal =>
                           ResultIs(w.history, d, w.journal[d].status)
                      /\ HasCall(w.history, d) /\ ~HasResult(w.history, d) =>
                           w.journal[d].status \in Unfinished
    BY DEF JournalValid
  <2>1. CASE d \in done
    <3>1. j[d].status \notin Unfinished
      BY <2>1 DEF Unfinished, JournalTerminal
    <3> QED
      BY <1>2, <1>3, <1>5, <2>1, <3>1
  <2>2. CASE d \notin done
    BY <1>2, <1>5, <1>6, <2>2, Zenon DEF Sound, JournalValid
  <2> QED
    BY <2>1, <2>2
<1>8. "result" \in BatchKinds
  BY DEF BatchKinds
<1> QED
  BY <1>4, <1>7, <1>8, BatchSound DEF w

\* A set of new calls of the active Run enters History with unfinished entries.
LEMMA CallBatchSound ==
  ASSUME NEW a \in Aggregate, Sound(a), NEW new \in SUBSET Calls, NEW s \in Seq(Fact),
         NEW r \in Runs, Active(a, r),
         NEW j \in [Calls -> JournalEntry],
         \A c \in new : j[c].status \in Unfinished /\ j[c].run = r,
         \A c \in Calls \ new : j[c] = a.journal[c],
         \A i \in DOMAIN s : s[i].kind = "call" /\ s[i].id \in new /\ Admissible(a.history, s[i]),
         \A i, k \in DOMAIN s : s[i].id = s[k].id => i = k,
         \A c \in new : \E i \in DOMAIN s : s[i].id = c
  PROVE  WithBatch(a, s, j) \in Aggregate /\ Sound(WithBatch(a, s, j))
<1>1. a.history \in Seq(Fact)
  BY DEF Aggregate
<1> DEFINE w == WithBatch(a, s, j)
<1>2. /\ w.history = a.history \o s /\ w.journal = j
      /\ w.runState = a.runState /\ w.activeRun = a.activeRun
  BY WithBatchFields
<1>3. \A c \in new : ~HasCall(a.history, c)
  BY DEF Admissible
<1>4. IsBatch(a.history, s, "call")
  BY DEF IsBatch
<1> HIDE DEF w
<1>5. /\ \A c : HasCall(w.history, c) <=> HasCall(a.history, c) \/ c \in new
      /\ \A c : HasResult(w.history, c) <=> HasResult(a.history, c)
      /\ \A c, v : ResultIs(a.history, c, v) => ResultIs(w.history, c, v)
  <2>0. Follows(a.history, s, w.history)
    BY <1>1, <1>2, ConcatFollows
  <2>1. /\ \A c : HasCall(w.history, c)
                   <=> HasCall(a.history, c) \/ \E k \in DOMAIN s : s[k].kind = "call" /\ s[k].id = c
        /\ \A c : HasResult(w.history, c)
                   <=> HasResult(a.history, c) \/ \E k \in DOMAIN s : s[k].kind = "result" /\ s[k].id = c
        /\ \A c, v : ResultIs(w.history, c, v)
              <=> \/ ResultIs(a.history, c, v)
                  \/ \E k \in DOMAIN s : s[k].kind = "result" /\ s[k].id = c /\ s[k].val = v
    BY <2>0, BatchMonotone
  <2>2. \A c : (\E k \in DOMAIN s : s[k].kind = "call" /\ s[k].id = c) <=> c \in new
    OBVIOUS
  <2>3. \A k \in DOMAIN s : s[k].kind # "result"
    OBVIOUS
  <2> QED
    BY <1>2, <2>1, <2>2, <2>3
<1>6. \A t : Active(w, t) <=> Active(a, t)
  BY <1>2 DEF Active
<1>7. \A c \in new : ~HasResult(a.history, c)
  <2>1. DOMAIN a.history = 1..Len(a.history) /\ Len(a.history) \in Nat
    BY <1>1
  <2>2. \A i \in DOMAIN a.history : \A k \in 1..(i - 1) : k \in DOMAIN a.history
    BY <2>1
  <2>3. \A i \in DOMAIN a.history : a.history[i].kind = "result" =>
          \E k \in 1..(i - 1) : a.history[k].kind = "call" /\ a.history[k].id = a.history[i].id
    BY DEF Sound, HistoryValid, CallsPaired
  <2> QED
    BY <1>3, <2>2, <2>3 DEF HasResult, HasCall
<1>8. JournalValid(w)
  <2> SUFFICES ASSUME NEW d \in Calls
               PROVE  /\ w.journal[d].status \in Unfinished =>
                           Active(w, w.journal[d].run) /\ ~HasResult(w.history, d)
                      /\ w.journal[d].status # "absent" => HasCall(w.history, d)
                      /\ w.journal[d].status \in JournalTerminal =>
                           ResultIs(w.history, d, w.journal[d].status)
                      /\ HasCall(w.history, d) /\ ~HasResult(w.history, d) =>
                           w.journal[d].status \in Unfinished
    BY DEF JournalValid
  <2>1. CASE d \in new
    <3>1. j[d].status \notin JournalTerminal
      BY <2>1 DEF Unfinished, JournalTerminal
    <3> QED
      BY <1>2, <1>5, <1>6, <1>7, <2>1, <3>1
  <2>2. CASE d \notin new
    BY <1>2, <1>5, <1>6, <2>2, Zenon DEF Sound, JournalValid
  <2> QED
    BY <2>1, <2>2
<1>9. "call" \in BatchKinds
  BY DEF BatchKinds
<1> QED
  BY <1>4, <1>8, <1>9, BatchSound DEF w
=============================================================================
