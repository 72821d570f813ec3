-------------------------- MODULE AgentRuntimeProofs --------------------------
(***************************************************************************)
(* What the AgentRuntime keeps for any number of Runs, messages, calls,    *)
(* attempts, crashes and Store failures: a Tool runs at most once per call *)
(* (ToolAtMostOnce), a cancellation is honoured (CancelHonoured), the      *)
(* Runtime and the Store agree on what is running (Agreement), an accepted *)
(* input is neither lost nor consumed twice (InputKept), the limits of a   *)
(* Run hold over its whole durable life (LimitsHold), and the process may  *)
(* stop in any state (CrashSafe).                                          *)
(*                                                                         *)
(* Most of what the invariant says of History does not depend on the order *)
(* of its facts, so a step is described by the set of facts it adds.  The  *)
(* last two properties need in addition that what is durable is a valid    *)
(* document (Document), where unfinished calls can be (BatchInv) and what  *)
(* a Run has used (UsageInv).                                              *)
(***************************************************************************)
EXTENDS AgentRuntime, SessionAggregateProofs

\* The elements of a finite set, in some order.
LEMMA SetToSeqIs ==
  ASSUME NEW S, IsFiniteSet(S)
  PROVE  /\ SetToSeq(S) \in Seq(S) /\ Len(SetToSeq(S)) = Cardinality(S)
         /\ Cardinality(S) \in Nat
         /\ \A x \in S : \E i \in 1..Cardinality(S) : SetToSeq(S)[i] = x
<1>1. Cardinality(S) \in Nat /\ ExistsBijection(1..Cardinality(S), S)
  BY FS_CardinalityType
<1>2. PICK f : f \in Bijection(1..Cardinality(S), S)
  BY <1>1 DEF ExistsBijection
<1>3. f \in [1..Cardinality(S) -> S] /\ \A a, b \in DOMAIN f : f[a] = f[b] => a = b
  BY <1>2 DEF Bijection, Injection, IsInjective
<1>4. SetToSeq(S) \in [1..Cardinality(S) -> S] /\ IsInjective(SetToSeq(S))
  BY <1>3 DEF SetToSeq, IsInjective
<1>5. SetToSeq(S) \in Surjection(1..Cardinality(S), S)
  <2>1. IsFiniteSet(1..Cardinality(S)) /\ Cardinality(1..Cardinality(S)) = Cardinality(S)
    BY <1>1, FS_Interval
  <2>2. SetToSeq(S) \in Injection(1..Cardinality(S), S)
    BY <1>4 DEF Injection, IsInjective
  <2> QED
    BY <2>1, <2>2, FS_Injection
<1>6. \A x \in S : \E i \in 1..Cardinality(S) : SetToSeq(S)[i] = x
  BY <1>5 DEF Surjection
<1> QED
  BY <1>1, <1>4, <1>6

-----------------------------------------------------------------------------
(* How History grows.                                                      *)

IsLog(h) == h \in Seq({h[i] : i \in DOMAIN h})

\* k is h followed by facts of F, all of them.
Grows(h, k, F) ==
  /\ IsLog(k) /\ Len(h) <= Len(k)
  /\ \A i \in 1..Len(h) : k[i] = h[i]
  /\ \A i \in 1..Len(k) : i > Len(h) => k[i] \in F
  /\ \A f \in F : \E i \in 1..Len(k) : k[i] = f

\* A sequence over any set is a log.
LEMMA SeqIsLog ==
  ASSUME NEW S, NEW h \in Seq(S)
  PROVE  IsLog(h) /\ DOMAIN h = 1..Len(h) /\ Len(h) \in Nat
<1> DEFINE R == {h[i] : i \in DOMAIN h}
<1>1. DOMAIN h = 1..Len(h) /\ Len(h) \in Nat
  OBVIOUS
<1>2. \A i \in 1..Len(h) : h[i] \in R
  BY <1>1
<1>3. h \in [1..Len(h) -> R]
  <2>1. h = [i \in 1..Len(h) |-> h[i]]
    OBVIOUS
  <2> QED
    BY <1>2, <2>1
<1>4. h \in Seq(R)
  <2> HIDE DEF R
  <2> QED
    BY <1>1, <1>3
<1> QED
  BY <1>1, <1>4 DEF IsLog

\* The positions of a log.
LEMMA LogIs ==
  ASSUME NEW h, IsLog(h)
  PROVE  DOMAIN h = 1..Len(h) /\ Len(h) \in Nat
<1> DEFINE R == {h[i] : i \in DOMAIN h}
<1>1. h \in Seq(R)
  BY DEF IsLog
<1> HIDE DEF R
<1> QED
  BY <1>1

\* One fact is appended.
LEMMA GrowsAppend ==
  ASSUME NEW h, IsLog(h), NEW f
  PROVE  Grows(h, Append(h, f), {f})
<1> DEFINE R == {h[i] : i \in DOMAIN h} \cup {f}
<1>1. h \in Seq({h[i] : i \in DOMAIN h})
  BY DEF IsLog
<1>2. {h[i] : i \in DOMAIN h} \subseteq R /\ f \in R
  OBVIOUS
<1>3. h \in Seq(R)
  BY <1>1, <1>2
<1> HIDE DEF R
<1>4. Append(h, f) \in Seq(R)
  BY <1>2, <1>3
<1>5. /\ Len(Append(h, f)) = Len(h) + 1 /\ Append(h, f)[Len(h) + 1] = f
      /\ \A i \in 1..Len(h) : Append(h, f)[i] = h[i]
      /\ Len(h) \in Nat
  BY <1>2, <1>3
<1>6. IsLog(Append(h, f))
  BY <1>4, SeqIsLog
<1>7. Len(h) + 1 \in 1..Len(Append(h, f))
  BY <1>5
<1>8. \A i \in 1..Len(Append(h, f)) : i > Len(h) => i = Len(h) + 1
  BY <1>5
<1> QED
  BY <1>5, <1>6, <1>7, <1>8 DEF Grows

\* A batch of facts is appended.
LEMMA GrowsConcat ==
  ASSUME NEW h, IsLog(h), NEW S, NEW g \in Seq(S)
  PROVE  Grows(h, h \o g, {g[i] : i \in DOMAIN g})
<1> DEFINE R == {h[i] : i \in DOMAIN h} \cup S
<1>1. h \in Seq({h[i] : i \in DOMAIN h})
  BY DEF IsLog
<1>2. {h[i] : i \in DOMAIN h} \subseteq R /\ S \subseteq R
  OBVIOUS
<1>3. h \in Seq(R) /\ g \in Seq(R)
  BY <1>1, <1>2
<1> HIDE DEF R
<1>4. /\ h \o g \in Seq(R) /\ Len(h \o g) = Len(h) + Len(g)
      /\ \A i \in 1..Len(h) : (h \o g)[i] = h[i]
      /\ \A i \in 1..Len(h \o g) : i > Len(h) => (h \o g)[i] = g[i - Len(h)]
      /\ Len(h) \in Nat /\ Len(g) \in Nat /\ DOMAIN g = 1..Len(g)
  BY <1>3
<1>5. IsLog(h \o g)
  BY <1>4, SeqIsLog
<1>6. ASSUME NEW i \in 1..Len(h \o g), i > Len(h)
      PROVE  (h \o g)[i] \in {g[j] : j \in DOMAIN g}
  <2>1. i - Len(h) \in DOMAIN g
    BY <1>4, <1>6
  <2> QED
    BY <1>4, <1>6, <2>1
<1>7. ASSUME NEW j \in DOMAIN g
      PROVE  \E i \in 1..Len(h \o g) : (h \o g)[i] = g[j]
  <2>1. Len(h) + j \in 1..Len(h \o g) /\ Len(h) + j > Len(h) /\ (Len(h) + j) - Len(h) = j
    BY <1>4
  <2> QED
    BY <1>4, <2>1
<1> DEFINE F == {g[j] : j \in DOMAIN g}
<1>8. \A f \in F : \E i \in 1..Len(h \o g) : (h \o g)[i] = f
  BY <1>7, Zenon
<1>9. Len(h) <= Len(h \o g)
  BY <1>4
<1> HIDE DEF F
<1> QED
  BY <1>4, <1>5, <1>6, <1>8, <1>9, Zenon DEF Grows, F

\* Two growths in a row are one.
LEMMA GrowsTwice ==
  ASSUME NEW h, NEW k, NEW l, NEW F, NEW G, IsLog(h), Grows(h, k, F), Grows(k, l, G)
  PROVE  Grows(h, l, F \cup G)
<1>1. Len(h) \in Nat /\ Len(k) \in Nat /\ Len(l) \in Nat
  BY LogIs DEF Grows
<1>2. IsLog(l) /\ Len(h) <= Len(l)
  BY <1>1 DEF Grows
<1>3. ASSUME NEW i \in 1..Len(k) PROVE i \in 1..Len(l) /\ l[i] = k[i]
  BY <1>1 DEF Grows
<1>4. ASSUME NEW i \in 1..Len(h) PROVE l[i] = h[i]
  <2>1. i \in 1..Len(k) /\ k[i] = h[i]
    BY <1>1 DEF Grows
  <2> QED
    BY <1>3, <2>1
<1>5. ASSUME NEW i \in 1..Len(l), i > Len(h) PROVE l[i] \in F \cup G
  <2>1. CASE i > Len(k)
    BY <2>1 DEF Grows
  <2>2. CASE i \in 1..Len(k)
    BY <1>3, <1>5, <2>2 DEF Grows
  <2> QED
    BY <1>1, <2>1, <2>2
<1>6. ASSUME NEW f \in F \cup G PROVE \E i \in 1..Len(l) : l[i] = f
  <2>1. CASE f \in F
    <3>1. PICK i \in 1..Len(k) : k[i] = f
      BY <2>1 DEF Grows
    <3> QED
      BY <1>3, <3>1
  <2>2. CASE f \in G
    BY <2>2 DEF Grows
  <2> QED
    BY <2>1, <2>2
<1> QED
  BY <1>2, <1>4, <1>5, <1>6 DEF Grows

\* No growth.
LEMMA GrowsNot ==
  ASSUME NEW h, IsLog(h)
  PROVE  Grows(h, h, {})
BY LogIs DEF Grows

\* Every fact of a grown log is an old or a new one, and both are in it.
LEMMA GrowsFacts ==
  ASSUME NEW h, NEW k, NEW F, IsLog(h), Grows(h, k, F)
  PROVE  /\ DOMAIN h = 1..Len(h) /\ DOMAIN k = 1..Len(k)
         /\ \A i \in DOMAIN k : k[i] \in F \/ \E j \in DOMAIN h : k[i] = h[j]
         /\ \A j \in DOMAIN h : \E i \in DOMAIN k : k[i] = h[j]
         /\ \A f \in F : \E i \in DOMAIN k : k[i] = f
         /\ \A i \in DOMAIN k \ DOMAIN h : k[i] \in F
<1>1. DOMAIN h = 1..Len(h) /\ DOMAIN k = 1..Len(k) /\ Len(h) \in Nat /\ Len(k) \in Nat
  BY LogIs DEF Grows
<1>2. ASSUME NEW i \in DOMAIN k PROVE k[i] \in F \/ \E j \in DOMAIN h : k[i] = h[j]
  <2>1. CASE i > Len(h)
    BY <1>1, <2>1 DEF Grows
  <2>2. CASE i \in 1..Len(h)
    BY <1>1, <2>2 DEF Grows
  <2> QED
    BY <1>1, <2>1, <2>2
<1>3. ASSUME NEW j \in DOMAIN h PROVE \E i \in DOMAIN k : k[i] = h[j]
  BY <1>1 DEF Grows
<1>4. ASSUME NEW i \in DOMAIN k \ DOMAIN h PROVE k[i] \in F
  BY <1>1 DEF Grows
<1> QED
  BY <1>1, <1>2, <1>3, <1>4 DEF Grows
-----------------------------------------------------------------------------
(* The aggregate and what the changes do to its parts.                     *)

AggFields == {"rev", "history", "queue", "journal", "ext", "runState", "activeRun",
              "config", "ctx", "retained"}

\* The Queue holds an input once and no claim outlives its transaction.
QueueOK(q) ==
  /\ q \in Seq(QueueItem)
  /\ \A i, j \in DOMAIN q : q[i].id = q[j].id => i = j
  /\ \A i \in DOMAIN q : q[i].claimedBy = None

AggShape(a) ==
  /\ DOMAIN a = AggFields
  /\ IsLog(a.history)
  /\ QueueOK(a.queue)
  /\ a.journal \in [Calls -> JournalEntry]
  /\ a.runState \in {"idle", "running"} /\ a.activeRun \in Runs \cup {None}

\* What is not History.
Rest(a, b) ==
  /\ b.queue = a.queue /\ b.journal = a.journal
  /\ b.runState = a.runState /\ b.activeRun = a.activeRun /\ b.config = a.config

\* A new aggregate has the shape.
LEMMA NewAggregateShape ==
  ASSUME NEW g
  PROVE  /\ AggShape(NewAggregate(g))
         /\ NewAggregate(g).history = <<>> /\ NewAggregate(g).queue = <<>>
         /\ NewAggregate(g).runState = "idle"
         /\ \A c \in Calls : NewAggregate(g).journal[c].status = "absent"
<1> DEFINE a == NewAggregate(g)
<1>1. /\ DOMAIN a = AggFields /\ a.history = <<>> /\ a.queue = <<>> /\ a.runState = "idle"
      /\ a.activeRun = None
      /\ a.journal = [c \in Calls |-> [status |-> "absent", run |-> None]]
  BY DEF NewAggregate, AggFields
<1> HIDE DEF a
<1>2. IsLog(a.history)
  <2>1. <<>> \in Seq({})
    OBVIOUS
  <2> QED
    BY <1>1, <2>1, SeqIsLog
<1>3. QueueOK(a.queue)
  BY <1>1 DEF QueueOK
<1>4. a.journal \in [Calls -> JournalEntry]
  BY <1>1 DEF JournalEntry
<1> QED
  BY <1>1, <1>2, <1>3, <1>4 DEF AggShape, a

\* A fact is logged.
LEMMA LogFields ==
  ASSUME NEW a, AggShape(a), NEW kind, NEW id, NEW r, NEW ref, NEW val, NEW g, NEW num
  PROVE  LET b == Log(a, kind, id, r, ref, val, g, num)
         IN  /\ AggShape(b) /\ Rest(a, b) /\ b.history = Append(a.history, FactOf(kind, id, r, ref, val, g, num))
             /\ Grows(a.history, b.history, {FactOf(kind, id, r, ref, val, g, num)})
<1> DEFINE f == FactOf(kind, id, r, ref, val, g, num)
           b == Log(a, kind, id, r, ref, val, g, num)
<1>1. IsLog(a.history) /\ DOMAIN a = AggFields
  BY DEF AggShape
<1>2. Grows(a.history, Append(a.history, f), {f})
  BY <1>1, GrowsAppend
<1>3. /\ DOMAIN b = AggFields /\ Rest(a, b) /\ b.history = Append(a.history, f)
  BY <1>1 DEF Log, Rest, AggFields
<1> HIDE DEF b, f
<1>4. AggShape(b)
  BY <1>2, <1>3 DEF AggShape, Rest, Grows
<1> QED
  BY <1>2, <1>3, <1>4 DEF b, f

\* An item leaves the Queue; the others stay as they are.
LEMMA RemoveItem ==
  ASSUME NEW q \in Seq(QueueItem), NEW m, InQueue(q, m),
         \A i, j \in DOMAIN q : q[i].id = q[j].id => i = j,
         \A i \in DOMAIN q : q[i].id # m => q[i].claimedBy = None
  PROVE  /\ QueueOK(WithoutItem(q, m))
         /\ \A x : InQueue(WithoutItem(q, m), x) <=> InQueue(q, x) /\ x # m
<1> DEFINE p == PositionOf(q, m)
           k == WithoutItem(q, m)
           n == Len(q)
<1>1. n \in Nat /\ DOMAIN q = 1..n
  OBVIOUS
<1>2. p \in 1..n /\ q[p].id = m
  BY <1>1 DEF InQueue, PositionOf
<1>3. k = [i \in 1..(n - 1) |-> IF i < p THEN q[i] ELSE q[i + 1]]
  BY DEF WithoutItem
<1> HIDE DEF k, p
<1>4. \A i \in 1..(n - 1) : i \in 1..n /\ i + 1 \in 1..n /\ q[i] \in QueueItem /\ q[i + 1] \in QueueItem
  BY <1>1
<1>5. k \in [1..(n - 1) -> QueueItem]
  BY <1>3, <1>4
<1>6. k \in Seq(QueueItem) /\ DOMAIN k = 1..(n - 1)
  <2>1. n - 1 \in Nat
    BY <1>1, <1>2
  <2> QED
    BY <1>5, <2>1
<1>7. \A i, j \in 1..(n - 1) : k[i].id = k[j].id => i = j
  <2> SUFFICES ASSUME NEW i \in 1..(n - 1), NEW j \in 1..(n - 1), k[i].id = k[j].id
               PROVE  i = j
    OBVIOUS
  <2>1. k[i] = (IF i < p THEN q[i] ELSE q[i + 1]) /\ k[j] = (IF j < p THEN q[j] ELSE q[j + 1])
    BY <1>3
  <2>2. i \in 1..n /\ i + 1 \in 1..n /\ j \in 1..n /\ j + 1 \in 1..n
    BY <1>4
  <2>3. CASE i < p /\ j < p
    BY <1>1, <2>1, <2>2, <2>3
  <2>4. CASE i < p /\ ~(j < p)
    <3>1. i = j + 1
      BY <1>1, <2>1, <2>2, <2>4
    <3> QED
      BY <1>1, <1>2, <2>4, <3>1
  <2>5. CASE ~(i < p) /\ j < p
    <3>1. i + 1 = j
      BY <1>1, <2>1, <2>2, <2>5
    <3> QED
      BY <1>1, <1>2, <2>5, <3>1
  <2>6. CASE ~(i < p) /\ ~(j < p)
    <3>1. i + 1 = j + 1
      BY <1>1, <2>1, <2>2, <2>6
    <3> QED
      BY <1>1, <3>1
  <2> QED
    BY <2>3, <2>4, <2>5, <2>6
<1>8. ASSUME NEW i \in 1..(n - 1)
      PROVE  \E j \in 1..n : j # p /\ k[i] = q[j]
  <2>1. k[i] = (IF i < p THEN q[i] ELSE q[i + 1])
    BY <1>3
  <2>2. CASE i < p
    BY <1>2, <1>4, <2>1, <2>2
  <2>3. CASE ~(i < p)
    <3>1. i + 1 \in 1..n /\ i + 1 # p /\ k[i] = q[i + 1]
      BY <1>2, <1>4, <2>1, <2>3
    <3> QED
      BY <3>1
  <2> QED
    BY <2>2, <2>3
<1>9. ASSUME NEW j \in 1..n, j # p
      PROVE  \E i \in 1..(n - 1) : k[i] = q[j]
  <2>1. CASE j < p
    <3>1. j \in 1..(n - 1)
      BY <1>1, <1>2, <2>1
    <3> QED
      BY <1>3, <2>1, <3>1
  <2>2. CASE j > p
    <3>1. j - 1 \in 1..(n - 1) /\ ~(j - 1 < p) /\ (j - 1) + 1 = j
      BY <1>1, <1>2, <2>2
    <3>2. k[j - 1] = q[j]
      BY <1>3, <3>1
    <3> QED
      BY <3>1, <3>2
  <2> QED
    BY <1>2, <1>9, <2>1, <2>2
<1>10. \A j \in 1..n : j # p => q[j].id # m /\ q[j].claimedBy = None
  BY <1>1, <1>2
<1>11. QueueOK(k)
  <2>1. ASSUME NEW i \in 1..(n - 1) PROVE k[i].claimedBy = None
    <3>1. PICK j \in 1..n : j # p /\ k[i] = q[j]
      BY <1>8
    <3> QED
      BY <1>10, <3>1
  <2>2. \A i, j \in DOMAIN k : k[i].id = k[j].id => i = j
    BY <1>6, <1>7
  <2> QED
    BY <1>6, <2>1, <2>2 DEF QueueOK
<1>12. ASSUME NEW x
       PROVE  InQueue(k, x) <=> InQueue(q, x) /\ x # m
  <2>1. ASSUME InQueue(k, x) PROVE InQueue(q, x) /\ x # m
    <3>1. PICK i \in 1..(n - 1) : k[i].id = x
      BY <1>6, <2>1 DEF InQueue
    <3>2. PICK j \in 1..n : j # p /\ k[i] = q[j]
      BY <1>8
    <3> QED
      BY <1>1, <1>10, <3>1, <3>2 DEF InQueue
  <2>2. ASSUME InQueue(q, x), x # m PROVE InQueue(k, x)
    <3>1. PICK j \in 1..n : q[j].id = x
      BY <1>1, <2>2 DEF InQueue
    <3>2. j # p
      BY <1>2, <2>2, <3>1
    <3>3. PICK i \in 1..(n - 1) : k[i] = q[j]
      BY <1>9, <3>2
    <3> QED
      BY <1>6, <3>1, <3>3 DEF InQueue
  <2> QED
    BY <2>1, <2>2
<1> QED
  BY <1>11, <1>12 DEF k

\* A function of the items of a Queue.
LEMMA MapQueue ==
  ASSUME NEW q \in Seq(QueueItem), NEW k, DOMAIN k = DOMAIN q,
         \A i \in DOMAIN q : k[i] \in QueueItem /\ k[i].id = q[i].id,
         k = [i \in DOMAIN q |-> k[i]],
         \A i, j \in DOMAIN q : q[i].id = q[j].id => i = j
  PROVE  /\ k \in Seq(QueueItem) /\ \A i, j \in DOMAIN k : k[i].id = k[j].id => i = j
         /\ \A x : InQueue(k, x) <=> InQueue(q, x)
<1>1. DOMAIN q = 1..Len(q) /\ Len(q) \in Nat
  OBVIOUS
<1>2. k \in [1..Len(q) -> QueueItem]
  BY <1>1
<1>3. k \in Seq(QueueItem)
  BY <1>1, <1>2
<1> QED
  BY <1>3 DEF InQueue

\* The aggregate with another Queue.
LEMMA QueueFields ==
  ASSUME NEW a, AggShape(a), NEW q
  PROVE  LET b == [a EXCEPT !.queue = q]
         IN  /\ DOMAIN b = AggFields /\ b.queue = q
             /\ b.history = a.history /\ b.journal = a.journal
             /\ b.runState = a.runState /\ b.activeRun = a.activeRun /\ b.config = a.config
             /\ QueueOK(q) => AggShape(b)
<1>1. DOMAIN a = AggFields
  BY DEF AggShape
<1> DEFINE b == [a EXCEPT !.queue = q]
<1>2. /\ DOMAIN b = AggFields /\ b.queue = q
      /\ b.history = a.history /\ b.journal = a.journal
      /\ b.runState = a.runState /\ b.activeRun = a.activeRun /\ b.config = a.config
  BY <1>1 DEF AggFields
<1> HIDE DEF b
<1>3. QueueOK(q) => AggShape(b)
  BY <1>2 DEF AggShape
<1> QED
  BY <1>2, <1>3 DEF b

\* Enqueue adds an unclaimed item under a new identity.
LEMMA EnqueueFields ==
  ASSUME NEW a, AggShape(a), NEW m \in Messages, NEW d \in Deliveries, CanEnqueue(a, m)
  PROVE  LET b == Enqueue(a, m, d)
         IN  /\ AggShape(b) /\ b.history = a.history /\ b.journal = a.journal
             /\ b.runState = a.runState /\ b.activeRun = a.activeRun /\ b.config = a.config
             /\ \A x : InQueue(b.queue, x) <=> InQueue(a.queue, x) \/ x = m
<1> DEFINE it == [id |-> m, delivery |-> d, claimedBy |-> None]
           q == a.queue
           k == Append(q, it)
<1>1. it \in QueueItem /\ it.id = m /\ it.claimedBy = None
  BY DEF QueueItem
<1>2. q \in Seq(QueueItem) /\ QueueOK(q)
  BY DEF AggShape, QueueOK
<1> HIDE DEF it, q
<1>3. /\ k \in Seq(QueueItem) /\ DOMAIN k = 1..(Len(q) + 1) /\ k[Len(q) + 1] = it
      /\ \A i \in 1..Len(q) : k[i] = q[i]
      /\ DOMAIN q = 1..Len(q) /\ Len(q) \in Nat
  BY <1>1, <1>2
<1> HIDE DEF k
<1>4. \A i \in DOMAIN q : q[i].id # m
  BY DEF CanEnqueue, InQueue, q
<1>5. \A i \in DOMAIN k : i = Len(q) + 1 \/ i \in DOMAIN q
  BY <1>3
<1>6. QueueOK(k)
  BY <1>1, <1>2, <1>3, <1>4, <1>5 DEF QueueOK
<1>7. \A x : InQueue(k, x) <=> InQueue(q, x) \/ x = m
  BY <1>1, <1>3, <1>5 DEF InQueue
<1>8. Enqueue(a, m, d) = [a EXCEPT !.queue = k]
  BY DEF Enqueue, k, it, q
<1> QED
  BY <1>6, <1>7, <1>8, QueueFields DEF q

\* Delete takes an unclaimed item out of the Queue.
LEMMA DeleteFields ==
  ASSUME NEW a, AggShape(a), NEW m, CanRevise(a, m)
  PROVE  LET b == Delete(a, m)
         IN  /\ AggShape(b) /\ b.history = a.history /\ b.journal = a.journal
             /\ b.runState = a.runState /\ b.activeRun = a.activeRun /\ b.config = a.config
             /\ \A x : InQueue(b.queue, x) <=> InQueue(a.queue, x) /\ x # m
<1>1. InQueue(a.queue, m)
  BY DEF CanRevise, Unclaimed, InQueue
<1>2. /\ QueueOK(WithoutItem(a.queue, m))
      /\ \A x : InQueue(WithoutItem(a.queue, m), x) <=> InQueue(a.queue, x) /\ x # m
  BY <1>1, RemoveItem DEF AggShape, QueueOK
<1>3. Delete(a, m) = [a EXCEPT !.queue = WithoutItem(a.queue, m)]
  BY DEF Delete
<1> QED
  BY <1>2, <1>3, QueueFields

\* Reclassify moves an item to another delivery.
LEMMA ReclassifyFields ==
  ASSUME NEW a, AggShape(a), NEW m, NEW d \in Deliveries
  PROVE  LET b == Reclassify(a, m, d)
         IN  /\ AggShape(b) /\ b.history = a.history /\ b.journal = a.journal
             /\ b.runState = a.runState /\ b.activeRun = a.activeRun /\ b.config = a.config
             /\ \A x : InQueue(b.queue, x) <=> InQueue(a.queue, x)
<1> DEFINE q == a.queue
           k == [i \in DOMAIN q |->
                   IF q[i].id = m THEN [q[i] EXCEPT !.delivery = d] ELSE q[i]]
<1>1. q \in Seq(QueueItem) /\ QueueOK(q) /\ \A i \in DOMAIN q : q[i] \in QueueItem
  BY DEF AggShape, QueueOK
<1>2. \A i \in DOMAIN q : k[i] \in QueueItem /\ k[i].id = q[i].id /\ k[i].claimedBy = q[i].claimedBy
  BY <1>1 DEF QueueItem
<1>3. DOMAIN k = DOMAIN q /\ k = [i \in DOMAIN q |-> k[i]]
  OBVIOUS
<1>4. Reclassify(a, m, d) = [a EXCEPT !.queue = k]
  BY DEF Reclassify
<1> HIDE DEF q, k
<1>5. /\ k \in Seq(QueueItem) /\ \A i, j \in DOMAIN k : k[i].id = k[j].id => i = j
      /\ \A x : InQueue(k, x) <=> InQueue(q, x)
  BY <1>1, <1>2, <1>3, MapQueue DEF QueueOK
<1>6. QueueOK(k)
  BY <1>1, <1>2, <1>3, <1>5 DEF QueueOK
<1> QED
  BY <1>4, <1>5, <1>6, QueueFields DEF q

\* HoldSteers keeps every item.
LEMMA HoldSteersFields ==
  ASSUME NEW a, AggShape(a)
  PROVE  LET b == HoldSteers(a)
         IN  /\ AggShape(b) /\ b.history = a.history /\ b.journal = a.journal
             /\ b.runState = a.runState /\ b.activeRun = a.activeRun /\ b.config = a.config
             /\ \A x : InQueue(b.queue, x) <=> InQueue(a.queue, x)
<1> DEFINE q == a.queue
           k == [i \in DOMAIN q |->
                   IF Steer(q[i]) THEN [q[i] EXCEPT !.delivery = "held"] ELSE q[i]]
<1>1. q \in Seq(QueueItem) /\ QueueOK(q) /\ \A i \in DOMAIN q : q[i] \in QueueItem
  BY DEF AggShape, QueueOK
<1>2. \A i \in DOMAIN q : k[i] \in QueueItem /\ k[i].id = q[i].id /\ k[i].claimedBy = q[i].claimedBy
  BY <1>1 DEF QueueItem, Deliveries
<1>3. DOMAIN k = DOMAIN q /\ k = [i \in DOMAIN q |-> k[i]]
  OBVIOUS
<1>4. HoldSteers(a) = [a EXCEPT !.queue = k]
  BY DEF HoldSteers
<1> HIDE DEF q, k
<1>5. /\ k \in Seq(QueueItem) /\ \A i, j \in DOMAIN k : k[i].id = k[j].id => i = j
      /\ \A x : InQueue(k, x) <=> InQueue(q, x)
  BY <1>1, <1>2, <1>3, MapQueue DEF QueueOK
<1>6. QueueOK(k)
  BY <1>1, <1>2, <1>3, <1>5 DEF QueueOK
<1> QED
  BY <1>4, <1>5, <1>6, QueueFields DEF q

\* A part of the Queue, by positions.
LEMMA SelectedQueue ==
  ASSUME NEW q, QueueOK(q), NEW P \in SUBSET DOMAIN q
  PROVE  /\ QueueOK(Selection(q, P))
         /\ \A x : InQueue(Selection(q, P), x) <=> \E p \in P : q[p].id = x
<1> DEFINE k == Selection(q, P)
           n == Cardinality(P)
<1>1. q \in Seq(QueueItem)
  BY DEF QueueOK
<1>2. /\ IsFiniteSet(P) /\ P \in SUBSET Int /\ n \in Nat
      /\ k \in Seq(QueueItem) /\ Len(k) = n
      /\ \A i \in 1..n : Nth(P, i) \in P /\ k[i] = q[Nth(P, i)]
      /\ \A p \in P : \E i \in 1..n : k[i] = q[p]
  BY <1>1, SelectionIs
<1> HIDE DEF k
<1>3. DOMAIN k = 1..n
  <2> HIDE DEF n
  <2>1. k \in Seq(QueueItem) /\ Len(k) = n
    BY <1>2
  <2>2. DOMAIN k = 1..Len(k)
    BY <2>1
  <2> QED
    BY <2>1, <2>2
<1>4. ASSUME NEW i \in 1..n, NEW j \in 1..n, k[i].id = k[j].id
      PROVE  i = j
  <2>1. Nth(P, i) = Nth(P, j)
    <3> HIDE DEF n
    <3>1. /\ Nth(P, i) \in DOMAIN q /\ Nth(P, j) \in DOMAIN q
          /\ q[Nth(P, i)].id = q[Nth(P, j)].id
      BY <1>2, <1>4
    <3> QED
      BY <3>1 DEF QueueOK
  <2>2. Nth(P, i) \in Int
    <3>1. Nth(P, i) \in P
      BY <1>2
    <3>2. P \in SUBSET Int
      BY <1>2
    <3> QED
      BY <3>1, <3>2, ElementsAreInt, Zenon
  <2>3. CASE i < j
    <3>1. IsFiniteSet(P) /\ P \in SUBSET Int
      BY <1>2
    <3>2. Nth(P, i) < Nth(P, j)
      BY <2>3, <3>1, NthIncreases
    <3> QED
      BY <2>1, <2>2, <3>2
  <2>4. CASE j < i
    <3>1. IsFiniteSet(P) /\ P \in SUBSET Int
      BY <1>2
    <3>2. Nth(P, j) < Nth(P, i)
      BY <2>4, <3>1, NthIncreases
    <3> QED
      BY <2>1, <2>2, <3>2
  <2> QED
    BY <1>2, <2>3, <2>4
<1>5. \A i \in 1..n : k[i].claimedBy = None
  BY <1>2 DEF QueueOK
<1>6. QueueOK(k)
  BY <1>2, <1>3, <1>4, <1>5 DEF QueueOK
<1>7. \A x : InQueue(k, x) <=> \E p \in P : q[p].id = x
  BY <1>2, <1>3 DEF InQueue
<1> QED
  BY <1>6, <1>7 DEF k

UserMessage(m, r) == FactOf("message", m, r, None, "user", None, 0)

\* b is a after the Run r took the input m.
TookInput(a, b, m, r) ==
  /\ AggShape(b) /\ Grows(a.history, b.history, {UserMessage(m, r)})
  /\ b.journal = a.journal
  /\ b.runState = a.runState /\ b.activeRun = a.activeRun /\ b.config = a.config
  /\ \A x : InQueue(b.queue, x) <=> InQueue(a.queue, x) /\ x # m

\* An input becomes a message and leaves the Queue.
LEMMA TakeInputFields ==
  ASSUME NEW a, AggShape(a), NEW m, NEW r \in Runs \cup {None}, CanTakeInput(a, m, r)
  PROVE  TookInput(a, TakeInput(a, m, r), m, r)
<1> DEFINE q == a.queue
           k == [i \in DOMAIN q |-> IF q[i].id = m THEN [q[i] EXCEPT !.claimedBy = r] ELSE q[i]]
           w == WithoutItem(k, m)
           c == [a EXCEPT !.queue = w]
<1>1. q \in Seq(QueueItem) /\ QueueOK(q) /\ \A i \in DOMAIN q : q[i] \in QueueItem
  BY DEF AggShape, QueueOK
<1>2. \A i \in DOMAIN q : k[i] \in QueueItem /\ k[i].id = q[i].id
                          /\ (q[i].id # m => k[i].claimedBy = q[i].claimedBy)
  BY <1>1 DEF QueueItem
<1>3. DOMAIN k = DOMAIN q /\ k = [i \in DOMAIN q |-> k[i]]
  OBVIOUS
<1>4. InQueue(q, m)
  BY DEF CanTakeInput, CanClaim, Unclaimed, InQueue
<1>5. Consume(Claim(a, m, r), m) = c
  BY DEF Consume, Claim, AggShape, AggFields
<1> HIDE DEF q, k
<1>6. /\ k \in Seq(QueueItem) /\ \A i, j \in DOMAIN k : k[i].id = k[j].id => i = j
      /\ \A x : InQueue(k, x) <=> InQueue(q, x)
  BY <1>1, <1>2, <1>3, MapQueue DEF QueueOK
<1>7. \A i \in DOMAIN k : k[i].id # m => k[i].claimedBy = None
  BY <1>1, <1>2, <1>3 DEF QueueOK
<1>8. QueueOK(w) /\ \A x : InQueue(w, x) <=> InQueue(k, x) /\ x # m
  BY <1>4, <1>6, <1>7, RemoveItem
<1> HIDE DEF w
<1>9. /\ AggShape(c) /\ c.queue = w /\ c.history = a.history /\ c.journal = a.journal
      /\ c.runState = a.runState /\ c.activeRun = a.activeRun /\ c.config = a.config
  BY <1>8, QueueFields
<1>10. TakeInput(a, m, r) = Log(c, "message", m, r, None, "user", None, 0)
  BY <1>5 DEF TakeInput, AppendMessage
<1> HIDE DEF c
<1>11. /\ AggShape(Log(c, "message", m, r, None, "user", None, 0))
       /\ Rest(c, Log(c, "message", m, r, None, "user", None, 0))
       /\ Grows(c.history, Log(c, "message", m, r, None, "user", None, 0).history,
                {UserMessage(m, r)})
  BY <1>9, LogFields DEF UserMessage
<1> QED
  BY <1>6, <1>8, <1>9, <1>10, <1>11 DEF Rest, q, TookInput

\* The facts of a batch of messages, results or attempts, by position.
LEMMA BatchOf ==
  ASSUME NEW h, IsLog(h), NEW s, NEW S, s \in Seq(S), NEW g, DOMAIN g = DOMAIN s,
         g = [i \in DOMAIN s |-> g[i]]
  PROVE  Grows(h, h \o g, {g[i] : i \in DOMAIN s})
<1> DEFINE F == {g[i] : i \in DOMAIN s}
<1>1. DOMAIN s = 1..Len(s) /\ Len(s) \in Nat
  OBVIOUS
<1>2. \A i \in DOMAIN s : g[i] \in F
  OBVIOUS
<1> HIDE DEF F
<1>3. g \in [1..Len(s) -> F]
  BY <1>1, <1>2
<1>4. g \in Seq(F) /\ DOMAIN g = DOMAIN s
  BY <1>1, <1>3
<1> QED
  BY <1>4, GrowsConcat DEF F

\* b is a after the Run r took the steers.
TookSteers(a, b, r) ==
  /\ AggShape(b)
  /\ Grows(a.history, b.history, {UserMessage(a.queue[p].id, r) : p \in Steering(a)})
  /\ b.journal = a.journal
  /\ b.runState = a.runState /\ b.activeRun = a.activeRun /\ b.config = a.config
  /\ \A x : InQueue(b.queue, x) <=> \E p \in DOMAIN a.queue \ Steering(a) : a.queue[p].id = x

\* The steers that wait are recorded, in their order, and leave the Queue.
LEMMA TakeSteersFields ==
  ASSUME NEW a, AggShape(a), NEW r
  PROVE  TookSteers(a, TakeSteers(a, r), r)
<1> DEFINE b == TakeSteers(a, r)
           q == a.queue
           s == Steers(a)
           g == [i \in DOMAIN s |-> UserMessage(s[i].id, r)]
           F == {UserMessage(q[p].id, r) : p \in Steering(a)}
           k == Selection(q, DOMAIN q \ Steering(a))
<1>1. /\ b.history = a.history \o g /\ b.queue = k /\ DOMAIN b = AggFields
      /\ b.journal = a.journal /\ b.runState = a.runState
      /\ b.activeRun = a.activeRun /\ b.config = a.config
  BY DEF TakeSteers, UserMessage, AggShape, AggFields
<1>2. IsLog(a.history) /\ QueueOK(q) /\ q \in Seq(QueueItem)
  BY DEF AggShape, QueueOK
<1>3. Steering(a) \in SUBSET DOMAIN q
  BY DEF Steering
<1>4. /\ s \in Seq(QueueItem) /\ DOMAIN s = 1..Cardinality(Steering(a))
      /\ \A i \in DOMAIN s : Nth(Steering(a), i) \in Steering(a) /\ s[i] = q[Nth(Steering(a), i)]
      /\ \A p \in Steering(a) : \E i \in DOMAIN s : s[i] = q[p]
  <2>1. s = Selection(q, Steering(a))
    BY DEF Steers
  <2> HIDE DEF s, q
  <2>2. /\ Selection(q, Steering(a)) \in Seq(QueueItem)
        /\ Len(Selection(q, Steering(a))) = Cardinality(Steering(a))
        /\ \A i \in 1..Cardinality(Steering(a)) :
             /\ Nth(Steering(a), i) \in Steering(a)
             /\ Selection(q, Steering(a))[i] = q[Nth(Steering(a), i)]
        /\ \A p \in Steering(a) :
             \E i \in 1..Cardinality(Steering(a)) : Selection(q, Steering(a))[i] = q[p]
    BY <1>2, <1>3, SelectionIs
  <2>3. DOMAIN s = 1..Cardinality(Steering(a))
    BY <2>1, <2>2
  <2> QED
    BY <2>1, <2>2, <2>3
<1> HIDE DEF s
<1>5. Grows(a.history, a.history \o g, {g[i] : i \in DOMAIN s})
  <2>1. DOMAIN g = DOMAIN s /\ g = [i \in DOMAIN s |-> g[i]] /\ s \in Seq(QueueItem)
    BY <1>4
  <2> HIDE DEF g, q
  <2> QED
    BY <1>2, <2>1, BatchOf
<1>6. {g[i] : i \in DOMAIN s} = F
  BY <1>4
<1>7. QueueOK(k) /\ \A x : InQueue(k, x) <=> \E p \in DOMAIN q \ Steering(a) : q[p].id = x
  BY <1>2, SelectedQueue
<1> HIDE DEF b, k, F, g
<1>8. AggShape(b)
  BY <1>1, <1>5, <1>7 DEF AggShape, Grows
<1> QED
  BY <1>1, <1>5, <1>6, <1>7, <1>8 DEF b, F, q, TookSteers

\* A Run becomes the active one.
LEMMA SetRunningFields ==
  ASSUME NEW a, AggShape(a), NEW r \in Runs
  PROVE  LET b == SetRunning(a, r)
         IN  /\ AggShape(b) /\ b.history = a.history /\ b.queue = a.queue
             /\ b.journal = a.journal /\ b.runState = "running" /\ b.activeRun = r
             /\ b.config = a.config
<1> DEFINE b == SetRunning(a, r)
<1>1. DOMAIN a = AggFields
  BY DEF AggShape
<1>2. /\ DOMAIN b = AggFields /\ b.history = a.history /\ b.queue = a.queue
      /\ b.journal = a.journal /\ b.runState = "running" /\ b.activeRun = r
      /\ b.config = a.config
  BY <1>1 DEF AggFields, SetRunning
<1> HIDE DEF b
<1>3. AggShape(b)
  BY <1>2 DEF AggShape
<1> QED
  BY <1>2, <1>3 DEF b

\* No Run is active any more.
LEMMA SetIdleFields ==
  ASSUME NEW a, AggShape(a)
  PROVE  LET b == SetIdle(a)
         IN  /\ AggShape(b) /\ b.history = a.history /\ b.queue = a.queue
             /\ b.journal = a.journal /\ b.runState = "idle" /\ b.activeRun = None
             /\ b.config = a.config
<1> DEFINE b == SetIdle(a)
<1>1. DOMAIN a = AggFields
  BY DEF AggShape
<1>2. /\ DOMAIN b = AggFields /\ b.history = a.history /\ b.queue = a.queue
      /\ b.journal = a.journal /\ b.runState = "idle" /\ b.activeRun = None
      /\ b.config = a.config
  BY <1>1 DEF AggFields, SetIdle
<1> HIDE DEF b
<1>3. AggShape(b)
  BY <1>2 DEF AggShape
<1> QED
  BY <1>2, <1>3 DEF b

RunFact(r, val, g) == FactOf("run", r, r, None, val, g, 0)

\* b is a with the Run r begun by the input m.
BeginsRun(a, b, m, r) ==
  /\ AggShape(b) /\ b.journal = a.journal /\ b.config = a.config
  /\ b.runState = "running" /\ b.activeRun = r
  /\ Grows(a.history, b.history, {RunFact(r, "started", a.config), UserMessage(m, r)})
  /\ InQueue(a.queue, m) /\ ~HasMessage(a.history, m)
  /\ \A x : InQueue(b.queue, x) <=> InQueue(a.queue, x) /\ x # m

\* A Run begins with an input that waits.
LEMMA BeginFields ==
  ASSUME NEW a, AggShape(a), NEW m, NEW r \in Runs, CanBegin(a, m, r)
  PROVE  BeginsRun(a, Begin(a, m, r), m, r)
<1> DEFINE c == SetRunning(a, r)
           d == StartRun(c, r, a.config)
           b == TakeInput(d, m, r)
<1>1. /\ AggShape(c) /\ c.history = a.history /\ c.queue = a.queue /\ c.journal = a.journal
      /\ c.runState = "running" /\ c.activeRun = r /\ c.config = a.config
  BY SetRunningFields
<1>2. d = Log(c, "run", r, r, None, "started", a.config, 0)
  BY DEF StartRun
<1> HIDE DEF c, d
<1>3. /\ AggShape(d) /\ Rest(c, d)
      /\ Grows(c.history, d.history, {RunFact(r, "started", a.config)})
  BY <1>1, <1>2, LogFields DEF RunFact
<1>4. CanTakeInput(d, m, r) /\ Begin(a, m, r) = b
  BY DEF CanBegin, Begin, c, d
<1> HIDE DEF b
<1>5. /\ AggShape(b) /\ Grows(d.history, b.history, {UserMessage(m, r)})
      /\ b.journal = d.journal /\ b.runState = d.runState /\ b.activeRun = d.activeRun
      /\ b.config = d.config
      /\ \A x : InQueue(b.queue, x) <=> InQueue(d.queue, x) /\ x # m
  BY <1>3, <1>4, TakeInputFields DEF b, TookInput
<1>6. Grows(a.history, b.history, {RunFact(r, "started", a.config)} \cup {UserMessage(m, r)})
  <2>1. IsLog(a.history)
    BY DEF AggShape
  <2> QED
    BY <1>1, <1>3, <1>5, <2>1, GrowsTwice
<1>7. {RunFact(r, "started", a.config)} \cup {UserMessage(m, r)}
        = {RunFact(r, "started", a.config), UserMessage(m, r)}
  OBVIOUS
<1>8. InQueue(d.queue, m) /\ ~HasMessage(d.history, m)
  BY <1>4 DEF CanTakeInput, CanClaim, Unclaimed, InQueue, CanAppendMessage
<1>9. ~HasMessage(a.history, m)
  <2>1. \A j \in DOMAIN a.history : \E i \in DOMAIN d.history : d.history[i] = a.history[j]
    BY <1>1, <1>3, GrowsFacts DEF AggShape
  <2> QED
    BY <1>8, <2>1 DEF HasMessage
<1> QED
  BY <1>1, <1>3, <1>4, <1>5, <1>6, <1>7, <1>8, <1>9 DEF Rest, BeginsRun

\* b is a with the Run r ended.
EndsRun(a, b, r, g, o) ==
  /\ AggShape(b) /\ b.queue = a.queue /\ b.journal = a.journal
  /\ b.config = a.config /\ b.runState = "idle" /\ b.activeRun = None
  /\ Grows(a.history, b.history, {RunFact(r, o, g)})

\* A Run ends and the Session is idle.
LEMMA EndFields ==
  ASSUME NEW a, AggShape(a), NEW r, NEW g, NEW o
  PROVE  EndsRun(a, SetIdle(EndRun(a, r, g, o)), r, g, o)
<1> DEFINE c == EndRun(a, r, g, o)
<1>1. c = Log(a, "run", r, r, None, o, g, 0)
  BY DEF EndRun
<1> HIDE DEF c
<1>2. AggShape(c) /\ Rest(a, c) /\ Grows(a.history, c.history, {RunFact(r, o, g)})
  BY <1>1, LogFields DEF RunFact
<1>3. /\ AggShape(SetIdle(c)) /\ SetIdle(c).history = c.history
      /\ SetIdle(c).queue = c.queue /\ SetIdle(c).journal = c.journal
      /\ SetIdle(c).runState = "idle" /\ SetIdle(c).activeRun = None
      /\ SetIdle(c).config = c.config
  BY <1>2, SetIdleFields
<1> QED
  BY <1>2, <1>3 DEF Rest, c, EndsRun

\* The execution mark of a call.
LEMMA MarkPendingFields ==
  ASSUME NEW a, AggShape(a), NEW c \in Calls, NEW r \in Runs \cup {None}
  PROVE  LET b == MarkPending(a, c, r)
         IN  /\ AggShape(b) /\ b.history = a.history /\ b.queue = a.queue
             /\ b.runState = a.runState /\ b.activeRun = a.activeRun /\ b.config = a.config
             /\ b.journal[c].status = "pending"
             /\ \A d \in Calls : d # c => b.journal[d] = a.journal[d]
<1> DEFINE e == [status |-> "pending", run |-> r]
           b == MarkPending(a, c, r)
<1>1. DOMAIN a = AggFields /\ a.journal \in [Calls -> JournalEntry]
  BY DEF AggShape
<1>2. e \in JournalEntry /\ e.status = "pending"
  BY DEF JournalEntry, Unfinished
<1> HIDE DEF e
<1>3. /\ DOMAIN b = AggFields /\ b.history = a.history /\ b.queue = a.queue
      /\ b.runState = a.runState /\ b.activeRun = a.activeRun /\ b.config = a.config
      /\ b.journal = [a.journal EXCEPT ![c] = e]
  BY <1>1 DEF MarkPending, AggFields, e
<1> HIDE DEF b
<1>4. /\ b.journal \in [Calls -> JournalEntry] /\ b.journal[c] = e
      /\ \A d \in Calls : d # c => b.journal[d] = a.journal[d]
  BY <1>1, <1>2, <1>3
<1>5. AggShape(b)
  BY <1>3, <1>4 DEF AggShape
<1> QED
  BY <1>2, <1>3, <1>4, <1>5 DEF b

\* The Context of a request.
LEMMA SetContextFields ==
  ASSUME NEW a, AggShape(a), NEW r, NEW g, NEW keep
  PROVE  LET b == SetContext(a, r, g, keep)
         IN  AggShape(b) /\ Rest(a, b) /\ b.history = a.history
<1> DEFINE b == SetContext(a, r, g, keep)
<1>1. DOMAIN b = AggFields /\ Rest(a, b) /\ b.history = a.history
  BY DEF SetContext, AggShape, AggFields, Rest
<1> HIDE DEF b
<1>2. AggShape(b)
  BY <1>1 DEF AggShape, Rest
<1> QED
  BY <1>1, <1>2 DEF b

\* A new model configuration.
LEMMA SetModelConfigFields ==
  ASSUME NEW a, AggShape(a), NEW g
  PROVE  LET b == SetModelConfig(a, g)
         IN  /\ AggShape(b) /\ b.queue = a.queue /\ b.journal = a.journal
             /\ b.runState = a.runState /\ b.activeRun = a.activeRun
             /\ Grows(a.history, b.history, {FactOf("config", None, None, None, "none", g, 0)})
<1> DEFINE c == Log(a, "config", None, None, None, "none", g, 0)
           b == [c EXCEPT !.config = g]
<1>1. /\ AggShape(c) /\ Rest(a, c)
      /\ Grows(a.history, c.history, {FactOf("config", None, None, None, "none", g, 0)})
  BY LogFields
<1> HIDE DEF c
<1>2. /\ DOMAIN b = AggFields /\ b.history = c.history /\ b.queue = c.queue
      /\ b.journal = c.journal /\ b.runState = c.runState /\ b.activeRun = c.activeRun
  BY <1>1 DEF AggShape, AggFields
<1>3. SetModelConfig(a, g) = b
  BY DEF SetModelConfig, c
<1> HIDE DEF b
<1>4. AggShape(b)
  BY <1>1, <1>2 DEF AggShape
<1> QED
  BY <1>1, <1>2, <1>3, <1>4 DEF Rest

-----------------------------------------------------------------------------
(* Recovery.                                                               *)

\* Every attempt that was started is ended.
AllEnded(h) ==
  \A i \in DOMAIN h :
    h[i].kind = "attempt" /\ h[i].val = "started" => AttemptHasEnded(h, h[i].id)

StartsAttempt(f) == f.kind = "attempt" /\ f.val = "started"

\* Facts that start no attempt leave none open.
LEMMA AllEndedGrows ==
  ASSUME NEW h, NEW k, NEW F, IsLog(h), Grows(h, k, F), AllEnded(h),
         \A f \in F : ~StartsAttempt(f)
  PROVE  AllEnded(k)
<1> SUFFICES ASSUME NEW i \in DOMAIN k, k[i].kind = "attempt", k[i].val = "started"
             PROVE  AttemptHasEnded(k, k[i].id)
  BY DEF AllEnded
<1>1. PICK j \in DOMAIN h : k[i] = h[j]
  BY GrowsFacts DEF StartsAttempt
<1>2. AttemptHasEnded(h, k[i].id)
  BY <1>1 DEF AllEnded
<1>3. PICK n \in DOMAIN h : h[n].kind = "attempt" /\ h[n].id = k[i].id /\ h[n].val # "started"
  BY <1>2 DEF AttemptHasEnded
<1>4. PICK p \in DOMAIN k : k[p] = h[n]
  BY GrowsFacts
<1> QED
  BY <1>3, <1>4 DEF AttemptHasEnded

LostAttempt(f) == FactOf("attempt", f.id, f.run, None, "outcome_unknown", f.cfg, 0)

\* Recover ends every attempt.
LEMMA RecoverAttemptsFields ==
  ASSUME NEW a, AggShape(a)
  PROVE  LET b == RecoverAttempts(a)
             h == a.history
         IN  /\ AggShape(b) /\ Rest(a, b)
             /\ Grows(h, b.history, {LostAttempt(h[p]) : p \in Unended(h)})
             /\ AllEnded(b.history)
<1> DEFINE b == RecoverAttempts(a)
           h == a.history
           R == {h[i] : i \in DOMAIN h}
           lost == Selection(h, Unended(h))
           g == [i \in DOMAIN lost |-> LostAttempt(lost[i])]
           F == {LostAttempt(h[p]) : p \in Unended(h)}
<1>1. DOMAIN b = AggFields /\ Rest(a, b) /\ b.history = h \o g
  BY DEF RecoverAttempts, AggShape, AggFields, Rest, LostAttempt
<1>2. IsLog(h) /\ h \in Seq(R) /\ Unended(h) \in SUBSET DOMAIN h
  BY DEF AggShape, IsLog, Unended
<1>3. /\ lost \in Seq(R) /\ Len(lost) = Cardinality(Unended(h))
      /\ \A i \in 1..Cardinality(Unended(h)) :
           Nth(Unended(h), i) \in Unended(h) /\ lost[i] = h[Nth(Unended(h), i)]
      /\ \A p \in Unended(h) : \E i \in 1..Cardinality(Unended(h)) : lost[i] = h[p]
  <2> HIDE DEF h, R
  <2> QED
    BY <1>2, SelectionIs
<1> HIDE DEF lost, R
<1>4. DOMAIN lost = 1..Cardinality(Unended(h))
  BY <1>3
<1>5. Grows(h, h \o g, {g[i] : i \in DOMAIN lost})
  <2>1. DOMAIN g = DOMAIN lost /\ g = [i \in DOMAIN lost |-> g[i]]
    OBVIOUS
  <2>2. IsLog(h) /\ lost \in Seq(R)
    BY <1>2, <1>3
  <2> HIDE DEF g, h
  <2> QED
    BY <2>1, <2>2, BatchOf
<1>6. {g[i] : i \in DOMAIN lost} = F
  <2> HIDE DEF h
  <2>1. ASSUME NEW i \in DOMAIN lost PROVE g[i] \in F
    <3>1. Nth(Unended(h), i) \in Unended(h) /\ lost[i] = h[Nth(Unended(h), i)]
      BY <1>3, <1>4
    <3> QED
      BY <3>1
  <2>2. ASSUME NEW p \in Unended(h)
        PROVE  \E i \in DOMAIN lost : g[i] = LostAttempt(h[p])
    <3>1. PICK i \in DOMAIN lost : lost[i] = h[p]
      BY <1>3, <1>4
    <3> QED
      BY <3>1
  <2> HIDE DEF g
  <2> QED
    BY <2>1, <2>2
<1> HIDE DEF g
<1>7. Grows(h, b.history, F)
  BY <1>1, <1>5, <1>6
<1>8. AllEnded(b.history)
  <2> DEFINE k == b.history
  <2>1. /\ \A i \in DOMAIN k : k[i] \in F \/ \E j \in DOMAIN h : k[i] = h[j]
        /\ \A j \in DOMAIN h : \E i \in DOMAIN k : k[i] = h[j]
        /\ \A f \in F : \E i \in DOMAIN k : k[i] = f
    <3>1. IsLog(h) /\ Grows(h, k, F)
      BY <1>2, <1>7
    <3> HIDE DEF h, k, F
    <3> QED
      BY <3>1, GrowsFacts
  <2> HIDE DEF b, k, h
  <2>2. SUFFICES ASSUME NEW i \in DOMAIN k, k[i].kind = "attempt", k[i].val = "started"
                 PROVE  AttemptHasEnded(k, k[i].id)
    BY DEF AllEnded, k
  <2>3. k[i] \notin F
    BY <2>2 DEF LostAttempt, FactOf
  <2>4. PICK j \in DOMAIN h : k[i] = h[j]
    BY <2>1, <2>3
  <2>5. CASE AttemptHasEnded(h, h[j].id)
    <3>1. PICK n \in DOMAIN h : h[n].kind = "attempt" /\ h[n].id = h[j].id /\ h[n].val # "started"
      BY <2>5 DEF AttemptHasEnded
    <3>2. PICK p \in DOMAIN k : k[p] = h[n]
      BY <2>1
    <3> QED
      BY <2>4, <3>1, <3>2 DEF AttemptHasEnded
  <2>6. CASE ~AttemptHasEnded(h, h[j].id)
    <3>1. j \in Unended(h)
      BY <2>2, <2>4, <2>6 DEF Unended
    <3>2. PICK p \in DOMAIN k : k[p] = LostAttempt(h[j])
      BY <2>1, <3>1
    <3> QED
      BY <2>4, <3>2 DEF AttemptHasEnded, LostAttempt, FactOf
  <2> QED
    BY <2>5, <2>6
<1> HIDE DEF b
<1>9. AggShape(b)
  BY <1>1, <1>7 DEF AggShape, Rest, Grows
<1> QED
  BY <1>1, <1>7, <1>8, <1>9 DEF b, F

LostCall(a, c) == FactOf("result", c, a.journal[c].run, None, "outcome_unknown", None, 0)

\* The status a call has after Recover.
RecoveredStatus(s) == IF s = "pending" THEN "outcome_unknown" ELSE s

\* Recover settles every call that was inside its Tool.
LEMMA RecoverCallsFields ==
  ASSUME NEW a, AggShape(a)
  PROVE  LET b == RecoverCalls(a)
         IN  /\ AggShape(b) /\ b.queue = a.queue
             /\ b.runState = a.runState /\ b.activeRun = a.activeRun /\ b.config = a.config
             /\ \E S \in SUBSET Calls : Grows(a.history, b.history, {LostCall(a, c) : c \in S})
             /\ \A c \in Calls : b.journal[c].status = RecoveredStatus(a.journal[c].status)
<1> DEFINE b == RecoverCalls(a)
           S == {c \in Calls : a.journal[c].status = "pending" /\ ~HasResult(a.history, c)}
           lost == SetToSeq(S)
           g == [i \in DOMAIN lost |-> LostCall(a, lost[i])]
           j == [c \in Calls |->
                  IF a.journal[c].status = "pending"
                  THEN [a.journal[c] EXCEPT !.status = "outcome_unknown"] ELSE a.journal[c]]
<1>1. /\ DOMAIN b = AggFields /\ b.history = a.history \o g /\ b.queue = a.queue
      /\ b.runState = a.runState /\ b.activeRun = a.activeRun /\ b.config = a.config
      /\ b.journal = j
  BY DEF RecoverCalls, AggShape, AggFields, LostCall
<1>2. IsLog(a.history) /\ a.journal \in [Calls -> JournalEntry] /\ QueueOK(a.queue)
  BY DEF AggShape
<1>3. IsFiniteSet(S) /\ S \in SUBSET Calls
  BY RuntimeAssumption, FS_Subset
<1> HIDE DEF S
<1>4. /\ lost \in Seq(S) /\ Len(lost) = Cardinality(S) /\ Cardinality(S) \in Nat
      /\ \A x \in S : \E i \in 1..Cardinality(S) : lost[i] = x
  BY <1>3, SetToSeqIs
<1> HIDE DEF lost
<1>5. DOMAIN lost = 1..Cardinality(S) /\ \A i \in DOMAIN lost : lost[i] \in S
  BY <1>4
<1>6. Grows(a.history, a.history \o g, {g[i] : i \in DOMAIN lost})
  <2>1. DOMAIN g = DOMAIN lost /\ g = [i \in DOMAIN lost |-> g[i]]
    OBVIOUS
  <2>2. IsLog(a.history) /\ lost \in Seq(S)
    BY <1>2, <1>4
  <2> HIDE DEF g, j, b
  <2> DEFINE h == a.history
  <2>3. IsLog(h)
    BY <2>2
  <2> HIDE DEF h
  <2>4. Grows(h, h \o g, {g[i] : i \in DOMAIN lost})
    BY <2>1, <2>2, <2>3, BatchOf
  <2> QED
    BY <2>4 DEF h
<1>7. {g[i] : i \in DOMAIN lost} = {LostCall(a, c) : c \in S}
  <2>1. \A c \in S : \E i \in DOMAIN lost : g[i] = LostCall(a, c)
    BY <1>4, <1>5
  <2>2. \A i \in DOMAIN lost : g[i] = LostCall(a, lost[i])
    OBVIOUS
  <2> HIDE DEF g
  <2> QED
    BY <1>5, <2>1, <2>2
<1> HIDE DEF g
<1>8. Grows(a.history, b.history, {LostCall(a, c) : c \in S})
  BY <1>1, <1>6, <1>7
<1>9. \A c \in Calls : j[c] \in JournalEntry /\ j[c].status = RecoveredStatus(a.journal[c].status)
  BY <1>2 DEF JournalEntry, JournalTerminal, RecoveredStatus
<1>10. j \in [Calls -> JournalEntry]
  BY <1>9
<1> HIDE DEF b, j
<1>11. AggShape(b)
  BY <1>1, <1>2, <1>8, <1>10 DEF AggShape, Grows
<1> QED
  BY <1>1, <1>3, <1>8, <1>9, <1>11 DEF b

\* Recover settles the ExtensionJournal apart from the rest.
LEMMA RecoverExtensionsFields ==
  ASSUME NEW a, AggShape(a)
  PROVE  LET b == RecoverExtensions(a)
         IN  AggShape(b) /\ Rest(a, b) /\ b.history = a.history
<1> DEFINE b == RecoverExtensions(a)
<1>1. DOMAIN b = AggFields /\ Rest(a, b) /\ b.history = a.history
  BY DEF RecoverExtensions, AggShape, AggFields, Rest
<1> HIDE DEF b
<1>2. AggShape(b)
  BY <1>1 DEF AggShape, Rest
<1> QED
  BY <1>1, <1>2 DEF b

\* A Run that cannot go on is interrupted; every input stays in the Queue.
LEMMA InterruptRunFields ==
  ASSUME NEW a, AggShape(a), NEW g
  PROVE  LET b == InterruptRun(a, g)
         IN  /\ AggShape(b) /\ b.journal = a.journal /\ b.config = a.config
             /\ b.runState = "idle" /\ b.activeRun = None
             /\ \E F \in SUBSET {RunFact(a.activeRun, "interrupted", g)} :
                  Grows(a.history, b.history, F)
             /\ \A x : InQueue(b.queue, x) <=> InQueue(a.queue, x)
<1> DEFINE r == a.activeRun
           q == a.queue
           k == [i \in DOMAIN q |->
                   [q[i] EXCEPT !.claimedBy = IF @ = r THEN None ELSE @,
                                !.delivery = IF @ = "steer" THEN "held" ELSE @]]
           e == IF RunFrozen(a.history, r, g) /\ ~RunHasEnded(a.history, r)
                THEN EndRun(a, r, g, "interrupted") ELSE a
           b == [e EXCEPT !.runState = "idle", !.activeRun = None, !.queue = k]
<1>1. q \in Seq(QueueItem) /\ QueueOK(q) /\ \A i \in DOMAIN q : q[i] \in QueueItem
  BY DEF AggShape, QueueOK
<1>2. \A i \in DOMAIN q : k[i] \in QueueItem /\ k[i].id = q[i].id /\ k[i].claimedBy = None
  <2> SUFFICES ASSUME NEW i \in DOMAIN q
               PROVE  k[i] \in QueueItem /\ k[i].id = q[i].id /\ k[i].claimedBy = None
    OBVIOUS
  <2>1. q[i].claimedBy = None /\ q[i] \in QueueItem
    BY <1>1 DEF QueueOK
  <2> QED
    BY <2>1 DEF QueueItem, Deliveries
<1>3. DOMAIN k = DOMAIN q /\ k = [i \in DOMAIN q |-> k[i]]
  OBVIOUS
<1>4. InterruptRun(a, g) = b
  BY DEF InterruptRun
<1>5. /\ AggShape(e) /\ e.journal = a.journal /\ e.config = a.config
      /\ \E F \in SUBSET {RunFact(r, "interrupted", g)} : Grows(a.history, e.history, F)
  <2>1. CASE RunFrozen(a.history, r, g) /\ ~RunHasEnded(a.history, r)
    <3>1. e = Log(a, "run", r, r, None, "interrupted", g, 0)
      BY <2>1 DEF EndRun
    <3> HIDE DEF e, r
    <3>2. AggShape(e) /\ Rest(a, e) /\ Grows(a.history, e.history, {RunFact(r, "interrupted", g)})
      BY <3>1, LogFields DEF RunFact
    <3> QED
      BY <3>2 DEF Rest
  <2>2. CASE ~(RunFrozen(a.history, r, g) /\ ~RunHasEnded(a.history, r))
    <3>1. e = a
      BY <2>2
    <3>2. Grows(a.history, a.history, {})
      BY GrowsNot DEF AggShape
    <3> HIDE DEF e
    <3> QED
      BY <3>1, <3>2
  <2> QED
    BY <2>1, <2>2
<1> HIDE DEF q, k, e, r
<1>6. /\ k \in Seq(QueueItem) /\ \A i, j \in DOMAIN k : k[i].id = k[j].id => i = j
      /\ \A x : InQueue(k, x) <=> InQueue(q, x)
  BY <1>1, <1>2, <1>3, MapQueue DEF QueueOK
<1>7. QueueOK(k)
  BY <1>2, <1>3, <1>6 DEF QueueOK
<1>8. /\ DOMAIN b = AggFields /\ b.history = e.history /\ b.queue = k /\ b.journal = e.journal
      /\ b.runState = "idle" /\ b.activeRun = None /\ b.config = e.config
  BY <1>5 DEF AggShape, AggFields
<1> HIDE DEF b
<1>9. AggShape(b)
  BY <1>5, <1>7, <1>8 DEF AggShape
<1> QED
  BY <1>4, <1>5, <1>6, <1>8, <1>9 DEF q, r

\* What Recover writes.
Lost(f) ==
  /\ f.num = 0
  /\ \/ f.kind \in {"attempt", "result"} /\ f.val = "outcome_unknown"
     \/ f.kind = "run" /\ f.val = "interrupted"

\* b is a after Recover.
RecoversTo(a, b) ==
  /\ AggShape(b) /\ b.config = a.config
  /\ \E F : Grows(a.history, b.history, F) /\ \A f \in F : Lost(f)
  /\ AllEnded(b.history)
  /\ \A x : InQueue(b.queue, x) <=> InQueue(a.queue, x)
  /\ \A c \in Calls : b.journal[c].status = RecoveredStatus(a.journal[c].status)
  /\ b.runState = "running" => a.runState = "running" /\ b.activeRun = a.activeRun

\* Recover adds what was lost, ends every attempt, settles every pending call,
\* keeps every input and starts nothing.
LEMMA RecoveredFields ==
  ASSUME NEW a, AggShape(a)
  PROVE  RecoversTo(a, Recovered(a))
<1> DEFINE u == RecoverExtensions(a)
           v == RecoverAttempts(u)
           w == RecoverCalls(v)
           g == ConfigOf(w, w.activeRun)
           i == InterruptRun(w, g)
           b == IF w.runState = "running" /\ ~Recoverable(w) THEN i ELSE w
<1>1. AggShape(u) /\ Rest(a, u) /\ u.history = a.history
  BY RecoverExtensionsFields
<1> HIDE DEF u
<1>2. /\ AggShape(v) /\ Rest(u, v) /\ AllEnded(v.history)
      /\ Grows(u.history, v.history, {LostAttempt(u.history[p]) : p \in Unended(u.history)})
  BY <1>1, RecoverAttemptsFields
<1> HIDE DEF v
<1>3. /\ AggShape(w) /\ w.queue = v.queue
      /\ w.runState = v.runState /\ w.activeRun = v.activeRun /\ w.config = v.config
      /\ \E S \in SUBSET Calls : Grows(v.history, w.history, {LostCall(v, c) : c \in S})
      /\ \A c \in Calls : w.journal[c].status = RecoveredStatus(v.journal[c].status)
  BY <1>2, RecoverCallsFields
<1> HIDE DEF w
<1>4. PICK S \in SUBSET Calls : Grows(v.history, w.history, {LostCall(v, c) : c \in S})
  BY <1>3
<1> DEFINE F1 == {LostAttempt(u.history[p]) : p \in Unended(u.history)}
           F2 == {LostCall(v, c) : c \in S}
<1>5. \A f \in F1 \cup F2 : Lost(f) /\ ~StartsAttempt(f)
  BY DEF LostAttempt, LostCall, FactOf, Lost, StartsAttempt
<1>6. Grows(a.history, w.history, F1 \cup F2)
  <2>1. IsLog(a.history) /\ Grows(a.history, v.history, F1) /\ Grows(v.history, w.history, F2)
    BY <1>1, <1>2, <1>4 DEF AggShape
  <2> HIDE DEF F1, F2
  <2> QED
    BY <2>1, GrowsTwice
<1>7. AllEnded(w.history)
  <2>1. IsLog(v.history) /\ Grows(v.history, w.history, F2) /\ \A f \in F2 : ~StartsAttempt(f)
    BY <1>2, <1>4, <1>5 DEF AggShape
  <2> HIDE DEF F2
  <2> QED
    BY <1>2, <2>1, AllEndedGrows
<1>8. /\ w.config = a.config /\ w.queue = a.queue /\ w.runState = a.runState
      /\ w.activeRun = a.activeRun
      /\ \A c \in Calls : w.journal[c].status = RecoveredStatus(a.journal[c].status)
  BY <1>1, <1>2, <1>3 DEF Rest
<1> HIDE DEF F1, F2, g
<1>9. Recovered(a) = b
  BY DEF Recovered, u, v, w, g
<1>10. CASE ~(w.runState = "running" /\ ~Recoverable(w))
  <2>1. b = w
    BY <1>10
  <2> HIDE DEF b
  <2> QED
    BY <1>3, <1>5, <1>6, <1>7, <1>8, <1>9, <2>1 DEF RecoversTo
<1>11. CASE w.runState = "running" /\ ~Recoverable(w)
  <2>1. b = i
    BY <1>11
  <2>2. /\ AggShape(i) /\ i.journal = w.journal /\ i.config = w.config
        /\ i.runState = "idle" /\ i.activeRun = None
        /\ \E F \in SUBSET {RunFact(w.activeRun, "interrupted", g)} :
             Grows(w.history, i.history, F)
        /\ \A x : InQueue(i.queue, x) <=> InQueue(w.queue, x)
    BY <1>3, InterruptRunFields
  <2>3. PICK F \in SUBSET {RunFact(w.activeRun, "interrupted", g)} :
             Grows(w.history, i.history, F)
    BY <2>2
  <2>4. \A f \in F : Lost(f) /\ ~StartsAttempt(f)
    <3>1. LET f == RunFact(w.activeRun, "interrupted", g) IN Lost(f) /\ ~StartsAttempt(f)
      BY DEF RunFact, FactOf, Lost, StartsAttempt
    <3> QED
      BY <3>1
  <2> HIDE DEF i, b
  <2>5. Grows(a.history, i.history, (F1 \cup F2) \cup F)
    <3>1. IsLog(a.history)
      BY DEF AggShape
    <3> QED
      BY <1>6, <2>3, <3>1, GrowsTwice
  <2>6. \A f \in (F1 \cup F2) \cup F : Lost(f)
    BY <1>5, <2>4
  <2>7. \E G : Grows(a.history, i.history, G) /\ \A f \in G : Lost(f)
    BY <2>5, <2>6
  <2>8. AllEnded(i.history)
    <3>1. IsLog(w.history)
      BY <1>3 DEF AggShape
    <3> QED
      BY <1>7, <2>3, <2>4, <3>1, AllEndedGrows
  <2> QED
    BY <1>8, <1>9, <2>1, <2>2, <2>7, <2>8 DEF RecoversTo
<1> QED
  BY <1>10, <1>11

-----------------------------------------------------------------------------
(* A completion and the results of its calls.                              *)

\* A batch holds calls of its set only.
LEMMA BatchElements ==
  ASSUME NEW S \in SUBSET Calls
  PROVE  \A i \in DOMAIN SetToSeq(S) : SetToSeq(S)[i] \in S
<1> DEFINE s == SetToSeq(S)
<1>1. IsFiniteSet(S)
  BY RuntimeAssumption, FS_Subset
<1>2. s \in Seq(S)
  BY <1>1, SetToSeqIs
<1> HIDE DEF s
<1>3. \A i \in DOMAIN s : s[i] \in S
  BY <1>2
<1> QED
  BY <1>3 DEF s

\* The facts of a set of calls, in the order the batch has.
LEMMA CallBatch ==
  ASSUME NEW h, IsLog(h), NEW S \in SUBSET Calls, NEW g, NEW f,
         DOMAIN g = DOMAIN SetToSeq(S), g = [i \in DOMAIN SetToSeq(S) |-> f[SetToSeq(S)[i]]]
  PROVE  Grows(h, h \o g, {f[c] : c \in S})
<1> DEFINE s == SetToSeq(S)
<1>1. IsFiniteSet(S)
  BY RuntimeAssumption, FS_Subset
<1>2. /\ s \in Seq(S) /\ Len(s) = Cardinality(S) /\ Cardinality(S) \in Nat
      /\ \A x \in S : \E i \in 1..Cardinality(S) : s[i] = x
  BY <1>1, SetToSeqIs
<1> HIDE DEF s
<1>3. DOMAIN s = 1..Cardinality(S) /\ \A i \in DOMAIN s : s[i] \in S
  BY <1>2
<1>4. DOMAIN g = DOMAIN s /\ \A i \in DOMAIN s : g[i] = f[s[i]]
  BY DEF s
<1>5. g = [i \in DOMAIN s |-> g[i]]
  BY <1>4 DEF s
<1>6. Grows(h, h \o g, {g[i] : i \in DOMAIN s})
  BY <1>2, <1>4, <1>5, BatchOf
<1>7. {g[i] : i \in DOMAIN s} = {f[c] : c \in S}
  BY <1>2, <1>3, <1>4
<1> QED
  BY <1>6, <1>7

CallFact(c, r, m) == FactOf("call", c, r, m, "none", None, 0)

\* What CommitCompletion writes.
Answered(a, m, r, calls) ==
  LET said == AppendMessage(a, m, r, "assistant")
      batch == SetToSeq(calls)
  IN  [said EXCEPT
         !.history = @ \o [i \in DOMAIN batch |->
                             FactOf("call", batch[i], r, m, "none", None, 0)],
         !.journal = [c \in Calls |->
           IF c \in calls THEN [status |-> "prepared", run |-> r] ELSE @[c]]]

AnswerMessage(m, r) == FactOf("message", m, r, None, "assistant", None, 0)

\* b is a with the answer m of the Run r and the calls S.
AnsweredIn(a, b, m, r, S) ==
  /\ AggShape(b) /\ b.queue = a.queue
  /\ b.runState = a.runState /\ b.activeRun = a.activeRun /\ b.config = a.config
  /\ Grows(a.history, b.history,
           {AnswerMessage(m, r)} \cup {CallFact(c, r, m) : c \in S})
  /\ \A c \in S : b.journal[c].status = "prepared"
  /\ \A c \in Calls \ S : b.journal[c] = a.journal[c]

\* The answer and its calls are recorded, the calls prepared.
LEMMA AnsweredFields ==
  ASSUME NEW a, AggShape(a), NEW m, NEW r \in Runs \cup {None}, NEW S \in SUBSET Calls
  PROVE  AnsweredIn(a, Answered(a, m, r, S), m, r, S)
<1> DEFINE b == Answered(a, m, r, S)
           d == AppendMessage(a, m, r, "assistant")
           s == SetToSeq(S)
           g == [i \in DOMAIN s |-> CallFact(s[i], r, m)]
           j == [c \in Calls |->
                  IF c \in S THEN [status |-> "prepared", run |-> r] ELSE d.journal[c]]
<1>1. d = Log(a, "message", m, r, None, "assistant", None, 0)
  BY DEF AppendMessage
<1>2. b = [d EXCEPT !.history = @ \o g, !.journal = j]
  BY DEF Answered, CallFact
<1> HIDE DEF d, g
<1>3. AggShape(d) /\ Rest(a, d) /\ Grows(a.history, d.history, {AnswerMessage(m, r)})
  BY <1>1, LogFields DEF AnswerMessage
<1> HIDE DEF b
<1>4. /\ DOMAIN b = AggFields /\ b.history = d.history \o g /\ b.queue = d.queue
      /\ b.runState = d.runState /\ b.activeRun = d.activeRun /\ b.config = d.config
      /\ b.journal = j
  BY <1>2, <1>3 DEF AggShape, AggFields
<1>5. Grows(d.history, d.history \o g, {CallFact(c, r, m) : c \in S})
  <2>1. IsLog(d.history)
    BY <1>3 DEF AggShape
  <2> DEFINE f == [c \in S |-> CallFact(c, r, m)]
  <2>2. \A i \in DOMAIN SetToSeq(S) : SetToSeq(S)[i] \in S
    BY BatchElements
  <2>3. /\ DOMAIN g = DOMAIN SetToSeq(S)
        /\ g = [i \in DOMAIN SetToSeq(S) |-> f[SetToSeq(S)[i]]]
    BY <2>2 DEF g
  <2>4. {f[c] : c \in S} = {CallFact(c, r, m) : c \in S}
    OBVIOUS
  <2> HIDE DEF f
  <2>5. Grows(d.history, d.history \o g, {f[c] : c \in S})
    BY <2>1, <2>3, CallBatch
  <2> QED
    BY <2>4, <2>5
<1>6. Grows(a.history, b.history, {AnswerMessage(m, r)} \cup {CallFact(c, r, m) : c \in S})
  <2>1. IsLog(a.history)
    BY DEF AggShape
  <2> QED
    BY <1>3, <1>4, <1>5, <2>1, GrowsTwice
<1>7. j \in [Calls -> JournalEntry]
  <2>1. d.journal \in [Calls -> JournalEntry]
    BY <1>3 DEF AggShape
  <2>2. [status |-> "prepared", run |-> r] \in JournalEntry
    BY DEF JournalEntry, Unfinished
  <2> QED
    BY <2>1, <2>2
<1>8. AggShape(b)
  BY <1>3, <1>4, <1>6, <1>7 DEF AggShape, Grows
<1> QED
  BY <1>3, <1>4, <1>6, <1>8 DEF Rest, b, AnsweredIn

ResultFact(c, r, s) == FactOf("result", c, r, None, s, None, 0)

Done(work) == {c \in Calls : work[c] # "none"}

\* What CommitToolResults writes before it takes the steers.
Settled(a, work) ==
  LET done == {c \in Calls : work[c] # "none"}
      batch == SetToSeq(done)
  IN  [a EXCEPT
         !.history = @ \o [i \in DOMAIN batch |->
                             FactOf("result", batch[i], a.journal[batch[i]].run, None,
                                    work[batch[i]], None, 0)],
         !.journal = [c \in Calls |->
           IF c \in done THEN [@[c] EXCEPT !.status = work[c]] ELSE @[c]]]

\* b is a with the results of work.
SettledTo(a, b, work) ==
  /\ AggShape(b) /\ b.queue = a.queue
  /\ b.runState = a.runState /\ b.activeRun = a.activeRun /\ b.config = a.config
  /\ Grows(a.history, b.history,
           {ResultFact(c, a.journal[c].run, work[c]) : c \in Done(work)})
  /\ \A c \in Calls :
       b.journal[c].status = IF c \in Done(work) THEN work[c] ELSE a.journal[c].status

\* The results are recorded and the calls settled.
LEMMA SettledFields ==
  ASSUME NEW a, AggShape(a), NEW work,
         \A c \in Calls : work[c] # "none" => work[c] \in {"succeeded", "failed"}
  PROVE  SettledTo(a, Settled(a, work), work)
<1> DEFINE b == Settled(a, work)
           S == Done(work)
           s == SetToSeq(S)
           g == [i \in DOMAIN s |-> ResultFact(s[i], a.journal[s[i]].run, work[s[i]])]
           j == [c \in Calls |->
                  IF c \in S THEN [a.journal[c] EXCEPT !.status = work[c]] ELSE a.journal[c]]
<1>1. /\ DOMAIN b = AggFields /\ b.history = a.history \o g /\ b.queue = a.queue
      /\ b.runState = a.runState /\ b.activeRun = a.activeRun /\ b.config = a.config
      /\ b.journal = j
  BY DEF Settled, Done, ResultFact, AggShape, AggFields
<1>2. IsLog(a.history) /\ a.journal \in [Calls -> JournalEntry]
  BY DEF AggShape
<1>3. S \in SUBSET Calls /\ \A c \in S : work[c] \in {"succeeded", "failed"}
  BY DEF Done
<1>4. Grows(a.history, a.history \o g, {ResultFact(c, a.journal[c].run, work[c]) : c \in S})
  <2> DEFINE f == [c \in S |-> ResultFact(c, a.journal[c].run, work[c])]
  <2>1. \A i \in DOMAIN SetToSeq(S) : SetToSeq(S)[i] \in S
    <3> HIDE DEF S
    <3> QED
      BY <1>3, BatchElements
  <2>2. /\ DOMAIN g = DOMAIN SetToSeq(S)
        /\ g = [i \in DOMAIN SetToSeq(S) |-> f[SetToSeq(S)[i]]]
    <3> HIDE DEF S
    <3> QED
      BY <2>1
  <2>3. {f[c] : c \in S} = {ResultFact(c, a.journal[c].run, work[c]) : c \in S}
    <3> HIDE DEF S
    <3> QED
      OBVIOUS
  <2> HIDE DEF g, S, f
  <2>4. Grows(a.history, a.history \o g, {f[c] : c \in S})
    BY <1>2, <1>3, <2>2, CallBatch
  <2> QED
    BY <2>3, <2>4
<1>5. \A c \in Calls : /\ j[c] \in JournalEntry
                       /\ j[c].status = IF c \in S THEN work[c] ELSE a.journal[c].status
  <2> HIDE DEF S
  <2> QED
    BY <1>2, <1>3 DEF JournalEntry, JournalTerminal
<1>6. j \in [Calls -> JournalEntry]
  BY <1>5
<1> HIDE DEF b, g, j
<1>7. AggShape(b)
  BY <1>1, <1>4, <1>6 DEF AggShape, Grows
<1> QED
  BY <1>1, <1>4, <1>5, <1>7 DEF b, SettledTo

-----------------------------------------------------------------------------
(* The shapes of the Runtime, its loop and the outside.                    *)

RtShape(x) ==
  /\ DOMAIN x = {"state", "active", "closing", "cancel", "cfg", "attempts", "calls", "tokens"}
  /\ x.state \in {"down", "idle", "running", "closed"} /\ x.active \in Runs \cup {None}

LoopShape(x) ==
  /\ DOMAIN x = {"pc", "work", "attempt", "tries", "proposal", "broken", "out"}
  /\ x.work \in [Calls -> CallPlaces]

EnvShape(x) ==
  /\ DOMAIN x = {"ran", "accepted", "deleted", "faults", "crashes"}
  /\ x.ran \in [Calls -> Nat] /\ x.faults \in Nat

Shapes == AggShape(agg) /\ RtShape(rt) /\ LoopShape(loop) /\ EnvShape(env)

\* A Runtime without a Run.
LEMMA NoRunFields ==
  ASSUME NEW s \in {"down", "idle", "running", "closed"}, NEW b
  PROVE  LET x == [NoRun EXCEPT !.state = s, !.closing = b]
             y == [NoRun EXCEPT !.state = s]
         IN  /\ RtShape(x) /\ x.state = s /\ x.active = None /\ x.closing = b
             /\ RtShape(y) /\ y.state = s /\ y.active = None /\ y.closing = FALSE
             /\ RtShape(NoRun) /\ NoRun.state = "down" /\ NoRun.active = None
BY DEF NoRun, RtShape

\* No loop runs.
LEMMA NoLoopFields ==
  /\ LoopShape(NoLoop) /\ NoLoop.pc = "none" /\ \A c \in Calls : NoLoop.work[c] = "none"
BY DEF NoLoop, LoopShape, CallPlaces

\* The loop is about to finish the Run.
LEMMA EndWithFields ==
  ASSUME NEW o, EndWith(o)
  PROVE  /\ LoopShape(loop') /\ loop'.pc = "finish" /\ loop'.out = o
         /\ \A c \in Calls : loop'.work[c] = "none"
BY DEF EndWith, NoLoop, LoopShape, CallPlaces

\* The loop goes on with the same batch.
LEMMA GotoFields ==
  ASSUME NEW pc, Goto(pc), LoopShape(loop)
  PROVE  /\ LoopShape(loop') /\ loop'.pc = pc /\ loop'.work = loop.work
         /\ loop'.attempt = loop.attempt /\ loop'.proposal = loop.proposal
BY DEF Goto, LoopShape

\* The Run r becomes active.
LEMMA ActivateFields ==
  ASSUME NEW r \in Runs, NEW g, Activate(r, g)
  PROVE  /\ RtShape(rt') /\ rt'.state = "running" /\ rt'.active = r /\ rt'.cfg = g
         /\ LoopShape(loop') /\ loop'.pc = "ready" /\ \A c \in Calls : loop'.work[c] = "none"
BY DEF Activate, NoRun, NoLoop, RtShape, LoopShape, CallPlaces

\* A refused or failed transaction changes nothing, and only a failure of the
\* Store refuses a transaction that is right.
LEMMA ErrsFields ==
  ASSUME EnvShape(env), NEW ok, NEW next, Errs(ok, next, env)
  PROVE  /\ agg' = agg /\ EnvShape(env')
         /\ env'.ran = env.ran /\ env'.accepted = env.accepted /\ env'.deleted = env.deleted
         /\ (ok /\ CanCommit(next)) => env'.faults # 0
         /\ env'.faults = 0 => env.faults = 0
<1>1. agg' = agg
  BY DEF Errs
<1>2. CASE ~(ok /\ CanCommit(next)) /\ env' = env
  BY <1>1, <1>2
<1>3. CASE env' = [env EXCEPT !.faults = @ + 1]
  BY <1>1, <1>3 DEF EnvShape
<1> QED
  BY <1>2, <1>3 DEF Errs

\* An input is accepted.
LEMMA AcceptFields ==
  ASSUME EnvShape(env), NEW m, Accept(m)
  PROVE  /\ EnvShape(env') /\ env'.ran = env.ran /\ env'.deleted = env.deleted
         /\ env'.accepted = env.accepted \cup {m} /\ env'.faults = env.faults
BY DEF Accept, EnvShape

\* After the transaction that ends a Run has failed.
LEMMA AfterRunFailure ==
  ASSUME NEW a, RecoverAfterRunFailure(a)
  PROVE  /\ RtShape(rt') /\ rt'.active = None /\ rt'.state \in {"idle", "closed"}
         /\ rt'.state = "idle" => RunSettled(a, rt.active)
         /\ LoopShape(loop') /\ loop'.pc = "none" /\ \A c \in Calls : loop'.work[c] = "none"
<1>1. loop' = NoLoop
  BY DEF RecoverAfterRunFailure
<1>2. CASE RunSettled(a, rt.active)
  <2>1. rt' = [NoRun EXCEPT !.state = "idle", !.closing = rt.closing]
    BY <1>2 DEF RecoverAfterRunFailure
  <2> QED
    BY <1>1, <1>2, <2>1, NoLoopFields DEF NoRun, RtShape
<1>3. CASE ~RunSettled(a, rt.active)
  <2>1. rt' = [NoRun EXCEPT !.state = "closed", !.closing = TRUE]
    BY <1>3 DEF RecoverAfterRunFailure
  <2> QED
    BY <1>1, <2>1, NoLoopFields DEF NoRun, RtShape
<1> QED
  BY <1>2, <1>3

\* A call gets a result in the loop.
LEMMA CallResultFields ==
  ASSUME LoopShape(loop), NEW c \in Calls, NEW s \in {"succeeded", "failed"}, NEW v,
         CallResult(c, s, v)
  PROVE  /\ LoopShape(loop') /\ loop'.pc = loop.pc /\ loop'.work[c] = s
         /\ \A d \in Calls : d # c => loop'.work[d] = loop.work[d]
BY DEF CallResult, LoopShape, CallPlaces

\* A call goes on in the loop.
LEMMA WorkFields ==
  ASSUME LoopShape(loop), NEW c \in Calls, NEW s \in {"marked", "inside"},
         loop' = [loop EXCEPT !.work[c] = s]
  PROVE  /\ LoopShape(loop') /\ loop'.pc = loop.pc /\ loop'.work[c] = s
         /\ \A d \in Calls : d # c => loop'.work[d] = loop.work[d]
BY DEF LoopShape, CallPlaces

-----------------------------------------------------------------------------
(* Fresh identities.                                                       *)

\* An identity that was never used.
LEMMA FreshIs ==
  /\ RunsLeft => FreshRun \in Runs /\ ~RunHasStarted(agg.history, FreshRun)
  /\ InputsLeft => FreshInput \in Inputs \ env.accepted
  /\ Proposals \ env.accepted # {} => FreshProposal \in Proposals \ env.accepted
BY DEF RunsLeft, FreshRun, InputsLeft, FreshInput, FreshProposal

\* A finite set has a subset of every smaller size.
LEMMA SubsetOfSize ==
  ASSUME NEW S, IsFiniteSet(S), NEW n \in Nat, n <= Cardinality(S)
  PROVE  \E T \in SUBSET S : Cardinality(T) = n
<1>1. Cardinality(S) \in Nat /\ ExistsBijection(1..Cardinality(S), S)
  BY FS_CardinalityType
<1>2. PICK f : f \in Bijection(1..Cardinality(S), S)
  BY <1>1 DEF ExistsBijection
<1>3. /\ f \in [1..Cardinality(S) -> S]
      /\ \A x, y \in 1..Cardinality(S) : f[x] = f[y] => x = y
  BY <1>2 DEF Bijection, Injection, IsInjective
<1>4. 1..n \subseteq 1..Cardinality(S) /\ IsFiniteSet(1..n) /\ Cardinality(1..n) = n
  <2>1. 1..n \subseteq 1..Cardinality(S)
    BY <1>1
  <2>2. IsFiniteSet(1..n) /\ Cardinality(1..n) = IF 1 > n THEN 0 ELSE n - 1 + 1
    BY FS_Interval
  <2> QED
    BY <2>1, <2>2
<1> DEFINE T == {f[k] : k \in 1..n}
           g == [k \in 1..n |-> f[k]]
<1>5. g \in Surjection(1..n, T) /\ T \in SUBSET S
  BY <1>3, <1>4 DEF Surjection
<1>6. \A x, y \in 1..n : g[x] = g[y] => x = y
  BY <1>3, <1>4
<1>7. Cardinality(T) = n
  <2> HIDE DEF g, T
  <2>1. g \in Injection(1..n, T)
    BY <1>5, <1>6 DEF Surjection, Injection, IsInjective
  <2> QED
    BY <1>4, <1>5, <2>1, FS_Surjection
<1> QED
  BY <1>5, <1>7

\* The calls of a completion are new ones.
LEMMA FreshCallsAre ==
  ASSUME NEW n \in Batches, AnswersLeft(n)
  PROVE  /\ FreshAnswer \in Answers /\ ~HasMessage(agg.history, FreshAnswer)
         /\ FreshCalls(n) \in SUBSET Calls /\ Cardinality(FreshCalls(n)) = n
         /\ \A c \in FreshCalls(n) : ~HasCall(agg.history, c)
<1> DEFINE S == {c \in Calls : ~HasCall(agg.history, c)}
<1>1. FreshAnswer \in Answers /\ ~HasMessage(agg.history, FreshAnswer)
  BY DEF AnswersLeft, FreshAnswer
<1>2. IsFiniteSet(S) /\ n \in Nat /\ n <= Cardinality(S)
  BY RuntimeAssumption, FS_Subset DEF AnswersLeft
<1>3. FreshCalls(n) = CHOOSE T \in SUBSET S : Cardinality(T) = n
  BY DEF FreshCalls
<1>4. S \subseteq Calls /\ \A c \in S : ~HasCall(agg.history, c)
  OBVIOUS
<1> HIDE DEF S
<1>5. \E T \in SUBSET S : Cardinality(T) = n
  BY <1>2, SubsetOfSize
<1>6. FreshCalls(n) \in SUBSET S /\ Cardinality(FreshCalls(n)) = n
  BY <1>3, <1>5
<1> QED
  BY <1>1, <1>4, <1>6

-----------------------------------------------------------------------------
(* What each action does to the aggregate.                                 *)

\* The facts of F are what the step adds to History.
Writes(F) == AggShape(agg') /\ Grows(agg.history, agg'.history, F)

\* The journal and the run state stay as they are.
Steady ==
  agg'.journal = agg.journal /\ agg'.runState = agg.runState /\ agg'.activeRun = agg.activeRun

\* The Queue holds the same inputs.
KeepsInputs == \A x : InQueue(agg'.queue, x) <=> InQueue(agg.queue, x)

\* Only the counters of the outside may change.
SameOutside ==
  /\ EnvShape(env') /\ env'.ran = env.ran
  /\ env'.accepted = env.accepted /\ env'.deleted = env.deleted
  /\ env'.faults = 0 => env.faults = 0

\* The aggregate is as it was.
LEMMA Unchanged ==
  ASSUME AggShape(agg), agg' = agg
  PROVE  Writes({}) /\ Steady /\ KeepsInputs
BY GrowsNot DEF Writes, Steady, KeepsInputs, AggShape

\* An input m joins the Queue.
Arrived(m) ==
  /\ m \in Inputs \ env.accepted
  /\ Writes({}) /\ Steady
  /\ \A x : InQueue(agg'.queue, x) <=> InQueue(agg.queue, x) \/ x = m
  /\ EnvShape(env') /\ env'.ran = env.ran /\ env'.deleted = env.deleted
  /\ env'.accepted = env.accepted \cup {m} /\ env'.faults = env.faults
  /\ rt' = rt /\ loop' = loop

\* A Run r starts with the input m.
Begun(m, r) ==
  /\ r \in Runs /\ ~RunHasStarted(agg.history, r) /\ agg.runState = "idle"
  /\ Writes({RunFact(r, "started", agg.config), UserMessage(m, r)})
  /\ agg'.journal = agg.journal /\ agg'.runState = "running" /\ agg'.activeRun = r
  /\ ~HasMessage(agg.history, m)
  /\ RtShape(rt') /\ rt'.state = "running" /\ rt'.active = r /\ rt'.cfg = agg.config
  /\ LoopShape(loop') /\ loop'.pc = "ready" /\ \A c \in Calls : loop'.work[c] = "none"

\* A message that is sent waits for the Run, or starts one.
LEMMA SendEffect ==
  ASSUME Shapes, Send
  PROVE  \/ rt.state = "running" /\ \E m : Arrived(m)
         \/ /\ rt.state = "idle"
            /\ \E m, r : /\ Begun(m, r) /\ m \in Inputs \ env.accepted
                         /\ ~InQueue(agg.queue, m) /\ KeepsInputs
                         /\ EnvShape(env') /\ env'.ran = env.ran
                         /\ env'.deleted = env.deleted /\ env'.faults = env.faults
                         /\ env'.accepted = env.accepted \cup {m}
<1> DEFINE m == FreshInput
           q == Enqueue(agg, m, "normal")
<1>1. /\ m \in Inputs \ env.accepted /\ m \in Messages /\ "normal" \in Deliveries
      /\ AggShape(agg) /\ EnvShape(env)
  BY RuntimeAssumption, FreshIs DEF Send, Deliveries, Shapes
<1>2. CanEnqueue(agg, m) /\ Accept(m)
  BY DEF Send, Commits
<1>3. /\ AggShape(q) /\ q.history = agg.history /\ q.journal = agg.journal
      /\ q.runState = agg.runState /\ q.activeRun = agg.activeRun /\ q.config = agg.config
      /\ \A x : InQueue(q.queue, x) <=> InQueue(agg.queue, x) \/ x = m
  <2> HIDE DEF m
  <2> QED
    BY <1>1, <1>2, EnqueueFields
<1>4. CASE rt.state = "running"
  <2>1. agg' = q /\ rt' = rt /\ loop' = loop
    BY <1>4 DEF Send, Commits
  <2> HIDE DEF q, m
  <2>2. Writes({})
    BY <1>1, <1>3, <2>1, GrowsNot DEF Writes, AggShape
  <2>3. Arrived(m)
    BY <1>1, <1>2, <1>3, <2>1, <2>2, AcceptFields DEF Arrived, Steady
  <2> QED
    BY <1>4, <2>3
<1>5. CASE rt.state = "idle"
  <2> DEFINE r == FreshRun
  <2>1. /\ CanBegin(q, m, r) /\ agg' = Begin(q, m, r) /\ Activate(r, agg.config)
        /\ RunsLeft
    BY <1>5 DEF Send, Commits
  <2>2. r \in Runs /\ ~RunHasStarted(agg.history, r)
    BY <2>1, FreshIs
  <2> HIDE DEF q, m, r
  <2>3. /\ AggShape(agg') /\ agg'.journal = q.journal
        /\ agg'.runState = "running" /\ agg'.activeRun = r
        /\ Grows(q.history, agg'.history, {RunFact(r, "started", q.config), UserMessage(m, r)})
        /\ InQueue(q.queue, m) /\ ~HasMessage(q.history, m)
        /\ \A x : InQueue(agg'.queue, x) <=> InQueue(q.queue, x) /\ x # m
    <3>1. BeginsRun(q, Begin(q, m, r), m, r)
      BY <1>3, <2>1, <2>2, BeginFields
    <3> QED
      BY <2>1, <3>1 DEF BeginsRun
  <2>4. agg.runState = "idle"
    BY <1>3, <2>1 DEF CanBegin, CanSetRunning
  <2>5. Begun(m, r)
    <3>1. Writes({RunFact(r, "started", agg.config), UserMessage(m, r)})
      BY <1>3, <2>3 DEF Writes
    <3>2. /\ RtShape(rt') /\ rt'.state = "running" /\ rt'.active = r /\ rt'.cfg = agg.config
          /\ LoopShape(loop') /\ loop'.pc = "ready" /\ \A c \in Calls : loop'.work[c] = "none"
      BY <2>1, <2>2, ActivateFields
    <3> QED
      BY <1>3, <2>2, <2>3, <2>4, <3>1, <3>2 DEF Begun
  <2>6. ~InQueue(agg.queue, m)
    BY <1>2 DEF CanEnqueue, m
  <2>7. KeepsInputs
    BY <1>3, <2>3, <2>6 DEF KeepsInputs
  <2> QED
    BY <1>1, <1>2, <1>5, <2>5, <2>6, <2>7, AcceptFields
<1> QED
  BY <1>4, <1>5 DEF Send

\* A steer waits for the Run.
LEMMA SteerRunEffect ==
  ASSUME Shapes, SteerRun
  PROVE  rt.state = "running" /\ \E m : Arrived(m)
<1> DEFINE m == FreshInput
           q == Enqueue(agg, m, "steer")
<1>1. /\ m \in Inputs \ env.accepted /\ m \in Messages /\ "steer" \in Deliveries
      /\ AggShape(agg) /\ EnvShape(env)
  BY RuntimeAssumption, FreshIs DEF SteerRun, Deliveries, Shapes
<1>2. /\ CanEnqueue(agg, m) /\ Accept(m) /\ agg' = q /\ rt' = rt /\ loop' = loop
      /\ rt.state = "running"
  BY DEF SteerRun, Commits
<1>3. /\ AggShape(q) /\ q.history = agg.history /\ q.journal = agg.journal
      /\ q.runState = agg.runState /\ q.activeRun = agg.activeRun /\ q.config = agg.config
      /\ \A x : InQueue(q.queue, x) <=> InQueue(agg.queue, x) \/ x = m
  <2> HIDE DEF m
  <2> QED
    BY <1>1, <1>2, EnqueueFields
<1> HIDE DEF q, m
<1>4. Writes({})
  BY <1>1, <1>2, <1>3, GrowsNot DEF Writes, AggShape
<1>5. Arrived(m)
  BY <1>1, <1>2, <1>3, <1>4, AcceptFields DEF Arrived, Steady
<1> QED
  BY <1>2, <1>5

\* An input that waits starts a Run.
LEMMA RunPendingEffect ==
  ASSUME Shapes, RunPending
  PROVE  /\ rt.state = "idle" /\ env' = env
         /\ \E m, r : /\ Begun(m, r) /\ InQueue(agg.queue, m)
                      /\ \A x : InQueue(agg'.queue, x) <=> InQueue(agg.queue, x) /\ x # m
<1>1. PICK i \in DOMAIN agg.queue :
        /\ CanBegin(agg, agg.queue[i].id, FreshRun)
        /\ agg' = Begin(agg, agg.queue[i].id, FreshRun)
  BY DEF RunPending, Commits
<1> DEFINE m == agg.queue[i].id
           r == FreshRun
<1>2. /\ rt.state = "idle" /\ env' = env /\ Activate(r, agg.config) /\ RunsLeft
      /\ AggShape(agg)
  BY DEF RunPending, Shapes
<1>3. r \in Runs /\ ~RunHasStarted(agg.history, r)
  BY <1>2, FreshIs
<1> HIDE DEF m, r
<1>4. /\ AggShape(agg') /\ agg'.journal = agg.journal
      /\ agg'.runState = "running" /\ agg'.activeRun = r
      /\ Grows(agg.history, agg'.history, {RunFact(r, "started", agg.config), UserMessage(m, r)})
      /\ InQueue(agg.queue, m) /\ ~HasMessage(agg.history, m)
      /\ \A x : InQueue(agg'.queue, x) <=> InQueue(agg.queue, x) /\ x # m
  <2>1. CanBegin(agg, m, r) /\ agg' = Begin(agg, m, r)
    BY <1>1 DEF m, r
  <2>2. BeginsRun(agg, Begin(agg, m, r), m, r)
    BY <1>2, <1>3, <2>1, BeginFields
  <2> QED
    BY <2>1, <2>2 DEF BeginsRun
<1>5. agg.runState = "idle"
  BY <1>1 DEF CanBegin, CanSetRunning
<1>6. Begun(m, r)
  <2>1. /\ RtShape(rt') /\ rt'.state = "running" /\ rt'.active = r /\ rt'.cfg = agg.config
        /\ LoopShape(loop') /\ loop'.pc = "ready" /\ \A c \in Calls : loop'.work[c] = "none"
    BY <1>2, <1>3, ActivateFields
  <2> QED
    BY <1>3, <1>4, <1>5, <2>1 DEF Begun, Writes
<1> QED
  BY <1>2, <1>4, <1>6

\* An input that waits is deleted.
LEMMA DeleteQueuedEffect ==
  ASSUME Shapes, NEW m, DeleteQueued(m)
  PROVE  /\ rt' = rt /\ loop' = loop /\ Writes({}) /\ Steady
         /\ InQueue(agg.queue, m)
         /\ \A x : InQueue(agg'.queue, x) <=> InQueue(agg.queue, x) /\ x # m
         /\ EnvShape(env') /\ env'.ran = env.ran /\ env'.accepted = env.accepted
         /\ env'.deleted = env.deleted \cup {m} /\ env'.faults = env.faults
<1>1. /\ CanRevise(agg, m) /\ agg' = Delete(agg, m) /\ rt' = rt /\ loop' = loop
      /\ env' = [env EXCEPT !.deleted = @ \cup {m}] /\ AggShape(agg) /\ EnvShape(env)
  BY DEF DeleteQueued, Commits, Shapes
<1> DEFINE b == Delete(agg, m)
<1>2. /\ AggShape(b) /\ b.history = agg.history /\ b.journal = agg.journal
      /\ b.runState = agg.runState /\ b.activeRun = agg.activeRun
      /\ \A x : InQueue(b.queue, x) <=> InQueue(agg.queue, x) /\ x # m
  BY <1>1, DeleteFields
<1> HIDE DEF b
<1>3. InQueue(agg.queue, m)
  BY <1>1 DEF CanRevise, Unclaimed, InQueue
<1>4. agg' = b
  BY <1>1 DEF b
<1>5. Writes({}) /\ Steady
  BY <1>1, <1>2, <1>4, GrowsNot DEF Writes, Steady, AggShape
<1>6. /\ EnvShape(env') /\ env'.ran = env.ran /\ env'.accepted = env.accepted
      /\ env'.deleted = env.deleted \cup {m} /\ env'.faults = env.faults
  BY <1>1 DEF EnvShape
<1> QED
  BY <1>1, <1>2, <1>3, <1>4, <1>5, <1>6

\* An input that waits gets another delivery.
LEMMA ReclassifyQueuedEffect ==
  ASSUME Shapes, NEW m, NEW d \in ReclassifyTo, ReclassifyQueued(m, d)
  PROVE  /\ rt' = rt /\ loop' = loop /\ env' = env
         /\ Writes({}) /\ Steady /\ KeepsInputs
<1>1. /\ agg' = Reclassify(agg, m, d) /\ rt' = rt /\ loop' = loop /\ env' = env
      /\ AggShape(agg) /\ d \in Deliveries
  BY RuntimeAssumption DEF ReclassifyQueued, Commits, Shapes
<1> DEFINE b == Reclassify(agg, m, d)
<1>2. /\ AggShape(b) /\ b.history = agg.history /\ b.journal = agg.journal
      /\ b.runState = agg.runState /\ b.activeRun = agg.activeRun
      /\ \A x : InQueue(b.queue, x) <=> InQueue(agg.queue, x)
  BY <1>1, ReclassifyFields
<1>3. agg' = b
  BY <1>1
<1> HIDE DEF b
<1> QED
  BY <1>1, <1>2, <1>3, GrowsNot DEF Writes, Steady, KeepsInputs, AggShape

\* An idle Session gets another model configuration.
LEMMA UpdateModelConfigEffect ==
  ASSUME Shapes, NEW g, UpdateModelConfig(g)
  PROVE  /\ rt' = rt /\ loop' = loop /\ env' = env /\ rt.state = "idle"
         /\ Writes({FactOf("config", None, None, None, "none", g, 0)})
         /\ Steady /\ KeepsInputs
<1>1. /\ agg' = SetModelConfig(agg, g) /\ rt' = rt /\ loop' = loop /\ env' = env
      /\ AggShape(agg) /\ rt.state = "idle"
  BY DEF UpdateModelConfig, Commits, Shapes
<1> DEFINE b == SetModelConfig(agg, g)
<1>2. /\ AggShape(b) /\ b.queue = agg.queue /\ b.journal = agg.journal
      /\ b.runState = agg.runState /\ b.activeRun = agg.activeRun
      /\ Grows(agg.history, b.history, {FactOf("config", None, None, None, "none", g, 0)})
  BY <1>1, SetModelConfigFields
<1>3. agg' = b
  BY <1>1
<1> HIDE DEF b
<1> QED
  BY <1>1, <1>2, <1>3 DEF Writes, Steady, KeepsInputs

\* The Run the Runtime works on stays the same.
SameRun ==
  RtShape(rt') /\ rt'.state = rt.state /\ rt'.active = rt.active /\ rt'.cfg = rt.cfg

\* Calls leave the loop or stay where they are.
WorkKept == LoopShape(loop') /\ \A c \in Calls : loop'.work[c] \in {loop.work[c], "none"}

\* The loop is about to finish the Run.
LoopEnds == WorkKept /\ loop'.pc = "finish"

\* A loop that ends its Run drops its calls.
LEMMA EndWithEnds ==
  ASSUME NEW o, EndWith(o)
  PROVE  LoopEnds
BY EndWithFields DEF LoopEnds, WorkKept

\* A loop that goes on keeps its batch and its attempt.
LEMMA GotoKeeps ==
  ASSUME Shapes, NEW pc, Goto(pc)
  PROVE  WorkKept /\ loop'.pc = pc /\ loop'.attempt = loop.attempt
BY GotoFields DEF WorkKept, Shapes

\* A step that writes at most a fact about a limit.
AtMostLimit == \E F : Writes(F) /\ \A f \in F : f.kind = "limit" /\ f.val # "completed"

\* At most the limit is recorded; journal, Queue and run state stay.
LEMMA LimitEffect ==
  ASSUME Shapes, NEW r, NEW what, what # "completed", NEW used,
         agg' = agg \/ agg' = ReachLimit(agg, r, what, used)
  PROVE  Steady /\ KeepsInputs /\ AtMostLimit
<1>1. AggShape(agg)
  BY DEF Shapes
<1>2. CASE agg' = agg
  BY <1>1, <1>2, Unchanged DEF AtMostLimit
<1>3. CASE agg' = ReachLimit(agg, r, what, used)
  <2> DEFINE b == Log(agg, "limit", None, r, None, what, None, used)
             f == FactOf("limit", None, r, None, what, None, used)
  <2>1. AggShape(b) /\ Rest(agg, b) /\ Grows(agg.history, b.history, {f})
    BY <1>1, LogFields
  <2>2. agg' = b
    BY <1>3 DEF ReachLimit
  <2>3. f.kind = "limit" /\ f.val # "completed"
    BY DEF FactOf
  <2> HIDE DEF b, f
  <2>4. Writes({f})
    BY <2>1, <2>2 DEF Writes
  <2> QED
    BY <2>1, <2>2, <2>3, <2>4 DEF Steady, KeepsInputs, Rest, AtMostLimit
<1> QED
  BY <1>2, <1>3

\* The token limit ends the Run.
LEMMA RecordBudgetEffect ==
  ASSUME Shapes, RecordBudget
  PROVE  /\ loop.pc \in {"prepare", "execute"} /\ rt' = rt /\ SameOutside
         /\ Steady /\ KeepsInputs /\ AtMostLimit /\ LoopEnds
<1> DEFINE next == ReachLimit(agg, rt.active, "tokens", rt.tokens)
<1>1. loop.pc \in {"prepare", "execute"} /\ rt' = rt /\ EnvShape(env)
  BY DEF RecordBudget, Shapes
<1>2. CASE agg' = next /\ EndWith("budget") /\ env' = env
  BY <1>1, <1>2, LimitEffect, EndWithEnds DEF SameOutside
<1>3. CASE \E ok : Errs(ok, next, env) /\ EndWith("failed")
  <2>1. agg' = agg /\ SameOutside
    BY <1>1, <1>3, ErrsFields DEF SameOutside
  <2> QED
    BY <1>1, <1>3, <2>1, LimitEffect, EndWithEnds
<1> QED
  BY <1>2, <1>3 DEF RecordBudget, Commits

\* The Context of the next request is committed.
LEMMA PrepareModelRequestEffect ==
  ASSUME Shapes, PrepareModelRequest
  PROVE  /\ loop.pc = "prepare" /\ rt' = rt /\ SameOutside
         /\ Writes({}) /\ Steady /\ KeepsInputs
         /\ WorkKept /\ loop'.pc \in {"execute", "finish"}
<1> DEFINE next == SetContext(agg, rt.active, rt.cfg, FALSE)
<1>1. loop.pc = "prepare" /\ rt' = rt /\ EnvShape(env) /\ AggShape(agg) /\ LoopShape(loop)
  BY DEF PrepareModelRequest, Shapes
<1>2. CASE EndWith("canceled") /\ agg' = agg /\ env' = env
  BY <1>1, <1>2, Unchanged, EndWithEnds DEF SameOutside, LoopEnds
<1>3. CASE agg' = next /\ env' = env /\ loop' = [loop EXCEPT !.pc = "execute", !.tries = 1]
  <2>1. AggShape(next) /\ Rest(agg, next) /\ next.history = agg.history
    BY <1>1, SetContextFields
  <2>2. WorkKept /\ loop'.pc = "execute"
    BY <1>1, <1>3 DEF WorkKept, LoopShape
  <2> HIDE DEF next
  <2>3. Writes({}) /\ Steady /\ KeepsInputs
    BY <1>1, <1>3, <2>1, GrowsNot DEF Writes, Steady, KeepsInputs, Rest, AggShape
  <2> QED
    BY <1>1, <1>3, <2>2, <2>3 DEF SameOutside
<1>4. CASE \E ok : Errs(ok, next, env) /\ EndWith("failed")
  <2>1. agg' = agg /\ SameOutside
    BY <1>1, <1>4, ErrsFields DEF SameOutside
  <2> QED
    BY <1>1, <1>4, <2>1, Unchanged, EndWithEnds DEF LoopEnds
<1> QED
  BY <1>2, <1>3, <1>4 DEF PrepareModelRequest, Commits

AttemptFact(x, r, val, g, n) == FactOf("attempt", x, r, None, val, g, n)

\* A Runtime that is left alone works on the same Run.
LEMMA RtKept ==
  ASSUME Shapes, rt' = rt
  PROVE  SameRun
BY DEF SameRun, Shapes

\* An attempt starts, unless its Run is canceled or has reached a limit.
LEMMA StartedEffect ==
  ASSUME Shapes, Started
  PROVE  /\ loop.pc = "execute" /\ SameRun /\ SameOutside /\ Steady /\ KeepsInputs /\ WorkKept
         /\ \/ loop'.pc = "finish" /\ AtMostLimit /\ rt' = rt
            \/ /\ ~Canceled /\ loop'.pc = "stream" /\ loop'.attempt \in Attempts
               /\ ~(MaxModelAttemptsPerRun > 0 /\ rt.attempts >= MaxModelAttemptsPerRun)
               /\ rt' = [rt EXCEPT !.attempts = @ + 1]
               /\ Writes({AttemptFact(loop'.attempt, rt.active, "started", rt.cfg, 0)})
               /\ ~AttemptHasStarted(agg.history, loop'.attempt)
               /\ ~AttemptHasEnded(agg.history, loop'.attempt)
<1> DEFINE x == seq + 1
           limit == ReachLimit(agg, rt.active, "attempts", rt.attempts)
           start == StartAttempt(agg, x, rt.active, rt.cfg)
<1>1. /\ loop.pc = "execute" /\ x \in Attempts /\ EnvShape(env) /\ AggShape(agg)
      /\ LoopShape(loop) /\ RtShape(rt)
  BY DEF Started, Shapes
<1>2. CASE /\ agg' = agg \/ agg' = limit
           /\ \E o : EndWith(o)
           /\ rt' = rt /\ env' = env
  BY <1>1, <1>2, LimitEffect, EndWithEnds, RtKept DEF SameOutside, LoopEnds
<1>3. CASE /\ \E ok, next : Errs(ok, next, env)
           /\ EndWith("failed") /\ rt' = rt
  <2>1. agg' = agg /\ SameOutside
    BY <1>1, <1>3, ErrsFields DEF SameOutside
  <2> QED
    BY <1>1, <1>3, <2>1, LimitEffect, EndWithEnds, RtKept DEF LoopEnds
<1>4. CASE /\ ~Canceled /\ CanStartAttempt(agg, x, rt.active, rt.cfg) /\ agg' = start
           /\ ~(MaxModelAttemptsPerRun > 0 /\ rt.attempts >= MaxModelAttemptsPerRun)
           /\ rt' = [rt EXCEPT !.attempts = @ + 1]
           /\ loop' = [loop EXCEPT !.pc = "stream", !.attempt = x]
           /\ env' = env
  <2>1. /\ WorkKept /\ loop'.pc = "stream" /\ loop'.attempt = x
    BY <1>1, <1>4 DEF WorkKept, LoopShape
  <2>2. SameRun
    BY <1>1, <1>4 DEF SameRun, RtShape
  <2>3. ~AttemptHasStarted(agg.history, x) /\ ~AttemptHasEnded(agg.history, x)
    BY <1>4 DEF CanStartAttempt
  <2> HIDE DEF x
  <2> DEFINE b == Log(agg, "attempt", x, rt.active, None, "started", rt.cfg, 0)
             f == AttemptFact(x, rt.active, "started", rt.cfg, 0)
  <2>4. AggShape(b) /\ Rest(agg, b) /\ Grows(agg.history, b.history, {f})
    BY <1>1, LogFields DEF AttemptFact
  <2>5. agg' = b
    BY <1>4 DEF StartAttempt
  <2> HIDE DEF b
  <2>6. Writes({f}) /\ Steady /\ KeepsInputs
    BY <2>4, <2>5 DEF Writes, Steady, KeepsInputs, Rest
  <2>7. SameOutside
    BY <1>1, <1>4 DEF SameOutside
  <2> QED
    BY <1>1, <1>4, <2>1, <2>2, <2>3, <2>6, <2>7
<1> QED
  BY <1>2, <1>3, <1>4 DEF Started, Commits

\* An attempt ends, or the Store fails to record that it did.
LEMMA FinishedEffect ==
  ASSUME Shapes, NEW o \in {"succeeded", "failed", "canceled"}, NEW t, Finished(o, t)
  PROVE  /\ loop.pc = "stream" /\ SameRun /\ SameOutside /\ Steady /\ KeepsInputs /\ WorkKept
         /\ \/ /\ loop'.pc = "finish" /\ Writes({}) /\ rt' = rt
               /\ \/ env'.faults # 0
                  \/ ~CanFinishAttempt(agg, loop.attempt, rt.active, rt.cfg)
                  \/ ~CanCommit(FinishAttempt(agg, loop.attempt, rt.active, rt.cfg, o, t))
            \/ /\ loop'.pc \in {"complete", "finish", "execute"}
               /\ rt' = [rt EXCEPT !.tokens = @ + t]
               /\ Writes({AttemptFact(loop.attempt, rt.active, o, rt.cfg, t)})
<1> DEFINE ok == CanFinishAttempt(agg, loop.attempt, rt.active, rt.cfg)
           next == FinishAttempt(agg, loop.attempt, rt.active, rt.cfg, o, t)
<1>1. /\ loop.pc = "stream" /\ EnvShape(env) /\ AggShape(agg)
      /\ LoopShape(loop) /\ RtShape(rt)
  BY DEF Finished, Shapes
<1>2. CASE Errs(ok, next, env) /\ EndWith("failed") /\ rt' = rt
  <2> HIDE DEF ok, next
  <2>1. agg' = agg /\ SameOutside /\ (env'.faults # 0 \/ ~ok \/ ~CanCommit(next))
    BY <1>1, <1>2, ErrsFields DEF SameOutside
  <2> QED
    BY <1>1, <1>2, <2>1, Unchanged, EndWithEnds, RtKept DEF LoopEnds, ok, next
<1>3. CASE /\ agg' = next /\ env' = env /\ rt' = [rt EXCEPT !.tokens = @ + t]
           /\ \/ Goto("complete") \/ \E u : EndWith(u)
              \/ loop' = [loop EXCEPT !.pc = "execute", !.tries = @ + 1]
  <2>1. WorkKept /\ loop'.pc \in {"complete", "finish", "execute"}
    <3>1. CASE Goto("complete")
      BY <3>1, GotoKeeps
    <3>2. CASE \E u : EndWith(u)
      BY <3>2, EndWithEnds DEF LoopEnds
    <3>3. CASE loop' = [loop EXCEPT !.pc = "execute", !.tries = @ + 1]
      BY <1>1, <3>3 DEF WorkKept, LoopShape
    <3> QED
      BY <1>3, <3>1, <3>2, <3>3
  <2>2. SameRun
    BY <1>1, <1>3 DEF SameRun, RtShape
  <2> DEFINE b == Log(agg, "attempt", loop.attempt, rt.active, None, o, rt.cfg, t)
             f == AttemptFact(loop.attempt, rt.active, o, rt.cfg, t)
  <2>3. AggShape(b) /\ Rest(agg, b) /\ Grows(agg.history, b.history, {f})
    BY <1>1, LogFields DEF AttemptFact
  <2>4. agg' = b
    BY <1>3 DEF FinishAttempt
  <2> HIDE DEF b
  <2>5. Writes({f}) /\ Steady /\ KeepsInputs
    BY <2>3, <2>4 DEF Writes, Steady, KeepsInputs, Rest
  <2>6. SameOutside
    BY <1>1, <1>3 DEF SameOutside
  <2> QED
    BY <1>1, <1>3, <2>1, <2>2, <2>5, <2>6
<1> QED
  BY <1>2, <1>3 DEF Finished, Commits

\* The journal after a completion with the calls S.
Admits(S) ==
  /\ \A c \in S : agg.journal[c].status = "absent" /\ agg'.journal[c].status = "prepared"
  /\ \A c \in Calls \ S : agg'.journal[c] = agg.journal[c]

\* A completion is recorded with its calls, or the call limit.
LEMMA CommitCompletionEffect ==
  ASSUME Shapes, NEW n \in Batches, CommitCompletion(n)
  PROVE  /\ loop.pc = "complete" /\ SameRun /\ SameOutside /\ KeepsInputs
         /\ agg'.runState = agg.runState /\ agg'.activeRun = agg.activeRun
         /\ \/ LoopEnds /\ Steady /\ AtMostLimit /\ rt' = rt
            \/ \E m \in Answers, S \in SUBSET Calls :
                 /\ ~Canceled /\ LoopShape(loop') /\ loop'.pc = IF n = 0 THEN "gate" ELSE "tools"
                 /\ Cardinality(S) = n /\ \A c \in S : ~HasCall(agg.history, c)
                 /\ ~(MaxToolCallsPerRun > 0 /\ n > MaxToolCallsPerRun - rt.calls)
                 /\ rt' = [rt EXCEPT !.calls = @ + n]
                 /\ \A c \in Calls : loop'.work[c] = IF c \in S THEN "todo" ELSE "none"
                 /\ Writes({AnswerMessage(m, rt.active)} \cup {CallFact(c, rt.active, m) : c \in S})
                 /\ Admits(S)
<1> DEFINE limit == ReachLimit(agg, rt.active, "calls", rt.calls)
           m == FreshAnswer
           S == FreshCalls(n)
           said == AppendMessage(agg, m, rt.active, "assistant")
           ok == CanAppendMessage(agg, m) /\ \A c \in S : CanAdmitToolCall(said, c, m, rt.active)
           next == Answered(agg, m, rt.active, S)
<1>1. /\ loop.pc = "complete" /\ EnvShape(env) /\ AggShape(agg)
      /\ LoopShape(loop) /\ RtShape(rt)
  BY DEF CommitCompletion, Shapes
<1>2. CASE /\ agg' = agg \/ agg' = limit
           /\ \E o : EndWith(o)
           /\ rt' = rt /\ env' = env
  <2>1. Steady /\ KeepsInputs /\ AtMostLimit
    BY <1>2, LimitEffect
  <2> QED
    BY <1>1, <1>2, <2>1, EndWithEnds, RtKept DEF SameOutside, Steady
<1>3. CASE /\ \E any, to : Errs(any, to, env)
           /\ EndWith("failed") /\ rt' = rt
  <2>1. agg' = agg /\ SameOutside
    BY <1>1, <1>3, ErrsFields DEF SameOutside
  <2>2. Steady /\ KeepsInputs /\ AtMostLimit
    BY <2>1, LimitEffect
  <2> QED
    BY <1>1, <1>3, <2>1, <2>2, EndWithEnds, RtKept DEF Steady
<1>4. CASE /\ ~Canceled /\ AnswersLeft(n) /\ ok /\ agg' = next /\ env' = env
           /\ ~(MaxToolCallsPerRun > 0 /\ n > MaxToolCallsPerRun - rt.calls)
           /\ rt' = [rt EXCEPT !.calls = @ + n]
           /\ loop' = [NoLoop EXCEPT !.pc = IF n = 0 THEN "gate" ELSE "tools",
                         !.work = [c \in Calls |-> IF c \in S THEN "todo" ELSE "none"]]
  <2>1. /\ m \in Answers /\ S \in SUBSET Calls /\ Cardinality(S) = n
        /\ \A c \in S : ~HasCall(agg.history, c)
    BY <1>4, FreshCallsAre
  <2>2. SameRun
    BY <1>1, <1>4 DEF SameRun, RtShape
  <2>3. SameOutside
    BY <1>1, <1>4 DEF SameOutside
  <2>4. \A c \in S : agg.journal[c].status = "absent"
    <3>1. AggShape(said) /\ Rest(agg, said)
      BY <1>1, LogFields DEF AppendMessage
    <3> HIDE DEF said, S, m
    <3> QED
      BY <1>4, <3>1 DEF CanAdmitToolCall, Rest
  <2> HIDE DEF S, m, said
  <2>5. /\ LoopShape(loop') /\ loop'.pc = IF n = 0 THEN "gate" ELSE "tools"
        /\ \A c \in Calls : loop'.work[c] = IF c \in S THEN "todo" ELSE "none"
    BY <1>4 DEF NoLoop, LoopShape, CallPlaces
  <2>6. AnsweredIn(agg, next, m, rt.active, S)
    BY <1>1, <2>1, AnsweredFields DEF RtShape
  <2> HIDE DEF next
  <2>7. /\ Writes({AnswerMessage(m, rt.active)} \cup {CallFact(c, rt.active, m) : c \in S})
        /\ KeepsInputs /\ Admits(S)
    BY <1>4, <2>4, <2>6 DEF Writes, KeepsInputs, Admits, AnsweredIn
  <2>8. agg'.runState = agg.runState /\ agg'.activeRun = agg.activeRun
    BY <1>4, <2>6 DEF AnsweredIn
  <2> QED
    BY <1>1, <1>4, <2>1, <2>2, <2>3, <2>5, <2>7, <2>8
<1> QED
  <2>1. \/ /\ Canceled /\ EndWith("canceled") /\ agg' = agg /\ rt' = rt /\ env' = env
        \/ /\ \E any : Commits(any, limit)
           /\ EndWith("budget") /\ rt' = rt /\ env' = env
        \/ /\ \E any, to : Errs(any, to, env)
           /\ EndWith("failed") /\ rt' = rt
        \/ /\ ~Canceled /\ AnswersLeft(n) /\ Commits(ok, next) /\ env' = env
           /\ ~(MaxToolCallsPerRun > 0 /\ n > MaxToolCallsPerRun - rt.calls)
           /\ rt' = [rt EXCEPT !.calls = @ + n]
           /\ loop' = [NoLoop EXCEPT !.pc = IF n = 0 THEN "gate" ELSE "tools",
                         !.work = [c \in Calls |-> IF c \in S THEN "todo" ELSE "none"]]
    BY DEF CommitCompletion, Answered
  <2> QED
    BY <1>2, <1>3, <1>4, <2>1 DEF Commits

\* The steers that wait are consumed by the Run r.
SteersLeave ==
  \A x : InQueue(agg'.queue, x) <=>
           \E p \in DOMAIN agg.queue \ Steering(agg) : agg.queue[p].id = x

SteerMessages(r) == {UserMessage(agg.queue[p].id, r) : p \in Steering(agg)}

\* No steer that is consumed was a message before.
NewSteers(h) ==
  \A p \in Steering(agg) : ~HasMessage(h, agg.queue[p].id)

\* Steers that may be consumed are no messages yet.
LEMMA CanTakeSteersMeans ==
  ASSUME Shapes, NEW r, CanTakeSteers(agg, r)
  PROVE  NewSteers(agg.history)
<1> DEFINE q == agg.queue
           s == Steers(agg)
           P == Steering(agg)
<1>1. q \in Seq(QueueItem) /\ P \in SUBSET DOMAIN q /\ s = Selection(q, P)
  BY DEF Shapes, AggShape, QueueOK, Steering, Steers
<1>2. \A i \in DOMAIN s : ~HasMessage(agg.history, s[i].id)
  BY DEF CanTakeSteers, CanTakeInput, CanAppendMessage
<1> HIDE DEF q, s, P
<1>3. /\ Selection(q, P) \in Seq(QueueItem) /\ Len(Selection(q, P)) = Cardinality(P)
      /\ \A p \in P : \E k \in 1..Cardinality(P) : Selection(q, P)[k] = q[p]
  BY <1>1, SelectionIs
<1>4. DOMAIN s = 1..Cardinality(P)
  BY <1>1, <1>3
<1>5. \A p \in P : ~HasMessage(agg.history, q[p].id)
  BY <1>1, <1>2, <1>3, <1>4
<1> QED
  BY <1>5 DEF NewSteers, P, q

\* A proposal that was made has an identity left.
ProposalLeft == loop.pc = "decide" /\ loop.proposal => Proposals \ env.accepted # {}

\* The Run goes on with the steers or a proposal, or is complete.
LEMMA ContinueOrCompleteEffect ==
  ASSUME Shapes, ProposalLeft, ContinueOrComplete
  PROVE  /\ loop.pc = "decide" /\ rt' = rt /\ Steady /\ WorkKept
         /\ \/ /\ loop'.pc = "finish" /\ Writes({}) /\ KeepsInputs /\ SameOutside
            \/ /\ ~Canceled /\ loop'.pc = "ready"
               /\ \/ /\ env' = env /\ Writes(SteerMessages(rt.active)) /\ SteersLeave
                     /\ NewSteers(agg.history)
                  \/ /\ loop.proposal /\ CanEnqueue(agg, FreshProposal)
                     /\ Writes({UserMessage(FreshProposal, rt.active)}) /\ KeepsInputs
                     /\ ~HasMessage(agg.history, FreshProposal)
                     /\ EnvShape(env') /\ env'.ran = env.ran /\ env'.deleted = env.deleted
                     /\ env'.faults = env.faults
                     /\ env'.accepted = env.accepted \cup {FreshProposal}
<1> DEFINE r == rt.active
           m == FreshProposal
           q == Enqueue(agg, m, "steer")
           next == TakeInput(q, m, r)
<1>1. /\ loop.pc = "decide" /\ rt' = rt /\ EnvShape(env) /\ AggShape(agg)
      /\ ProposalLeft /\ r \in Runs \cup {None}
  BY DEF ContinueOrComplete, Shapes, RtShape
<1>2. CASE (\E o : EndWith(o)) /\ agg' = agg /\ env' = env
  BY <1>1, <1>2, Unchanged, EndWithEnds DEF LoopEnds, SameOutside
<1>3. CASE (\E ok, to : Errs(ok, to, env)) /\ EndWith("failed")
  <2>1. agg' = agg /\ SameOutside
    BY <1>1, <1>3, ErrsFields DEF SameOutside
  <2> QED
    BY <1>1, <1>3, <2>1, Unchanged, EndWithEnds DEF LoopEnds
<1>4. CASE /\ ~Canceled /\ CanTakeSteers(agg, r) /\ agg' = TakeSteers(agg, r)
           /\ Goto("ready") /\ env' = env
  <2>1. TookSteers(agg, agg', r)
    BY <1>1, <1>4, TakeSteersFields
  <2>2. Writes(SteerMessages(r)) /\ SteersLeave /\ Steady
    BY <2>1 DEF TookSteers, Writes, SteerMessages, SteersLeave, Steady
  <2> QED
    BY <1>1, <1>4, <2>2, CanTakeSteersMeans, GotoKeeps
<1>5. CASE /\ ~Canceled /\ loop.proposal /\ Accept(m)
           /\ CanEnqueue(agg, m) /\ CanTakeInput(q, m, r) /\ agg' = next
           /\ Goto("ready")
  <2>1. m \in Messages /\ "steer" \in Deliveries
    BY <1>1, <1>5, FreshIs, RuntimeAssumption DEF Deliveries, ProposalLeft
  <2>2. /\ AggShape(q) /\ q.history = agg.history /\ q.journal = agg.journal
        /\ q.runState = agg.runState /\ q.activeRun = agg.activeRun
        /\ \A x : InQueue(q.queue, x) <=> InQueue(agg.queue, x) \/ x = m
    <3> HIDE DEF m
    <3> QED
      BY <1>1, <1>5, <2>1, EnqueueFields
  <2>3. ~InQueue(agg.queue, m)
    BY <1>5 DEF CanEnqueue
  <2>4. ~HasMessage(agg.history, m)
    <3> HIDE DEF m, q
    <3> QED
      BY <1>5, <2>2 DEF CanTakeInput, CanAppendMessage
  <2>5. /\ EnvShape(env') /\ env'.ran = env.ran /\ env'.deleted = env.deleted
        /\ env'.faults = env.faults /\ env'.accepted = env.accepted \cup {m}
    <3> HIDE DEF m
    <3> QED
      BY <1>1, <1>5, AcceptFields
  <2>6. WorkKept /\ loop'.pc = "ready"
    BY <1>5, GotoKeeps
  <2> HIDE DEF m, q, r
  <2>7. TookInput(q, next, m, r)
    BY <1>1, <1>5, <2>2, TakeInputFields
  <2>8. Writes({UserMessage(m, r)}) /\ Steady /\ KeepsInputs
    BY <1>5, <2>2, <2>3, <2>7 DEF Writes, Steady, KeepsInputs, TookInput
  <2> QED
    BY <1>1, <1>5, <2>3, <2>4, <2>5, <2>6, <2>8 DEF m, r
<1> QED
  BY <1>2, <1>3, <1>4, <1>5 DEF ContinueOrComplete, Commits

\* A call passes its execution mark, or is refused.
LEMMA MarkToolExecutingEffect ==
  ASSUME Shapes, NEW c \in Calls, MarkToolExecuting(c)
  PROVE  /\ MayBegin(c) /\ rt' = rt /\ SameOutside /\ Writes({}) /\ KeepsInputs
         /\ agg'.runState = agg.runState /\ agg'.activeRun = agg.activeRun
         /\ LoopShape(loop') /\ loop'.pc = loop.pc
         /\ \A d \in Calls : d # c => loop'.work[d] = loop.work[d]
         /\ \/ Steady /\ loop'.work[c] = "failed"
            \/ /\ ~Canceled /\ loop'.work[c] = "marked" /\ agg'.journal[c].status = "pending"
               /\ \A d \in Calls : d # c => agg'.journal[d] = agg.journal[d]
<1> DEFINE next == MarkPending(agg, c, rt.active)
<1>1. /\ MayBegin(c) /\ rt' = rt /\ EnvShape(env) /\ AggShape(agg) /\ LoopShape(loop)
      /\ rt.active \in Runs \cup {None}
  BY DEF MarkToolExecuting, Shapes, RtShape
<1>2. CASE CallResult(c, "failed", FALSE) /\ agg' = agg /\ SameOutside
  <2>1. Writes({}) /\ KeepsInputs /\ Steady
    BY <1>1, <1>2, Unchanged
  <2> QED
    BY <1>1, <1>2, <2>1, CallResultFields DEF Steady
<1>3. CASE /\ ~Canceled /\ agg' = next /\ env' = env
           /\ loop' = [loop EXCEPT !.work[c] = "marked"]
  <2>1. /\ AggShape(next) /\ next.history = agg.history /\ next.queue = agg.queue
        /\ next.runState = agg.runState /\ next.activeRun = agg.activeRun
        /\ next.journal[c].status = "pending"
        /\ \A d \in Calls : d # c => next.journal[d] = agg.journal[d]
    BY <1>1, MarkPendingFields
  <2> HIDE DEF next
  <2>2. Writes({}) /\ KeepsInputs
    BY <1>1, <1>3, <2>1, GrowsNot DEF Writes, KeepsInputs, AggShape
  <2>3. /\ LoopShape(loop') /\ loop'.pc = loop.pc /\ loop'.work[c] = "marked"
        /\ \A d \in Calls : d # c => loop'.work[d] = loop.work[d]
    BY <1>1, <1>3, WorkFields
  <2> QED
    BY <1>1, <1>3, <2>1, <2>2, <2>3 DEF SameOutside
<1> QED
  <2>1. \/ CallResult(c, "failed", FALSE) /\ agg' = agg /\ env' = env
        \/ (\E ok : Errs(ok, next, env)) /\ CallResult(c, "failed", FALSE)
        \/ /\ ~Canceled /\ agg' = next /\ env' = env
           /\ loop' = [loop EXCEPT !.work[c] = "marked"]
    BY DEF MarkToolExecuting, Commits
  <2>2. CASE CallResult(c, "failed", FALSE) /\ agg' = agg /\ env' = env
    BY <1>1, <1>2, <2>2 DEF SameOutside
  <2>3. CASE (\E ok : Errs(ok, next, env)) /\ CallResult(c, "failed", FALSE)
    <3>1. agg' = agg /\ SameOutside
      BY <1>1, <2>3, ErrsFields DEF SameOutside
    <3> QED
      BY <1>2, <2>3, <3>1
  <2> QED
    BY <1>3, <2>1, <2>2, <2>3

\* The results of a batch are recorded with the steers that wait.
LEMMA CommitToolResultsEffect ==
  ASSUME Shapes, CommitToolResults
  PROVE  /\ loop.pc = "dispatch" /\ rt' = rt /\ SameOutside
         /\ agg'.runState = agg.runState /\ agg'.activeRun = agg.activeRun
         /\ WorkKept /\ loop'.pc \in {"finish", "ready"}
         /\ \/ Writes({}) /\ Steady /\ KeepsInputs /\ loop'.pc = "finish"
            \/ /\ Writes({ResultFact(c, agg.journal[c].run, loop.work[c]) : c \in Done(loop.work)}
                         \cup SteerMessages(rt.active))
               /\ SteersLeave /\ NewSteers(agg.history)
               /\ \A c \in Done(loop.work) : loop.work[c] \in {"succeeded", "failed"}
               /\ \A c \in Calls : agg'.journal[c].status =
                    IF c \in Done(loop.work) THEN loop.work[c] ELSE agg.journal[c].status
               /\ \A c \in Calls : loop'.work[c] = "none"
<1> DEFINE done == {c \in Calls : loop.work[c] # "none"}
           settled == Settled(agg, loop.work)
           next == TakeSteers(settled, rt.active)
           R == {ResultFact(c, agg.journal[c].run, loop.work[c]) : c \in Done(loop.work)}
<1>1. /\ loop.pc = "dispatch" /\ rt' = rt /\ EnvShape(env) /\ AggShape(agg)
      /\ \A c \in Calls : loop.work[c] # "none" => loop.work[c] \in {"succeeded", "failed"}
  BY DEF CommitToolResults, Shapes
<1>2. \/ /\ CanTakeSteers(agg, rt.active) /\ agg' = next /\ env' = env
         /\ \/ \E o : EndWith(o)
            \/ loop' = [NoLoop EXCEPT !.pc = "ready"]
      \/ (\E ok : Errs(ok, next, env)) /\ EndWith("failed")
  BY DEF CommitToolResults, Commits, Settled
<1>3. CASE (\E ok : Errs(ok, next, env)) /\ EndWith("failed")
  <2>1. agg' = agg /\ SameOutside
    BY <1>1, <1>3, ErrsFields DEF SameOutside
  <2>2. Writes({}) /\ KeepsInputs /\ Steady
    BY <1>1, <2>1, Unchanged
  <2> QED
    BY <1>1, <1>3, <2>1, <2>2, EndWithEnds DEF LoopEnds, Steady
<1>4. CASE /\ CanTakeSteers(agg, rt.active) /\ agg' = next /\ env' = env
           /\ \/ \E o : EndWith(o)
              \/ loop' = [NoLoop EXCEPT !.pc = "ready"]
  <2>1. /\ LoopShape(loop') /\ loop'.pc \in {"finish", "ready"}
        /\ \A c \in Calls : loop'.work[c] = "none"
    <3>1. CASE \E o : EndWith(o)
      BY <3>1, EndWithFields
    <3>2. CASE loop' = [NoLoop EXCEPT !.pc = "ready"]
      BY <3>2 DEF NoLoop, LoopShape, CallPlaces
    <3> QED
      BY <1>4, <3>1, <3>2
  <2>2. SettledTo(agg, settled, loop.work)
    BY <1>1, SettledFields
  <2> HIDE DEF settled
  <2>3. TookSteers(settled, next, rt.active)
    BY <2>2, TakeSteersFields DEF SettledTo
  <2> HIDE DEF next, R
  <2>4. settled.queue = agg.queue /\ Steering(settled) = Steering(agg)
    BY <2>2 DEF SettledTo, Steering
  <2>5. Grows(agg.history, settled.history, R)
    BY <2>2 DEF SettledTo, R
  <2>6. Grows(settled.history, next.history, SteerMessages(rt.active))
    BY <2>3, <2>4 DEF TookSteers, SteerMessages
  <2>7. Writes(R \cup SteerMessages(rt.active))
    <3>1. IsLog(agg.history) /\ AggShape(next)
      BY <1>1, <2>3 DEF AggShape, TookSteers
    <3> QED
      BY <1>4, <2>5, <2>6, <3>1, GrowsTwice DEF Writes
  <2>8. SteersLeave
    BY <1>4, <2>3, <2>4 DEF TookSteers, SteersLeave
  <2>9. /\ agg'.runState = agg.runState /\ agg'.activeRun = agg.activeRun
        /\ \A c \in Calls : agg'.journal[c].status =
             IF c \in Done(loop.work) THEN loop.work[c] ELSE agg.journal[c].status
    BY <1>4, <2>2, <2>3 DEF TookSteers, SettledTo
  <2>10. NewSteers(agg.history)
    BY <1>4, CanTakeSteersMeans
  <2>11. \A c \in Done(loop.work) : loop.work[c] \in {"succeeded", "failed"}
    BY <1>1 DEF Done
  <2>12. WorkKept
    BY <2>1 DEF WorkKept
  <2>13. SameOutside
    BY <1>1, <1>4 DEF SameOutside
  <2> QED
    BY <1>1, <2>1, <2>7, <2>8, <2>9, <2>10, <2>11, <2>12, <2>13 DEF R
<1> QED
  BY <1>2, <1>3, <1>4

\* The Runtime has no Run; when it is idle the Session is idle too.
Stopped ==
  /\ RtShape(rt') /\ rt'.active = None /\ rt'.state \in {"idle", "closed"}
  /\ rt'.state = "idle" => agg'.runState = "idle"
  /\ LoopShape(loop') /\ loop'.pc = "none" /\ \A c \in Calls : loop'.work[c] = "none"

\* The Run ends, its successor begins with m, or Recover decides.
EndsHere ==
  \E o : /\ Writes({RunFact(rt.active, o, rt.cfg)}) /\ KeepsInputs /\ env' = env
         /\ agg'.journal = agg.journal /\ agg'.runState = "idle" /\ Stopped
         /\ Canceled => o # "completed"

GoesOnWith(m, r) ==
  /\ ~Canceled /\ env' = env /\ r \in Runs
  /\ \E o : Writes({RunFact(rt.active, o, rt.cfg)}
                     \cup {RunFact(r, "started", agg.config), UserMessage(m, r)})
  /\ agg'.journal = agg.journal /\ agg'.runState = "running" /\ agg'.activeRun = r
  /\ InQueue(agg.queue, m) /\ ~HasMessage(agg.history, m)
  /\ \A x : InQueue(agg'.queue, x) <=> InQueue(agg.queue, x) /\ x # m
  /\ RtShape(rt') /\ rt'.state = "running" /\ rt'.active = r /\ rt'.cfg = agg.config
  /\ LoopShape(loop') /\ loop'.pc = "ready" /\ \A c \in Calls : loop'.work[c] = "none"

\* The end of a Run: here, in a successor, or as Recover decides.
LEMMA FinishRunEffect ==
  ASSUME Shapes, FinishRun
  PROVE  /\ loop.pc = "finish"
         /\ \/ EndsHere
            \/ \E m, r : GoesOnWith(m, r)
            \/ RecoversTo(agg, agg') /\ SameOutside /\ Stopped
            \/ agg' = agg /\ SameOutside /\ env'.faults # 0 /\ Stopped
<1> DEFINE r == rt.active
           o == FinalOutcome
           natural == o = "natural"
           held == IF natural THEN agg ELSE HoldSteers(agg)
           ended == SetIdle(EndRun(held, r, rt.cfg, TerminalKind(o)))
           waiting == Selection(agg.queue, {i \in DOMAIN agg.queue : Normal(agg.queue[i])})
           chain == natural /\ ~rt.closing /\ waiting # <<>>
           m == waiting[1].id
           t == FreshRun
           next == IF chain THEN Begin(ended, m, t) ELSE ended
           ok == /\ CanEndRun(held, r, rt.cfg)
                 /\ chain => CanBegin(ended, m, t)
<1>1. /\ loop.pc = "finish" /\ (chain => RunsLeft) /\ AggShape(agg) /\ EnvShape(env)
  BY DEF FinishRun, Shapes
<1>2. \/ /\ ok /\ agg' = next /\ env' = env
         /\ IF chain THEN Activate(t, agg.config)
            ELSE /\ rt' = [NoRun EXCEPT !.state = "idle", !.closing = rt.closing]
                 /\ loop' = NoLoop
      \/ /\ env' = env \/ env' = [env EXCEPT !.faults = @ + 1]
         /\ agg' = Recovered(agg) /\ RecoverAfterRunFailure(Recovered(agg))
      \/ /\ env' = [env EXCEPT !.faults = @ + 2]
         /\ agg' = agg /\ RecoverAfterRunFailure(agg)
  BY DEF FinishRun, Commits
<1>3. CASE /\ env' = env \/ env' = [env EXCEPT !.faults = @ + 1]
           /\ agg' = Recovered(agg) /\ RecoverAfterRunFailure(Recovered(agg))
  <2>1. RecoversTo(agg, agg')
    BY <1>1, <1>3, RecoveredFields
  <2>2. SameOutside
    BY <1>1, <1>3 DEF SameOutside, EnvShape
  <2>3. Stopped
    <3>1. RecoverAfterRunFailure(agg')
      BY <1>3
    <3> QED
      BY <3>1, AfterRunFailure DEF Stopped, RunSettled
  <2> QED
    BY <1>1, <2>1, <2>2, <2>3
<1>4. CASE /\ env' = [env EXCEPT !.faults = @ + 2]
           /\ agg' = agg /\ RecoverAfterRunFailure(agg)
  <2>1. SameOutside /\ env'.faults # 0
    BY <1>1, <1>4 DEF SameOutside, EnvShape
  <2>2. Stopped
    BY <1>4, AfterRunFailure DEF Stopped, RunSettled
  <2> QED
    BY <1>1, <1>4, <2>1, <2>2
<1>5. ASSUME ok, agg' = next, env' = env,
             IF chain THEN Activate(t, agg.config)
             ELSE /\ rt' = [NoRun EXCEPT !.state = "idle", !.closing = rt.closing]
                  /\ loop' = NoLoop
      PROVE  EndsHere \/ \E mm, rr : GoesOnWith(mm, rr)
  <2>1. Canceled => TerminalKind(o) # "completed" /\ ~natural
    BY DEF FinalOutcome, TerminalKind
  <2>2. /\ AggShape(held) /\ held.history = agg.history /\ held.journal = agg.journal
        /\ held.config = agg.config
        /\ \A x : InQueue(held.queue, x) <=> InQueue(agg.queue, x)
    <3>1. CASE natural
      BY <1>1, <3>1
    <3>2. CASE ~natural
      BY <1>1, <3>2, HoldSteersFields
    <3> QED
      BY <3>1, <3>2
  <2> DEFINE k == TerminalKind(o)
  <2>3. EndsRun(held, ended, r, rt.cfg, k)
    <3>1. ended = SetIdle(EndRun(held, r, rt.cfg, k))
      OBVIOUS
    <3> HIDE DEF o, natural, held, ended, waiting, chain, t, next, ok, k, r
    <3>2. AggShape(held)
      BY <2>2
    <3>3. EndsRun(held, SetIdle(EndRun(held, r, rt.cfg, k)), r, rt.cfg, k)
      BY <3>2, EndFields
    <3> QED
      BY <3>1, <3>3
  <2> HIDE DEF held, ended, k, m
  <2>4. /\ AggShape(ended) /\ ended.journal = agg.journal /\ ended.config = agg.config
        /\ ended.runState = "idle"
        /\ Grows(agg.history, ended.history, {RunFact(r, k, rt.cfg)})
        /\ \A x : InQueue(ended.queue, x) <=> InQueue(agg.queue, x)
    BY <2>2, <2>3 DEF EndsRun
  <2>5. CASE ~chain
    <3>1. agg' = ended /\ rt' = [NoRun EXCEPT !.state = "idle", !.closing = rt.closing]
          /\ loop' = NoLoop
      BY <1>5, <2>5
    <3> HIDE DEF o, natural, waiting, chain, r, next, ok
    <3>2. Stopped
      <4>1. RtShape(rt') /\ rt'.active = None /\ rt'.state = "idle"
        BY <3>1, NoRunFields
      <4> QED
        BY <2>4, <3>1, <4>1, NoLoopFields DEF Stopped
    <3>3. Writes({RunFact(r, k, rt.cfg)}) /\ KeepsInputs
      BY <2>4, <3>1 DEF Writes, KeepsInputs
    <3>4. Canceled => k # "completed"
      BY <2>1 DEF k
    <3> QED
      BY <1>5, <2>4, <3>1, <3>2, <3>3, <3>4 DEF EndsHere, r
  <2>6. CASE chain
    <3>1. /\ agg' = Begin(ended, m, t) /\ CanBegin(ended, m, t) /\ Activate(t, agg.config)
          /\ RunsLeft /\ ~Canceled
      BY <1>1, <1>5, <2>1, <2>6
    <3>2. t \in Runs
      BY <3>1, FreshIs
    <3> HIDE DEF o, natural, waiting, chain, r, next, ok, t
    <3>3. BeginsRun(ended, agg', m, t)
      BY <2>4, <3>1, <3>2, BeginFields
    <3>4. /\ RtShape(rt') /\ rt'.state = "running" /\ rt'.active = t /\ rt'.cfg = agg.config
          /\ LoopShape(loop') /\ loop'.pc = "ready" /\ \A c \in Calls : loop'.work[c] = "none"
      BY <3>1, <3>2, ActivateFields
    <3>5. Writes({RunFact(r, k, rt.cfg)} \cup {RunFact(t, "started", agg.config), UserMessage(m, t)})
      <4>1. Grows(ended.history, agg'.history, {RunFact(t, "started", agg.config), UserMessage(m, t)})
        BY <2>4, <3>3 DEF BeginsRun
      <4>2. IsLog(agg.history) /\ AggShape(agg')
        BY <1>1, <3>3 DEF AggShape, BeginsRun
      <4> QED
        BY <2>4, <4>1, <4>2, GrowsTwice DEF Writes
    <3>6. ~HasMessage(agg.history, m)
      <4>1. \A j \in DOMAIN agg.history : \E i \in DOMAIN ended.history : ended.history[i] = agg.history[j]
        BY <1>1, <2>4, GrowsFacts DEF AggShape
      <4>2. ~HasMessage(ended.history, m)
        BY <3>3 DEF BeginsRun
      <4> QED
        BY <4>1, <4>2 DEF HasMessage
    <3>7. /\ agg'.journal = agg.journal /\ agg'.runState = "running" /\ agg'.activeRun = t
          /\ InQueue(agg.queue, m)
          /\ \A x : InQueue(agg'.queue, x) <=> InQueue(agg.queue, x) /\ x # m
      BY <2>4, <3>3 DEF BeginsRun
    <3>8. GoesOnWith(m, t)
      BY <1>5, <3>1, <3>2, <3>4, <3>5, <3>6, <3>7 DEF GoesOnWith, r
    <3> QED
      BY <3>8
  <2> QED
    BY <2>5, <2>6
<1> HIDE DEF next, ok, chain, o, natural, held, ended, waiting, m, t
<1> QED
  BY <1>1, <1>2, <1>3, <1>4, <1>5

\* A Runtime opens over what Recover left.
LEMMA ResumeEffect ==
  ASSUME Shapes, Resume
  PROVE  /\ rt.state = "down" /\ env' = env /\ RecoversTo(agg, agg')
         /\ RtShape(rt') /\ LoopShape(loop')
         /\ \/ /\ agg'.runState = "idle" /\ rt'.state = "idle" /\ rt'.active = None
               /\ loop'.pc = "none" /\ \A c \in Calls : loop'.work[c] = "none"
            \/ /\ agg'.runState = "running" /\ rt'.state = "running"
               /\ rt'.active = agg'.activeRun /\ RunFrozen(agg'.history, rt'.active, rt'.cfg)
               /\ loop'.pc \in {"finish", "tools"}
               /\ \A c \in Calls : \/ loop'.work[c] = "none"
                                   \/ loop'.work[c] = "todo" /\ agg'.journal[c].status = "prepared"
<1>1. /\ rt.state = "down" /\ env' = env /\ agg' = Recovered(agg) /\ AggShape(agg)
  BY DEF Resume, Shapes
<1>2. RecoversTo(agg, agg')
  BY <1>1, RecoveredFields
<1>3. \/ /\ agg'.runState = "idle"
         /\ rt' = [NoRun EXCEPT !.state = "idle"] /\ loop' = NoLoop
      \/ /\ agg'.runState = "running" /\ Restorable(agg')
         /\ rt' = Restored(agg')
         /\ loop' = IF LimitReached(agg'.history, agg'.activeRun)
                    THEN [NoLoop EXCEPT !.pc = "finish", !.out = "budget"]
                    ELSE [NoLoop EXCEPT !.pc = "tools",
                            !.work = [c \in Calls |->
                              IF agg'.journal[c].status = "prepared" THEN "todo" ELSE "none"]]
  BY DEF Resume
<1>4. CASE /\ agg'.runState = "idle"
           /\ rt' = [NoRun EXCEPT !.state = "idle"] /\ loop' = NoLoop
  <2>1. RtShape(rt') /\ rt'.state = "idle" /\ rt'.active = None
    BY <1>4, NoRunFields
  <2> QED
    BY <1>1, <1>2, <1>4, <2>1, NoLoopFields
<1>5. CASE /\ agg'.runState = "running" /\ Restorable(agg')
           /\ rt' = Restored(agg')
           /\ loop' = IF LimitReached(agg'.history, agg'.activeRun)
                      THEN [NoLoop EXCEPT !.pc = "finish", !.out = "budget"]
                      ELSE [NoLoop EXCEPT !.pc = "tools",
                              !.work = [c \in Calls |->
                                IF agg'.journal[c].status = "prepared" THEN "todo" ELSE "none"]]
  <2>1. RunFrozen(agg'.history, agg'.activeRun, ConfigOf(agg', agg'.activeRun))
    <3>1. \E g \in Configs : RunFrozen(agg'.history, agg'.activeRun, g)
      BY <1>5 DEF Restorable
    <3> QED
      BY <3>1 DEF ConfigOf
  <2>2. agg'.activeRun \in Runs \cup {None}
    BY <1>2 DEF RecoversTo, AggShape
  <2>3. /\ RtShape(rt') /\ rt'.state = "running" /\ rt'.active = agg'.activeRun
        /\ rt'.cfg = ConfigOf(agg', agg'.activeRun)
    BY <1>5, <2>2 DEF Restored, NoRun, RtShape
  <2>4. /\ LoopShape(loop') /\ loop'.pc \in {"finish", "tools"}
        /\ \A c \in Calls : \/ loop'.work[c] = "none"
                            \/ loop'.work[c] = "todo" /\ agg'.journal[c].status = "prepared"
    <3>1. CASE LimitReached(agg'.history, agg'.activeRun)
      <4>1. loop' = [NoLoop EXCEPT !.pc = "finish", !.out = "budget"]
        BY <1>5, <3>1
      <4> QED
        BY <4>1 DEF NoLoop, LoopShape, CallPlaces
    <3>2. CASE ~LimitReached(agg'.history, agg'.activeRun)
      <4>1. loop' = [NoLoop EXCEPT !.pc = "tools",
                       !.work = [c \in Calls |->
                         IF agg'.journal[c].status = "prepared" THEN "todo" ELSE "none"]]
        BY <1>5, <3>2
      <4> QED
        BY <4>1 DEF NoLoop, LoopShape, CallPlaces
    <3> QED
      BY <3>1, <3>2
  <2> QED
    BY <1>1, <1>2, <1>5, <2>1, <2>3, <2>4
<1> QED
  BY <1>3, <1>4, <1>5
-----------------------------------------------------------------------------
(* The steps that leave the aggregate alone.                               *)

\* A Run is asked to stop.
LEMMA StopEffect ==
  ASSUME Shapes, Cancel \/ Close
  PROVE  agg' = agg /\ env' = env /\ loop' = loop /\ SameRun
BY DEF Cancel, Close, SameRun, Shapes, RtShape

\* The Runtime is gone, closed or crashed.
LEMMA GoneEffect ==
  ASSUME Shapes, FinishClose \/ Crash
  PROVE  /\ agg' = agg /\ SameOutside
         /\ RtShape(rt') /\ rt'.state = "down" /\ rt'.active = None
         /\ \/ rt.active = None /\ loop' = loop
            \/ LoopShape(loop') /\ loop'.pc = "none" /\ \A c \in Calls : loop'.work[c] = "none"
<1>1. RtShape(rt') /\ rt'.state = "down" /\ rt'.active = None /\ agg' = agg
  BY DEF FinishClose, Crash, RtShape, NoRun
<1>2. SameOutside
  BY DEF FinishClose, Crash, SameOutside, Shapes, EnvShape
<1>3. CASE FinishClose
  BY <1>1, <1>2, <1>3 DEF FinishClose
<1>4. CASE Crash
  BY <1>1, <1>2, <1>4, NoLoopFields DEF Crash
<1> QED
  BY <1>3, <1>4

\* The loop goes on in memory only.
LEMMA LoopEffect ==
  ASSUME Shapes,
         ActCanceled \/ RequestModel \/ ComponentFails \/ ExecuteTools
           \/ \E p \in BOOLEAN : EvaluateCompletion(p)
  PROVE  /\ agg' = agg /\ rt' = rt /\ env' = env /\ WorkKept
         /\ loop.pc \notin {"none", "stream"} /\ loop'.pc \notin {"none", "stream"}
<1>1. CASE ActCanceled
  BY <1>1, EndWithEnds DEF ActCanceled, LoopEnds
<1>2. CASE RequestModel
  BY <1>2, GotoKeeps DEF RequestModel
<1>3. CASE ComponentFails
  BY <1>3, EndWithEnds DEF ComponentFails, LoopEnds
<1>4. CASE ExecuteTools
  BY <1>4, GotoKeeps DEF ExecuteTools
<1>5. ASSUME NEW p \in BOOLEAN, EvaluateCompletion(p)
      PROVE  /\ agg' = agg /\ rt' = rt /\ env' = env /\ WorkKept
             /\ loop.pc = "gate" /\ loop'.pc \in {"decide", "finish"}
  <2>1. CASE EndWith("canceled")
    BY <1>5, <2>1, EndWithEnds DEF EvaluateCompletion, LoopEnds
  <2>2. CASE loop' = [loop EXCEPT !.pc = "decide", !.proposal = p]
    BY <1>5, <2>2 DEF EvaluateCompletion, WorkKept, Shapes, LoopShape
  <2> QED
    BY <1>5, <2>1, <2>2 DEF EvaluateCompletion
<1> QED
  BY <1>1, <1>2, <1>3, <1>4, <1>5

\* A call moves within its batch: it is refused, invoked or returns.
CallMoves(c) ==
  \/ /\ loop.work[c] = "todo" /\ loop'.work[c] = "failed" /\ env' = env
  \/ /\ loop.work[c] = "marked" /\ loop'.work[c] = "inside"
     /\ env' = [env EXCEPT !.ran[c] = @ + 1]
  \/ /\ loop.work[c] = "inside" /\ loop'.work[c] \in {"succeeded", "failed"} /\ env' = env

\* The dispatcher moves one call and leaves the aggregate alone.
LEMMA CallEffect ==
  ASSUME Shapes, NEW c \in Calls,
         RefuseCall(c) \/ InvokeTool(c)
           \/ \E s \in {"succeeded", "failed"}, v \in BOOLEAN : ToolReturns(c, s, v)
  PROVE  /\ agg' = agg /\ rt' = rt /\ LoopShape(loop')
         /\ loop.pc = "dispatch" /\ loop'.pc = "dispatch"
         /\ CallMoves(c) /\ \A d \in Calls : d # c => loop'.work[d] = loop.work[d]
<1> USE DEF CallMoves
<1>1. LoopShape(loop)
  BY DEF Shapes
<1>2. CASE RefuseCall(c)
  BY <1>1, <1>2, CallResultFields DEF RefuseCall, MayBegin
<1>3. CASE InvokeTool(c)
  BY <1>1, <1>3, WorkFields DEF InvokeTool
<1>4. ASSUME NEW s \in {"succeeded", "failed"}, NEW v \in BOOLEAN, ToolReturns(c, s, v)
      PROVE  /\ agg' = agg /\ rt' = rt /\ LoopShape(loop')
             /\ loop.pc = "dispatch" /\ loop'.pc = "dispatch"
             /\ CallMoves(c) /\ \A d \in Calls : d # c => loop'.work[d] = loop.work[d]
  BY <1>1, <1>4, CallResultFields DEF ToolReturns
<1> QED
  BY <1>2, <1>3, <1>4
-----------------------------------------------------------------------------
(* The inductive invariant.                                                *)

\* How often the Tool of a call ran, from its journal and its place in the loop.
RanAsMarked(c) ==
  /\ env.ran[c] \in {0, 1}
  /\ agg.journal[c].status \in {"absent", "prepared"} => env.ran[c] = 0
  /\ agg.journal[c].status = "succeeded" => env.ran[c] = 1
  /\ loop.work[c] = "todo" => agg.journal[c].status = "prepared"
  /\ loop.work[c] = "marked" => agg.journal[c].status = "pending" /\ env.ran[c] = 0
  /\ loop.work[c] \in {"inside", "succeeded"} =>
       agg.journal[c].status = "pending" /\ env.ran[c] = 1

ToolInv == \A c \in Calls : RanAsMarked(c)

\* The Runtime works on the Run the Session names, or on none.
RunInv ==
  /\ rt.state # "running" => rt.active = None
  /\ (rt.state = "running") <=> (loop.pc # "none")
  /\ rt.state = "idle" => agg.runState = "idle"
  /\ rt.state = "running" => /\ rt.active \in Runs /\ Active(agg, rt.active)
                             /\ RunFrozen(agg.history, rt.active, rt.cfg)
  /\ agg.runState = "running" => agg.activeRun \in Runs

\* The fact f starts an attempt without an end.
OpenAttempt(h, f) == StartsAttempt(f) /\ ~AttemptHasEnded(h, f.id)

\* The attempt that streams is open, and while the Store works it is the only
\* one; when the loop is gone an open attempt is one of the Session's Run.
AttemptInv ==
  /\ loop.pc = "stream" => CanFinishAttempt(agg, loop.attempt, rt.active, rt.cfg)
  /\ env.faults = 0 =>
       \A i \in DOMAIN agg.history : OpenAttempt(agg.history, agg.history[i]) =>
         \/ /\ loop.pc = "stream"
            /\ agg.history[i].id = loop.attempt /\ agg.history[i].run = rt.active
         \/ loop.pc = "none" /\ Active(agg, agg.history[i].run)

\* Where an input or a proposal is.
Placed(m) ==
  /\ InQueue(agg.queue, m) => ~HasMessage(agg.history, m)
  /\ InQueue(agg.queue, m) \/ HasMessage(agg.history, m) => m \in env.accepted
  /\ m \in env.deleted => /\ m \in env.accepted /\ ~InQueue(agg.queue, m)
                          /\ ~HasMessage(agg.history, m)
  /\ m \in env.accepted /\ m \notin env.deleted =>
       InQueue(agg.queue, m) \/ HasMessage(agg.history, m)

InputInv ==
  /\ env.accepted \subseteq Inputs \cup Proposals
  /\ \A m \in Inputs \cup Proposals : Placed(m)
-----------------------------------------------------------------------------
(* Shapes and proposals.                                                   *)

\* The shapes a new Session and its Runtime start with.
LEMMA InitShapes ==
  ASSUME Init
  PROVE  /\ Shapes /\ ProposalLeft
         /\ agg.history = <<>> /\ agg.queue = <<>> /\ agg.runState = "idle"
         /\ \A c \in Calls : agg.journal[c].status = "absent"
         /\ rt.state = "idle" /\ rt.active = None
         /\ loop.pc = "none" /\ \A c \in Calls : loop.work[c] = "none"
         /\ \A c \in Calls : env.ran[c] = 0
         /\ env.accepted = {} /\ env.deleted = {} /\ env.faults = 0
<1>1. PICK g \in Configs : agg = NewAggregate(g)
  BY DEF Init
<1>2. AggShape(agg) /\ agg.history = <<>> /\ agg.queue = <<>> /\ agg.runState = "idle"
      /\ \A c \in Calls : agg.journal[c].status = "absent"
  BY <1>1, NewAggregateShape
<1>3. RtShape(rt) /\ rt.state = "idle" /\ rt.active = None
  BY NoRunFields DEF Init
<1>4. LoopShape(loop) /\ loop.pc = "none" /\ \A c \in Calls : loop.work[c] = "none"
  BY NoLoopFields DEF Init
<1>5. /\ EnvShape(env) /\ \A c \in Calls : env.ran[c] = 0
      /\ env.accepted = {} /\ env.deleted = {} /\ env.faults = 0
  BY DEF Init, EnvShape
<1> QED
  BY <1>2, <1>3, <1>4, <1>5 DEF Shapes, ProposalLeft

\* Every step keeps the shapes.
LEMMA ShapesStep ==
  ASSUME Shapes, ProposalLeft, Next
  PROVE  Shapes'
<1> USE DEF Shapes
<1>1. ASSUME \/ ActCanceled \/ RequestModel \/ ComponentFails \/ ExecuteTools
             \/ \E p \in BOOLEAN : EvaluateCompletion(p)
      PROVE  Shapes'
  BY <1>1, LoopEffect DEF WorkKept
<1>2. CASE RecordBudget
  BY <1>2, RecordBudgetEffect DEF AtMostLimit, Writes, SameOutside, LoopEnds, WorkKept
<1>3. CASE PrepareModelRequest
  BY <1>3, PrepareModelRequestEffect DEF Writes, SameOutside, WorkKept
<1>4. CASE Started
  BY <1>4, StartedEffect DEF AtMostLimit, Writes, SameOutside, WorkKept, SameRun
<1>5. ASSUME NEW o \in {"succeeded", "failed", "canceled"}, NEW t \in Usage, Finished(o, t)
      PROVE  Shapes'
  BY <1>5, FinishedEffect DEF Writes, SameOutside, WorkKept, SameRun
<1>6. ASSUME NEW n \in Batches, CommitCompletion(n)
      PROVE  Shapes'
  BY <1>6, CommitCompletionEffect DEF AtMostLimit, Writes, SameOutside, LoopEnds, WorkKept, SameRun
<1>7. CASE ContinueOrComplete
  BY <1>7, ContinueOrCompleteEffect DEF Writes, SameOutside, WorkKept
<1>8. ASSUME NEW c \in Calls,
             RefuseCall(c) \/ InvokeTool(c)
               \/ \E s \in {"succeeded", "failed"}, v \in BOOLEAN : ToolReturns(c, s, v)
      PROVE  Shapes'
  <2>1. agg' = agg /\ rt' = rt /\ LoopShape(loop') /\ CallMoves(c)
    BY <1>8, CallEffect
  <2>2. EnvShape(env')
    BY <2>1 DEF CallMoves, EnvShape
  <2> QED
    BY <2>1, <2>2
<1>9. ASSUME NEW c \in Calls, MarkToolExecuting(c)
      PROVE  Shapes'
  BY <1>9, MarkToolExecutingEffect DEF Writes, SameOutside
<1>10. CASE CommitToolResults
  BY <1>10, CommitToolResultsEffect DEF Writes, SameOutside, WorkKept
<1>11. CASE FinishRun
  BY <1>11, FinishRunEffect DEF EndsHere, GoesOnWith, RecoversTo, Stopped, Writes, SameOutside
<1>12. CASE Send
  BY <1>12, SendEffect DEF Arrived, Begun, Writes
<1>13. CASE SteerRun
  BY <1>13, SteerRunEffect DEF Arrived, Writes
<1>14. CASE RunPending
  BY <1>14, RunPendingEffect DEF Begun, Writes
<1>15. CASE Cancel \/ Close
  BY <1>15, StopEffect DEF SameRun
<1>16. ASSUME NEW m \in Inputs, DeleteQueued(m)
       PROVE  Shapes'
  BY <1>16, DeleteQueuedEffect DEF Writes
<1>17. ASSUME NEW m \in Inputs, NEW d \in ReclassifyTo, ReclassifyQueued(m, d)
       PROVE  Shapes'
  BY <1>17, ReclassifyQueuedEffect DEF Writes
<1>18. ASSUME NEW g \in Configs, UpdateModelConfig(g)
       PROVE  Shapes'
  BY <1>18, UpdateModelConfigEffect DEF Writes
<1>19. CASE FinishClose \/ Crash
  BY <1>19, GoneEffect DEF SameOutside
<1>20. CASE Resume
  BY <1>20, ResumeEffect DEF RecoversTo
<1>21. CASE OtherSessionStarts
  BY <1>21 DEF OtherSessionStarts
<1> QED
  BY <1>1, <1>2, <1>3, <1>4, <1>5, <1>6, <1>7, <1>8, <1>9, <1>10, <1>11, <1>12, <1>13,
     <1>14, <1>15, <1>16, <1>17, <1>18, <1>19, <1>20, <1>21
     DEF Next, LoopStep, Command

\* A proposal the loop decides on keeps an identity for its message: only the
\* loop itself accepts proposals.
LEMMA ProposalStep ==
  ASSUME Shapes, ProposalLeft, Next
  PROVE  ProposalLeft'
<1> SUFFICES ASSUME loop'.pc = "decide", loop'.proposal
             PROVE  Proposals \ env'.accepted # {}
  BY DEF ProposalLeft
<1>1. ASSUME loop' = loop, env'.accepted \subseteq env.accepted \cup Inputs
      PROVE  Proposals \ env'.accepted # {}
  <2>1. Proposals \ env.accepted # {}
    BY <1>1 DEF ProposalLeft
  <2> QED
    BY <1>1, <2>1, RuntimeAssumption
<1>2. ~ActCanceled /\ ~ComponentFails
  BY EndWithFields DEF ActCanceled, ComponentFails
<1>3. ~RequestModel /\ ~ExecuteTools
  <2>1. LoopShape(loop)
    BY DEF Shapes
  <2>2. ASSUME NEW pc, Goto(pc) PROVE pc = "decide"
    BY <2>1, <2>2, GotoFields
  <2> QED
    BY <2>2 DEF RequestModel, ExecuteTools
<1>4. CASE EvaluateCompletion(FALSE)
  <2>1. loop' = [loop EXCEPT !.pc = "decide", !.proposal = FALSE]
    BY <1>4, EndWithFields DEF EvaluateCompletion
  <2>2. loop'.proposal = FALSE
    BY <2>1 DEF Shapes, LoopShape
  <2> QED
    BY <2>2
<1>5. CASE Proposals \ env.accepted # {} /\ EvaluateCompletion(TRUE)
  BY <1>5 DEF EvaluateCompletion
<1>6. ~RecordBudget
  BY RecordBudgetEffect DEF LoopEnds
<1>7. ~PrepareModelRequest
  BY PrepareModelRequestEffect
<1>8. ~Started
  BY StartedEffect
<1>9. \A o \in {"succeeded", "failed", "canceled"}, t \in Usage : ~Finished(o, t)
  BY FinishedEffect
<1>10. \A n \in Batches : ~CommitCompletion(n)
  BY CommitCompletionEffect DEF LoopEnds
<1>11. ~ContinueOrComplete
  BY ContinueOrCompleteEffect
<1>12. \A c \in Calls :
         ~ \/ RefuseCall(c) \/ InvokeTool(c)
           \/ \E s \in {"succeeded", "failed"}, v \in BOOLEAN : ToolReturns(c, s, v)
  BY CallEffect
<1>13. \A c \in Calls : ~MarkToolExecuting(c)
  BY MarkToolExecutingEffect DEF MayBegin
<1>14. ~CommitToolResults
  BY CommitToolResultsEffect
<1>15. ~FinishRun
  BY FinishRunEffect DEF EndsHere, GoesOnWith, Stopped
<1>16. CASE Send
  BY <1>1, <1>16, SendEffect DEF Arrived, Begun
<1>17. CASE SteerRun
  BY <1>1, <1>17, SteerRunEffect DEF Arrived
<1>18. ~RunPending
  BY RunPendingEffect DEF Begun
<1>19. CASE Cancel \/ Close
  BY <1>1, <1>19, StopEffect
<1>20. ASSUME NEW m \in Inputs, DeleteQueued(m)
       PROVE  Proposals \ env'.accepted # {}
  BY <1>1, <1>20, DeleteQueuedEffect
<1>21. ASSUME NEW m \in Inputs, NEW d \in ReclassifyTo, ReclassifyQueued(m, d)
       PROVE  Proposals \ env'.accepted # {}
  BY <1>1, <1>21, ReclassifyQueuedEffect
<1>22. ASSUME NEW g \in Configs, UpdateModelConfig(g)
       PROVE  Proposals \ env'.accepted # {}
  BY <1>1, <1>22, UpdateModelConfigEffect
<1>23. CASE FinishClose \/ Crash
  BY <1>1, <1>23, GoneEffect DEF SameOutside
<1>24. ~Resume
  BY ResumeEffect
<1>25. CASE OtherSessionStarts
  BY <1>1, <1>25 DEF OtherSessionStarts
<1> QED
  BY <1>2, <1>3, <1>4, <1>5, <1>6, <1>7, <1>8, <1>9, <1>10, <1>11, <1>12, <1>13, <1>14,
     <1>15, <1>16, <1>17, <1>18, <1>19, <1>20, <1>21, <1>22, <1>23, <1>24, <1>25
     DEF Next, LoopStep, Command

-----------------------------------------------------------------------------
(* A Tool runs at most once per call.                                      *)

\* The journal stays, no Tool is invoked and no call enters the loop.
LEMMA ToolQuiet ==
  ASSUME ToolInv, NEW c \in Calls,
         agg'.journal[c] = agg.journal[c], env'.ran = env.ran,
         loop'.work[c] \in {loop.work[c], "none"}
  PROVE  RanAsMarked(c)'
BY DEF ToolInv, RanAsMarked

\* A call passes a status that says nothing of its Tool.
LEMMA ToolSettled ==
  ASSUME ToolInv, NEW c \in Calls, env'.ran = env.ran, loop'.work[c] = "none",
         \/ agg'.journal[c].status = agg.journal[c].status
         \/ agg'.journal[c].status \in {"failed", "outcome_unknown"}
  PROVE  RanAsMarked(c)'
BY DEF ToolInv, RanAsMarked

\* Every step keeps the calls and their durable marks together.
LEMMA ToolStep ==
  ASSUME Shapes, ProposalLeft, ToolInv, Next
  PROVE  ToolInv'
<1>1. ASSUME \/ ActCanceled \/ RequestModel \/ ComponentFails \/ ExecuteTools
             \/ \E p \in BOOLEAN : EvaluateCompletion(p)
      PROVE  ToolInv'
  BY <1>1, LoopEffect, ToolQuiet DEF WorkKept, ToolInv
<1>2. CASE RecordBudget
  BY <1>2, RecordBudgetEffect, ToolQuiet DEF Steady, SameOutside, LoopEnds, WorkKept, ToolInv
<1>3. CASE PrepareModelRequest
  BY <1>3, PrepareModelRequestEffect, ToolQuiet DEF Steady, SameOutside, WorkKept, ToolInv
<1>4. CASE Started
  BY <1>4, StartedEffect, ToolQuiet DEF Steady, SameOutside, WorkKept, ToolInv
<1>5. ASSUME NEW o \in {"succeeded", "failed", "canceled"}, NEW t \in Usage, Finished(o, t)
      PROVE  ToolInv'
  BY <1>5, FinishedEffect, ToolQuiet DEF Steady, SameOutside, WorkKept, ToolInv
<1>6. ASSUME NEW n \in Batches, CommitCompletion(n)
      PROVE  ToolInv'
  <2>1. env'.ran = env.ran
    BY <1>6, CommitCompletionEffect DEF SameOutside
  <2>2. CASE LoopEnds /\ Steady
    BY <2>1, <2>2, ToolQuiet DEF LoopEnds, WorkKept, Steady, ToolInv
  <2>3. ASSUME NEW S \in SUBSET Calls, Admits(S),
               \A c \in Calls : loop'.work[c] = IF c \in S THEN "todo" ELSE "none"
        PROVE  ToolInv'
    <3>1. ASSUME NEW c \in S PROVE RanAsMarked(c)'
      BY <2>1, <2>3, <3>1 DEF Admits, ToolInv, RanAsMarked
    <3>2. ASSUME NEW c \in Calls \ S PROVE RanAsMarked(c)'
      BY <2>1, <2>3, <3>2, ToolQuiet DEF Admits
    <3> QED
      BY <3>1, <3>2 DEF ToolInv
  <2> QED
    BY <1>6, <2>2, <2>3, CommitCompletionEffect
<1>7. CASE ContinueOrComplete
  BY <1>7, ContinueOrCompleteEffect, ToolQuiet DEF Steady, SameOutside, WorkKept, ToolInv
<1>8. ASSUME NEW c \in Calls,
             RefuseCall(c) \/ InvokeTool(c)
               \/ \E s \in {"succeeded", "failed"}, v \in BOOLEAN : ToolReturns(c, s, v)
      PROVE  ToolInv'
  <2>1. /\ agg' = agg /\ CallMoves(c)
        /\ \A d \in Calls : d # c => loop'.work[d] = loop.work[d]
    BY <1>8, CallEffect
  <2>2. env.ran \in [Calls -> Nat] /\ DOMAIN env = {"ran", "accepted", "deleted", "faults", "crashes"}
    BY DEF Shapes, EnvShape
  <2>3. ASSUME NEW d \in Calls, d # c PROVE RanAsMarked(d)'
    <3>1. env'.ran[d] = env.ran[d]
      BY <2>1, <2>2, <2>3 DEF CallMoves
    <3> QED
      BY <2>1, <2>3, <3>1 DEF ToolInv, RanAsMarked
  <2>4. RanAsMarked(c)'
    <3>1. CASE /\ env' = env
               /\ \/ loop.work[c] = "todo" /\ loop'.work[c] = "failed"
                  \/ loop.work[c] = "inside" /\ loop'.work[c] \in {"succeeded", "failed"}
      BY <2>1, <3>1 DEF ToolInv, RanAsMarked
    <3>2. CASE env' = [env EXCEPT !.ran[c] = @ + 1] /\ loop.work[c] = "marked"
               /\ loop'.work[c] = "inside"
      <4>1. env.ran[c] = 0 /\ agg.journal[c].status = "pending"
        BY <3>2 DEF ToolInv, RanAsMarked
      <4>2. env'.ran[c] = 1
        BY <2>2, <3>2, <4>1
      <4> QED
        BY <2>1, <3>2, <4>1, <4>2 DEF RanAsMarked
    <3> QED
      BY <2>1, <3>1, <3>2 DEF CallMoves
  <2> QED
    BY <2>3, <2>4 DEF ToolInv
<1>9. ASSUME NEW c \in Calls, MarkToolExecuting(c)
      PROVE  ToolInv'
  <2>1. env'.ran = env.ran /\ loop.work[c] = "todo"
    BY <1>9, MarkToolExecutingEffect DEF SameOutside, MayBegin
  <2>2. CASE Steady /\ loop'.work[c] = "failed"
               /\ \A d \in Calls : d # c => loop'.work[d] = loop.work[d]
    BY <2>1, <2>2 DEF Steady, ToolInv, RanAsMarked
  <2>3. CASE /\ loop'.work[c] = "marked" /\ agg'.journal[c].status = "pending"
             /\ \A d \in Calls : d # c => agg'.journal[d] = agg.journal[d]
             /\ \A d \in Calls : d # c => loop'.work[d] = loop.work[d]
    <3>1. env.ran[c] = 0
      BY <2>1 DEF ToolInv, RanAsMarked
    <3> QED
      BY <2>1, <2>3, <3>1 DEF ToolInv, RanAsMarked
  <2> QED
    BY <1>9, <2>2, <2>3, MarkToolExecutingEffect
<1>10. CASE CommitToolResults
  <2>1. env'.ran = env.ran /\ WorkKept
    BY <1>10, CommitToolResultsEffect DEF SameOutside
  <2>2. CASE Steady
    BY <2>1, <2>2, ToolQuiet DEF Steady, WorkKept, ToolInv
  <2>3. CASE /\ \A c \in Done(loop.work) : loop.work[c] \in {"succeeded", "failed"}
             /\ \A c \in Calls : agg'.journal[c].status =
                  IF c \in Done(loop.work) THEN loop.work[c] ELSE agg.journal[c].status
             /\ \A c \in Calls : loop'.work[c] = "none"
    <3> SUFFICES ASSUME NEW c \in Calls PROVE RanAsMarked(c)'
      BY DEF ToolInv
    <3>1. CASE c \in Done(loop.work) /\ loop.work[c] = "succeeded"
      BY <2>1, <2>3, <3>1 DEF ToolInv, RanAsMarked
    <3>2. CASE c \in Done(loop.work) /\ loop.work[c] = "failed"
      BY <2>1, <2>3, <3>2, ToolSettled
    <3>3. CASE c \notin Done(loop.work)
      BY <2>1, <2>3, <3>3, ToolSettled
    <3> QED
      BY <2>3, <3>1, <3>2, <3>3
  <2> QED
    BY <1>10, <2>2, <2>3, CommitToolResultsEffect
<1>11. CASE FinishRun
  <2>1. env'.ran = env.ran /\ \A c \in Calls : loop'.work[c] = "none"
    BY <1>11, FinishRunEffect DEF EndsHere, GoesOnWith, Stopped, SameOutside
  <2>2. CASE agg'.journal = agg.journal
    BY <2>1, <2>2, ToolQuiet DEF ToolInv
  <2>3. CASE RecoversTo(agg, agg')
    BY <2>1, <2>3, ToolSettled DEF RecoversTo, RecoveredStatus, ToolInv
  <2> QED
    BY <1>11, <2>2, <2>3, FinishRunEffect DEF EndsHere, GoesOnWith
<1>12. CASE Send
  BY <1>12, SendEffect, ToolQuiet DEF Arrived, Begun, Steady, ToolInv
<1>13. CASE SteerRun
  BY <1>13, SteerRunEffect, ToolQuiet DEF Arrived, Steady, ToolInv
<1>14. CASE RunPending
  BY <1>14, RunPendingEffect, ToolQuiet DEF Begun, ToolInv
<1>15. CASE Cancel \/ Close
  BY <1>15, StopEffect, ToolQuiet DEF ToolInv
<1>16. ASSUME NEW m \in Inputs, DeleteQueued(m)
       PROVE  ToolInv'
  BY <1>16, DeleteQueuedEffect, ToolQuiet DEF Steady, ToolInv
<1>17. ASSUME NEW m \in Inputs, NEW d \in ReclassifyTo, ReclassifyQueued(m, d)
       PROVE  ToolInv'
  BY <1>17, ReclassifyQueuedEffect, ToolQuiet DEF Steady, ToolInv
<1>18. ASSUME NEW g \in Configs, UpdateModelConfig(g)
       PROVE  ToolInv'
  BY <1>18, UpdateModelConfigEffect, ToolQuiet DEF Steady, ToolInv
<1>19. CASE FinishClose \/ Crash
  BY <1>19, GoneEffect, ToolQuiet DEF SameOutside, ToolInv
<1>20. CASE Resume
  <2>1. env' = env /\ RecoversTo(agg, agg')
    BY <1>20, ResumeEffect
  <2>2. \A c \in Calls : \/ loop'.work[c] = "none"
                         \/ loop'.work[c] = "todo" /\ agg'.journal[c].status = "prepared"
    BY <1>20, ResumeEffect
  <2> SUFFICES ASSUME NEW c \in Calls PROVE RanAsMarked(c)'
    BY DEF ToolInv
  <2>3. agg'.journal[c].status = RecoveredStatus(agg.journal[c].status)
    BY <2>1 DEF RecoversTo
  <2> QED
    BY <2>1, <2>2, <2>3 DEF RecoveredStatus, ToolInv, RanAsMarked
<1>21. CASE OtherSessionStarts
  BY <1>21, ToolQuiet DEF OtherSessionStarts, ToolInv
<1> QED
  BY <1>1, <1>2, <1>3, <1>4, <1>5, <1>6, <1>7, <1>8, <1>9, <1>10, <1>11, <1>12, <1>13,
     <1>14, <1>15, <1>16, <1>17, <1>18, <1>19, <1>20, <1>21
     DEF Next, LoopStep, Command

-----------------------------------------------------------------------------
(* The Runtime and the Session name the same Run.                          *)

\* The start of a Run stays in History.
LEMMA FrozenKept ==
  ASSUME Shapes, NEW F, Writes(F), NEW r, NEW g, RunFrozen(agg.history, r, g)
  PROVE  RunFrozen(agg'.history, r, g)
<1>1. \A j \in DOMAIN agg.history : \E i \in DOMAIN agg'.history : agg'.history[i] = agg.history[j]
  BY GrowsFacts DEF Writes, Shapes, AggShape
<1> QED
  BY <1>1 DEF RunFrozen

\* A Run that starts in this step is frozen with its configuration.
LEMMA FrozenNow ==
  ASSUME Shapes, NEW F, Writes(F), NEW r, NEW g, RunFact(r, "started", g) \in F
  PROVE  RunFrozen(agg'.history, r, g)
<1>1. PICK i \in DOMAIN agg'.history : agg'.history[i] = RunFact(r, "started", g)
  BY GrowsFacts DEF Writes, Shapes, AggShape
<1>2. /\ agg'.history[i].kind = "run" /\ agg'.history[i].id = r
      /\ agg'.history[i].val = "started" /\ agg'.history[i].cfg = g
  BY <1>1 DEF RunFact, FactOf
<1> QED
  BY <1>2 DEF RunFrozen

\* The Run goes on, or there is none before and after.
LEMMA RunKept ==
  ASSUME Shapes, RunInv, NEW F, Writes(F),
         agg'.runState = agg.runState, agg'.activeRun = agg.activeRun, SameRun,
         (loop'.pc = "none") <=> (loop.pc = "none")
  PROVE  RunInv'
<1>1. rt'.state = "running" => RunFrozen(agg'.history, rt'.active, rt'.cfg)
  BY FrozenKept DEF RunInv, SameRun
<1>2. rt'.state = rt.state /\ rt'.active = rt.active
  BY DEF SameRun
<1> QED
  BY <1>1, <1>2 DEF RunInv, Active

\* A Run starts or is restored.
LEMMA RunStarts ==
  ASSUME NEW r \in Runs, rt'.state = "running", rt'.active = r,
         agg'.runState = "running", agg'.activeRun = r,
         RunFrozen(agg'.history, r, rt'.cfg), loop'.pc # "none"
  PROVE  RunInv'
BY DEF RunInv, Active

\* The Runtime has no Run any more.
LEMMA RunStops ==
  ASSUME rt'.state # "running", rt'.active = None, loop'.pc = "none",
         rt'.state = "idle" => agg'.runState = "idle",
         agg'.runState = "running" => agg'.activeRun \in Runs
  PROVE  RunInv'
BY DEF RunInv

\* Nothing durable changes.
LEMMA NothingWritten ==
  ASSUME Shapes, agg' = agg
  PROVE  /\ Writes({}) /\ Steady /\ agg'.runState = agg.runState /\ agg'.activeRun = agg.activeRun
         /\ KeepsInputs
BY Unchanged DEF Shapes

\* Every step keeps the Runtime and the Session on the same Run.
LEMMA RunStep ==
  ASSUME Shapes, ProposalLeft, RunInv, Next
  PROVE  RunInv'
<1>1. ASSUME \/ ActCanceled \/ RequestModel \/ ComponentFails \/ ExecuteTools
             \/ \E p \in BOOLEAN : EvaluateCompletion(p)
      PROVE  RunInv'
  BY <1>1, LoopEffect, NothingWritten, RtKept, RunKept
<1>2. CASE RecordBudget
  BY <1>2, RecordBudgetEffect, RtKept, RunKept DEF Steady, AtMostLimit, LoopEnds
<1>3. CASE PrepareModelRequest
  BY <1>3, PrepareModelRequestEffect, RtKept, RunKept DEF Steady
<1>4. CASE Started
  BY <1>4, StartedEffect, RunKept DEF Steady, AtMostLimit
<1>5. ASSUME NEW o \in {"succeeded", "failed", "canceled"}, NEW t \in Usage, Finished(o, t)
      PROVE  RunInv'
  BY <1>5, FinishedEffect, RunKept DEF Steady
<1>6. ASSUME NEW n \in Batches, CommitCompletion(n)
      PROVE  RunInv'
  BY <1>6, CommitCompletionEffect, RunKept DEF AtMostLimit, LoopEnds
<1>7. CASE ContinueOrComplete
  BY <1>7, ContinueOrCompleteEffect, RtKept, RunKept DEF Steady
<1>8. ASSUME NEW c \in Calls,
             RefuseCall(c) \/ InvokeTool(c)
               \/ \E s \in {"succeeded", "failed"}, v \in BOOLEAN : ToolReturns(c, s, v)
      PROVE  RunInv'
  BY <1>8, CallEffect, NothingWritten, RtKept, RunKept
<1>9. ASSUME NEW c \in Calls, MarkToolExecuting(c)
      PROVE  RunInv'
  BY <1>9, MarkToolExecutingEffect, RtKept, RunKept
<1>10. CASE CommitToolResults
  BY <1>10, CommitToolResultsEffect, RtKept, RunKept
<1>11. CASE FinishRun
  <2>1. loop.pc = "finish" /\ rt.state = "running" /\ agg.runState = "running"
        /\ agg.activeRun \in Runs
    BY <1>11, FinishRunEffect DEF RunInv, Active
  <2>2. CASE EndsHere
    BY <2>2, RunStops DEF EndsHere, Stopped
  <2>3. CASE \E m, r : GoesOnWith(m, r)
    <3>1. PICK m, r : GoesOnWith(m, r)
      BY <2>3
    <3>2. PICK o : Writes({RunFact(rt.active, o, rt.cfg)}
                            \cup {RunFact(r, "started", agg.config), UserMessage(m, r)})
      BY <3>1 DEF GoesOnWith
    <3>3. RunFrozen(agg'.history, r, agg.config)
      BY <3>2, FrozenNow
    <3> QED
      BY <3>1, <3>3, RunStarts DEF GoesOnWith
  <2>4. CASE RecoversTo(agg, agg') /\ Stopped
    BY <2>1, <2>4, RunStops DEF RecoversTo, Stopped
  <2>5. CASE agg' = agg /\ Stopped
    BY <2>1, <2>5, RunStops DEF Stopped
  <2> QED
    BY <1>11, <2>2, <2>3, <2>4, <2>5, FinishRunEffect
<1>12. ASSUME NEW m, NEW r, Begun(m, r)
       PROVE  RunInv'
  <2>1. RunFrozen(agg'.history, r, agg.config)
    BY <1>12, FrozenNow DEF Begun
  <2> QED
    BY <1>12, <2>1, RunStarts DEF Begun
<1>13. ASSUME NEW m, Arrived(m)
       PROVE  RunInv'
  BY <1>13, RtKept, RunKept DEF Arrived, Steady
<1>14. CASE Send
  BY <1>12, <1>13, <1>14, SendEffect
<1>15. CASE SteerRun
  BY <1>13, <1>15, SteerRunEffect
<1>16. CASE RunPending
  BY <1>12, <1>16, RunPendingEffect
<1>17. CASE Cancel \/ Close
  BY <1>17, StopEffect, NothingWritten, RunKept
<1>18. ASSUME NEW m \in Inputs, DeleteQueued(m)
       PROVE  RunInv'
  BY <1>18, DeleteQueuedEffect, RtKept, RunKept DEF Steady
<1>19. ASSUME NEW m \in Inputs, NEW d \in ReclassifyTo, ReclassifyQueued(m, d)
       PROVE  RunInv'
  BY <1>19, ReclassifyQueuedEffect, RtKept, RunKept DEF Steady
<1>20. ASSUME NEW g \in Configs, UpdateModelConfig(g)
       PROVE  RunInv'
  BY <1>20, UpdateModelConfigEffect, RtKept, RunKept DEF Steady
<1>21. CASE FinishClose \/ Crash
  <2>1. /\ agg' = agg /\ rt'.state = "down" /\ rt'.active = None
        /\ \/ rt.active = None /\ loop' = loop
           \/ loop'.pc = "none"
    BY <1>21, GoneEffect
  <2>2. loop'.pc = "none"
    BY <2>1, NoneAssumption DEF RunInv
  <2> QED
    BY <2>1, <2>2, RunStops DEF RunInv
<1>22. CASE Resume
  <2>1. CASE agg'.runState = "idle" /\ rt'.state = "idle" /\ rt'.active = None /\ loop'.pc = "none"
    BY <2>1, RunStops
  <2>2. CASE /\ agg'.runState = "running" /\ rt'.state = "running"
             /\ rt'.active = agg'.activeRun /\ RunFrozen(agg'.history, rt'.active, rt'.cfg)
             /\ loop'.pc \in {"finish", "tools"}
    <3>1. RecoversTo(agg, agg')
      BY <1>22, ResumeEffect
    <3>2. agg'.activeRun \in Runs
      BY <2>2, <3>1 DEF RecoversTo, RunInv
    <3> QED
      BY <2>2, <3>2, RunStarts
  <2> QED
    BY <1>22, <2>1, <2>2, ResumeEffect
<1>23. CASE OtherSessionStarts
  BY <1>23, NothingWritten, RtKept, RunKept DEF OtherSessionStarts
<1> QED
  BY <1>1, <1>2, <1>3, <1>4, <1>5, <1>6, <1>7, <1>8, <1>9, <1>10, <1>11, <1>14,
     <1>15, <1>16, <1>17, <1>18, <1>19, <1>20, <1>21, <1>22, <1>23
     DEF Next, LoopStep, Command

-----------------------------------------------------------------------------
(* Runs leave no open attempt behind.                                      *)

\* Attempts end as before when none is recorded.
LEMMA EndedSame ==
  ASSUME Shapes, NEW F, Writes(F), \A f \in F : f.kind # "attempt", NEW x
  PROVE  AttemptHasEnded(agg'.history, x) <=> AttemptHasEnded(agg.history, x)
<1>1. /\ \A j \in DOMAIN agg.history : \E i \in DOMAIN agg'.history : agg'.history[i] = agg.history[j]
      /\ \A i \in DOMAIN agg'.history :
           agg'.history[i] \in F \/ \E j \in DOMAIN agg.history : agg'.history[i] = agg.history[j]
  BY GrowsFacts DEF Writes, Shapes, AggShape
<1>2. AttemptHasEnded(agg'.history, x) => AttemptHasEnded(agg.history, x)
  BY <1>1 DEF AttemptHasEnded
<1>3. AttemptHasEnded(agg.history, x) => AttemptHasEnded(agg'.history, x)
  BY <1>1 DEF AttemptHasEnded
<1> QED
  BY <1>2, <1>3

\* The start of an attempt stays in History.
LEMMA AttemptKept ==
  ASSUME Shapes, NEW F, Writes(F), NEW x, NEW r, NEW g, AttemptOf(agg.history, x, r, g)
  PROVE  AttemptOf(agg'.history, x, r, g)
<1>1. \A j \in DOMAIN agg.history : \E i \in DOMAIN agg'.history : agg'.history[i] = agg.history[j]
  BY GrowsFacts DEF Writes, Shapes, AggShape
<1> QED
  BY <1>1 DEF AttemptOf

\* Every attempt is ended and none streams.
LEMMA AttemptsClosed ==
  ASSUME AllEnded(agg'.history), loop'.pc # "stream"
  PROVE  AttemptInv'
BY DEF AllEnded, AttemptInv, OpenAttempt, StartsAttempt

\* Between two attempts, or while no Run is active, none is open.
LEMMA AllEndedMeans ==
  ASSUME AttemptInv, env.faults = 0,
         \/ loop.pc \notin {"none", "stream"}
         \/ loop.pc = "none" /\ agg.runState = "idle"
  PROVE  AllEnded(agg.history)
BY DEF AttemptInv, AllEnded, OpenAttempt, StartsAttempt, Active

\* The loop works on something else than an attempt.
LEMMA AttemptsStayClosed ==
  ASSUME Shapes, AttemptInv, NEW F, Writes(F), \A f \in F : f.kind # "attempt",
         env'.faults = 0 => env.faults = 0, loop'.pc # "stream",
         \/ loop.pc \notin {"none", "stream"}
         \/ loop.pc = "none" /\ agg.runState = "idle"
  PROVE  AttemptInv'
<1>1. CASE env'.faults = 0
  <2>1. AllEnded(agg.history) /\ IsLog(agg.history)
    BY <1>1, AllEndedMeans DEF Shapes, AggShape
  <2>2. AllEnded(agg'.history)
    BY <2>1, AllEndedGrows DEF Writes, StartsAttempt
  <2> QED
    BY <2>2, AttemptsClosed
<1>2. CASE env'.faults # 0
  BY <1>2 DEF AttemptInv
<1> QED
  BY <1>1, <1>2

\* Somebody else than the loop acts.
LEMMA AttemptsKept ==
  ASSUME Shapes, AttemptInv, NEW F, Writes(F), \A f \in F : f.kind # "attempt",
         env'.faults = 0 => env.faults = 0, loop' = loop, SameRun,
         agg'.runState = agg.runState, agg'.activeRun = agg.activeRun
  PROVE  AttemptInv'
<1>1. rt'.active = rt.active /\ rt'.cfg = rt.cfg
  BY DEF SameRun
<1>2. loop.pc = "stream" => CanFinishAttempt(agg', loop.attempt, rt.active, rt.cfg)
  BY EndedSame, AttemptKept DEF AttemptInv, CanFinishAttempt
<1>3. ASSUME env'.faults = 0, NEW i \in DOMAIN agg'.history,
             OpenAttempt(agg'.history, agg'.history[i])
      PROVE  \/ /\ loop.pc = "stream"
                /\ agg'.history[i].id = loop.attempt /\ agg'.history[i].run = rt.active
             \/ loop.pc = "none" /\ Active(agg', agg'.history[i].run)
  <2>1. agg'.history[i] \notin F
    BY <1>3 DEF OpenAttempt, StartsAttempt
  <2>2. PICK j \in DOMAIN agg.history : agg'.history[i] = agg.history[j]
    BY <2>1, GrowsFacts DEF Writes, Shapes, AggShape
  <2>3. OpenAttempt(agg.history, agg.history[j])
    BY <1>3, <2>2, EndedSame DEF OpenAttempt
  <2> QED
    BY <1>3, <2>2, <2>3 DEF AttemptInv, Active
<1> QED
  BY <1>1, <1>2, <1>3 DEF AttemptInv, CanFinishAttempt

\* The loop is gone in the middle of its work.
LEMMA AttemptsLeft ==
  ASSUME RunInv, AttemptInv, agg' = agg, loop'.pc = "none",
         env'.faults = 0 => env.faults = 0
  PROVE  AttemptInv'
<1>1. loop.pc = "stream" => Active(agg, rt.active)
  BY DEF RunInv
<1> QED
  BY <1>1 DEF AttemptInv

\* k is h with the fact f.
Adds(h, k, f) ==
  /\ \A j \in DOMAIN h : \E i \in DOMAIN k : k[i] = h[j]
  /\ \A i \in DOMAIN k : k[i] = f \/ \E j \in DOMAIN h : k[i] = h[j]
  /\ \E i \in DOMAIN k : k[i] = f

\* A History that grows by one fact, position by position.
LEMMA AddsOne ==
  ASSUME NEW h, NEW k, NEW f, IsLog(h), Grows(h, k, {f})
  PROVE  Adds(h, k, f)
BY GrowsFacts DEF Adds

\* One fact is added to History.
LEMMA OneFact ==
  ASSUME Shapes, NEW f, Writes({f})
  PROVE  Adds(agg.history, agg'.history, f)
<1>1. IsLog(agg.history) /\ Grows(agg.history, agg'.history, {f})
  BY DEF Writes, Shapes, AggShape
<1> QED
  BY <1>1, AddsOne

\* An attempt starts when every earlier one is ended.
LEMMA AttemptOpens ==
  ASSUME Shapes, AttemptInv, NEW x,
         Writes({AttemptFact(x, rt.active, "started", rt.cfg, 0)}),
         ~AttemptHasEnded(agg.history, x),
         loop.pc \notin {"none", "stream"}, loop'.pc = "stream", loop'.attempt = x,
         SameRun, env'.faults = 0 => env.faults = 0
  PROVE  AttemptInv'
<1> DEFINE f == AttemptFact(x, rt.active, "started", rt.cfg, 0)
<1>1. /\ f.kind = "attempt" /\ f.id = x /\ f.run = rt.active /\ f.val = "started" /\ f.cfg = rt.cfg
  BY DEF AttemptFact, FactOf
<1> HIDE DEF f
<1>2. Adds(agg.history, agg'.history, f)
  BY OneFact DEF f
<1>3. AttemptOf(agg'.history, x, rt.active, rt.cfg)
  BY <1>1, <1>2 DEF AttemptOf, Adds
<1>4. ~AttemptHasEnded(agg'.history, x)
  BY <1>1, <1>2 DEF AttemptHasEnded, Adds
<1>5. ASSUME env'.faults = 0, NEW i \in DOMAIN agg'.history,
             OpenAttempt(agg'.history, agg'.history[i])
      PROVE  agg'.history[i].id = x /\ agg'.history[i].run = rt.active
  <2>1. CASE agg'.history[i] = f
    BY <1>1, <2>1
  <2>2. ASSUME NEW j \in DOMAIN agg.history, agg'.history[i] = agg.history[j]
        PROVE  FALSE
    <3>1. AllEnded(agg.history)
      BY <1>5, AllEndedMeans
    <3>2. AttemptHasEnded(agg.history, agg.history[j].id)
      BY <1>5, <2>2, <3>1 DEF AllEnded, OpenAttempt, StartsAttempt
    <3>3. AttemptHasEnded(agg'.history, agg.history[j].id)
      BY <1>2, <3>2 DEF AttemptHasEnded, Adds
    <3> QED
      BY <1>5, <2>2, <3>3 DEF OpenAttempt
  <2> QED
    BY <1>2, <2>1, <2>2 DEF Adds
<1>6. rt'.active = rt.active /\ rt'.cfg = rt.cfg
  BY DEF SameRun
<1> QED
  BY <1>3, <1>4, <1>5, <1>6 DEF AttemptInv, CanFinishAttempt

\* The attempt that streams ends.
LEMMA AttemptEndsNow ==
  ASSUME Shapes, AttemptInv, loop.pc = "stream", loop'.pc \notin {"none", "stream"},
         NEW o \in {"succeeded", "failed", "canceled"}, NEW t,
         Writes({AttemptFact(loop.attempt, rt.active, o, rt.cfg, t)}),
         env'.faults = 0 => env.faults = 0
  PROVE  AttemptInv'
<1> DEFINE f == AttemptFact(loop.attempt, rt.active, o, rt.cfg, t)
<1>1. f.kind = "attempt" /\ f.id = loop.attempt /\ f.val # "started"
  BY DEF AttemptFact, FactOf
<1> HIDE DEF f
<1>2. Adds(agg.history, agg'.history, f)
  BY OneFact DEF f
<1>3. AttemptHasEnded(agg'.history, loop.attempt)
  BY <1>1, <1>2 DEF AttemptHasEnded, Adds
<1>4. ASSUME env'.faults = 0, NEW i \in DOMAIN agg'.history, StartsAttempt(agg'.history[i])
      PROVE  AttemptHasEnded(agg'.history, agg'.history[i].id)
  <2>1. PICK j \in DOMAIN agg.history : agg'.history[i] = agg.history[j]
    BY <1>1, <1>2, <1>4 DEF StartsAttempt, Adds
  <2>2. CASE AttemptHasEnded(agg.history, agg.history[j].id)
    BY <1>2, <2>1, <2>2 DEF AttemptHasEnded, Adds
  <2>3. CASE ~AttemptHasEnded(agg.history, agg.history[j].id)
    <3>1. agg.history[j].id = loop.attempt
      BY <1>4, <2>1, <2>3 DEF AttemptInv, OpenAttempt
    <3> QED
      BY <1>3, <2>1, <3>1
  <2> QED
    BY <2>2, <2>3
<1> QED
  BY <1>4 DEF AttemptInv, OpenAttempt

\* What the steps of the loop write that is not about attempts.
LEMMA NoAttempts ==
  /\ \A f \in {} : f.kind # "attempt"
  /\ \A f : Lost(f) => ~StartsAttempt(f)
  /\ \A r, v, g : RunFact(r, v, g).kind = "run"
  /\ \A m, r : UserMessage(m, r).kind = "message" /\ AnswerMessage(m, r).kind = "message"
  /\ \A c, r, m : CallFact(c, r, m).kind = "call"
  /\ \A c, r, v : ResultFact(c, r, v).kind = "result"
  /\ \A r : \A f \in SteerMessages(r) : f.kind = "message"
BY DEF Lost, StartsAttempt, RunFact, UserMessage, AnswerMessage, CallFact, ResultFact,
       SteerMessages, FactOf

\* Every step keeps the attempts of a Run closed but the streaming one.
LEMMA AttemptStep ==
  ASSUME Shapes, ProposalLeft, RunInv, AttemptInv, Next
  PROVE  AttemptInv'
<1>1. ASSUME \/ ActCanceled \/ RequestModel \/ ComponentFails \/ ExecuteTools
             \/ \E p \in BOOLEAN : EvaluateCompletion(p)
      PROVE  AttemptInv'
  BY <1>1, LoopEffect, NothingWritten, AttemptsStayClosed
<1>2. CASE RecordBudget
  <2>1. PICK F : Writes(F) /\ \A f \in F : f.kind = "limit" /\ f.val # "completed"
    BY <1>2, RecordBudgetEffect DEF AtMostLimit
  <2>2. \A f \in F : f.kind # "attempt"
    BY <2>1
  <2> QED
    BY <1>2, <2>1, <2>2, RecordBudgetEffect, AttemptsStayClosed DEF SameOutside, LoopEnds
<1>3. CASE PrepareModelRequest
  BY <1>3, PrepareModelRequestEffect, AttemptsStayClosed DEF SameOutside
<1>4. CASE Started
  <2>1. loop.pc = "execute" /\ SameRun /\ (env'.faults = 0 => env.faults = 0)
    BY <1>4, StartedEffect DEF SameOutside
  <2>2. CASE loop'.pc = "finish" /\ AtMostLimit
    <3>1. PICK F : Writes(F) /\ \A f \in F : f.kind = "limit" /\ f.val # "completed"
      BY <2>2 DEF AtMostLimit
    <3>2. \A f \in F : f.kind # "attempt"
      BY <3>1
    <3> QED
      BY <2>1, <2>2, <3>1, <3>2, AttemptsStayClosed
  <2>3. CASE /\ loop'.pc = "stream"
             /\ Writes({AttemptFact(loop'.attempt, rt.active, "started", rt.cfg, 0)})
             /\ ~AttemptHasEnded(agg.history, loop'.attempt)
    BY <2>1, <2>3, AttemptOpens
  <2> QED
    BY <1>4, <2>2, <2>3, StartedEffect
<1>5. ASSUME NEW o \in {"succeeded", "failed", "canceled"}, NEW t \in Usage, Finished(o, t)
      PROVE  AttemptInv'
  <2>1. loop.pc = "stream" /\ (env'.faults = 0 => env.faults = 0)
    BY <1>5, FinishedEffect DEF SameOutside
  <2>2. CanFinishAttempt(agg, loop.attempt, rt.active, rt.cfg)
    BY <2>1 DEF AttemptInv
  <2>3. CanCommit(FinishAttempt(agg, loop.attempt, rt.active, rt.cfg, o, t))
    <3> DEFINE b == Log(agg, "attempt", loop.attempt, rt.active, None, o, rt.cfg, t)
    <3>1. AggShape(b) /\ Rest(agg, b)
      BY LogFields DEF Shapes
    <3>2. FinishAttempt(agg, loop.attempt, rt.active, rt.cfg, o, t) = b
      BY DEF FinishAttempt
    <3> HIDE DEF b
    <3>3. b.runState = "running" /\ \A i \in DOMAIN b.queue : b.queue[i].claimedBy = None
      BY <2>1, <3>1 DEF RunInv, Active, Rest, AggShape, QueueOK
    <3> QED
      BY <3>2, <3>3 DEF CanCommit, ClaimsBelong
  <2>4. CASE env'.faults # 0 /\ loop'.pc = "finish"
    BY <2>4 DEF AttemptInv
  <2>5. CASE /\ loop'.pc \in {"complete", "finish", "execute"}
             /\ Writes({AttemptFact(loop.attempt, rt.active, o, rt.cfg, t)})
    BY <2>1, <2>5, AttemptEndsNow
  <2> QED
    BY <1>5, <2>2, <2>3, <2>4, <2>5, FinishedEffect
<1>6. ASSUME NEW n \in Batches, CommitCompletion(n)
      PROVE  AttemptInv'
  <2>1. loop.pc = "complete" /\ (env'.faults = 0 => env.faults = 0)
    BY <1>6, CommitCompletionEffect DEF SameOutside
  <2>2. CASE LoopEnds /\ AtMostLimit
    <3>1. PICK F : Writes(F) /\ \A f \in F : f.kind = "limit" /\ f.val # "completed"
      BY <2>2 DEF AtMostLimit
    <3>2. \A f \in F : f.kind # "attempt"
      BY <3>1
    <3> QED
      BY <2>1, <2>2, <3>1, <3>2, AttemptsStayClosed DEF LoopEnds
  <2>3. ASSUME NEW m \in Answers, NEW S \in SUBSET Calls, loop'.pc \in {"gate", "tools"},
               Writes({AnswerMessage(m, rt.active)} \cup {CallFact(c, rt.active, m) : c \in S})
        PROVE  AttemptInv'
    <3> DEFINE F == {AnswerMessage(m, rt.active)} \cup {CallFact(c, rt.active, m) : c \in S}
    <3>1. \A f \in F : f.kind # "attempt"
      BY NoAttempts
    <3> HIDE DEF F
    <3> QED
      BY <2>1, <2>3, <3>1, AttemptsStayClosed DEF F
  <2> QED
    BY <1>6, <2>2, <2>3, CommitCompletionEffect
<1>7. CASE ContinueOrComplete
  <2>1. loop.pc = "decide" /\ loop'.pc \in {"finish", "ready"} /\ (env'.faults = 0 => env.faults = 0)
    BY <1>7, ContinueOrCompleteEffect DEF SameOutside
  <2>2. \E F : Writes(F) /\ \A f \in F : f.kind # "attempt"
    <3>1. CASE Writes({})
      BY <3>1, NoAttempts
    <3>2. CASE Writes(SteerMessages(rt.active))
      <4>1. \A f \in SteerMessages(rt.active) : f.kind # "attempt"
        BY NoAttempts
      <4> QED
        BY <3>2, <4>1
    <3>3. CASE Writes({UserMessage(FreshProposal, rt.active)})
      <4>1. \A f \in {UserMessage(FreshProposal, rt.active)} : f.kind # "attempt"
        BY NoAttempts
      <4> QED
        BY <3>3, <4>1
    <3> QED
      BY <1>7, <3>1, <3>2, <3>3, ContinueOrCompleteEffect
  <2> QED
    BY <2>1, <2>2, AttemptsStayClosed
<1>8. ASSUME NEW c \in Calls,
             RefuseCall(c) \/ InvokeTool(c)
               \/ \E s \in {"succeeded", "failed"}, v \in BOOLEAN : ToolReturns(c, s, v)
      PROVE  AttemptInv'
  <2>1. agg' = agg /\ loop.pc = "dispatch" /\ loop'.pc = "dispatch" /\ CallMoves(c)
    BY <1>8, CallEffect
  <2>2. env'.faults = env.faults
    BY <2>1 DEF CallMoves, Shapes, EnvShape
  <2> QED
    BY <2>1, <2>2, NothingWritten, AttemptsStayClosed
<1>9. ASSUME NEW c \in Calls, MarkToolExecuting(c)
      PROVE  AttemptInv'
  BY <1>9, MarkToolExecutingEffect, AttemptsStayClosed DEF MayBegin, SameOutside
<1>10. CASE CommitToolResults
  <2> DEFINE F == {ResultFact(c, agg.journal[c].run, loop.work[c]) : c \in Done(loop.work)}
                    \cup SteerMessages(rt.active)
  <2>1. /\ loop.pc = "dispatch" /\ loop'.pc \in {"finish", "ready"}
        /\ env'.faults = 0 => env.faults = 0
    BY <1>10, CommitToolResultsEffect DEF SameOutside
  <2>2. \A f \in F : f.kind # "attempt"
    BY NoAttempts
  <2>3. Writes({}) \/ Writes(F)
    BY <1>10, CommitToolResultsEffect
  <2> HIDE DEF F
  <2> QED
    BY <2>1, <2>2, <2>3, AttemptsStayClosed
<1>11. CASE FinishRun
  <2>1. loop.pc = "finish"
    BY <1>11, FinishRunEffect
  <2>2. CASE EndsHere
    <3>1. PICK o : Writes({RunFact(rt.active, o, rt.cfg)}) /\ env' = env /\ Stopped
      BY <2>2 DEF EndsHere
    <3>2. \A f \in {RunFact(rt.active, o, rt.cfg)} : f.kind # "attempt"
      BY NoAttempts
    <3> QED
      BY <2>1, <3>1, <3>2, AttemptsStayClosed DEF Stopped
  <2>3. ASSUME NEW m, NEW r, GoesOnWith(m, r)
        PROVE  AttemptInv'
    <3>1. PICK o : Writes({RunFact(rt.active, o, rt.cfg)}
                            \cup {RunFact(r, "started", agg.config), UserMessage(m, r)})
      BY <2>3 DEF GoesOnWith
    <3> DEFINE F == {RunFact(rt.active, o, rt.cfg)}
                      \cup {RunFact(r, "started", agg.config), UserMessage(m, r)}
    <3>2. \A f \in F : f.kind # "attempt"
      BY NoAttempts
    <3>3. env' = env /\ loop'.pc = "ready"
      BY <2>3 DEF GoesOnWith
    <3>4. Writes(F)
      BY <3>1
    <3> HIDE DEF F
    <3> QED
      BY <2>1, <3>2, <3>3, <3>4, AttemptsStayClosed
  <2>4. CASE RecoversTo(agg, agg') /\ Stopped
    BY <2>4, AttemptsClosed DEF RecoversTo, Stopped
  <2>5. CASE env'.faults # 0 /\ Stopped
    BY <2>5 DEF AttemptInv, Stopped
  <2> QED
    BY <1>11, <2>2, <2>3, <2>4, <2>5, FinishRunEffect
<1>12. ASSUME rt.state = "idle", NEW m, NEW r, Begun(m, r), env'.faults = env.faults
       PROVE  AttemptInv'
  <2> DEFINE F == {RunFact(r, "started", agg.config), UserMessage(m, r)}
  <2>1. \A f \in F : f.kind # "attempt"
    BY NoAttempts
  <2>2. Writes(F) /\ agg.runState = "idle" /\ loop'.pc = "ready"
    BY <1>12 DEF Begun
  <2> HIDE DEF F
  <2>3. loop.pc = "none"
    BY <1>12 DEF RunInv
  <2> QED
    BY <1>12, <2>1, <2>2, <2>3, AttemptsStayClosed
<1>13. ASSUME NEW m, Arrived(m)
       PROVE  AttemptInv'
  BY <1>13, RtKept, AttemptsKept DEF Arrived, Steady
<1>14. CASE Send
  BY <1>12, <1>13, <1>14, SendEffect
<1>15. CASE SteerRun
  BY <1>13, <1>15, SteerRunEffect
<1>16. CASE RunPending
  BY <1>12, <1>16, RunPendingEffect
<1>17. CASE Cancel \/ Close
  BY <1>17, StopEffect, NothingWritten, AttemptsKept
<1>18. ASSUME NEW m \in Inputs, DeleteQueued(m)
       PROVE  AttemptInv'
  BY <1>18, DeleteQueuedEffect, RtKept, AttemptsKept DEF Steady
<1>19. ASSUME NEW m \in Inputs, NEW d \in ReclassifyTo, ReclassifyQueued(m, d)
       PROVE  AttemptInv'
  BY <1>19, ReclassifyQueuedEffect, RtKept, AttemptsKept DEF Steady
<1>20. ASSUME NEW g \in Configs, UpdateModelConfig(g)
       PROVE  AttemptInv'
  <2> DEFINE F == {FactOf("config", None, None, None, "none", g, 0)}
  <2>1. \A f \in F : f.kind # "attempt"
    BY DEF FactOf
  <2>2. Writes(F) /\ rt' = rt /\ loop' = loop /\ env' = env /\ Steady
    BY <1>20, UpdateModelConfigEffect
  <2> HIDE DEF F
  <2> QED
    BY <2>1, <2>2, RtKept, AttemptsKept DEF Steady
<1>21. CASE FinishClose \/ Crash
  <2>1. \/ rt.active = None /\ loop' = loop
        \/ loop'.pc = "none"
    BY <1>21, GoneEffect
  <2>2. loop'.pc = "none"
    BY <2>1, NoneAssumption DEF RunInv
  <2>3. agg' = agg /\ (env'.faults = 0 => env.faults = 0)
    BY <1>21, GoneEffect DEF SameOutside
  <2> QED
    BY <2>2, <2>3, AttemptsLeft
<1>22. CASE Resume
  <2>1. RecoversTo(agg, agg') /\ loop'.pc # "stream"
    BY <1>22, ResumeEffect
  <2> QED
    BY <2>1, AttemptsClosed DEF RecoversTo
<1>23. CASE OtherSessionStarts
  BY <1>23, NothingWritten, RtKept, AttemptsKept DEF OtherSessionStarts
<1> QED
  BY <1>1, <1>2, <1>3, <1>4, <1>5, <1>6, <1>7, <1>8, <1>9, <1>10, <1>11, <1>14,
     <1>15, <1>16, <1>17, <1>18, <1>19, <1>20, <1>21, <1>22, <1>23
     DEF Next, LoopStep, Command

-----------------------------------------------------------------------------
(* An accepted input is neither lost nor consumed twice.                   *)

\* A message of History is an old one or one of F.
LEMMA MessagesGrow ==
  ASSUME Shapes, NEW F, Writes(F), NEW m
  PROVE  HasMessage(agg'.history, m) <=>
           HasMessage(agg.history, m) \/ \E f \in F : f.kind = "message" /\ f.id = m
<1>1. /\ \A j \in DOMAIN agg.history : \E i \in DOMAIN agg'.history : agg'.history[i] = agg.history[j]
      /\ \A i \in DOMAIN agg'.history :
           agg'.history[i] \in F \/ \E j \in DOMAIN agg.history : agg'.history[i] = agg.history[j]
      /\ \A f \in F : \E i \in DOMAIN agg'.history : agg'.history[i] = f
  BY GrowsFacts DEF Writes, Shapes, AggShape
<1>2. ASSUME HasMessage(agg'.history, m)
      PROVE  HasMessage(agg.history, m) \/ \E f \in F : f.kind = "message" /\ f.id = m
  BY <1>1, <1>2 DEF HasMessage
<1>3. ASSUME HasMessage(agg.history, m)
      PROVE  HasMessage(agg'.history, m)
  BY <1>1, <1>3 DEF HasMessage
<1>4. ASSUME NEW f \in F, f.kind = "message", f.id = m
      PROVE  HasMessage(agg'.history, m)
  BY <1>1, <1>4 DEF HasMessage
<1> QED
  BY <1>2, <1>3, <1>4

\* No input becomes a message.
LEMMA NoMessages ==
  ASSUME Shapes, NEW F, Writes(F), \A f \in F : f.kind # "message", NEW m
  PROVE  HasMessage(agg'.history, m) <=> HasMessage(agg.history, m)
BY MessagesGrow

\* The input m became a message, and no other one did.
Consumed(m) ==
  \A x : HasMessage(agg'.history, x) <=> HasMessage(agg.history, x) \/ x = m

\* The inputs of X left the Queue, and no other one did or came.
Leave(X) ==
  /\ \A x : InQueue(agg'.queue, x) <=> InQueue(agg.queue, x) /\ x \notin X
  /\ \A x \in X : InQueue(agg.queue, x)

\* One message enters History.
LEMMA OneMessage ==
  ASSUME Shapes, NEW F, Writes(F), NEW m, NEW r, UserMessage(m, r) \in F,
         \A f \in F : f = UserMessage(m, r) \/ f.kind # "message"
  PROVE  Consumed(m)
<1>1. UserMessage(m, r).kind = "message" /\ UserMessage(m, r).id = m
  BY DEF UserMessage, FactOf
<1>2. ASSUME NEW x
      PROVE  HasMessage(agg'.history, x) <=> HasMessage(agg.history, x) \/ x = m
  <2>1. HasMessage(agg'.history, x) <=>
          HasMessage(agg.history, x) \/ \E f \in F : f.kind = "message" /\ f.id = x
    BY MessagesGrow
  <2>2. (\E f \in F : f.kind = "message" /\ f.id = x) <=> x = m
    BY <1>1
  <2> QED
    BY <2>1, <2>2
<1> QED
  BY <1>2 DEF Consumed

\* What was accepted and deleted stays so, and nothing is consumed.
LEMMA InputsKept ==
  ASSUME Shapes, InputInv, NEW F, Writes(F), \A f \in F : f.kind # "message", KeepsInputs,
         env'.accepted = env.accepted, env'.deleted = env.deleted
  PROVE  InputInv'
<1>1. ASSUME NEW m \in Inputs \cup Proposals PROVE Placed(m)'
  <2>1. HasMessage(agg'.history, m) <=> HasMessage(agg.history, m)
    BY NoMessages
  <2>2. InQueue(agg'.queue, m) <=> InQueue(agg.queue, m)
    BY DEF KeepsInputs
  <2>3. Placed(m)
    BY DEF InputInv
  <2> QED
    BY <2>1, <2>2, <2>3 DEF Placed
<1> QED
  BY <1>1 DEF InputInv

\* An input or a proposal is accepted and becomes a message at once.
LEMMA InputConsumedAtOnce ==
  ASSUME InputInv, NEW x \in Inputs \cup Proposals, x \notin env.accepted,
         env'.accepted = env.accepted \cup {x}, env'.deleted = env.deleted, KeepsInputs,
         Consumed(x)
  PROVE  InputInv'
<1>1. ~InQueue(agg.queue, x) /\ ~HasMessage(agg.history, x) /\ x \notin env.deleted
  BY DEF InputInv, Placed
<1>2. ASSUME NEW m \in Inputs \cup Proposals PROVE Placed(m)'
  <2>1. Placed(m)
    BY DEF InputInv
  <2>2. InQueue(agg'.queue, m) <=> InQueue(agg.queue, m)
    BY DEF KeepsInputs
  <2>3. HasMessage(agg'.history, m) <=> HasMessage(agg.history, m) \/ m = x
    BY DEF Consumed
  <2> QED
    BY <1>1, <2>1, <2>2, <2>3 DEF Placed
<1> QED
  BY <1>2 DEF InputInv

\* An input waits.
LEMMA InputArrives ==
  ASSUME Shapes, InputInv, NEW x, Arrived(x)
  PROVE  InputInv'
<1>1. /\ x \in Inputs \cup Proposals /\ x \notin env.accepted
      /\ Writes({}) /\ env'.deleted = env.deleted /\ env'.accepted = env.accepted \cup {x}
      /\ \A m : InQueue(agg'.queue, m) <=> InQueue(agg.queue, m) \/ m = x
  BY DEF Arrived
<1>2. ~InQueue(agg.queue, x) /\ ~HasMessage(agg.history, x) /\ x \notin env.deleted
  BY <1>1 DEF InputInv, Placed
<1>3. ASSUME NEW m \in Inputs \cup Proposals PROVE Placed(m)'
  <2>1. Placed(m)
    BY DEF InputInv
  <2>2. HasMessage(agg'.history, m) <=> HasMessage(agg.history, m)
    BY <1>1, NoMessages
  <2>3. InQueue(agg'.queue, m) <=> InQueue(agg.queue, m) \/ m = x
    BY <1>1
  <2> QED
    BY <1>1, <1>2, <2>1, <2>2, <2>3 DEF Placed
<1> QED
  BY <1>1, <1>3 DEF InputInv

\* Inputs leave the Queue and are messages.
LEMMA InputsConsumed ==
  ASSUME InputInv, NEW X,
         \A m : InQueue(agg'.queue, m) <=> InQueue(agg.queue, m) /\ m \notin X,
         \A m : HasMessage(agg'.history, m) <=> HasMessage(agg.history, m) \/ m \in X,
         \A x \in X : InQueue(agg.queue, x),
         env'.accepted = env.accepted, env'.deleted = env.deleted
  PROVE  InputInv'
<1>1. ASSUME NEW m \in Inputs \cup Proposals PROVE Placed(m)'
  <2>1. Placed(m)
    BY DEF InputInv
  <2>2. InQueue(agg'.queue, m) <=> InQueue(agg.queue, m) /\ m \notin X
    OBVIOUS
  <2>3. HasMessage(agg'.history, m) <=> HasMessage(agg.history, m) \/ m \in X
    OBVIOUS
  <2>4. m \in X => InQueue(agg.queue, m)
    OBVIOUS
  <2> QED
    BY <2>1, <2>2, <2>3, <2>4 DEF Placed
<1> QED
  BY <1>1 DEF InputInv

\* An input leaves the Queue and is a message.
LEMMA InputConsumed ==
  ASSUME InputInv, NEW m, Leave({m}), Consumed(m), env' = env
  PROVE  InputInv'
<1>1. \A x : InQueue(agg'.queue, x) <=> InQueue(agg.queue, x) /\ x \notin {m}
  BY DEF Leave
<1>2. \A x : HasMessage(agg'.history, x) <=> HasMessage(agg.history, x) \/ x \in {m}
  BY DEF Consumed
<1>3. \A x \in {m} : InQueue(agg.queue, x)
  BY DEF Leave
<1> QED
  BY <1>1, <1>2, <1>3, InputsConsumed

\* The steers leave the Queue and are messages.
LEMMA SteersConsumed ==
  ASSUME Shapes, InputInv, NEW F, \A f \in F : f.kind # "message", NEW r,
         Writes(F \cup SteerMessages(r)), SteersLeave,
         env'.accepted = env.accepted, env'.deleted = env.deleted
  PROVE  InputInv'
<1> DEFINE X == {agg.queue[p].id : p \in Steering(agg)}
<1>1. QueueOK(agg.queue) /\ Steering(agg) \subseteq DOMAIN agg.queue
  BY DEF Shapes, AggShape, Steering
<1>2. \A m : InQueue(agg'.queue, m) <=> InQueue(agg.queue, m) /\ m \notin X
  <2> TAKE m
  <2>1. \A i, j \in DOMAIN agg.queue : agg.queue[i].id = agg.queue[j].id => i = j
    BY <1>1 DEF QueueOK
  <2>2. InQueue(agg'.queue, m) <=>
          \E p \in DOMAIN agg.queue \ Steering(agg) : agg.queue[p].id = m
    BY DEF SteersLeave
  <2>3. ASSUME NEW p \in DOMAIN agg.queue, p \notin Steering(agg), agg.queue[p].id = m
        PROVE  m \notin X
    BY <1>1, <2>1, <2>3
  <2>4. ASSUME NEW p \in DOMAIN agg.queue, agg.queue[p].id = m, m \notin X
        PROVE  p \notin Steering(agg)
    BY <2>4
  <2> HIDE DEF X
  <2> QED
    BY <2>2, <2>3, <2>4 DEF InQueue
<1>3. \A m : HasMessage(agg'.history, m) <=> HasMessage(agg.history, m) \/ m \in X
  <2> TAKE m
  <2>1. \A p \in Steering(agg) : /\ UserMessage(agg.queue[p].id, r).kind = "message"
                                 /\ UserMessage(agg.queue[p].id, r).id = agg.queue[p].id
    BY DEF UserMessage, FactOf
  <2>2. (\E f \in F \cup SteerMessages(r) : f.kind = "message" /\ f.id = m) <=> m \in X
    BY <2>1 DEF SteerMessages
  <2> HIDE DEF X
  <2> QED
    BY <2>2, MessagesGrow
<1>4. \A x \in X : InQueue(agg.queue, x)
  BY <1>1 DEF InQueue
<1> HIDE DEF X
<1> QED
  BY <1>2, <1>3, <1>4, InputsConsumed

\* An input is deleted by its user.
LEMMA InputDeleted ==
  ASSUME Shapes, InputInv, NEW x, Writes({}), InQueue(agg.queue, x),
         \A m : InQueue(agg'.queue, m) <=> InQueue(agg.queue, m) /\ m # x,
         env'.accepted = env.accepted, env'.deleted = env.deleted \cup {x}
  PROVE  InputInv'
<1>1. ASSUME NEW m \in Inputs \cup Proposals PROVE Placed(m)'
  <2>1. Placed(m)
    BY DEF InputInv
  <2>2. HasMessage(agg'.history, m) <=> HasMessage(agg.history, m)
    BY NoMessages
  <2>3. InQueue(agg'.queue, m) <=> InQueue(agg.queue, m) /\ m # x
    OBVIOUS
  <2> QED
    BY <2>1, <2>2, <2>3 DEF Placed
<1> QED
  BY <1>1 DEF InputInv

\* Every step keeps each input in the Queue or in History.
LEMMA InputStep ==
  ASSUME Shapes, ProposalLeft, RunInv, InputInv, Next
  PROVE  InputInv'
<1>1. ASSUME \/ ActCanceled \/ RequestModel \/ ComponentFails \/ ExecuteTools
             \/ \E p \in BOOLEAN : EvaluateCompletion(p)
      PROVE  InputInv'
  BY <1>1, LoopEffect, NothingWritten, InputsKept
<1>2. ASSUME AtMostLimit, KeepsInputs, SameOutside
      PROVE  InputInv'
  <2>1. PICK F : Writes(F) /\ \A f \in F : f.kind = "limit" /\ f.val # "completed"
    BY <1>2 DEF AtMostLimit
  <2>2. \A f \in F : f.kind # "message"
    BY <2>1
  <2> QED
    BY <1>2, <2>1, <2>2, InputsKept DEF SameOutside
<1>3. CASE RecordBudget
  BY <1>2, <1>3, RecordBudgetEffect
<1>4. CASE PrepareModelRequest
  BY <1>4, PrepareModelRequestEffect, InputsKept DEF SameOutside
<1>5. ASSUME KeepsInputs, SameOutside, NEW x, NEW r, NEW v, NEW g, NEW t,
             Writes({AttemptFact(x, r, v, g, t)})
      PROVE  InputInv'
  <2> DEFINE f == AttemptFact(x, r, v, g, t)
  <2>1. f.kind # "message"
    BY DEF AttemptFact, FactOf
  <2>2. Writes({f})
    BY <1>5
  <2> HIDE DEF f
  <2> QED
    BY <1>5, <2>1, <2>2, InputsKept DEF SameOutside
<1>6. CASE Started
  BY <1>2, <1>5, <1>6, StartedEffect
<1>7. ASSUME NEW o \in {"succeeded", "failed", "canceled"}, NEW t \in Usage, Finished(o, t)
      PROVE  InputInv'
  <2>1. CASE Writes({})
    BY <1>7, <2>1, FinishedEffect, InputsKept DEF SameOutside
  <2>2. CASE Writes({AttemptFact(loop.attempt, rt.active, o, rt.cfg, t)})
    BY <1>5, <1>7, <2>2, FinishedEffect
  <2> QED
    BY <1>7, <2>1, <2>2, FinishedEffect
<1>8. ASSUME NEW n \in Batches, CommitCompletion(n)
      PROVE  InputInv'
  <2>1. KeepsInputs /\ SameOutside
    BY <1>8, CommitCompletionEffect
  <2>2. ASSUME NEW a \in Answers, NEW S \in SUBSET Calls,
               Writes({AnswerMessage(a, rt.active)} \cup {CallFact(c, rt.active, a) : c \in S})
        PROVE  InputInv'
    <3> DEFINE F == {AnswerMessage(a, rt.active)} \cup {CallFact(c, rt.active, a) : c \in S}
    <3>1. AnswerMessage(a, rt.active).id = a /\ \A c \in S : CallFact(c, rt.active, a).kind = "call"
      BY DEF AnswerMessage, CallFact, FactOf
    <3>2. ASSUME NEW m \in Inputs \cup Proposals
          PROVE  HasMessage(agg'.history, m) <=> HasMessage(agg.history, m)
      <4>1. m # a
        BY RuntimeAssumption
      <4>2. \A f \in F : f.kind = "message" => f.id # m
        BY <3>1, <4>1
      <4>3. Writes(F)
        BY <2>2
      <4> HIDE DEF F
      <4> QED
        BY <4>2, <4>3, MessagesGrow
    <3>3. ASSUME NEW m \in Inputs \cup Proposals PROVE Placed(m)'
      <4>1. Placed(m) /\ env'.accepted = env.accepted /\ env'.deleted = env.deleted
        BY <2>1 DEF InputInv, SameOutside
      <4>2. InQueue(agg'.queue, m) <=> InQueue(agg.queue, m)
        BY <2>1 DEF KeepsInputs
      <4> QED
        BY <3>2, <4>1, <4>2 DEF Placed
    <3> QED
      BY <2>1, <3>3 DEF InputInv, SameOutside
  <2> QED
    BY <1>2, <1>8, <2>1, <2>2, CommitCompletionEffect
<1>9. CASE ContinueOrComplete
  <2>1. CASE Writes({}) /\ KeepsInputs /\ SameOutside
    BY <2>1, InputsKept DEF SameOutside
  <2>2. CASE env' = env /\ Writes(SteerMessages(rt.active)) /\ SteersLeave
    <3>1. Writes({} \cup SteerMessages(rt.active))
      BY <2>2
    <3> QED
      BY <2>2, <3>1, SteersConsumed
  <2>3. CASE /\ loop.proposal /\ Writes({UserMessage(FreshProposal, rt.active)}) /\ KeepsInputs
             /\ env'.accepted = env.accepted \cup {FreshProposal} /\ env'.deleted = env.deleted
    <3> DEFINE x == FreshProposal
    <3>1. x \in Proposals /\ x \notin env.accepted
      <4>1. loop.pc = "decide"
        BY <1>9, ContinueOrCompleteEffect
      <4> QED
        BY <2>3, <4>1, FreshIs DEF ProposalLeft
    <3> HIDE DEF x
    <3>2. Consumed(x)
      <4>1. Writes({UserMessage(x, rt.active)})
        BY <2>3 DEF x
      <4> QED
        BY <4>1, OneMessage
    <3>3. env'.accepted = env.accepted \cup {x} /\ env'.deleted = env.deleted /\ KeepsInputs
      BY <2>3 DEF x
    <3> QED
      BY <3>1, <3>2, <3>3, InputConsumedAtOnce
  <2> QED
    BY <1>9, <2>1, <2>2, <2>3, ContinueOrCompleteEffect
<1>10. ASSUME NEW c \in Calls,
              RefuseCall(c) \/ InvokeTool(c)
                \/ \E s \in {"succeeded", "failed"}, v \in BOOLEAN : ToolReturns(c, s, v)
       PROVE  InputInv'
  <2>1. agg' = agg /\ CallMoves(c)
    BY <1>10, CallEffect
  <2>2. env'.accepted = env.accepted /\ env'.deleted = env.deleted
    BY <2>1 DEF CallMoves, Shapes, EnvShape
  <2> QED
    BY <2>1, <2>2, NothingWritten, InputsKept
<1>11. ASSUME NEW c \in Calls, MarkToolExecuting(c)
       PROVE  InputInv'
  BY <1>11, MarkToolExecutingEffect, InputsKept DEF SameOutside
<1>12. CASE CommitToolResults
  <2> DEFINE F == {ResultFact(c, agg.journal[c].run, loop.work[c]) : c \in Done(loop.work)}
  <2>1. SameOutside
    BY <1>12, CommitToolResultsEffect
  <2>2. CASE Writes({}) /\ KeepsInputs
    BY <2>1, <2>2, InputsKept DEF SameOutside
  <2>3. CASE Writes(F \cup SteerMessages(rt.active)) /\ SteersLeave
    <3>1. \A f \in F : f.kind # "message"
      BY NoAttempts
    <3> HIDE DEF F
    <3> QED
      BY <2>1, <2>3, <3>1, SteersConsumed DEF SameOutside
  <2> QED
    BY <1>12, <2>2, <2>3, CommitToolResultsEffect
<1>13. CASE FinishRun
  <2>1. CASE EndsHere
    <3>1. PICK o : Writes({RunFact(rt.active, o, rt.cfg)}) /\ env' = env /\ KeepsInputs
      BY <2>1 DEF EndsHere
    <3>2. \A f \in {RunFact(rt.active, o, rt.cfg)} : f.kind # "message"
      BY NoAttempts
    <3> QED
      BY <3>1, <3>2, InputsKept
  <2>2. ASSUME NEW m, NEW r, GoesOnWith(m, r)
        PROVE  InputInv'
    <3>1. PICK o : Writes({RunFact(rt.active, o, rt.cfg)}
                            \cup {RunFact(r, "started", agg.config), UserMessage(m, r)})
      BY <2>2 DEF GoesOnWith
    <3>2. Consumed(m)
      <4> DEFINE F == {RunFact(rt.active, o, rt.cfg)}
                        \cup {RunFact(r, "started", agg.config), UserMessage(m, r)}
      <4>1. UserMessage(m, r) \in F /\ \A f \in F : f = UserMessage(m, r) \/ f.kind # "message"
        BY DEF RunFact, FactOf
      <4>2. Writes(F)
        BY <3>1
      <4> HIDE DEF F
      <4> QED
        BY <4>1, <4>2, OneMessage
    <3>3. env' = env /\ Leave({m})
      BY <2>2 DEF GoesOnWith, Leave
    <3> QED
      BY <3>2, <3>3, InputConsumed
  <2>3. CASE RecoversTo(agg, agg') /\ SameOutside
    <3>1. PICK F : Grows(agg.history, agg'.history, F) /\ \A f \in F : Lost(f)
      BY <2>3 DEF RecoversTo
    <3>2. Writes(F) /\ KeepsInputs /\ \A f \in F : f.kind # "message"
      BY <2>3, <3>1 DEF RecoversTo, Writes, KeepsInputs, Lost
    <3> QED
      BY <2>3, <3>2, InputsKept DEF SameOutside
  <2>4. CASE agg' = agg /\ SameOutside
    BY <2>4, NothingWritten, InputsKept DEF SameOutside
  <2> QED
    BY <1>13, <2>1, <2>2, <2>3, <2>4, FinishRunEffect
<1>14. ASSUME NEW m, NEW r, Begun(m, r)
       PROVE  Consumed(m)
  <2> DEFINE F == {RunFact(r, "started", agg.config), UserMessage(m, r)}
  <2>1. UserMessage(m, r) \in F /\ \A f \in F : f = UserMessage(m, r) \/ f.kind # "message"
    BY DEF RunFact, FactOf
  <2>2. Writes(F)
    BY <1>14 DEF Begun
  <2> HIDE DEF F
  <2> QED
    BY <2>1, <2>2, OneMessage
<1>15. CASE Send
  <2>1. ASSUME NEW m, NEW r, Begun(m, r), m \in Inputs \ env.accepted, KeepsInputs,
               env'.deleted = env.deleted, env'.accepted = env.accepted \cup {m}
        PROVE  InputInv'
    BY <1>14, <2>1, InputConsumedAtOnce
  <2> QED
    BY <1>15, <2>1, InputArrives, SendEffect
<1>16. CASE SteerRun
  BY <1>16, InputArrives, SteerRunEffect
<1>17. CASE RunPending
  <2>1. env' = env
    BY <1>17, RunPendingEffect
  <2>2. PICK m, r : /\ Begun(m, r) /\ InQueue(agg.queue, m)
                    /\ \A x : InQueue(agg'.queue, x) <=> InQueue(agg.queue, x) /\ x # m
    BY <1>17, RunPendingEffect
  <2>3. Consumed(m) /\ Leave({m})
    BY <1>14, <2>2 DEF Leave
  <2> QED
    BY <2>1, <2>3, InputConsumed
<1>18. CASE Cancel \/ Close
  BY <1>18, StopEffect, NothingWritten, InputsKept
<1>19. ASSUME NEW m \in Inputs, DeleteQueued(m)
       PROVE  InputInv'
  BY <1>19, DeleteQueuedEffect, InputDeleted
<1>20. ASSUME NEW m \in Inputs, NEW d \in ReclassifyTo, ReclassifyQueued(m, d)
       PROVE  InputInv'
  BY <1>20, ReclassifyQueuedEffect, InputsKept
<1>21. ASSUME NEW g \in Configs, UpdateModelConfig(g)
       PROVE  InputInv'
  <2> DEFINE F == {FactOf("config", None, None, None, "none", g, 0)}
  <2>1. \A f \in F : f.kind # "message"
    BY DEF FactOf
  <2>2. Writes(F) /\ KeepsInputs /\ env' = env
    BY <1>21, UpdateModelConfigEffect
  <2> HIDE DEF F
  <2> QED
    BY <2>1, <2>2, InputsKept
<1>22. CASE FinishClose \/ Crash
  BY <1>22, GoneEffect, NothingWritten, InputsKept DEF SameOutside
<1>23. CASE Resume
  <2>1. RecoversTo(agg, agg') /\ env' = env
    BY <1>23, ResumeEffect
  <2>2. PICK F : Grows(agg.history, agg'.history, F) /\ \A f \in F : Lost(f)
    BY <2>1 DEF RecoversTo
  <2>3. Writes(F) /\ KeepsInputs /\ \A f \in F : f.kind # "message"
    BY <2>1, <2>2 DEF RecoversTo, Writes, KeepsInputs, Lost
  <2> QED
    BY <2>1, <2>3, InputsKept
<1>24. CASE OtherSessionStarts
  BY <1>24, NothingWritten, InputsKept DEF OtherSessionStarts
<1> QED
  BY <1>1, <1>3, <1>4, <1>6, <1>7, <1>8, <1>9, <1>10, <1>11, <1>12, <1>13, <1>15,
     <1>16, <1>17, <1>18, <1>19, <1>20, <1>21, <1>22, <1>23, <1>24
     DEF Next, LoopStep, Command

-----------------------------------------------------------------------------
(* A cancellation is honoured.                                             *)

\* What a step may do once the Run was cancelled.
Honoured ==
  /\ \A x \in Attempts : Orphan(agg', x) => Orphan(agg, x)
  /\ \A c \in Calls : agg'.journal[c].status = "pending" => agg.journal[c].status = "pending"
  /\ \A i \in DOMAIN agg'.history \ DOMAIN agg.history : agg'.history[i].val # "completed"
  /\ rt'.active \in {rt.active, None}

\* No call passes its execution mark.
NoMark ==
  \A c \in Calls : agg'.journal[c].status = "pending" => agg.journal[c].status = "pending"

\* A fact that neither starts an attempt nor completes a Run.
Harmless(f) == ~StartsAttempt(f) /\ f.val # "completed"

\* A step that writes harmless facts only is honest about the cancellation.
LEMMA HonouredWhen ==
  ASSUME Shapes, NEW F, Writes(F), \A f \in F : Harmless(f), NoMark,
         rt'.active \in {rt.active, None}
  PROVE  Honoured
<1>1. /\ \A j \in DOMAIN agg.history : \E i \in DOMAIN agg'.history : agg'.history[i] = agg.history[j]
      /\ \A i \in DOMAIN agg'.history :
           agg'.history[i] \in F \/ \E j \in DOMAIN agg.history : agg'.history[i] = agg.history[j]
      /\ \A i \in DOMAIN agg'.history \ DOMAIN agg.history : agg'.history[i] \in F
  BY GrowsFacts DEF Writes, Shapes, AggShape
<1>2. ASSUME NEW x \in Attempts, Orphan(agg', x)
      PROVE  Orphan(agg, x)
  <2>1. AttemptHasStarted(agg'.history, x) /\ ~AttemptHasEnded(agg'.history, x)
    BY <1>2 DEF Orphan
  <2>2. AttemptHasStarted(agg.history, x)
    BY <1>1, <2>1 DEF AttemptHasStarted, Harmless, StartsAttempt
  <2>3. ~AttemptHasEnded(agg.history, x)
    BY <1>1, <2>1 DEF AttemptHasEnded
  <2> QED
    BY <2>2, <2>3 DEF Orphan
<1>3. \A i \in DOMAIN agg'.history \ DOMAIN agg.history : agg'.history[i].val # "completed"
  BY <1>1 DEF Harmless
<1> QED
  BY <1>2, <1>3 DEF Honoured, NoMark

\* The facts the loop writes besides the start of an attempt.
LEMMA HarmlessFacts ==
  /\ \A f \in {} : Harmless(f)
  /\ \A f : Lost(f) => Harmless(f)
  /\ \A r, v, g : v # "completed" => Harmless(RunFact(r, v, g))
  /\ \A m, r : Harmless(UserMessage(m, r))
  /\ \A c, r : \A v \in {"succeeded", "failed"} : Harmless(ResultFact(c, r, v))
  /\ \A x, r, g, t : \A v \in {"succeeded", "failed", "canceled"} :
       Harmless(AttemptFact(x, r, v, g, t))
  /\ \A r : \A f \in SteerMessages(r) : Harmless(f)
BY DEF Harmless, StartsAttempt, Lost, RunFact, UserMessage, ResultFact, AttemptFact,
       SteerMessages, FactOf

\* What a step does once a cancellation was accepted.
LEMMA CancelStep ==
  ASSUME Shapes, ProposalLeft, RunInv, Next, rt.active # None, Canceled
  PROVE  Honoured
<1>1. rt.state = "running"
  BY DEF RunInv
<1>2. ASSUME Writes({}), NoMark, rt'.active \in {rt.active, None}
      PROVE  Honoured
  BY <1>2, HarmlessFacts, HonouredWhen
<1>3. ASSUME AtMostLimit, Steady, rt' = rt \/ SameRun
      PROVE  Honoured
  <2>1. PICK F : Writes(F) /\ \A f \in F : f.kind = "limit" /\ f.val # "completed"
    BY <1>3 DEF AtMostLimit
  <2>2. \A f \in F : Harmless(f)
    BY <2>1 DEF Harmless, StartsAttempt
  <2>3. NoMark /\ rt'.active = rt.active
    BY <1>3 DEF NoMark, Steady, SameRun
  <2> QED
    BY <2>1, <2>2, <2>3, HonouredWhen
<1>4. ASSUME Writes({}), Steady, rt' = rt \/ SameRun
      PROVE  Honoured
  <2>1. NoMark /\ rt'.active = rt.active
    BY <1>4 DEF NoMark, Steady, SameRun
  <2> QED
    BY <1>2, <1>4, <2>1
<1>5. ASSUME RecoversTo(agg, agg'), rt'.active = None
      PROVE  Honoured
  <2>1. PICK F : Grows(agg.history, agg'.history, F) /\ \A f \in F : Lost(f)
    BY <1>5 DEF RecoversTo
  <2>2. Writes(F) /\ \A f \in F : Harmless(f)
    BY <1>5, <2>1, HarmlessFacts DEF RecoversTo, Writes
  <2>3. NoMark
    BY <1>5 DEF RecoversTo, NoMark, RecoveredStatus
  <2> QED
    BY <1>5, <2>2, <2>3, HonouredWhen
<1>6. ASSUME NEW F, Writes(F), \A f \in F : Harmless(f), Steady, rt' = rt \/ SameRun
      PROVE  Honoured
  <2>1. NoMark /\ rt'.active \in {rt.active, None}
    BY <1>6 DEF NoMark, Steady, SameRun
  <2> QED
    BY <1>6, <2>1, HonouredWhen
<1>7. ASSUME \/ ActCanceled \/ RequestModel \/ ComponentFails \/ ExecuteTools
             \/ \E p \in BOOLEAN : EvaluateCompletion(p)
      PROVE  Honoured
  BY <1>4, <1>7, LoopEffect, NothingWritten
<1>8. CASE RecordBudget
  BY <1>3, <1>8, RecordBudgetEffect
<1>9. CASE PrepareModelRequest
  BY <1>4, <1>9, PrepareModelRequestEffect
<1>10. CASE Started
  BY <1>3, <1>10, StartedEffect
<1>11. ASSUME NEW o \in {"succeeded", "failed", "canceled"}, NEW t \in Usage, Finished(o, t)
       PROVE  Honoured
  <2>1. CASE Writes({})
    BY <1>4, <1>11, <2>1, FinishedEffect
  <2>2. CASE Writes({AttemptFact(loop.attempt, rt.active, o, rt.cfg, t)})
    <3>1. \A f \in {AttemptFact(loop.attempt, rt.active, o, rt.cfg, t)} : Harmless(f)
      BY HarmlessFacts
    <3> QED
      BY <1>6, <1>11, <2>2, <3>1, FinishedEffect
  <2> QED
    BY <1>11, <2>1, <2>2, FinishedEffect
<1>12. ASSUME NEW n \in Batches, CommitCompletion(n)
       PROVE  Honoured
  BY <1>3, <1>12, CommitCompletionEffect
<1>13. CASE ContinueOrComplete
  BY <1>4, <1>13, ContinueOrCompleteEffect
<1>14. ASSUME NEW c \in Calls,
              RefuseCall(c) \/ InvokeTool(c)
                \/ \E s \in {"succeeded", "failed"}, v \in BOOLEAN : ToolReturns(c, s, v)
       PROVE  Honoured
  BY <1>4, <1>14, CallEffect, NothingWritten
<1>15. ASSUME NEW c \in Calls, MarkToolExecuting(c)
       PROVE  Honoured
  BY <1>4, <1>15, MarkToolExecutingEffect
<1>16. CASE CommitToolResults
  <2> DEFINE R == {ResultFact(c, agg.journal[c].run, loop.work[c]) : c \in Done(loop.work)}
             F == R \cup SteerMessages(rt.active)
  <2>1. rt' = rt
    BY <1>16, CommitToolResultsEffect
  <2>2. CASE Writes({}) /\ Steady
    BY <1>4, <2>1, <2>2
  <2>3. CASE /\ Writes(F)
             /\ \A c \in Done(loop.work) : loop.work[c] \in {"succeeded", "failed"}
             /\ \A c \in Calls : agg'.journal[c].status =
                  IF c \in Done(loop.work) THEN loop.work[c] ELSE agg.journal[c].status
    <3>1. \A f \in F : Harmless(f)
      BY <2>3, HarmlessFacts
    <3>2. NoMark
      BY <2>3 DEF NoMark
    <3>3. Writes(F)
      BY <2>3
    <3> HIDE DEF F
    <3> QED
      BY <2>1, <3>1, <3>2, <3>3, HonouredWhen
  <2> QED
    BY <1>16, <2>2, <2>3, CommitToolResultsEffect
<1>17. CASE FinishRun
  <2>1. CASE EndsHere
    <3>1. PICK o : /\ Writes({RunFact(rt.active, o, rt.cfg)}) /\ o # "completed"
                   /\ agg'.journal = agg.journal /\ rt'.active = None
      BY <2>1 DEF EndsHere, Stopped
    <3> DEFINE F == {RunFact(rt.active, o, rt.cfg)}
    <3>2. Writes(F) /\ \A f \in F : Harmless(f)
      BY <3>1, HarmlessFacts
    <3>3. NoMark
      BY <3>1 DEF NoMark
    <3> HIDE DEF F
    <3> QED
      BY <3>1, <3>2, <3>3, HonouredWhen
  <2>2. ~\E m, r : GoesOnWith(m, r)
    BY DEF GoesOnWith
  <2>3. CASE RecoversTo(agg, agg') /\ Stopped
    BY <1>5, <2>3 DEF Stopped
  <2>4. CASE agg' = agg /\ Stopped
    BY <1>2, <2>4, NothingWritten DEF Stopped, NoMark
  <2> QED
    BY <1>17, <2>1, <2>2, <2>3, <2>4, FinishRunEffect
<1>18. CASE Send
  BY <1>1, <1>4, <1>18, SendEffect DEF Arrived
<1>19. CASE SteerRun
  BY <1>4, <1>19, SteerRunEffect DEF Arrived
<1>20. ~RunPending
  BY <1>1 DEF RunPending
<1>21. CASE Cancel \/ Close
  BY <1>4, <1>21, StopEffect, NothingWritten
<1>22. ASSUME NEW m \in Inputs, DeleteQueued(m)
       PROVE  Honoured
  BY <1>4, <1>22, DeleteQueuedEffect
<1>23. ASSUME NEW m \in Inputs, NEW d \in ReclassifyTo, ReclassifyQueued(m, d)
       PROVE  Honoured
  BY <1>4, <1>23, ReclassifyQueuedEffect
<1>24. ASSUME NEW g \in Configs, UpdateModelConfig(g)
       PROVE  FALSE
  BY <1>1, <1>24, UpdateModelConfigEffect
<1>25. CASE FinishClose \/ Crash
  BY <1>2, <1>25, GoneEffect, NothingWritten DEF NoMark
<1>26. ~Resume
  BY <1>1, ResumeEffect
<1>27. CASE OtherSessionStarts
  BY <1>4, <1>27, NothingWritten DEF OtherSessionStarts
<1> QED
  BY <1>7, <1>8, <1>9, <1>10, <1>11, <1>12, <1>13, <1>14, <1>15, <1>16, <1>17, <1>18,
     <1>19, <1>20, <1>21, <1>22, <1>23, <1>24, <1>25, <1>26, <1>27
     DEF Next, LoopStep, Command
-----------------------------------------------------------------------------
(* The theorems.                                                           *)

\* What holds in every reachable state and every step keeps.
IInv == Shapes /\ ProposalLeft /\ ToolInv /\ RunInv /\ AttemptInv /\ InputInv

\* The invariant of the Runtime and its Session holds initially.
LEMMA Initially == Init => IInv
<1> SUFFICES ASSUME Init PROVE IInv
  OBVIOUS
<1>1. InputInv
  <2>1. agg.history = <<>> /\ agg.queue = <<>> /\ env.accepted = {} /\ env.deleted = {}
    BY InitShapes
  <2> QED
    BY <2>1 DEF InputInv, Placed, InQueue, HasMessage
<1>2. ToolInv
  BY InitShapes DEF ToolInv, RanAsMarked
<1>3. RunInv
  BY InitShapes DEF RunInv
<1>4. AttemptInv
  <2>1. agg.history = <<>> /\ loop.pc = "none"
    BY InitShapes
  <2> QED
    BY <2>1 DEF AttemptInv
<1> QED
  BY <1>1, <1>2, <1>3, <1>4, InitShapes DEF IInv

\* Every step keeps the invariant of the Runtime and its Session.
LEMMA Inductive == IInv /\ [Next]_vars => IInv'
<1> SUFFICES ASSUME IInv, [Next]_vars PROVE IInv'
  OBVIOUS
<1>1. CASE Next
  BY <1>1, ShapesStep, ProposalStep, ToolStep, RunStep, AttemptStep, InputStep DEF IInv
<1>2. CASE UNCHANGED vars
  BY <1>2 DEF vars, IInv, Shapes, ProposalLeft, ToolInv, RanAsMarked, RunInv, AttemptInv,
              InputInv, Placed, Canceled
<1> QED
  BY <1>1, <1>2

\* Every reachable state satisfies the inductive invariant of the Runtime and
\* its Session.
THEOREM Invariance == Spec => []IInv
BY Initially, Inductive, PTL DEF Spec

\* A Tool runs at most once per call, never before its execution mark is
\* durable, and success is reported only for a call that ran.
THEOREM OneRunPerCall == Spec => []ToolAtMostOnce
<1>1. IInv => ToolAtMostOnce
  BY DEF IInv, ToolInv, RanAsMarked, ToolAtMostOnce
<1> QED
  BY <1>1, Invariance, PTL

\* The Runtime works on the Run the Session names, idle and running together,
\* and while the Store works an attempt left open belongs to that Run.
THEOREM RuntimeAgreesWithStore == Spec => []Agreement
<1>1. IInv => Agreement
  <2> SUFFICES ASSUME IInv PROVE Agreement
    OBVIOUS
  <2>1. ASSUME env.faults = 0, NEW i \in DOMAIN agg.history,
               agg.history[i].kind = "attempt", agg.history[i].val = "started",
               Orphan(agg, agg.history[i].id)
        PROVE  Active(agg, agg.history[i].run)
    <3>1. OpenAttempt(agg.history, agg.history[i])
      BY <2>1 DEF OpenAttempt, StartsAttempt, Orphan
    <3>2. \/ /\ loop.pc = "stream"
             /\ agg.history[i].id = loop.attempt /\ agg.history[i].run = rt.active
          \/ loop.pc = "none" /\ Active(agg, agg.history[i].run)
      BY <2>1, <3>1 DEF IInv, AttemptInv
    <3>3. loop.pc = "stream" => Active(agg, rt.active)
      BY DEF IInv, RunInv
    <3> QED
      BY <3>2, <3>3
  <2>2. /\ rt.state = "idle" => agg.runState = "idle" /\ rt.active = None
        /\ rt.state = "running" =>
             Active(agg, rt.active) /\ RunFrozen(agg.history, rt.active, rt.cfg)
        /\ (rt.state = "running") <=> (loop.pc # "none")
    BY DEF IInv, RunInv
  <2> QED
    BY <2>1, <2>2 DEF Agreement
<1> QED
  BY <1>1, Invariance, PTL

\* An accepted input is never lost and never consumed twice.
THEOREM NoInputLost == Spec => []InputKept
<1>1. IInv => InputKept
  BY DEF IInv, InputInv, Placed, InputKept
<1> QED
  BY <1>1, Invariance, PTL

\* Once a cancellation was accepted the Run starts no attempt, passes no call
\* over its execution mark, does not complete and starts no successor.
THEOREM CancellationWins == Spec => CancelHonoured
<1>1. IInv /\ [Next]_vars =>
        [rt.active # None /\ Canceled =>
           /\ \A x \in Attempts : Orphan(agg', x) => Orphan(agg, x)
           /\ \A c \in Calls : agg'.journal[c].status = "pending" =>
                agg.journal[c].status = "pending"
           /\ \A i \in DOMAIN agg'.history \ DOMAIN agg.history :
                agg'.history[i].val # "completed"
           /\ rt'.active \in {rt.active, None}]_vars
  <2> SUFFICES ASSUME IInv, Next, rt.active # None, Canceled
               PROVE  Honoured
    BY DEF Honoured
  <2> QED
    BY CancelStep DEF IInv
<1> QED
  BY <1>1, Invariance, PTL DEF Spec, CancelHonoured

-----------------------------------------------------------------------------
(* What is durable stays a valid document.                                 *)

\* Every call belongs to a Run that has started.
CallsOfRuns(h) == \A i \in DOMAIN h : h[i].kind = "call" => RunHasStarted(h, h[i].run)

\* The active Run has started and not ended.
ActiveOpen(a) ==
  a.runState = "running" =>
    /\ \E g \in Configs : RunFrozen(a.history, a.activeRun, g)
    /\ ~RunHasEnded(a.history, a.activeRun)

\* What the Runtime finds and leaves in the Store.
Document(a) ==
  a \in Aggregate /\ Sound(a) /\ a.ext = <<>> /\ CallsOfRuns(a.history) /\ ActiveOpen(a)

NothingUnfinished(a) == \A c \in Calls : a.journal[c].status \notin Unfinished

\* b is sound and has the ExtensionJournal of a.
Kept(a, b) == b \in Aggregate /\ Sound(b) /\ b.ext = a.ext

\* Facts that end no Run and calls of started Runs keep a document a document.
LEMMA DocumentGrows ==
  ASSUME NEW a, Document(a), NEW b, Kept(a, b),
         b.runState = a.runState, b.activeRun = a.activeRun,
         NEW F, Grows(a.history, b.history, F),
         \A f \in F : /\ f.kind = "run" => f.val = "started"
                      /\ f.kind = "call" => RunHasStarted(a.history, f.run)
  PROVE  Document(b)
<1>1. a.history \in Seq(Fact) /\ b.history \in Seq(Fact)
  BY DEF Document, Kept, Aggregate
<1>2. /\ DOMAIN a.history = 1..Len(a.history) /\ DOMAIN b.history = 1..Len(b.history)
      /\ Len(a.history) \in Nat /\ Len(b.history) \in Nat
  BY <1>1
<1>3. /\ \A i \in DOMAIN a.history : i \in DOMAIN b.history /\ b.history[i] = a.history[i]
      /\ \A i \in DOMAIN b.history : \/ i \in DOMAIN a.history /\ b.history[i] = a.history[i]
                                     \/ b.history[i] \in F
  BY <1>2 DEF Grows
<1>4. \A r : RunHasStarted(a.history, r) => RunHasStarted(b.history, r)
  BY <1>3 DEF RunHasStarted
<1>5. CallsOfRuns(b.history)
  BY <1>3, <1>4 DEF CallsOfRuns, Document
<1>6. \A r, g : RunFrozen(a.history, r, g) => RunFrozen(b.history, r, g)
  BY <1>3 DEF RunFrozen
<1>7. \A r : RunHasEnded(b.history, r) => RunHasEnded(a.history, r)
  BY <1>3 DEF RunHasEnded
<1>8. ActiveOpen(b)
  BY <1>6, <1>7 DEF ActiveOpen, Document
<1> QED
  BY <1>5, <1>8 DEF Document, Kept

\* A fact that is neither a call nor a result.
LEMMA FactKept ==
  ASSUME NEW a \in Aggregate, Sound(a), NEW f \in Fact, Admissible(a.history, f),
         f.kind \notin {"call", "result"}
  PROVE  /\ Kept(a, With(a, f)) /\ With(a, f).history = Append(a.history, f)
         /\ With(a, f).queue = a.queue /\ With(a, f).journal = a.journal
         /\ With(a, f).runState = a.runState /\ With(a, f).activeRun = a.activeRun
BY PlainFact, WithFields DEF Kept

\* Another Queue of unique inputs.
LEMMA QueueKept ==
  ASSUME NEW a \in Aggregate, Sound(a), NEW q \in Seq(QueueItem), QueueUnique(q)
  PROVE  Kept(a, [a EXCEPT !.queue = q])
<1>1. [a EXCEPT !.queue = q].ext = a.ext
  BY DEF Aggregate
<1> QED
  BY <1>1, QueueOnly DEF Kept

\* The message an input becomes.
LEMMA UserMessageIs ==
  ASSUME NEW m \in Messages, NEW r \in Runs
  PROVE  /\ UserMessage(m, r) \in Fact
         /\ UserMessage(m, r).kind = "message" /\ UserMessage(m, r).id = m
BY DEF UserMessage, FactOf, Fact, FactKinds, FactIds

\* An input becomes a message of its Run.
LEMMA TakeInputKept ==
  ASSUME NEW a \in Aggregate, Sound(a), NEW m \in Messages, NEW r \in Runs,
         CanTakeInput(a, m, r)
  PROVE  Kept(a, TakeInput(a, m, r))
<1> DEFINE b == Claim(a, m, r)
           c == Consume(b, m)
           f == UserMessage(m, r)
<1>1. b \in Aggregate /\ Sound(b)
  BY ClaimSound
<1>2. b.history = a.history /\ b.ext = a.ext
  BY DEF Claim, Aggregate
<1>3. InQueue(b.queue, m)
  BY DEF CanTakeInput, CanClaim, Unclaimed, Claim, InQueue, Aggregate
<1> HIDE DEF b
<1>4. c \in Aggregate /\ Sound(c) /\ c.history = a.history /\ c.ext = a.ext
  <2>1. c = [b EXCEPT !.queue = WithoutItem(b.queue, m)]
    BY <1>1 DEF Consume, Aggregate
  <2> HIDE DEF c
  <2>2. c.history = b.history /\ c.ext = b.ext
    BY <1>1, <2>1 DEF Aggregate
  <2> QED
    BY <1>1, <1>2, <1>3, <2>1, <2>2, WithoutSound
<1> HIDE DEF c
<1>5. f \in Fact /\ f.kind = "message" /\ f.id = m
  BY UserMessageIs
<1>6. Admissible(c.history, f) /\ f.kind \notin {"call", "result"}
  BY <1>4, <1>5 DEF Admissible, CanTakeInput, CanAppendMessage
<1>7. TakeInput(a, m, r) = With(c, f)
  BY DEF TakeInput, AppendMessage, Log, With, UserMessage, b, c
<1> HIDE DEF f
<1>8. Kept(c, With(c, f))
  BY <1>4, <1>5, <1>6, FactKept
<1> QED
  BY <1>4, <1>7, <1>8 DEF Kept

\* An idle Session has no unfinished call.
LEMMA IdleMeans ==
  ASSUME NEW a, Sound(a), a.runState = "idle"
  PROVE  NothingUnfinished(a)
BY DEF Sound, JournalValid, Active, NothingUnfinished

\* The Run starts in an idle Session.
LEMMA BeginKept ==
  ASSUME NEW a \in Aggregate, Sound(a), NEW m \in Messages, NEW r \in Runs, CanBegin(a, m, r)
  PROVE  Kept(a, Begin(a, m, r))
<1> DEFINE b == SetRunning(a, r)
           f == RunFact(r, "started", a.config)
           c == With(b, f)
<1>1. b \in Aggregate /\ Sound(b) /\ b.history = a.history /\ b.ext = a.ext
  <2>1. NothingUnfinished(a)
    BY IdleMeans DEF CanBegin, CanSetRunning
  <2>2. b.history = a.history /\ b.ext = a.ext
    BY DEF SetRunning, Aggregate
  <2> QED
    BY <2>1, <2>2, RunStateSound DEF NothingUnfinished
<1>2. f \in Fact /\ f.kind = "run" /\ f.val = "started" /\ f.id = r
  <2>1. a.config \in Configs
    BY DEF Aggregate
  <2> QED
    BY <2>1 DEF RunFact, FactOf, Fact, FactKinds, FactIds
<1>3. StartRun(b, r, a.config) = c
  BY DEF StartRun, Log, With, RunFact
<1>4. ~RunHasStarted(b.history, r) /\ CanTakeInput(c, m, r)
  BY <1>3 DEF CanBegin, CanStartRun
<1> HIDE DEF b, f
<1>5. Admissible(b.history, f) /\ f.kind \notin {"call", "result"}
  BY <1>2, <1>4 DEF Admissible
<1>6. Kept(b, c)
  BY <1>1, <1>2, <1>5, FactKept
<1> HIDE DEF c
<1>7. Kept(c, TakeInput(c, m, r))
  BY <1>4, <1>6, TakeInputKept DEF Kept
<1>8. Begin(a, m, r) = TakeInput(c, m, r)
  BY <1>3 DEF Begin, b
<1> QED
  BY <1>1, <1>6, <1>7, <1>8 DEF Kept

\* No position is taken twice.
LEMMA NthOnce ==
  ASSUME NEW P \in SUBSET Int, IsFiniteSet(P), NEW i \in 1..Cardinality(P),
         NEW j \in 1..Cardinality(P), Nth(P, i) = Nth(P, j)
  PROVE  i = j
<1>1. i < j => Nth(P, i) < Nth(P, j)
  BY NthIncreases
<1>2. j < i => Nth(P, j) < Nth(P, i)
  BY NthIncreases
<1>3. Nth(P, i) \in Int
  BY NthIs
<1>4. i \in Int /\ j \in Int
  BY FS_CardinalityType
<1> QED
  BY <1>1, <1>2, <1>3, <1>4

\* The steers that wait become messages of the Run, in the order of the Queue.
LEMMA TakeSteersKept ==
  ASSUME NEW a \in Aggregate, Sound(a), NEW r \in Runs, QueueOK(a.queue),
         \A p \in Steering(a) : ~HasMessage(a.history, a.queue[p].id)
  PROVE  Kept(a, TakeSteers(a, r))
<1> DEFINE q == a.queue
           s == Steers(a)
           g == [i \in DOMAIN s |-> UserMessage(s[i].id, r)]
           k == Selection(q, DOMAIN q \ Steering(a))
           b == [a EXCEPT !.history = a.history \o g]
<1>1. /\ TakeSteers(a, r) = [b EXCEPT !.queue = k] /\ b.ext = a.ext
  BY DEF TakeSteers, UserMessage, Aggregate
<1>2. Steering(a) \in SUBSET DOMAIN q /\ q \in Seq(QueueItem)
  BY DEF Steering, QueueOK
<1>3. /\ s \in Seq(QueueItem) /\ DOMAIN s = 1..Cardinality(Steering(a))
      /\ IsFiniteSet(Steering(a)) /\ Steering(a) \in SUBSET Int /\ Cardinality(Steering(a)) \in Nat
      /\ \A i \in DOMAIN s : Nth(Steering(a), i) \in Steering(a) /\ s[i] = q[Nth(Steering(a), i)]
  <2>1. s = Selection(q, Steering(a))
    BY DEF Steers
  <2> HIDE DEF s, q
  <2>2. /\ IsFiniteSet(Steering(a)) /\ Steering(a) \in SUBSET Int /\ Cardinality(Steering(a)) \in Nat
        /\ Selection(q, Steering(a)) \in Seq(QueueItem)
        /\ Len(Selection(q, Steering(a))) = Cardinality(Steering(a))
        /\ \A i \in 1..Cardinality(Steering(a)) :
             /\ Nth(Steering(a), i) \in Steering(a)
             /\ Selection(q, Steering(a))[i] = q[Nth(Steering(a), i)]
    BY <1>2, SelectionIs
  <2>3. DOMAIN s = 1..Cardinality(Steering(a))
    BY <2>1, <2>2
  <2> QED
    BY <2>1, <2>2, <2>3
<1> HIDE DEF s
<1>4. \A i, j \in DOMAIN s : s[i].id = s[j].id => i = j
  <2> SUFFICES ASSUME NEW i \in DOMAIN s, NEW j \in DOMAIN s, s[i].id = s[j].id PROVE i = j
    OBVIOUS
  <2>1. i \in 1..Cardinality(Steering(a)) /\ j \in 1..Cardinality(Steering(a))
    BY <1>3
  <2>2. Nth(Steering(a), i) = Nth(Steering(a), j)
    BY <1>2, <1>3 DEF QueueOK
  <2> QED
    BY <1>3, <2>1, <2>2, NthOnce
<1>5. \A i \in DOMAIN s : /\ UserMessage(s[i].id, r) \in Fact /\ g[i] = UserMessage(s[i].id, r)
                          /\ g[i].kind = "message" /\ g[i].id = s[i].id
                          /\ ~HasMessage(a.history, g[i].id)
  <2> SUFFICES ASSUME NEW i \in DOMAIN s
               PROVE  /\ UserMessage(s[i].id, r) \in Fact
                      /\ ~HasMessage(a.history, s[i].id)
    BY DEF UserMessage, FactOf
  <2>1. s[i] \in QueueItem
    BY <1>3
  <2>2. s[i].id \in Messages
    BY <2>1 DEF QueueItem
  <2>3. UserMessage(s[i].id, r) \in Fact
    BY <2>2, UserMessageIs
  <2> QED
    BY <1>3, <2>3
<1>6. g \in Seq(Fact) /\ DOMAIN g = DOMAIN s
  <2>1. g \in [DOMAIN s -> Fact]
    BY <1>5, Zenon
  <2> HIDE DEF g
  <2>2. DOMAIN g = DOMAIN s /\ g \in [1..Cardinality(Steering(a)) -> Fact]
    BY <1>3, <2>1
  <2> QED
    BY <1>3, <2>2, SeqByIndex
<1> HIDE DEF g, q
<1>7. IsBatch(a.history, g, "message")
  <2>1. \A i \in DOMAIN g : Admissible(a.history, g[i]) /\ g[i].kind = "message"
    BY <1>5, <1>6 DEF Admissible
  <2>2. \A i, j \in DOMAIN g : g[i].id = g[j].id => i = j
    BY <1>4, <1>5, <1>6
  <2> QED
    BY <2>1, <2>2 DEF IsBatch
<1>8. b \in Aggregate /\ Sound(b)
  BY <1>6, <1>7, PlainBatchSound
<1>9. k \in Seq(QueueItem) /\ QueueUnique(k)
  <2>1. QueueOK(k)
    BY SelectedQueue DEF q
  <2> QED
    BY <2>1 DEF QueueOK, QueueUnique
<1> HIDE DEF b, k
<1>10. Kept(b, [b EXCEPT !.queue = k])
  BY <1>8, <1>9, QueueKept
<1> QED
  BY <1>1, <1>10 DEF Kept

\* Steers are held for the user.
LEMMA HoldSteersKept ==
  ASSUME NEW a \in Aggregate, Sound(a)
  PROVE  Kept(a, HoldSteers(a))
<1> DEFINE q == [i \in DOMAIN a.queue |->
                   IF Steer(a.queue[i]) THEN [a.queue[i] EXCEPT !.delivery = "held"] ELSE a.queue[i]]
<1>1. HoldSteers(a) = [a EXCEPT !.queue = q]
  BY DEF HoldSteers, Aggregate
<1>2. /\ a.queue \in Seq(QueueItem) /\ DOMAIN a.queue = 1..Len(a.queue)
      /\ Len(a.queue) \in Nat /\ \A i \in DOMAIN a.queue : a.queue[i] \in QueueItem
  BY DEF Aggregate
<1>3. \A i \in DOMAIN a.queue : q[i] \in QueueItem /\ q[i].id = a.queue[i].id
  BY <1>2 DEF QueueItem, Deliveries
<1>4. q \in [1..Len(a.queue) -> QueueItem]
  BY <1>2, <1>3
<1>5. q \in Seq(QueueItem) /\ DOMAIN q = DOMAIN a.queue
  BY <1>2, <1>4, SeqByIndex
<1> HIDE DEF q
<1>6. QueueUnique(q)
  BY <1>3, <1>5 DEF QueueUnique, Sound
<1> QED
  BY <1>1, <1>5, <1>6, QueueKept

\* A Run ends when none of its calls is unfinished.
LEMMA EndKept ==
  ASSUME NEW a \in Aggregate, Sound(a), NothingUnfinished(a), NEW r \in Runs, NEW g \in Configs,
         NEW o \in RunEnds, CanEndRun(a, r, g)
  PROVE  Kept(a, SetIdle(EndRun(a, r, g, o)))
<1> DEFINE f == RunFact(r, o, g)
           b == With(a, f)
<1>1. f \in Fact /\ f.kind = "run" /\ f.val = o /\ f.id = r /\ f.cfg = g
  BY DEF RunFact, FactOf, Fact, FactKinds, FactIds
<1>2. EndRun(a, r, g, o) = b
  BY DEF EndRun, Log, With, RunFact
<1> HIDE DEF f
<1>3. Admissible(a.history, f) /\ f.kind \notin {"call", "result"}
  BY <1>1 DEF Admissible, CanEndRun, RunEnds
<1>4. Kept(a, b) /\ b.journal = a.journal
  BY <1>1, <1>3, FactKept
<1> HIDE DEF b
<1>5. SetIdle(b) \in Aggregate /\ Sound(SetIdle(b))
  BY <1>4, RunStateSound DEF NothingUnfinished, Kept
<1>6. SetIdle(b).ext = b.ext
  BY <1>4 DEF SetIdle, Kept, Aggregate
<1> QED
  BY <1>2, <1>4, <1>5, <1>6 DEF Kept

\* A limit is recorded inside its Run.
LEMMA ReachLimitKept ==
  ASSUME NEW a, Document(a), NEW r \in Runs, NEW what \in LimitKinds, NEW used \in Nat,
         CanReachLimit(a, r, what, used)
  PROVE  Kept(a, ReachLimit(a, r, what, used))
<1> DEFINE f == FactOf("limit", None, r, None, what, None, used)
<1>1. f \in Fact /\ f.kind = "limit" /\ f.run = r /\ f.id = None
  BY DEF FactOf, Fact, FactKinds, FactIds
<1>2. ReachLimit(a, r, what, used) = With(a, f)
  BY DEF ReachLimit, Log, With
<1>3. RunHasStarted(a.history, r) /\ ~RunHasEnded(a.history, r)
  BY DEF CanReachLimit, Active, Document, ActiveOpen, RunFrozen, RunHasStarted
<1> HIDE DEF f
<1>4. Admissible(a.history, f) /\ f.kind \notin {"call", "result"}
  BY <1>1, <1>3 DEF Admissible, CanReachLimit, LimitReached
<1> QED
  BY <1>1, <1>2, <1>4, FactKept DEF Document

\* An attempt starts inside its Run.
LEMMA StartAttemptKept ==
  ASSUME NEW a, Document(a), NEW x \in Attempts, NEW r \in Runs, NEW g \in Configs,
         CanStartAttempt(a, x, r, g)
  PROVE  Kept(a, StartAttempt(a, x, r, g))
<1> DEFINE f == AttemptFact(x, r, "started", g, 0)
<1>1. /\ f \in Fact /\ f.kind = "attempt" /\ f.run = r /\ f.id = x /\ f.cfg = g
      /\ f.val = "started"
  BY DEF AttemptFact, FactOf, Fact, FactKinds, FactIds
<1>2. StartAttempt(a, x, r, g) = With(a, f)
  BY DEF StartAttempt, Log, With, AttemptFact
<1>3. RunFrozen(a.history, r, g) /\ ~RunHasEnded(a.history, r)
  BY DEF CanStartAttempt, Active, Document, ActiveOpen
<1> HIDE DEF f
<1>4. Admissible(a.history, f) /\ f.kind \notin {"call", "result"}
  BY <1>1, <1>3 DEF Admissible, CanStartAttempt
<1> QED
  BY <1>1, <1>2, <1>4, FactKept DEF Document

\* A new model configuration.
LEMMA SetModelConfigKept ==
  ASSUME NEW a \in Aggregate, Sound(a), NEW g \in Configs
  PROVE  Kept(a, SetModelConfig(a, g))
<1> DEFINE f == FactOf("config", None, None, None, "none", g, 0)
           b == With(a, f)
<1>1. f \in Fact /\ f.kind = "config"
  BY DEF FactOf, Fact, FactKinds, FactIds
<1>2. SetModelConfig(a, g) = [b EXCEPT !.config = g]
  BY DEF SetModelConfig, Log, With
<1> HIDE DEF f
<1>3. Admissible(a.history, f) /\ f.kind \notin {"call", "result"}
  BY <1>1 DEF Admissible
<1>4. Kept(a, b)
  BY <1>1, <1>3, FactKept
<1> DEFINE c == [b EXCEPT !.config = g]
<1> HIDE DEF b
<1>5. /\ c \in Aggregate /\ c.ext = b.ext /\ c.queue = b.queue /\ c.journal = b.journal
      /\ c.history = b.history /\ c.runState = b.runState /\ c.activeRun = b.activeRun
      /\ c.ctx = b.ctx /\ c.retained = b.retained
  BY <1>4 DEF Kept, Aggregate
<1> HIDE DEF c
<1>6. Sound(c)
  BY <1>4, <1>5 DEF Kept, Sound, RunStateValid, JournalValid, ContextValid, ExtensionsValid, Active
<1> QED
  BY <1>2, <1>4, <1>5, <1>6 DEF Kept, c

\* The order of a set of calls names each of them once.
LEMMA CallsInOrder ==
  ASSUME NEW S \in SUBSET Calls
  PROVE  /\ IsFiniteSet(S) /\ SetToSeq(S) \in Seq(S) /\ Cardinality(S) \in Nat
         /\ DOMAIN SetToSeq(S) = 1..Cardinality(S)
         /\ \A i \in DOMAIN SetToSeq(S) : SetToSeq(S)[i] \in S
         /\ \A i, j \in DOMAIN SetToSeq(S) : SetToSeq(S)[i] = SetToSeq(S)[j] => i = j
         /\ \A c \in S : \E i \in DOMAIN SetToSeq(S) : SetToSeq(S)[i] = c
<1>1. IsFiniteSet(S)
  BY FS_Subset, RuntimeAssumption DEF RuntimeAssumption
<1>2. Cardinality(S) \in Nat /\ ExistsBijection(1..Cardinality(S), S)
  BY <1>1, FS_CardinalityType
<1>3. PICK f : f \in Bijection(1..Cardinality(S), S)
  BY <1>2 DEF ExistsBijection
<1>4. f \in [1..Cardinality(S) -> S] /\ \A i, j \in DOMAIN f : f[i] = f[j] => i = j
  BY <1>3 DEF Bijection, Injection, IsInjective
<1>5. SetToSeq(S) \in [1..Cardinality(S) -> S] /\ IsInjective(SetToSeq(S))
  BY <1>4 DEF SetToSeq, IsInjective
<1>6. /\ SetToSeq(S) \in Seq(S) /\ \A c \in S : \E i \in 1..Cardinality(S) : SetToSeq(S)[i] = c
  BY <1>1, SetToSeqIs
<1> QED
  BY <1>1, <1>2, <1>5, <1>6 DEF IsInjective

\* A sequence of facts, one for each call of a set.
LEMMA FactsInOrder ==
  ASSUME NEW S \in SUBSET Calls, NEW f \in [S -> Fact], \A c \in S : f[c].id = c, NEW g,
         g = [i \in DOMAIN SetToSeq(S) |-> f[SetToSeq(S)[i]]]
  PROVE  /\ g \in Seq(Fact)
         /\ \A i \in DOMAIN g : g[i].id \in S /\ g[i] = f[g[i].id]
         /\ \A i, k \in DOMAIN g : g[i].id = g[k].id => i = k
         /\ \A c \in S : \E i \in DOMAIN g : g[i].id = c
<1> DEFINE s == SetToSeq(S)
<1>1. /\ Cardinality(S) \in Nat /\ DOMAIN s = 1..Cardinality(S)
      /\ \A i \in DOMAIN s : s[i] \in S
      /\ \A i, j \in DOMAIN s : s[i] = s[j] => i = j
      /\ \A c \in S : \E i \in DOMAIN s : s[i] = c
  BY CallsInOrder
<1>2. g = [i \in DOMAIN s |-> f[s[i]]]
  OBVIOUS
<1> HIDE DEF s
<1>3. g \in [1..Cardinality(S) -> Fact]
  BY <1>1, <1>2
<1>4. g \in Seq(Fact) /\ DOMAIN g = DOMAIN s
  BY <1>1, <1>3, SeqByIndex
<1>5. \A i \in DOMAIN g : g[i] = f[s[i]] /\ g[i].id = s[i]
  BY <1>1, <1>2, <1>4
<1> QED
  BY <1>1, <1>4, <1>5

\* An answer and its new calls, prepared.
LEMMA AnsweredKept ==
  ASSUME NEW a \in Aggregate, Sound(a), NEW m \in Messages, NEW r \in Runs, Active(a, r),
         NEW S \in SUBSET Calls, CanAppendMessage(a, m), \A c \in S : ~HasCall(a.history, c)
  PROVE  Kept(a, Answered(a, m, r, S))
<1> DEFINE t == AnswerMessage(m, r)
           b == With(a, t)
           f == [c \in S |-> CallFact(c, r, m)]
           g == [i \in DOMAIN SetToSeq(S) |-> f[SetToSeq(S)[i]]]
           j == [c \in Calls |-> IF c \in S THEN [status |-> "prepared", run |-> r]
                                 ELSE a.journal[c]]
<1>1. t \in Fact /\ t.kind = "message" /\ t.id = m /\ t.val = "assistant" /\ t.run = r
  BY DEF AnswerMessage, FactOf, Fact, FactKinds, FactIds
<1>2. AppendMessage(a, m, r, "assistant") = b
  BY DEF AppendMessage, Log, With, AnswerMessage
<1> HIDE DEF t
<1>3. Admissible(a.history, t) /\ t.kind \notin {"call", "result"}
  BY <1>1 DEF Admissible, CanAppendMessage
<1>4. /\ Kept(a, b) /\ b.history = Append(a.history, t) /\ b.journal = a.journal
      /\ b.runState = a.runState /\ b.activeRun = a.activeRun
  BY <1>1, <1>3, FactKept
<1>5. Answered(a, m, r, S) = WithBatch(b, g, j)
  <2>1. \A i \in DOMAIN SetToSeq(S) :
          f[SetToSeq(S)[i]] = FactOf("call", SetToSeq(S)[i], r, m, "none", None, 0)
    BY CallsInOrder DEF CallFact
  <2>2. g = [i \in DOMAIN SetToSeq(S) |-> FactOf("call", SetToSeq(S)[i], r, m, "none", None, 0)]
    BY <2>1
  <2>3. b.journal = a.journal /\ b \in Aggregate
    BY <1>4 DEF Kept
  <2> HIDE DEF f, b
  <2> QED
    BY <1>2, <2>2, <2>3 DEF Answered, WithBatch, Aggregate
<1>6. f \in [S -> Fact] /\ \A c \in S : f[c].id = c /\ f[c] = CallFact(c, r, m)
  BY DEF CallFact, FactOf, Fact, FactKinds, FactIds
<1>7. j \in [Calls -> JournalEntry] /\ \A c \in S : j[c].status \in Unfinished /\ j[c].run = r
  <2>1. a.journal \in [Calls -> JournalEntry]
    BY DEF Aggregate
  <2> QED
    BY <2>1 DEF JournalEntry, Unfinished
<1>8. \A c \in Calls \ S : j[c] = b.journal[c]
  BY <1>4
<1> HIDE DEF b, f, j
<1>9. /\ g \in Seq(Fact)
      /\ \A i \in DOMAIN g : g[i].id \in S /\ g[i] = f[g[i].id]
      /\ \A i, k \in DOMAIN g : g[i].id = g[k].id => i = k
      /\ \A c \in S : \E i \in DOMAIN g : g[i].id = c
  BY <1>6, FactsInOrder
<1> HIDE DEF g
<1>10. \A c \in S : ~HasCall(b.history, c)
  <2>1. a.history \in Seq(Fact)
    BY DEF Aggregate
  <2>2. \A c : HasCall(Append(a.history, t), c) <=> HasCall(a.history, c)
    BY <1>1, <2>1, Monotone
  <2> QED
    BY <1>4, <2>2
<1>11. \E k \in DOMAIN b.history :
         /\ b.history[k].kind = "message" /\ b.history[k].id = m
         /\ b.history[k].val = "assistant" /\ b.history[k].run = r
  <2>1. a.history \in Seq(Fact)
    BY DEF Aggregate
  <2>2. b.history[Len(a.history) + 1] = t /\ Len(a.history) + 1 \in DOMAIN b.history
    BY <1>1, <1>4, <2>1, AppendFacts
  <2> QED
    BY <1>1, <2>2
<1>12. ASSUME NEW i \in DOMAIN g
       PROVE  g[i].kind = "call" /\ g[i].id \in S /\ Admissible(b.history, g[i])
  <2> DEFINE d == g[i].id
  <2>1. d \in S /\ g[i] = CallFact(d, r, m)
    BY <1>6, <1>9
  <2>2. g[i].kind = "call" /\ g[i].ref = m /\ g[i].run = r
    BY <2>1 DEF CallFact, FactOf
  <2> QED
    BY <1>10, <1>11, <2>1, <2>2 DEF Admissible
<1>13. Active(b, r) /\ b \in Aggregate /\ Sound(b)
  BY <1>4 DEF Active, Kept
<1>14. WithBatch(b, g, j) \in Aggregate /\ Sound(WithBatch(b, g, j))
  BY <1>7, <1>8, <1>9, <1>12, <1>13, CallBatchSound
<1>15. WithBatch(b, g, j).ext = b.ext
  BY <1>7, <1>9, <1>13, WithBatchFields
<1> QED
  BY <1>4, <1>5, <1>14, <1>15 DEF Kept

\* The results of a batch and the entries of its calls.
LEMMA SettledKept ==
  ASSUME NEW a \in Aggregate, Sound(a), NEW work,
         \A c \in Done(work) : /\ a.journal[c].status \in Unfinished
                               /\ work[c] \in {"succeeded", "failed"}
  PROVE  Kept(a, Settled(a, work))
<1> DEFINE S == Done(work)
           f == [c \in S |-> ResultFact(c, a.journal[c].run, work[c])]
           g == [i \in DOMAIN SetToSeq(S) |-> f[SetToSeq(S)[i]]]
           j == [c \in Calls |-> IF c \in S THEN [a.journal[c] EXCEPT !.status = work[c]]
                                 ELSE a.journal[c]]
<1>1. S \in SUBSET Calls /\ a.journal \in [Calls -> JournalEntry]
  BY DEF Done, Aggregate
<1>2. \A c \in Calls : a.journal[c] \in JournalEntry
  BY <1>1
<1>3. Settled(a, work) = WithBatch(a, g, j)
  <2>1. \A i \in DOMAIN SetToSeq(S) :
          f[SetToSeq(S)[i]] = FactOf("result", SetToSeq(S)[i], a.journal[SetToSeq(S)[i]].run, None,
                                     work[SetToSeq(S)[i]], None, 0)
    BY <1>1, CallsInOrder DEF ResultFact
  <2>2. g = [i \in DOMAIN SetToSeq(S) |->
               FactOf("result", SetToSeq(S)[i], a.journal[SetToSeq(S)[i]].run, None,
                      work[SetToSeq(S)[i]], None, 0)]
    BY <2>1
  <2>3. S = {c \in Calls : work[c] # "none"}
    BY DEF Done
  <2> HIDE DEF f, S
  <2> QED
    BY <2>2, <2>3 DEF Settled, WithBatch, Aggregate
<1>4. f \in [S -> Fact] /\ \A c \in S : /\ f[c].id = c /\ f[c].kind = "result"
                                        /\ f[c].val = work[c]
  <2>1. \A c \in S : ResultFact(c, a.journal[c].run, work[c]) \in Fact
    <3> SUFFICES ASSUME NEW c \in S PROVE ResultFact(c, a.journal[c].run, work[c]) \in Fact
      OBVIOUS
    <3>1. a.journal[c].run \in Runs \cup {None} /\ c \in Calls /\ work[c] \in {"succeeded", "failed"}
      BY <1>1, <1>2 DEF JournalEntry
    <3> QED
      BY <3>1 DEF ResultFact, FactOf, Fact, FactKinds, FactIds, JournalTerminal
  <2> QED
    BY <2>1 DEF ResultFact, FactOf
<1>5. /\ j \in [Calls -> JournalEntry]
      /\ \A c \in S : j[c].status = work[c] /\ j[c].status \in JournalTerminal
      /\ \A c \in Calls \ S : j[c] = a.journal[c]
  BY <1>1, <1>2 DEF JournalEntry, JournalTerminal
<1> HIDE DEF f, j, S
<1>6. /\ g \in Seq(Fact)
      /\ \A i \in DOMAIN g : g[i].id \in S /\ g[i] = f[g[i].id]
      /\ \A i, k \in DOMAIN g : g[i].id = g[k].id => i = k
      /\ \A c \in S : \E i \in DOMAIN g : g[i].id = c
  BY <1>1, <1>4, FactsInOrder
<1> HIDE DEF g
<1>7. \A i \in DOMAIN g : g[i].kind = "result" /\ g[i].id \in S /\ g[i].val = j[g[i].id].status
  BY <1>4, <1>5, <1>6
<1>8. WithBatch(a, g, j) \in Aggregate /\ Sound(WithBatch(a, g, j))
  <2>1. \A c \in S : a.journal[c].status \in Unfinished
    BY DEF S
  <2> QED
    BY <1>1, <1>5, <1>6, <1>7, <2>1, ResultBatchSound
<1>9. WithBatch(a, g, j).ext = a.ext
  BY <1>5, <1>6, WithBatchFields
<1> QED
  BY <1>3, <1>8, <1>9 DEF Kept

-----------------------------------------------------------------------------
(* What Recover makes of a document.                                       *)

\* Attempts without an end get one.
LEMMA RecoverAttemptsKept ==
  ASSUME NEW a \in Aggregate, Sound(a)
  PROVE  Kept(a, RecoverAttempts(a))
<1> DEFINE h == a.history
           P == Unended(h)
           lost == Selection(h, P)
           g == [i \in DOMAIN lost |-> LostAttempt(lost[i])]
           b == [a EXCEPT !.history = a.history \o g]
<1>1. RecoverAttempts(a) = b
  BY DEF RecoverAttempts, LostAttempt, Aggregate
<1>2. h \in Seq(Fact) /\ P \in SUBSET DOMAIN h /\ h = a.history
  BY DEF Aggregate, Unended
<1>3. \A p \in P : /\ h[p].kind = "attempt" /\ h[p].val = "started"
                   /\ ~AttemptHasEnded(h, h[p].id)
  BY DEF Unended
<1>4. \A p, q \in P : h[p].id = h[q].id => p = q
  <2>1. AttemptsPaired(h)
    BY DEF Sound, HistoryValid
  <2> HIDE DEF h
  <2> QED
    BY <1>2, <1>3, <2>1 DEF AttemptsPaired
<1> HIDE DEF P, h
<1>5. /\ IsFiniteSet(P) /\ P \in SUBSET Int /\ Cardinality(P) \in Nat
      /\ DOMAIN lost = 1..Cardinality(P)
      /\ \A i \in DOMAIN lost : Nth(P, i) \in P /\ lost[i] = h[Nth(P, i)] /\ lost[i] \in Fact
  <2>1. /\ IsFiniteSet(P) /\ P \in SUBSET Int /\ Cardinality(P) \in Nat
        /\ lost \in Seq(Fact) /\ Len(lost) = Cardinality(P)
        /\ \A i \in 1..Cardinality(P) : Nth(P, i) \in P /\ lost[i] = h[Nth(P, i)]
    BY <1>2, SelectionIs
  <2> HIDE DEF lost
  <2> QED
    BY <2>1
<1> HIDE DEF lost
<1>6. \A i, j \in DOMAIN lost : lost[i].id = lost[j].id => i = j
  <2> SUFFICES ASSUME NEW i \in DOMAIN lost, NEW j \in DOMAIN lost, lost[i].id = lost[j].id
               PROVE  i = j
    OBVIOUS
  <2>1. Nth(P, i) = Nth(P, j)
    BY <1>4, <1>5
  <2>2. i \in 1..Cardinality(P) /\ j \in 1..Cardinality(P)
    BY <1>5
  <2> QED
    BY <1>5, <2>1, <2>2, NthOnce
<1>7. ASSUME NEW i \in DOMAIN lost
      PROVE  /\ LostAttempt(lost[i]) \in Fact /\ LostAttempt(lost[i]).id = lost[i].id
             /\ LostAttempt(lost[i]).kind = "attempt" /\ LostAttempt(lost[i]).val # "started"
             /\ Admissible(h, LostAttempt(lost[i]))
  <2> DEFINE x == lost[i]
             n == LostAttempt(x)
  <2>1. x \in Fact /\ x.kind = "attempt" /\ x.val = "started" /\ ~AttemptHasEnded(h, x.id)
        /\ \E p \in DOMAIN h : h[p] = x
    BY <1>2, <1>3, <1>5
  <2> HIDE DEF x
  <2>2. /\ n \in Fact /\ n.id = x.id /\ n.kind = "attempt" /\ n.val = "outcome_unknown"
        /\ n.run = x.run /\ n.cfg = x.cfg
    BY <2>1 DEF LostAttempt, FactOf, Fact, AttemptEnds
  <2>3. AttemptOf(h, x.id, x.run, x.cfg)
    BY <2>1 DEF AttemptOf
  <2> HIDE DEF n
  <2>4. Admissible(h, n)
    BY <2>1, <2>2, <2>3 DEF Admissible
  <2> QED
    BY <2>2, <2>4 DEF x, n
<1>8. g \in Seq(Fact) /\ DOMAIN g = DOMAIN lost
  <2>1. g \in [DOMAIN lost -> Fact]
    BY <1>7, Zenon
  <2> HIDE DEF g
  <2>2. DOMAIN g = DOMAIN lost /\ g \in [1..Cardinality(P) -> Fact]
    BY <1>5, <2>1
  <2> QED
    BY <1>5, <2>2, SeqByIndex
<1>9. \A i \in DOMAIN lost : g[i] = LostAttempt(lost[i])
  OBVIOUS
<1> HIDE DEF g
<1>10. IsBatch(h, g, "attempt")
  <2>1. \A i \in DOMAIN g : Admissible(h, g[i]) /\ g[i].kind = "attempt" /\ g[i].val # "started"
    BY <1>7, <1>8, <1>9
  <2>2. \A i, j \in DOMAIN g : g[i].id = g[j].id => i = j
    BY <1>6, <1>7, <1>8, <1>9
  <2> QED
    BY <2>1, <2>2 DEF IsBatch
<1>11. b \in Aggregate /\ Sound(b)
  BY <1>2, <1>8, <1>10, PlainBatchSound
<1>12. b.ext = a.ext
  BY DEF Aggregate
<1> QED
  BY <1>1, <1>11, <1>12 DEF Kept

\* Calls that were inside their Tool get an unknown outcome.
LEMMA RecoverCallsKept ==
  ASSUME NEW a \in Aggregate, Sound(a)
  PROVE  Kept(a, RecoverCalls(a))
<1> DEFINE S == {c \in Calls : a.journal[c].status = "pending"}
           f == [c \in S |-> LostCall(a, c)]
           g == [i \in DOMAIN SetToSeq(S) |-> f[SetToSeq(S)[i]]]
           j == [c \in Calls |->
                  IF a.journal[c].status = "pending"
                  THEN [a.journal[c] EXCEPT !.status = "outcome_unknown"] ELSE a.journal[c]]
<1>1. S \in SUBSET Calls /\ a.journal \in [Calls -> JournalEntry]
  BY DEF Aggregate
<1>2. \A c \in Calls : a.journal[c] \in JournalEntry
  BY <1>1
<1>3. S = {c \in Calls : a.journal[c].status = "pending" /\ ~HasResult(a.history, c)}
  BY DEF Sound, JournalValid, Unfinished
<1>4. RecoverCalls(a) = WithBatch(a, g, j)
  <2>1. \A i \in DOMAIN SetToSeq(S) :
          f[SetToSeq(S)[i]] = FactOf("result", SetToSeq(S)[i], a.journal[SetToSeq(S)[i]].run, None,
                                     "outcome_unknown", None, 0)
    BY <1>1, CallsInOrder DEF LostCall
  <2>2. g = [i \in DOMAIN SetToSeq(S) |->
               FactOf("result", SetToSeq(S)[i], a.journal[SetToSeq(S)[i]].run, None,
                      "outcome_unknown", None, 0)]
    BY <2>1
  <2> HIDE DEF f, S
  <2> QED
    BY <1>3, <2>2 DEF RecoverCalls, WithBatch, Aggregate
<1>5. f \in [S -> Fact] /\ \A c \in S : /\ f[c].id = c /\ f[c].kind = "result"
                                        /\ f[c].val = "outcome_unknown"
  <2>1. \A c \in S : LostCall(a, c) \in Fact
    <3> SUFFICES ASSUME NEW c \in S PROVE LostCall(a, c) \in Fact
      OBVIOUS
    <3>1. a.journal[c].run \in Runs \cup {None} /\ c \in Calls
      BY <1>1, <1>2 DEF JournalEntry
    <3> QED
      BY <3>1 DEF LostCall, FactOf, Fact, FactKinds, FactIds, JournalTerminal
  <2> QED
    BY <2>1 DEF LostCall, FactOf
<1>6. /\ j \in [Calls -> JournalEntry]
      /\ \A c \in S : j[c].status = "outcome_unknown" /\ j[c].status \in JournalTerminal
      /\ \A c \in Calls \ S : j[c] = a.journal[c]
  BY <1>1, <1>2 DEF JournalEntry, JournalTerminal
<1>7. \A c \in S : a.journal[c].status \in Unfinished
  BY DEF Unfinished
<1> HIDE DEF f, j, S
<1>8. /\ g \in Seq(Fact)
      /\ \A i \in DOMAIN g : g[i].id \in S /\ g[i] = f[g[i].id]
      /\ \A i, k \in DOMAIN g : g[i].id = g[k].id => i = k
      /\ \A c \in S : \E i \in DOMAIN g : g[i].id = c
  BY <1>1, <1>5, FactsInOrder
<1> HIDE DEF g
<1>9. \A i \in DOMAIN g : g[i].kind = "result" /\ g[i].id \in S /\ g[i].val = j[g[i].id].status
  BY <1>5, <1>6, <1>8
<1>10. WithBatch(a, g, j) \in Aggregate /\ Sound(WithBatch(a, g, j))
  BY <1>1, <1>6, <1>7, <1>8, <1>9, ResultBatchSound
<1>11. WithBatch(a, g, j).ext = a.ext
  BY <1>6, <1>8, WithBatchFields
<1> QED
  BY <1>4, <1>10, <1>11 DEF Kept

\* Without invocations there is nothing to recover in the ExtensionJournal.
LEMMA NoExtensions ==
  ASSUME NEW a \in Aggregate, a.ext = <<>>
  PROVE  RecoverExtensions(a) = a
<1> DEFINE x == [i \in DOMAIN a.ext |-> RecoverEntry(a.ext[i])]
<1>1. x = <<>>
  <2>1. DOMAIN a.ext = {}
    OBVIOUS
  <2> QED
    BY <2>1
<1> HIDE DEF x
<1>2. RecoverExtensions(a) = [a EXCEPT !.ext = x]
  BY DEF RecoverExtensions, x, Aggregate
<1> QED
  BY <1>1, <1>2 DEF Aggregate

\* The calls of a log stay calls of Runs that have started.
LEMMA CallsGrow ==
  ASSUME NEW h, NEW k, NEW F, IsLog(h), Grows(h, k, F), CallsOfRuns(h),
         \A f \in F : f.kind # "call"
  PROVE  CallsOfRuns(k)
<1>1. /\ \A i \in DOMAIN k : k[i] \in F \/ \E j \in DOMAIN h : k[i] = h[j]
      /\ \A j \in DOMAIN h : \E i \in DOMAIN k : k[i] = h[j]
  BY GrowsFacts
<1>2. \A r : RunHasStarted(h, r) => RunHasStarted(k, r)
  BY <1>1 DEF RunHasStarted
<1> QED
  BY <1>1, <1>2 DEF CallsOfRuns

\* Recover leaves a document, with a prepared call when its Run goes on.
LEMMA RecoveredDocument ==
  ASSUME NEW a, Document(a), AggShape(a)
  PROVE  LET b == Recovered(a)
         IN  /\ Document(b)
             /\ b.runState = "running" => Recoverable(b)
<1> DEFINE v == RecoverAttempts(a)
           w == RecoverCalls(v)
           g == ConfigOf(w, w.activeRun)
           i == InterruptRun(w, g)
           b == IF w.runState = "running" /\ ~Recoverable(w) THEN i ELSE w
<1>1. Recovered(a) = b
  <2>1. RecoverExtensions(a) = a
    BY NoExtensions DEF Document
  <2> QED
    BY <2>1 DEF Recovered
<1>2. Kept(a, v)
  BY RecoverAttemptsKept DEF Document
<1>3. /\ AggShape(v) /\ Rest(a, v)
      /\ Grows(a.history, v.history, {LostAttempt(a.history[p]) : p \in Unended(a.history)})
  BY RecoverAttemptsFields
<1>4. Document(v)
  <2>1. \A f \in {LostAttempt(a.history[p]) : p \in Unended(a.history)} : f.kind = "attempt"
    BY DEF LostAttempt, FactOf
  <2>2. v.runState = a.runState /\ v.activeRun = a.activeRun
    BY <1>3 DEF Rest
  <2> HIDE DEF v
  <2> QED
    BY <1>2, <1>3, <2>1, <2>2, DocumentGrows
<1> HIDE DEF v
<1>5. Kept(v, w)
  BY <1>4, RecoverCallsKept DEF Document
<1>6. /\ AggShape(w) /\ w.queue = v.queue
      /\ w.runState = v.runState /\ w.activeRun = v.activeRun
      /\ \E S \in SUBSET Calls : Grows(v.history, w.history, {LostCall(v, c) : c \in S})
      /\ \A c \in Calls : w.journal[c].status = RecoveredStatus(v.journal[c].status)
  BY <1>3, RecoverCallsFields
<1>7. Document(w)
  <2>1. PICK S \in SUBSET Calls : Grows(v.history, w.history, {LostCall(v, c) : c \in S})
    BY <1>6
  <2>2. \A f \in {LostCall(v, c) : c \in S} : f.kind = "result"
    BY DEF LostCall, FactOf
  <2> HIDE DEF w
  <2> QED
    BY <1>4, <1>5, <1>6, <2>1, <2>2, DocumentGrows
<1> HIDE DEF w
<1>8. CASE ~(w.runState = "running" /\ ~Recoverable(w))
  BY <1>1, <1>7, <1>8
<1>9. CASE w.runState = "running" /\ ~Recoverable(w)
  <2>1. b = i
    BY <1>9
  <2>2. g \in Configs
    BY <1>7, <1>9 DEF ConfigOf, Document, ActiveOpen
  <2>3. ClaimsBelong(w)
    BY <1>6 DEF ClaimsBelong, AggShape, QueueOK
  <2>4. \A c \in Calls : w.journal[c].status # "pending"
    BY <1>6 DEF RecoveredStatus
  <2> HIDE DEF g
  <2>5. i \in Aggregate /\ Sound(i)
    BY <1>7, <1>9, <2>2, <2>3, <2>4, InterruptSound DEF Document
  <2>6. i.ext = w.ext
    BY <1>7 DEF InterruptRun, EndRun, Log, Document, Aggregate
  <2>7. /\ i.runState = "idle"
        /\ \E F \in SUBSET {RunFact(w.activeRun, "interrupted", g)} :
             Grows(w.history, i.history, F)
    BY <1>6, InterruptRunFields
  <2> HIDE DEF i
  <2>8. CallsOfRuns(i.history)
    <3>1. PICK F \in SUBSET {RunFact(w.activeRun, "interrupted", g)} :
             Grows(w.history, i.history, F)
      BY <2>7
    <3>2. \A f \in F : f.kind # "call"
      BY DEF RunFact, FactOf
    <3>3. IsLog(w.history) /\ CallsOfRuns(w.history)
      BY <1>6, <1>7 DEF AggShape, Document
    <3> QED
      BY <3>1, <3>2, <3>3, CallsGrow
  <2>9. Document(i) /\ i.runState = "idle"
    BY <1>7, <2>5, <2>6, <2>7, <2>8 DEF Document, ActiveOpen
  <2> HIDE DEF b
  <2> QED
    BY <1>1, <2>1, <2>9
<1> QED
  BY <1>8, <1>9

\* A Session that Recover has left alone or settled, it leaves alone.
LEMMA NothingToRecover ==
  ASSUME NEW a, Document(a), AllEnded(a.history),
         \A c \in Calls : a.journal[c].status # "pending",
         a.runState = "running" => Recoverable(a)
  PROVE  Recovered(a) = a
<1>1. a \in Aggregate /\ a.history \in Seq(Fact) /\ a.journal \in [Calls -> JournalEntry]
  BY DEF Document, Aggregate
<1>2. RecoverExtensions(a) = a
  BY NoExtensions DEF Document
<1>3. RecoverAttempts(a) = a
  <2> DEFINE lost == Selection(a.history, Unended(a.history))
             g == [i \in DOMAIN lost |->
                     FactOf("attempt", lost[i].id, lost[i].run, None, "outcome_unknown", lost[i].cfg, 0)]
  <2>1. Unended(a.history) = {}
    BY DEF Unended, AllEnded
  <2>2. DOMAIN lost = {}
    <3>1. Unended(a.history) \in SUBSET DOMAIN a.history /\ Cardinality(Unended(a.history)) = 0
      BY <2>1, FS_EmptySet
    <3>2. lost \in Seq(Fact) /\ Len(lost) = 0
      BY <1>1, <3>1, SelectionIs
    <3> HIDE DEF lost
    <3> QED
      BY <3>2
  <2> HIDE DEF lost
  <2>3. g = <<>>
    BY <2>2
  <2>4. RecoverAttempts(a) = [a EXCEPT !.history = a.history \o g]
    BY <1>1 DEF RecoverAttempts, lost, Aggregate
  <2> HIDE DEF g
  <2>5. a.history \o g = a.history
    BY <1>1, <2>3
  <2> QED
    BY <1>1, <2>4, <2>5 DEF Aggregate
<1>4. RecoverCalls(a) = a
  <2> DEFINE S == {c \in Calls : a.journal[c].status = "pending" /\ ~HasResult(a.history, c)}
             lost == SetToSeq(S)
             g == [i \in DOMAIN lost |->
                     FactOf("result", lost[i], a.journal[lost[i]].run, None, "outcome_unknown", None, 0)]
             j == [c \in Calls |->
                    IF a.journal[c].status = "pending"
                    THEN [a.journal[c] EXCEPT !.status = "outcome_unknown"] ELSE a.journal[c]]
  <2>1. S = {}
    OBVIOUS
  <2> HIDE DEF S
  <2>2. DOMAIN lost = {}
    <3>1. S \in SUBSET Calls /\ Cardinality(S) = 0
      BY <2>1, FS_EmptySet
    <3>2. DOMAIN lost = 1..Cardinality(S)
      BY <3>1, CallsInOrder
    <3> HIDE DEF lost
    <3> QED
      BY <3>1, <3>2
  <2> HIDE DEF lost
  <2>3. g = <<>>
    BY <2>2
  <2>4. j = a.journal
    BY <1>1
  <2>5. RecoverCalls(a) = [a EXCEPT !.history = a.history \o g, !.journal = j]
    BY <1>1 DEF RecoverCalls, lost, S, Aggregate
  <2> HIDE DEF g, j
  <2>6. a.history \o g = a.history
    BY <1>1, <2>3
  <2>7. RecoverCalls(a) = [a EXCEPT !.history = a.history, !.journal = a.journal]
    BY <2>4, <2>5, <2>6
  <2>8. [a EXCEPT !.history = a.history] = a
    BY <1>1 DEF Aggregate
  <2>9. [a EXCEPT !.journal = a.journal] = a
    BY <1>1 DEF Aggregate
  <2> QED
    BY <2>7, <2>8, <2>9, Zenon
<1> QED
  BY <1>2, <1>3, <1>4 DEF Recovered

-----------------------------------------------------------------------------
(* What the transactions make of a document.                               *)

\* The same History and the same Run.
LEMMA DocumentSame ==
  ASSUME NEW a, Document(a), NEW b, Kept(a, b), b.history = a.history,
         b.runState = a.runState, b.activeRun = a.activeRun
  PROVE  Document(b)
BY DEF Document, Kept, ActiveOpen

\* An input waits.
LEMMA EnqueueDocument ==
  ASSUME NEW a, Document(a), AggShape(a), NEW m \in Messages, NEW d \in Deliveries,
         CanEnqueue(a, m)
  PROVE  Document(Enqueue(a, m, d))
<1> DEFINE b == Enqueue(a, m, d)
<1>1. b \in Aggregate /\ Sound(b)
  BY EnqueueSound DEF Document
<1>2. b.history = a.history /\ b.runState = a.runState /\ b.activeRun = a.activeRun
  BY EnqueueFields
<1>3. b.ext = a.ext
  BY DEF Enqueue, Document, Aggregate
<1> HIDE DEF b
<1>4. Document(b)
  BY <1>1, <1>2, <1>3, DocumentSame DEF Kept
<1> QED
  BY <1>4 DEF b

\* An input that waits is deleted.
LEMMA DeleteDocument ==
  ASSUME NEW a, Document(a), AggShape(a), NEW m \in Messages, CanRevise(a, m)
  PROVE  Document(Delete(a, m))
<1> DEFINE b == Delete(a, m)
<1>1. b = [a EXCEPT !.queue = WithoutItem(a.queue, m)]
  BY DEF Delete, Document, Aggregate
<1>2. InQueue(a.queue, m)
  BY DEF CanRevise, Unclaimed, InQueue
<1>3. b \in Aggregate /\ Sound(b)
  BY <1>1, <1>2, WithoutSound DEF Document
<1>4. b.history = a.history /\ b.runState = a.runState /\ b.activeRun = a.activeRun
  BY DeleteFields
<1>5. b.ext = a.ext
  BY DEF Delete, Document, Aggregate
<1> HIDE DEF b
<1>6. Document(b)
  BY <1>3, <1>4, <1>5, DocumentSame DEF Kept
<1> QED
  BY <1>6 DEF b

\* An input that waits gets another delivery.
LEMMA ReclassifyDocument ==
  ASSUME NEW a, Document(a), AggShape(a), NEW m \in Messages, NEW d \in Deliveries
  PROVE  Document(Reclassify(a, m, d))
<1> DEFINE b == Reclassify(a, m, d)
<1>1. b \in Aggregate /\ Sound(b)
  BY ReclassifySound DEF Document
<1>2. b.history = a.history /\ b.runState = a.runState /\ b.activeRun = a.activeRun
  BY ReclassifyFields
<1>3. b.ext = a.ext
  BY DEF Reclassify, Document, Aggregate
<1> HIDE DEF b
<1>4. Document(b)
  BY <1>1, <1>2, <1>3, DocumentSame DEF Kept
<1> QED
  BY <1>4 DEF b

\* The input a transaction takes is a message.
LEMMA TakenIsMessage ==
  ASSUME NEW a \in Aggregate, NEW m, NEW r, CanTakeInput(a, m, r)
  PROVE  m \in Messages
<1>1. PICK i \in DOMAIN a.queue : a.queue[i].id = m
  BY DEF CanTakeInput, CanClaim, Unclaimed
<1>2. a.queue \in Seq(QueueItem)
  BY DEF Aggregate
<1>3. a.queue[i] \in QueueItem
  BY <1>2
<1> QED
  BY <1>1, <1>3 DEF QueueItem

\* A Run that has not started has not ended either.
LEMMA NotStarted ==
  ASSUME NEW h \in Seq(Fact), HistoryValid(h), NEW r, ~RunHasStarted(h, r)
  PROVE  ~RunHasEnded(h, r)
<1>1. DOMAIN h = 1..Len(h) /\ Len(h) \in Nat
  OBVIOUS
<1>2. \A i \in DOMAIN h : \A k \in 1..(i - 1) : k \in DOMAIN h
  BY <1>1
<1> QED
  BY <1>2 DEF HistoryValid, RunsPaired, RunHasStarted, RunHasEnded

\* A Run begins.
LEMMA BeginDocument ==
  ASSUME NEW a, Document(a), AggShape(a), NEW m, NEW r \in Runs, CanBegin(a, m, r)
  PROVE  Document(Begin(a, m, r))
<1> DEFINE b == Begin(a, m, r)
           c == StartRun(SetRunning(a, r), r, a.config)
<1>1. BeginsRun(a, b, m, r)
  BY BeginFields
<1>2. a \in Aggregate /\ Sound(a)
  BY DEF Document
<1>3. m \in Messages
  <2>1. CanTakeInput(c, m, r) /\ c.queue = a.queue
    BY <1>2 DEF CanBegin, StartRun, Log, SetRunning, Aggregate
  <2> HIDE DEF c
  <2>2. CanTakeInput(c, m, r) => InQueue(c.queue, m)
    BY DEF CanTakeInput, CanClaim, Unclaimed, InQueue
  <2>3. PICK i \in DOMAIN a.queue : a.queue[i].id = m
    BY <2>1, <2>2 DEF InQueue
  <2>4. a.queue \in Seq(QueueItem)
    BY <1>2 DEF Aggregate
  <2>5. a.queue[i] \in QueueItem
    BY <2>4
  <2> QED
    BY <2>3, <2>5 DEF QueueItem
<1>4. Kept(a, b)
  BY <1>2, <1>3, BeginKept
<1>5. ~RunHasStarted(a.history, r)
  BY <1>2 DEF CanBegin, CanStartRun, SetRunning, Aggregate
<1>6. ~RunHasEnded(a.history, r)
  BY <1>2, <1>5, NotStarted DEF Sound, Aggregate
<1> DEFINE F == {RunFact(r, "started", a.config), UserMessage(m, r)}
<1>7. Grows(a.history, b.history, F) /\ b.runState = "running" /\ b.activeRun = r
  BY <1>1 DEF BeginsRun
<1> HIDE DEF b
<1>8. /\ \A i \in DOMAIN b.history : b.history[i] \in F \/ \E j \in DOMAIN a.history : b.history[i] = a.history[j]
      /\ \A f \in F : \E i \in DOMAIN b.history : b.history[i] = f
  <2>1. IsLog(a.history)
    BY DEF AggShape
  <2> HIDE DEF F
  <2> QED
    BY <1>7, <2>1, GrowsFacts
<1>9. \A f \in F : f.kind # "call" /\ (f.kind = "run" => f.val = "started")
  BY DEF RunFact, UserMessage, FactOf
<1>10. CallsOfRuns(b.history)
  <2>1. IsLog(a.history) /\ CallsOfRuns(a.history)
    BY DEF AggShape, Document
  <2> HIDE DEF F
  <2> QED
    BY <1>7, <1>9, <2>1, CallsGrow
<1>11. ~RunHasEnded(b.history, r)
  <2> HIDE DEF F
  <2> QED
    BY <1>6, <1>8, <1>9 DEF RunHasEnded
<1>12. RunFrozen(b.history, r, a.config)
  BY <1>8 DEF RunFrozen, RunFact, FactOf
<1>13. a.config \in Configs
  BY <1>2 DEF Aggregate
<1>14. b.ext = <<>> /\ b \in Aggregate /\ Sound(b)
  BY <1>4 DEF Kept, Document
<1>15. Document(b)
  BY <1>7, <1>10, <1>11, <1>12, <1>13, <1>14 DEF Document, ActiveOpen
<1> QED
  BY <1>15 DEF b

\* A Run ends.
LEMMA EndDocument ==
  ASSUME NEW a, Document(a), AggShape(a), NothingUnfinished(a), NEW r \in Runs,
         NEW g \in Configs, NEW o \in RunEnds, CanEndRun(a, r, g)
  PROVE  Document(SetIdle(EndRun(a, r, g, o)))
<1> DEFINE b == SetIdle(EndRun(a, r, g, o))
<1>1. EndsRun(a, b, r, g, o)
  BY EndFields
<1>2. Kept(a, b)
  BY EndKept DEF Document
<1> HIDE DEF b
<1>3. Grows(a.history, b.history, {RunFact(r, o, g)}) /\ b.runState = "idle"
  BY <1>1 DEF EndsRun
<1>4. CallsOfRuns(b.history)
  <2>1. IsLog(a.history) /\ CallsOfRuns(a.history)
    BY DEF AggShape, Document
  <2>2. \A f \in {RunFact(r, o, g)} : f.kind # "call"
    BY DEF RunFact, FactOf
  <2> QED
    BY <1>3, <2>1, <2>2, CallsGrow
<1>5. Document(b)
  BY <1>2, <1>3, <1>4 DEF Document, Kept, ActiveOpen
<1> QED
  BY <1>5 DEF b

\* An input is taken by the Run.
LEMMA TakeInputDocument ==
  ASSUME NEW a, Document(a), AggShape(a), NEW m, NEW r \in Runs, CanTakeInput(a, m, r)
  PROVE  Document(TakeInput(a, m, r))
<1> DEFINE b == TakeInput(a, m, r)
<1>1. a \in Aggregate /\ Sound(a)
  BY DEF Document
<1>2. Kept(a, b)
  BY <1>1, TakenIsMessage, TakeInputKept
<1>3. /\ Grows(a.history, b.history, {UserMessage(m, r)})
      /\ b.runState = a.runState /\ b.activeRun = a.activeRun
  BY TakeInputFields DEF TookInput
<1>4. \A f \in {UserMessage(m, r)} : f.kind = "message"
  BY DEF UserMessage, FactOf
<1> HIDE DEF b
<1>5. Document(b)
  BY <1>2, <1>3, <1>4, DocumentGrows
<1> QED
  BY <1>5 DEF b

\* The steers are taken by the Run.
LEMMA TakeSteersDocument ==
  ASSUME NEW a, Document(a), AggShape(a), NEW r \in Runs,
         \A p \in Steering(a) : ~HasMessage(a.history, a.queue[p].id)
  PROVE  Document(TakeSteers(a, r))
<1> DEFINE b == TakeSteers(a, r)
           F == {UserMessage(a.queue[p].id, r) : p \in Steering(a)}
<1>1. Kept(a, b)
  BY TakeSteersKept DEF Document, AggShape
<1>2. TookSteers(a, b, r)
  BY TakeSteersFields
<1>3. \A f \in F : f.kind = "message"
  BY DEF UserMessage, FactOf
<1> HIDE DEF b
<1>4. /\ Grows(a.history, b.history, F)
      /\ b.runState = a.runState /\ b.activeRun = a.activeRun
  BY <1>2, Zenon DEF TookSteers
<1> HIDE DEF F
<1>5. Document(b)
  BY <1>1, <1>3, <1>4, DocumentGrows
<1> QED
  BY <1>5 DEF b

\* An answer and its calls.
LEMMA AnsweredDocument ==
  ASSUME NEW a, Document(a), AggShape(a), NEW m \in Messages, NEW r \in Runs, Active(a, r),
         NEW S \in SUBSET Calls, CanAppendMessage(a, m), \A c \in S : ~HasCall(a.history, c)
  PROVE  Document(Answered(a, m, r, S))
<1> DEFINE b == Answered(a, m, r, S)
           F == {AnswerMessage(m, r)} \cup {CallFact(c, r, m) : c \in S}
<1>1. Kept(a, b)
  BY AnsweredKept DEF Document
<1>2. AnsweredIn(a, b, m, r, S)
  BY AnsweredFields
<1>3. \A f \in F : f.kind # "run" /\ (f.kind = "call" => f.run = r)
  BY DEF AnswerMessage, CallFact, FactOf
<1>4. RunHasStarted(a.history, r)
  BY DEF Active, Document, ActiveOpen, RunFrozen, RunHasStarted
<1> HIDE DEF b
<1>5. /\ Grows(a.history, b.history, F)
      /\ b.runState = a.runState /\ b.activeRun = a.activeRun
  BY <1>2, Zenon DEF AnsweredIn
<1> HIDE DEF F
<1>6. Document(b)
  BY <1>1, <1>3, <1>4, <1>5, DocumentGrows
<1> QED
  BY <1>6 DEF b

\* The results of a batch.
LEMMA SettledDocument ==
  ASSUME NEW a, Document(a), AggShape(a), NEW work,
         \A c \in Done(work) : a.journal[c].status \in Unfinished,
         \A c \in Calls : work[c] # "none" => work[c] \in {"succeeded", "failed"}
  PROVE  Document(Settled(a, work))
<1> DEFINE b == Settled(a, work)
           F == {ResultFact(c, a.journal[c].run, work[c]) : c \in Done(work)}
<1>1. Kept(a, b)
  BY SettledKept DEF Document, Done
<1>2. /\ Grows(a.history, b.history, F)
      /\ b.runState = a.runState /\ b.activeRun = a.activeRun
  BY SettledFields DEF SettledTo
<1>3. \A f \in F : f.kind = "result"
  BY DEF ResultFact, FactOf
<1> HIDE DEF b, F
<1>4. Document(b)
  BY <1>1, <1>2, <1>3, DocumentGrows
<1> QED
  BY <1>4 DEF b

\* One more fact of the active Run that is neither a call nor about the Run.
LEMMA LogDocument ==
  ASSUME NEW a, Document(a), AggShape(a), NEW kind, NEW id, NEW r, NEW ref, NEW val, NEW g,
         NEW num, kind \notin {"run", "call"},
         Kept(a, Log(a, kind, id, r, ref, val, g, num))
  PROVE  Document(Log(a, kind, id, r, ref, val, g, num))
<1> DEFINE b == Log(a, kind, id, r, ref, val, g, num)
           f == FactOf(kind, id, r, ref, val, g, num)
<1>1. Rest(a, b) /\ Grows(a.history, b.history, {f})
  BY LogFields
<1>2. b.runState = a.runState /\ b.activeRun = a.activeRun
  BY <1>1 DEF Rest
<1>3. f.kind \notin {"run", "call"}
  BY DEF FactOf
<1>4. Kept(a, b)
  OBVIOUS
<1> HIDE DEF b, f
<1>5. Document(b)
  BY <1>1, <1>2, <1>3, <1>4, DocumentGrows
<1> QED
  BY <1>5 DEF b

-----------------------------------------------------------------------------
(* How much of a limit a Run has used.                                     *)

\* What a limit counts is finite.
LEMMA UsesFinite ==
  ASSUME NEW h \in Seq(Fact), NEW r, NEW what \in LimitKinds
  PROVE  IsFiniteSet(Uses(h, Len(h), r, what)) /\ UsedBefore(h, Len(h), r, what) \in Nat
<1> DEFINE n == Len(h)
<1>1. n \in Nat /\ \A i \in 1..n : h[i] \in Fact
  OBVIOUS
<1> HIDE DEF n
<1>2. \A T \in SUBSET (1..n) : IsFiniteSet(T)
  <2>1. n \in Int /\ 1 \in Int
    BY <1>1
  <2>2. IsFiniteSet(1..n)
    BY ONLY <2>1, FS_Interval
  <2> QED
    BY ONLY <2>2, FS_Subset
<1>3. IsFiniteSet(AttemptsEnded(h, n, r))
  BY <1>2 DEF AttemptsEnded
<1>4. IsFiniteSet(AttemptsBegun(h, n, r)) /\ IsFiniteSet(CallsAdmitted(h, n, r))
  <2>1. AttemptsBegun(h, n, r) \subseteq 1..n /\ CallsAdmitted(h, n, r) \subseteq 1..n
    BY DEF AttemptsBegun, CallsAdmitted
  <2> QED
    BY <1>2, <2>1
<1>5. IsFiniteSet(UNION {{i} \X (1..h[i].num) : i \in AttemptsEnded(h, n, r)})
  <2> DEFINE E == AttemptsEnded(h, n, r)
             Op(i) == {i} \X (1..h[i].num)
             T == {Op(i) : i \in E}
  <2>1. IsFiniteSet(T)
    <3> DEFINE g == [i \in E |-> Op(i)]
    <3>1. IsFiniteSet(E)
      BY <1>3
    <3> HIDE DEF E
    <3>2. g \in [E -> T] /\ \A t \in T : \E i \in E : g[i] = t
      OBVIOUS
    <3>3. g \in Surjection(E, T)
      BY <3>2 DEF Surjection
    <3> HIDE DEF g, T
    <3> QED
      BY <3>1, <3>3, FS_Surjection
  <2>2. ASSUME NEW i \in E PROVE IsFiniteSet(Op(i))
    <3>0. i \in 1..n
      BY DEF AttemptsEnded
    <3>01. h[i] \in Fact
      BY <1>1, <3>0
    <3>1. h[i].num \in Nat
      BY <3>01 DEF Fact
    <3> DEFINE A == {i}
               x == h[i].num
               B == 1..x
    <3>2. IsFiniteSet(A)
      BY FS_Singleton
    <3>3. IsFiniteSet(B)
      <4>1. x \in Int /\ 1 \in Int
        BY <3>1
      <4> HIDE DEF x
      <4> QED
        BY ONLY <4>1, FS_Interval DEF B
    <3> HIDE DEF A, B
    <3>4. IsFiniteSet(A \X B)
      BY ONLY <3>2, <3>3, FS_Product
    <3> QED
      BY <3>4 DEF A, B
  <2>3. \A t \in T : IsFiniteSet(t)
    BY <2>2
  <2> HIDE DEF T
  <2>4. IsFiniteSet(UNION T)
    BY <2>1, <2>3, FS_UNION
  <2> QED
    BY <2>4 DEF T
<1>6. IsFiniteSet(Uses(h, n, r, what))
  BY <1>3, <1>4, <1>5, UsesAre DEF LimitKinds
<1> QED
  BY <1>6, FS_CardinalityType DEF UsedBefore, n

\* The facts after the first ones, when only f is added.
LEMMA AfterFact ==
  ASSUME NEW h \in Seq(Fact), NEW k \in Seq(Fact), NEW F, Grows(h, k, F)
  PROVE  /\ Len(h) \in Nat /\ Len(k) \in Nat /\ Len(h) <= Len(k)
         /\ DOMAIN h = 1..Len(h) /\ DOMAIN k = 1..Len(k)
         /\ \A i \in 1..Len(h) : i \in 1..Len(k) /\ k[i] = h[i]
         /\ \A i \in 1..Len(k) : i \in 1..Len(h) \/ (i \notin 1..Len(h) /\ i > Len(h) /\ k[i] \in F)
         /\ \A f \in F : \E i \in 1..Len(k) : k[i] = f
<1>1. Len(h) \in Nat /\ Len(k) \in Nat /\ DOMAIN h = 1..Len(h) /\ DOMAIN k = 1..Len(k)
  OBVIOUS
<1> QED
  BY <1>1 DEF Grows

\* Facts that start no attempt of r leave the number of its attempts.
LEMMA AttemptsSame ==
  ASSUME NEW h \in Seq(Fact), NEW k \in Seq(Fact), NEW F, Grows(h, k, F), NEW r,
         \A f \in F : ~(StartsAttempt(f) /\ f.run = r)
  PROVE  UsedBefore(k, Len(k), r, "attempts") = UsedBefore(h, Len(h), r, "attempts")
<1>1. AttemptsBegun(k, Len(k), r) = AttemptsBegun(h, Len(h), r)
  BY AfterFact DEF AttemptsBegun, StartsAttempt
<1> QED
  BY <1>1, UsesAre DEF UsedBefore

\* Facts that admit no call of r leave the number of its calls.
LEMMA CallsSame ==
  ASSUME NEW h \in Seq(Fact), NEW k \in Seq(Fact), NEW F, Grows(h, k, F), NEW r,
         \A f \in F : ~(f.kind = "call" /\ f.run = r)
  PROVE  UsedBefore(k, Len(k), r, "calls") = UsedBefore(h, Len(h), r, "calls")
<1>1. CallsAdmitted(k, Len(k), r) = CallsAdmitted(h, Len(h), r)
  BY AfterFact DEF CallsAdmitted
<1> QED
  BY <1>1, UsesAre DEF UsedBefore

\* Facts that report no token of r leave what it used.
LEMMA TokensSame ==
  ASSUME NEW h \in Seq(Fact), NEW k \in Seq(Fact), NEW F, Grows(h, k, F), NEW r,
         \A f \in F : f.kind = "attempt" /\ f.run = r /\ f.val # "started" => f.num = 0
  PROVE  UsedBefore(k, Len(k), r, "tokens") = UsedBefore(h, Len(h), r, "tokens")
<1> DEFINE E == AttemptsEnded(h, Len(h), r)
           G == AttemptsEnded(k, Len(k), r)
           U == UNION {{i} \X (1..h[i].num) : i \in E}
           V == UNION {{i} \X (1..k[i].num) : i \in G}
<1>1. /\ \A i \in E : i \in G /\ k[i] = h[i]
      /\ \A i \in G : (i \in E /\ k[i] = h[i]) \/ k[i].num = 0
  BY AfterFact DEF AttemptsEnded
<1> HIDE DEF E, G
<1>2. U \subseteq V
  <2> SUFFICES ASSUME NEW x \in U PROVE x \in V
    OBVIOUS
  <2>1. PICK i \in E : x \in {i} \X (1..h[i].num)
    OBVIOUS
  <2>2. i \in G /\ x \in {i} \X (1..k[i].num)
    BY <1>1, <2>1
  <2> QED
    BY <2>2
<1>3. V \subseteq U
  <2> SUFFICES ASSUME NEW x \in V PROVE x \in U
    OBVIOUS
  <2>1. PICK i \in G : x \in {i} \X (1..k[i].num)
    OBVIOUS
  <2>2. k[i].num # 0
    BY <2>1
  <2>3. i \in E /\ x \in {i} \X (1..h[i].num)
    BY <1>1, <2>1, <2>2
  <2> QED
    BY <2>3
<1>4. Uses(h, Len(h), r, "tokens") = U /\ Uses(k, Len(k), r, "tokens") = V
  BY UsesAre DEF E, G
<1> QED
  BY <1>2, <1>3, <1>4 DEF UsedBefore

\* The one fact that is added about an attempt is at one position.
LEMMA OnePosition ==
  ASSUME NEW h \in Seq(Fact), NEW k \in Seq(Fact), NEW f, Grows(h, k, {f}), f.kind = "attempt",
         AttemptsPaired(k), \A i \in DOMAIN h : h[i] # f
  PROVE  \E p \in 1..Len(k) : /\ p \notin 1..Len(h) /\ k[p] = f
                              /\ \A i \in 1..Len(k) : i \in 1..Len(h) \/ i = p
<1>1. PICK p \in 1..Len(k) : k[p] = f
  BY AfterFact
<1>2. p \notin 1..Len(h)
  BY <1>1, AfterFact
<1>3. \A i \in 1..Len(k) : i \in 1..Len(h) \/ k[i] = f
  BY AfterFact
<1>4. \A i \in 1..Len(k) : k[i] = f => i = p
  BY <1>1, AfterFact DEF AttemptsPaired
<1> QED
  BY <1>1, <1>2, <1>3, <1>4

\* The start of an attempt is counted once.
LEMMA AttemptsMore ==
  ASSUME NEW h \in Seq(Fact), NEW k \in Seq(Fact), NEW f, Grows(h, k, {f}), StartsAttempt(f),
         NEW r, f.run = r, AttemptsPaired(k), \A i \in DOMAIN h : h[i] # f
  PROVE  UsedBefore(k, Len(k), r, "attempts") = UsedBefore(h, Len(h), r, "attempts") + 1
<1>1. PICK p \in 1..Len(k) : /\ p \notin 1..Len(h) /\ k[p] = f
                             /\ \A i \in 1..Len(k) : i \in 1..Len(h) \/ i = p
  BY OnePosition DEF StartsAttempt
<1>2. AttemptsBegun(k, Len(k), r) = AttemptsBegun(h, Len(h), r) \cup {p}
  BY <1>1, AfterFact DEF AttemptsBegun, StartsAttempt
<1>3. p \notin AttemptsBegun(h, Len(h), r)
  BY <1>1 DEF AttemptsBegun
<1>4. IsFiniteSet(AttemptsBegun(h, Len(h), r))
  BY UsesFinite, UsesAre DEF LimitKinds
<1> QED
  BY <1>2, <1>3, <1>4, FS_AddElement, UsesAre DEF UsedBefore

\* The tokens of an attempt are counted when it ends.
LEMMA TokensMore ==
  ASSUME NEW h \in Seq(Fact), NEW k \in Seq(Fact), NEW f, Grows(h, k, {f}), f.kind = "attempt",
         f.val # "started", f.num \in Nat,
         NEW r, f.run = r, AttemptsPaired(k), \A i \in DOMAIN h : h[i] # f
  PROVE  UsedBefore(k, Len(k), r, "tokens") = UsedBefore(h, Len(h), r, "tokens") + f.num
<1> DEFINE E == AttemptsEnded(h, Len(h), r)
           G == AttemptsEnded(k, Len(k), r)
           U == UNION {{i} \X (1..h[i].num) : i \in E}
           V == UNION {{i} \X (1..k[i].num) : i \in G}
<1>1. PICK p \in 1..Len(k) : /\ p \notin 1..Len(h) /\ k[p] = f
                             /\ \A i \in 1..Len(k) : i \in 1..Len(h) \/ i = p
  BY OnePosition
<1> DEFINE N == {p} \X (1..f.num)
<1>2. G = E \cup {p} /\ p \notin E /\ \A i \in E : k[i] = h[i]
  BY <1>1, AfterFact DEF AttemptsEnded
<1>3. Uses(h, Len(h), r, "tokens") = U /\ Uses(k, Len(k), r, "tokens") = V
  BY UsesAre
<1> HIDE DEF E, G
<1>4. V = U \cup N
  <2>1. ASSUME NEW x \in V PROVE x \in U \cup N
    <3>1. PICK i \in G : x \in {i} \X (1..k[i].num)
      OBVIOUS
    <3>2. CASE i = p
      BY <1>1, <3>1, <3>2
    <3>3. CASE i \in E
      BY <1>2, <3>1, <3>3
    <3> QED
      BY <1>2, <3>2, <3>3
  <2>2. ASSUME NEW x \in U PROVE x \in V
    <3>1. PICK i \in E : x \in {i} \X (1..h[i].num)
      OBVIOUS
    <3>2. i \in G /\ x \in {i} \X (1..k[i].num)
      BY <1>2, <3>1
    <3> QED
      BY <3>2
  <2>3. ASSUME NEW x \in N PROVE x \in V
    <3>1. p \in G /\ x \in {p} \X (1..k[p].num)
      BY <1>1, <1>2, <2>3
    <3> QED
      BY <3>1
  <2> HIDE DEF U, V, N
  <2> QED
    BY <2>1, <2>2, <2>3
<1>5. U \cap N = {}
  <2> SUFFICES ASSUME NEW x \in U, x \in N PROVE FALSE
    OBVIOUS
  <2>1. PICK i \in E : x \in {i} \X (1..h[i].num)
    OBVIOUS
  <2>2. x[1] = i /\ x[1] = p
    BY <2>1
  <2> QED
    BY <1>2, <2>2
<1>6. IsFiniteSet(U) /\ Cardinality(U) \in Nat
  BY <1>3, UsesFinite, FS_CardinalityType DEF LimitKinds
<1>7. IsFiniteSet(N) /\ Cardinality(N) = f.num
  <2>1. IsFiniteSet({p}) /\ Cardinality({p}) = 1
    BY FS_Singleton
  <2>2. IsFiniteSet(1..f.num) /\ Cardinality(1..f.num) = f.num
    <3> DEFINE x == f.num
    <3>1. x \in Nat /\ x \in Int /\ 1 \in Int
      OBVIOUS
    <3> HIDE DEF x
    <3>2. IsFiniteSet(1..x) /\ Cardinality(1..x) = IF 1 > x THEN 0 ELSE x - 1 + 1
      BY <3>1, FS_Interval
    <3>3. Cardinality(1..x) = x
      BY <3>1, <3>2
    <3> QED
      BY <3>2, <3>3 DEF x
  <2> HIDE DEF N
  <2>3. IsFiniteSet(N) /\ Cardinality(N) = 1 * f.num
    BY <2>1, <2>2, FS_Product DEF N
  <2> QED
    BY <2>3
<1> HIDE DEF U, V, N
<1>8. Cardinality(V) = Cardinality(U) + Cardinality(N) - Cardinality(U \cap N)
  BY <1>4, <1>6, <1>7, FS_Union
<1>9. Cardinality(U \cap N) = 0
  BY <1>5, FS_EmptySet
<1>10. Cardinality(V) = Cardinality(U) + f.num
  BY <1>6, <1>7, <1>8, <1>9
<1> QED
  BY <1>3, <1>10 DEF UsedBefore

\* Each call of a completion is counted once.
LEMMA CallsMore ==
  ASSUME NEW h \in Seq(Fact), NEW k \in Seq(Fact), NEW F, Grows(h, k, F), CallsPaired(k),
         NEW r, NEW S, NEW m, IsFiniteSet(S), \A c \in S : ~HasCall(h, c) /\ CallFact(c, r, m) \in F,
         \A f \in F : f.kind = "call" /\ f.run = r => \E c \in S : f = CallFact(c, r, m)
  PROVE  UsedBefore(k, Len(k), r, "calls") = UsedBefore(h, Len(h), r, "calls") + Cardinality(S)
<1> DEFINE E == CallsAdmitted(h, Len(h), r)
           G == CallsAdmitted(k, Len(k), r)
           N == {i \in 1..Len(k) : k[i] \in {CallFact(c, r, m) : c \in S}}
           g == [i \in N |-> k[i].id]
<1>1. \A c : CallFact(c, r, m).kind = "call" /\ CallFact(c, r, m).run = r /\ CallFact(c, r, m).id = c
  BY DEF CallFact, FactOf
<1>2. \A i \in N : i \notin 1..Len(h)
  <2> SUFFICES ASSUME NEW i \in N, i \in 1..Len(h) PROVE FALSE
    OBVIOUS
  <2>1. PICK c \in S : k[i] = CallFact(c, r, m)
    OBVIOUS
  <2>2. h[i] = CallFact(c, r, m) /\ i \in DOMAIN h
    BY <2>1, AfterFact
  <2> QED
    BY <1>1, <2>2 DEF HasCall
<1>3. G = E \cup N
  <2>1. ASSUME NEW i \in G PROVE i \in E \cup N
    <3>1. i \in 1..Len(k) /\ k[i].kind = "call" /\ k[i].run = r
      BY DEF CallsAdmitted
    <3>2. CASE i \in 1..Len(h)
      BY <3>1, <3>2, AfterFact DEF CallsAdmitted
    <3>3. CASE k[i] \in F
      BY <3>1, <3>3
    <3> QED
      BY <3>1, <3>2, <3>3, AfterFact
  <2>2. ASSUME NEW i \in E PROVE i \in G
    BY AfterFact DEF CallsAdmitted
  <2>3. ASSUME NEW i \in N PROVE i \in G
    BY <1>1 DEF CallsAdmitted
  <2> HIDE DEF E, G, N
  <2> QED
    BY <2>1, <2>2, <2>3
<1>4. E \cap N = {}
  BY <1>2 DEF CallsAdmitted
<1>5. /\ \A i \in N : k[i].id \in S /\ k[i].kind = "call"
      /\ \A c \in S : \E i \in N : k[i].id = c
  <2>1. ASSUME NEW i \in N PROVE k[i].id \in S /\ k[i].kind = "call"
    BY <1>1
  <2>2. ASSUME NEW c \in S PROVE \E i \in N : k[i].id = c
    <3>1. PICK i \in 1..Len(k) : k[i] = CallFact(c, r, m)
      BY AfterFact
    <3>2. i \in N
      BY <3>1
    <3> QED
      BY <1>1, <3>1, <3>2
  <2> HIDE DEF N
  <2> QED
    BY <2>1, <2>2
<1>6. \A i, j \in N : k[i].id = k[j].id => i = j
  <2> SUFFICES ASSUME NEW i \in N, NEW j \in N, k[i].id = k[j].id PROVE i = j
    OBVIOUS
  <2>1. i \in DOMAIN k /\ j \in DOMAIN k
    BY AfterFact
  <2>2. k[i].kind = "call" /\ k[j].kind = "call"
    BY <1>5
  <2> HIDE DEF N
  <2> QED
    BY <2>1, <2>2 DEF CallsPaired
<1>7. IsFiniteSet(N) /\ Cardinality(N) = Cardinality(S)
  <2> HIDE DEF N
  <2>1. g \in [N -> S] /\ \A i, j \in N : g[i] = g[j] => i = j
    BY <1>5, <1>6
  <2>2. \A c \in S : \E i \in N : g[i] = c
    BY <1>5
  <2>3. g \in Injection(N, S) /\ g \in Surjection(N, S)
    BY <2>1, <2>2 DEF Injection, IsInjective, Surjection
  <2> HIDE DEF g
  <2> QED
    BY <2>3, FS_Injection
<1>8. IsFiniteSet(E) /\ Cardinality(E) \in Nat
  BY UsesFinite, UsesAre, FS_CardinalityType DEF LimitKinds
<1>9. Uses(h, Len(h), r, "calls") = E /\ Uses(k, Len(k), r, "calls") = G
  BY UsesAre
<1> HIDE DEF E, G, N, g
<1>10. Cardinality(S) \in Nat
  BY FS_CardinalityType
<1>11. Cardinality(G) = Cardinality(E) + Cardinality(N) - Cardinality(E \cap N)
  BY <1>3, <1>7, <1>8, FS_Union
<1>12. Cardinality(E \cap N) = 0
  BY <1>4, FS_EmptySet
<1> QED
  BY <1>7, <1>8, <1>9, <1>10, <1>11, <1>12 DEF UsedBefore

\* A Run that has not started has used nothing.
LEMMA UnusedBefore ==
  ASSUME NEW a, Document(a), NEW r, ~RunHasStarted(a.history, r), NEW what \in LimitKinds
  PROVE  UsedBefore(a.history, Len(a.history), r, what) = 0
<1> DEFINE h == a.history
           n == Len(h)
<1>1. h \in Seq(Fact) /\ InsideRun(h) /\ AttemptsPaired(h) /\ CallsOfRuns(h)
  BY DEF Document, Aggregate, Sound, HistoryValid
<1>2. n \in Nat /\ DOMAIN h = 1..n
  BY <1>1
<1> HIDE DEF h, n
<1>3. ~RunHasStarted(h, r)
  BY DEF h
<1>4. \A i \in 1..n : ~(h[i].kind = "attempt" /\ h[i].val = "started" /\ h[i].run = r)
  <2> SUFFICES ASSUME NEW i \in 1..n, h[i].kind = "attempt", h[i].val = "started", h[i].run = r
               PROVE  FALSE
    OBVIOUS
  <2>1. PICK j \in 1..(i - 1) : h[j].kind = "run" /\ h[j].id = r /\ h[j].val = "started"
    BY <1>1, <1>2 DEF InsideRun
  <2>2. j \in DOMAIN h
    BY <1>2, <2>1
  <2> QED
    BY <1>3, <2>1, <2>2 DEF RunHasStarted
<1>5. \A i \in 1..n : ~(h[i].kind = "attempt" /\ h[i].run = r)
  <2> SUFFICES ASSUME NEW i \in 1..n, h[i].kind = "attempt", h[i].run = r, h[i].val # "started"
               PROVE  FALSE
    BY <1>4
  <2>1. PICK j \in 1..(i - 1) : h[j].kind = "attempt" /\ h[j].val = "started" /\ h[j].run = h[i].run
    BY <1>1, <1>2 DEF AttemptsPaired
  <2>2. j \in 1..n
    BY <1>2, <2>1
  <2> QED
    BY <1>4, <2>1, <2>2
<1>6. \A i \in 1..n : ~(h[i].kind = "call" /\ h[i].run = r)
  BY <1>1, <1>2, <1>3 DEF CallsOfRuns
<1>7. AttemptsEnded(h, n, r) = {} /\ AttemptsBegun(h, n, r) = {} /\ CallsAdmitted(h, n, r) = {}
  BY <1>5, <1>6 DEF AttemptsEnded, AttemptsBegun, CallsAdmitted
<1>8. UNION {{i} \X (1..h[i].num) : i \in AttemptsEnded(h, n, r)} = {}
  BY <1>7
<1>9. Uses(h, n, r, what) = {}
  BY <1>7, <1>8, UsesAre DEF LimitKinds
<1> QED
  BY <1>9, FS_EmptySet DEF UsedBefore, h, n

\* A fact that uses nothing of a limit.
NoUse(f) == f.kind # "call" /\ ~StartsAttempt(f) /\ (f.kind = "attempt" => f.num = 0)

\* Facts that use nothing leave what every Run has used.
LEMMA UsedNothing ==
  ASSUME NEW h \in Seq(Fact), NEW k \in Seq(Fact), NEW F, Grows(h, k, F),
         \A f \in F : NoUse(f), NEW r, NEW what \in LimitKinds
  PROVE  UsedBefore(k, Len(k), r, what) = UsedBefore(h, Len(h), r, what)
<1>1. \A f \in F : /\ ~(StartsAttempt(f) /\ f.run = r) /\ ~(f.kind = "call" /\ f.run = r)
                   /\ f.kind = "attempt" /\ f.run = r /\ f.val # "started" => f.num = 0
  BY DEF NoUse
<1>2. UsedBefore(k, Len(k), r, "attempts") = UsedBefore(h, Len(h), r, "attempts")
  BY <1>1, AttemptsSame
<1>3. UsedBefore(k, Len(k), r, "calls") = UsedBefore(h, Len(h), r, "calls")
  BY <1>1, CallsSame
<1>4. UsedBefore(k, Len(k), r, "tokens") = UsedBefore(h, Len(h), r, "tokens")
  BY <1>1, TokensSame
<1> QED
  BY <1>2, <1>3, <1>4 DEF LimitKinds

-----------------------------------------------------------------------------
(* The types of the Runtime, its loop and the outside.                     *)

RtType ==
  [state: {"down", "idle", "running", "closed"}, active: Runs \cup {None},
   closing: BOOLEAN, cancel: BOOLEAN, cfg: Configs \cup {None},
   attempts: Nat, calls: Nat, tokens: Nat]

LoopType ==
  [pc: Places, work: [Calls -> CallPlaces], attempt: Attempts \cup {0},
   tries: Nat, proposal: BOOLEAN, broken: BOOLEAN, out: Outcomes]

\* A running Runtime has a frozen configuration, a stream its attempt.
RtTyped == rt \in RtType /\ (rt.state = "running" => rt.cfg \in Configs)
LoopTyped == loop \in LoopType /\ (loop.pc = "stream" => loop.attempt \in Attempts)
Typed == RtTyped /\ LoopTyped /\ seq \in Nat /\ env \in Env

\* The Runtime without a Run.
LEMMA NoRunTyped ==
  ASSUME NEW s \in {"down", "idle", "running", "closed"}, NEW b \in BOOLEAN
  PROVE  /\ NoRun \in RtType /\ NoRun.state = "down"
         /\ [NoRun EXCEPT !.state = s, !.closing = b] \in RtType
         /\ [NoRun EXCEPT !.state = s, !.closing = b].state = s
         /\ [NoRun EXCEPT !.state = s] \in RtType /\ [NoRun EXCEPT !.state = s].state = s
BY DEF NoRun, RtType

\* A Runtime whose Run starts.
LEMMA ActivateTyped ==
  ASSUME NEW r \in Runs, NEW g \in Configs, Activate(r, g)
  PROVE  /\ RtTyped' /\ LoopTyped'
         /\ rt'.state = "running" /\ rt'.active = r
         /\ rt'.attempts = 0 /\ rt'.calls = 0 /\ rt'.tokens = 0
         /\ loop'.pc = "ready"
BY DEF Activate, NoRun, NoLoop, RtType, LoopType, RtTyped, LoopTyped, CallPlaces, Places, Outcomes

\* A loop that is gone.
LEMMA NoLoopTyped ==
  ASSUME loop' = NoLoop
  PROVE  LoopTyped' /\ loop'.pc = "none"
BY DEF NoLoop, LoopType, LoopTyped, CallPlaces, Places, Outcomes

\* A loop that ends its Run.
LEMMA EndWithTyped ==
  ASSUME NEW o \in Outcomes, EndWith(o)
  PROVE  LoopTyped' /\ loop'.pc = "finish" /\ loop'.out = o
BY DEF EndWith, NoLoop, LoopType, LoopTyped, CallPlaces, Places, Outcomes

\* A loop that goes on.
LEMMA GotoTyped ==
  ASSUME LoopTyped, NEW pc \in Places \ {"stream"}, Goto(pc)
  PROVE  LoopTyped' /\ loop'.pc = pc /\ loop'.work = loop.work
BY DEF Goto, LoopType, LoopTyped

\* A call that gets a result.
LEMMA CallResultTyped ==
  ASSUME LoopTyped, NEW c \in Calls, NEW s \in {"succeeded", "failed"}, NEW v \in BOOLEAN,
         CallResult(c, s, v)
  PROVE  LoopTyped' /\ loop'.pc = loop.pc
BY DEF CallResult, LoopType, LoopTyped, CallPlaces

\* A call that goes on.
LEMMA WorkTyped ==
  ASSUME LoopTyped, NEW c \in Calls, NEW s \in {"marked", "inside"},
         loop' = [loop EXCEPT !.work[c] = s]
  PROVE  LoopTyped' /\ loop'.pc = loop.pc
BY DEF LoopType, LoopTyped, CallPlaces

\* A transaction that fails, an input that is accepted.
LEMMA OutsideTyped ==
  ASSUME env \in Env
  PROVE  /\ \A ok, next : Errs(ok, next, env) => env' \in Env
         /\ \A m \in Messages : Accept(m) => env' \in Env
<1>1. ASSUME NEW ok, NEW next, Errs(ok, next, env) PROVE env' \in Env
  <2>1. CASE env' = env
    BY <2>1
  <2>2. CASE env' = [env EXCEPT !.faults = @ + 1]
    BY <2>2 DEF Env
  <2> QED
    BY <1>1, <2>1, <2>2 DEF Errs
<1>2. ASSUME NEW m \in Messages, Accept(m) PROVE env' \in Env
  BY <1>2 DEF Accept, Env
<1> QED
  BY <1>1, <1>2

\* The bounds of an instance are numbers.
LEMMA Numbers ==
  /\ MaxModelAttemptsPerRun \in Nat /\ MaxToolCallsPerRun \in Nat /\ MaxTokensPerRun \in Nat
  /\ Usage \subseteq Nat /\ Batches \subseteq Nat /\ MaxTries \in Nat
  /\ Inputs \subseteq Messages /\ Proposals \subseteq Messages /\ Answers \subseteq Messages
  /\ ReclassifyTo \subseteq Deliveries
BY RuntimeAssumption

\* Every step of the loop that keeps its Run keeps the types.
LEMMA LoopTypedStep ==
  ASSUME Typed, Shapes, ProposalLeft, InputInv',
         \/ ActCanceled \/ RequestModel \/ RecordBudget \/ PrepareModelRequest
         \/ ComponentFails \/ Started
         \/ \E o \in {"succeeded", "failed", "canceled"}, t \in Usage : Finished(o, t)
         \/ \E n \in Batches : CommitCompletion(n)
         \/ \E p \in BOOLEAN : EvaluateCompletion(p)
         \/ ContinueOrComplete
  PROVE  Typed'
<1> USE DEF Typed
<1>0. RtTyped /\ LoopTyped /\ seq \in Nat /\ env \in Env
  OBVIOUS
<1>1. {"natural", "canceled", "failed", "budget"} \subseteq Outcomes
      /\ {"ready", "prepare", "execute", "complete", "gate", "decide", "tools", "dispatch",
          "finish"} \subseteq Places \ {"stream"}
  BY DEF Outcomes, Places
<1>2. UNCHANGED rt => RtTyped'
  BY <1>0 DEF RtTyped
<1>3. CASE ActCanceled
  BY <1>0, <1>1, <1>2, <1>3, EndWithTyped DEF ActCanceled
<1>4. CASE RequestModel
  BY <1>0, <1>1, <1>2, <1>4, GotoTyped DEF RequestModel
<1>5. CASE RecordBudget
  <2>1. env' \in Env
    BY <1>0, <1>5, OutsideTyped DEF RecordBudget
  <2>2. LoopTyped'
    BY <1>1, <1>5, EndWithTyped DEF RecordBudget
  <2>3. rt' = rt /\ seq' = seq
    BY <1>5 DEF RecordBudget
  <2> QED
    BY <1>0, <1>2, <2>1, <2>2, <2>3
<1>6. CASE PrepareModelRequest
  <2>1. env' \in Env
    BY <1>0, <1>6, OutsideTyped DEF PrepareModelRequest
  <2>2. ASSUME loop' = [loop EXCEPT !.pc = "execute", !.tries = 1] PROVE LoopTyped'
    BY <1>0, <2>2 DEF LoopTyped, LoopType, Places
  <2>3. LoopTyped'
    BY <1>1, <1>6, <2>2, EndWithTyped DEF PrepareModelRequest
  <2>4. rt' = rt /\ seq' = seq
    BY <1>6 DEF PrepareModelRequest
  <2> QED
    BY <1>0, <1>2, <2>1, <2>3, <2>4
<1>7. CASE ComponentFails
  BY <1>0, <1>1, <1>2, <1>7, EndWithTyped DEF ComponentFails
<1>8. CASE Started
  <2>1. env' \in Env
    BY <1>0, <1>8, OutsideTyped DEF Started
  <2>2. seq' = seq + 1 /\ seq + 1 \in Attempts
    BY <1>8 DEF Started
  <2>3. ASSUME loop' = [loop EXCEPT !.pc = "stream", !.attempt = seq + 1] PROVE LoopTyped'
    BY <1>0, <2>2, <2>3 DEF LoopTyped, LoopType, Places
  <2>4. LoopTyped'
    BY <1>1, <1>8, <2>3, EndWithTyped DEF Started
  <2>5. ASSUME rt' = [rt EXCEPT !.attempts = @ + 1] PROVE RtTyped'
    BY <1>0, <2>5 DEF RtTyped, RtType
  <2>6. RtTyped'
    BY <1>2, <1>8, <2>5 DEF Started
  <2> QED
    BY <1>0, <2>1, <2>2, <2>4, <2>6
<1>9. ASSUME NEW o \in {"succeeded", "failed", "canceled"}, NEW t \in Usage, Finished(o, t)
      PROVE  Typed'
  <2>1. env' \in Env
    BY <1>0, <1>9, OutsideTyped DEF Finished
  <2>2. ASSUME loop' = [loop EXCEPT !.pc = "execute", !.tries = @ + 1] PROVE LoopTyped'
    <3> DEFINE x == loop.tries + 1
    <3>1. x \in Nat
      BY <1>0 DEF LoopTyped, LoopType
    <3>2. loop' = [loop EXCEPT !.pc = "execute", !.tries = x]
      BY <2>2
    <3> HIDE DEF x
    <3> QED
      BY <1>0, <3>1, <3>2 DEF LoopTyped, LoopType, Places
  <2>3. LoopTyped'
    BY <1>0, <1>1, <1>9, <2>2, EndWithTyped, GotoTyped DEF Finished
  <2>4. t \in Nat
    BY Numbers
  <2>5. ASSUME rt' = [rt EXCEPT !.tokens = @ + t] PROVE RtTyped'
    BY <1>0, <2>4, <2>5 DEF RtTyped, RtType
  <2>6. RtTyped' /\ seq' = seq
    BY <1>2, <1>9, <2>5 DEF Finished
  <2> QED
    BY <1>0, <2>1, <2>3, <2>6
<1>10. ASSUME NEW n \in Batches, CommitCompletion(n) PROVE Typed'
  <2>1. env' \in Env
    BY <1>0, <1>10, OutsideTyped DEF CommitCompletion
  <2>2. ASSUME NEW calls,
               loop' = [NoLoop EXCEPT !.pc = IF n = 0 THEN "gate" ELSE "tools",
                          !.work = [c \in Calls |-> IF c \in calls THEN "todo" ELSE "none"]]
        PROVE  LoopTyped'
    BY <2>2 DEF NoLoop, LoopTyped, LoopType, Places, CallPlaces, Outcomes
  <2>3. LoopTyped'
    BY <1>1, <1>10, <2>2, EndWithTyped DEF CommitCompletion
  <2>4. n \in Nat
    BY Numbers
  <2>5. ASSUME rt' = [rt EXCEPT !.calls = @ + n] PROVE RtTyped'
    BY <1>0, <2>4, <2>5 DEF RtTyped, RtType
  <2>6. RtTyped' /\ seq' = seq
    BY <1>2, <1>10, <2>5 DEF CommitCompletion
  <2> QED
    BY <1>0, <2>1, <2>3, <2>6
<1>11. ASSUME NEW p \in BOOLEAN, EvaluateCompletion(p) PROVE Typed'
  <2>1. ASSUME loop' = [loop EXCEPT !.pc = "decide", !.proposal = p] PROVE LoopTyped'
    BY <1>0, <2>1 DEF LoopTyped, LoopType, Places
  <2>2. LoopTyped' /\ rt' = rt /\ seq' = seq /\ env' = env
    BY <1>1, <1>11, <2>1, EndWithTyped DEF EvaluateCompletion
  <2> QED
    BY <1>0, <1>2, <2>2
<1>12. CASE ContinueOrComplete
  <2>1. ASSUME Accept(FreshProposal), loop.proposal PROVE env' \in Env
    <3>1. FreshProposal \in Messages
      BY <1>12, <2>1, FreshIs, Numbers DEF ProposalLeft, ContinueOrComplete
    <3> QED
      BY <1>0, <2>1, <3>1, OutsideTyped
  <2>2. env' \in Env
    BY <1>0, <1>12, <2>1, OutsideTyped DEF ContinueOrComplete
  <2>3. LoopTyped' /\ rt' = rt /\ seq' = seq
    BY <1>0, <1>1, <1>12, EndWithTyped, GotoTyped DEF ContinueOrComplete
  <2> QED
    BY <1>0, <1>2, <2>2, <2>3
<1> QED
  BY <1>3, <1>4, <1>5, <1>6, <1>7, <1>8, <1>9, <1>10, <1>11, <1>12

\* So does the execution of tools.
LEMMA ToolsTypedStep ==
  ASSUME Typed,
         \/ ExecuteTools \/ CommitToolResults
         \/ \E c \in Calls : RefuseCall(c) \/ MarkToolExecuting(c) \/ InvokeTool(c)
         \/ \E c \in Calls, s \in {"succeeded", "failed"}, v \in BOOLEAN : ToolReturns(c, s, v)
  PROVE  Typed'
<1> USE DEF Typed
<1>0. RtTyped /\ LoopTyped /\ seq \in Nat /\ env \in Env
  OBVIOUS
<1>1. {"canceled", "failed"} \subseteq Outcomes /\ {"dispatch"} \subseteq Places \ {"stream"}
  BY DEF Outcomes, Places
<1>2. UNCHANGED rt => RtTyped'
  BY <1>0 DEF RtTyped
<1>3. CASE ExecuteTools
  BY <1>0, <1>1, <1>2, <1>3, GotoTyped DEF ExecuteTools
<1>4. CASE CommitToolResults
  <2>1. env' \in Env
    BY <1>0, <1>4, OutsideTyped DEF CommitToolResults
  <2>2. ASSUME loop' = [NoLoop EXCEPT !.pc = "ready"] PROVE LoopTyped'
    BY <2>2 DEF NoLoop, LoopTyped, LoopType, Places, CallPlaces, Outcomes
  <2>3. LoopTyped' /\ rt' = rt /\ seq' = seq
    BY <1>1, <1>4, <2>2, EndWithTyped DEF CommitToolResults
  <2> QED
    BY <1>0, <1>2, <2>1, <2>3
<1>5. ASSUME NEW c \in Calls, RefuseCall(c) PROVE Typed'
  BY <1>0, <1>2, <1>5, CallResultTyped DEF RefuseCall
<1>6. ASSUME NEW c \in Calls, MarkToolExecuting(c) PROVE Typed'
  <2>1. env' \in Env
    BY <1>0, <1>6, OutsideTyped DEF MarkToolExecuting
  <2>2. LoopTyped' /\ rt' = rt /\ seq' = seq
    BY <1>0, <1>6, CallResultTyped, WorkTyped DEF MarkToolExecuting
  <2> QED
    BY <1>0, <1>2, <2>1, <2>2
<1>7. ASSUME NEW c \in Calls, InvokeTool(c) PROVE Typed'
  <2>1. env' \in Env
    BY <1>0, <1>7 DEF InvokeTool, Env
  <2>2. LoopTyped' /\ rt' = rt /\ seq' = seq
    BY <1>0, <1>7, WorkTyped DEF InvokeTool
  <2> QED
    BY <1>0, <1>2, <2>1, <2>2
<1>8. ASSUME NEW c \in Calls, NEW s \in {"succeeded", "failed"}, NEW v \in BOOLEAN,
             ToolReturns(c, s, v)
      PROVE  Typed'
  BY <1>0, <1>2, <1>8, CallResultTyped DEF ToolReturns
<1> QED
  BY <1>3, <1>4, <1>5, <1>6, <1>7, <1>8

\* What a restored Runtime counts is a number.
LEMMA RestoredTyped ==
  ASSUME NEW a, Document(a), a.runState = "running", a.activeRun \in Runs,
         \E g \in Configs : RunFrozen(a.history, a.activeRun, g)
  PROVE  /\ Restored(a) \in RtType /\ Restored(a).cfg \in Configs
         /\ Restored(a).state = "running" /\ Restored(a).active = a.activeRun
         /\ Restored(a).attempts = UsedBefore(a.history, Len(a.history), a.activeRun, "attempts")
         /\ Restored(a).calls = UsedBefore(a.history, Len(a.history), a.activeRun, "calls")
         /\ Restored(a).tokens = UsedBefore(a.history, Len(a.history), a.activeRun, "tokens")
<1>1. a.history \in Seq(Fact)
  BY DEF Document, Aggregate
<1>2. \A what \in LimitKinds : UsedBefore(a.history, Len(a.history), a.activeRun, what) \in Nat
  BY <1>1, UsesFinite
<1>3. ConfigOf(a, a.activeRun) \in Configs
  BY DEF ConfigOf
<1> DEFINE u(what) == UsedBefore(a.history, Len(a.history), a.activeRun, what)
           g == ConfigOf(a, a.activeRun)
<1>4. Restored(a) = [NoRun EXCEPT !.state = "running", !.active = a.activeRun, !.cfg = g,
                       !.attempts = u("attempts"), !.calls = u("calls"), !.tokens = u("tokens")]
  BY DEF Restored
<1>5. u("attempts") \in Nat /\ u("calls") \in Nat /\ u("tokens") \in Nat
  BY <1>2 DEF LimitKinds
<1> HIDE DEF u, g
<1>6. /\ Restored(a) \in RtType /\ Restored(a).cfg = g
      /\ Restored(a).state = "running" /\ Restored(a).active = a.activeRun
      /\ Restored(a).attempts = u("attempts")
      /\ Restored(a).calls = u("calls") /\ Restored(a).tokens = u("tokens")
  BY <1>3, <1>4, <1>5 DEF NoRun, RtType, g
<1> QED
  BY <1>3, <1>6 DEF u, g

\* So do the commands, the end of a Run, crashes and resumptions.
LEMMA OtherTypedStep ==
  ASSUME Typed, Shapes, RunInv, Document(agg), Document(agg)', RunInv',
         \/ Command \/ FinishRun \/ FinishClose \/ Crash \/ Resume \/ OtherSessionStarts
  PROVE  Typed'
<1> USE DEF Typed
<1>0. RtTyped /\ LoopTyped /\ seq \in Nat /\ env \in Env /\ agg.config \in Configs
  BY DEF Document, Aggregate
<1>1. (UNCHANGED rt => RtTyped') /\ (UNCHANGED loop => LoopTyped')
  BY <1>0 DEF RtTyped, LoopTyped
<1>2. CASE Send
  <2>1. env' \in Env
    BY <1>0, <1>2, FreshIs, Numbers, OutsideTyped DEF Send
  <2>2. RtTyped' /\ LoopTyped' /\ seq' = seq
    BY <1>0, <1>1, <1>2, FreshIs, ActivateTyped DEF Send
  <2> QED
    BY <1>0, <2>1, <2>2
<1>3. CASE SteerRun
  BY <1>0, <1>1, <1>3, FreshIs, Numbers, OutsideTyped DEF SteerRun
<1>4. CASE RunPending
  BY <1>0, <1>4, FreshIs, ActivateTyped DEF RunPending
<1>5. CASE Cancel
  <2>1. RtTyped'
    BY <1>0, <1>5 DEF Cancel, RtTyped, RtType
  <2> QED
    BY <1>0, <1>1, <1>5, <2>1 DEF Cancel
<1>6. CASE Close
  <2>1. RtTyped'
    BY <1>0, <1>6 DEF Close, RtTyped, RtType
  <2> QED
    BY <1>0, <1>1, <1>6, <2>1 DEF Close
<1>7. ASSUME NEW m \in Inputs, DeleteQueued(m) PROVE Typed'
  <2>1. env' \in Env
    BY <1>0, <1>7, Numbers DEF DeleteQueued, Env
  <2> QED
    BY <1>0, <1>1, <1>7, <2>1 DEF DeleteQueued
<1>8. ASSUME NEW m \in Inputs, NEW d \in ReclassifyTo, ReclassifyQueued(m, d) PROVE Typed'
  BY <1>0, <1>1, <1>8 DEF ReclassifyQueued
<1>9. ASSUME NEW g \in Configs, UpdateModelConfig(g) PROVE Typed'
  BY <1>0, <1>1, <1>9 DEF UpdateModelConfig
<1>10. CASE FinishRun
  <2>1. \A a : RecoverAfterRunFailure(a) => RtTyped' /\ LoopTyped'
    <3> SUFFICES ASSUME NEW a, RecoverAfterRunFailure(a) PROVE RtTyped' /\ LoopTyped'
      OBVIOUS
    <3>1. rt.closing \in BOOLEAN
      BY <1>0 DEF RtTyped, RtType
    <3> QED
      BY <3>1, NoRunTyped, NoLoopTyped DEF RecoverAfterRunFailure, RtTyped
  <2>2. RtTyped' /\ LoopTyped' /\ seq' = seq
    <3>1. rt.closing \in BOOLEAN
      BY <1>0 DEF RtTyped, RtType
    <3>2. ASSUME rt' = [NoRun EXCEPT !.state = "idle", !.closing = rt.closing], loop' = NoLoop
          PROVE  RtTyped' /\ LoopTyped'
      BY <3>1, <3>2, NoRunTyped, NoLoopTyped DEF RtTyped
    <3>3. ASSUME RunsLeft, Activate(FreshRun, agg.config) PROVE RtTyped' /\ LoopTyped'
      BY <1>0, <3>3, FreshIs, ActivateTyped
    <3> HIDE DEF Typed
    <3> QED
      BY <1>10, <2>1, <3>2, <3>3 DEF FinishRun
  <2>3. env' \in Env
    <3>1. env' = env \/ env' = [env EXCEPT !.faults = @ + 1] \/ env' = [env EXCEPT !.faults = @ + 2]
      BY <1>10 DEF FinishRun
    <3> QED
      BY <1>0, <3>1 DEF Env
  <2> QED
    BY <1>0, <2>2, <2>3
<1>11. CASE FinishClose
  BY <1>0, <1>1, <1>11, NoRunTyped DEF FinishClose, RtTyped
<1>12. CASE Crash
  <2>1. env' \in Env
    BY <1>0, <1>12 DEF Crash, Env
  <2>2. RtTyped' /\ LoopTyped' /\ seq' = 0
    BY <1>12, NoRunTyped, NoLoopTyped DEF Crash, RtTyped
  <2> QED
    BY <2>1, <2>2
<1>13. CASE Resume
  <2>1. agg' = Recovered(agg) /\ seq' = seq /\ env' = env
    BY <1>13 DEF Resume
  <2> DEFINE a == Recovered(agg)
  <2> HIDE DEF a
  <2>2. Document(a) /\ agg' = a
    BY <2>1 DEF a
  <2>3. CASE a.runState = "idle"
    <3>1. rt' = [NoRun EXCEPT !.state = "idle"] /\ loop' = NoLoop
      BY <1>13, <2>3 DEF Resume, a
    <3> QED
      BY <1>0, <2>1, <3>1, NoRunTyped, NoLoopTyped DEF RtTyped
  <2>4. CASE a.runState = "running"
    <3>1. /\ Restorable(a) /\ rt' = Restored(a)
          /\ loop' = IF LimitReached(a.history, a.activeRun)
                     THEN [NoLoop EXCEPT !.pc = "finish", !.out = "budget"]
                     ELSE [NoLoop EXCEPT !.pc = "tools",
                             !.work = [c \in Calls |->
                               IF a.journal[c].status = "prepared" THEN "todo" ELSE "none"]]
      BY <1>13, <2>4 DEF Resume, a
    <3>2. a.activeRun \in Runs
      BY <2>2, <2>4 DEF RunInv
    <3>3. RtTyped'
      BY <2>2, <2>4, <3>1, <3>2, RestoredTyped DEF Restorable, RtTyped
    <3>4. LoopTyped'
      BY <3>1 DEF NoLoop, LoopTyped, LoopType, Places, CallPlaces, Outcomes
    <3> QED
      BY <1>0, <2>1, <3>3, <3>4
  <2> QED
    BY <1>13, <2>3, <2>4 DEF Resume, a
<1>14. CASE OtherSessionStarts
  BY <1>0, <1>1, <1>14 DEF OtherSessionStarts
<1> QED
  BY <1>2, <1>3, <1>4, <1>5, <1>6, <1>7, <1>8, <1>9, <1>10, <1>11, <1>12, <1>13, <1>14 DEF Command

-----------------------------------------------------------------------------
(* Every step leaves a document.                                           *)

\* Between two batches no call is unfinished, in a batch the loop works on every
\* unfinished one, and a Run that has reached a limit has none.
BetweenBatches ==
  \/ loop.pc \in {"ready", "prepare", "execute", "stream", "complete", "gate", "decide"}
  \/ loop.pc = "finish" /\ loop.out = "natural"

InBatch ==
  loop.pc \in {"tools", "dispatch"} =>
    \A c \in Calls : agg.journal[c].status \in Unfinished => loop.work[c] # "none"

LimitStops == loop.pc \notin {"none", "finish"} => ~LimitReached(agg.history, rt.active)

LimitSettled(a) ==
  a.runState = "running" /\ LimitReached(a.history, a.activeRun) => NothingUnfinished(a)

BatchInv ==
  /\ BetweenBatches => NothingUnfinished(agg)
  /\ InBatch /\ LimitStops /\ LimitSettled(agg)

\* A limit.
LEMMA ReachLimitDocument ==
  ASSUME NEW a, Document(a), AggShape(a), NEW r \in Runs, NEW what \in LimitKinds,
         NEW used \in Nat, CanReachLimit(a, r, what, used)
  PROVE  Document(ReachLimit(a, r, what, used))
<1>1. Kept(a, ReachLimit(a, r, what, used))
  BY ReachLimitKept
<1> QED
  BY <1>1, LogDocument DEF ReachLimit

\* The start of an attempt.
LEMMA StartAttemptDocument ==
  ASSUME NEW a, Document(a), AggShape(a), NEW x \in Attempts, NEW r \in Runs, NEW g \in Configs,
         CanStartAttempt(a, x, r, g)
  PROVE  Document(StartAttempt(a, x, r, g))
<1>1. Kept(a, StartAttempt(a, x, r, g))
  BY StartAttemptKept
<1> QED
  BY <1>1, LogDocument DEF StartAttempt

\* The end of an attempt.
LEMMA FinishAttemptDocument ==
  ASSUME NEW a, Document(a), AggShape(a), NEW x \in Attempts, NEW r \in Runs, NEW g \in Configs,
         NEW o \in AttemptEnds, NEW t \in Nat, CanFinishAttempt(a, x, r, g)
  PROVE  Document(FinishAttempt(a, x, r, g, o, t))
<1> DEFINE b == FinishAttempt(a, x, r, g, o, t)
<1>1. b \in Aggregate /\ Sound(b)
  BY FinishAttemptSound DEF Document
<1>2. b.ext = a.ext
  BY DEF FinishAttempt, Log, Document, Aggregate
<1>3. Kept(a, b)
  BY <1>1, <1>2 DEF Kept
<1> HIDE DEF b
<1> QED
  BY <1>3, LogDocument DEF FinishAttempt, b

\* The Context.
LEMMA SetContextDocument ==
  ASSUME NEW a, Document(a), NEW r \in Runs, NEW g \in Configs, CanSetContext(a, r, g)
  PROVE  Document(SetContext(a, r, g, FALSE))
<1> DEFINE b == SetContext(a, r, g, FALSE)
<1>1. b \in Aggregate /\ Sound(b)
  BY ContextSound DEF Document
<1>2. /\ b.ext = a.ext /\ b.history = a.history
      /\ b.runState = a.runState /\ b.activeRun = a.activeRun
  BY DEF SetContext, Document, Aggregate
<1> HIDE DEF b
<1>3. Kept(a, b)
  BY <1>1, <1>2 DEF Kept
<1>4. Document(b)
  BY <1>2, <1>3, DocumentSame
<1> QED
  BY <1>4 DEF b

\* The execution mark of a call.
LEMMA MarkPendingDocument ==
  ASSUME NEW a, Document(a), NEW c \in Calls, NEW r \in Runs, a.journal[c].status = "prepared",
         CanMarkPending(a, c, r)
  PROVE  Document(MarkPending(a, c, r))
<1> DEFINE b == MarkPending(a, c, r)
<1>1. b \in Aggregate /\ Sound(b)
  BY PendingSound DEF Document
<1>2. /\ b.ext = a.ext /\ b.history = a.history
      /\ b.runState = a.runState /\ b.activeRun = a.activeRun
  BY DEF MarkPending, Document, Aggregate
<1> HIDE DEF b
<1>3. Kept(a, b)
  BY <1>1, <1>2 DEF Kept
<1>4. Document(b)
  BY <1>2, <1>3, DocumentSame
<1> QED
  BY <1>4 DEF b

\* The model configuration.
LEMMA SetModelConfigDocument ==
  ASSUME NEW a, Document(a), AggShape(a), NEW g \in Configs
  PROVE  Document(SetModelConfig(a, g))
<1> DEFINE b == SetModelConfig(a, g)
           f == FactOf("config", None, None, None, "none", g, 0)
<1>1. Kept(a, b)
  BY SetModelConfigKept DEF Document
<1>2. /\ b.runState = a.runState /\ b.activeRun = a.activeRun
      /\ Grows(a.history, b.history, {f})
  BY SetModelConfigFields
<1>3. f.kind = "config"
  BY DEF FactOf
<1> HIDE DEF b, f
<1>4. Document(b)
  BY <1>1, <1>2, <1>3, DocumentGrows
<1> QED
  BY <1>4 DEF b

\* The steers that are held.
LEMMA HoldSteersDocument ==
  ASSUME NEW a, Document(a), AggShape(a)
  PROVE  Document(HoldSteers(a)) /\ HoldSteers(a).journal = a.journal /\ AggShape(HoldSteers(a))
<1>1. Kept(a, HoldSteers(a))
  BY HoldSteersKept DEF Document
<1> QED
  BY <1>1, HoldSteersFields, DocumentSame

\* What a step of the loop on a document starts from.
LEMMA RunningFacts ==
  ASSUME RunInv, Typed, loop.pc # "none"
  PROVE  /\ rt.state = "running" /\ rt.active \in Runs /\ rt.cfg \in Configs
         /\ Active(agg, rt.active) /\ agg.runState = "running" /\ agg.activeRun = rt.active
         /\ rt.attempts \in Nat /\ rt.calls \in Nat /\ rt.tokens \in Nat
<1>1. rt.state = "running" /\ rt.active \in Runs /\ Active(agg, rt.active)
  BY DEF RunInv
<1>2. rt.cfg \in Configs /\ rt.attempts \in Nat /\ rt.calls \in Nat /\ rt.tokens \in Nat
  BY <1>1 DEF Typed, RtTyped, RtType
<1> QED
  BY <1>1, <1>2 DEF Active

\* A model action leaves a document.
LEMMA ModelDocument ==
  ASSUME Shapes, RunInv, Typed, Document(agg),
         \/ RecordBudget \/ PrepareModelRequest \/ Started
         \/ \E o \in {"succeeded", "failed", "canceled"}, t \in Usage : Finished(o, t)
         \/ \E n \in Batches : CommitCompletion(n)
  PROVE  Document(agg')
<1>0. AggShape(agg) /\ {"tokens", "attempts", "calls"} \subseteq LimitKinds
  BY DEF Shapes, LimitKinds
<1>1. loop.pc # "none"
  BY DEF RecordBudget, PrepareModelRequest, Started, Finished, CommitCompletion
<1>2. /\ rt.active \in Runs /\ rt.cfg \in Configs /\ Active(agg, rt.active)
      /\ rt.attempts \in Nat /\ rt.calls \in Nat /\ rt.tokens \in Nat
  BY <1>1, RunningFacts
<1>3. CASE RecordBudget
  <2>1. \/ agg' = agg
        \/ /\ CanReachLimit(agg, rt.active, "tokens", rt.tokens)
           /\ agg' = ReachLimit(agg, rt.active, "tokens", rt.tokens)
    BY <1>3 DEF RecordBudget, Commits, Errs
  <2> QED
    BY <1>0, <1>2, <2>1, ReachLimitDocument
<1>4. CASE PrepareModelRequest
  <2>1. \/ agg' = agg
        \/ CanSetContext(agg, rt.active, rt.cfg) /\ agg' = SetContext(agg, rt.active, rt.cfg, FALSE)
    BY <1>4 DEF PrepareModelRequest, Commits, Errs
  <2> QED
    BY <1>2, <2>1, SetContextDocument
<1>5. CASE Started
  <2>1. \/ agg' = agg
        \/ /\ CanReachLimit(agg, rt.active, "attempts", rt.attempts)
           /\ agg' = ReachLimit(agg, rt.active, "attempts", rt.attempts)
        \/ /\ seq + 1 \in Attempts /\ CanStartAttempt(agg, seq + 1, rt.active, rt.cfg)
           /\ agg' = StartAttempt(agg, seq + 1, rt.active, rt.cfg)
    BY <1>5 DEF Started, Commits, Errs
  <2> QED
    BY <1>0, <1>2, <2>1, ReachLimitDocument, StartAttemptDocument
<1>6. ASSUME NEW o \in {"succeeded", "failed", "canceled"}, NEW t \in Usage, Finished(o, t)
      PROVE  Document(agg')
  <2>1. \/ agg' = agg
        \/ /\ CanFinishAttempt(agg, loop.attempt, rt.active, rt.cfg)
           /\ agg' = FinishAttempt(agg, loop.attempt, rt.active, rt.cfg, o, t)
    BY <1>6 DEF Finished, Commits, Errs
  <2>2. loop.attempt \in Attempts
    BY <1>6 DEF Finished, Typed, LoopTyped
  <2>3. o \in AttemptEnds /\ t \in Nat
    BY Numbers DEF AttemptEnds
  <2> QED
    BY <1>0, <1>2, <2>1, <2>2, <2>3, FinishAttemptDocument
<1>7. ASSUME NEW n \in Batches, CommitCompletion(n) PROVE Document(agg')
  <2> DEFINE m == FreshAnswer
             S == FreshCalls(n)
             said == AppendMessage(agg, m, rt.active, "assistant")
             ok == CanAppendMessage(agg, m) /\ \A c \in S : CanAdmitToolCall(said, c, m, rt.active)
             next == Answered(agg, m, rt.active, S)
             limit == ReachLimit(agg, rt.active, "calls", rt.calls)
             limitOk == CanReachLimit(agg, rt.active, "calls", rt.calls)
  <2>1. \/ /\ Canceled /\ EndWith("canceled") /\ agg' = agg /\ rt' = rt /\ env' = env
        \/ /\ Commits(limitOk, limit)
           /\ EndWith("budget") /\ rt' = rt /\ env' = env
        \/ \E any, to : Errs(any, to, env)
        \/ AnswersLeft(n) /\ Commits(ok, next)
    BY <1>7 DEF CommitCompletion, Answered
  <2>2. CASE AnswersLeft(n) /\ Commits(ok, next)
    <3>1. m \in Messages /\ S \in SUBSET Calls /\ \A c \in S : ~HasCall(agg.history, c)
      BY <2>2, FreshCallsAre, Numbers
    <3>2. CanAppendMessage(agg, m) /\ agg' = next
      BY <2>2 DEF Commits
    <3> HIDE DEF m, S
    <3> QED
      BY <1>0, <1>2, <3>1, <3>2, AnsweredDocument
  <2>3. CASE Commits(limitOk, limit)
    BY <1>0, <1>2, <2>3, ReachLimitDocument DEF Commits
  <2>4. ASSUME NEW any, NEW to, Errs(any, to, env) PROVE agg' = agg
    BY <2>4 DEF Errs
  <2> HIDE DEF m, S, said, ok, next, limit, limitOk
  <2> QED
    BY <2>1, <2>2, <2>3, <2>4
<1> QED
  BY <1>3, <1>4, <1>5, <1>6, <1>7

\* So do the execution of tools and the decision to go on.
LEMMA ToolsDocument ==
  ASSUME Shapes, RunInv, ToolInv, Typed, ProposalLeft, InputInv, Document(agg),
         \/ ContinueOrComplete \/ CommitToolResults
         \/ \E c \in Calls : MarkToolExecuting(c)
  PROVE  Document(agg')
<1>0. AggShape(agg)
  BY DEF Shapes
<1>1. loop.pc # "none"
  BY DEF ContinueOrComplete, CommitToolResults, MarkToolExecuting, MayBegin
<1>2. rt.active \in Runs /\ Active(agg, rt.active)
  BY <1>1, RunningFacts
<1>3. CASE ContinueOrComplete
  <2> DEFINE m == FreshProposal
             proposed == Enqueue(agg, m, "steer")
  <2>1. \/ agg' = agg
        \/ CanTakeSteers(agg, rt.active) /\ agg' = TakeSteers(agg, rt.active)
        \/ /\ loop.proposal /\ CanEnqueue(agg, m) /\ CanTakeInput(proposed, m, rt.active)
           /\ agg' = TakeInput(proposed, m, rt.active)
    BY <1>3 DEF ContinueOrComplete, Commits, Errs
  <2>2. CASE CanTakeSteers(agg, rt.active) /\ agg' = TakeSteers(agg, rt.active)
    <3>1. \A p \in Steering(agg) : ~HasMessage(agg.history, agg.queue[p].id)
      BY <2>2, CanTakeSteersMeans DEF NewSteers
    <3> QED
      BY <1>0, <1>2, <2>2, <3>1, TakeSteersDocument
  <2>3. CASE /\ loop.proposal /\ CanEnqueue(agg, m) /\ CanTakeInput(proposed, m, rt.active)
             /\ agg' = TakeInput(proposed, m, rt.active)
    <3>1. m \in Messages /\ "steer" \in Deliveries
      BY <1>3, <2>3, FreshIs, Numbers DEF ProposalLeft, ContinueOrComplete, Deliveries
    <3> HIDE DEF m
    <3>2. Document(proposed) /\ AggShape(proposed)
      BY <1>0, <2>3, <3>1, EnqueueDocument, EnqueueFields
    <3> HIDE DEF proposed
    <3> QED
      BY <1>2, <2>3, <3>2, TakeInputDocument
  <2> QED
    BY <2>1, <2>2, <2>3
<1>4. ASSUME NEW c \in Calls, MarkToolExecuting(c) PROVE Document(agg')
  <2>1. \/ agg' = agg
        \/ CanMarkPending(agg, c, rt.active) /\ agg' = MarkPending(agg, c, rt.active)
    BY <1>4 DEF MarkToolExecuting, Commits, Errs
  <2>2. agg.journal[c].status = "prepared"
    BY <1>4 DEF MarkToolExecuting, MayBegin, ToolInv, RanAsMarked
  <2> QED
    BY <1>2, <2>1, <2>2, MarkPendingDocument
<1>5. CASE CommitToolResults
  <2> DEFINE work == loop.work
             done == {c \in Calls : work[c] # "none"}
             settled == Settled(agg, work)
             next == TakeSteers(settled, rt.active)
             ok == /\ \A c \in done : CanSettleToolCall(agg, agg.history, c)
                   /\ CanTakeSteers(agg, rt.active)
  <2>1. /\ \A c \in done : work[c] \in {"succeeded", "failed"}
        /\ Commits(ok, next) \/ Errs(ok, next, env)
    BY <1>5 DEF CommitToolResults, Settled
  <2>2. CASE Errs(ok, next, env)
    BY <2>2 DEF Errs
  <2>3. CASE Commits(ok, next)
    <3>1. ok /\ agg' = next
      BY <2>3 DEF Commits
    <3>2. \A c \in Calls : work[c] # "none" => work[c] \in {"succeeded", "failed"}
      BY <2>1
    <3>3. \A c \in Done(work) : agg.journal[c].status \in Unfinished
      BY <3>1 DEF Done, CanSettleToolCall
    <3>4. \A p \in Steering(agg) : ~HasMessage(agg.history, agg.queue[p].id)
      BY <3>1, CanTakeSteersMeans DEF NewSteers
    <3> HIDE DEF work, ok
    <3>5. Document(settled)
      BY <1>0, <3>2, <3>3, SettledDocument
    <3>6. SettledTo(agg, settled, work)
      BY <1>0, <3>2, SettledFields
    <3> HIDE DEF settled
    <3>7. /\ AggShape(settled) /\ settled.queue = agg.queue /\ Steering(settled) = Steering(agg)
          /\ Grows(agg.history, settled.history,
                   {ResultFact(c, agg.journal[c].run, work[c]) : c \in Done(work)})
      BY <3>6 DEF SettledTo, Steering
    <3>8. \A p \in Steering(settled) : ~HasMessage(settled.history, settled.queue[p].id)
      <4>1. \A f \in {ResultFact(c, agg.journal[c].run, work[c]) : c \in Done(work)} :
              f.kind = "result"
        BY DEF ResultFact, FactOf
      <4>2. IsLog(agg.history)
        BY <1>0 DEF AggShape
      <4>3. \A x : HasMessage(settled.history, x) => HasMessage(agg.history, x)
        <5>1. \A i \in DOMAIN settled.history :
                \/ settled.history[i].kind = "result"
                \/ \E j \in DOMAIN agg.history : settled.history[i] = agg.history[j]
          BY <3>7, <4>1, <4>2, GrowsFacts
        <5> QED
          BY <5>1 DEF HasMessage
      <4> QED
        BY <3>4, <3>7, <4>3
    <3>9. Document(next)
      BY <1>2, <3>5, <3>7, <3>8, TakeSteersDocument
    <3> QED
      BY <3>1, <3>9
  <2> QED
    BY <2>1, <2>2, <2>3
<1> QED
  BY <1>3, <1>4, <1>5

\* So do the commands of the Gateway.
LEMMA CommandDocument ==
  ASSUME Shapes, RunInv, Typed, Document(agg), Command
  PROVE  Document(agg')
<1>0. AggShape(agg)
  BY DEF Shapes
<1>1. CASE Send
  <2> DEFINE m == FreshInput
             queued == Enqueue(agg, m, "normal")
             t == FreshRun
  <2>1. /\ m \in Messages /\ CanEnqueue(agg, m)
        /\ \/ agg' = queued
           \/ RunsLeft /\ CanBegin(queued, m, t) /\ agg' = Begin(queued, m, t)
    BY <1>1, FreshIs, Numbers DEF Send, Commits
  <2>2. RunsLeft => t \in Runs
    BY FreshIs
  <2> HIDE DEF m, t
  <2>3. "normal" \in Deliveries
    BY DEF Deliveries
  <2>4. Document(queued) /\ AggShape(queued)
    BY <1>0, <2>1, <2>3, EnqueueDocument, EnqueueFields
  <2> HIDE DEF queued
  <2> QED
    BY <2>1, <2>2, <2>4, BeginDocument
<1>2. CASE SteerRun
  <2>1. FreshInput \in Messages /\ CanEnqueue(agg, FreshInput) /\ "steer" \in Deliveries
        /\ agg' = Enqueue(agg, FreshInput, "steer")
    BY <1>2, FreshIs, Numbers DEF SteerRun, Commits, Deliveries
  <2> QED
    BY <1>0, <2>1, EnqueueDocument
<1>3. CASE RunPending
  <2>1. PICK i \in DOMAIN agg.queue : /\ CanBegin(agg, agg.queue[i].id, FreshRun)
                                     /\ agg' = Begin(agg, agg.queue[i].id, FreshRun)
    BY <1>3 DEF RunPending, Commits
  <2>2. FreshRun \in Runs
    BY <1>3, FreshIs DEF RunPending
  <2> QED
    BY <1>0, <2>1, <2>2, BeginDocument
<1>4. CASE Cancel \/ Close
  BY <1>4 DEF Cancel, Close
<1>5. ASSUME NEW m \in Inputs, DeleteQueued(m) PROVE Document(agg')
  BY <1>0, <1>5, Numbers, DeleteDocument DEF DeleteQueued, Commits
<1>6. ASSUME NEW m \in Inputs, NEW d \in ReclassifyTo, ReclassifyQueued(m, d) PROVE Document(agg')
  BY <1>0, <1>6, Numbers, ReclassifyDocument DEF ReclassifyQueued, Commits
<1>7. ASSUME NEW g \in Configs, UpdateModelConfig(g) PROVE Document(agg')
  BY <1>0, <1>7, SetModelConfigDocument DEF UpdateModelConfig, Commits
<1> QED
  BY <1>1, <1>2, <1>3, <1>4, <1>5, <1>6, <1>7 DEF Command

\* So does the end of a Run.
LEMMA FinishRunDocument ==
  ASSUME Shapes, RunInv, Typed, BatchInv, Document(agg), FinishRun
  PROVE  Document(agg')
<1> DEFINE r == rt.active
           o == FinalOutcome
           natural == o = "natural"
           held == IF natural THEN agg ELSE HoldSteers(agg)
           k == TerminalKind(o)
           ended == SetIdle(EndRun(held, r, rt.cfg, k))
           waiting == Selection(agg.queue, {i \in DOMAIN agg.queue : Normal(agg.queue[i])})
           chain == natural /\ ~rt.closing /\ waiting # <<>>
           m == waiting[1].id
           t == FreshRun
           next == IF chain THEN Begin(ended, m, t) ELSE ended
           ok == /\ CanEndRun(held, r, rt.cfg)
                 /\ chain => CanBegin(ended, m, t)
<1>1. /\ loop.pc = "finish" /\ (chain => RunsLeft) /\ AggShape(agg)
  BY DEF FinishRun, Shapes
<1>2. \/ Commits(ok, next)
      \/ agg' = Recovered(agg)
      \/ agg' = agg
  BY DEF FinishRun
<1>3. r \in Runs /\ rt.cfg \in Configs /\ k \in RunEnds
  BY <1>1, RunningFacts DEF TerminalKind, RunEnds
<1>4. chain => t \in Runs
  BY <1>1, FreshIs
<1>5. natural => loop.out = "natural"
  BY DEF FinalOutcome
<1>6. natural => NothingUnfinished(agg)
  BY <1>1, <1>5 DEF BatchInv, BetweenBatches
<1>7. chain => natural
  OBVIOUS
<1> HIDE DEF natural, o, waiting, k, m, t, r
<1>8. Document(held) /\ AggShape(held) /\ held.journal = agg.journal
  BY <1>1, HoldSteersDocument
<1> HIDE DEF held
<1>9. ASSUME Commits(ok, next) PROVE Document(agg')
  <2>1. CanEndRun(held, r, rt.cfg) /\ (chain => CanBegin(ended, m, t)) /\ agg' = next
        /\ CanCommit(next)
    BY <1>9 DEF Commits
  <2>2. EndsRun(held, ended, r, rt.cfg, k)
    BY <1>8, EndFields
  <2> HIDE DEF ended
  <2>3. AggShape(ended) /\ ended.journal = agg.journal /\ ended.runState = "idle"
    BY <1>8, <2>2 DEF EndsRun
  <2>4. NothingUnfinished(held)
    <3>1. CASE chain
      BY <1>6, <1>7, <1>8, <3>1 DEF NothingUnfinished
    <3>2. CASE ~chain
      <4>1. next = ended
        BY <3>2
      <4> QED
        BY <1>8, <2>1, <2>3, <4>1 DEF CanCommit, NothingUnfinished
    <3> QED
      BY <3>1, <3>2
  <2>5. Document(ended)
    BY <1>3, <1>8, <2>1, <2>4, EndDocument DEF ended
  <2> HIDE DEF chain
  <2>6. Document(next)
    BY <1>4, <2>1, <2>3, <2>5, BeginDocument
  <2> QED
    BY <2>1, <2>6
<1>10. ASSUME agg' = Recovered(agg) PROVE Document(agg')
  BY <1>1, <1>10, RecoveredDocument
<1> QED
  BY <1>2, <1>9, <1>10

\* Every step leaves a document.
LEMMA DocumentStep ==
  ASSUME Shapes, RunInv, ToolInv, Typed, ProposalLeft, InputInv, BatchInv, Document(agg), Next
  PROVE  Document(agg')
<1>0. AggShape(agg)
  BY DEF Shapes
<1>1. CASE \/ ActCanceled \/ RequestModel \/ ComponentFails \/ ExecuteTools
           \/ EvaluateCompletion(FALSE)
           \/ Proposals \ env.accepted # {} /\ EvaluateCompletion(TRUE)
  BY <1>1 DEF ActCanceled, RequestModel, ComponentFails, ExecuteTools, EvaluateCompletion
<1>2. CASE \/ RecordBudget \/ PrepareModelRequest \/ Started
           \/ \E o \in {"succeeded", "failed", "canceled"}, t \in Usage : Finished(o, t)
           \/ \E n \in Batches : CommitCompletion(n)
  BY <1>2, ModelDocument
<1>3. CASE \/ ContinueOrComplete \/ CommitToolResults
           \/ \E c \in Calls : MarkToolExecuting(c)
  BY <1>3, ToolsDocument
<1>4. CASE \/ \E c \in Calls : RefuseCall(c) \/ InvokeTool(c)
           \/ \E c \in Calls, s \in {"succeeded", "failed"}, v \in BOOLEAN : ToolReturns(c, s, v)
  BY <1>4 DEF RefuseCall, InvokeTool, ToolReturns
<1>5. CASE FinishRun
  BY <1>5, FinishRunDocument
<1>6. CASE Command
  BY <1>6, CommandDocument
<1>7. CASE FinishClose \/ Crash \/ OtherSessionStarts
  BY <1>7 DEF FinishClose, Crash, OtherSessionStarts
<1>8. CASE Resume
  BY <1>0, <1>8, RecoveredDocument DEF Resume
<1> QED
  BY <1>1, <1>2, <1>3, <1>4, <1>5, <1>6, <1>7, <1>8 DEF Next, LoopStep

\* Every step keeps the types.
LEMMA TypedStep ==
  ASSUME Shapes, RunInv, Typed, ProposalLeft, Document(agg), Document(agg'), InputInv', RunInv', Next
  PROVE  Typed'
<1>1. CASE \/ ActCanceled \/ RequestModel \/ RecordBudget \/ PrepareModelRequest
           \/ ComponentFails \/ Started
           \/ \E o \in {"succeeded", "failed", "canceled"}, t \in Usage : Finished(o, t)
           \/ \E n \in Batches : CommitCompletion(n)
           \/ EvaluateCompletion(FALSE)
           \/ Proposals \ env.accepted # {} /\ EvaluateCompletion(TRUE)
           \/ ContinueOrComplete
  BY <1>1, LoopTypedStep
<1>2. CASE \/ ExecuteTools \/ CommitToolResults
           \/ \E c \in Calls : RefuseCall(c) \/ MarkToolExecuting(c) \/ InvokeTool(c)
           \/ \E c \in Calls, s \in {"succeeded", "failed"}, v \in BOOLEAN : ToolReturns(c, s, v)
  BY <1>2, ToolsTypedStep
<1>3. CASE Command \/ FinishRun \/ FinishClose \/ Crash \/ Resume \/ OtherSessionStarts
  BY <1>3, OtherTypedStep
<1> QED
  BY <1>1, <1>2, <1>3 DEF Next, LoopStep

-----------------------------------------------------------------------------
(* Batches of calls and limits.                                            *)

\* Facts that are no limits reach none.
LEMMA LimitSame ==
  ASSUME NEW h, NEW k, NEW F, IsLog(h), Grows(h, k, F), \A f \in F : f.kind # "limit"
  PROVE  \A r : LimitReached(k, r) <=> LimitReached(h, r)
<1>1. /\ \A i \in DOMAIN k : k[i] \in F \/ \E j \in DOMAIN h : k[i] = h[j]
      /\ \A j \in DOMAIN h : \E i \in DOMAIN k : k[i] = h[j]
  BY GrowsFacts
<1> QED
  BY <1>1 DEF LimitReached

\* A Run that has not started has reached no limit.
LEMMA NoLimitYet ==
  ASSUME NEW a, Document(a), NEW r, ~RunHasStarted(a.history, r)
  PROVE  ~LimitReached(a.history, r)
<1> DEFINE h == a.history
<1>1. h \in Seq(Fact) /\ InsideRun(h)
  BY DEF Document, Aggregate, Sound, HistoryValid
<1> HIDE DEF h
<1> SUFFICES ASSUME NEW i \in DOMAIN h, h[i].kind = "limit", h[i].run = r PROVE FALSE
  BY DEF LimitReached, h
<1>2. PICK j \in 1..(i - 1) : h[j].kind = "run" /\ h[j].id = r /\ h[j].val = "started"
  BY <1>1 DEF InsideRun
<1>3. j \in DOMAIN h
  BY <1>1, <1>2
<1> QED
  BY <1>2, <1>3 DEF RunHasStarted, h

\* What the steps write is no limit, but for the limits.
LEMMA NoLimits ==
  /\ \A f : Lost(f) => f.kind # "limit"
  /\ \A r, v, g : RunFact(r, v, g).kind = "run"
  /\ \A m, r : UserMessage(m, r).kind = "message" /\ AnswerMessage(m, r).kind = "message"
  /\ \A c, r, m : CallFact(c, r, m).kind = "call"
  /\ \A c, r, s : ResultFact(c, r, s).kind = "result"
  /\ \A x, r, v, g, n : AttemptFact(x, r, v, g, n).kind = "attempt"
BY DEF Lost, RunFact, UserMessage, AnswerMessage, CallFact, ResultFact, AttemptFact, FactOf

\* A step that writes no limit.
NoLimit == \E F : Writes(F) /\ \A f \in F : f.kind # "limit"

\* Such a step reaches no limit.
LEMMA NoLimitSame ==
  ASSUME Shapes, NoLimit
  PROVE  \A r : LimitReached(agg'.history, r) <=> LimitReached(agg.history, r)
<1>1. PICK F : Writes(F) /\ \A f \in F : f.kind # "limit"
  BY DEF NoLimit
<1>2. IsLog(agg.history) /\ Grows(agg.history, agg'.history, F)
  BY <1>1 DEF Shapes, AggShape, Writes
<1> QED
  BY <1>1, <1>2, LimitSame

\* A step that writes nothing writes no limit.
LEMMA NothingIsNoLimit == Writes({}) => NoLimit
BY DEF NoLimit

\* Nothing happens to the loop or the journal.
LEMMA BatchSame ==
  ASSUME Shapes, BatchInv, NoLimit, Steady, loop' = loop, rt'.active = rt.active
  PROVE  BatchInv'
<1>1. \A r : LimitReached(agg'.history, r) <=> LimitReached(agg.history, r)
  BY NoLimitSame
<1> QED
  BY <1>1 DEF BatchInv, BetweenBatches, InBatch, LimitStops, LimitSettled, NothingUnfinished, Steady

\* Between two batches the Run may end or go on without reaching a limit.
LEMMA BatchIdle ==
  ASSUME Shapes, BatchInv, BetweenBatches, agg'.journal = agg.journal, loop'.pc \notin {"tools", "dispatch"},
         loop'.pc \notin {"none", "finish"} =>
           NoLimit /\ loop.pc \notin {"none", "finish"} /\ rt'.active = rt.active
  PROVE  BatchInv'
<1>1. NothingUnfinished(agg')
  BY DEF BatchInv, NothingUnfinished
<1>2. loop'.pc \notin {"none", "finish"} => ~LimitReached(agg'.history, rt'.active)
  BY NoLimitSame DEF BatchInv, LimitStops
<1> QED
  BY <1>1, <1>2 DEF BatchInv, BetweenBatches, InBatch, LimitStops, LimitSettled

\* A Run that ends otherwise leaves its batch behind.
LEMMA BatchLeft ==
  ASSUME Shapes, BatchInv, Steady, NoLimit, loop'.pc = "finish", loop'.out # "natural"
  PROVE  BatchInv'
<1>1. \A r : LimitReached(agg'.history, r) <=> LimitReached(agg.history, r)
  BY NoLimitSame
<1> QED
  BY <1>1 DEF BatchInv, BetweenBatches, InBatch, LimitStops, LimitSettled, NothingUnfinished, Steady

\* Without a loop only the limit of the active Run counts.
LEMMA BatchGone ==
  ASSUME loop'.pc = "none", LimitSettled(agg')
  PROVE  BatchInv'
BY DEF BatchInv, BetweenBatches, InBatch, LimitStops

\* Recover settles what a Run with a limit has left.
LEMMA LimitRecovered ==
  ASSUME NEW a, NEW b, AggShape(a), LimitSettled(a), RecoversTo(a, b)
  PROVE  LimitSettled(b)
<1>1. PICK F : Grows(a.history, b.history, F) /\ \A f \in F : Lost(f)
  BY DEF RecoversTo
<1>2. \A r : LimitReached(b.history, r) <=> LimitReached(a.history, r)
  BY <1>1, NoLimits, LimitSame DEF AggShape
<1>3. \A c \in Calls : b.journal[c].status \in Unfinished => a.journal[c].status \in Unfinished
  BY DEF RecoversTo, RecoveredStatus, Unfinished
<1>4. b.runState = "running" => a.runState = "running" /\ b.activeRun = a.activeRun
  BY DEF RecoversTo
<1> QED
  BY <1>2, <1>3, <1>4 DEF LimitSettled, NothingUnfinished

\* A Run begins.
LEMMA BatchBegins ==
  ASSUME Shapes, NothingUnfinished(agg), Document(agg), NEW r, ~RunHasStarted(agg.history, r),
         NoLimit, agg'.journal = agg.journal, loop'.pc = "ready", rt'.active = r
  PROVE  BatchInv'
<1>1. ~LimitReached(agg'.history, r)
  BY NoLimitYet, NoLimitSame
<1>2. NothingUnfinished(agg')
  BY DEF NothingUnfinished
<1> QED
  BY <1>1, <1>2 DEF BatchInv, BetweenBatches, InBatch, LimitStops, LimitSettled

\* The steps of the loop between two batches.
LEMMA BatchModelStep ==
  ASSUME Shapes, ProposalLeft, RunInv, BatchInv,
         \/ RequestModel \/ RecordBudget \/ PrepareModelRequest
         \/ ComponentFails \/ Started
         \/ \E o \in {"succeeded", "failed", "canceled"}, t \in Usage : Finished(o, t)
         \/ \E p \in BOOLEAN : EvaluateCompletion(p)
         \/ ContinueOrComplete
  PROVE  BatchInv'
<1>1. CASE RequestModel
  <2>1. loop.pc = "ready" /\ loop'.pc = "prepare" /\ agg' = agg /\ rt' = rt
    BY <1>1, GotoFields DEF RequestModel, Shapes
  <2> QED
    BY <2>1, NothingWritten, NothingIsNoLimit, BatchIdle DEF BetweenBatches, Steady
<1>2. CASE RecordBudget
  BY <1>2, RecordBudgetEffect, BatchIdle DEF BetweenBatches, Steady, LoopEnds
<1>3. CASE PrepareModelRequest
  BY <1>3, PrepareModelRequestEffect, NothingIsNoLimit, BatchIdle DEF BetweenBatches, Steady
<1>4. CASE ComponentFails
  <2>1. loop.pc \in {"prepare", "execute", "complete", "gate"} /\ loop'.pc = "finish" /\ agg' = agg
    BY <1>4, EndWithFields DEF ComponentFails
  <2> QED
    BY <2>1, BatchIdle DEF BetweenBatches
<1>5. CASE Started
  <2>1. /\ loop.pc = "execute" /\ agg'.journal = agg.journal /\ rt'.active = rt.active
        /\ \/ loop'.pc = "finish"
           \/ /\ loop'.pc = "stream"
              /\ Writes({AttemptFact(loop'.attempt, rt.active, "started", rt.cfg, 0)})
    BY <1>5, StartedEffect DEF Steady, SameRun
  <2>2. loop'.pc = "stream" => NoLimit
    BY <2>1, NoLimits DEF NoLimit
  <2> QED
    BY <2>1, <2>2, BatchIdle DEF BetweenBatches
<1>6. ASSUME NEW o \in {"succeeded", "failed", "canceled"}, NEW t \in Usage, Finished(o, t)
      PROVE  BatchInv'
  <2>1. /\ loop.pc = "stream" /\ agg'.journal = agg.journal /\ rt'.active = rt.active
        /\ \/ loop'.pc = "finish"
           \/ /\ loop'.pc \in {"complete", "execute"}
              /\ Writes({AttemptFact(loop.attempt, rt.active, o, rt.cfg, t)})
    BY <1>6, FinishedEffect DEF Steady, SameRun
  <2>2. loop'.pc # "finish" => NoLimit
    BY <2>1, NoLimits DEF NoLimit
  <2> QED
    BY <2>1, <2>2, BatchIdle DEF BetweenBatches
<1>7. ASSUME NEW p \in BOOLEAN, EvaluateCompletion(p) PROVE BatchInv'
  <2>1. loop.pc = "gate" /\ agg' = agg /\ rt' = rt
        /\ (EndWith("canceled") \/ loop' = [loop EXCEPT !.pc = "decide", !.proposal = p])
    BY <1>7 DEF EvaluateCompletion
  <2>2. loop'.pc \in {"finish", "decide"}
    BY <2>1, EndWithFields DEF Shapes, LoopShape
  <2> QED
    BY <2>1, <2>2, NothingWritten, NothingIsNoLimit, BatchIdle DEF BetweenBatches
<1>8. CASE ContinueOrComplete
  <2>1. /\ loop.pc = "decide" /\ agg'.journal = agg.journal /\ rt'.active = rt.active
        /\ \/ loop'.pc = "finish"
           \/ /\ loop'.pc = "ready"
              /\ Writes(SteerMessages(rt.active)) \/ Writes({UserMessage(FreshProposal, rt.active)})
    BY <1>8, ContinueOrCompleteEffect DEF Steady
  <2>2. \A f \in SteerMessages(rt.active) : f.kind # "limit"
    BY NoLimits DEF SteerMessages
  <2>3. loop'.pc = "ready" => NoLimit
    BY <2>1, <2>2, NoLimits DEF NoLimit
  <2> QED
    BY <2>1, <2>3, BatchIdle DEF BetweenBatches
<1> QED
  BY <1>1, <1>2, <1>3, <1>4, <1>5, <1>6, <1>7, <1>8

\* The steps that open, work on and close a batch.
LEMMA BatchToolsStep ==
  ASSUME Shapes, ToolInv, RunInv, BatchInv, 
         \/ ActCanceled \/ ExecuteTools \/ CommitToolResults
         \/ \E n \in Batches : CommitCompletion(n)
         \/ \E c \in Calls : RefuseCall(c) \/ MarkToolExecuting(c) \/ InvokeTool(c)
         \/ \E c \in Calls, s \in {"succeeded", "failed"}, v \in BOOLEAN : ToolReturns(c, s, v)
  PROVE  BatchInv'
<1>1. CASE ActCanceled
  <2>1. loop'.pc = "finish" /\ loop'.out # "natural" /\ agg' = agg
    BY <1>1, EndWithFields DEF ActCanceled
  <2> QED
    BY <2>1, NothingWritten, NothingIsNoLimit, BatchLeft DEF Steady
<1>2. CASE ExecuteTools
  <2>1. loop.pc = "tools" /\ loop'.pc = "dispatch" /\ loop'.work = loop.work /\ agg' = agg /\ rt' = rt
    BY <1>2, GotoFields DEF ExecuteTools, Shapes
  <2> QED
    BY <2>1 DEF BatchInv, BetweenBatches, InBatch, LimitStops
<1>3. ASSUME NEW n \in Batches, CommitCompletion(n) PROVE BatchInv'
  <2>1. loop.pc = "complete" /\ rt'.active = rt.active
        /\ agg'.runState = agg.runState /\ agg'.activeRun = agg.activeRun
    BY <1>3, CommitCompletionEffect DEF SameRun
  <2>2. CASE LoopEnds /\ Steady
    BY <2>1, <2>2, BatchIdle DEF BetweenBatches, LoopEnds, Steady
  <2>3. ASSUME NEW m \in Answers, NEW S \in SUBSET Calls,
               loop'.pc = IF n = 0 THEN "gate" ELSE "tools", Cardinality(S) = n,
               \A c \in Calls : loop'.work[c] = IF c \in S THEN "todo" ELSE "none",
               Writes({AnswerMessage(m, rt.active)} \cup {CallFact(c, rt.active, m) : c \in S}),
               Admits(S)
        PROVE  BatchInv'
    <3>1. \A f \in {AnswerMessage(m, rt.active)} \cup {CallFact(c, rt.active, m) : c \in S} : f.kind # "limit"
      BY NoLimits
    <3>2. NoLimit
      BY <2>3, <3>1 DEF NoLimit
    <3>3. NothingUnfinished(agg) /\ ~LimitReached(agg.history, rt.active) /\ agg.activeRun = rt.active
      BY <2>1 DEF BatchInv, BetweenBatches, LimitStops, RunInv, Active
    <3>4. ~LimitReached(agg'.history, rt.active)
      BY <3>2, <3>3, NoLimitSame
    <3>5. \A c \in Calls : agg'.journal[c].status \in Unfinished => c \in S
      BY <2>3, <3>3 DEF Admits, NothingUnfinished
    <3>6. n = 0 => S = {}
      <4>1. IsFiniteSet(S)
        BY RuntimeAssumption, FS_Subset
      <4> QED
        BY <2>3, <4>1, FS_EmptySet
    <3>7. CASE n = 0
      <4>1. NothingUnfinished(agg') /\ loop'.pc = "gate"
        BY <2>3, <3>5, <3>6, <3>7 DEF NothingUnfinished
      <4> QED
        BY <2>1, <3>4, <4>1 DEF BatchInv, BetweenBatches, InBatch, LimitStops, LimitSettled
    <3>8. CASE n # 0
      <4>1. loop'.pc = "tools"
            /\ \A c \in Calls : agg'.journal[c].status \in Unfinished => loop'.work[c] # "none"
        BY <2>3, <3>5, <3>8
      <4>2. ~LimitReached(agg'.history, agg'.activeRun)
        BY <2>1, <3>3, <3>4
      <4> QED
        BY <2>1, <3>4, <4>1, <4>2 DEF BatchInv, BetweenBatches, InBatch, LimitStops, LimitSettled
    <3> QED
      BY <3>7, <3>8
  <2> QED
    BY <1>3, <2>2, <2>3, CommitCompletionEffect
<1>4. ASSUME NEW c \in Calls,
             RefuseCall(c) \/ InvokeTool(c)
               \/ \E s \in {"succeeded", "failed"}, v \in BOOLEAN : ToolReturns(c, s, v)
      PROVE  BatchInv'
  <2>1. /\ agg' = agg /\ rt' = rt /\ loop.pc = "dispatch" /\ loop'.pc = "dispatch"
        /\ loop'.work[c] # "none" /\ \A d \in Calls : d # c => loop'.work[d] = loop.work[d]
    BY <1>4, CallEffect DEF CallMoves
  <2> QED
    BY <2>1 DEF BatchInv, BetweenBatches, InBatch, LimitStops
<1>5. ASSUME NEW c \in Calls, MarkToolExecuting(c) PROVE BatchInv'
  <2>1. /\ rt' = rt /\ Writes({}) /\ loop.pc = "dispatch" /\ loop'.pc = "dispatch"
        /\ agg'.runState = agg.runState /\ agg'.activeRun = agg.activeRun
        /\ loop'.work[c] # "none"
        /\ \A d \in Calls : d # c => loop'.work[d] = loop.work[d] /\ agg'.journal[d] = agg.journal[d]
    BY <1>5, MarkToolExecutingEffect DEF MayBegin, Steady
  <2>2. \A r : LimitReached(agg'.history, r) <=> LimitReached(agg.history, r)
    BY <2>1, NothingIsNoLimit, NoLimitSame
  <2>3. ~LimitReached(agg.history, rt.active) /\ agg.activeRun = rt.active
    BY <2>1 DEF BatchInv, LimitStops, RunInv, Active
  <2> QED
    BY <2>1, <2>2, <2>3 DEF BatchInv, BetweenBatches, InBatch, LimitStops, LimitSettled
<1>6. CASE CommitToolResults
  <2>1. /\ loop.pc = "dispatch" /\ rt' = rt /\ loop'.pc \in {"finish", "ready"}
        /\ agg'.runState = agg.runState /\ agg'.activeRun = agg.activeRun
    BY <1>6, CommitToolResultsEffect
  <2>2. CASE Writes({}) /\ Steady /\ loop'.pc = "finish"
    <3>1. loop'.out # "natural"
      <4>1. ASSUME loop' = [NoLoop EXCEPT !.pc = "ready"] PROVE loop'.pc = "ready"
        BY <4>1 DEF NoLoop
      <4>2. \/ EndWith("failed") \/ EndWith("canceled")
            \/ loop' = [NoLoop EXCEPT !.pc = "ready"]
        BY <1>6 DEF CommitToolResults
      <4>3. \A o : EndWith(o) => loop'.out = o
        BY EndWithFields
      <4> QED
        BY <2>2, <4>1, <4>2, <4>3
    <3> QED
      BY <2>2, <3>1, NothingIsNoLimit, BatchLeft
  <2>3. CASE /\ Writes({ResultFact(c, agg.journal[c].run, loop.work[c]) : c \in Done(loop.work)}
                         \cup SteerMessages(rt.active))
             /\ \A c \in Done(loop.work) : loop.work[c] \in {"succeeded", "failed"}
             /\ \A c \in Calls : agg'.journal[c].status =
                  IF c \in Done(loop.work) THEN loop.work[c] ELSE agg.journal[c].status
    <3>1. \A f \in {ResultFact(c, agg.journal[c].run, loop.work[c]) : c \in Done(loop.work)}
                    \cup SteerMessages(rt.active) : f.kind # "limit"
      BY NoLimits DEF SteerMessages
    <3>2. NoLimit
      BY <2>3, <3>1 DEF NoLimit
    <3>3. ~LimitReached(agg'.history, rt.active)
      BY <2>1, <3>2, NoLimitSame DEF BatchInv, LimitStops
    <3>4. NothingUnfinished(agg')
      BY <2>1, <2>3 DEF BatchInv, InBatch, NothingUnfinished, Done, Unfinished
    <3> QED
      BY <2>1, <3>3, <3>4 DEF BatchInv, BetweenBatches, InBatch, LimitStops, LimitSettled
  <2> QED
    BY <1>6, <2>2, <2>3, CommitToolResultsEffect
<1> QED
  BY <1>1, <1>2, <1>3, <1>4, <1>5, <1>6

\* A chain of Runs comes from a natural end.
LEMMA ChainIsNatural ==
  ASSUME Shapes, FinishRun, loop'.pc # "none"
  PROVE  loop.pc = "finish" /\ loop.out = "natural" /\ RunsLeft /\ Activate(FreshRun, agg.config)
<1>1. \A a : RecoverAfterRunFailure(a) => loop'.pc = "none"
  BY AfterRunFailure
<1>2. NoLoop.pc = "none"
  BY NoLoopFields
<1>3. FinalOutcome = "natural" => loop.out = "natural"
  BY DEF FinalOutcome
<1> QED
  BY <1>1, <1>2, <1>3 DEF FinishRun

\* The commands, the end of a Run, crashes and resumptions.
LEMMA BatchOtherStep ==
  ASSUME Shapes, RunInv, BatchInv, Document(agg),
         \/ Command \/ FinishRun \/ FinishClose \/ Crash \/ Resume \/ OtherSessionStarts
  PROVE  BatchInv'
<1>1. ASSUME NEW m, Arrived(m) PROVE BatchInv'
  BY <1>1, NothingIsNoLimit, BatchSame DEF Arrived
<1>2. ASSUME NEW m, NEW r, Begun(m, r) PROVE BatchInv'
  <2>1. NoLimit
    BY <1>2, NoLimits DEF Begun, NoLimit
  <2>2. NothingUnfinished(agg)
    BY <1>2, IdleMeans DEF Begun, Document
  <2> QED
    BY <1>2, <2>1, <2>2, BatchBegins DEF Begun
<1>3. CASE Send
  BY <1>1, <1>2, <1>3, SendEffect
<1>4. CASE SteerRun
  BY <1>1, <1>4, SteerRunEffect
<1>5. CASE RunPending
  BY <1>2, <1>5, RunPendingEffect
<1>6. CASE Cancel \/ Close
  <2>1. agg' = agg /\ loop' = loop /\ rt'.active = rt.active
    BY <1>6, StopEffect DEF SameRun
  <2> QED
    BY <2>1 DEF BatchInv, BetweenBatches, InBatch, LimitStops
<1>7. ASSUME NEW m \in Inputs, DeleteQueued(m) PROVE BatchInv'
  BY <1>7, DeleteQueuedEffect, NothingIsNoLimit, BatchSame
<1>8. ASSUME NEW m \in Inputs, NEW d \in ReclassifyTo, ReclassifyQueued(m, d) PROVE BatchInv'
  BY <1>8, ReclassifyQueuedEffect, NothingIsNoLimit, BatchSame
<1>9. ASSUME NEW g \in Configs, UpdateModelConfig(g) PROVE BatchInv'
  <2> DEFINE f == FactOf("config", None, None, None, "none", g, 0)
  <2>1. f.kind # "limit"
    BY DEF FactOf
  <2>3. Writes({f})
    BY <1>9, UpdateModelConfigEffect
  <2> HIDE DEF f
  <2>2. NoLimit
    BY <2>1, <2>3 DEF NoLimit
  <2> QED
    BY <1>9, <2>2, UpdateModelConfigEffect, BatchSame
<1>10. CASE FinishRun
  <2>1. CASE EndsHere
    BY <2>1, BatchGone DEF EndsHere, Stopped, LimitSettled
  <2>2. ASSUME NEW m, NEW r, GoesOnWith(m, r) PROVE BatchInv'
    <3>1. /\ agg'.journal = agg.journal /\ rt'.active = r /\ loop'.pc = "ready"
      BY <2>2 DEF GoesOnWith
    <3>2. PICK o : Writes({RunFact(rt.active, o, rt.cfg)}
                            \cup {RunFact(r, "started", agg.config), UserMessage(m, r)})
      BY <2>2 DEF GoesOnWith
    <3>3. NoLimit
      BY <3>2, NoLimits DEF NoLimit
    <3>4. loop.pc = "finish" /\ loop.out = "natural" /\ RunsLeft /\ Activate(FreshRun, agg.config)
      BY <1>10, <3>1, ChainIsNatural
    <3>40. FreshRun \in Runs /\ ~RunHasStarted(agg.history, FreshRun)
      BY <3>4, FreshIs
    <3>41. rt'.active = FreshRun
      BY <3>4, <3>40, ActivateFields
    <3>42. ~RunHasStarted(agg.history, r)
      BY <3>1, <3>40, <3>41
    <3>5. NothingUnfinished(agg)
      BY <3>4 DEF BatchInv, BetweenBatches
    <3> QED
      BY <3>1, <3>3, <3>42, <3>5, BatchBegins
  <2>3. CASE RecoversTo(agg, agg') /\ Stopped
    <3>1. LimitSettled(agg')
      BY <2>3, LimitRecovered DEF BatchInv, Shapes
    <3> QED
      BY <2>3, <3>1, BatchGone DEF Stopped
  <2>4. CASE agg' = agg /\ Stopped
    BY <2>4, BatchGone DEF BatchInv, Stopped
  <2> QED
    BY <1>10, <2>1, <2>2, <2>3, <2>4, FinishRunEffect
<1>11. CASE FinishClose \/ Crash
  <2>1. agg' = agg /\ loop'.pc = "none"
    BY <1>11, GoneEffect, NoneAssumption DEF RunInv
  <2> QED
    BY <2>1, BatchGone DEF BatchInv
<1>12. CASE Resume
  <2>1. RecoversTo(agg, agg')
    BY <1>12, ResumeEffect
  <2>2. LimitSettled(agg')
    BY <2>1, LimitRecovered DEF BatchInv, Shapes
  <2>3. \A c \in Calls : agg'.journal[c].status \in Unfinished => agg'.journal[c].status = "prepared"
    BY <2>1 DEF RecoversTo, RecoveredStatus, Unfinished
  <2>4. \/ loop' = NoLoop
        \/ loop' = [NoLoop EXCEPT !.pc = "finish", !.out = "budget"]
        \/ /\ agg'.runState = "running" /\ rt' = Restored(agg')
           /\ ~LimitReached(agg'.history, agg'.activeRun)
           /\ loop' = [NoLoop EXCEPT !.pc = "tools",
                         !.work = [c \in Calls |->
                           IF agg'.journal[c].status = "prepared" THEN "todo" ELSE "none"]]
    BY <1>12 DEF Resume
  <2>5. CASE loop' = NoLoop
    BY <2>2, <2>5, NoLoopFields, BatchGone
  <2>6. CASE loop' = [NoLoop EXCEPT !.pc = "finish", !.out = "budget"]
    <3>1. loop'.pc = "finish" /\ loop'.out = "budget"
      BY <2>6 DEF NoLoop
    <3> QED
      BY <2>2, <3>1 DEF BatchInv, BetweenBatches, InBatch, LimitStops
  <2>7. ASSUME agg'.runState = "running", rt' = Restored(agg'),
               ~LimitReached(agg'.history, agg'.activeRun),
               loop' = [NoLoop EXCEPT !.pc = "tools",
                         !.work = [c \in Calls |->
                           IF agg'.journal[c].status = "prepared" THEN "todo" ELSE "none"]]
        PROVE  BatchInv'
    <3>1. loop'.pc = "tools" /\ \A c \in Calls : agg'.journal[c].status = "prepared" => loop'.work[c] = "todo"
      BY <2>7 DEF NoLoop
    <3>2. rt'.active = agg'.activeRun
      BY <2>7 DEF Restored, NoRun
    <3> QED
      BY <2>2, <2>3, <2>7, <3>1, <3>2 DEF BatchInv, BetweenBatches, InBatch, LimitStops
  <2> QED
    BY <2>4, <2>5, <2>6, <2>7
<1>13. CASE OtherSessionStarts
  BY <1>13 DEF OtherSessionStarts, BatchInv, BetweenBatches, InBatch, LimitStops
<1> QED
  BY <1>3, <1>4, <1>5, <1>6, <1>7, <1>8, <1>9, <1>10, <1>11, <1>12, <1>13 DEF Command

\* Every step keeps a batch and the limits together.
LEMMA BatchStep ==
  ASSUME Shapes, ProposalLeft, ToolInv, RunInv, BatchInv, Document(agg), Next
  PROVE  BatchInv'
<1>1. CASE \/ RequestModel \/ RecordBudget \/ PrepareModelRequest
           \/ ComponentFails \/ Started
           \/ \E o \in {"succeeded", "failed", "canceled"}, t \in Usage : Finished(o, t)
           \/ EvaluateCompletion(FALSE)
           \/ Proposals \ env.accepted # {} /\ EvaluateCompletion(TRUE)
           \/ ContinueOrComplete
  BY <1>1, BatchModelStep
<1>2. CASE \/ ActCanceled \/ ExecuteTools \/ CommitToolResults
           \/ \E n \in Batches : CommitCompletion(n)
           \/ \E c \in Calls : RefuseCall(c) \/ MarkToolExecuting(c) \/ InvokeTool(c)
           \/ \E c \in Calls, s \in {"succeeded", "failed"}, v \in BOOLEAN : ToolReturns(c, s, v)
  BY <1>2, BatchToolsStep
<1>3. CASE Command \/ FinishRun \/ FinishClose \/ Crash \/ Resume \/ OtherSessionStarts
  BY <1>3, BatchOtherStep
<1> QED
  BY <1>1, <1>2, <1>3 DEF Next, LoopStep

-----------------------------------------------------------------------------
(* The counters of the Runtime are what History shows.                     *)

Used(r, what) == UsedBefore(agg.history, Len(agg.history), r, what)

\* The counters of the Runtime and what its Run has used.
Counted ==
  /\ rt.attempts = Used(rt.active, "attempts")
  /\ rt.calls = Used(rt.active, "calls")
  /\ rt.tokens = Used(rt.active, "tokens")

WithinLimits(r) ==
  /\ MaxModelAttemptsPerRun > 0 => Used(r, "attempts") <= MaxModelAttemptsPerRun
  /\ MaxToolCallsPerRun > 0 => Used(r, "calls") <= MaxToolCallsPerRun

UsageInv == (\A r \in Runs : WithinLimits(r)) /\ (rt.state = "running" => Counted)

\* A step that writes nothing a limit counts.
UsesNothing == \E F : Writes(F) /\ \A f \in F : NoUse(f)

\* What such a step leaves of every count.
LEMMA CountsSame ==
  ASSUME Document(agg), Document(agg)', UsesNothing, NEW r, NEW what \in LimitKinds
  PROVE  UsedBefore(agg'.history, Len(agg'.history), r, what) = Used(r, what)
<1>1. agg.history \in Seq(Fact) /\ agg'.history \in Seq(Fact)
  BY DEF Document, Aggregate
<1>2. PICK F : Grows(agg.history, agg'.history, F) /\ \A f \in F : NoUse(f)
  BY DEF UsesNothing, Writes
<1>3. UsedBefore(agg'.history, Len(agg'.history), r, what)
        = UsedBefore(agg.history, Len(agg.history), r, what)
  BY <1>1, <1>2, UsedNothing
<1> QED
  BY <1>3 DEF Used

\* A step that uses nothing keeps the counts when the counters fit them.
LEMMA UsageQuiet ==
  ASSUME UsageInv, Document(agg), Document(agg)', UsesNothing,
         rt'.state = "running" =>
           /\ rt'.attempts = Used(rt'.active, "attempts")
           /\ rt'.calls = Used(rt'.active, "calls")
           /\ rt'.tokens = Used(rt'.active, "tokens")
  PROVE  UsageInv'
<1> DEFINE now(r, what) == UsedBefore(agg'.history, Len(agg'.history), r, what)
<1>1. \A r : /\ now(r, "attempts") = Used(r, "attempts")
             /\ now(r, "calls") = Used(r, "calls")
             /\ now(r, "tokens") = Used(r, "tokens")
  BY CountsSame DEF LimitKinds
<1>2. \A r \in Runs : WithinLimits(r)'
  <2> TAKE r \in Runs
  <2>1. WithinLimits(r)
    BY DEF UsageInv
  <2>2. Used(r, "attempts")' = Used(r, "attempts") /\ Used(r, "calls")' = Used(r, "calls")
    BY <1>1 DEF Used
  <2> QED
    BY <2>1, <2>2 DEF WithinLimits
<1>3. ASSUME rt'.state = "running" PROVE Counted'
  <2>1. /\ rt'.attempts = now(rt'.active, "attempts")
        /\ rt'.calls = now(rt'.active, "calls")
        /\ rt'.tokens = now(rt'.active, "tokens")
    BY <1>1, <1>3
  <2> QED
    BY <2>1 DEF Counted, Used
<1> QED
  BY <1>2, <1>3 DEF UsageInv

\* A step that leaves the Runtime and writes nothing a limit counts.
LEMMA UsageRest ==
  ASSUME UsageInv, Document(agg), Document(agg)', UsesNothing, rt' = rt
  PROVE  UsageInv'
BY UsageQuiet DEF UsageInv, Counted

\* A step without a running Runtime.
LEMMA UsageGone ==
  ASSUME UsageInv, Document(agg), Document(agg)', UsesNothing, rt'.state # "running"
  PROVE  UsageInv'
BY UsageQuiet

\* A Run that starts has used nothing.
LEMMA UsageFresh ==
  ASSUME UsageInv, Document(agg), Document(agg)', UsesNothing, RunsLeft,
         Activate(FreshRun, agg.config), agg.config \in Configs
  PROVE  UsageInv'
<1>1. FreshRun \in Runs /\ ~RunHasStarted(agg.history, FreshRun)
  BY FreshIs
<1>2. rt'.active = FreshRun /\ rt'.attempts = 0 /\ rt'.calls = 0 /\ rt'.tokens = 0
  BY <1>1, ActivateTyped
<1>3. \A what \in LimitKinds : Used(FreshRun, what) = 0
  BY <1>1, UnusedBefore DEF Used
<1>4. /\ Used(FreshRun, "attempts") = 0 /\ Used(FreshRun, "calls") = 0
      /\ Used(FreshRun, "tokens") = 0
  BY <1>3 DEF LimitKinds
<1> QED
  BY <1>2, <1>4, UsageQuiet

\* The facts no limit counts.
LEMMA NoUses ==
  /\ \A f : Lost(f) => NoUse(f)
  /\ \A f : f.kind = "limit" => NoUse(f)
  /\ \A r, v, g : NoUse(RunFact(r, v, g))
  /\ \A m, r : NoUse(UserMessage(m, r)) /\ NoUse(AnswerMessage(m, r))
  /\ \A c, r, s : NoUse(ResultFact(c, r, s))
  /\ \A g : NoUse(FactOf("config", None, None, None, "none", g, 0))
<1> USE DEF NoUse, StartsAttempt
<1>1. \A f : Lost(f) => NoUse(f)
  BY DEF Lost
<1>2. \A f : f.kind = "limit" => NoUse(f)
  OBVIOUS
<1>3. /\ \A r, v, g : RunFact(r, v, g).kind = "run"
      /\ \A m, r : UserMessage(m, r).kind = "message" /\ AnswerMessage(m, r).kind = "message"
      /\ \A c, r, s : ResultFact(c, r, s).kind = "result"
  BY NoLimits
<1>4. \A g : FactOf("config", None, None, None, "none", g, 0).kind = "config"
  BY DEF FactOf
<1> QED
  BY <1>1, <1>2, <1>3, <1>4

\* Steps that write such facts only use nothing.
LEMMA QuietWrites ==
  /\ Writes({}) => UsesNothing
  /\ AtMostLimit => UsesNothing
  /\ RecoversTo(agg, agg') => UsesNothing
  /\ \A r, m : Writes({RunFact(r, "started", agg.config), UserMessage(m, r)}) => UsesNothing
  /\ \A r, o, g : Writes({RunFact(r, o, g)}) => UsesNothing
  /\ \A r : Writes(SteerMessages(r)) => UsesNothing
  /\ \A m, r : Writes({UserMessage(m, r)}) => UsesNothing
  /\ \A g : Writes({FactOf("config", None, None, None, "none", g, 0)}) => UsesNothing
<1>1. Writes({}) => UsesNothing
  BY DEF UsesNothing
<1>2. AtMostLimit => UsesNothing
  BY NoUses DEF UsesNothing, AtMostLimit
<1>3. RecoversTo(agg, agg') => UsesNothing
  <2> SUFFICES ASSUME RecoversTo(agg, agg') PROVE UsesNothing
    OBVIOUS
  <2>1. PICK F : Grows(agg.history, agg'.history, F) /\ \A f \in F : Lost(f)
    BY DEF RecoversTo
  <2> QED
    BY <2>1, NoUses DEF UsesNothing, Writes, RecoversTo
<1>4. \A r, m : Writes({RunFact(r, "started", agg.config), UserMessage(m, r)}) => UsesNothing
  <2> TAKE r, m
  <2>1. NoUse(RunFact(r, "started", agg.config)) /\ NoUse(UserMessage(m, r))
    BY NoUses
  <2> QED
    BY <2>1 DEF UsesNothing
<1>5. \A r, o, g : Writes({RunFact(r, o, g)}) => UsesNothing
  <2> TAKE r, o, g
  <2>1. NoUse(RunFact(r, o, g))
    BY NoUses
  <2> QED
    BY <2>1 DEF UsesNothing
<1>6. \A r : Writes(SteerMessages(r)) => UsesNothing
  <2> TAKE r
  <2>1. \A f \in SteerMessages(r) : NoUse(f)
    BY NoUses DEF SteerMessages
  <2> QED
    BY <2>1 DEF UsesNothing
<1>7. \A m, r : Writes({UserMessage(m, r)}) => UsesNothing
  <2> TAKE m, r
  <2>1. NoUse(UserMessage(m, r))
    BY NoUses
  <2> QED
    BY <2>1 DEF UsesNothing
<1>8. \A g : Writes({FactOf("config", None, None, None, "none", g, 0)}) => UsesNothing
  <2> TAKE g
  <2>1. NoUse(FactOf("config", None, None, None, "none", g, 0))
    BY NoUses
  <2> QED
    BY <2>1 DEF UsesNothing
<1> QED
  BY <1>1, <1>2, <1>3, <1>4, <1>5, <1>6, <1>7, <1>8

\* The History of a document.
LEMMA DocumentHistory ==
  ASSUME NEW a, Document(a)
  PROVE  a.history \in Seq(Fact) /\ AttemptsPaired(a.history) /\ CallsPaired(a.history)
<1>1. a \in Aggregate /\ HistoryValid(a.history)
  BY DEF Document, Sound
<1>2. a.history \in Seq(Fact)
  BY <1>1 DEF Aggregate
<1> QED
  BY <1>1, <1>2 DEF HistoryValid

\* The start of an attempt is counted, below the limit.
LEMMA UsageStarted ==
  ASSUME Shapes, RunInv, Typed, UsageInv, Document(agg), Document(agg)', Started
  PROVE  UsageInv'
<1> DEFINE f == AttemptFact(loop'.attempt, rt.active, "started", rt.cfg, 0)
<1>1. \/ AtMostLimit /\ rt' = rt
      \/ /\ ~(MaxModelAttemptsPerRun > 0 /\ rt.attempts >= MaxModelAttemptsPerRun)
         /\ rt' = [rt EXCEPT !.attempts = @ + 1]
         /\ Writes({f}) /\ ~AttemptHasStarted(agg.history, loop'.attempt)
  BY StartedEffect
<1>2. CASE AtMostLimit /\ rt' = rt
  BY <1>2, QuietWrites, UsageRest
<1>3. ASSUME ~(MaxModelAttemptsPerRun > 0 /\ rt.attempts >= MaxModelAttemptsPerRun),
             rt' = [rt EXCEPT !.attempts = @ + 1],
             Writes({f}), ~AttemptHasStarted(agg.history, loop'.attempt)
      PROVE  UsageInv'
  <2> DEFINE h == agg.history
             k == agg'.history
  <2>1. h \in Seq(Fact) /\ k \in Seq(Fact) /\ Grows(h, k, {f}) /\ AttemptsPaired(k)
    BY <1>3, DocumentHistory DEF Writes
  <2>2. f.kind = "attempt" /\ f.val = "started" /\ f.run = rt.active /\ f.id = loop'.attempt
    BY DEF AttemptFact, FactOf
  <2>3. StartsAttempt(f)
    BY <2>2 DEF StartsAttempt
  <2>4. \A i \in DOMAIN h : h[i] # f
    BY <1>3, <2>2 DEF AttemptHasStarted
  <2>5. loop.pc # "none"
    BY StartedEffect
  <2>6. /\ rt.state = "running" /\ rt.active \in Runs
        /\ rt.attempts \in Nat /\ rt.calls \in Nat /\ rt.tokens \in Nat
    BY <2>5, RunningFacts
  <2>7. /\ rt'.active = rt.active /\ rt'.attempts = rt.attempts + 1
        /\ rt'.calls = rt.calls /\ rt'.tokens = rt.tokens
    BY <1>3 DEF Shapes, RtShape
  <2> HIDE DEF f
  <2>8. UsedBefore(k, Len(k), rt.active, "attempts") = Used(rt.active, "attempts") + 1
    BY <2>1, <2>2, <2>3, <2>4, AttemptsMore DEF Used
  <2>9. \A r : r # rt.active =>
          UsedBefore(k, Len(k), r, "attempts") = UsedBefore(h, Len(h), r, "attempts")
    BY <2>1, <2>2, AttemptsSame
  <2>10. \A r : UsedBefore(k, Len(k), r, "calls") = UsedBefore(h, Len(h), r, "calls")
    BY <2>1, <2>2, CallsSame
  <2>11. \A r : UsedBefore(k, Len(k), r, "tokens") = UsedBefore(h, Len(h), r, "tokens")
    BY <2>1, <2>2, TokensSame
  <2>12. Counted
    BY <2>6 DEF UsageInv
  <2>13. Counted'
    BY <2>7, <2>8, <2>10, <2>11, <2>12 DEF Counted, Used
  <2>14. ASSUME NEW r \in Runs PROVE WithinLimits(r)'
    <3>1. WithinLimits(r)
      BY DEF UsageInv
    <3>2. Used(r, "calls")' = Used(r, "calls")
      BY <2>10 DEF Used
    <3>3. CASE r = rt.active
      <4>1. Used(r, "attempts")' = rt.attempts + 1
        BY <2>8, <2>12, <3>3 DEF Counted, Used
      <4> QED
        BY <1>3, <2>6, <3>1, <3>2, <4>1, Numbers DEF WithinLimits
    <3>4. CASE r # rt.active
      <4>1. Used(r, "attempts")' = Used(r, "attempts")
        BY <2>9, <3>4 DEF Used
      <4> QED
        BY <3>1, <3>2, <4>1 DEF WithinLimits
    <3> QED
      BY <3>3, <3>4
  <2> QED
    BY <2>13, <2>14 DEF UsageInv
<1> QED
  BY <1>1, <1>2, <1>3

\* The tokens of an attempt are counted when its end is recorded.
LEMMA UsageFinished ==
  ASSUME Shapes, RunInv, Typed, AttemptInv, UsageInv, Document(agg), Document(agg)',
         NEW o \in {"succeeded", "failed", "canceled"}, NEW t \in Usage, Finished(o, t)
  PROVE  UsageInv'
<1> DEFINE f == AttemptFact(loop.attempt, rt.active, o, rt.cfg, t)
<1>1. \/ Writes({}) /\ rt' = rt
      \/ rt' = [rt EXCEPT !.tokens = @ + t] /\ Writes({f})
  BY FinishedEffect
<1>2. CASE Writes({}) /\ rt' = rt
  BY <1>2, QuietWrites, UsageRest
<1>3. ASSUME rt' = [rt EXCEPT !.tokens = @ + t], Writes({f})
      PROVE  UsageInv'
  <2> DEFINE h == agg.history
             k == agg'.history
  <2>1. h \in Seq(Fact) /\ k \in Seq(Fact) /\ Grows(h, k, {f}) /\ AttemptsPaired(k)
    BY <1>3, DocumentHistory DEF Writes
  <2>2. /\ f.kind = "attempt" /\ f.val # "started" /\ f.run = rt.active
        /\ f.id = loop.attempt /\ f.num = t
    BY DEF AttemptFact, FactOf
  <2>3. ~StartsAttempt(f)
    BY <2>2 DEF StartsAttempt
  <2>4. loop.pc = "stream"
    BY FinishedEffect
  <2>5. ~AttemptHasEnded(h, loop.attempt)
    BY <2>4 DEF AttemptInv, CanFinishAttempt
  <2>6. \A i \in DOMAIN h : h[i] # f
    BY <2>2, <2>5 DEF AttemptHasEnded
  <2>7. /\ rt.state = "running" /\ rt.active \in Runs
        /\ rt.attempts \in Nat /\ rt.calls \in Nat /\ rt.tokens \in Nat
    BY <2>4, RunningFacts
  <2>8. /\ rt'.active = rt.active /\ rt'.attempts = rt.attempts
        /\ rt'.calls = rt.calls /\ rt'.tokens = rt.tokens + t
    BY <1>3 DEF Shapes, RtShape
  <2> HIDE DEF f
  <2>9. UsedBefore(k, Len(k), rt.active, "tokens") = Used(rt.active, "tokens") + t
    <3>1. f.num \in Nat
      BY <2>2, Numbers
    <3> QED
      BY <2>1, <2>2, <2>6, <3>1, TokensMore DEF Used
  <2>10. \A r : UsedBefore(k, Len(k), r, "attempts") = UsedBefore(h, Len(h), r, "attempts")
    BY <2>1, <2>3, AttemptsSame
  <2>11. \A r : UsedBefore(k, Len(k), r, "calls") = UsedBefore(h, Len(h), r, "calls")
    BY <2>1, <2>2, CallsSame
  <2>12. Counted
    BY <2>7 DEF UsageInv
  <2>13. Counted'
    BY <2>8, <2>9, <2>10, <2>11, <2>12 DEF Counted, Used
  <2>14. ASSUME NEW r \in Runs PROVE WithinLimits(r)'
    <3>1. WithinLimits(r)
      BY DEF UsageInv
    <3>2. Used(r, "attempts")' = Used(r, "attempts") /\ Used(r, "calls")' = Used(r, "calls")
      BY <2>10, <2>11 DEF Used
    <3> QED
      BY <3>1, <3>2 DEF WithinLimits
  <2> QED
    BY <2>13, <2>14 DEF UsageInv
<1> QED
  BY <1>1, <1>2, <1>3

\* The calls of a completion are counted, within the limit.
LEMMA UsageCompletion ==
  ASSUME Shapes, RunInv, Typed, UsageInv, Document(agg), Document(agg)',
         NEW n \in Batches, CommitCompletion(n)
  PROVE  UsageInv'
<1>1. CASE AtMostLimit /\ rt' = rt
  BY <1>1, QuietWrites, UsageRest
<1>2. ASSUME NEW m \in Answers, NEW S \in SUBSET Calls,
             Cardinality(S) = n, \A c \in S : ~HasCall(agg.history, c),
             ~(MaxToolCallsPerRun > 0 /\ n > MaxToolCallsPerRun - rt.calls),
             rt' = [rt EXCEPT !.calls = @ + n],
             Writes({AnswerMessage(m, rt.active)} \cup {CallFact(c, rt.active, m) : c \in S})
      PROVE  UsageInv'
  <2> DEFINE h == agg.history
             k == agg'.history
             F == {AnswerMessage(m, rt.active)} \cup {CallFact(c, rt.active, m) : c \in S}
  <2>1. h \in Seq(Fact) /\ k \in Seq(Fact) /\ Grows(h, k, F) /\ CallsPaired(k)
    BY <1>2, DocumentHistory DEF Writes
  <2>2. IsFiniteSet(S) /\ n \in Nat
    BY Numbers, RuntimeAssumption, FS_Subset
  <2>3. /\ AnswerMessage(m, rt.active).kind = "message"
        /\ \A c : CallFact(c, rt.active, m).kind = "call" /\ CallFact(c, rt.active, m).run = rt.active
    BY DEF AnswerMessage, CallFact, FactOf
  <2>4. /\ \A c \in S : CallFact(c, rt.active, m) \in F
        /\ \A f \in F : f.kind = "call" => \E c \in S : f = CallFact(c, rt.active, m)
        /\ \A f \in F : f.kind # "attempt"
        /\ \A f \in F : f.kind = "call" => f.run = rt.active
    BY <2>3
  <2>5. loop.pc # "none"
    BY CommitCompletionEffect
  <2>6. /\ rt.state = "running" /\ rt.active \in Runs
        /\ rt.attempts \in Nat /\ rt.calls \in Nat /\ rt.tokens \in Nat
    BY <2>5, RunningFacts
  <2>7. /\ rt'.active = rt.active /\ rt'.attempts = rt.attempts
        /\ rt'.calls = rt.calls + n /\ rt'.tokens = rt.tokens
    BY <1>2 DEF Shapes, RtShape
  <2> HIDE DEF F
  <2>8. UsedBefore(k, Len(k), rt.active, "calls") = Used(rt.active, "calls") + n
    BY <1>2, <2>1, <2>2, <2>4, CallsMore DEF Used
  <2>9. \A r : r # rt.active =>
          UsedBefore(k, Len(k), r, "calls") = UsedBefore(h, Len(h), r, "calls")
    BY <2>1, <2>4, CallsSame
  <2>10. \A f \in F : ~StartsAttempt(f)
    BY <2>4 DEF StartsAttempt
  <2>11. \A r : UsedBefore(k, Len(k), r, "attempts") = UsedBefore(h, Len(h), r, "attempts")
    BY <2>1, <2>10, AttemptsSame
  <2>12. \A r : UsedBefore(k, Len(k), r, "tokens") = UsedBefore(h, Len(h), r, "tokens")
    BY <2>1, <2>4, TokensSame
  <2>13. Counted
    BY <2>6 DEF UsageInv
  <2>14. Counted'
    BY <2>7, <2>8, <2>11, <2>12, <2>13 DEF Counted, Used
  <2>15. ASSUME NEW r \in Runs PROVE WithinLimits(r)'
    <3>1. WithinLimits(r)
      BY DEF UsageInv
    <3>2. Used(r, "attempts")' = Used(r, "attempts")
      BY <2>11 DEF Used
    <3>3. CASE r = rt.active
      <4>1. Used(r, "calls")' = rt.calls + n
        BY <2>8, <2>13, <3>3 DEF Counted, Used
      <4> QED
        BY <1>2, <2>2, <2>6, <3>1, <3>2, <4>1, Numbers DEF WithinLimits
    <3>4. CASE r # rt.active
      <4>1. Used(r, "calls")' = Used(r, "calls")
        BY <2>9, <3>4 DEF Used
      <4> QED
        BY <3>1, <3>2, <4>1 DEF WithinLimits
    <3> QED
      BY <3>3, <3>4
  <2> QED
    BY <2>14, <2>15 DEF UsageInv
<1>3. \/ AtMostLimit /\ rt' = rt
      \/ \E m \in Answers, S \in SUBSET Calls :
           /\ Cardinality(S) = n /\ \A c \in S : ~HasCall(agg.history, c)
           /\ ~(MaxToolCallsPerRun > 0 /\ n > MaxToolCallsPerRun - rt.calls)
           /\ rt' = [rt EXCEPT !.calls = @ + n]
           /\ Writes({AnswerMessage(m, rt.active)} \cup {CallFact(c, rt.active, m) : c \in S})
  BY CommitCompletionEffect
<1> QED
  BY <1>1, <1>2, <1>3

\* The other steps of the loop use nothing.
LEMMA UsageLoop ==
  ASSUME Shapes, ProposalLeft, UsageInv, Document(agg), Document(agg)',
         \/ ActCanceled \/ RequestModel \/ RecordBudget \/ PrepareModelRequest
         \/ ComponentFails \/ ExecuteTools \/ CommitToolResults \/ ContinueOrComplete
         \/ \E p \in BOOLEAN : EvaluateCompletion(p)
         \/ \E c \in Calls : RefuseCall(c) \/ MarkToolExecuting(c) \/ InvokeTool(c)
         \/ \E c \in Calls, s \in {"succeeded", "failed"}, v \in BOOLEAN : ToolReturns(c, s, v)
  PROVE  UsageInv'
<1>1. agg' = agg => UsesNothing
  BY Unchanged, QuietWrites DEF Shapes
<1>2. CASE \/ ActCanceled \/ RequestModel \/ ComponentFails \/ ExecuteTools
           \/ \E p \in BOOLEAN : EvaluateCompletion(p)
  BY <1>1, <1>2, LoopEffect, UsageRest
<1>3. CASE RecordBudget \/ PrepareModelRequest
  BY <1>3, RecordBudgetEffect, PrepareModelRequestEffect, QuietWrites, UsageRest
<1>4. CASE ContinueOrComplete
  <2>1. rt' = rt
    BY <1>4, ContinueOrCompleteEffect
  <2>2. \/ Writes({}) \/ Writes(SteerMessages(rt.active))
        \/ Writes({UserMessage(FreshProposal, rt.active)})
    BY <1>4, ContinueOrCompleteEffect
  <2> QED
    BY <2>1, <2>2, QuietWrites, UsageRest
<1>5. CASE CommitToolResults
  <2> DEFINE R == {ResultFact(c, agg.journal[c].run, loop.work[c]) : c \in Done(loop.work)}
  <2>1. rt' = rt
    BY <1>5, CommitToolResultsEffect
  <2>2. Writes({}) \/ Writes(R \cup SteerMessages(rt.active))
    BY <1>5, CommitToolResultsEffect
  <2>3. \A f \in R \cup SteerMessages(rt.active) : NoUse(f)
    BY NoUses DEF SteerMessages
  <2> HIDE DEF R
  <2>4. UsesNothing
    BY <2>2, <2>3, QuietWrites DEF UsesNothing
  <2> QED
    BY <2>1, <2>4, UsageRest
<1>6. ASSUME NEW c \in Calls, MarkToolExecuting(c) PROVE UsageInv'
  BY <1>6, MarkToolExecutingEffect, QuietWrites, UsageRest
<1>7. ASSUME NEW c \in Calls,
             RefuseCall(c) \/ InvokeTool(c)
               \/ \E s \in {"succeeded", "failed"}, v \in BOOLEAN : ToolReturns(c, s, v)
      PROVE  UsageInv'
  <2>1. agg' = agg /\ rt' = rt
    BY <1>7, CallEffect
  <2> QED
    BY <1>1, <2>1, UsageRest
<1> QED
  BY <1>2, <1>3, <1>4, <1>5, <1>6, <1>7

\* A command, the end of a Run, a crash and a resumption count what is there.
LEMMA UsageOther ==
  ASSUME Shapes, RunInv, RunInv', UsageInv, Document(agg), Document(agg)',
         \/ Command \/ FinishRun \/ FinishClose \/ Crash \/ Resume \/ OtherSessionStarts
  PROVE  UsageInv'
<1>1. agg' = agg => UsesNothing
  BY Unchanged, QuietWrites DEF Shapes
<1>2. agg.config \in Configs
  BY DEF Document, Aggregate
<1>3. ASSUME NEW m, Arrived(m) PROVE UsageInv'
  BY <1>3, QuietWrites, UsageRest DEF Arrived
<1>4. ASSUME NEW m, NEW r, Begun(m, r), RunsLeft, Activate(FreshRun, agg.config)
      PROVE  UsageInv'
  <2>1. UsesNothing
    BY <1>4, QuietWrites DEF Begun
  <2> QED
    BY <1>2, <1>4, <2>1, UsageFresh
<1>5. CASE Send
  <2>1. CASE rt.state = "running"
    BY <1>3, <1>5, <2>1, SendEffect
  <2>2. CASE rt.state = "idle"
    <3>1. RunsLeft /\ Activate(FreshRun, agg.config)
      BY <1>5, <2>2 DEF Send
    <3> QED
      BY <1>4, <1>5, <2>2, <3>1, SendEffect
  <2> QED
    BY <1>5, <2>1, <2>2, SendEffect
<1>6. CASE SteerRun
  BY <1>3, <1>6, SteerRunEffect
<1>7. CASE RunPending
  <2>1. RunsLeft /\ Activate(FreshRun, agg.config)
    BY <1>7 DEF RunPending
  <2> QED
    BY <1>4, <1>7, <2>1, RunPendingEffect
<1>8. CASE Cancel \/ Close
  <2>1. agg' = agg
    BY <1>8, StopEffect
  <2>2. /\ rt'.state = rt.state /\ rt'.active = rt.active
        /\ rt'.attempts = rt.attempts /\ rt'.calls = rt.calls /\ rt'.tokens = rt.tokens
    BY <1>8 DEF Cancel, Close, Shapes, RtShape
  <2> QED
    BY <1>1, <2>1, <2>2, UsageQuiet DEF UsageInv, Counted
<1>9. ASSUME NEW m \in Inputs, DeleteQueued(m) PROVE UsageInv'
  BY <1>9, DeleteQueuedEffect, QuietWrites, UsageRest
<1>10. ASSUME NEW m \in Inputs, NEW d \in ReclassifyTo, ReclassifyQueued(m, d) PROVE UsageInv'
  BY <1>10, ReclassifyQueuedEffect, QuietWrites, UsageRest
<1>11. ASSUME NEW g \in Configs, UpdateModelConfig(g) PROVE UsageInv'
  BY <1>11, UpdateModelConfigEffect, QuietWrites, UsageRest
<1>12. CASE FinishRun
  <2>1. CASE EndsHere
    <3>1. PICK o : Writes({RunFact(rt.active, o, rt.cfg)}) /\ Stopped
      BY <2>1 DEF EndsHere
    <3> QED
      BY <3>1, QuietWrites, UsageGone DEF Stopped
  <2>2. ASSUME NEW m, NEW r, GoesOnWith(m, r) PROVE UsageInv'
    <3>1. loop'.pc = "ready"
      BY <2>2 DEF GoesOnWith
    <3>2. PICK o : Writes({RunFact(rt.active, o, rt.cfg)}
                            \cup {RunFact(r, "started", agg.config), UserMessage(m, r)})
      BY <2>2 DEF GoesOnWith
    <3>3. /\ NoUse(RunFact(rt.active, o, rt.cfg)) /\ NoUse(RunFact(r, "started", agg.config))
          /\ NoUse(UserMessage(m, r))
      BY NoUses
    <3>4. UsesNothing
      BY <3>2, <3>3 DEF UsesNothing
    <3>5. RunsLeft /\ Activate(FreshRun, agg.config)
      BY <1>12, <3>1, ChainIsNatural
    <3> QED
      BY <1>2, <3>4, <3>5, UsageFresh
  <2>3. CASE RecoversTo(agg, agg') /\ Stopped
    BY <2>3, QuietWrites, UsageGone DEF Stopped
  <2>4. CASE agg' = agg /\ Stopped
    BY <1>1, <2>4, UsageGone DEF Stopped
  <2> QED
    BY <1>12, <2>1, <2>2, <2>3, <2>4, FinishRunEffect
<1>13. CASE FinishClose \/ Crash
  <2>1. agg' = agg /\ rt'.state = "down"
    BY <1>13, GoneEffect
  <2> QED
    BY <1>1, <2>1, UsageGone
<1>14. CASE Resume
  <2>1. RecoversTo(agg, agg')
    BY <1>14, ResumeEffect
  <2>2. UsesNothing
    BY <2>1, QuietWrites
  <2>3. CASE rt'.state # "running"
    BY <2>2, <2>3, UsageGone
  <2>4. CASE rt'.state = "running"
    <3>1. /\ agg'.runState = "running" /\ RunFrozen(agg'.history, rt'.active, rt'.cfg)
          /\ rt'.active = agg'.activeRun
      BY <1>14, <2>4, ResumeEffect
    <3>2. rt' = Restored(agg')
      <4>1. [NoRun EXCEPT !.state = "idle"].state # "running"
        BY DEF NoRun
      <4> QED
        BY <1>14, <2>4, <4>1 DEF Resume
    <3>3. agg'.activeRun \in Runs
      BY <3>1 DEF RunInv
    <3>4. \E g \in Configs : RunFrozen(agg'.history, agg'.activeRun, g)
      BY <3>1, <1>14, <2>4 DEF Resume, Restorable
    <3>5. Counted'
      <4>1. /\ rt'.attempts = UsedBefore(agg'.history, Len(agg'.history), agg'.activeRun, "attempts")
            /\ rt'.calls = UsedBefore(agg'.history, Len(agg'.history), agg'.activeRun, "calls")
            /\ rt'.tokens = UsedBefore(agg'.history, Len(agg'.history), agg'.activeRun, "tokens")
        BY <3>1, <3>2, <3>3, <3>4, RestoredTyped
      <4> QED
        BY <3>1, <4>1 DEF Counted, Used
    <3>6. \A r : /\ UsedBefore(agg'.history, Len(agg'.history), r, "attempts") = Used(r, "attempts")
                 /\ UsedBefore(agg'.history, Len(agg'.history), r, "calls") = Used(r, "calls")
      BY <2>2, CountsSame DEF LimitKinds
    <3>7. \A r \in Runs : WithinLimits(r)'
      BY <3>6 DEF UsageInv, WithinLimits, Used
    <3> QED
      BY <3>5, <3>7 DEF UsageInv
  <2> QED
    BY <2>3, <2>4
<1>15. CASE OtherSessionStarts
  BY <1>1, <1>15, UsageRest DEF OtherSessionStarts
<1> QED
  BY <1>5, <1>6, <1>7, <1>8, <1>9, <1>10, <1>11, <1>12, <1>13, <1>14, <1>15 DEF Command

\* Every step keeps the counts and the limits.
LEMMA UsageStep ==
  ASSUME Shapes, ProposalLeft, RunInv, RunInv', Typed, AttemptInv, UsageInv,
         Document(agg), Document(agg)', Next
  PROVE  UsageInv'
<1>1. CASE Started
  BY <1>1, UsageStarted
<1>2. ASSUME NEW o \in {"succeeded", "failed", "canceled"}, NEW t \in Usage, Finished(o, t)
      PROVE  UsageInv'
  BY <1>2, UsageFinished
<1>3. ASSUME NEW n \in Batches, CommitCompletion(n) PROVE UsageInv'
  BY <1>3, UsageCompletion
<1>4. CASE \/ ActCanceled \/ RequestModel \/ RecordBudget \/ PrepareModelRequest
           \/ ComponentFails \/ ExecuteTools \/ CommitToolResults \/ ContinueOrComplete
           \/ \E p \in BOOLEAN : EvaluateCompletion(p)
           \/ \E c \in Calls : RefuseCall(c) \/ MarkToolExecuting(c) \/ InvokeTool(c)
           \/ \E c \in Calls, s \in {"succeeded", "failed"}, v \in BOOLEAN : ToolReturns(c, s, v)
  BY <1>4, UsageLoop
<1>5. CASE Command \/ FinishRun \/ FinishClose \/ Crash \/ Resume \/ OtherSessionStarts
  BY <1>5, UsageOther
<1> QED
  BY <1>1, <1>2, <1>3, <1>4, <1>5 DEF Next, LoopStep

-----------------------------------------------------------------------------
(* The inductive invariant with the document and the limits.               *)

DInv == IInv /\ Typed /\ Document(agg) /\ BatchInv /\ UsageInv

\* A new Session is a document.
LEMMA NewDocument ==
  ASSUME NEW g \in Configs
  PROVE  Document(NewAggregate(g))
<1> DEFINE a == NewAggregate(g)
<1>1. /\ a.history = <<>> /\ a.queue = <<>> /\ a.ext = <<>> /\ a.retained = <<>>
      /\ a.runState = "idle" /\ a.activeRun = None /\ a.ctx.version = 0
      /\ \A c \in Calls : a.journal[c] = [status |-> "absent", run |-> None]
  BY DEF NewAggregate
<1>2. a \in Aggregate
  <2>1. [c \in Calls |-> [status |-> "absent", run |-> None]] \in [Calls -> JournalEntry]
    BY DEF JournalEntry
  <2>2. [version |-> 0, run |-> None, cfg |-> None] \in ContextView
    BY DEF ContextView
  <2>3. /\ <<>> \in Seq(Fact) /\ <<>> \in Seq(QueueItem) /\ <<>> \in Seq(ContextView)
        /\ <<>> \in Seq(EntryOf(Invocations, Runs \cup {None}))
    OBVIOUS
  <2> QED
    BY <2>1, <2>2, <2>3 DEF NewAggregate, Aggregate
<1> HIDE DEF a
<1>3. DOMAIN a.history = {} /\ DOMAIN a.queue = {} /\ DOMAIN a.ext = {} /\ DOMAIN a.retained = {}
  BY <1>1
<1>4. HistoryValid(a.history)
  BY <1>3 DEF HistoryValid, MessagesUnique, CallsPaired, RunsPaired, AttemptsPaired,
              InsideRun, OncePerRun
<1>5. RunStateValid(a) /\ QueueUnique(a.queue)
  BY <1>1, <1>3 DEF RunStateValid, QueueUnique
<1>6. JournalValid(a)
  <2>1. \A c \in Calls : ~HasCall(a.history, c)
    BY <1>3 DEF HasCall
  <2> QED
    BY <1>1, <2>1 DEF JournalValid, Unfinished, JournalTerminal
<1>7. ContextValid(a) /\ ExtensionsValid(a)
  BY <1>1, <1>3 DEF ContextValid, ExtensionsValid
<1>8. CallsOfRuns(a.history) /\ ActiveOpen(a)
  BY <1>1, <1>3 DEF CallsOfRuns, ActiveOpen
<1> QED
  BY <1>1, <1>2, <1>4, <1>5, <1>6, <1>7, <1>8 DEF Document, Sound, a

\* The invariant holds initially.
LEMMA InitiallyDocument == Init => DInv
<1> SUFFICES ASSUME Init PROVE DInv
  OBVIOUS
<1>1. IInv
  BY Initially
<1>2. /\ agg.history = <<>> /\ agg.runState = "idle"
      /\ \A c \in Calls : agg.journal[c].status = "absent"
      /\ rt.state = "idle" /\ loop.pc = "none"
  BY InitShapes
<1>3. Document(agg)
  BY NewDocument DEF Init
<1>4. Typed
  <2>1. RtTyped
    <3>1. rt = [NoRun EXCEPT !.state = "idle"]
      BY DEF Init
    <3> QED
      BY <1>2, <3>1, NoRunTyped DEF RtTyped
  <2>2. LoopTyped
    <3>1. loop = NoLoop
      BY DEF Init
    <3> QED
      BY <1>2, <3>1 DEF LoopTyped, LoopType, NoLoop, Places, CallPlaces, Outcomes
  <2>3. seq \in Nat /\ env \in Env
    BY DEF Init, Env
  <2> QED
    BY <2>1, <2>2, <2>3 DEF Typed
<1>5. BatchInv
  BY <1>2 DEF BatchInv, BetweenBatches, InBatch, LimitStops, LimitSettled
<1>6. UsageInv
  <2>1. \A r : ~RunHasStarted(agg.history, r)
    BY <1>2 DEF RunHasStarted
  <2>2. \A r : Used(r, "attempts") = 0 /\ Used(r, "calls") = 0
    BY <1>3, <2>1, UnusedBefore DEF Used, LimitKinds
  <2> QED
    BY <1>2, <2>2, Numbers DEF UsageInv, WithinLimits
<1> QED
  BY <1>1, <1>3, <1>4, <1>5, <1>6 DEF DInv

\* Every step keeps it.
LEMMA InductiveDocument == DInv /\ [Next]_vars => DInv'
<1> SUFFICES ASSUME DInv, [Next]_vars PROVE DInv'
  OBVIOUS
<1>1. IInv'
  BY Inductive DEF DInv
<1>2. CASE Next
  <2> USE <1>2 DEF DInv
  <2>1. /\ Shapes /\ ProposalLeft /\ ToolInv /\ RunInv /\ AttemptInv /\ InputInv
        /\ RunInv' /\ InputInv'
    BY <1>1 DEF IInv
  <2>2. Document(agg)'
    BY <2>1, DocumentStep
  <2>3. Typed'
    BY <2>1, <2>2, TypedStep
  <2>4. BatchInv'
    BY <2>1, BatchStep
  <2>5. UsageInv'
    BY <2>1, <2>2, UsageStep
  <2> QED
    BY <1>1, <2>2, <2>3, <2>4, <2>5
<1>3. CASE UNCHANGED vars
  <2>1. agg' = agg /\ rt' = rt /\ loop' = loop /\ seq' = seq /\ env' = env
    BY <1>3 DEF vars
  <2>2. Typed'
    BY <2>1 DEF DInv, Typed, RtTyped, LoopTyped
  <2>3. Document(agg)'
    BY <2>1 DEF DInv
  <2>4. BatchInv'
    BY <2>1 DEF DInv, BatchInv, BetweenBatches, InBatch, LimitStops
  <2>5. UsageInv'
    BY <2>1 DEF DInv, UsageInv, WithinLimits, Counted, Used
  <2> QED
    BY <1>1, <2>2, <2>3, <2>4, <2>5 DEF DInv
<1> QED
  BY <1>2, <1>3

\* In every reachable state the Store holds a document, the loop and the
\* journal agree on the batch, and the counters are what History shows.
THEOREM DocumentInvariance == Spec => []DInv
BY InitiallyDocument, InductiveDocument, PTL DEF Spec

\* The limits of a Run hold over its whole durable life, crashes included, and
\* the counters of the Runtime are what History shows.
THEOREM LimitsAreKept == Spec => []LimitsHold
<1>1. DInv => LimitsHold
  <2> SUFFICES ASSUME DInv PROVE LimitsHold
    OBVIOUS
  <2>1. TypeOK
    BY DEF DInv, Document, Typed, RtTyped, RtType, LoopTyped, LoopType, TypeOK
  <2> QED
    BY <2>1 DEF DInv, UsageInv, WithinLimits, Counted, Used, LimitsHold
<1> QED
  BY <1>1, DocumentInvariance, PTL

\* What the Runtime needs of the Store holds of a document.
LEMMA DocumentIsValid ==
  ASSUME NEW a, Document(a), AggShape(a)
  PROVE  DocumentValid(a)
<1>1. Sound(a)
  BY DEF Document
<1>2. ClaimsBelong(a)
  BY DEF AggShape, QueueOK, ClaimsBelong
<1>3. QueueValid(a)
  BY <1>1, <1>2 DEF Sound, QueueUnique, QueueValid
<1> QED
  BY <1>1, <1>3 DEF Sound, HistoryValid, DocumentValid

\* The process may stop in any state: the Store can be read, Recover makes it
\* so again, a Run it leaves running can be opened, and a second Recover finds
\* nothing left to do.
THEOREM CrashesAreSafe == Spec => []CrashSafe
<1>1. DInv => CrashSafe
  <2> SUFFICES ASSUME DInv PROVE CrashSafe
    OBVIOUS
  <2> DEFINE a == Recovered(agg)
  <2>1. Document(agg) /\ AggShape(agg) /\ LimitSettled(agg)
    BY DEF DInv, IInv, Shapes, BatchInv
  <2>2. Document(a) /\ (a.runState = "running" => Recoverable(a))
    BY <2>1, RecoveredDocument
  <2>3. RecoversTo(agg, a)
    BY <2>1, RecoveredFields
  <2> HIDE DEF a
  <2>4. LimitSettled(a)
    BY <2>1, <2>3, LimitRecovered
  <2>5. AggShape(a) /\ AllEnded(a.history)
    BY <2>3 DEF RecoversTo
  <2>6. \A c \in Calls : a.journal[c].status # "pending"
    BY <2>3 DEF RecoversTo, RecoveredStatus
  <2>7. DocumentValid(agg) /\ DocumentValid(a)
    BY <2>1, <2>2, <2>5, DocumentIsValid
  <2>8. Recovered(a) = a
    BY <2>2, <2>5, <2>6, NothingToRecover
  <2>9. ASSUME a.runState = "running" PROVE Restorable(a)
    <3>1. \E g \in Configs : RunFrozen(a.history, a.activeRun, g)
      BY <2>2, <2>9 DEF Document, ActiveOpen
    <3>2. \E c \in Calls : a.journal[c].status = "prepared"
      BY <2>2, <2>9 DEF Recoverable, Document
    <3>3. ~LimitReached(a.history, a.activeRun)
      BY <2>4, <2>9, <3>2 DEF LimitSettled, NothingUnfinished, Unfinished
    <3> QED
      BY <3>1, <3>2, <3>3 DEF Restorable
  <2> QED
    BY <2>7, <2>8, <2>9 DEF CrashSafe, a
<1> QED
  BY <1>1, DocumentInvariance, PTL
=============================================================================
