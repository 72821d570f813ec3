--------------------------- MODULE DeliveryProofs ---------------------------
(***************************************************************************)
(* NoSilentGap and StopIsComplete for any number of clients, any limits    *)
(* and any number of commits, temporary events and failures.               *)
(*                                                                         *)
(* Neither is inductive.  That no revision falls between View and          *)
(* Subscribe needs the life of a subscription: a live stream is known to   *)
(* the hub, or to the closing hub, and to no pending Close.  That a stream *)
(* overflows only when its client is behind needs the queues' order, which *)
(* makes a full queue of revisions as many revisions as it has places.     *)
(* That a stopped application is silent needs how far each step of the     *)
(* stop can have come while the Runtime still lives.                       *)
(***************************************************************************)
EXTENDS Delivery, FiniteSetTheorems, SequenceTheorems, TLAPS

-----------------------------------------------------------------------------
(* Queues of events.                                                       *)

\* All revision events of a queue come before e.
Precede(queue, e) == \A r \in Revisions(queue) : r < e

LEMMA AppendIs ==
  ASSUME NEW q \in Seq(Nat), NEW e \in Nat, InOrder(q), e = 0 \/ Precede(q, e)
  PROVE  LET k == Append(q, e)
         IN  /\ k \in Seq(Nat) /\ Len(k) = Len(q) + 1
             /\ Revisions(k) = Revisions(q) \cup ({e} \ {0}) /\ InOrder(k)
<1> DEFINE k == Append(q, e)
<1>1. /\ k \in Seq(Nat) /\ Len(k) = Len(q) + 1 /\ Len(q) \in Nat
      /\ DOMAIN q = 1..Len(q) /\ DOMAIN k = 1..Len(q) + 1
      /\ \A i \in 1..Len(q) : k[i] = q[i]
      /\ k[Len(q) + 1] = e
  OBVIOUS
<1> HIDE DEF k
<1>2. Revisions(k) = Revisions(q) \cup ({e} \ {0})
  <2>1. DOMAIN k = DOMAIN q \cup {Len(q) + 1}
    BY <1>1
  <2> QED
    BY <1>1, <2>1 DEF Revisions
<1>3. InOrder(k)
  <2> SUFFICES ASSUME NEW i \in DOMAIN k, NEW j \in DOMAIN k, i < j, k[i] # 0, k[j] # 0
               PROVE  k[i] < k[j]
    BY DEF InOrder
  <2>1. i \in 1..Len(q)
    BY <1>1
  <2>2. CASE j \in 1..Len(q)
    BY <1>1, <2>1, <2>2 DEF InOrder
  <2>3. CASE j = Len(q) + 1
    <3>1. k[i] \in Revisions(q) /\ k[j] = e
      BY <1>1, <2>1, <2>3 DEF Revisions
    <3> QED
      BY <3>1 DEF Precede
  <2> QED
    BY <1>1, <2>2, <2>3
<1> QED
  BY <1>1, <1>2, <1>3 DEF k

\* Positions before and after one is left out.
LEMMA Shift ==
  ASSUME NEW L \in Nat, NEW n \in Int, NEW i \in 1..L - 1, NEW j \in 1..L - 1, i < j
  PROVE  LET x == IF i < n THEN i ELSE i + 1
             y == IF j < n THEN j ELSE j + 1
         IN  x \in 1..L /\ y \in 1..L /\ x < y
OBVIOUS

LEMMA Following ==
  ASSUME NEW L \in Nat, NEW i \in 1..L - 1
  PROVE  i + 1 \in 1..L /\ i + 1 \in 2..L
OBVIOUS

\* A queue without the event at the position n.
LEMMA WithoutIs ==
  ASSUME NEW q \in Seq(Nat), NEW n \in 1..Len(q)
  PROVE  LET k == SubSeq(q, 1, n - 1) \o SubSeq(q, n + 1, Len(q))
         IN  /\ k \in Seq(Nat) /\ Len(k) = Len(q) - 1
             /\ \A i \in 1..Len(q) - 1 : k[i] = IF i < n THEN q[i] ELSE q[i + 1]
<1> DEFINE a == SubSeq(q, 1, n - 1)
           b == SubSeq(q, n + 1, Len(q))
<1>1. Len(q) \in Nat /\ \A i \in 1..Len(q) : q[i] \in Nat
  OBVIOUS
<1>2. a \in Seq(Nat) /\ Len(a) = n - 1 /\ \A i \in 1..n - 1 : a[i] = q[i]
  <2>1. \A i \in 1..n - 1 : q[i] \in Nat
    BY <1>1
  <2> QED
    BY <1>1, <2>1, SubSeqProperties
<1>3. b \in Seq(Nat) /\ Len(b) = Len(q) - n /\ \A i \in 1..Len(q) - n : b[i] = q[n + i]
  <2>1. \A i \in n + 1..Len(q) : q[i] \in Nat
    BY <1>1
  <2>2. n + 1 \in Int /\ Len(q) \in Int
    BY <1>1
  <2>3. /\ b \in Seq(Nat)
        /\ Len(b) = IF n + 1 <= Len(q) THEN Len(q) - (n + 1) + 1 ELSE 0
        /\ \A i \in 1..Len(q) - (n + 1) + 1 : b[i] = q[n + 1 + i - 1]
    <3> HIDE DEF b
    <3>1. b = SubSeq(q, n + 1, Len(q))
      BY DEF b
    <3> QED
      BY <2>1, <2>2, <3>1, SubSeqProperties
  <2> HIDE DEF b
  <2> QED
    BY <1>1, <2>3
<1> HIDE DEF a, b
<1>4. /\ a \o b \in Seq(Nat) /\ Len(a \o b) = Len(a) + Len(b)
      /\ \A i \in 1..Len(a) + Len(b) :
           (a \o b)[i] = IF i <= Len(a) THEN a[i] ELSE b[i - Len(a)]
  BY <1>2, <1>3, ConcatProperties
<1> DEFINE k == a \o b
<1> HIDE DEF k
<1>5. /\ k \in Seq(Nat) /\ Len(k) = Len(q) - 1
      /\ \A i \in 1..Len(q) - 1 : k[i] = IF i <= n - 1 THEN a[i] ELSE b[i - (n - 1)]
  <2>1. Len(a) = n - 1 /\ Len(a) + Len(b) = Len(q) - 1
    BY <1>1, <1>2, <1>3
  <2>2. /\ k \in Seq(Nat) /\ Len(k) = Len(a) + Len(b)
        /\ \A i \in 1..Len(a) + Len(b) : k[i] = IF i <= Len(a) THEN a[i] ELSE b[i - Len(a)]
    BY <1>4 DEF k
  <2> QED
    BY <2>1, <2>2
<1>6. ASSUME NEW i \in 1..Len(q) - 1
      PROVE  k[i] = IF i < n THEN q[i] ELSE q[i + 1]
  <2>1. CASE i < n
    BY <1>1, <1>2, <1>5, <2>1
  <2>2. CASE i >= n
    <3>1. i - (n - 1) \in 1..Len(q) - n /\ n + (i - (n - 1)) = i + 1 /\ ~(i <= n - 1)
      BY <1>1, <2>2
    <3>2. k[i] = b[i - (n - 1)] /\ b[i - (n - 1)] = q[n + (i - (n - 1))]
      BY <1>3, <1>5, <3>1
    <3> QED
      BY <2>2, <3>1, <3>2
  <2> QED
    BY <1>1, <2>1, <2>2
<1> QED
  BY <1>5, <1>6 DEF a, b, k

\* The members of a finite set of numbers that are below one of its members.
Below(S, p) == {q \in S : q < p}

\* A finite set of numbers has a least member: the number of members below
\* tells a member apart, so it takes every value, zero too.
LEMMA Least ==
  ASSUME NEW S \in SUBSET Int, IsFiniteSet(S), S # {}
  PROVE  \E x \in S : \A y \in S : x <= y
<1> DEFINE n == Cardinality(S)
           Ranks == 0..(n - 1)
           rank == [p \in S |-> Cardinality(Below(S, p))]
<1>1. n \in Nat /\ n # 0
  BY FS_CardinalityType, FS_EmptySet
<1>2. \A p \in S : p \in Int
  BY Zenon
<1>3. \A p \in S : IsFiniteSet(Below(S, p)) /\ Cardinality(Below(S, p)) \in Nat
  BY FS_Subset, FS_CardinalityType DEF Below
<1>4. ASSUME NEW p \in S
      PROVE  Cardinality(Below(S, p)) \in Ranks
  <2>1. Below(S, p) \subseteq S /\ p \notin Below(S, p)
    BY <1>2 DEF Below
  <2>2. Cardinality(Below(S, p)) < n
    BY <1>1, <1>3, <2>1, FS_Subset
  <2> QED
    BY <1>1, <1>3, <2>2
<1>5. ASSUME NEW p \in S, NEW r \in S, p < r
      PROVE  Cardinality(Below(S, p)) < Cardinality(Below(S, r))
  <2>1. Below(S, p) \subseteq Below(S, r) /\ p \in Below(S, r) /\ p \notin Below(S, p)
    <3>1. p \in Int /\ r \in Int /\ \A q \in S : q \in Int
      BY <1>2
    <3>2. (\A q \in S : q < p => q < r) /\ ~(p < p)
      BY <1>5, <3>1
    <3> QED
      BY <1>5, <3>2 DEF Below
  <2> QED
    BY <1>3, <2>1, FS_Subset
<1>6. IsFiniteSet(Ranks) /\ Cardinality(Ranks) = n
  <2>1. 0 \in Int /\ n - 1 \in Int /\ ~(0 > n - 1)
    BY <1>1
  <2>2. IsFiniteSet(0..(n - 1)) /\ Cardinality(0..(n - 1)) = (n - 1) - 0 + 1
    BY <2>1, FS_Interval
  <2> QED
    BY <1>1, <2>2
<1>7. rank \in Injection(S, Ranks)
  <2>1. rank \in [S -> Ranks]
    BY <1>4
  <2>2. ASSUME NEW p \in S, NEW r \in S, rank[p] = rank[r]
        PROVE  p = r
    <3>1. ~(p < r) /\ ~(r < p)
      BY <1>3, <1>5, <2>2
    <3> QED
      BY <1>2, <3>1
  <2> QED
    BY <2>1, <2>2 DEF Injection, IsInjective
<1>8. rank \in Surjection(S, Ranks)
  <2> HIDE DEF rank, Ranks
  <2> QED
    BY <1>6, <1>7, FS_Injection
<1>9. PICK x \in S : Cardinality(Below(S, x)) = 0
  <2>1. 0 \in Ranks
    BY <1>1
  <2> QED
    BY <1>8, <2>1 DEF Surjection
<1>10. Below(S, x) = {}
  BY <1>3, <1>9, FS_EmptySet
<1> QED
  BY <1>2, <1>10 DEF Below

\* An eviction takes one chunk or reset event and leaves the revisions in order.
LEMMA EvictedIs ==
  ASSUME NEW q \in Seq(Nat), Evictable(q), InOrder(q)
  PROVE  /\ Evicted(q) \in Seq(Nat) /\ Len(Evicted(q)) = Len(q) - 1
         /\ Revisions(Evicted(q)) = Revisions(q) /\ InOrder(Evicted(q))
<1> DEFINE First(i) == q[i] = 0 /\ \A k \in 1..i - 1 : q[k] # 0
           n == CHOOSE i \in DOMAIN q : First(i)
           S == {i \in DOMAIN q : q[i] = 0}
           k == Evicted(q)
<1>1. Len(q) \in Nat /\ DOMAIN q = 1..Len(q) /\ \A i \in 1..Len(q) : q[i] \in Nat
  OBVIOUS
<1>2. \E i \in DOMAIN q : First(i)
  <2>1. IsFiniteSet(S) /\ S \in SUBSET Int /\ S # {} /\ S \subseteq 1..Len(q)
    <3>1. IsFiniteSet(1..Len(q)) /\ S \subseteq 1..Len(q)
      BY <1>1, FS_Interval
    <3> QED
      BY <1>1, <3>1, FS_Subset DEF Evictable
  <2> HIDE DEF S
  <2>2. PICK x \in S : \A y \in S : x <= y
    BY <2>1, Least
  <2>3. \A i \in 1..x - 1 : i \notin S
    BY <1>1, <2>1, <2>2
  <2> QED
    BY <1>1, <2>1, <2>2, <2>3 DEF S
<1>3. n \in DOMAIN q /\ q[n] = 0
  <2> HIDE DEF First
  <2>1. n \in DOMAIN q /\ First(n)
    BY <1>2
  <2> QED
    BY <2>1 DEF First
<1>4. k = SubSeq(q, 1, n - 1) \o SubSeq(q, n + 1, Len(q))
  BY DEF Evicted
<1> HIDE DEF n
<1>5. /\ k \in Seq(Nat) /\ Len(k) = Len(q) - 1
      /\ \A i \in 1..Len(q) - 1 : k[i] = IF i < n THEN q[i] ELSE q[i + 1]
  <2>1. n \in 1..Len(q)
    BY <1>1, <1>3
  <2> QED
    BY <1>4, <2>1, WithoutIs
<1> HIDE DEF k
<1>6. DOMAIN k = 1..Len(q) - 1 /\ n \in 1..Len(q)
  BY <1>1, <1>3, <1>5
<1>7. Revisions(k) = Revisions(q)
  <2>1. ASSUME NEW i \in DOMAIN k, k[i] # 0 PROVE k[i] \in Revisions(q)
    <3>1. i \in DOMAIN q /\ i + 1 \in DOMAIN q
      BY <1>1, <1>6, <2>1
    <3>2. k[i] = q[i] \/ k[i] = q[i + 1]
      BY <1>5, <1>6, <2>1
    <3> QED
      BY <2>1, <3>1, <3>2 DEF Revisions
  <2>2. ASSUME NEW i \in DOMAIN q, q[i] # 0 PROVE q[i] \in Revisions(k)
    <3>1. CASE i < n
      <4>1. i \in DOMAIN k /\ k[i] = q[i]
        BY <1>1, <1>5, <1>6, <3>1
      <4> QED
        BY <2>2, <4>1 DEF Revisions
    <3>2. CASE i > n
      <4>1. i - 1 \in DOMAIN k /\ k[i - 1] = q[i]
        BY <1>1, <1>5, <1>6, <3>2
      <4> QED
        BY <2>2, <4>1 DEF Revisions
    <3> QED
      BY <1>1, <1>3, <1>6, <2>2, <3>1, <3>2
  <2> QED
    BY <2>1, <2>2 DEF Revisions
<1>8. InOrder(k)
  <2> SUFFICES ASSUME NEW i \in DOMAIN k, NEW j \in DOMAIN k, i < j, k[i] # 0, k[j] # 0
               PROVE  k[i] < k[j]
    BY DEF InOrder
  <2> DEFINE x == IF i < n THEN i ELSE i + 1
             y == IF j < n THEN j ELSE j + 1
  <2>1. i \in 1..Len(q) - 1 /\ j \in 1..Len(q) - 1
    BY <1>6
  <2>2. x \in 1..Len(q) /\ y \in 1..Len(q) /\ x < y
    <3>1. Len(q) \in Nat /\ n \in Int
      BY <1>1, <1>6
    <3> QED
      BY <2>1, <3>1, Shift
  <2>3. k[i] = q[x] /\ k[j] = q[y]
    BY <1>5, <2>1
  <2> HIDE DEF x, y
  <2> QED
    BY <1>1, <2>2, <2>3 DEF InOrder
<1> QED
  BY <1>5, <1>7, <1>8 DEF k

\* The receiver takes the first event.
LEMMA TailIs ==
  ASSUME NEW q \in Seq(Nat), q # <<>>, InOrder(q)
  PROVE  /\ Tail(q) \in Seq(Nat) /\ Len(Tail(q)) = Len(q) - 1 /\ Head(q) \in Nat
         /\ InOrder(Tail(q))
         /\ Head(q) = 0 => Revisions(Tail(q)) = Revisions(q)
         /\ Head(q) # 0 => /\ Head(q) \in Revisions(q)
                           /\ Revisions(Tail(q)) = {r \in Revisions(q) : r > Head(q)}
<1> DEFINE k == Tail(q)
<1>1. /\ Len(q) \in Nat /\ Len(q) > 0 /\ DOMAIN q = 1..Len(q) /\ \A i \in 1..Len(q) : q[i] \in Nat
      /\ k \in Seq(Nat) /\ Len(k) = Len(q) - 1 /\ Head(q) = q[1]
      /\ \A i \in 1..Len(q) - 1 : k[i] = q[i + 1]
  OBVIOUS
<1> HIDE DEF k
<1>2. DOMAIN k = 1..Len(q) - 1
  BY <1>1
<1>3. InOrder(k)
  <2> SUFFICES ASSUME NEW i \in DOMAIN k, NEW j \in DOMAIN k, i < j, k[i] # 0, k[j] # 0
               PROVE  k[i] < k[j]
    BY DEF InOrder
  <2>1. i \in 1..Len(q) - 1 /\ j \in 1..Len(q) - 1
    BY <1>2
  <2>2. i + 1 \in 1..Len(q) /\ j + 1 \in 1..Len(q) /\ i + 1 < j + 1
    <3>1. Len(q) \in Nat
      BY <1>1
    <3>2. i + 1 \in 1..Len(q) /\ j + 1 \in 1..Len(q)
      BY <2>1, <3>1, Following
    <3> QED
      BY <2>1, <3>2
  <2>3. k[i] = q[i + 1] /\ k[j] = q[j + 1]
    BY <1>1, <2>1
  <2> QED
    BY <1>1, <2>2, <2>3 DEF InOrder
<1>4. Revisions(k) = {q[i] : i \in 2..Len(q)} \ {0}
  <2>1. ASSUME NEW i \in DOMAIN k PROVE \E x \in 2..Len(q) : k[i] = q[x]
    <3>1. i \in 1..Len(q) - 1
      BY <1>2
    <3>2. Len(q) \in Nat /\ k[i] = q[i + 1]
      BY <1>1, <3>1
    <3>3. i + 1 \in 2..Len(q)
      BY <3>1, <3>2, Following
    <3> QED
      BY <3>2, <3>3
  <2>2. ASSUME NEW x \in 2..Len(q) PROVE x - 1 \in DOMAIN k /\ k[x - 1] = q[x]
    <3>1. x - 1 \in 1..Len(q) - 1 /\ (x - 1) + 1 = x
      BY <1>1
    <3> QED
      BY <1>1, <1>2, <3>1
  <2> QED
    BY <2>1, <2>2 DEF Revisions
<1>5. Revisions(q) = ({q[1]} \cup {q[i] : i \in 2..Len(q)}) \ {0}
  <2>1. DOMAIN q = {1} \cup 2..Len(q)
    BY <1>1
  <2> QED
    BY <2>1 DEF Revisions
<1>6. ASSUME q[1] # 0, NEW i \in 2..Len(q), q[i] # 0 PROVE q[i] > q[1]
  <2>1. 1 \in 1..Len(q) /\ i \in 1..Len(q) /\ 1 < i
    BY <1>1
  <2>2. q[1] < q[i] /\ q[1] \in Nat /\ q[i] \in Nat
    BY <1>1, <1>6, <2>1 DEF InOrder
  <2> QED
    BY <2>2
<1>7. q[1] \in Nat
  BY <1>1
<1>8. CASE q[1] = 0
  BY <1>1, <1>3, <1>4, <1>5, <1>8 DEF k
<1>9. CASE q[1] # 0
  <2>1. \A r \in Revisions(k) : r \in Revisions(q) /\ r > q[1]
    BY <1>4, <1>5, <1>6, <1>9
  <2>2. \A r \in Revisions(q) : r > q[1] => r \in Revisions(k)
    BY <1>4, <1>5, <1>7
  <2>3. q[1] \in Revisions(q)
    BY <1>5, <1>9
  <2> QED
    BY <1>1, <1>3, <1>9, <2>1, <2>2, <2>3 DEF k
<1> QED
  BY <1>8, <1>9

\* A queue of revisions holds as many as it has places.
LEMMA FullOfRevisions ==
  ASSUME NEW q \in Seq(Nat), InOrder(q), ~Evictable(q)
  PROVE  IsFiniteSet(Revisions(q)) /\ Cardinality(Revisions(q)) = Len(q)
<1> DEFINE f == [i \in 1..Len(q) |-> q[i]]
           R == Revisions(q)
<1>1. Len(q) \in Nat /\ DOMAIN q = 1..Len(q) /\ \A i \in 1..Len(q) : q[i] \in Nat \ {0}
  BY DEF Evictable
<1>2. R = {q[i] : i \in 1..Len(q)}
  BY <1>1 DEF Revisions
<1>3. f \in Surjection(1..Len(q), R)
  BY <1>2 DEF Surjection
<1>4. ASSUME NEW i \in 1..Len(q), NEW j \in 1..Len(q), q[i] = q[j] PROVE i = j
  <2>1. i < j => q[i] < q[j]
    BY <1>1 DEF InOrder
  <2>2. j < i => q[j] < q[i]
    BY <1>1 DEF InOrder
  <2> QED
    BY <1>1, <1>4, <2>1, <2>2
<1>5. f \in Injection(1..Len(q), R)
  BY <1>3, <1>4 DEF Surjection, Injection, IsInjective
<1>6. IsFiniteSet(1..Len(q)) /\ Cardinality(1..Len(q)) = Len(q)
  <2>1. 1 \in Int /\ Len(q) \in Int
    BY <1>1
  <2>2. IsFiniteSet(1..Len(q)) /\ Cardinality(1..Len(q)) = IF 1 > Len(q) THEN 0 ELSE Len(q) - 1 + 1
    BY <2>1, FS_Interval
  <2> QED
    BY <1>1, <2>2
<1> HIDE DEF f, R
<1>7. IsFiniteSet(R) /\ Cardinality(R) = Cardinality(1..Len(q))
  BY <1>3, <1>5, <1>6, FS_Surjection
<1> QED
  BY <1>6, <1>7 DEF R

-----------------------------------------------------------------------------
(* The inductive invariant.                                                *)

Streams == [state: {"none", "live", "closed"}, overflow: BOOLEAN, queue: Seq(Nat), changed: BOOLEAN]

Calls == [pc: {"idle", "routed", "admitted", "wait"}, view: Nat, known: Nat]

AppSteps == {"new", "started", "bound", "unbound", "closing", "draining", "late", "finishing",
             "stopped"}

Hubs == [closed: BOOLEAN, subscribers: SUBSET Clients, left: SUBSET Clients]

Observers == [queue: Seq(Nat), stopped: BOOLEAN,
              worker: {"none", "check", "busy", "wait", "gone"}, taken: Nat]

Recordings == [queue: 0..RecordLimit, closed: BOOLEAN, worker: {"idle", "busy", "done"},
               refused: BOOLEAN]

Apps == [pc: AppSteps, expired: BOOLEAN, failed: BOOLEAN]

Types ==
  /\ revision \in 0..MaxRevision
  /\ announced \in Seq(Nat)
  /\ runtime \in {"none", "open", "closing", "silent", "closed"}
  /\ hub \in Hubs
  /\ stream \in [Clients -> Streams]
  /\ client \in [Clients -> Calls]
  /\ removing \in SUBSET Clients
  /\ observer \in Observers
  /\ records \in Recordings
  /\ app \in Apps
  /\ trouble \in 0..MaxTrouble

\* Announced revisions ascend up to the Session's, which none has before it opens.
Ascending ==
  /\ runtime = "none" => revision = 0
  /\ \A i \in DOMAIN announced : announced[i] # 0 /\ announced[i] <= revision
  /\ \A i, k \in DOMAIN announced : i < k => announced[i] < announced[k]

\* A live stream is known to the hub, or to the hub that closes, and to no
\* pending Close; a client that has a view has no stream.
Wired(c) ==
  /\ Live(c) => /\ runtime # "none" /\ c \notin removing
                /\ c \in IF hub.closed THEN hub.left ELSE hub.subscribers
  /\ client[c].view # 0 => stream[c].state = "none" /\ c \notin removing
  /\ client[c].pc \in {"routed", "admitted"} => client[c].view # 0

HubInv ==
  /\ hub.closed <=> runtime \in {"silent", "closed"}
  /\ runtime = "closed" => hub.left = {}
  /\ \A c \in Clients : Wired(c)

\* What a stream holds.
Holds(c) ==
  /\ client[c].known <= revision
  /\ Len(stream[c].queue) <= BufferLimit
  /\ stream[c].state # "live" => stream[c].queue = <<>>
  /\ Live(c) => Revisions(stream[c].queue) = Missing(c) /\ InOrder(stream[c].queue)
  /\ stream[c].overflow => stream[c].state = "closed" /\ Cardinality(Missing(c)) > BufferLimit

StreamInv == \A c \in Clients : Holds(c)

\* What the commit observers' worker has and what it was given.
ObserverInv ==
  ~observer.stopped =>
    /\ observer.taken <= Len(announced)
    /\ observer.queue = SubSeq(announced, observer.taken + 1, Len(announced))

\* How far the stop has come while the Runtime still lives.
StopInv ==
  /\ app.pc \in {"draining", "finishing", "stopped"} /\ ~app.failed => AllClosed
  /\ app.pc = "late" => app.failed
  /\ app.pc \in {"finishing", "stopped"} => Active = {}
  /\ app.pc = "stopped" /\ ~app.failed => records.worker = "done"
  /\ records.closed => app.pc \in {"finishing", "stopped"}
  /\ records.refused => app.failed

IInv == Types /\ Ascending /\ HubInv /\ StreamInv /\ ObserverInv /\ StopInv

-----------------------------------------------------------------------------
(* What an event does to the streams.                                      *)

\* The stream t is s with the event e, or s dropped it as temporary output.
Took(s, t, e) ==
  /\ t.state = "live" /\ t.overflow = s.overflow
  /\ Len(t.queue) <= BufferLimit /\ InOrder(t.queue)
  /\ Revisions(t.queue) = Revisions(s.queue) \cup ({e} \ {0})

\* The stream s had no room for the revision e and was closed.
Overran(s, t, e) ==
  /\ t.state = "closed" /\ t.overflow /\ t.queue = <<>> /\ e # 0
  /\ IsFiniteSet(Revisions(s.queue)) /\ Cardinality(Revisions(s.queue)) >= BufferLimit

LEMMA EnqueuedIs ==
  ASSUME NEW s \in Streams, s.state = "live", Len(s.queue) <= BufferLimit, InOrder(s.queue),
         NEW e \in Nat, e = 0 \/ Precede(s.queue, e)
  PROVE  LET t == Enqueued(s, e)
         IN  t \in Streams /\ (Took(s, t, e) \/ Overran(s, t, e))
<1> DEFINE q == s.queue
           t == Enqueued(s, e)
<1>1. q \in Seq(Nat) /\ Len(q) \in Nat /\ BufferLimit \in Nat /\ BufferLimit > 0
  BY DeliveryAssumption DEF Streams
<1>2. ASSUME NEW k \in Seq(Nat), t = Pushed(s, k, e)
      PROVE  /\ t \in Streams /\ t.state = "live" /\ t.overflow = s.overflow
             /\ t.queue = Append(k, e)
  <2>1. Append(k, e) \in Seq(Nat)
    OBVIOUS
  <2> QED
    BY <1>2, <2>1 DEF Pushed, Streams
<1>3. CASE ~Full(q)
  <2>1. t = Pushed(s, q, e)
    BY <1>3 DEF Enqueued
  <2>2. Len(q) + 1 <= BufferLimit
    BY <1>1, <1>3 DEF Full
  <2> HIDE DEF t
  <2>3. /\ InOrder(Append(q, e)) /\ Revisions(Append(q, e)) = Revisions(q) \cup ({e} \ {0})
        /\ Len(Append(q, e)) = Len(q) + 1
    BY <1>1, AppendIs
  <2> QED
    BY <1>1, <1>2, <2>1, <2>2, <2>3 DEF Took, t
<1>4. CASE Full(q) /\ e = 0
  <2>1. t = s
    BY <1>4 DEF Enqueued
  <2> QED
    BY <1>4, <2>1 DEF Took
<1>5. CASE Full(q) /\ e # 0 /\ Evictable(q)
  <2> DEFINE k == Evicted(q)
  <2>1. t = Pushed(s, k, e)
    BY <1>5 DEF Enqueued
  <2>2. k \in Seq(Nat) /\ Len(k) = Len(q) - 1 /\ Revisions(k) = Revisions(q) /\ InOrder(k)
    BY <1>1, <1>5, EvictedIs
  <2> HIDE DEF k, t
  <2>3. Precede(k, e)
    BY <1>5, <2>2 DEF Precede
  <2>4. /\ InOrder(Append(k, e)) /\ Revisions(Append(k, e)) = Revisions(k) \cup ({e} \ {0})
        /\ Len(Append(k, e)) = Len(k) + 1
    BY <2>2, <2>3, AppendIs
  <2>5. Len(Append(k, e)) <= BufferLimit
    BY <1>1, <2>2, <2>4
  <2> QED
    BY <1>2, <2>1, <2>2, <2>4, <2>5 DEF Took, t
<1>6. CASE Full(q) /\ e # 0 /\ ~Evictable(q)
  <2>1. t = Overflown(s)
    BY <1>6 DEF Enqueued
  <2>2. t \in Streams /\ t.state = "closed" /\ t.overflow /\ t.queue = <<>>
    BY <2>1 DEF Overflown, Streams
  <2>3. IsFiniteSet(Revisions(q)) /\ Cardinality(Revisions(q)) = Len(q)
    BY <1>1, <1>6, FullOfRevisions
  <2> HIDE DEF t
  <2> QED
    BY <1>1, <1>6, <2>2, <2>3 DEF Overran, Full, t
<1> QED
  BY <1>3, <1>4, <1>5, <1>6

\* The stream of c after the event e.
Gets(c, e) ==
  \/ stream'[c] = stream[c] /\ ~(c \in hub.subscribers /\ Live(c))
  \/ Live(c) /\ Took(stream[c], stream'[c], e)
  \/ Live(c) /\ Overran(stream[c], stream'[c], e)

LEMMA PublishEffect ==
  ASSUME Types, StreamInv, ~hub.closed, NEW e \in Nat, PublishEvent(e),
         \A c \in Clients : Live(c) => e = 0 \/ Precede(stream[c].queue, e)
  PROVE  /\ stream' \in [Clients -> Streams] /\ hub' \in Hubs
         /\ \A c \in Clients : Gets(c, e)
         /\ ~hub'.closed /\ hub'.left = hub.left
         /\ hub'.subscribers = {c \in hub.subscribers : stream'[c].state = "live"}
<1>1. /\ stream' = [c \in Clients |->
                      IF c \in hub.subscribers THEN Enqueued(stream[c], e) ELSE stream[c]]
      /\ hub' = [hub EXCEPT !.subscribers = {c \in @ : stream'[c].state = "live"}]
  BY DEF PublishEvent
<1>2. hub \in Hubs /\ stream \in [Clients -> Streams]
  BY DEF Types, Hubs
<1>3. ASSUME NEW c \in Clients
      PROVE  stream'[c] \in Streams /\ Gets(c, e)
  <2>1. stream[c] \in Streams
    BY <1>2
  <2>2. CASE c \in hub.subscribers /\ Live(c)
    <3>1. stream'[c] = Enqueued(stream[c], e)
      BY <1>1, <2>2
    <3>2. Len(stream[c].queue) <= BufferLimit /\ InOrder(stream[c].queue)
      BY <2>2 DEF StreamInv, Holds
    <3> QED
      BY <2>1, <2>2, <3>1, <3>2, EnqueuedIs DEF Gets, Live
  <2>3. CASE ~(c \in hub.subscribers /\ Live(c))
    <3>1. stream'[c] = stream[c]
      BY <1>1, <2>3 DEF Enqueued, Live
    <3> QED
      BY <2>1, <2>3, <3>1 DEF Gets
  <2> QED
    BY <2>2, <2>3
<1>4. stream' \in [Clients -> Streams]
  BY <1>1, <1>3
<1>5. /\ hub' \in Hubs /\ hub'.closed = hub.closed /\ hub'.left = hub.left
      /\ hub'.subscribers = {c \in hub.subscribers : stream'[c].state = "live"}
  BY <1>1, <1>2 DEF Hubs
<1> QED
  BY <1>3, <1>4, <1>5

-----------------------------------------------------------------------------
(* What the clients' steps do to the clients and the streams.              *)

Same(f, g, c) == \A d \in Clients : d # c => g[d] = f[d]

\* A client moves within its call and its stream stays.
LEMMA CallEffect ==
  ASSUME Types, NEW c \in Clients, View(c) \/ Route(c) \/ Acquire(c)
  PROVE  /\ client' \in [Clients -> Calls] /\ Same(client, client', c)
         /\ client'[c].known = client[c].known
         /\ \/ View(c) /\ client'[c].pc = "idle" /\ client'[c].view = revision
            \/ /\ client[c].pc = "idle" /\ client'[c].pc = "routed" /\ client[c].view # 0
               /\ client'[c].view = client[c].view
            \/ /\ client[c].pc = "routed" /\ client'[c].pc \in {"idle", "admitted"}
               /\ client'[c].pc = "admitted" => Started
               /\ client'[c].view = client[c].view
<1> USE DEF Types, Same
<1>1. client[c] \in Calls /\ revision \in Nat
  BY DeliveryAssumption
<1>2. CASE View(c)
  BY <1>1, <1>2 DEF View, At, Calls
<1>3. CASE Route(c)
  BY <1>1, <1>3 DEF Route, At, Goto, Calls
<1>4. CASE Acquire(c)
  BY <1>1, <1>4 DEF Acquire, At, Goto, Calls
<1> QED
  BY <1>2, <1>3, <1>4

\* A Subscribe starts an empty stream at the revision the client knows, or not.
LEMMA SubscribeEffect ==
  ASSUME Types, NEW c \in Clients, Subscribe(c)
  PROVE  /\ client' \in [Clients -> Calls] /\ Same(client, client', c)
         /\ stream' \in [Clients -> Streams] /\ Same(stream, stream', c) /\ hub' \in Hubs
         /\ client[c].pc = "admitted" /\ client'[c].pc = "idle" /\ client'[c].view = 0
         /\ \/ /\ runtime = "open" /\ client'[c].known = revision
               /\ stream'[c].state = "live" /\ stream'[c].queue = <<>> /\ ~stream'[c].overflow
               /\ hub'.subscribers = hub.subscribers \cup {c}
               /\ hub'.closed = hub.closed /\ hub'.left = hub.left
            \/ stream' = stream /\ hub' = hub /\ client'[c].known = 0
<1>1. client[c] \in Calls /\ stream[c] \in Streams /\ hub \in Hubs
  BY DEF Types, Hubs
<1>2. NoStream \in Streams /\ NoCall \in Calls
  BY DEF NoStream, NoCall, Streams, Calls
<1>3. CASE runtime = "open" /\ Current(c)
  <2> DEFINE s == [NoStream EXCEPT !.state = "live"]
             v == [NoCall EXCEPT !.known = client[c].view]
  <2>1. /\ stream' = [stream EXCEPT ![c] = s] /\ client' = [client EXCEPT ![c] = v]
        /\ hub' = [hub EXCEPT !.subscribers = @ \cup {c}] /\ client[c].pc = "admitted"
    BY <1>3 DEF Subscribe, At
  <2>2. s \in Streams /\ s.state = "live" /\ s.queue = <<>> /\ ~s.overflow
    <3> DEFINE x == NoStream
    <3>1. x \in Streams /\ x.queue = <<>> /\ ~x.overflow
      BY <1>2 DEF NoStream
    <3>2. s = [x EXCEPT !.state = "live"]
      OBVIOUS
    <3> HIDE DEF x, s
    <3> QED
      BY <3>1, <3>2 DEF Streams
  <2>3. v \in Calls /\ v.pc = "idle" /\ v.view = 0 /\ v.known = revision
    BY <1>1, <1>3 DEF NoCall, Calls, Current
  <2> HIDE DEF s, v
  <2>4. /\ hub' \in Hubs /\ hub'.subscribers = hub.subscribers \cup {c}
        /\ hub'.closed = hub.closed /\ hub'.left = hub.left
    BY <1>1, <2>1 DEF Hubs
  <2> QED
    BY <1>3, <2>1, <2>2, <2>3, <2>4 DEF Types, Same
<1>4. CASE ~(runtime = "open" /\ Current(c))
  <2>1. /\ stream' = stream /\ hub' = hub /\ client' = [client EXCEPT ![c] = NoCall]
        /\ client[c].pc = "admitted"
    BY <1>4 DEF Subscribe, At
  <2>2. NoCall.pc = "idle" /\ NoCall.view = 0 /\ NoCall.known = 0
    BY DEF NoCall
  <2> QED
    BY <1>1, <1>2, <2>1, <2>2 DEF Types, Same
<1> QED
  BY <1>3, <1>4

\* A look takes an event, meets the end of the stream or waits.
LEMMA LookEffect ==
  ASSUME Types, NEW c \in Clients, Recv(c) \/ Woken(c)
  PROVE  /\ client' \in [Clients -> Calls] /\ Same(client, client', c)
         /\ stream' \in [Clients -> Streams] /\ Same(stream, stream', c)
         /\ client'[c].pc \in {"idle", "wait"}
         /\ \/ /\ stream[c].queue # <<>> /\ stream'[c].queue = Tail(stream[c].queue)
               /\ stream'[c].state = stream[c].state /\ stream'[c].overflow = stream[c].overflow
               /\ client'[c].view = client[c].view
               /\ client'[c].known =
                    IF Head(stream[c].queue) = 0 THEN client[c].known ELSE Head(stream[c].queue)
            \/ /\ stream[c].state = "closed" /\ client'[c].view = 0 /\ client'[c].known = 0
               /\ stream'[c].state = "none" /\ stream'[c].queue = <<>> /\ ~stream'[c].overflow
            \/ /\ stream'[c].queue = stream[c].queue /\ stream'[c].state = stream[c].state
               /\ stream'[c].overflow = stream[c].overflow
               /\ client'[c].view = client[c].view /\ client'[c].known = client[c].known
<1>1. client[c] \in Calls /\ stream[c] \in Streams
  BY DEF Types
<1>2. Look(c)
  BY DEF Recv, Woken
<1>3. NoStream \in Streams /\ NoCall \in Calls
  BY DEF NoStream, NoCall, Streams, Calls
<1>4. CASE stream[c].queue # <<>>
  <2> DEFINE q == stream[c].queue
             s == [stream[c] EXCEPT !.queue = Tail(q)]
             k == IF Head(q) = 0 THEN client[c].known ELSE Head(q)
             v == [client[c] EXCEPT !.pc = "idle", !.known = k]
  <2>1. stream' = [stream EXCEPT ![c] = s] /\ client' = [client EXCEPT ![c] = v]
    BY <1>1, <1>2, <1>4 DEF Look, Types
  <2>2. q \in Seq(Nat) /\ Tail(q) \in Seq(Nat) /\ Head(q) \in Nat
    BY <1>1, <1>4 DEF Streams
  <2>3. s \in Streams /\ s.queue = Tail(q) /\ s.state = stream[c].state
        /\ s.overflow = stream[c].overflow
    BY <1>1, <2>2 DEF Streams
  <2>4. k \in Nat
    BY <1>1, <2>2 DEF Calls
  <2>5. v \in Calls /\ v.pc = "idle" /\ v.known = k /\ v.view = client[c].view
    BY <1>1, <2>4 DEF Calls
  <2> HIDE DEF s, v
  <2> QED
    BY <1>4, <2>1, <2>3, <2>5 DEF Types, Same
<1>5. CASE stream[c].queue = <<>> /\ stream[c].state = "closed"
  <2>1. stream' = [stream EXCEPT ![c] = NoStream] /\ client' = [client EXCEPT ![c] = NoCall]
    BY <1>2, <1>5 DEF Look
  <2>2. /\ NoCall.pc = "idle" /\ NoCall.view = 0 /\ NoCall.known = 0
        /\ NoStream.state = "none" /\ NoStream.queue = <<>> /\ ~NoStream.overflow
    BY DEF NoCall, NoStream
  <2> QED
    BY <1>3, <1>5, <2>1, <2>2 DEF Types, Same
<1>6. CASE stream[c].queue = <<>> /\ stream[c].state # "closed"
  <2> DEFINE s == [stream[c] EXCEPT !.changed = FALSE]
             v == [client[c] EXCEPT !.pc = "wait"]
  <2>1. stream' = [stream EXCEPT ![c] = s] /\ client' = [client EXCEPT ![c] = v]
    BY <1>1, <1>2, <1>6 DEF Look, Goto, Types
  <2>2. s \in Streams /\ s.queue = stream[c].queue /\ s.state = stream[c].state
        /\ s.overflow = stream[c].overflow
    BY <1>1 DEF Streams
  <2>3. v \in Calls /\ v.pc = "wait" /\ v.known = client[c].known /\ v.view = client[c].view
    BY <1>1 DEF Calls
  <2> HIDE DEF s, v
  <2> QED
    BY <1>6, <2>1, <2>2, <2>3 DEF Types, Same
<1> QED
  BY <1>4, <1>5, <1>6

\* A stream is closed by its client or by the hub that closes.
LEMMA ClosedStreamEffect ==
  ASSUME Types, NEW c \in Clients, stream' = [stream EXCEPT ![c] = ClosedStream(@)]
  PROVE  /\ stream' \in [Clients -> Streams] /\ Same(stream, stream', c)
         /\ stream'[c].overflow = stream[c].overflow
         /\ \/ Live(c) /\ stream'[c].state = "closed" /\ stream'[c].queue = <<>>
            \/ ~Live(c) /\ stream'[c] = stream[c]
<1> DEFINE s == ClosedStream(stream[c])
<1>1. stream[c] \in Streams /\ stream' = [stream EXCEPT ![c] = s]
  BY DEF Types
<1>2. /\ s \in Streams /\ s.overflow = stream[c].overflow
      /\ \/ Live(c) /\ s.state = "closed" /\ s.queue = <<>>
         \/ ~Live(c) /\ s = stream[c]
  <2> DEFINE x == stream[c]
             y == [x EXCEPT !.state = "closed", !.queue = <<>>, !.changed = TRUE]
  <2>1. <<>> \in Seq(Nat) /\ x \in Streams
    BY <1>1
  <2> HIDE DEF x
  <2>2. y \in Streams /\ y.overflow = x.overflow /\ y.state = "closed" /\ y.queue = <<>>
    BY <2>1 DEF Streams
  <2>3. s = IF Live(c) THEN y ELSE x
    BY DEF ClosedStream, Live, x
  <2> HIDE DEF y, s
  <2> QED
    BY <2>1, <2>2, <2>3 DEF x
<1> HIDE DEF s
<1> QED
  BY <1>1, <1>2 DEF Types, Same

-----------------------------------------------------------------------------
(* Every step preserves the invariant.                                     *)

\* The steps that concern neither the streams nor the clients.
World ==
  \/ OpenSession \/ CommitUntold \/ CloseSession \/ Closed \/ ObserverStep \/ Sinks
  \/ Start \/ Bind \/ Unbind \/ Stopping \/ StopExpires \/ StopTimesOut

Silenced == FinishClose \/ FailClosed

Moves(c) == View(c) \/ Route(c) \/ Acquire(c)

ClientStep(c) ==
  \/ Moves(c) \/ Subscribe(c) \/ Recv(c) \/ Woken(c) \/ CloseStream(c) \/ Remove(c)
  \/ CloseFromHub(c)

LEMMA Steps ==
  ASSUME Next
  PROVE  World \/ Commit \/ Temporary \/ Silenced \/ \E c \in Clients : ClientStep(c)
BY DEF Next, Closing, Proceed, World, Silenced, Moves, ClientStep

LEMMA WorldIs ==
  ASSUME Types, Ascending, World
  PROVE  /\ UNCHANGED <<announced, events, client>>
         /\ revision' \in 0..MaxRevision /\ revision' >= revision
<1>1. revision \in Nat /\ MaxRevision \in Nat /\ MaxRevision >= 1 /\ 1 \in 0..MaxRevision
      /\ revision <= MaxRevision
  BY DeliveryAssumption DEF Types
<1>2. CASE OpenSession \/ CommitUntold
  <2>1. CASE OpenSession
    BY <1>1, <2>1 DEF OpenSession, Ascending
  <2>2. CASE CommitUntold
    BY <1>1, <2>2 DEF CommitUntold, Working
  <2> QED
    BY <1>2, <2>1, <2>2
<1>3. CASE UNCHANGED <<announced, events, client, revision>>
  BY <1>1, <1>3 DEF Types
<1>4. CASE CloseSession \/ Closed \/ ObserverStep \/ Sinks
  BY <1>3, <1>4 DEF CloseSession, Closed, ObserverStep, Sinks, SinkTakes, SinkReturns, SinkEnds,
     session
<1>5. CASE Start \/ Bind \/ Unbind \/ Stopping \/ StopExpires \/ StopTimesOut
  BY <1>3, <1>5 DEF Start, Bind, Unbind, Stopping, CloseAll, Drain, FinishStop, StopReturns,
     StopExpires, StopTimesOut, session
<1> QED
  BY <1>2, <1>4, <1>5 DEF World

LEMMA CommitIs ==
  ASSUME Types, HubInv, Commit
  PROVE  /\ revision' = revision + 1 /\ revision + 1 \in Nat /\ revision' \in 0..MaxRevision
         /\ announced' = Append(announced, revision + 1)
         /\ observer' = Noticed(revision + 1) /\ records' = Recorded
         /\ PublishEvent(revision + 1) /\ ~hub.closed /\ runtime \in {"open", "closing"}
         /\ UNCHANGED <<runtime, removing, client, app, trouble>>
<1>1. /\ revision' = revision + 1 /\ announced' = Append(announced, revision')
      /\ observer' = Noticed(revision') /\ PublishEvent(revision') /\ records' = Recorded
      /\ runtime \in {"open", "closing"} /\ revision < MaxRevision
      /\ UNCHANGED <<runtime, removing, client, app, trouble>>
  BY DEF Commit, Working
<1>2. revision \in Nat /\ MaxRevision \in Nat /\ revision + 1 \in 0..MaxRevision
  BY <1>1, DeliveryAssumption DEF Types
<1>3. ~hub.closed
  BY <1>1 DEF HubInv
<1> QED
  BY <1>1, <1>2, <1>3

LEMMA TemporaryIs ==
  ASSUME Types, HubInv, Temporary
  PROVE  /\ PublishEvent(0) /\ ~hub.closed /\ runtime \in {"open", "closing"}
         /\ UNCHANGED <<revision, announced, runtime, removing, client, observer, records, app,
                        trouble>>
BY DEF Temporary, HubInv

\* The revisions that a client has not received.
LEMMA MissingIs ==
  ASSUME Types, Ascending, NEW c \in Clients
  PROVE  /\ IsFiniteSet(Missing(c))
         /\ \A r \in Missing(c) : r \in Nat /\ r # 0 /\ r <= revision /\ r > client[c].known
<1> DEFINE K == {k \in DOMAIN announced : announced[k] > client[c].known}
<1>1. Len(announced) \in Nat /\ DOMAIN announced = 1..Len(announced)
      /\ \A i \in DOMAIN announced : announced[i] \in Nat
  BY DEF Types
<1>2. IsFiniteSet(K)
  <2>1. IsFiniteSet(1..Len(announced)) /\ K \subseteq 1..Len(announced)
    BY <1>1, FS_Interval
  <2> QED
    BY <2>1, FS_Subset
<1>3. Missing(c) = {announced[i] : i \in K}
  BY DEF Missing
<1>4. IsFiniteSet({announced[i] : i \in K})
  <2> HIDE DEF K
  <2>1. [i \in K |-> announced[i]] \in Surjection(K, {announced[i] : i \in K})
    BY DEF Surjection
  <2> QED
    BY <1>2, <2>1, FS_Surjection
<1> QED
  BY <1>1, <1>3, <1>4 DEF Ascending

LEMMA MissingGrows ==
  ASSUME Types, Ascending, revision' = revision + 1, announced' = Append(announced, revision + 1),
         NEW c \in Clients, client'[c].known = client[c].known, client[c].known <= revision
  PROVE  Missing(c)' = Missing(c) \cup {revision + 1} /\ revision + 1 \notin Missing(c)
<1> DEFINE r == revision + 1
           k == client[c].known
<1>1. /\ Len(announced) \in Nat /\ DOMAIN announced = 1..Len(announced)
      /\ \A i \in DOMAIN announced : announced'[i] = announced[i] /\ announced[i] \in Nat
      /\ DOMAIN announced' = DOMAIN announced \cup {Len(announced) + 1}
      /\ announced'[Len(announced) + 1] = r
  BY DEF Types
<1>2. r \in Nat /\ r > revision /\ revision \in Nat /\ k \in Nat /\ r > k
  <2>1. client[c] \in Calls /\ revision \in Nat
    BY DeliveryAssumption DEF Types
  <2> QED
    BY <2>1 DEF Calls
<1>3. r \notin Missing(c)
  BY <1>2, MissingIs
<1>4. Missing(c)' = {announced'[i] : i \in {j \in DOMAIN announced' : announced'[j] > k}}
  BY DEF Missing
<1>5. Missing(c) = {announced[i] : i \in {j \in DOMAIN announced : announced[j] > k}}
  BY DEF Missing
<1> HIDE DEF k, r
<1> QED
  BY <1>1, <1>2, <1>3, <1>4, <1>5 DEF r

LEMMA MissingStays ==
  ASSUME announced' = announced, NEW c \in Clients, client'[c].known = client[c].known
  PROVE  Missing(c)' = Missing(c)
BY DEF Missing

\* The next revision comes after those that a live stream holds.
LEMMA NextPrecedes ==
  ASSUME Types, Ascending, StreamInv, NEW c \in Clients, Live(c)
  PROVE  Precede(stream[c].queue, revision + 1)
<1>1. Revisions(stream[c].queue) = Missing(c)
  BY DEF StreamInv, Holds
<1>2. revision \in Nat
  BY DeliveryAssumption DEF Types
<1> QED
  BY <1>1, <1>2, MissingIs DEF Precede

\* What the hub and the streams are after the event e.
PublishedEvent(e) ==
  /\ stream' \in [Clients -> Streams] /\ hub' \in Hubs
  /\ \A c \in Clients : Gets(c, e)
  /\ ~hub'.closed /\ hub'.left = hub.left
  /\ hub'.subscribers = {c \in hub.subscribers : stream'[c].state = "live"}

LEMMA Publishes ==
  ASSUME IInv
  PROVE  (Commit => PublishedEvent(revision + 1)) /\ (Temporary => PublishedEvent(0))
<1> USE DEF IInv
<1>1. ASSUME Commit PROVE PublishedEvent(revision + 1)
  <2>1. ~hub.closed /\ PublishEvent(revision + 1) /\ revision + 1 \in Nat
    BY <1>1, CommitIs
  <2>2. \A c \in Clients : Live(c) => Precede(stream[c].queue, revision + 1)
    BY NextPrecedes
  <2> QED
    BY <2>1, <2>2, PublishEffect DEF PublishedEvent
<1>2. ASSUME Temporary PROVE PublishedEvent(0)
  BY <1>2, TemporaryIs, PublishEffect DEF PublishedEvent
<1> QED
  BY <1>1, <1>2

LEMMA SilencedIs ==
  ASSUME Silenced
  PROVE  /\ runtime \in {"open", "closing"} /\ runtime' = "silent"
         /\ observer' = StoppedObserver
         /\ hub' = [closed |-> TRUE, subscribers |-> {}, left |-> hub.subscribers]
         /\ UNCHANGED <<revision, announced, stream, removing, client, records, app>>
         /\ trouble' = trouble \/ (trouble < MaxTrouble /\ trouble' = trouble + 1)
BY DEF Silenced, FinishClose, FailClosed, Silence, Spend

\* The Session, the observers and the application do not move with a client.
LEMMA ClientStepIs ==
  ASSUME NEW c \in Clients, ClientStep(c)
  PROVE  UNCHANGED <<session, observer, records, app, trouble>>
BY DEF ClientStep, Moves, View, Route, Acquire, Subscribe, Recv, Woken, Look, CloseStream, Remove,
   CloseFromHub

LEMMA RecordedIs ==
  ASSUME Types
  PROVE  /\ Recorded \in Recordings
         /\ Recorded.closed = records.closed /\ Recorded.worker = records.worker
         /\ Recorded.refused => records.refused \/ records.closed
<1> DEFINE x == records
           y == [x EXCEPT !.refused = TRUE]
           z == [x EXCEPT !.queue = x.queue + 1]
<1>1. RecordLimit \in Nat /\ x \in Recordings
  BY DeliveryAssumption DEF Types
<1>2. Recorded = IF x.closed THEN y ELSE IF x.queue < RecordLimit THEN z ELSE x
  BY DEF Recorded
<1> HIDE DEF x
<1>3. y \in Recordings /\ y.closed = x.closed /\ y.worker = x.worker
  BY <1>1 DEF Recordings
<1>4. ASSUME x.queue < RecordLimit
      PROVE  z \in Recordings /\ z.closed = x.closed /\ z.worker = x.worker
             /\ z.refused = x.refused
  <2>1. x.queue + 1 \in 0..RecordLimit
    BY <1>1, <1>4 DEF Recordings
  <2> QED
    BY <1>1, <2>1 DEF Recordings
<1> HIDE DEF y, z
<1> QED
  BY <1>1, <1>2, <1>3, <1>4 DEF x

LEMMA NoticedIs ==
  ASSUME Types, NEW e \in Nat
  PROVE  /\ Noticed(e) \in Observers
         /\ Noticed(e).stopped = observer.stopped /\ Noticed(e).taken = observer.taken
         /\ ~observer.stopped => Noticed(e).queue = Append(observer.queue, e)
<1> DEFINE x == observer
           w == IF x.worker = "wait" THEN "check" ELSE x.worker
           y == [x EXCEPT !.queue = Append(x.queue, e), !.worker = w]
<1>1. x \in Observers
  BY DEF Types
<1>2. Noticed(e) = IF x.stopped THEN x ELSE y
  BY DEF Noticed
<1> HIDE DEF x
<1>3. Append(x.queue, e) \in Seq(Nat)
  BY <1>1 DEF Observers
<1>4. w \in {"none", "check", "busy", "wait", "gone"}
  BY <1>1 DEF Observers
<1> HIDE DEF w
<1>5. y \in Observers /\ y.stopped = x.stopped /\ y.taken = x.taken
      /\ y.queue = Append(x.queue, e)
  BY <1>1, <1>3, <1>4 DEF Observers
<1> HIDE DEF y
<1> QED
  BY <1>1, <1>2, <1>5 DEF x

LEMMA StoppedIs ==
  ASSUME Types
  PROVE  StoppedObserver \in Observers /\ StoppedObserver.stopped
<1> DEFINE x == observer
           w == IF x.worker = "wait" THEN "check" ELSE x.worker
           y == [x EXCEPT !.stopped = TRUE, !.queue = <<>>, !.worker = w]
<1>1. x \in Observers /\ <<>> \in Seq(Nat)
  BY DEF Types
<1>2. StoppedObserver = y
  BY DEF StoppedObserver
<1> HIDE DEF x
<1>3. w \in {"none", "check", "busy", "wait", "gone"}
  BY <1>1 DEF Observers
<1> HIDE DEF w
<1>4. y \in Observers /\ y.stopped
  BY <1>1, <1>3 DEF Observers
<1> QED
  BY <1>2, <1>4

LEMMA WorkerIs ==
  ASSUME Types, ObserverStep
  PROVE  /\ observer' \in Observers /\ observer'.stopped = observer.stopped
         /\ \/ /\ observer.queue # <<>> /\ observer'.queue = Tail(observer.queue)
               /\ observer'.taken = observer.taken + 1
            \/ observer'.queue = observer.queue /\ observer'.taken = observer.taken
<1> DEFINE x == observer
           w == IF x.stopped THEN "gone" ELSE "wait"
           y == [x EXCEPT !.worker = "busy", !.queue = Tail(x.queue), !.taken = x.taken + 1]
           z == [x EXCEPT !.worker = w]
<1>1. x \in Observers /\ observer' = IF x.queue # <<>> THEN y ELSE z
  BY DEF ObserverStep, Types
<1> HIDE DEF x
<1>2. x.queue \in Seq(Nat) /\ x.taken + 1 \in Nat
  BY <1>1 DEF Observers
<1>3. ASSUME x.queue # <<>>
      PROVE  y \in Observers /\ y.stopped = x.stopped /\ y.queue = Tail(x.queue)
             /\ y.taken = x.taken + 1
  <2>1. Tail(x.queue) \in Seq(Nat)
    BY <1>2, <1>3
  <2> QED
    BY <1>1, <1>2, <2>1 DEF Observers
<1>4. w \in {"none", "check", "busy", "wait", "gone"}
  OBVIOUS
<1> HIDE DEF w
<1>5. z \in Observers /\ z.stopped = x.stopped /\ z.queue = x.queue /\ z.taken = x.taken
  BY <1>1, <1>4 DEF Observers
<1> HIDE DEF y, z
<1> QED
  BY <1>1, <1>3, <1>5 DEF x

LEMMA SinksAre ==
  ASSUME Types, Sinks
  PROVE  /\ records' \in Recordings
         /\ records'.closed = records.closed /\ records'.refused = records.refused
         /\ records.worker # "done" /\ UNCHANGED <<session, events, client, observer, app, trouble>>
<1> DEFINE x == records
<1>1. x \in Recordings /\ RecordLimit \in Nat
  BY DeliveryAssumption DEF Types
<1>2. CASE SinkTakes
  <2> DEFINE y == [x EXCEPT !.worker = "busy", !.queue = x.queue - 1]
  <2>1. /\ records' = y /\ x.worker \in {"idle", "busy"} /\ x.queue > 0
        /\ UNCHANGED <<session, events, client, observer, app, trouble>>
    BY <1>2 DEF SinkTakes
  <2> HIDE DEF x
  <2>2. x.queue - 1 \in 0..RecordLimit
    BY <1>1, <2>1 DEF Recordings
  <2>3. y \in Recordings /\ y.closed = x.closed /\ y.refused = x.refused
    BY <1>1, <2>2 DEF Recordings
  <2> QED
    BY <2>1, <2>3 DEF x
<1>3. CASE SinkReturns \/ SinkEnds
  <2>1. PICK w \in {"idle", "done"} : records' = [x EXCEPT !.worker = w]
    BY <1>3 DEF SinkReturns, SinkEnds
  <2>2. /\ x.worker \in {"idle", "busy"}
        /\ UNCHANGED <<session, events, client, observer, app, trouble>>
    BY <1>3 DEF SinkReturns, SinkEnds
  <2> HIDE DEF x
  <2> DEFINE y == [x EXCEPT !.worker = w]
  <2>3. y \in Recordings /\ y.closed = x.closed /\ y.refused = x.refused
    BY <1>1 DEF Recordings
  <2> QED
    BY <2>1, <2>2, <2>3 DEF x
<1> QED
  BY <1>2, <1>3 DEF Sinks

\* The steps of the application's life.
AppStep == Start \/ Bind \/ Unbind \/ Stopping \/ StopExpires \/ StopTimesOut

LEMMA AppIs ==
  ASSUME NEW x \in Apps, NEW p \in AppSteps
  PROVE  /\ LET y == [x EXCEPT !.pc = p]
            IN  y \in Apps /\ y.pc = p /\ y.expired = x.expired /\ y.failed = x.failed
         /\ LET y == [x EXCEPT !.pc = p, !.failed = TRUE]
            IN  y \in Apps /\ y.pc = p /\ y.expired = x.expired /\ y.failed
         /\ LET y == [x EXCEPT !.expired = TRUE]
            IN  y \in Apps /\ y.pc = x.pc /\ y.expired /\ y.failed = x.failed
BY DEF Apps

\* Each step of the application, as the stop sees it.
LEMMA AppStepIs ==
  ASSUME Types, AppStep
  PROVE  /\ app' \in Apps /\ (app.failed => app'.failed)
         /\ UNCHANGED <<announced, events, client, observer, revision>>
         /\ FinishStop \/ UNCHANGED records
         /\ trouble' \in 0..MaxTrouble
         /\ runtime' = runtime \/ (runtime = "open" /\ runtime' = "closing" /\ app'.pc = "closing")
         /\ \/ /\ app.pc \in {"new", "started", "bound", "unbound"}
               /\ app'.pc \in {"started", "bound", "unbound", "closing"}
            \/ app'.pc = app.pc /\ app.pc # "stopped" /\ UNCHANGED records
            \/ /\ app.pc = "closing" /\ app'.pc = "draining" /\ (AllClosed \/ app'.failed)
               /\ runtime' = runtime
            \/ /\ FinishStop /\ Active = {} /\ records' = RecordsClosed /\ runtime' = runtime
               /\ \/ app.pc = "late" /\ app'.pc = "stopped"
                  \/ app.pc = "draining" /\ app'.pc = "finishing"
            \/ app.pc = "draining" /\ app'.pc = "late" /\ app'.failed /\ UNCHANGED records
            \/ /\ app.pc = "finishing" /\ app'.pc = "stopped" /\ runtime' = runtime
               /\ (records.worker = "done" \/ app'.failed)
<1> DEFINE x == app
<1>1. x \in Apps /\ trouble \in 0..MaxTrouble
  BY DEF Types
<1>2. CASE Start \/ Bind \/ Unbind
  <2>1. PICK p \in {"started", "bound", "unbound"} : x' = [x EXCEPT !.pc = p]
    BY <1>2 DEF Start, Bind, Unbind, Phase
  <2>2. /\ UNCHANGED <<session, events, client, observer, records, trouble>>
        /\ x.pc \in {"new", "started", "bound"}
    BY <1>2 DEF Start, Bind, Unbind, Phase
  <2>3. p \in AppSteps
    BY DEF AppSteps
  <2> HIDE DEF x
  <2>4. x' \in Apps /\ x'.pc = p /\ x'.failed = x.failed
    BY <1>1, <2>1, <2>3, AppIs
  <2> QED
    BY <1>1, <2>2, <2>4 DEF x, session
<1>3. CASE CloseAll
  <2>1. x' = [x EXCEPT !.pc = "closing"] /\ x.pc = "unbound"
        /\ runtime' = (IF runtime = "open" THEN "closing" ELSE runtime)
        /\ UNCHANGED <<announced, revision, events, client, observer, records, trouble>>
    BY <1>3 DEF CloseAll, Phase
  <2>2. "closing" \in AppSteps
    BY DEF AppSteps
  <2> HIDE DEF x
  <2>3. x' \in Apps /\ x'.pc = "closing" /\ x'.failed = x.failed
    BY <1>1, <2>1, <2>2, AppIs
  <2> QED
    BY <1>1, <2>1, <2>3 DEF x
<1>4. CASE Drain
  <2>1. /\ UNCHANGED <<session, events, client, observer, records, trouble>>
        /\ x.pc = "closing" /\ "draining" \in AppSteps
        /\ \/ AllClosed /\ x' = [x EXCEPT !.pc = "draining"]
           \/ x' = [x EXCEPT !.pc = "draining", !.failed = TRUE]
    BY <1>4 DEF Drain, AppSteps
  <2> HIDE DEF x
  <2>2. x' \in Apps /\ x'.pc = "draining" /\ (x.failed => x'.failed) /\ (AllClosed \/ x'.failed)
    <3>1. CASE AllClosed /\ x' = [x EXCEPT !.pc = "draining"]
      BY <1>1, <2>1, <3>1, AppIs
    <3>2. CASE x' = [x EXCEPT !.pc = "draining", !.failed = TRUE]
      BY <1>1, <2>1, <3>2, AppIs
    <3> QED
      BY <2>1, <3>1, <3>2
  <2> QED
    BY <1>1, <2>1, <2>2 DEF x, session
<1>5. CASE FinishStop
  <2>1. PICK p \in {"stopped", "finishing"} : 
           x' = [x EXCEPT !.pc = p] /\ p = IF x.pc = "late" THEN "stopped" ELSE "finishing"
    BY <1>5 DEF FinishStop
  <2>2. /\ UNCHANGED <<session, events, client, observer, trouble>>
        /\ x.pc \in {"draining", "late"} /\ Active = {} /\ records' = RecordsClosed
    BY <1>5 DEF FinishStop
  <2>3. p \in AppSteps
    BY DEF AppSteps
  <2> HIDE DEF x
  <2>4. x' \in Apps /\ x'.pc = p /\ x'.failed = x.failed
    BY <1>1, <2>1, <2>3, AppIs
  <2> QED
    BY <1>1, <1>5, <2>1, <2>2, <2>4 DEF x, session
<1>6. CASE StopReturns
  <2>1. /\ UNCHANGED <<session, events, client, observer, records, trouble>>
        /\ x.pc = "finishing" /\ "stopped" \in AppSteps
        /\ \/ records.worker = "done" /\ x' = [x EXCEPT !.pc = "stopped"]
           \/ x' = [x EXCEPT !.pc = "stopped", !.failed = TRUE]
    BY <1>6 DEF StopReturns, AppSteps
  <2> HIDE DEF x
  <2>2. /\ x' \in Apps /\ x'.pc = "stopped" /\ (x.failed => x'.failed)
        /\ records.worker = "done" \/ x'.failed
    <3>1. CASE records.worker = "done" /\ x' = [x EXCEPT !.pc = "stopped"]
      BY <1>1, <2>1, <3>1, AppIs
    <3>2. CASE x' = [x EXCEPT !.pc = "stopped", !.failed = TRUE]
      BY <1>1, <2>1, <3>2, AppIs
    <3> QED
      BY <2>1, <3>1, <3>2
  <2> QED
    BY <1>1, <2>1, <2>2 DEF x, session
<1>7. CASE StopExpires
  <2>1. /\ UNCHANGED <<session, events, client, observer, records>>
        /\ x.pc # "stopped" /\ x' = [x EXCEPT !.expired = TRUE]
        /\ trouble < MaxTrouble /\ trouble' = trouble + 1
    BY <1>7 DEF StopExpires, Spend
  <2>2. trouble' \in 0..MaxTrouble
    BY <1>1, <2>1, DeliveryAssumption
  <2> HIDE DEF x
  <2>3. "new" \in AppSteps
    BY DEF AppSteps
  <2>4. x' \in Apps /\ x'.pc = x.pc /\ x'.failed = x.failed
    BY <1>1, <2>1, <2>3, AppIs
  <2> QED
    BY <2>1, <2>2, <2>4 DEF x, session
<1>8. CASE StopTimesOut
  <2>1. /\ UNCHANGED <<session, events, client, observer, records, trouble>>
        /\ x.pc = "draining" /\ "late" \in AppSteps
        /\ x' = [x EXCEPT !.pc = "late", !.failed = TRUE]
    BY <1>8 DEF StopTimesOut, AppSteps
  <2> HIDE DEF x
  <2>2. x' \in Apps /\ x'.pc = "late" /\ x'.failed
    BY <1>1, <2>1, AppIs
  <2> QED
    BY <1>1, <2>1, <2>2 DEF x, session
<1> QED
  BY <1>2, <1>3, <1>4, <1>5, <1>6, <1>7, <1>8 DEF AppStep, Stopping

LEMMA TypesStep ==
  ASSUME IInv, Next
  PROVE  Types'
<1> USE DEF IInv
<1>1. ASSUME World
      PROVE  /\ runtime' \in {"none", "open", "closing", "silent", "closed"}
             /\ observer' \in Observers
             /\ records' \in Recordings
             /\ app' \in Apps
             /\ trouble' \in 0..MaxTrouble
  <2>1. /\ runtime \in {"none", "open", "closing", "silent", "closed"}
        /\ observer \in Observers /\ records \in Recordings /\ app \in Apps
        /\ trouble \in 0..MaxTrouble
    BY DEF Types
  <2>2. CASE OpenSession \/ CloseSession
    <3>1. [observer EXCEPT !.worker = "check"] \in Observers
      BY <2>1 DEF Observers
    <3> QED
      BY <2>1, <2>2, <3>1 DEF OpenSession, CloseSession
  <2>3. CASE CommitUntold
    <3>1. trouble' \in 0..MaxTrouble
      BY <2>1, <2>3, DeliveryAssumption DEF CommitUntold, Spend
    <3> QED
      BY <2>1, <2>3, <3>1 DEF CommitUntold
  <2>4. CASE Closed
    BY <2>1, <2>4, RecordedIs DEF Closed
  <2>5. CASE ObserverStep
    BY <2>1, <2>5, WorkerIs DEF ObserverStep, session
  <2>6. CASE Sinks
    BY <2>1, <2>6, SinksAre DEF session
  <2>7. CASE AppStep
    <3>1. RecordsClosed \in Recordings
      BY <2>1 DEF RecordsClosed, Recordings
    <3>2. records' \in Recordings
      BY <2>1, <2>7, <3>1, AppStepIs DEF FinishStop
    <3> QED
      BY <2>1, <2>7, <3>2, AppStepIs
  <2> QED
    BY <1>1, <2>2, <2>3, <2>4, <2>5, <2>6, <2>7 DEF World, AppStep
<1>2. CASE World
  BY <1>1, <1>2, WorldIs DEF Types, events
<1>3. CASE Commit
  <2>1. observer' \in Observers
    BY <1>3, CommitIs, NoticedIs
  <2>2. announced' \in Seq(Nat)
    <3>1. announced \in Seq(Nat)
      BY DEF Types
    <3>2. announced' = Append(announced, revision + 1) /\ revision + 1 \in Nat
      BY <1>3, CommitIs
    <3> QED
      BY <3>1, <3>2
  <2>3. records' \in Recordings
    BY <1>3, CommitIs, RecordedIs
  <2>4. PublishedEvent(revision + 1)
    BY <1>3, Publishes
  <2> QED
    BY <1>3, <2>1, <2>2, <2>3, <2>4, CommitIs DEF Types, PublishedEvent
<1>4. CASE Temporary
  <2>1. PublishedEvent(0)
    BY <1>4, Publishes
  <2> QED
    BY <1>4, <2>1, TemporaryIs DEF Types, PublishedEvent
<1>5. CASE Silenced
  <2>1. trouble' \in 0..MaxTrouble
    BY <1>5, SilencedIs, DeliveryAssumption DEF Types
  <2>2. observer' \in Observers
    BY <1>5, SilencedIs, StoppedIs
  <2>3. hub' \in Hubs
    <3>1. hub.subscribers \in SUBSET Clients
      BY DEF Types, Hubs
    <3>2. hub' = [closed |-> TRUE, subscribers |-> {}, left |-> hub.subscribers]
      BY <1>5, SilencedIs
    <3> QED
      BY <3>1, <3>2 DEF Hubs
  <2> QED
    BY <1>5, <2>1, <2>2, <2>3, SilencedIs DEF Types
<1>6. ASSUME NEW c \in Clients, ClientStep(c) PROVE Types'
  <2>1. UNCHANGED <<revision, announced, runtime, observer, records, app, trouble>>
    BY <1>6, ClientStepIs DEF session
  <2>2. CASE Moves(c)
    <3>1. client' \in [Clients -> Calls]
      BY <2>2, CallEffect DEF Moves
    <3>2. UNCHANGED <<hub, stream, removing>>
      BY <2>2 DEF Moves, View, Route, Acquire, events
    <3> QED
      BY <2>1, <3>1, <3>2 DEF Types
  <2>3. CASE Subscribe(c)
    <3>1. UNCHANGED removing
      BY <2>3 DEF Subscribe
    <3> QED
      BY <2>1, <2>3, <3>1, SubscribeEffect DEF Types
  <2>4. CASE Recv(c) \/ Woken(c)
    <3>1. UNCHANGED <<hub, removing>>
      BY <2>4 DEF Recv, Woken, Look
    <3> QED
      BY <2>1, <2>4, <3>1, LookEffect DEF Types
  <2>5. CASE CloseStream(c) \/ CloseFromHub(c)
    <3>1. stream' \in [Clients -> Streams]
      BY <2>5, ClosedStreamEffect DEF CloseStream, CloseFromHub
    <3>2. hub' \in Hubs
      BY <2>5 DEF CloseStream, CloseFromHub, Types, Hubs
    <3>3. removing' \in SUBSET Clients /\ client' = client
      BY <2>5 DEF CloseStream, CloseFromHub, Types
    <3> QED
      BY <2>1, <3>1, <3>2, <3>3 DEF Types
  <2>6. CASE Remove(c)
    <3>1. hub' \in Hubs
      BY <2>6 DEF Remove, Types, Hubs
    <3>2. removing' \in SUBSET Clients /\ client' = client /\ stream' = stream
      BY <2>6 DEF Remove, Types
    <3> QED
      BY <2>1, <3>1, <3>2 DEF Types
  <2> QED
    BY <1>6, <2>2, <2>3, <2>4, <2>5, <2>6 DEF ClientStep
<1> QED
  BY <1>2, <1>3, <1>4, <1>5, <1>6, Steps

LEMMA AppendSubSeqIs ==
  ASSUME NEW s \in Seq(Nat), NEW r \in Nat, NEW t \in Nat, t <= Len(s)
  PROVE  SubSeq(Append(s, r), t + 1, Len(s) + 1) = Append(SubSeq(s, t + 1, Len(s)), r)
<1> DEFINE a == Append(s, r)
           m == t + 1
           n == Len(s) + 1
<1>1. /\ Len(s) \in Nat /\ a \in Seq(Nat) /\ Len(a) = n /\ a[n] = r
      /\ m \in 1..n /\ n \in m..n /\ n - 1 = Len(s)
  OBVIOUS
<1>2. a = s \o <<r>> /\ <<r>> \in Seq(Nat)
  BY AppendIsConcat
<1>3. SubSeq(s \o <<r>>, m, Len(s)) = SubSeq(s, m, Len(s))
  BY <1>1, <1>2
<1>4. SubSeq(s, m, Len(s)) \in Seq(Nat)
  <2>1. \A i \in m..Len(s) : s[i] \in Nat
    BY <1>1
  <2>2. m \in Int /\ Len(s) \in Int
    BY <1>1
  <2> QED
    BY <2>1, <2>2, SubSeqProperties
<1> HIDE DEF a, m, n
<1>5. SubSeq(a, m, n) = SubSeq(a, m, n - 1) \o <<a[n]>>
  BY <1>1, SubSeqRecursiveSecond
<1>6. SubSeq(a, m, n) = SubSeq(s, m, Len(s)) \o <<r>>
  BY <1>1, <1>2, <1>3, <1>5
<1>7. Append(SubSeq(s, m, Len(s)), r) = SubSeq(s, m, Len(s)) \o <<r>>
  BY <1>4, AppendIsConcat
<1> QED
  BY <1>6, <1>7 DEF a, m, n

LEMMA AscendingStep ==
  ASSUME IInv, Next
  PROVE  Ascending'
<1> USE DEF IInv
<1>1. revision \in Nat /\ \A i \in DOMAIN announced : announced[i] \in Nat
  BY DeliveryAssumption DEF Types
<1>2. ASSUME announced' = announced, revision' \in Nat, revision' >= revision,
             runtime' = "none" => runtime = "none" /\ revision' = revision
      PROVE  Ascending'
  BY <1>1, <1>2 DEF Ascending
<1>3. CASE World
  <2>1. announced' = announced /\ revision' \in Nat /\ revision' >= revision
    BY <1>3, WorldIs
  <2>2. CASE AppStep
    <3>1. revision' = revision
      BY <2>2, AppStepIs
    <3>2. runtime' = "none" => runtime = "none"
      BY <2>2, AppStepIs
    <3> QED
      BY <1>2, <2>1, <3>1, <3>2
  <2>3. AppStep \/ (runtime' = "none" => runtime = "none" /\ revision' = revision)
    BY <1>3 DEF World, AppStep, OpenSession, CommitUntold, Working, CloseSession, Closed,
       ObserverStep, Sinks, SinkTakes, SinkReturns, SinkEnds, session
  <2> QED
    BY <1>2, <2>1, <2>2, <2>3
<1>4. CASE Commit
  <2>1. /\ announced' = Append(announced, revision + 1) /\ announced \in Seq(Nat)
        /\ revision' = revision + 1 /\ runtime' # "none"
    BY <1>4, CommitIs DEF Types
  <2>2. /\ DOMAIN announced' = DOMAIN announced \cup {Len(announced) + 1}
        /\ \A i \in DOMAIN announced : announced'[i] = announced[i] /\ i < Len(announced) + 1
        /\ announced'[Len(announced) + 1] = revision + 1
        /\ Len(announced) + 1 \in Nat
    BY <1>1, <2>1
  <2>3. DOMAIN announced \subseteq Nat
    BY <2>1
  <2>4. \A i \in DOMAIN announced' : announced'[i] # 0 /\ announced'[i] <= revision'
    BY <1>1, <2>1, <2>2 DEF Ascending
  <2>5. ASSUME NEW i \in DOMAIN announced', NEW k \in DOMAIN announced', i < k
        PROVE  announced'[i] < announced'[k]
    <3>1. i \in DOMAIN announced
      BY <2>2, <2>3, <2>5
    <3>2. CASE k \in DOMAIN announced
      BY <2>2, <2>5, <3>1, <3>2 DEF Ascending
    <3>3. CASE k = Len(announced) + 1
      BY <1>1, <2>2, <3>1, <3>3 DEF Ascending
    <3> QED
      BY <2>2, <2>5, <3>2, <3>3
  <2> QED
    BY <2>1, <2>4, <2>5 DEF Ascending
<1>5. CASE Temporary
  BY <1>1, <1>2, <1>5, TemporaryIs
<1>6. CASE Silenced
  BY <1>1, <1>2, <1>6, SilencedIs
<1>7. ASSUME NEW c \in Clients, ClientStep(c) PROVE Ascending'
  <2>1. UNCHANGED <<announced, revision, runtime>>
    BY <1>7, ClientStepIs DEF session
  <2> QED
    BY <1>1, <1>2, <2>1
<1> QED
  BY <1>3, <1>4, <1>5, <1>6, <1>7, Steps

LEMMA ObserverInvStep ==
  ASSUME IInv, Next
  PROVE  ObserverInv'
<1> USE DEF IInv
<1>1. observer \in Observers /\ announced \in Seq(Nat) /\ Len(announced) \in Nat
  BY DEF Types
<1>2. observer.taken \in Nat /\ observer.queue \in Seq(Nat)
  BY <1>1 DEF Observers
<1>3. ASSUME announced' = announced, observer'.taken = observer.taken,
             observer'.queue = observer.queue, observer'.stopped = observer.stopped
      PROVE  ObserverInv'
  BY <1>3 DEF ObserverInv
<1>4. CASE ObserverStep
  <2>1. announced' = announced /\ observer'.stopped = observer.stopped
    BY <1>4, WorkerIs, WorldIs DEF World
  <2>2. CASE observer'.queue = observer.queue /\ observer'.taken = observer.taken
    BY <1>3, <2>1, <2>2
  <2>3. CASE /\ observer.queue # <<>> /\ observer'.queue = Tail(observer.queue)
             /\ observer'.taken = observer.taken + 1
    <3> SUFFICES ASSUME ~observer.stopped
                 PROVE  /\ observer.taken + 1 <= Len(announced)
                        /\ Tail(observer.queue) =
                             SubSeq(announced, observer.taken + 1 + 1, Len(announced))
      BY <2>1, <2>3 DEF ObserverInv
    <3> DEFINE m == observer.taken + 1
               n == Len(announced)
    <3>1. observer.queue = SubSeq(announced, m, n)
      BY DEF ObserverInv
    <3>2. m \in Nat /\ n \in Nat /\ m >= 1
      BY <1>1, <1>2
    <3>3. m <= n
      BY <1>1, <2>3, <3>1, <3>2, SubSeqEmpty
    <3>4. m \in 1..Len(announced) /\ n \in m..Len(announced)
      BY <3>2, <3>3
    <3>5. Tail(SubSeq(announced, m, n)) = SubSeq(announced, m + 1, n)
      <4> HIDE DEF m, n
      <4> QED
        BY <1>1, <3>4, HeadTailOfSubSeq
    <3> QED
      BY <2>3, <3>1, <3>3, <3>5
  <2> QED
    BY <1>4, <2>2, <2>3, WorkerIs
<1>5. CASE World /\ ~ObserverStep
  <2>1. announced' = announced
    BY <1>5, WorldIs
  <2>2. CASE AppStep
    BY <1>3, <2>1, <2>2, AppStepIs
  <2>3. CASE Sinks
    BY <1>3, <2>1, <2>3, SinksAre
  <2>4. CASE OpenSession
    <3>1. observer' = [observer EXCEPT !.worker = "check"]
      BY <2>4 DEF OpenSession
    <3>2. /\ observer'.taken = observer.taken /\ observer'.queue = observer.queue
          /\ observer'.stopped = observer.stopped
      BY <1>1, <3>1 DEF Observers
    <3> QED
      BY <1>3, <2>1, <3>2
  <2>5. CASE CommitUntold \/ CloseSession \/ Closed
    BY <1>3, <2>1, <2>5 DEF CommitUntold, CloseSession, Closed
  <2> QED
    BY <1>5, <2>2, <2>3, <2>4, <2>5 DEF World, AppStep
<1>6. CASE Commit
  <2> DEFINE m == observer.taken + 1
             n == Len(announced)
             r == revision + 1
  <2>1. announced' = Append(announced, r) /\ r \in Nat /\ observer' = Noticed(r)
    BY <1>6, CommitIs
  <2>2. observer'.stopped = observer.stopped /\ observer'.taken = observer.taken
    BY <2>1, NoticedIs
  <2> SUFFICES ASSUME ~observer.stopped
               PROVE  observer'.taken <= Len(announced') /\ 
                      observer'.queue = SubSeq(announced', observer'.taken + 1, Len(announced'))
    BY <2>2 DEF ObserverInv
  <2>3. observer.queue = SubSeq(announced, m, n) /\ observer.taken <= n
    BY DEF ObserverInv
  <2>4. observer'.queue = Append(observer.queue, r)
    BY <2>1, NoticedIs
  <2> HIDE DEF r
  <2>5. Len(announced') = n + 1
    BY <1>1, <2>1
  <2>6. SubSeq(announced', m, n + 1) = Append(SubSeq(announced, m, n), r)
    BY <1>1, <1>2, <2>1, <2>3, AppendSubSeqIs
  <2>7. observer.taken <= n + 1
    BY <1>1, <1>2, <2>3
  <2> QED
    BY <2>2, <2>3, <2>4, <2>5, <2>6, <2>7
<1>7. CASE Temporary
  BY <1>3, <1>7, TemporaryIs
<1>8. CASE Silenced
  <2>1. observer'.stopped
    BY <1>8, SilencedIs, StoppedIs
  <2> QED
    BY <2>1 DEF ObserverInv
<1>9. ASSUME NEW c \in Clients, ClientStep(c) PROVE ObserverInv'
  <2>1. UNCHANGED <<announced, observer>>
    BY <1>9, ClientStepIs DEF session
  <2> QED
    BY <1>3, <2>1
<1> QED
  BY <1>4, <1>5, <1>6, <1>7, <1>8, <1>9, Steps

LEMMA HubStep ==
  ASSUME IInv, Next
  PROVE  HubInv'
<1> USE DEF IInv
<1>1. ASSUME UNCHANGED <<hub, stream, removing, client>>, runtime' # "none",
             runtime' \in {"silent", "closed"} <=> runtime \in {"silent", "closed"},
             runtime' = "closed" => hub.left = {}
      PROVE  HubInv'
  BY <1>1 DEF HubInv, Wired, Live
<1>2. ASSUME UNCHANGED <<hub, stream, removing, client, runtime>>
      PROVE  HubInv'
  BY <1>2 DEF HubInv, Wired, Live
<1>3. CASE World
  <2>1. UNCHANGED <<hub, stream, removing, client>>
    BY <1>3, WorldIs DEF events
  <2>2. CASE AppStep
    BY <1>1, <1>2, <2>1, <2>2, AppStepIs
  <2>3. CASE CommitUntold \/ ObserverStep \/ Sinks
    BY <1>2, <2>1, <2>3, SinksAre DEF CommitUntold, ObserverStep, session
  <2>4. CASE OpenSession \/ CloseSession \/ Closed
    BY <1>1, <2>1, <2>4 DEF OpenSession, CloseSession, Closed
  <2> QED
    BY <1>3, <2>2, <2>3, <2>4 DEF World, AppStep
<1>4. ASSUME Commit \/ Temporary
      PROVE  HubInv'
  <2>1. /\ UNCHANGED <<runtime, removing, client>> /\ runtime \in {"open", "closing"}
        /\ ~hub.closed
    BY <1>4, CommitIs, TemporaryIs
  <2>2. PICK e \in {0, revision + 1} : PublishedEvent(e)
    BY <1>4, Publishes
  <2>3. ASSUME NEW c \in Clients
        PROVE  Wired(c)'
    <3>1. Gets(c, e) /\ Wired(c)
      BY <2>2 DEF PublishedEvent, HubInv
    <3>2. stream'[c].state = "live" => Live(c)
      BY <3>1 DEF Gets, Overran, Live
    <3>3. stream[c].state = "none" => stream'[c].state = "none"
      BY <3>1 DEF Gets, Live
    <3> QED
      BY <2>1, <2>2, <3>1, <3>2, <3>3 DEF Wired, PublishedEvent, Live
  <2> QED
    BY <2>1, <2>2, <2>3 DEF HubInv, PublishedEvent
<1>5. CASE Silenced
  <2>1. /\ hub'.closed /\ hub'.left = hub.subscribers /\ runtime' = "silent" /\ ~hub.closed
        /\ UNCHANGED <<stream, removing, client>>
    BY <1>5, SilencedIs DEF HubInv
  <2>2. \A c \in Clients : Wired(c)'
    BY <2>1 DEF HubInv, Wired, Live
  <2> QED
    BY <2>1, <2>2 DEF HubInv
<1>6. ASSUME NEW c \in Clients, ClientStep(c)
      PROVE  HubInv'
  <2>1. UNCHANGED runtime
    BY <1>6, ClientStepIs DEF session
  <2>2. /\ stream \in [Clients -> Streams] /\ client \in [Clients -> Calls] /\ hub \in Hubs
        /\ \A d \in Clients : Wired(d)
    BY DEF Types, HubInv
  <2>3. ASSUME hub'.closed = hub.closed, hub'.left \subseteq hub.left,
               Same(stream, stream', c), Same(client, client', c),
               \A d \in Clients : d # c => /\ d \in removing' <=> d \in removing
                                           /\ d \in hub.subscribers => d \in hub'.subscribers
                                           /\ d \in hub.left => d \in hub'.left,
               Wired(c)'
        PROVE  HubInv'
    <3>1. ASSUME NEW d \in Clients, d # c
          PROVE  Wired(d)'
      BY <2>1, <2>2, <2>3, <3>1 DEF Wired, Live, Same
    <3>2. \A d \in Clients : Wired(d)'
      BY <2>3, <3>1
    <3> QED
      BY <2>1, <2>3, <3>2 DEF HubInv
  <2>4. CASE Moves(c)
    <3>1. UNCHANGED <<hub, stream, removing>>
      BY <2>4 DEF Moves, View, Route, Acquire, events
    <3>2. CASE View(c)
      <4>1. stream[c].state = "none" /\ c \notin removing
        BY <3>2 DEF View
      <4>2. Same(client, client', c) /\ client'[c].pc = "idle"
        BY <2>2, <3>2 DEF View, Same, At, Calls
      <4>3. Wired(c)'
        BY <3>1, <4>1, <4>2 DEF Wired, Live
      <4> QED
        BY <2>3, <3>1, <4>2, <4>3 DEF Same
    <3>3. CASE Route(c) \/ Acquire(c)
      <4>1. /\ Same(client, client', c) /\ client'[c].view = client[c].view
            /\ \/ client[c].pc = "idle" /\ client[c].view # 0
               \/ client[c].pc = "routed"
        BY <2>2, <3>3 DEF Route, Acquire, Same, At, Goto, Calls
      <4>2. Wired(c)'
        BY <2>1, <2>2, <3>1, <4>1 DEF Wired, Live
      <4> QED
        BY <2>3, <3>1, <4>1, <4>2 DEF Same
    <3> QED
      BY <2>4, <3>2, <3>3 DEF Moves
  <2>5. CASE Subscribe(c)
    <3>1. UNCHANGED removing /\ client'[c].view = 0 /\ client'[c].pc = "idle"
      BY <2>5, SubscribeEffect DEF Subscribe
    <3>2. Same(stream, stream', c) /\ Same(client, client', c) /\ client[c].pc = "admitted"
      BY <2>5, SubscribeEffect
    <3>3. /\ hub'.closed = hub.closed /\ hub'.left = hub.left
          /\ hub.subscribers \subseteq hub'.subscribers
      BY <2>5, SubscribeEffect
    <3>4. stream'[c].state = "live" =>
            \/ runtime = "open" /\ c \in hub'.subscribers
            \/ Live(c)
      BY <2>5, SubscribeEffect DEF Live
    <3>5. stream[c].state = "none" /\ c \notin removing
      BY <2>2, <3>2 DEF Wired
    <3>6. runtime = "open" => ~hub.closed
      BY DEF HubInv
    <3>7. Wired(c)'
      BY <2>1, <3>1, <3>3, <3>4, <3>5, <3>6 DEF Wired, Live
    <3> QED
      BY <2>3, <3>1, <3>2, <3>3, <3>7
  <2>6. CASE Recv(c) \/ Woken(c)
    <3>1. UNCHANGED <<hub, removing>>
      BY <2>6 DEF Recv, Woken, Look
    <3>2. /\ Same(stream, stream', c) /\ Same(client, client', c)
          /\ client'[c].pc \in {"idle", "wait"}
      BY <2>6, LookEffect
    <3>3. \/ stream'[c].state = stream[c].state /\ client'[c].view = client[c].view
          \/ stream'[c].state = "none" /\ client'[c].view = 0
      BY <2>6, LookEffect
    <3>4. Wired(c)'
      BY <2>1, <2>2, <3>1, <3>2, <3>3 DEF Wired, Live
    <3> QED
      BY <2>3, <3>1, <3>2, <3>4
  <2>7. CASE CloseStream(c) \/ CloseFromHub(c)
    <3>1. /\ stream' = [stream EXCEPT ![c] = ClosedStream(@)] /\ client' = client
          /\ hub'.closed = hub.closed /\ hub'.subscribers = hub.subscribers
          /\ hub'.left \in {hub.left, hub.left \ {c}}
          /\ removing' = removing \/ (Live(c) /\ removing' = removing \cup {c})
      BY <2>2, <2>7 DEF CloseStream, CloseFromHub, Hubs
    <3>2. /\ Same(stream, stream', c) /\ stream'[c].state # "live"
          /\ stream[c].state = "none" => stream'[c].state = "none"
      BY <3>1, ClosedStreamEffect DEF Live
    <3>3. Wired(c)'
      BY <2>2, <3>1, <3>2 DEF Wired, Live
    <3> QED
      BY <2>3, <3>1, <3>2, <3>3 DEF Same
  <2>8. CASE Remove(c)
    <3>1. /\ c \in removing /\ removing' = removing \ {c} /\ UNCHANGED <<stream, client>>
          /\ hub'.closed = hub.closed /\ hub'.subscribers = hub.subscribers \ {c}
          /\ hub'.left = hub.left
      BY <2>2, <2>8 DEF Remove, Hubs
    <3>2. Wired(c)'
      BY <2>2, <3>1 DEF Wired, Live
    <3> QED
      BY <2>3, <3>1, <3>2 DEF Same
  <2> QED
    BY <1>6, <2>4, <2>5, <2>6, <2>7, <2>8 DEF ClientStep
<1> QED
  BY <1>3, <1>4, <1>5, <1>6, Steps

LEMMA StreamStep ==
  ASSUME IInv, Next
  PROVE  StreamInv'
<1> USE DEF IInv
<1>1. /\ revision \in Nat /\ stream \in [Clients -> Streams] /\ client \in [Clients -> Calls]
      /\ BufferLimit \in Nat
      /\ \A c \in Clients : Holds(c) /\ client[c].known \in Nat
  BY DeliveryAssumption DEF Types, StreamInv, Calls
<1>2. ASSUME NEW c \in Clients, announced' = announced, revision' \in Nat, revision' >= revision,
             client'[c].known = client[c].known, stream'[c].state = stream[c].state,
             stream'[c].queue = stream[c].queue, stream'[c].overflow = stream[c].overflow
      PROVE  Holds(c)'
  <2>1. Missing(c)' = Missing(c) /\ client'[c].known <= revision'
    BY <1>1, <1>2, MissingStays DEF Holds
  <2> QED
    BY <1>1, <1>2, <2>1 DEF Holds, Live
<1>3. CASE World
  BY <1>2, <1>3, WorldIs DEF events, StreamInv
<1>4. ASSUME Commit, NEW c \in Clients
      PROVE  Holds(c)'
  <2> DEFINE r == revision + 1
  <2>1. /\ revision' = r /\ announced' = Append(announced, r) /\ client' = client
        /\ PublishedEvent(r) /\ ~hub.closed
    BY <1>4, CommitIs, Publishes
  <2>2. Missing(c)' = Missing(c) \cup {r} /\ r \notin Missing(c) /\ IsFiniteSet(Missing(c))
    BY <1>1, <2>1, MissingGrows, MissingIs DEF Holds
  <2>3. /\ r \in Nat /\ r # 0 /\ client'[c].known <= r
        /\ Cardinality(Missing(c)) \in Nat
        /\ Cardinality(Missing(c)') = Cardinality(Missing(c)) + 1
    BY <1>1, <2>1, <2>2, FS_AddElement, FS_CardinalityType DEF Holds
  <2> HIDE DEF r
  <2>4. Holds(c) /\ Wired(c) /\ Gets(c, r)
    BY <1>1, <2>1 DEF HubInv, PublishedEvent
  <2>5. CASE stream'[c] = stream[c] /\ ~Live(c)
    BY <1>1, <2>1, <2>3, <2>4, <2>5 DEF Holds, Live
  <2>6. CASE Live(c) /\ Took(stream[c], stream'[c], r)
    BY <2>1, <2>2, <2>3, <2>4, <2>6 DEF Holds, Live, Took
  <2>7. CASE Live(c) /\ Overran(stream[c], stream'[c], r)
    <3>1. Cardinality(Missing(c)) >= BufferLimit
      BY <2>4, <2>7 DEF Holds, Overran
    <3>2. Cardinality(Missing(c)') > BufferLimit
      BY <1>1, <2>3, <3>1
    <3>3. /\ stream'[c].state = "closed" /\ stream'[c].queue = <<>> /\ Len(<<>>) = 0
      BY <2>7 DEF Overran
    <3> QED
      BY <1>1, <2>1, <2>3, <3>2, <3>3 DEF Holds, Live
  <2> QED
    BY <2>1, <2>4, <2>5, <2>6, <2>7 DEF Gets, Wired
<1>5. ASSUME Temporary, NEW c \in Clients
      PROVE  Holds(c)'
  <2>1. /\ UNCHANGED <<revision, announced, client>> /\ PublishedEvent(0) /\ ~hub.closed
    BY <1>5, TemporaryIs, Publishes
  <2>2. Missing(c)' = Missing(c)
    BY <2>1, MissingStays
  <2>3. Holds(c) /\ Wired(c) /\ Gets(c, 0)
    BY <1>1, <2>1 DEF HubInv, PublishedEvent
  <2>4. CASE stream'[c] = stream[c]
    BY <1>1, <1>2, <2>1, <2>4
  <2>5. CASE Live(c) /\ Took(stream[c], stream'[c], 0)
    BY <2>1, <2>2, <2>3, <2>5 DEF Holds, Live, Took
  <2> QED
    BY <2>3, <2>4, <2>5 DEF Gets, Overran
<1>6. CASE Silenced
  BY <1>1, <1>2, <1>6, SilencedIs DEF StreamInv
<1>7. ASSUME NEW c \in Clients, ClientStep(c), NEW d \in Clients
      PROVE  Holds(d)'
  <2>1. UNCHANGED <<revision, announced, runtime>>
    BY <1>7, ClientStepIs DEF session
  <2>2. CASE Moves(c)
    <3>1. stream' = stream /\ client'[d].known = client[d].known
      BY <2>2, CallEffect DEF Moves, View, Route, Acquire, events, Same
    <3> QED
      BY <1>1, <1>2, <2>1, <3>1
  <2>3. CASE d # c /\ ~Moves(c)
    <3>1. stream'[d] = stream[d] /\ client'[d] = client[d]
      BY <1>7, <2>3, SubscribeEffect, LookEffect, ClosedStreamEffect
         DEF ClientStep, CloseStream, CloseFromHub, Remove, Same
    <3> QED
      BY <1>1, <1>2, <2>1, <3>1
  <2>4. CASE d = c /\ Subscribe(c)
    <3>1. /\ stream[c].state = "none" /\ Len(<<>>) = 0
          /\ Revisions(<<>>) = {} /\ InOrder(<<>>)
      BY <2>4, SubscribeEffect DEF HubInv, Wired, Revisions, InOrder
    <3>2. CASE stream' = stream /\ client'[c].known = 0
      BY <1>1, <2>1, <2>4, <3>1, <3>2 DEF Holds, Live
    <3>3. CASE /\ client'[c].known = revision /\ stream'[c].state = "live"
               /\ stream'[c].queue = <<>> /\ ~stream'[c].overflow
      <4>1. \A i \in DOMAIN announced : announced[i] \in Nat /\ announced[i] <= revision
        BY DEF Types, Ascending
      <4>2. Missing(c)' = {}
        BY <1>1, <2>1, <3>3, <4>1 DEF Missing
      <4> QED
        BY <1>1, <2>1, <2>4, <3>1, <3>3, <4>2 DEF Holds, Live
    <3> QED
      BY <2>4, <3>2, <3>3, SubscribeEffect
  <2>5. CASE d = c /\ (Recv(c) \/ Woken(c))
    <3> DEFINE q == stream[c].queue
               h == Head(q)
    <3>1. Holds(c) /\ stream[c] \in Streams
      BY <1>1
    <3>2. CASE /\ q # <<>> /\ stream'[c].queue = Tail(q) /\ stream'[c].state = stream[c].state
               /\ stream'[c].overflow = stream[c].overflow
               /\ client'[c].known = IF h = 0 THEN client[c].known ELSE h
      <4>1. Live(c) /\ q \in Seq(Nat) /\ Revisions(q) = Missing(c) /\ InOrder(q)
        BY <3>1, <3>2 DEF Holds, Live, Streams
      <4> HIDE DEF q
      <4>2. /\ Len(Tail(q)) = Len(q) - 1 /\ InOrder(Tail(q)) /\ h \in Nat
            /\ h = 0 => Revisions(Tail(q)) = Revisions(q)
            /\ h # 0 => /\ h \in Revisions(q)
                        /\ Revisions(Tail(q)) = {r \in Revisions(q) : r > h}
        BY <3>2, <4>1, TailIs
      <4>3. Len(q) \in Nat /\ Len(q) <= BufferLimit
        BY <3>1, <4>1 DEF Holds, q
      <4> HIDE DEF h
      <4>4. Missing(c)' = Revisions(Tail(q)) /\ client'[c].known <= revision
        <5>1. CASE h = 0
          BY <2>1, <3>1, <3>2, <4>1, <4>2, <5>1, MissingStays DEF Holds
        <5>2. CASE h # 0
          <6>1. h \in Missing(c) /\ client'[c].known = h
            BY <3>2, <4>1, <4>2, <5>2
          <6>2. h <= revision /\ h > client[c].known
            BY <6>1, MissingIs
          <6>3. \A i \in DOMAIN announced : announced[i] \in Nat
            BY DEF Types
          <6>4. Missing(c)' = {r \in Missing(c) : r > h}
            BY <1>1, <2>1, <4>2, <6>1, <6>2, <6>3 DEF Missing
          <6> QED
            BY <4>1, <4>2, <5>2, <6>1, <6>2, <6>4
        <5> QED
          BY <5>1, <5>2
      <4>5. ~stream[c].overflow
        BY <3>1, <4>1 DEF Holds, Live
      <4>6. Len(Tail(q)) <= BufferLimit
        BY <1>1, <4>2, <4>3
      <4> QED
        BY <2>1, <2>5, <3>2, <4>1, <4>2, <4>4, <4>5, <4>6 DEF Holds, Live
    <3>3. CASE /\ client'[c].known = 0 /\ stream'[c].state = "none" /\ stream'[c].queue = <<>>
               /\ ~stream'[c].overflow
      <4>1. Len(<<>>) = 0
        OBVIOUS
      <4> QED
        BY <1>1, <2>1, <2>5, <3>3, <4>1 DEF Holds, Live
    <3>4. CASE /\ stream'[c].queue = q /\ stream'[c].state = stream[c].state
               /\ stream'[c].overflow = stream[c].overflow
               /\ client'[c].known = client[c].known
      BY <1>1, <1>2, <2>1, <2>5, <3>4
    <3> QED
      BY <2>5, <3>2, <3>3, <3>4, LookEffect
  <2>6. CASE d = c /\ (CloseStream(c) \/ CloseFromHub(c))
    <3>1. stream' = [stream EXCEPT ![c] = ClosedStream(@)] /\ client' = client
      BY <2>6 DEF CloseStream, CloseFromHub
    <3>2. CASE ~Live(c) /\ stream'[c] = stream[c]
      BY <1>1, <1>2, <2>1, <2>6, <3>1, <3>2
    <3>3. CASE Live(c) /\ stream'[c].state = "closed" /\ stream'[c].queue = <<>>
      <4>1. ~stream'[c].overflow /\ Len(<<>>) = 0
        BY <1>1, <3>1, <3>3, ClosedStreamEffect DEF Holds, Live
      <4> QED
        BY <1>1, <2>1, <2>6, <3>1, <3>3, <4>1 DEF Holds, Live
    <3> QED
      BY <3>1, <3>2, <3>3, ClosedStreamEffect
  <2>7. CASE Remove(c)
    BY <1>1, <1>2, <2>1, <2>7 DEF Remove
  <2> QED
    BY <1>7, <2>2, <2>3, <2>4, <2>5, <2>6, <2>7 DEF ClientStep
<1> QED
  BY <1>3, <1>4, <1>5, <1>6, <1>7, Steps DEF StreamInv

LEMMA StopStep ==
  ASSUME IInv, Next
  PROVE  StopInv'
<1> USE DEF IInv
<1>1. /\ client \in [Clients -> Calls] /\ records \in Recordings /\ app \in Apps
      /\ StopInv
  BY DEF Types
<1>2. ASSUME UNCHANGED app, AllClosed => AllClosed' \/ app.pc = "bound",
             Active' \subseteq Active \/ app.pc \in {"new", "started", "bound", "unbound"},
             records'.closed = records.closed,
             records.worker = "done" => records'.worker = "done",
             records'.refused => records.refused \/ app.failed
      PROVE  StopInv'
  BY <1>1, <1>2 DEF StopInv
<1>3. /\ Recorded.closed = records.closed /\ Recorded.worker = records.worker
      /\ Recorded.refused => records.refused \/ records.closed
  BY RecordedIs
<1>4. client' = client => Active' = Active
  BY DEF Active, At
<1>5. CASE World
  <2>1. client' = client /\ Active' = Active
    BY <1>4, <1>5, WorldIs
  <2>2. CASE AppStep
    <3>1. app' \in Apps /\ (app.failed => app'.failed) /\ (FinishStop \/ UNCHANGED records)
      BY <2>2, AppStepIs
    <3>2. CASE /\ app'.pc \in {"started", "bound", "unbound", "closing"}
               /\ app.pc \in {"new", "started", "bound", "unbound"}
      <4>1. UNCHANGED records
        BY <3>1, <3>2 DEF FinishStop
      <4> QED
        BY <1>1, <3>1, <3>2, <4>1 DEF StopInv
    <3>3. CASE app'.pc = app.pc /\ app.pc # "stopped" /\ UNCHANGED records
      <4>1. AllClosed => AllClosed'
        BY <2>2, AppStepIs DEF AllClosed
      <4> QED
        BY <1>1, <2>1, <3>1, <3>3, <4>1 DEF StopInv
    <3>4. CASE /\ app.pc = "closing" /\ app'.pc = "draining" /\ (AllClosed \/ app'.failed)
               /\ runtime' = runtime
      <4>1. UNCHANGED records
        BY <3>1, <3>4 DEF FinishStop
      <4> QED
        BY <1>1, <3>1, <3>4, <4>1 DEF StopInv, AllClosed
    <3>5. CASE /\ Active = {} /\ records' = RecordsClosed /\ runtime' = runtime
               /\ \/ app.pc = "late" /\ app'.pc = "stopped"
                  \/ app.pc = "draining" /\ app'.pc = "finishing"
      <4>1. records'.refused = records.refused
        BY <1>1, <3>5 DEF RecordsClosed, Recordings
      <4> QED
        BY <1>1, <2>1, <3>1, <3>5, <4>1 DEF StopInv, AllClosed
    <3>6. CASE app.pc = "draining" /\ app'.pc = "late" /\ app'.failed /\ UNCHANGED records
      BY <1>1, <3>1, <3>6 DEF StopInv
    <3>7. CASE /\ app.pc = "finishing" /\ app'.pc = "stopped" /\ runtime' = runtime
               /\ (records.worker = "done" \/ app'.failed)
      <4>1. UNCHANGED records
        BY <3>1, <3>7 DEF FinishStop
      <4> QED
        BY <1>1, <2>1, <3>1, <3>7, <4>1 DEF StopInv, AllClosed
    <3> QED
      BY <2>2, <3>1, <3>2, <3>3, <3>4, <3>5, <3>6, <3>7, AppStepIs
  <2>3. CASE OpenSession
    BY <1>2, <2>1, <2>3 DEF OpenSession
  <2>4. CASE Sinks
    BY <1>2, <2>1, <2>4, SinksAre DEF session, AllClosed
  <2>5. CASE CommitUntold \/ CloseSession \/ ObserverStep
    BY <1>2, <2>1, <2>5 DEF CommitUntold, CloseSession, ObserverStep, session, AllClosed
  <2>6. CASE Closed
    <3>1. app' = app /\ AllClosed' /\ records' = Recorded /\ ~AllClosed
      BY <2>6 DEF Closed, AllClosed
    <3>2. records.closed => app.failed
      BY <1>1, <3>1 DEF StopInv
    <3> QED
      BY <1>2, <1>3, <2>1, <3>1, <3>2
  <2> QED
    BY <1>5, <2>2, <2>3, <2>4, <2>5, <2>6 DEF World, AppStep
<1>6. CASE Commit
  <2>1. /\ UNCHANGED <<app, client, runtime>> /\ records' = Recorded
        /\ runtime \in {"open", "closing"}
    BY <1>6, CommitIs
  <2>2. records.closed => app.failed
    BY <1>1, <2>1 DEF StopInv, AllClosed
  <2> QED
    BY <1>2, <1>3, <1>4, <2>1, <2>2 DEF AllClosed
<1>7. CASE Temporary
  BY <1>2, <1>4, <1>7, TemporaryIs DEF AllClosed
<1>8. CASE Silenced
  BY <1>2, <1>4, <1>8, SilencedIs DEF AllClosed
<1>9. ASSUME NEW c \in Clients, ClientStep(c)
      PROVE  StopInv'
  <2>1. UNCHANGED <<runtime, records, app>>
    BY <1>9, ClientStepIs DEF session
  <2>2. Active' \subseteq Active \/ Started
    <3>1. CASE client' = client
      BY <1>4, <3>1
    <3>2. ASSUME Same(client, client', c), client'[c].pc # "admitted"
          PROVE  Active' \subseteq Active
      BY <3>2 DEF Same, Active, At
    <3>3. CASE View(c)
      BY <1>1, <3>2, <3>3 DEF View, Same, At, Calls
    <3>4. CASE Route(c)
      BY <1>1, <3>2, <3>4 DEF Route, Same, At, Goto, Calls
    <3>5. CASE Acquire(c)
      BY <1>1, <3>2, <3>5 DEF Acquire, Same, At, Goto, Calls
    <3>6. CASE Subscribe(c)
      BY <3>2, <3>6, SubscribeEffect
    <3>7. CASE Recv(c) \/ Woken(c)
      BY <3>2, <3>7, LookEffect
    <3>8. CASE CloseStream(c) \/ CloseFromHub(c) \/ Remove(c)
      BY <3>1, <3>8 DEF CloseStream, CloseFromHub, Remove
    <3> QED
      BY <1>9, <3>3, <3>4, <3>5, <3>6, <3>7, <3>8 DEF ClientStep, Moves
  <2>3. Started => app.pc \in {"new", "started", "bound", "unbound"}
    BY DEF Started
  <2> QED
    BY <1>2, <2>1, <2>2, <2>3 DEF AllClosed
<1> QED
  BY <1>5, <1>6, <1>7, <1>8, <1>9, Steps

-----------------------------------------------------------------------------
LEMMA InitIs == Init => IInv
<1> SUFFICES ASSUME Init PROVE IInv
  OBVIOUS
<1>1. NoStream \in Streams /\ NoCall \in Calls /\ <<>> \in Seq(Nat) /\ Len(<<>>) = 0
  BY DEF NoStream, NoCall, Streams, Calls
<1>2. Types
  <2>1. hub \in Hubs /\ records \in Recordings /\ app \in Apps /\ observer \in Observers
    BY <1>1, DeliveryAssumption DEF Init, Hubs, Recordings, Apps, AppSteps, Observers
  <2> QED
    BY <1>1, <2>1, DeliveryAssumption DEF Init, Types
<1>3. /\ \A c \in Clients : stream[c] = NoStream /\ client[c] = NoCall
      /\ announced = <<>>
  BY DEF Init
<1>4. Ascending
  BY DEF Init, Ascending
<1>5. /\ NoStream.state = "none" /\ NoStream.queue = <<>> /\ ~NoStream.overflow
      /\ NoCall.view = 0 /\ NoCall.known = 0 /\ NoCall.pc = "idle"
  BY DEF NoStream, NoCall
<1>6. HubInv
  BY <1>3, <1>5 DEF Init, HubInv, Wired, Live
<1>7. StreamInv
  BY <1>1, <1>3, <1>5, DeliveryAssumption DEF Init, StreamInv, Holds, Live
<1>8. ObserverInv
  <2>1. SubSeq(<<>>, 1, 0) = <<>>
    OBVIOUS
  <2> QED
    BY <1>1, <1>3, <2>1 DEF Init, ObserverInv
<1>9. StopInv
  BY <1>3, <1>5 DEF Init, StopInv, Active, At
<1> QED
  BY <1>2, <1>4, <1>6, <1>7, <1>8, <1>9 DEF IInv

(***************************************************************************)
(* The events, the calls and the stop keep the invariant at every step of  *)
(* the Runtime, of the clients and of the application.                     *)
(***************************************************************************)
THEOREM Invariance == Spec => []IInv
<1>1. IInv /\ [Next]_vars => IInv'
  <2> SUFFICES ASSUME IInv, [Next]_vars PROVE IInv'
    OBVIOUS
  <2>1. CASE Next
    BY <2>1, TypesStep, AscendingStep, HubStep, StreamStep, ObserverInvStep, StopStep DEF IInv
  <2>2. CASE UNCHANGED vars
    <3>1. UNCHANGED <<revision, announced, runtime, hub, stream, client, removing, observer,
                      records, app, trouble>>
      BY <2>2 DEF vars, session, events
    <3>2. Types'
      BY <3>1 DEF IInv, Types
    <3>3. Ascending'
      BY <3>1 DEF IInv, Ascending
    <3>4. HubInv'
      BY <3>1 DEF IInv, HubInv, Wired, Live
    <3>5. StreamInv'
      <4>1. \A c \in Clients : Missing(c)' = Missing(c)
        BY <3>1, MissingStays
      <4> QED
        BY <3>1, <4>1 DEF IInv, StreamInv, Holds, Live
    <3>6. ObserverInv'
      BY <3>1 DEF IInv, ObserverInv
    <3>7. StopInv'
      <4>1. Active' = Active
        BY <3>1 DEF Active, At
      <4> QED
        BY <3>1, <4>1 DEF IInv, StopInv, AllClosed
    <3> QED
      BY <3>2, <3>3, <3>4, <3>5, <3>6, <3>7 DEF IInv
  <2> QED
    BY <2>1, <2>2
<1> QED
  BY InitIs, <1>1, PTL DEF Spec

(***************************************************************************)
(* For every number of clients and every limit, a live stream holds        *)
(* exactly the announced revisions that its client misses, in order; a     *)
(* stream that overflowed belongs to a client that is behind by more than  *)
(* the buffer holds; and the commit observers get every commit once and in *)
(* order (enqueue, subscribe, sessionCommitObserver.publish and run).      *)
(***************************************************************************)
THEOREM NoRevisionMissed == Spec => []NoSilentGap
<1>1. IInv => NoSilentGap
  <2> SUFFICES ASSUME IInv PROVE NoSilentGap
    OBVIOUS
  <2>1. TypeOK
    <3>1. \A c \in Clients : stream[c] \in Streams /\ client[c] \in Calls
      BY DEF IInv, Types
    <3>2. \A c \in Clients : Len(stream[c].queue) <= BufferLimit
      BY DEF IInv, StreamInv, Holds
    <3>3. hub \in Hubs /\ records \in Recordings
      BY DEF IInv, Types
    <3> QED
      BY <3>1, <3>2, <3>3 DEF TypeOK, IInv, Types, Streams, Calls, Hubs, Recordings
  <2> QED
    BY <2>1 DEF NoSilentGap, IInv, StreamInv, Holds, ObserverInv
<1> QED
  BY Invariance, <1>1, PTL

(***************************************************************************)
(* For every number of clients, a Stop that answered without an error      *)
(* leaves a closed Runtime, no call, no live stream and no refused record  *)
(* (applicationRuntime.stop, finishStop, observationHub.stop).             *)
(***************************************************************************)
THEOREM StopIsSilent == Spec => []StopIsComplete
<1>1. IInv => StopIsComplete
  <2> SUFFICES ASSUME IInv, app.pc = "stopped", ~app.failed
               PROVE  /\ runtime \in {"none", "closed"} /\ Active = {}
                      /\ \A c \in Clients : ~Live(c)
                      /\ records.worker = "done" /\ ~records.refused
    BY DEF StopIsComplete
  <2>1. AllClosed /\ Active = {} /\ records.worker = "done" /\ ~records.refused
    BY DEF IInv, StopInv
  <2>2. \A c \in Clients : ~Live(c)
    BY <2>1 DEF IInv, HubInv, Wired, AllClosed
  <2> QED
    BY <2>1, <2>2 DEF AllClosed
<1> QED
  BY Invariance, <1>1, PTL
=============================================================================
