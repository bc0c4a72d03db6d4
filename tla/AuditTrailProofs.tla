-------------------------- MODULE AuditTrailProofs --------------------------
(***************************************************************************)
(* Theorems about the deferred audit rows, for any number of orders, request *)
(* handlers and trips: while the gateway runs every row of every order is in *)
(* exactly one place, no row is ever stored twice, and a halt goes unrecorded *)
(* only by a write of its own row that failed.                               *)
(*                                                                         *)
(* The argument: the rows a handler queues are new, because an order has      *)
(* produced its outcome only once it is off the book; and a drain takes the   *)
(* whole queue into a batch that was empty, so every step moves rows between  *)
(* places that have none in common ("Apart").                               *)
(***************************************************************************)
EXTENDS AuditTrail, SequenceTheorems, FiniteSetTheorems, TLAPS

-----------------------------------------------------------------------------
(* The invariant *)

\* A sequence of rows without a repetition, and its rows.
Once(s) == \A i, j \in 1..Len(s) : s[i] = s[j] => i = j
In(s) == {s[i] : i \in 1..Len(s)}

Settled == {r \in Row : stored[r] # 0} \cup dropped
Held == UNION {In(batch[d]) : d \in Drainers}
Everywhere == In(queue) \cup Held \cup Settled

Apart ==
  /\ Once(queue) /\ \A d \in Drainers : Once(batch[d])
  /\ In(queue) \cap Held = {}
  /\ \A d, e \in Drainers : d # e => In(batch[d]) \cap In(batch[e]) = {}
  /\ Settled \cap (In(queue) \cup Held) = {}
  /\ \A r \in Row : stored[r] <= 1
  /\ \A r \in dropped : stored[r] = 0

\* Nothing is written of what did not happen, and while the gateway runs
\* nothing that did is missing.
Complete == Everywhere \subseteq Produced /\ (phase = "running" => Produced \subseteq Everywhere)

TInv == TypeOK /\ Apart /\ Complete

-----------------------------------------------------------------------------
(* Sequences of rows *)

LEMMA NoRows == <<>> \in Seq(Row) /\ Once(<<>>) /\ In(<<>>) = {}
BY EmptySeq DEF Once, In

LEMMA OneRow ==
  ASSUME NEW r \in Row
  PROVE  <<r>> \in Seq(Row) /\ Once(<<r>>) /\ In(<<r>>) = {r}
BY DEF Once, In

LEMMA Joined ==
  ASSUME NEW s \in Seq(Row), NEW t \in Seq(Row)
  PROVE  /\ s \o t \in Seq(Row) /\ In(s \o t) = In(s) \cup In(t)
         /\ Once(s) /\ Once(t) /\ In(s) \cap In(t) = {} => Once(s \o t)
<1>1. Len(s) \in Nat /\ Len(t) \in Nat
  BY LenProperties
<1>2. /\ s \o t \in Seq(Row) /\ Len(s \o t) = Len(s) + Len(t)
      /\ \A i \in 1..Len(s) + Len(t) : (s \o t)[i] = IF i <= Len(s) THEN s[i] ELSE t[i - Len(s)]
  BY ConcatProperties
<1>. DEFINE u == s \o t
<1>. HIDE DEF u
<1>3. /\ \A i \in 1..Len(s) : i \in 1..Len(u) /\ u[i] = s[i]
      /\ \A i \in 1..Len(t) : i + Len(s) \in 1..Len(u) /\ u[i + Len(s)] = t[i]
      /\ \A k \in 1..Len(u) : \/ k \in 1..Len(s) /\ u[k] = s[k]
                              \/ k - Len(s) \in 1..Len(t) /\ u[k] = t[k - Len(s)]
  BY <1>1, <1>2 DEF u
<1>4. In(u) = In(s) \cup In(t)
  <2>1. \A x \in In(s) \cup In(t) : x \in In(u)
    BY <1>3 DEF In
  <2>2. \A x \in In(u) : x \in In(s) \cup In(t)
    BY <1>3 DEF In
  <2>. QED BY <2>1, <2>2
<1>5. ASSUME Once(s), Once(t), In(s) \cap In(t) = {} PROVE Once(u)
  <2>. SUFFICES ASSUME NEW i \in 1..Len(u), NEW j \in 1..Len(u), u[i] = u[j] PROVE i = j
    BY DEF Once
  <2>1. CASE i \in 1..Len(s) /\ u[i] = s[i] /\ j \in 1..Len(s) /\ u[j] = s[j]
    BY <1>5, <2>1 DEF Once
  <2>2. CASE i - Len(s) \in 1..Len(t) /\ u[i] = t[i - Len(s)] /\ j - Len(s) \in 1..Len(t) /\ u[j] = t[j - Len(s)]
    <3>1. i - Len(s) = j - Len(s)
      BY <1>5, <2>2 DEF Once
    <3>. QED BY <1>1, <1>2, <3>1 DEF u
  <2>3. ~(u[i] \in In(s) /\ u[i] \in In(t))
    BY <1>5
  <2>. QED BY <1>3, <2>1, <2>2, <2>3 DEF In
<1>. QED BY <1>2, <1>4, <1>5 DEF u

LEMMA Rest ==
  ASSUME NEW s \in Seq(Row), s # <<>>
  PROVE  /\ Head(s) \in Row /\ Tail(s) \in Seq(Row) /\ In(s) = {Head(s)} \cup In(Tail(s))
         /\ Once(s) => Once(Tail(s)) /\ Head(s) \notin In(Tail(s))
<1>1. Len(s) \in Nat /\ Len(s) > 0
  BY LenProperties, EmptySeq
<1>2. /\ Head(s) = s[1] /\ Head(s) \in Row /\ Tail(s) \in Seq(Row) /\ Len(Tail(s)) = Len(s) - 1
      /\ \A i \in 1..Len(Tail(s)) : Tail(s)[i] = s[i + 1]
  BY HeadTailProperties, ElementOfSeq, <1>1
<1>. DEFINE t == Tail(s)
<1>. HIDE DEF t
<1>3. /\ \A i \in 1..Len(t) : i + 1 \in 1..Len(s) /\ t[i] = s[i + 1]
      /\ \A k \in 1..Len(s) : k = 1 \/ (k - 1 \in 1..Len(t) /\ t[k - 1] = s[k])
      /\ 1 \in 1..Len(s)
  BY <1>1, <1>2 DEF t
<1>4. In(s) = {s[1]} \cup In(t)
  <2>1. \A x \in In(s) : x = s[1] \/ x \in In(t)
    BY <1>3 DEF In
  <2>2. \A x \in In(t) : x \in In(s)
    BY <1>3 DEF In
  <2>. QED BY <1>3, <2>1, <2>2 DEF In
<1>5. ASSUME Once(s) PROVE Once(t) /\ s[1] \notin In(t)
  <2>1. ASSUME NEW i \in 1..Len(t), NEW j \in 1..Len(t), t[i] = t[j] PROVE i = j
    <3>1. i + 1 = j + 1
      BY <1>3, <1>5, <2>1 DEF Once
    <3>. QED BY <3>1
  <2>2. ASSUME NEW i \in 1..Len(t), t[i] = s[1] PROVE FALSE
    <3>1. i + 1 = 1
      BY <1>3, <1>5, <2>2 DEF Once
    <3>. QED BY <3>1
  <2>. QED BY <2>1, <2>2 DEF Once, In
<1>. QED BY <1>2, <1>4, <1>5 DEF t

LEMMA RowsIn ==
  ASSUME NEW s \in Seq(Row)
  PROVE  In(s) \subseteq Row /\ ToSet(s) = In(s)
<1>1. In(s) \subseteq Row
  BY ElementOfSeq DEF In
<1>2. DOMAIN s = 1..Len(s)
  BY LenProperties
<1>. QED BY <1>1, <1>2 DEF In, ToSet

\* A row without a repetition is counted once where it is, and not where it is not.
LEMMA CountedOnce ==
  ASSUME NEW s \in Seq(Row), Once(s), NEW r
  PROVE  Times(r, s) = IF r \in In(s) THEN 1 ELSE 0
<1>. DEFINE S == {i \in 1..Len(s) : s[i] = r}
<1>1. CASE r \in In(s)
  <2>1. PICK i \in 1..Len(s) : S = {i}
    BY <1>1 DEF In, Once
  <2>. QED BY <1>1, <2>1, FS_Singleton DEF Times
<1>2. CASE r \notin In(s)
  <2>1. S = {}
    BY <1>2 DEF In
  <2>. QED BY <1>2, <2>1, FS_EmptySet DEF Times
<1>. QED BY <1>1, <1>2

LEMMA RetireOne ==
  ASSUME NEW o \in Orders
  PROVE  /\ RetireRows(o) \in Seq(Row) /\ Once(RetireRows(o))
         /\ In(RetireRows(o)) = {r \in Row : r.order = o /\ r.what # "rested"}
<1>. DEFINE a == [order |-> o, what |-> "outcome"]
            b == [order |-> o, what |-> "event"]
<1>1. a \in Row /\ b \in Row /\ a # b
  BY DEF Row
<1>2. RetireRows(o) = <<a, b>>
  BY DEF RetireRows
<1>3. \A r \in Row : r.order = o /\ r.what # "rested" <=> r = a \/ r = b
  BY DEF Row
<1>. HIDE DEF a, b
<1>4. <<a, b>> \in Seq(Row) /\ Once(<<a, b>>) /\ In(<<a, b>>) = {a, b}
  BY <1>1 DEF Once, In
<1>. QED BY <1>1, <1>2, <1>3, <1>4

LEMMA Listing ==
  ASSUME NEW S, IsFiniteSet(S)
  PROVE  /\ Cardinality(S) \in Nat /\ SetToSeq(S) \in [1..Cardinality(S) -> S]
         /\ \A i, j \in 1..Cardinality(S) : SetToSeq(S)[i] = SetToSeq(S)[j] => i = j
         /\ \A x \in S : \E i \in 1..Cardinality(S) : SetToSeq(S)[i] = x
<1>. DEFINE n == Cardinality(S)
<1>1. n \in Nat
  BY FS_CardinalityType
<1>2. ExistsBijection(1..n, S)
  BY FS_CardinalityType
<1>3. \E f \in [1..n -> S] : IsInjective(f)
  BY <1>2 DEF ExistsBijection, Bijection, Injection, IsInjective
<1>4. SetToSeq(S) \in [1..n -> S] /\ IsInjective(SetToSeq(S))
  BY <1>3 DEF SetToSeq
<1>. DEFINE f == SetToSeq(S)
<1>5. f \in Injection(1..n, S)
  BY <1>4 DEF Injection, IsInjective
<1>6. IsFiniteSet(1..n) /\ Cardinality(1..n) = n
  BY <1>1, FS_Interval
<1>7. f \in Surjection(1..n, S)
  BY <1>5, <1>6, FS_Injection
<1>. QED BY <1>1, <1>4, <1>5, <1>7 DEF Injection, Surjection, IsInjective

\* Retiring a set of orders makes an outcome and an event of each, once.
LEMMA RetireMany ==
  ASSUME NEW S \in SUBSET Orders
  PROVE  /\ RetireAll(S) \in Seq(Row) /\ Once(RetireAll(S))
         /\ In(RetireAll(S)) = {r \in Row : r.order \in S /\ r.what # "rested"}
<1>. DEFINE n == Cardinality(S)
            f == SetToSeq(S)
            what(i) == IF i % 2 = 1 THEN "outcome" ELSE "event"
            s == RetireAll(S)
<1>1. IsFiniteSet(S)
  BY TrailAssumption, FS_Subset
<1>2. /\ n \in Nat /\ f \in [1..n -> S]
      /\ \A i, j \in 1..n : f[i] = f[j] => i = j
      /\ \A x \in S : \E i \in 1..n : f[i] = x
  BY <1>1, Listing
<1>3. s = [i \in 1..2 * n |-> [order |-> f[(i + 1) \div 2], what |-> what(i)]]
  BY DEF RetireAll
<1>. HIDE DEF n, f, s
<1>4. ASSUME NEW i \in 1..2 * n
      PROVE  (i + 1) \div 2 \in 1..n /\ i = 2 * ((i + 1) \div 2) - (IF i % 2 = 1 THEN 1 ELSE 0)
  BY <1>2
<1>5. ASSUME NEW i \in 1..2 * n
      PROVE s[i] \in Row /\ s[i].order = f[(i + 1) \div 2] /\ s[i].what = what(i) /\ s[i].order \in S
  BY <1>2, <1>3, <1>4 DEF Row
<1>6. DOMAIN s = 1..2 * n /\ 2 * n \in Nat
  BY <1>2, <1>3
<1>7. s \in Seq(Row) /\ Len(s) = 2 * n
  <2>1. s \in [1..2 * n -> Row]
    BY <1>3, <1>5
  <2>. QED BY <1>6, <2>1, SeqDef, LenProperties
<1>8. Once(s)
  <2>. SUFFICES ASSUME NEW i \in 1..2 * n, NEW j \in 1..2 * n, s[i] = s[j] PROVE i = j
    BY <1>7 DEF Once
  <2>1. (i + 1) \div 2 = (j + 1) \div 2
    BY <1>2, <1>4, <1>5
  <2>2. (i % 2 = 1) <=> (j % 2 = 1)
    BY <1>5
  <2>. QED BY <1>4, <2>1, <2>2
<1>9. In(s) = {r \in Row : r.order \in S /\ r.what # "rested"}
  <2>1. \A i \in 1..2 * n : s[i] \in Row /\ s[i].order \in S /\ s[i].what # "rested"
    BY <1>5
  <2>2. ASSUME NEW r \in Row, r.order \in S, r.what # "rested" PROVE r \in In(s)
    <3>1. PICK k \in 1..n : f[k] = r.order
      BY <1>2, <2>2
    <3>2. r = [order |-> r.order, what |-> r.what] /\ r.what \in {"outcome", "event"}
      BY <2>2 DEF Row
    <3>. DEFINE i == IF r.what = "outcome" THEN 2 * k - 1 ELSE 2 * k
    <3>3. i \in 1..2 * n /\ (i + 1) \div 2 = k /\ what(i) = r.what
      BY <1>2, <3>2
    <3>4. s[i] = [order |-> f[k], what |-> r.what]
      BY <1>3, <3>3
    <3>. HIDE DEF i
    <3>. QED BY <1>7, <3>1, <3>2, <3>3, <3>4 DEF In
  <2>. QED BY <1>7, <2>1, <2>2 DEF In
<1>. QED BY <1>7, <1>8, <1>9 DEF s

-----------------------------------------------------------------------------
(* Moving rows *)

\* The parts of TypeOK a drain may change.
Drains ==
  /\ queue \in Seq(Row)
  /\ batch \in [Drainers -> Seq(Row)]
  /\ doing \in [Drainers -> {"idle", "drain", "halt"}]
  /\ \A d \in Drainers : doing[d] = "idle" => batch[d] = <<>>
  /\ told \in {"none", "engaged", "released"} /\ missed \in BOOLEAN

Desk ==
  /\ used \subseteq Orders /\ resting \subseteq used
  /\ switch \in BOOLEAN /\ trips \in 0..MaxHalts
  /\ phase \in {"running", "stopping", "stopped"}

Store == stored \in [Row -> Nat] /\ dropped \subseteq Row

LEMMA Parts == TypeOK <=> Drains /\ Desk /\ Store
BY DEF TypeOK, Drains, Desk, Store

\* A batch replaced by "s": what is held then.
LEMMA BatchBecomes ==
  ASSUME Drains, NEW d \in Drainers, NEW s, batch' = [batch EXCEPT ![d] = s]
  PROVE  /\ batch'[d] = s /\ \A e \in Drainers : e # d => batch'[e] = batch[e]
         /\ Held' = In(s) \cup UNION {In(batch[e]) : e \in Drainers \ {d}}
         /\ Held = In(batch[d]) \cup UNION {In(batch[e]) : e \in Drainers \ {d}}
<1>1. batch'[d] = s /\ \A e \in Drainers : e # d => batch'[e] = batch[e]
  BY DEF Drains
<1>. QED BY <1>1 DEF Held

\* New rows are queued and the whole queue goes to a drain that held nothing.
LEMMA Drained ==
  ASSUME TInv, NEW d \in Drainers, batch[d] = <<>>, NEW n \in Seq(Row), Once(n),
         NEW why \in {"drain", "halt"}, In(n) \cap Produced = {}, Drain(d, n, why),
         UNCHANGED <<stored, dropped, phase>>, Produced' = Produced \cup In(n)
  PROVE  Drains' /\ Apart' /\ Complete'
<1>. DEFINE s == queue \o n
<1>1. /\ queue' = <<>> /\ batch' = [batch EXCEPT ![d] = s]
      /\ doing' = [doing EXCEPT ![d] = IF s = <<>> THEN "idle" ELSE why]
      /\ told' \in {told, "engaged"} /\ missed' \in {missed, TRUE, FALSE}
  BY DEF Drain, Record, toldVars
<1>2. Drains /\ In(queue) \cap In(n) = {}
  BY Parts DEF TInv, Complete, Everywhere
<1>3. s \in Seq(Row) /\ Once(s) /\ In(s) = In(queue) \cup In(n)
  BY <1>2, Joined DEF Drains, TInv, Apart
<1>. HIDE DEF s
<1>4. /\ batch'[d] = s /\ \A e \in Drainers : e # d => batch'[e] = batch[e]
      /\ Held' = In(s) \cup UNION {In(batch[e]) : e \in Drainers \ {d}}
      /\ Held = UNION {In(batch[e]) : e \in Drainers \ {d}}
  BY <1>1, <1>2, BatchBecomes, NoRows
<1>5. In(queue') = {} /\ Once(queue') /\ Settled' = Settled
  BY <1>1, NoRows DEF Settled
<1>6. Drains'
  BY <1>1, <1>2, <1>3, <1>4, NoRows DEF Drains
<1>7. Everywhere' = Everywhere \cup In(n)
  BY <1>3, <1>4, <1>5 DEF Everywhere
<1>8. In(n) \cap Everywhere = {}
  BY DEF TInv, Complete
<1>9. Apart'
  <2>1. \A e \in Drainers : Once(batch'[e])
    BY <1>3, <1>4 DEF TInv, Apart
  <2>2. \A e, g \in Drainers : e # g => In(batch'[e]) \cap In(batch'[g]) = {}
    <3>1. \A e \in Drainers : e # d => In(s) \cap In(batch'[e]) = {}
      BY <1>3, <1>4, <1>8 DEF TInv, Apart, Everywhere
    <3>. QED BY <1>4, <3>1 DEF TInv, Apart
  <2>3. Settled \cap Held' = {}
    BY <1>3, <1>4, <1>8 DEF TInv, Apart, Everywhere
  <2>. QED BY <1>5, <2>1, <2>2, <2>3 DEF TInv, Apart
<1>10. Complete'
  BY <1>7 DEF TInv, Complete
<1>. QED BY <1>6, <1>9, <1>10

\* What the orders on the book have not produced yet, and produce when they
\* leave it.
LEMMA Retiring ==
  ASSUME TInv, NEW S \in SUBSET resting
  PROVE  /\ S \subseteq Orders
         /\ RetireAll(S) \in Seq(Row) /\ Once(RetireAll(S))
         /\ In(RetireAll(S)) = {r \in Row : r.order \in S /\ r.what # "rested"}
         /\ In(RetireAll(S)) \cap Produced = {}
         /\ used' = used /\ resting' = resting \ S => Produced' = Produced \cup In(RetireAll(S))
<1>1. S \subseteq Orders /\ S \subseteq used
  BY DEF TInv, TypeOK
<1>2. /\ RetireAll(S) \in Seq(Row) /\ Once(RetireAll(S))
      /\ In(RetireAll(S)) = {r \in Row : r.order \in S /\ r.what # "rested"}
  BY <1>1, RetireMany
<1>. QED BY <1>1, <1>2 DEF Produced

-----------------------------------------------------------------------------
(* The steps *)

LEMMA RestsStep ==
  ASSUME TInv, NEW d \in Requests, NEW o \in Orders, OrderRests(d, o)
  PROVE  TInv'
<1>1. PICK rolled \in SUBSET resting :
        /\ resting' = (resting \ rolled) \cup {o} /\ used' = used \cup {o} /\ o \notin used
        /\ Drain(d, Append(RetireAll(rolled), RestRow(o)), "drain")
        /\ UNCHANGED <<stored, dropped, switch, trips, phase>>
        /\ doing[d] = "idle"
  BY DEF OrderRests, Idle
<1>. DEFINE n == Append(RetireAll(rolled), RestRow(o))
<1>2. /\ RetireAll(rolled) \in Seq(Row) /\ Once(RetireAll(rolled))
      /\ In(RetireAll(rolled)) = {r \in Row : r.order \in rolled /\ r.what # "rested"}
      /\ In(RetireAll(rolled)) \cap Produced = {} /\ rolled \subseteq used /\ resting \subseteq used
  BY Retiring DEF TInv, TypeOK
<1>3. RestRow(o) \in Row /\ RestRow(o).order = o /\ RestRow(o).what = "rested"
  BY DEF RestRow, Row
<1>4. n = RetireAll(rolled) \o <<RestRow(o)>>
  BY <1>2, <1>3, AppendIsConcat
<1>5. n \in Seq(Row) /\ Once(n) /\ In(n) = In(RetireAll(rolled)) \cup {RestRow(o)}
  <2>. DEFINE s == RetireAll(rolled)
              t == <<RestRow(o)>>
  <2>1. s \in Seq(Row) /\ Once(s) /\ In(s) \cap {RestRow(o)} = {} /\ n = s \o t
    BY <1>2, <1>3, <1>4
  <2>2. t \in Seq(Row) /\ Once(t) /\ In(t) = {RestRow(o)}
    BY <1>3, OneRow
  <2>. HIDE DEF s, t
  <2>3. n \in Seq(Row) /\ Once(n) /\ In(n) = In(s) \cup In(t)
    BY <2>1, <2>2, Joined
  <2>. QED BY <2>2, <2>3 DEF s
<1>. HIDE DEF n
<1>6. In(n) \cap Produced = {}
  BY <1>1, <1>2, <1>3, <1>5 DEF Produced
<1>7. Produced' = Produced \cup In(n)
  <2>1. \A r \in Row : r.order = o /\ r.what = "rested" => r = RestRow(o)
    BY DEF Row, RestRow
  <2>2. \A r \in Row : r \in Produced' <=> r \in Produced \/ r \in In(n)
    BY <1>1, <1>2, <1>3, <1>5, <2>1 DEF Produced, Row
  <2>3. In(n) \subseteq Row /\ Produced \subseteq Row /\ Produced' \subseteq Row
    BY <1>5, RowsIn DEF Produced
  <2>. QED BY <2>2, <2>3
<1>8. d \in Drainers /\ batch[d] = <<>>
  BY <1>1 DEF Drainers, TInv, TypeOK
<1>9. Drains' /\ Apart' /\ Complete'
  BY <1>1, <1>5, <1>6, <1>7, <1>8, Drained DEF n
<1>10. Desk' /\ Store'
  BY <1>1 DEF TInv, TypeOK, Desk, Store
<1>. QED BY <1>9, <1>10 DEF TInv, TypeOK, Drains, Desk, Store

\* A handler that takes orders off the book and drains.
LEMMA RetiringDrain ==
  ASSUME TInv, NEW d \in Drainers, doing[d] = "idle", NEW S \in SUBSET resting, NEW n,
         n = RetireAll(S), NEW why \in {"drain", "halt"}, Drain(d, n, why),
         used' = used, resting' = resting \ S, UNCHANGED <<stored, dropped, phase>>,
         switch' \in BOOLEAN, trips' \in 0..MaxHalts
  PROVE  TInv'
<1>1. batch[d] = <<>>
  BY DEF TInv, TypeOK
<1>2. /\ n \in Seq(Row) /\ Once(n) /\ In(n) \cap Produced = {}
      /\ Produced' = Produced \cup In(n)
  BY Retiring
<1>3. Drains' /\ Apart' /\ Complete'
  BY <1>1, <1>2, Drained
<1>4. Desk' /\ Store'
  BY DEF TInv, TypeOK, Desk, Store
<1>. QED BY <1>3, <1>4 DEF TInv, TypeOK, Drains, Desk, Store

\* One order leaves the book.
LEMMA CancelStep ==
  ASSUME TInv, NEW d \in Requests, NEW o \in Orders, CancelWorking(d, o)
  PROVE  TInv'
<1>. DEFINE n == RetireRows(o)
<1>1. /\ o \in resting /\ resting' = resting \ {o} /\ used' = used /\ Drain(d, n, "drain")
      /\ UNCHANGED <<stored, dropped, switch, trips, phase>> /\ doing[d] = "idle"
  BY DEF CancelWorking, Idle
<1>2. n \in Seq(Row) /\ Once(n) /\ In(n) = {r \in Row : r.order = o /\ r.what # "rested"}
  BY RetireOne
<1>. HIDE DEF n
<1>3. resting \subseteq used
  BY DEF TInv, TypeOK
<1>4. In(n) \cap Produced = {}
  BY <1>1, <1>2 DEF Produced
<1>5. Produced' = Produced \cup In(n)
  BY <1>1, <1>2, <1>3 DEF Produced
<1>6. d \in Drainers /\ batch[d] = <<>>
  BY <1>1 DEF Drainers, TInv, TypeOK
<1>7. Drains' /\ Apart' /\ Complete'
  BY <1>1, <1>2, <1>4, <1>5, <1>6, Drained
<1>8. Desk' /\ Store'
  BY <1>1 DEF TInv, TypeOK, Desk, Store
<1>. QED BY <1>7, <1>8 DEF TInv, TypeOK, Drains, Desk, Store

LEMMA SweepStep ==
  ASSUME TInv, Sweep
  PROVE  TInv'
<1>1. PICK filled \in SUBSET resting :
        /\ resting' = resting \ filled /\ Drain("sweep", RetireAll(filled), "drain")
        /\ UNCHANGED <<used, stored, dropped, switch, trips, phase>> /\ doing["sweep"] = "idle"
  BY DEF Sweep, Idle
<1>2. "sweep" \in Drainers /\ switch' \in BOOLEAN /\ trips' \in 0..MaxHalts
  BY <1>1 DEF Drainers, TInv, TypeOK
<1>. QED BY <1>1, <1>2, RetiringDrain

LEMMA KillStep ==
  ASSUME TInv, NEW d \in Drainers, TriggerKill(d)
  PROVE  TInv'
<1>1. /\ resting' = resting \ resting /\ Drain(d, RetireAll(resting), "halt")
      /\ UNCHANGED <<used, stored, dropped, phase>> /\ doing[d] = "idle"
      /\ switch' = TRUE /\ trips < MaxHalts /\ trips' = trips + 1
  BY DEF TriggerKill, Idle
<1>2. switch' \in BOOLEAN /\ trips' \in 0..MaxHalts
  BY <1>1, TrailAssumption DEF TInv, TypeOK
<1>. QED BY <1>1, <1>2, RetiringDrain

\* The monitor leaves its rows in the queue.
LEMMA MonitorStep ==
  ASSUME TInv, MonitorRolls
  PROVE  TInv'
<1>. DEFINE n == RetireAll(resting)
<1>1. /\ resting' = resting \ resting /\ queue' = queue \o n
      /\ UNCHANGED <<used, batch, doing, stored, dropped, killVars, phase>>
  BY DEF MonitorRolls
<1>2. /\ n \in Seq(Row) /\ Once(n) /\ In(n) \cap Produced = {}
      /\ Produced' = Produced \cup In(n)
  BY <1>1, Retiring
<1>. HIDE DEF n
<1>3. queue \in Seq(Row) /\ Once(queue) /\ In(n) \cap Everywhere = {} /\ Everywhere \subseteq Produced
  BY <1>2 DEF TInv, TypeOK, Apart, Complete
<1>4. queue' \in Seq(Row) /\ Once(queue') /\ In(queue') = In(queue) \cup In(n)
  <2>1. In(queue) \cap In(n) = {}
    BY <1>3 DEF Everywhere
  <2>. QED BY <1>1, <1>2, <1>3, <2>1, Joined
<1>5. Held' = Held /\ Settled' = Settled
  BY <1>1 DEF Held, Settled
<1>6. Apart'
  BY <1>1, <1>3, <1>4, <1>5 DEF TInv, Apart, Everywhere
<1>7. Complete'
  BY <1>1, <1>2, <1>4, <1>5 DEF TInv, Complete, Everywhere
<1>8. TypeOK'
  BY <1>1, <1>4 DEF TInv, TypeOK, killVars, toldVars
<1>. QED BY <1>6, <1>7, <1>8 DEF TInv

\* A row leaves its drain for the store, or for good.
LEMMA WriteStep ==
  ASSUME TInv, NEW d \in Drainers, Write(d)
  PROVE  TInv'
<1>. DEFINE r == Head(batch[d])
            t == Tail(batch[d])
<1>1. /\ batch[d] # <<>> /\ batch' = [batch EXCEPT ![d] = t]
      /\ UNCHANGED <<deskVars, queue, doing, killVars, phase>>
      /\ \/ stored' = [stored EXCEPT ![r] = stored[r] + 1] /\ dropped' = dropped
         \/ dropped' = dropped \cup {r} /\ stored' = stored
  BY DEF Write
<1>2. Drains /\ batch[d] \in Seq(Row) /\ Once(batch[d]) /\ stored \in [Row -> Nat] /\ dropped \subseteq Row
  BY Parts DEF TInv, Drains, Apart, Store
<1>3. /\ r \in Row /\ t \in Seq(Row) /\ Once(t)
      /\ In(batch[d]) = {r} \cup In(t) /\ r \notin In(t)
  BY <1>1, <1>2, Rest
<1>. HIDE DEF r, t
<1>4. /\ batch'[d] = t /\ \A e \in Drainers : e # d => batch'[e] = batch[e]
      /\ Held' = In(t) \cup UNION {In(batch[e]) : e \in Drainers \ {d}}
      /\ Held = {r} \cup In(t) \cup UNION {In(batch[e]) : e \in Drainers \ {d}}
  BY <1>1, <1>2, <1>3, BatchBecomes
<1>5. r \in Held /\ r \notin Settled /\ r \notin In(queue) /\ stored[r] = 0 /\ r \notin dropped
  BY <1>2, <1>3, <1>4 DEF TInv, Apart, Settled
<1>6. r \notin Held'
  BY <1>3, <1>4 DEF TInv, Apart
<1>7. /\ Settled' = Settled \cup {r} /\ queue' = queue
      /\ stored' \in [Row -> Nat] /\ dropped' \subseteq Row
      /\ \A x \in Row : x # r => stored'[x] = stored[x]
      /\ stored'[r] \in {0, 1} /\ (r \in dropped' => stored'[r] = 0)
      /\ dropped' \subseteq dropped \cup {r}
  BY <1>1, <1>2, <1>3, <1>5 DEF Settled
<1>8. Apart'
  <2>1. Settled' \cap (In(queue)' \cup Held') = {}
    BY <1>4, <1>5, <1>6, <1>7 DEF TInv, Apart
  <2>2. /\ \A x \in Row : stored'[x] <= 1
        /\ \A x \in dropped' : stored'[x] = 0
    <3>1. (\A x \in Row : stored[x] <= 1) /\ \A x \in dropped : stored[x] = 0
      BY DEF TInv, Apart
    <3>2. \A x \in Row : x = r \/ stored'[x] = stored[x]
      BY <1>7
    <3>3. ASSUME NEW x \in Row PROVE stored'[x] <= 1
      BY <1>7, <3>1, <3>2
    <3>4. ASSUME NEW x \in dropped' PROVE stored'[x] = 0
      BY <1>2, <1>7, <3>1, <3>2
    <3>. QED BY <3>3, <3>4
  <2>3. In(queue)' \cap Held' = {} /\ Once(queue)'
    BY <1>4, <1>7 DEF TInv, Apart
  <2>4. /\ \A e \in Drainers : Once(batch'[e])
        /\ \A e, g \in Drainers : e # g => In(batch'[e]) \cap In(batch'[g]) = {}
    <3>1. \A e \in Drainers : In(batch'[e]) \subseteq In(batch[e]) /\ Once(batch'[e])
      BY <1>3, <1>4 DEF TInv, Apart
    <3>. QED BY <3>1 DEF TInv, Apart
  <2>. QED BY <2>1, <2>2, <2>3, <2>4 DEF Apart
<1>9. Complete'
  <2>1. Everywhere' = Everywhere
    BY <1>4, <1>7 DEF Everywhere
  <2>2. Produced' = Produced /\ phase' = phase
    BY <1>1 DEF Produced, deskVars
  <2>. QED BY <2>1, <2>2 DEF TInv, Complete
<1>10. Drains' /\ Desk' /\ Store'
  BY <1>1, <1>2, <1>3, <1>4, <1>7 DEF TInv, TypeOK, Drains, Desk, Store, deskVars, killVars, toldVars
<1>. QED BY <1>8, <1>9, <1>10 DEF TInv, TypeOK, Drains, Desk, Store

\* Steps that move no row.
LEMMA QuietStep ==
  ASSUME TInv, (\E d \in Drainers : Resume(d)) \/ (\E d \in Requests : ReleaseKill(d)) \/ Exit \/ UNCHANGED vars
  PROVE  TInv'
<1>1. UNCHANGED <<used, resting, queue, batch, stored, dropped>> /\ (phase' = phase \/ phase' = "stopped")
  BY DEF Resume, ReleaseKill, Exit, vars, deskVars
<1>2. TypeOK'
  <2>1. /\ doing' \in [Drainers -> {"idle", "drain", "halt"}]
        /\ \A d \in Drainers : doing'[d] = "idle" => batch'[d] = <<>>
    BY DEF Resume, ReleaseKill, Exit, Record, vars, deskVars, killVars, toldVars, TInv, TypeOK
  <2>2. /\ switch' \in BOOLEAN /\ trips' \in 0..MaxHalts /\ told' \in {"none", "engaged", "released"}
        /\ missed' \in BOOLEAN /\ phase' \in {"running", "stopping", "stopped"}
    BY DEF Resume, ReleaseKill, Exit, Record, vars, deskVars, killVars, toldVars, TInv, TypeOK
  <2>. QED BY <1>1, <2>1, <2>2 DEF TInv, TypeOK
<1>3. Held' = Held /\ Settled' = Settled /\ Produced' = Produced /\ In(queue)' = In(queue)
  BY <1>1 DEF Held, Settled, Produced
<1>4. Apart'
  BY <1>1, <1>3 DEF TInv, Apart
<1>5. Complete'
  BY <1>1, <1>3 DEF TInv, Complete, Everywhere
<1>. QED BY <1>2, <1>4, <1>5 DEF TInv

\* A set of rows of which nothing was written is written at once, some of them
\* in vain.
LEMMA Settling ==
  ASSUME TInv, NEW X \in SUBSET Row, X \cap Settled = {}, NEW failed \in SUBSET X, NEW times,
         dropped' = dropped \cup failed,
         stored' = [r \in Row |-> stored[r] + IF r \in failed THEN 0 ELSE times[r]],
         \A r \in Row : times[r] = IF r \in X THEN 1 ELSE 0
  PROVE  /\ Store' /\ Settled' = Settled \cup X
         /\ \A r \in Row : stored'[r] <= 1
         /\ \A r \in dropped' : stored'[r] = 0
<1>1. stored \in [Row -> Nat] /\ dropped \subseteq Row
  BY DEF TInv, TypeOK
<1>2. \A r \in Row : stored'[r] = IF r \in X /\ r \notin failed THEN stored[r] + 1 ELSE stored[r]
  BY <1>1
<1>3. \A r \in X : stored[r] = 0 /\ r \notin dropped
  BY DEF Settled
<1>4. /\ \A r \in Row : stored[r] <= 1 /\ stored[r] \in Nat
      /\ \A r \in dropped : stored[r] = 0
  BY <1>1 DEF TInv, Apart
<1>5. ASSUME NEW r \in Row
      PROVE  /\ stored'[r] \in Nat /\ stored'[r] <= 1
             /\ stored'[r] # 0 <=> (stored[r] # 0 \/ (r \in X /\ r \notin failed))
  BY <1>2, <1>3, <1>4
<1>6. stored' = [r \in Row |-> stored'[r]]
  OBVIOUS
<1>7. Store'
  BY <1>1, <1>5, <1>6 DEF Store
<1>8. Settled' = Settled \cup X
  BY <1>1, <1>5 DEF Settled
<1>9. \A r \in dropped' : stored'[r] = 0
  BY <1>1, <1>2, <1>3, <1>4
<1>. QED BY <1>5, <1>7, <1>8, <1>9

\* The reset retires the book and writes all that is queued.
LEMMA ResetStep ==
  ASSUME TInv, NEW d \in Requests, ResetBook(d)
  PROVE  TInv'
<1>. DEFINE n == RetireAll(resting)
            rows == queue \o n
            times == [r \in Row |-> Times(r, rows)]
<1>1. PICK failed \in SUBSET ToSet(rows) :
        /\ dropped' = dropped \cup failed
        /\ stored' = [r \in Row |-> stored[r] + IF r \in failed THEN 0 ELSE Times(r, rows)]
  BY DEF ResetBook
<1>2. /\ resting' = resting \ resting /\ queue' = <<>>
      /\ UNCHANGED <<used, batch, doing, killVars, phase>>
  BY DEF ResetBook
<1>3. /\ n \in Seq(Row) /\ Once(n) /\ In(n) \cap Produced = {}
      /\ Produced' = Produced \cup In(n)
  BY <1>2, Retiring
<1>4. queue \in Seq(Row) /\ Once(queue) /\ Everywhere \subseteq Produced /\ In(queue) \subseteq Everywhere
  BY DEF TInv, TypeOK, Apart, Complete, Everywhere
<1>5. rows \in Seq(Row) /\ Once(rows) /\ In(rows) = In(queue) \cup In(n)
  <2>1. In(queue) \cap In(n) = {}
    BY <1>3, <1>4
  <2>. HIDE DEF n
  <2>. QED BY <1>3, <1>4, <2>1, Joined
<1>6. In(rows) \subseteq Row /\ ToSet(rows) = In(rows)
  BY <1>5, RowsIn
<1>7. \A r \in Row : times[r] = IF r \in In(rows) THEN 1 ELSE 0
  BY <1>5, CountedOnce
<1>8. stored' = [r \in Row |-> stored[r] + IF r \in failed THEN 0 ELSE times[r]]
  BY <1>1
<1>. HIDE DEF n, rows, times
<1>9. In(rows) \cap Settled = {} /\ In(rows) \cap Held = {}
  BY <1>3, <1>4, <1>5 DEF TInv, Apart, Everywhere
<1>10. /\ Store' /\ Settled' = Settled \cup In(rows)
       /\ \A r \in Row : stored'[r] <= 1
       /\ \A r \in dropped' : stored'[r] = 0
  <2>. DEFINE X == In(rows)
  <2>1. X \in SUBSET Row /\ failed \in SUBSET X /\ X \cap Settled = {}
    BY <1>6, <1>9
  <2>2. \A r \in Row : times[r] = IF r \in X THEN 1 ELSE 0
    BY <1>7
  <2>3. dropped' = dropped \cup failed
    BY <1>1
  <2>. HIDE DEF X
  <2>4. /\ Store' /\ Settled' = Settled \cup X
        /\ \A r \in Row : stored'[r] <= 1
        /\ \A r \in dropped' : stored'[r] = 0
    BY ZenonT(120), <2>1, <2>2, <2>3, <1>8, Settling
  <2>. QED BY <2>4 DEF X
<1>11. In(queue)' = {} /\ Once(queue)' /\ Held' = Held
  BY <1>2, NoRows DEF Held
<1>12. Apart'
  BY <1>2, <1>9, <1>10, <1>11 DEF TInv, Apart
<1>13. Everywhere' = Everywhere \cup In(n)
  BY <1>5, <1>10, <1>11 DEF Everywhere
<1>14. Complete'
  BY <1>2, <1>3, <1>13 DEF TInv, Complete
<1>15. Drains' /\ Desk'
  BY <1>2, NoRows DEF TInv, TypeOK, Drains, Desk, killVars, toldVars
<1>. QED BY <1>10, <1>12, <1>14, <1>15 DEF TInv, TypeOK, Drains, Desk, Store

\* The graceful stop: the rows in hand are written, and what the cancelled drains
\* held besides is given up.
LEMMA StopStep ==
  ASSUME TInv, Stop
  PROVE  TInv'
<1>. DEFINE n == RetireAll(resting)
            held == {d \in {"sweep", "monitor"} : batch[d] # <<>>}
            heads == {Head(batch[d]) : d \in held}
            times == [r \in Row |-> Cardinality({d \in held : Head(batch[d]) = r})]
<1>1. PICK failed \in SUBSET heads :
        /\ dropped' = dropped \cup failed
        /\ stored' = [r \in Row |->
             stored[r] + IF r \in failed THEN 0 ELSE Cardinality({d \in held : Head(batch[d]) = r})]
  BY DEF Stop
<1>2. /\ resting' = resting \ resting /\ phase' = "stopping"
      /\ doing' = [d \in Drainers |-> IF d = "stopper" /\ batch'[d] # <<>> THEN "drain" ELSE "idle"]
      /\ UNCHANGED <<used, killVars>>
      /\ \/ batch' = [d \in Drainers |-> <<>>] /\ queue' = queue
         \/ /\ batch' = [d \in Drainers |-> IF d = "stopper" THEN queue \o n ELSE <<>>]
            /\ queue' = <<>>
  BY DEF Stop
<1>3. /\ n \in Seq(Row) /\ Once(n) /\ In(n) \cap Produced = {}
      /\ Produced' = Produced \cup In(n)
  BY <1>2, Retiring
<1>4. /\ queue \in Seq(Row) /\ Once(queue) /\ Everywhere \subseteq Produced
      /\ batch \in [Drainers -> Seq(Row)] /\ \A d \in Drainers : Once(batch[d])
  BY DEF TInv, TypeOK, Apart, Complete
<1>5. held \subseteq Drainers /\ "stopper" \in Drainers
  BY DEF Drainers
<1>6. \A d \in held : Head(batch[d]) \in Row /\ Head(batch[d]) \in In(batch[d])
  BY <1>4, <1>5, Rest
<1>7. heads \subseteq Row /\ heads \subseteq Held
  BY <1>5, <1>6 DEF Held
<1>8. \A r \in Row : times[r] = IF r \in heads THEN 1 ELSE 0
  <2>. SUFFICES ASSUME NEW r \in Row
                PROVE  Cardinality({d \in held : Head(batch[d]) = r}) = IF r \in heads THEN 1 ELSE 0
    OBVIOUS
  <2>1. CASE r \in heads
    <3>1. PICK d \in held : Head(batch[d]) = r
      BY <2>1
    <3>2. \A e \in held : Head(batch[e]) = r => e = d
      BY <1>5, <1>6, <3>1 DEF TInv, Apart
    <3>3. {e \in held : Head(batch[e]) = r} = {d}
      BY <3>1, <3>2
    <3>. QED BY <2>1, <3>3, FS_Singleton
  <2>2. CASE r \notin heads
    <3>1. {e \in held : Head(batch[e]) = r} = {}
      BY <2>2
    <3>. QED BY <2>2, <3>1, FS_EmptySet
  <2>. QED BY <2>1, <2>2
<1>9. stored' = [r \in Row |-> stored[r] + IF r \in failed THEN 0 ELSE times[r]]
  BY <1>1
<1>. HIDE DEF n, held, heads, times
<1>10. heads \cap Settled = {} /\ heads \cap In(queue) = {}
  BY <1>7 DEF TInv, Apart
<1>11. /\ Store' /\ Settled' = Settled \cup heads
       /\ \A r \in Row : stored'[r] <= 1
       /\ \A r \in dropped' : stored'[r] = 0
  <2>1. heads \in SUBSET Row /\ failed \in SUBSET heads /\ dropped' = dropped \cup failed
    BY <1>1, <1>7
  <2>. QED BY <2>1, <1>8, <1>9, <1>10, Settling
<1>12. queue \o n \in Seq(Row) /\ Once(queue \o n) /\ In(queue \o n) = In(queue) \cup In(n)
  <2>1. In(queue) \cap In(n) = {}
    BY <1>3, <1>4 DEF Everywhere
  <2>. QED BY <1>3, <1>4, <2>1, Joined
<1>13. PICK b \in Seq(Row) :
         /\ batch' = [d \in Drainers |-> IF d = "stopper" THEN b ELSE <<>>]
         /\ Once(b) /\ In(b) \cup In(queue)' \subseteq In(queue) \cup In(n)
         /\ In(b) \cap In(queue)' = {} /\ Once(queue)' /\ queue' \in Seq(Row)
  <2>1. CASE batch' = [d \in Drainers |-> <<>>] /\ queue' = queue
    <3>1. batch' = [d \in Drainers |-> IF d = "stopper" THEN <<>> ELSE <<>>]
      BY <2>1
    <3>. QED BY <1>4, <2>1, <3>1, NoRows
  <2>2. CASE batch' = [d \in Drainers |-> IF d = "stopper" THEN queue \o n ELSE <<>>] /\ queue' = <<>>
    <3>1. In(queue)' = {} /\ Once(queue)' /\ queue' \in Seq(Row)
      BY <2>2, NoRows
    <3>. QED BY <1>12, <2>2, <3>1
  <2>. QED BY <1>2, <2>1, <2>2
<1>14. \A d \in Drainers : batch'[d] = IF d = "stopper" THEN b ELSE <<>>
  BY <1>13
<1>15. Held' = In(b)
  BY <1>5, <1>14, NoRows DEF Held
<1>16. Settled' \cap (In(queue)' \cup Held') = {}
  BY <1>3, <1>4, <1>7, <1>10, <1>11, <1>13, <1>15 DEF TInv, Apart, Everywhere
<1>17. /\ \A d \in Drainers : Once(batch'[d])
       /\ \A d, e \in Drainers : d # e => In(batch'[d]) \cap In(batch'[e]) = {}
  BY <1>13, <1>14, NoRows
<1>18. Apart'
  BY <1>11, <1>13, <1>15, <1>16, <1>17 DEF Apart
<1>19. Complete'
  BY <1>2, <1>3, <1>4, <1>7, <1>11, <1>13, <1>15 DEF Complete, Everywhere
<1>20. Drains' /\ Desk'
  <2>1. batch' \in [Drainers -> Seq(Row)]
    BY <1>13, NoRows
  <2>2. /\ doing' \in [Drainers -> {"idle", "drain", "halt"}]
        /\ \A d \in Drainers : doing'[d] = "idle" => batch'[d] = <<>>
    BY <1>2, <1>14
  <2>. QED BY <1>2, <1>13, <2>1, <2>2 DEF TInv, TypeOK, Drains, Desk, killVars, toldVars
<1>. QED BY <1>11, <1>18, <1>19, <1>20 DEF TInv, TypeOK, Drains, Desk, Store

LEMMA TStep ==
  ASSUME TInv, [Next]_vars
  PROVE  TInv'
<1>1. ASSUME NEW d \in Requests, NEW o \in Orders, OrderRests(d, o) \/ CancelWorking(d, o) PROVE TInv'
  BY <1>1, RestsStep, CancelStep
<1>2. ASSUME NEW d \in Requests, ReleaseKill(d) \/ ResetBook(d) PROVE TInv'
  BY <1>2, QuietStep, ResetStep
<1>3. ASSUME NEW d \in Drainers, TriggerKill(d) \/ Write(d) \/ Resume(d) PROVE TInv'
  BY <1>3, QuietStep, KillStep, WriteStep
<1>4. CASE Sweep
  BY <1>4, SweepStep
<1>5. CASE MonitorRolls
  BY <1>5, MonitorStep
<1>6. CASE Stop
  BY <1>6, StopStep
<1>7. CASE Exit \/ UNCHANGED vars
  BY <1>7, QuietStep
<1>. QED BY <1>1, <1>2, <1>3, <1>4, <1>5, <1>6, <1>7 DEF Next

LEMMA TInit ==
  ASSUME Init
  PROVE  TInv
<1>1. TypeOK
  <2>1. 0 \in 0..MaxHalts
    BY TrailAssumption
  <2>2. queue \in Seq(Row) /\ batch \in [Drainers -> Seq(Row)] /\ \A d \in Drainers : batch[d] = <<>>
    BY NoRows DEF Init
  <2>3. /\ doing \in [Drainers -> {"idle", "drain", "halt"}] /\ stored \in [Row -> Nat] /\ dropped \subseteq Row
        /\ used \subseteq Orders /\ resting \subseteq used
    BY DEF Init
  <2>4. switch \in BOOLEAN /\ trips \in 0..MaxHalts /\ told = "none" /\ missed = FALSE /\ phase = "running"
    BY <2>1 DEF Init
  <2>. QED BY <2>2, <2>3, <2>4 DEF TypeOK
<1>2. Held = {} /\ Settled = {} /\ In(queue) = {} /\ Once(queue) /\ \A d \in Drainers : Once(batch[d])
  BY NoRows DEF Init, Held, Settled
<1>3. Apart
  BY <1>2, NoRows DEF Init, Apart
<1>4. Complete
  BY <1>2 DEF Init, Complete, Everywhere, Produced
<1>. QED BY <1>1, <1>3, <1>4 DEF TInv

-----------------------------------------------------------------------------
(* The theorems *)

\* A row that is nowhere has no place, and one that is somewhere has one.
LEMMA OnePlace ==
  ASSUME TInv, NEW r \in Row
  PROVE  /\ r \in Everywhere => \E p \in Places(r) : Places(r) = {p}
         /\ r \notin Everywhere => Places(r) = {}
<1>. DEFINE At(s) == {k \in 1..Len(s) : s[k] = r}
            Q == {<<"queued", i>> : i \in At(queue)}
            H(d) == {<<"held", d, i>> : i \in At(batch[d])}
            S == {<<"stored", n>> : n \in 1..stored[r]}
            D == {<<"dropped">> : x \in dropped \cap {r}}
<1>. DEFINE held == PlacesHeld(r)
<1>0. held = UNION {H(d) : d \in Drainers}
  BY DEF PlacesHeld
<1>. HIDE DEF held
<1>1. Places(r) = Q \cup held \cup S \cup D
  BY DEF Places, held
<1>2. /\ r \notin In(queue) => Q = {}
      /\ \A d \in Drainers : r \notin In(batch[d]) => H(d) = {}
  BY DEF In
<1>3. /\ r \in In(queue) => \E p : Q = {p}
      /\ \A d \in Drainers : r \in In(batch[d]) => \E p : H(d) = {p}
  <2>1. ASSUME NEW s, Once(s), r \in In(s) PROVE \E k : At(s) = {k}
    <3>1. PICK k \in 1..Len(s) : s[k] = r
      BY <2>1 DEF In
    <3>2. \A i \in 1..Len(s) : s[i] = r => i = k
      BY <2>1, <3>1 DEF Once
    <3>3. At(s) = {k}
      BY <3>1, <3>2
    <3>. QED BY <3>3
  <2>2. Once(queue) /\ \A d \in Drainers : Once(batch[d])
    BY DEF TInv, Apart
  <2>3. ASSUME r \in In(queue) PROVE \E p : Q = {p}
    <3>1. PICK k : At(queue) = {k}
      BY <2>1, <2>2, <2>3
    <3>2. Q = {<<"queued", k>>}
      BY <3>1
    <3>. QED BY <3>2
  <2>4. ASSUME NEW d \in Drainers, r \in In(batch[d]) PROVE \E p : H(d) = {p}
    <3>1. PICK k : At(batch[d]) = {k}
      BY <2>1, <2>2, <2>4
    <3>2. H(d) = {<<"held", d, k>>}
      BY <3>1
    <3>. QED BY <3>2
  <2>. QED BY <2>3, <2>4
<1>4. stored[r] \in {0, 1} /\ (r \in dropped => stored[r] = 0)
  BY DEF TInv, TypeOK, Apart
<1>5. /\ stored[r] = 0 => S = {}
      /\ stored[r] # 0 => S = {<<"stored", 1>>}
      /\ r \notin dropped => D = {}
      /\ r \in dropped => D = {<<"dropped">>}
  <2>1. stored[r] = 0 => 1..stored[r] = {}
    BY <1>4
  <2>2. stored[r] # 0 => 1..stored[r] = {1}
    BY <1>4
  <2>. QED BY <2>1, <2>2
<1>a. /\ (\A d \in Drainers : H(d) = {}) => held = {}
      /\ \A d \in Drainers : (\A e \in Drainers \ {d} : H(e) = {}) => held = H(d)
  <2>. HIDE DEF H
  <2>. QED BY <1>0
<1>. HIDE DEF Q, H, S, D
<1>6. /\ r \in Settled <=> stored[r] # 0 \/ r \in dropped
      /\ \A d \in Drainers : r \in In(batch[d]) => r \in Held
      /\ r \in Held => \E d \in Drainers : r \in In(batch[d])
  BY DEF Settled, Held
<1>7. CASE r \notin Everywhere
  <2>1. r \notin In(queue) /\ r \notin Held /\ r \notin Settled
    BY <1>7 DEF Everywhere
  <2>2. Q = {} /\ held = {}
    BY <1>2, <1>6, <1>a, <2>1
  <2>. QED BY <1>1, <1>5, <1>6, <1>7, <2>1, <2>2
<1>8. CASE r \in In(queue)
  <2>1. r \notin Held /\ r \notin Settled /\ r \in Everywhere
    BY <1>8 DEF TInv, Apart, Everywhere
  <2>a. held = {}
    BY <1>2, <1>6, <1>a, <2>1
  <2>2. Places(r) = Q
    BY <1>1, <1>5, <1>6, <2>1, <2>a
  <2>. QED BY <1>3, <1>8, <2>1, <2>2
<1>9. CASE r \in Held
  <2>1. r \notin In(queue) /\ r \notin Settled /\ r \in Everywhere
    BY <1>9 DEF TInv, Apart, Everywhere
  <2>2. PICK d \in Drainers : r \in In(batch[d])
    BY <1>6, <1>9
  <2>a. \A e \in Drainers \ {d} : H(e) = {}
    BY <1>2, <2>2 DEF TInv, Apart
  <2>3. held = H(d)
    BY <1>a, <2>a
  <2>4. Places(r) = H(d)
    BY <1>1, <1>2, <1>5, <1>6, <2>1, <2>3
  <2>. QED BY <1>3, <2>1, <2>2, <2>4
<1>10. CASE r \in Settled
  <2>1. r \notin In(queue) /\ r \notin Held /\ r \in Everywhere
    BY <1>10 DEF TInv, Apart, Everywhere
  <2>2. Q = {}
    BY <1>2, <2>1
  <2>3. held = {}
    BY <1>2, <1>6, <1>a, <2>1
  <2>4. Places(r) = S \cup D
    BY <1>1, <2>2, <2>3
  <2>. QED BY <1>4, <1>5, <1>6, <1>10, <2>1, <2>4
<1>. QED BY <1>7, <1>8, <1>9, <1>10 DEF Everywhere

\* Rows are accounted for: while the gateway runs, every row an order has produced is
\* queued, held by one drain, stored once or dropped once, and no other row is anywhere;
\* through the stop as well no row is stored twice (deferred_audit.py drains, written by
\* handlers that interleave row by row).
THEOREM RowsAreAccounted == Spec => []RowsAccounted
<1>1. Init => TInv
  BY TInit
<1>2. TInv /\ [Next]_vars => TInv'
  BY TStep
<1>3. TInv => RowsAccounted
  <2>. SUFFICES ASSUME TInv PROVE RowsAccounted
    OBVIOUS
  <2>1. TypeOK /\ \A r \in Row : stored[r] <= 1
    BY DEF TInv, Apart
  <2>2. phase = "running" => \A r \in Row : r \in Produced <=> r \in Everywhere
    BY DEF TInv, Complete
  <2>. QED BY <2>1, <2>2, OnePlace DEF RowsAccounted
<1>. QED BY <1>1, <1>2, <1>3, PTL DEF Spec

\* A halt goes unrecorded only by a failed write that the store counts: with no trip
\* still draining, an engaged switch of a running gateway has "engaged" as the last kill
\* switch row of the trail, or the last event it recorded failed to be written
\* (trigger_kill records its event after its drain, release_kill at once).
THEOREM HaltsAreTold == Spec => []HaltIsTold
<1>. DEFINE HInv == TypeOK /\ HaltIsTold
<1>1. Init => HInv
  BY TInit DEF TInv, Init, HaltIsTold
<1>2. TInv /\ HInv /\ [Next]_vars => HInv'
  <2>. SUFFICES ASSUME TInv, TInv', HaltIsTold, [Next]_vars PROVE HaltIsTold'
    BY TStep DEF TInv
  <2>. SUFFICES ASSUME phase' = "running", switch', \A d \in Drainers : doing'[d] # "halt"
                PROVE  told' = "engaged" \/ missed'
    BY DEF HaltIsTold
  <2>1. ASSUME NEW d \in Drainers, NEW n, Drain(d, n, "drain"), switch' = switch, phase' = phase,
               doing[d] = "idle"
        PROVE  told' = "engaged" \/ missed'
    <3>1. UNCHANGED <<told, missed>> /\ \A e \in Drainers : doing[e] # "halt"
      BY <2>1 DEF Drain, TInv, TypeOK, toldVars
    <3>. QED BY <2>1, <3>1 DEF HaltIsTold
  <2>2. ASSUME NEW d \in Requests, NEW o \in Orders, OrderRests(d, o) \/ CancelWorking(d, o)
        PROVE  told' = "engaged" \/ missed'
    BY <2>1, <2>2 DEF OrderRests, CancelWorking, Idle, Drainers
  <2>3. ASSUME NEW d \in Requests, ReleaseKill(d) \/ ResetBook(d) PROVE told' = "engaged" \/ missed'
    BY <2>3 DEF ReleaseKill, ResetBook, HaltIsTold, Record, killVars, toldVars
  <2>4. ASSUME NEW d \in Drainers, TriggerKill(d) PROVE told' = "engaged" \/ missed'
    BY <2>4 DEF TriggerKill, Idle, Drain, Record, TInv, TypeOK
  <2>5. ASSUME NEW d \in Drainers, Write(d) \/ MonitorRolls \/ Exit \/ UNCHANGED vars
        PROVE  told' = "engaged" \/ missed'
    BY <2>5 DEF Write, MonitorRolls, Exit, vars, killVars, toldVars, HaltIsTold
  <2>6. ASSUME NEW d \in Drainers, Resume(d) PROVE told' = "engaged" \/ missed'
    <3>1. switch' = switch /\ phase' = phase /\ \A e \in Drainers : e # d => doing[e] # "halt"
      BY <2>6 DEF Resume, TInv, TypeOK
    <3>. QED BY <2>6, <3>1 DEF Resume, Record, toldVars, HaltIsTold
  <2>7. CASE Sweep
    BY <2>1, <2>7 DEF Sweep, Idle, Drainers
  <2>8. CASE Stop
    BY <2>8 DEF Stop
  <2>9. "sweep" \in Drainers
    BY DEF Drainers
  <2>. QED BY <2>2, <2>3, <2>4, <2>5, <2>6, <2>7, <2>8, <2>9 DEF Next
<1>3. Init => TInv
  BY TInit
<1>4. TInv /\ [Next]_vars => TInv'
  BY TStep
<1>. QED BY <1>1, <1>2, <1>3, <1>4, PTL DEF Spec

=============================================================================
