------------------------- MODULE SessionLedgerProofs -------------------------
(***************************************************************************)
(* Proofs about the session ledger: for every number of fills, length of the  *)
(* day and run of the clock, not only the three short days TLC runs.         *)
(*                                                                         *)
(* Both invariants need a clock that no two handlers read alike                *)
(* (~CoarseClock).  StoreInv: what is stored never ties, so it can be read     *)
(* back.  LedgerInv: what is read back is what was in memory, fill by fill; a   *)
(* fill stamped across midnight (astray) breaks it for itself and no other.     *)
(***************************************************************************)
EXTENDS SessionLedger, FiniteSetTheorems, WellFoundedInduction, TLAPS

Rows == orders \cup pending

\* A stamp the day's replay still counts: of that day and after its last reset.
Live(rsts, ts, day) == DayOf(ts) = day /\ \A t \in rsts : DayOf(t) = day => t < ts

CarryOf(rolls, rsts, day) == UNION {r.banked : r \in {x \in rolls : Live(rsts, x.ts, day)}}

(*** The invariants *********************************************************)

\* The gateway never believes in a later day than the clock's, and a day is rolled into
\* at most once, by a record that names it.
Dated ==
  /\ session <= Today
  /\ \A r \in rollovers : DayOf(r.ts) <= session /\ r.session = DayOf(r.ts)
  /\ \A r, q \in rollovers : DayOf(r.ts) = DayOf(q.ts) => r = q

Untied ==
  /\ \A r, q \in Rows : r.ts = q.ts => r = q
  /\ \A r \in Rows \cup rollovers : r.ts \notin resets

CarryKept ==
  /\ up /\ ~RollDue => CarryOf(rollovers, resets, session) = banked
  /\ up => marked = overnight

StoreInv == TypeOK /\ Dated /\ Untied /\ CarryKept

\* A fill has one row, on its way or stored, unless the row was lost.
OneRow ==
  /\ \A r, q \in Rows : r.fill = q.fill => r = q
  /\ orders \cap pending = {}
  /\ \A r \in Rows : r.fill \notin lost
  /\ ~up => pending = {}

Used == lost \cup {r.fill : r \in Rows}

\* Whatever the gateway has counted, banked or written off came from a row or lost one.
Sourced ==
  /\ book \cup banked \cup wiped \subseteq Used
  /\ \A r \in rollovers : r.banked \subseteq Used

\* A fill is stamped in the session that counted it, unless it went astray.
RowsDated == \A w \in Rows : w.fill \notin astray => DayOf(w.ts) <= session

\* What a rollover banked was filled on an earlier day.
BankedEarlier == \A r \in rollovers, w \in Rows :
  w.fill \in r.banked \ astray => DayOf(w.ts) < DayOf(r.ts)

\* No restart from now on reads a record stamped ts.
Gone(ts) == DayOf(ts) < Today \/ \E t \in resets : DayOf(t) = DayOf(ts) /\ ts < t

WipedGone ==
  /\ \A w \in Rows : w.fill \in wiped \ astray => Gone(w.ts)
  /\ \A r \in rollovers : ~(r.banked \cap wiped \subseteq astray) => Gone(r.ts)

\* The live session's fills are the rows its day's replay would count.
Booked ==
  up /\ ~RollDue =>
    \A w \in Rows : w.fill \notin astray => (w.fill \in book <=> Live(resets, w.ts, session))

Once ==
  /\ book \cap banked \subseteq astray
  /\ up => (book \cup banked) \cap wiped \subseteq astray

LedgerInv ==
  StoreInv /\ OneRow /\ Sourced /\ RowsDated /\ BankedEarlier /\ WipedGone /\ Booked /\ Once

(*** Days, stamps and the clock *********************************************)

LEMMA DaysInOrder ==
  ASSUME NEW a \in Nat, NEW b \in Nat, a <= b
  PROVE  DayOf(a) \in Nat /\ DayOf(a) <= DayOf(b)
<1>1. DayLength \in Nat \ {0}
  BY LedgerAssumption
<1>2. (a \div DayLength) \in Nat /\ (a \div DayLength) <= (b \div DayLength)
  BY <1>1
<1>3. QED
  BY <1>2 DEF DayOf

LEMMA StampsAreNumbers ==
  /\ Stamps \subseteq Nat /\ Time \subseteq Stamps /\ Time \subseteq Nat
  /\ Days \subseteq Nat /\ \A t \in Time : DayOf(t) \in Days
<1>1. Cardinality(Fills) \in Nat /\ LastTime \in Nat \ {0}
  BY LedgerAssumption, FS_CardinalityType
<1>2. Stamps \subseteq Nat /\ Time \subseteq Stamps /\ Time \subseteq Nat
  BY <1>1 DEF Stamps, Time
<1>3. DayOf(LastTime) \in Nat
  BY <1>1, DaysInOrder
<1>4. \A t \in Time : DayOf(t) \in Nat /\ DayOf(t) <= DayOf(LastTime)
  BY <1>1, DaysInOrder DEF Time
<1>5. QED
  BY <1>2, <1>3, <1>4 DEF Days

\* A fill's stamp is after the last one of its symbol and no earlier than the clock.
LEMMA FillStampIsLater ==
  ASSUME NEW last \in Nat, NEW now \in Nat
  PROVE  FillStamp(last, now) \in Nat /\ FillStamp(last, now) > last /\ FillStamp(last, now) >= now
BY DEF FillStamp

\* Stamps that each exceed the one before are in order, however many there are.
LEMMA StampsInOrder ==
  ASSUME NEW n \in Nat, NEW s \in [1..n -> Nat],
         \A i \in 2..n : s[i] > s[i - 1]
  PROVE  \A i, j \in 1..n : i < j => s[i] < s[j]
<1> SUFFICES ASSUME NEW i \in 1..n, NEW k \in 1..n, i < k, ~(s[i] < s[k]) PROVE FALSE
  OBVIOUS
<1> DEFINE R == {ss \in Nat \X Nat : ss[1] < ss[2]}
           B == {j \in 1..n : i < j /\ ~(s[i] < s[j])}
<1>1. IsWellFoundedOn(R, Nat)
  BY NatLessThanWellFounded DEF OpToRel
<1>2. k \in B /\ B \subseteq Nat
  OBVIOUS
<1>3. PICK x \in B : \A y \in B : ~ (<<y, x>> \in R)
  <2> HIDE DEF R, B
  <2>1. QED
    BY <1>1, <1>2, WFMin
<1>4. x \in 2..n /\ s[x] > s[x - 1] /\ s[x] \in Nat /\ s[x - 1] \in Nat /\ s[i] \in Nat
  BY <1>3
<1>5. CASE x - 1 = i
  BY <1>3, <1>4, <1>5
<1>6. CASE x - 1 # i
  <2>1. i < x - 1 /\ x - 1 \in 1..n
    BY <1>3, <1>4, <1>6
  <2>2. x - 1 \notin B
    <3>1. <<x - 1, x>> \in R
      BY <1>3, <1>4
    <3>2. QED
      BY <1>3, <3>1
  <2>3. s[i] < s[x - 1]
    BY <2>1, <2>2
  <2>4. QED
    BY <1>3, <1>4, <2>3
<1>7. QED
  BY <1>5, <1>6

(*** What is stored never ties **********************************************)

\* What a state with sound types offers every step.
LEMMA Typed ==
  ASSUME TypeOK
  PROVE  /\ clock \in Nat /\ Today \in Nat /\ Today \in Days /\ session \in Nat
         /\ \A w \in Rows : w \in Row /\ w.fill \in Fills /\ w.ts \in Nat /\ DayOf(w.ts) \in Nat
         /\ \A r \in rollovers :
              /\ r.ts \in Nat /\ r.session \in Nat /\ DayOf(r.ts) \in Nat
              /\ r.banked \subseteq Fills
         /\ \A t \in resets : t \in Nat /\ DayOf(t) \in Nat
<1>1. /\ Stamps \subseteq Nat /\ Time \subseteq Stamps /\ Time \subseteq Nat
      /\ Days \subseteq Nat /\ \A t \in Time : DayOf(t) \in Days
  BY StampsAreNumbers
<1>2. \A t \in Nat : DayOf(t) \in Nat
  BY DaysInOrder
<1>3. QED
  BY <1>1, <1>2 DEF TypeOK, Rows, Row, Rollover, Today

\* Rows a handler may queue: stamped no earlier than its clock, and not two alike.
NewRows(N) ==
  /\ N \subseteq Row
  /\ \A w \in N : w.ts >= clock
  /\ \A w, v \in N : w.ts = v.ts => w = v

\* Rows newly queued, each stamped no earlier than a clock later than all that was given
\* out, tie with nothing.
LEMMA RowsAreAdded ==
  ASSUME TypeOK, Untied, \A t \in Given : t < clock,
         NEW N, NewRows(N), pending' = pending \cup N, orders' = orders, resets' = resets,
         \A r \in rollovers' : r \in rollovers \/ r.ts = clock
  PROVE  Untied' /\ Rows' = Rows \cup N /\ pending' \subseteq Row
<1>1. Rows' = Rows \cup N
  BY DEF Rows
<1>2. \A w \in N : w.ts \in Nat /\ w.ts >= clock
  BY StampsAreNumbers DEF Row, NewRows
<1>3. \A w \in Rows \cup rollovers : w.ts < clock
  BY DEF Given, Rows
<1>4. \A t \in resets : t < clock /\ t \in Nat
  BY Typed DEF Given
<1>5. clock \in Nat /\ \A w \in Rows \cup rollovers : w.ts \in Nat
  BY Typed
<1>6. \A w, v \in Rows' : w.ts = v.ts => w = v
  BY <1>1, <1>2, <1>3, <1>5 DEF Untied, NewRows
<1>7. \A w \in Rows' \cup rollovers' : w.ts \notin resets'
  BY <1>1, <1>2, <1>3, <1>4, <1>5 DEF Untied
<1>8. QED
  BY <1>1, <1>6, <1>7 DEF Untied, TypeOK, NewRows

\* The sweep's rows: one per fill, in order of their stamps.
LEMMA SweepRows ==
  ASSUME TypeOK, SweepFills
  PROVE  \E N : /\ NewRows(N) /\ pending' = pending \cup N
                /\ \A w \in N : w.fill \in Fresh /\ (DayOf(w.ts) = Today \/ w.fill \in astray')
                /\ astray \subseteq astray' /\ astray' \subseteq Fills
                /\ \A w, v \in N : w.fill = v.fill => w = v
                /\ book' = book \cup {w.fill : w \in N}
                /\ lastStamp' \in Nat
<1>1. PICK n \in 1..SweepMax :
       \E filled \in [1..n -> Fresh], stamp \in [1..n -> Stamps] :
       /\ \A i, j \in 1..n : filled[i] = filled[j] => i = j
       /\ \A i \in 1..n : stamp[i] = FillStamp(IF i = 1 THEN lastStamp ELSE stamp[i - 1], clock)
       /\ astray' = astray \cup {filled[i] : i \in {k \in 1..n : DayOf(stamp[k]) # Today}}
       /\ book' = book \cup {filled[i] : i \in 1..n}
       /\ pending' = pending \cup {[fill |-> filled[i], ts |-> stamp[i]] : i \in 1..n}
       /\ lastStamp' = stamp[n]
  BY DEF SweepFills
<1>2. PICK filled \in [1..n -> Fresh], stamp \in [1..n -> Stamps] :
       /\ \A i, j \in 1..n : filled[i] = filled[j] => i = j
       /\ \A i \in 1..n : stamp[i] = FillStamp(IF i = 1 THEN lastStamp ELSE stamp[i - 1], clock)
       /\ astray' = astray \cup {filled[i] : i \in {k \in 1..n : DayOf(stamp[k]) # Today}}
       /\ book' = book \cup {filled[i] : i \in 1..n}
       /\ pending' = pending \cup {[fill |-> filled[i], ts |-> stamp[i]] : i \in 1..n}
       /\ lastStamp' = stamp[n]
  BY <1>1
<1>3. n \in Nat /\ n >= 1 /\ lastStamp \in Nat /\ clock \in Nat /\ Stamps \subseteq Nat
  BY LedgerAssumption, Typed, StampsAreNumbers DEF TypeOK
<1>4. \A i \in 1..n : stamp[i] \in Nat /\ stamp[i] >= clock /\ (i # 1 => stamp[i] > stamp[i - 1])
  <2> SUFFICES ASSUME NEW i \in 1..n
               PROVE  stamp[i] \in Nat /\ stamp[i] >= clock /\ (i # 1 => stamp[i] > stamp[i - 1])
    OBVIOUS
  <2>1. CASE i = 1
    BY <1>2, <1>3, <2>1, FillStampIsLater
  <2>2. CASE i # 1
    <3>1. i - 1 \in 1..n /\ stamp[i - 1] \in Nat
      <4>1. i - 1 \in 1..n
        BY <1>3, <2>2
      <4>2. \A k \in 1..n : stamp[k] \in Stamps
        OBVIOUS
      <4>3. QED
        BY <1>3, <4>1, <4>2
    <3>2. stamp[i] = FillStamp(stamp[i - 1], clock)
      BY <1>2, <2>2
    <3>3. QED
      BY <1>3, <3>1, <3>2, FillStampIsLater
  <2>3. QED
    BY <2>1, <2>2
<1>5. \A i, j \in 1..n : i < j => stamp[i] < stamp[j]
  <2>1. stamp \in [1..n -> Nat] /\ \A i \in 2..n : stamp[i] > stamp[i - 1]
    BY <1>3, <1>4
  <2>2. QED
    BY <1>3, <2>1, StampsInOrder
<1>6. \A i, j \in 1..n : stamp[i] = stamp[j] => i = j
  BY <1>3, <1>4, <1>5
<1> DEFINE N == {[fill |-> filled[i], ts |-> stamp[i]] : i \in 1..n}
<1>7. N \subseteq Row
  BY DEF Row, Fresh
<1>8. \A w \in N : w.ts >= clock /\ w.fill \in Fresh /\ (DayOf(w.ts) = Today \/ w.fill \in astray')
  <2>1. \A i \in 1..n : stamp[i] >= clock /\ filled[i] \in Fresh
                       /\ (DayOf(stamp[i]) = Today \/ filled[i] \in astray')
    BY <1>2, <1>4
  <2>2. QED
    BY <2>1
<1>9. \A w, v \in N : (w.ts = v.ts => w = v) /\ (w.fill = v.fill => w = v)
  BY <1>2, <1>6
<1>10. {filled[i] : i \in 1..n} = {w.fill : w \in N}
  <2>1. ASSUME NEW i \in 1..n PROVE \E w \in N : w.fill = filled[i]
    <3>1. [fill |-> filled[i], ts |-> stamp[i]] \in N
      OBVIOUS
    <3>2. [fill |-> filled[i], ts |-> stamp[i]].fill = filled[i]
      OBVIOUS
    <3> HIDE DEF N
    <3>3. QED
      BY <3>1, <3>2
  <2>2. \A w \in N : \E i \in 1..n : w.fill = filled[i]
    OBVIOUS
  <2> HIDE DEF N
  <2>3. QED
    BY <2>1, <2>2
<1>11. lastStamp' \in Nat /\ pending' = pending \cup N /\ book' = book \cup {w.fill : w \in N}
  <2>1. n \in 1..n /\ stamp[n] \in Nat
    BY <1>3, <1>4
  <2>2. QED
    BY <1>2, <1>10, <2>1
<1>12. astray \subseteq astray' /\ astray' \subseteq Fills
  BY <1>2 DEF Fresh, TypeOK
<1> HIDE DEF N
<1>13. QED
  BY <1>7, <1>8, <1>9, <1>11, <1>12 DEF NewRows

\* A roll: one record more, of a day no record named yet, and the carry is what it says.
LEMMA RollStep ==
  ASSUME TypeOK, Dated, \A t \in Given : t < clock, RollDue, Roll,
         up' = up, clock' \in Nat, clock <= clock'
  PROVE  /\ Dated' /\ CarryKept' /\ session' = Today /\ session' \in Days
         /\ banked' = banked \cup book /\ overnight' \in BOOLEAN /\ marked' \in BOOLEAN
         /\ resets' = resets
         /\ \E new : /\ new \in Rollover /\ new.ts = clock /\ new.banked = banked \cup book
                     /\ rollovers' = rollovers \cup {new}
<1>1. PICK open \in (IF book \cup banked = {} THEN {FALSE} ELSE BOOLEAN) :
       /\ rollovers' = rollovers \cup
            {[ts |-> clock, session |-> Today, banked |-> banked \cup book, mark |-> open]}
       /\ overnight' = open
       /\ marked' = open
  BY DEF Roll
<1>2. session' = Today /\ banked' = banked \cup book /\ resets' = resets /\ open \in BOOLEAN
  BY <1>1 DEF Roll
<1> DEFINE new == [ts |-> clock, session |-> Today, banked |-> banked \cup book, mark |-> open]
<1>3. new.ts = clock /\ new.session = Today /\ new.banked = banked \cup book
  OBVIOUS
<1>4. new \in Rollover
  <2>1. clock \in Time /\ Today \in Days /\ banked \cup book \subseteq Fills
    BY Typed DEF TypeOK
  <2>2. QED
    BY <1>2, <2>1 DEF Rollover
<1>5. rollovers' = rollovers \cup {new}
  BY <1>1
<1> HIDE DEF new
<1>6. session < Today /\ Today \in Nat /\ session \in Nat /\ clock \in Nat
  BY Typed DEF Dated, RollDue
<1>7. Today <= Today' /\ Today' \in Nat
  BY <1>6, DaysInOrder DEF Today
<1>8. \A r \in rollovers : DayOf(r.ts) \in Nat /\ DayOf(r.ts) < Today
  BY <1>6, Typed DEF Dated
<1>9. DayOf(new.ts) = Today
  BY <1>3 DEF Today
<1>10. Dated'
  BY <1>2, <1>3, <1>5, <1>6, <1>7, <1>8, <1>9 DEF Dated
<1>11. CarryKept'
  <2>1. \A t \in resets : t < clock
    BY DEF Given
  <2>2. Live(resets, new.ts, Today)
    BY <1>3, <1>9, <2>1 DEF Live
  <2>3. \A r \in rollovers : ~Live(resets, r.ts, Today)
    BY <1>6, <1>8 DEF Live
  <2>4. {x \in rollovers' : Live(resets, x.ts, Today)} = {new}
    BY <1>5, <2>2, <2>3
  <2>5. CarryOf(rollovers', resets, Today) = banked'
    BY <1>2, <1>3, <2>4 DEF CarryOf
  <2>6. CarryOf(rollovers', resets', session') = banked'
    BY <1>2, <2>5
  <2>7. marked' = overnight'
    BY <1>1
  <2>8. QED
    BY <2>6, <2>7 DEF CarryKept
<1>12. QED
  BY <1>1, <1>2, <1>3, <1>4, <1>5, <1>10, <1>11, Typed

\* The day's record is the only one of its day, so what a restart carries is what that
\* record banked, unless a reset came after it.
LEMMA CarryIs ==
  ASSUME TypeOK, Dated, NEW day
  PROVE  /\ Records(day) = {r \in rollovers : Live(resets, r.ts, day)}
         /\ Carry(day) = CarryOf(rollovers, resets, day)
         /\ \A r \in InDay(rollovers, day) : Latest(InDay(rollovers, day)) = r
<1>1. \A r \in InDay(rollovers, day) : InDay(rollovers, day) = {r} /\ r.ts <= r.ts
  BY Typed DEF Dated, InDay
<1>2. ASSUME NEW r \in InDay(rollovers, day) PROVE Latest(InDay(rollovers, day)) = r
  BY <1>1 DEF Latest
<1>3. Records(day) = {r \in InDay(rollovers, day) : AfterReset(r.ts, day)}
  BY <1>2 DEF Records
<1>4. {r \in InDay(rollovers, day) : AfterReset(r.ts, day)}
      = {r \in rollovers : Live(resets, r.ts, day)}
  BY DEF InDay, AfterReset, ResetsOf, Live
<1>5. QED
  BY <1>2, <1>3, <1>4 DEF Carry, CarryOf

LEMMA ReplayIs ==
  ASSUME NEW day
  PROVE  Replay(day) = {w.fill : w \in {x \in orders : Live(resets, x.ts, day)}}
<1>1. ReplayRows(day) = {x \in orders : Live(resets, x.ts, day)}
  BY DEF ReplayRows, InDay, AfterReset, ResetsOf, Live
<1>2. QED
  BY <1>1 DEF Replay

\* The carry and the baseline of a step that touches neither the store's boundaries nor the
\* account's.
LEMMA CarryStays ==
  ASSUME TypeOK, Dated, CarryKept, clock' \in Nat, clock <= clock', up' => up,
         UNCHANGED <<session, banked, overnight, marked, resets, rollovers>>
  PROVE  Dated' /\ CarryKept'
<1>1. Today \in Nat /\ Today' \in Nat /\ Today <= Today' /\ session \in Nat
  BY Typed, DaysInOrder DEF Today
<1>2. Dated'
  BY <1>1, Typed DEF Dated
<1>3. ~RollDue' => ~RollDue
  BY <1>1 DEF RollDue, Dated
<1>4. QED
  BY <1>2, <1>3 DEF CarryKept, RollDue

\* Every step keeps the store free of ties and the carry it can give back, so long as no
\* two handlers read the same clock.
LEMMA StoreStep ==
  ASSUME ~CoarseClock, StoreInv, [Next]_vars
  PROVE  StoreInv'
<1> USE DEF StoreInv
<1>1. /\ clock \in Nat /\ Today \in Nat /\ session \in Nat /\ clock <= clock
  BY Typed
<1>2. ASSUME ClockIsFresh PROVE \A t \in Given : t < clock
  BY <1>2 DEF ClockIsFresh
<1>3. CASE UNCHANGED vars
  BY <1>3 DEF vars, accountVars, storeVars, TypeOK, Dated, Today, Untied, Rows, CarryKept, RollDue
<1>4. ASSUME NEW f \in Fills, TakerFill(f) PROVE StoreInv'
  <2>1. PICK decided \in {clock, clock + 1} :
       /\ decided <= LastTime
       /\ clock' = decided
       /\ pending' = pending \cup {[fill |-> f, ts |-> decided]}
       /\ astray' = astray \cup {g \in {f} : DayOf(decided) # Today}
       /\ lastStamp' = FillStamp(IF RollDue THEN 0 ELSE lastStamp, decided)
    BY <1>4 DEF TakerFill
  <2>2. decided \in Time /\ decided >= clock /\ decided \in Nat /\ clock' \in Nat /\ clock <= clock'
    BY <2>1, LedgerAssumption DEF TypeOK, Time
  <2> DEFINE w == [fill |-> f, ts |-> decided]
  <2>3. w.ts = decided /\ {w} \subseteq Row
    BY <2>2, StampsAreNumbers DEF Row
  <2> HIDE DEF w
  <2>4. pending' = pending \cup {w} /\ orders' = orders /\ up' = up /\ up /\ lost' = lost /\ wiped' = wiped
    BY <1>4, <2>1 DEF TakerFill, w
  <2>5. lastStamp' \in Nat /\ book' \subseteq Fills /\ astray' \subseteq Fills
    BY <1>4, <2>1, <2>2, FillStampIsLater DEF TakerFill, TypeOK
  <2>6. CASE RollDue
    <3>1. Roll
      BY <1>4, <2>6 DEF TakerFill
    <3>2. /\ Dated' /\ CarryKept' /\ session' = Today /\ session' \in Days
          /\ banked' = banked \cup book /\ overnight' \in BOOLEAN /\ marked' \in BOOLEAN
          /\ resets' = resets
          /\ \E new : /\ new \in Rollover /\ new.ts = clock /\ new.banked = banked \cup book
                      /\ rollovers' = rollovers \cup {new}
      BY <1>2, <1>4, <2>2, <2>4, <2>6, <3>1, RollStep DEF TakerFill
    <3>3. PICK new : /\ new \in Rollover /\ new.ts = clock
                     /\ rollovers' = rollovers \cup {new}
      BY <3>2
    <3>4. Untied' /\ pending' \subseteq Row
      <4>1. \A r \in rollovers' : r \in rollovers \/ r.ts = clock
        BY <3>3
      <4>2. NewRows({w})
        BY <2>2, <2>3 DEF NewRows
      <4>3. \A t \in Given : t < clock
        BY <1>2, <1>4 DEF TakerFill
      <4>4. QED
        BY <2>3, <2>4, <3>2, <3>3, <4>1, <4>2, <4>3, RowsAreAdded
    <3>5. TypeOK'
      BY <2>1, <2>2, <2>4, <2>5, <3>2, <3>3, <3>4 DEF TypeOK
    <3>6. QED
      BY <3>2, <3>4, <3>5
  <2>7. CASE ~RollDue
    <3>1. UNCHANGED <<session, banked, overnight, marked, resets, rollovers>>
      BY <1>4, <2>7 DEF TakerFill
    <3>2. Dated' /\ CarryKept'
      BY <2>2, <2>4, <3>1, CarryStays
    <3>3. Untied' /\ pending' \subseteq Row
      <4>1. \A r \in rollovers' : r \in rollovers \/ r.ts = clock
        BY <3>1
      <4>2. NewRows({w})
        BY <2>2, <2>3 DEF NewRows
      <4>3. \A t \in Given : t < clock
        BY <1>2, <1>4 DEF TakerFill
      <4>4. QED
        BY <2>3, <2>4, <3>1, <4>1, <4>2, <4>3, RowsAreAdded
    <3>4. TypeOK'
      BY <2>1, <2>2, <2>4, <2>5, <3>1, <3>3 DEF TypeOK
    <3>5. QED
      BY <3>2, <3>3, <3>4
  <2>8. QED
    BY <2>6, <2>7
<1>5. ASSUME SweepFills PROVE StoreInv'
  <2>1. PICK N : /\ NewRows(N) /\ pending' = pending \cup N
                 /\ \A w \in N : w.fill \in Fresh
                 /\ astray' \subseteq Fills
                 /\ book' = book \cup {w.fill : w \in N}
                 /\ lastStamp' \in Nat
    BY <1>5, SweepRows
  <2>2. /\ UNCHANGED <<clock, up, session, banked, overnight, marked, resets, rollovers>>
        /\ UNCHANGED <<orders, lost, wiped>>
    BY <1>5 DEF SweepFills, storeVars
  <2>3. Dated' /\ CarryKept'
    BY <1>1, <2>2, CarryStays
  <2>4. Untied' /\ pending' \subseteq Row
    <3>1. \A r \in rollovers' : r \in rollovers \/ r.ts = clock
      BY <2>2
    <3>2. \A t \in Given : t < clock
      BY <1>2, <1>5 DEF SweepFills
    <3>3. QED
      BY <2>1, <2>2, <3>1, <3>2, RowsAreAdded
  <2>5. book' \subseteq Fills
    BY <2>1 DEF Fresh, TypeOK
  <2>6. TypeOK'
    BY <2>1, <2>2, <2>4, <2>5 DEF TypeOK
  <2>7. QED
    BY <2>3, <2>4, <2>6
<1>6. ASSUME CrossBoundary PROVE StoreInv'
  <2>1. /\ RollDue /\ Roll /\ book' = {} /\ lastStamp' = 0
        /\ UNCHANGED <<clock, up, pending, orders, lost, wiped, astray>>
    BY <1>6 DEF CrossBoundary
  <2>2. \A t \in Given : t < clock
    BY <1>2, <1>6 DEF CrossBoundary
  <2>3. /\ Dated' /\ CarryKept' /\ session' = Today /\ session' \in Days
        /\ banked' = banked \cup book /\ overnight' \in BOOLEAN /\ marked' \in BOOLEAN
        /\ resets' = resets
        /\ \E new : /\ new \in Rollover /\ new.ts = clock /\ new.banked = banked \cup book
                    /\ rollovers' = rollovers \cup {new}
    BY <1>1, <2>1, <2>2, RollStep
  <2>4. PICK new : /\ new \in Rollover /\ new.ts = clock
                   /\ rollovers' = rollovers \cup {new}
    BY <2>3
  <2>5. Untied'
    <3>1. \A r \in rollovers' : r \in rollovers \/ r.ts = clock
      BY <2>4
    <3>2. NewRows({}) /\ pending' = pending \cup {}
      BY <2>1 DEF NewRows
    <3>3. QED
      BY <2>1, <2>2, <2>3, <2>4, <3>1, <3>2, RowsAreAdded
  <2>6. TypeOK'
    BY <2>1, <2>3, <2>4 DEF TypeOK
  <2>7. QED
    BY <2>3, <2>5, <2>6
<1>7. ASSUME ResetBook PROVE StoreInv'
  <2>1. /\ resets' = resets \cup {clock} /\ book' = {} /\ banked' = {}
        /\ overnight' = FALSE /\ marked' = FALSE /\ lastStamp' = 0
        /\ wiped' = wiped \cup book \cup banked
        /\ UNCHANGED <<clock, up, session, pending, orders, rollovers, lost, astray>>
    BY <1>7 DEF ResetBook
  <2>2. \A t \in Given : t < clock
    BY <1>2, <1>7 DEF ResetBook
  <2>3. TypeOK'
    BY <2>1 DEF TypeOK
  <2>4. Dated'
    BY <2>1 DEF Dated, Today
  <2>5. \A r \in Rows \cup rollovers : r.ts < clock
    BY <2>2 DEF Given, Rows
  <2>6. Untied'
    <3>1. \A r \in Rows \cup rollovers : r.ts # clock
      BY <2>5, <1>1
    <3>2. QED
      BY <2>1, <3>1 DEF Untied, Rows
  <2>7. CarryKept'
    <3>1. CASE RollDue
      BY <2>1, <3>1 DEF CarryKept, RollDue, Today
    <3>2. CASE ~RollDue
      <4>1. DayOf(clock) = session
        BY <3>2 DEF RollDue, Today
      <4>2. \A r \in rollovers : ~(clock < r.ts)
        BY <1>1, <2>5, Typed
      <4>3. \A r \in rollovers : ~Live(resets', r.ts, session)
        BY <2>1, <4>1, <4>2 DEF Live
      <4>4. CarryOf(rollovers', resets', session') = {}
        BY <2>1, <4>3 DEF CarryOf
      <4>5. QED
        BY <2>1, <4>4 DEF CarryKept
    <3>3. QED
      BY <3>1, <3>2
  <2>8. QED
    BY <2>3, <2>4, <2>6, <2>7
<1>8. ASSUME NEW r \in pending, WriteRow(r) \/ DropRow(r) PROVE StoreInv'
  <2>1. /\ Rows' \subseteq Rows /\ UNCHANGED <<clock, up, session, book, banked, overnight, marked>>
        /\ UNCHANGED <<lastStamp, resets, rollovers, wiped, astray>>
    BY <1>8 DEF WriteRow, DropRow, Rows, accountVars, storeVars
  <2>2. pending' \subseteq Row /\ orders' \subseteq Row /\ lost' \subseteq Fills
    BY <1>8 DEF WriteRow, DropRow, TypeOK, storeVars, Row
  <2>3. TypeOK'
    BY <2>1, <2>2 DEF TypeOK
  <2>4. Dated' /\ CarryKept'
    BY <1>1, <2>1, CarryStays
  <2>5. Untied'
    BY <2>1 DEF Untied
  <2>6. QED
    BY <2>3, <2>4, <2>5
<1>9. ASSUME Crash PROVE StoreInv'
  <2>1. /\ up' = FALSE /\ pending' = {} /\ lost' = lost \cup {r.fill : r \in pending}
        /\ UNCHANGED <<clock, session, book, banked, overnight, marked>>
        /\ UNCHANGED <<lastStamp, orders, resets, rollovers, wiped, astray>>
    BY <1>9 DEF Crash, accountVars, storeVars
  <2>2. TypeOK'
    BY <2>1 DEF TypeOK, Row
  <2>3. Dated' /\ CarryKept'
    BY <1>1, <2>1, CarryStays
  <2>4. Untied'
    BY <2>1 DEF Untied, Rows
  <2>5. QED
    BY <2>2, <2>3, <2>4
<1>10. ASSUME Restart PROVE StoreInv'
  <2>1. /\ up' = TRUE /\ session' = Today /\ book' = Replay(Today) /\ banked' = Carry(Today)
        /\ overnight' = FALSE /\ marked' = FALSE /\ lastStamp' = 0
        /\ UNCHANGED <<clock, pending, orders, resets, rollovers, lost, wiped, astray>>
    BY <1>10 DEF Restart, storeVars
  <2>2. Carry(Today) = CarryOf(rollovers, resets, Today)
    BY CarryIs
  <2>3. Carry(Today) \subseteq Fills /\ Replay(Today) \subseteq Fills
    BY <2>2, Typed, ReplayIs DEF CarryOf, Rows
  <2>4. TypeOK'
    BY <2>1, <2>3, Typed DEF TypeOK
  <2>5. Dated'
    <3>1. Today' = Today /\ session <= Today
      BY <2>1 DEF Today, Dated
    <3>2. \A r \in rollovers : DayOf(r.ts) <= Today
      BY <1>1, <3>1, Typed DEF Dated
    <3>3. QED
      BY <1>1, <2>1, <3>1, <3>2 DEF Dated
  <2>6. Untied'
    BY <2>1 DEF Untied, Rows
  <2>7. CarryKept'
    BY <2>1, <2>2 DEF CarryKept
  <2>8. QED
    BY <2>4, <2>5, <2>6, <2>7
<1>11. ASSUME Tick PROVE StoreInv'
  <2>1. /\ clock < LastTime /\ clock' = clock + 1
        /\ UNCHANGED <<up, session, book, banked, overnight, marked>>
        /\ UNCHANGED <<lastStamp, pending, orders, resets, rollovers, lost, wiped, astray>>
    BY <1>11 DEF Tick, accountVars, storeVars
  <2>2. clock' \in Time /\ clock' \in Nat /\ clock <= clock'
    BY <1>1, <2>1, LedgerAssumption DEF TypeOK, Time
  <2>3. TypeOK'
    BY <2>1, <2>2 DEF TypeOK
  <2>4. Dated' /\ CarryKept'
    BY <2>1, <2>2, CarryStays
  <2>5. Untied'
    BY <2>1 DEF Untied, Rows
  <2>6. QED
    BY <2>3, <2>4, <2>5
<1>12. QED
  BY <1>3, <1>4, <1>5, <1>6, <1>7, <1>8, <1>9, <1>10, <1>11 DEF Next

(*** What is read back is what was in memory ********************************)

\* A step of the running gateway that fills, rolls a due session, or both: the new fills
\* are fresh ones, of rows stamped today or astray.
LEMMA FillStep ==
  ASSUME LedgerInv, up, \A t \in Given : t < clock, clock' \in Nat, clock <= clock',
         NEW N, NewRows(N), astray \subseteq astray',
         \A w \in N : w.fill \in Fresh /\ (DayOf(w.ts) = Today \/ w.fill \in astray'),
         \A w, v \in N : w.fill = v.fill => w = v,
         pending' = pending \cup N,
         UNCHANGED <<up, orders, resets, lost, wiped>>,
         session' = Today,
         ~RollDue => UNCHANGED <<rollovers, banked>> /\ book' = book \cup {w.fill : w \in N},
         RollDue => /\ banked' = banked \cup book /\ book' = {w.fill : w \in N}
                    /\ \A r \in rollovers' : \/ r \in rollovers
                                             \/ r.ts = clock /\ r.banked = banked \cup book
  PROVE  OneRow' /\ Sourced' /\ RowsDated' /\ BankedEarlier' /\ WipedGone' /\ Booked' /\ Once'
<1> USE DEF LedgerInv, StoreInv
<1>1. Rows' = Rows \cup N /\ Today <= Today' /\ Today' \in Nat /\ Today = DayOf(clock)
  BY Typed, DaysInOrder DEF Rows, Today
<1>2. \A w \in N : /\ w.fill \notin book /\ w.fill \notin banked /\ w.fill \notin lost
                   /\ w.fill \notin wiped /\ w.fill \notin Used
                   /\ \A v \in Rows : v.fill # w.fill
  BY DEF Fresh, Used, Rows
<1>3. /\ Today \in Nat /\ session \in Nat /\ session <= Today /\ clock \in Nat
      /\ RollDue <=> session < Today
      /\ \A w \in Rows : DayOf(w.ts) \in Nat /\ (w.fill \notin astray => DayOf(w.ts) <= session)
  BY Typed DEF Dated, RollDue, RowsDated
<1>4. OneRow'
  <2>1. \A r, q \in Rows' : r.fill = q.fill => r = q
    BY <1>1, <1>2 DEF OneRow
  <2>2. orders' \cap pending' = {}
    BY <1>2 DEF OneRow, Rows
  <2>3. QED
    BY <1>1, <1>2, <2>1, <2>2 DEF OneRow
<1>5. Used' = Used \cup {w.fill : w \in N}
  BY <1>1 DEF Used
<1>6. Sourced'
  <2>1. CASE RollDue
    BY <2>1, <1>5 DEF Sourced
  <2>2. CASE ~RollDue
    BY <2>2, <1>5 DEF Sourced
  <2>3. QED
    BY <2>1, <2>2
<1>7. RowsDated'
  BY <1>1, <1>3 DEF RowsDated
<1>8. \A r \in rollovers' : r \in rollovers \/ (RollDue /\ r.ts = clock /\ r.banked = banked \cup book)
  OBVIOUS
<1>9. BankedEarlier'
  <2> SUFFICES ASSUME NEW r \in rollovers', NEW w \in Rows', w.fill \in r.banked \ astray'
               PROVE  DayOf(w.ts) < DayOf(r.ts)
    BY DEF BankedEarlier
  <2>1. CASE r \in rollovers
    <3>1. w.fill \in Used
      BY <2>1 DEF Sourced
    <3>2. w \in Rows
      BY <1>1, <1>2, <3>1
    <3>3. QED
      BY <2>1, <3>2 DEF BankedEarlier
  <2>2. CASE r \notin rollovers
    <3>1. RollDue /\ r.ts = clock /\ r.banked = banked \cup book
      BY <1>8, <2>2
    <3>2. w \in Rows
      BY <1>1, <1>2, <3>1
    <3>3. QED
      BY <1>1, <1>3, <3>1, <3>2
  <2>3. QED
    BY <2>1, <2>2
<1>10. WipedGone'
  <2>1. \A ts : DayOf(ts) \in Nat /\ Gone(ts) => Gone(ts)'
    BY <1>1, <1>3 DEF Gone
  <2>2. \A w \in Rows' : w.fill \in wiped' \ astray' => Gone(w.ts)'
    BY <1>1, <1>2, <1>3, <2>1 DEF WipedGone
  <2>3. (banked \cup book) \cap wiped \subseteq astray
    BY DEF Once
  <2>4. \A r \in rollovers' : ~(r.banked \cap wiped' \subseteq astray') => Gone(r.ts)'
    <3> SUFFICES ASSUME NEW r \in rollovers', ~(r.banked \cap wiped \subseteq astray')
                 PROVE  Gone(r.ts)'
      OBVIOUS
    <3>1. ~(r.banked \cap wiped \subseteq astray)
      OBVIOUS
    <3>2. r \in rollovers
      BY <1>8, <2>3, <3>1
    <3>3. DayOf(r.ts) \in Nat /\ Gone(r.ts)
      BY <3>1, <3>2, Typed DEF WipedGone
    <3>4. QED
      BY <2>1, <3>3
  <2>5. QED
    BY <2>2, <2>4 DEF WipedGone
<1>11. Booked'
  <2> SUFFICES ASSUME Today' = Today, NEW w \in Rows', w.fill \notin astray'
               PROVE  w.fill \in book' <=> Live(resets, w.ts, Today)
    BY DEF Booked, RollDue
  <2>1. CASE w \in N
    <3>1. w.fill \in book' /\ DayOf(w.ts) = Today
      BY <2>1
    <3>2. \A t \in resets : t < w.ts
      <4>1. w.ts \in Nat /\ w.ts >= clock
        BY <2>1, StampsAreNumbers DEF NewRows, Row
      <4>2. \A t \in resets : t \in Nat /\ t < clock
        BY Typed DEF Given
      <4>3. QED
        BY <1>3, <4>1, <4>2
    <3>3. QED
      BY <3>1, <3>2 DEF Live
  <2>2. CASE w \in Rows /\ w \notin N
    <3>1. (\A v \in N : v.fill # w.fill) /\ w.fill \notin astray
      BY <1>2, <2>2
    <3>2. CASE RollDue
      <4>1. DayOf(w.ts) # Today
        BY <1>3, <2>2, <3>1, <3>2
      <4>2. QED
        BY <3>1, <3>2, <4>1 DEF Live
    <3>3. CASE ~RollDue
      <4>1. session = Today
        BY <3>3 DEF RollDue
      <4>2. QED
        BY <2>2, <3>1, <3>3, <4>1 DEF Booked
    <3>4. QED
      BY <3>2, <3>3
  <2>3. QED
    BY <1>1, <2>1, <2>2
<1>12. Once'
  <2>1. CASE RollDue
    BY <2>1, <1>2 DEF Once
  <2>2. CASE ~RollDue
    BY <2>2, <1>2 DEF Once
  <2>3. QED
    BY <2>1, <2>2
<1>13. QED
  BY <1>4, <1>6, <1>7, <1>9, <1>10, <1>11, <1>12

\* Every step keeps memory and store telling the same story.
LEMMA LedgerStep ==
  ASSUME ~CoarseClock, LedgerInv, [Next]_vars
  PROVE  LedgerInv'
<1> USE DEF LedgerInv
<1>1. StoreInv'
  BY StoreStep
<1>2. TypeOK /\ Dated
  BY DEF StoreInv
<1>3. ASSUME ClockIsFresh PROVE \A t \in Given : t < clock
  BY <1>3 DEF ClockIsFresh
<1>4. CASE UNCHANGED vars
  BY <1>1, <1>4 DEF vars, accountVars, storeVars, Today, Rows, RollDue, OneRow, Sourced, Used,
                    RowsDated, BankedEarlier, WipedGone, Gone, Booked, Once
<1>5. ASSUME NEW f \in Fills, TakerFill(f) PROVE LedgerInv'
  <2>1. PICK decided \in {clock, clock + 1} :
       /\ decided <= LastTime
       /\ clock' = decided
       /\ pending' = pending \cup {[fill |-> f, ts |-> decided]}
       /\ astray' = astray \cup {g \in {f} : DayOf(decided) # Today}
    BY <1>5 DEF TakerFill
  <2>2. decided \in Time /\ decided >= clock /\ clock' \in Nat /\ clock <= clock'
    BY <1>2, <2>1, LedgerAssumption DEF TypeOK, Time
  <2> DEFINE w == [fill |-> f, ts |-> decided]
  <2>3. w.ts = decided /\ w.fill = f /\ w \in Row
    BY <2>2, StampsAreNumbers DEF Row
  <2>4. pending' = pending \cup {w} /\ astray \subseteq astray'
        /\ (DayOf(w.ts) = Today \/ f \in astray')
    BY <2>1, <2>3
  <2> HIDE DEF w
  <2>5. up /\ f \in Fresh /\ UNCHANGED <<up, orders, lost, wiped>>
    BY <1>5 DEF TakerFill
  <2>6. NewRows({w})
    BY <2>2, <2>3 DEF NewRows
  <2>7. \A x \in {w} : x.fill \in Fresh /\ (DayOf(x.ts) = Today \/ x.fill \in astray')
    BY <2>3, <2>4, <2>5
  <2>8. {x.fill : x \in {w}} = {f}
    BY <2>3
  <2>9. CASE RollDue
    <3>1. Roll /\ book' = {f}
      BY <1>5, <2>9 DEF TakerFill
    <3>2. /\ session' = Today /\ banked' = banked \cup book /\ resets' = resets
          /\ \A r \in rollovers' : r \in rollovers \/ (r.ts = clock /\ r.banked = banked \cup book)
      BY <3>1 DEF Roll
    <3>3. QED
      BY <1>1, <1>3, <1>5, <2>2, <2>4, <2>5, <2>6, <2>7, <2>8, <2>9, <3>1, <3>2, FillStep DEF TakerFill
  <2>10. CASE ~RollDue
    <3>1. /\ UNCHANGED <<banked, resets, rollovers>> /\ book' = book \cup {f}
          /\ session' = Today
      BY <1>5, <2>10 DEF TakerFill, RollDue
    <3>2. QED
      BY <1>1, <1>3, <1>5, <2>2, <2>4, <2>5, <2>6, <2>7, <2>8, <2>10, <3>1, FillStep DEF TakerFill
  <2>11. QED
    BY <2>9, <2>10
<1>6. ASSUME SweepFills PROVE LedgerInv'
  <2>1. PICK N : /\ NewRows(N) /\ pending' = pending \cup N
                 /\ \A w \in N : w.fill \in Fresh /\ (DayOf(w.ts) = Today \/ w.fill \in astray')
                 /\ astray \subseteq astray'
                 /\ \A w, v \in N : w.fill = v.fill => w = v
                 /\ book' = book \cup {w.fill : w \in N}
    BY <1>2, <1>6, SweepRows
  <2>2. /\ up /\ ~RollDue /\ UNCHANGED <<clock, up, orders, resets, lost, wiped>>
        /\ session' = Today /\ UNCHANGED <<rollovers, banked>>
    BY <1>6 DEF SweepFills, storeVars, RollDue
  <2>3. (\A t \in Given : t < clock) /\ clock' \in Nat /\ clock <= clock'
    BY <1>2, <1>3, <1>6, <2>2, Typed DEF SweepFills
  <2>4. QED
    BY <1>1, <2>1, <2>2, <2>3, FillStep
<1>7. ASSUME CrossBoundary PROVE LedgerInv'
  <2>1. /\ up /\ RollDue /\ Roll /\ book' = {}
        /\ UNCHANGED <<clock, up, pending, orders, lost, wiped, astray>>
    BY <1>7 DEF CrossBoundary
  <2>2. (\A t \in Given : t < clock) /\ clock' \in Nat /\ clock <= clock'
    BY <1>2, <1>3, <1>7, <2>1, Typed DEF CrossBoundary
  <2>3. /\ session' = Today /\ banked' = banked \cup book /\ resets' = resets
        /\ \A r \in rollovers' : r \in rollovers \/ (r.ts = clock /\ r.banked = banked \cup book)
    BY <2>1 DEF Roll
  <2>4. NewRows({}) /\ pending' = pending \cup {} /\ book' = {w.fill : w \in {}}
    BY <2>1 DEF NewRows
  <2>5. \A w \in {} : w.fill \in Fresh /\ (DayOf(w.ts) = Today \/ w.fill \in astray')
    OBVIOUS
  <2>6. \A w, v \in {} : w.fill = v.fill => w = v
    OBVIOUS
  <2>7. QED
    BY <1>1, <2>1, <2>2, <2>3, <2>4, <2>5, <2>6, FillStep
<1>8. ASSUME ResetBook PROVE LedgerInv'
  <2>1. /\ resets' = resets \cup {clock} /\ book' = {} /\ banked' = {}
        /\ wiped' = wiped \cup book \cup banked /\ up
        /\ UNCHANGED <<clock, up, session, pending, orders, rollovers, lost, astray>>
    BY <1>8 DEF ResetBook
  <2>2. Rows' = Rows /\ Used' = Used /\ Today' = Today /\ RollDue' = RollDue
    BY <2>1 DEF Rows, Used, Today, RollDue
  <2>3. \A t \in Given : t < clock
    BY <1>3, <1>8 DEF ResetBook
  <2>4. \A r \in Rows \cup rollovers : r.ts < clock /\ r.ts \in Nat
    BY <1>2, <2>3, Typed DEF Given, Rows
  <2>5. \A r \in Rows \cup rollovers : DayOf(r.ts) <= Today
    BY <1>2, <2>4, Typed, DaysInOrder DEF Today
  <2>6. \A r \in Rows \cup rollovers : Gone(r.ts)'
    <3> SUFFICES ASSUME NEW r \in Rows \cup rollovers, ~(DayOf(r.ts) < Today)
                 PROVE  \E t \in resets' : DayOf(t) = DayOf(r.ts) /\ r.ts < t
      BY <2>2 DEF Gone
    <3>1. DayOf(r.ts) = Today
      BY <1>2, <2>5, Typed
    <3>2. clock \in resets' /\ DayOf(clock) = DayOf(r.ts) /\ r.ts < clock
      BY <2>1, <2>4, <3>1 DEF Today
    <3>3. QED
      BY <3>2
  <2>7. WipedGone'
    BY <2>1, <2>2, <2>6 DEF WipedGone
  <2>8. Sourced'
    BY <2>1, <2>2 DEF Sourced
  <2>9. Booked'
    <3> SUFFICES ASSUME ~RollDue, NEW w \in Rows PROVE ~Live(resets', w.ts, session)
      BY <2>1, <2>2 DEF Booked
    <3>1. DayOf(clock) = session
      BY DEF RollDue, Today
    <3>2. w.ts < clock /\ w.ts \in Nat /\ clock \in Nat
      BY <1>2, <2>4, Typed
    <3>3. ~(clock < w.ts)
      BY <3>2
    <3>4. QED
      BY <2>1, <3>1, <3>3 DEF Live
  <2>10. QED
    BY <1>1, <2>1, <2>2, <2>7, <2>8, <2>9 DEF OneRow, RowsDated, BankedEarlier, Once
<1>9. ASSUME NEW r \in pending, WriteRow(r) \/ DropRow(r) PROVE LedgerInv'
  <2>1. /\ UNCHANGED <<clock, up, session, book, banked, overnight, marked>>
        /\ UNCHANGED <<resets, rollovers, wiped, astray>>
        /\ pending' = pending \ {r} /\ up /\ lost \subseteq lost'
    BY <1>9 DEF WriteRow, DropRow, accountVars, storeVars
  <2>2. Rows' \subseteq Rows /\ Today' = Today /\ RollDue' = RollDue
    BY <1>9, <2>1 DEF WriteRow, DropRow, Rows, Today, RollDue, storeVars
  <2>3. OneRow' /\ Used' = Used
    <3>1. CASE WriteRow(r)
      <4>1. orders' = orders \cup {r} /\ lost' = lost /\ Rows' = Rows
        BY <3>1, <2>1 DEF WriteRow, Rows
      <4>2. QED
        BY <2>1, <4>1 DEF OneRow, Used
    <3>2. CASE DropRow(r)
      <4>1. orders' = orders /\ lost' = lost \cup {r.fill} /\ Rows' = Rows \ {r} /\ r \in Rows
        BY <3>2, <2>1 DEF DropRow, Rows, storeVars, OneRow
      <4>2. QED
        BY <2>1, <4>1 DEF OneRow, Used
    <3>3. QED
      BY <1>9, <3>1, <3>2
  <2>4. RowsDated' /\ BankedEarlier' /\ Booked' /\ Once' /\ Sourced'
    BY <2>1, <2>2, <2>3 DEF RowsDated, BankedEarlier, Booked, Once, Sourced
  <2>5. WipedGone'
    BY <2>1, <2>2 DEF WipedGone, Gone
  <2>6. QED
    BY <1>1, <2>3, <2>4, <2>5
<1>10. ASSUME Crash PROVE LedgerInv'
  <2>1. /\ up' = FALSE /\ pending' = {} /\ lost' = lost \cup {r.fill : r \in pending}
        /\ UNCHANGED <<clock, session, book, banked, orders, resets, rollovers, wiped, astray>>
    BY <1>10 DEF Crash, accountVars, storeVars
  <2>2. Rows' \subseteq Rows /\ Today' = Today /\ Used' = Used
    BY <2>1 DEF Rows, Today, Used
  <2>3. OneRow'
    <3>1. \A w \in orders : \A r \in pending : w.fill # r.fill
      BY DEF OneRow, Rows
    <3>2. QED
      BY <2>1, <3>1 DEF OneRow, Rows
  <2>4. RowsDated' /\ BankedEarlier' /\ Booked' /\ Once' /\ Sourced'
    BY <2>1, <2>2 DEF RowsDated, BankedEarlier, Booked, Once, Sourced
  <2>5. WipedGone'
    BY <2>1, <2>2 DEF WipedGone, Gone
  <2>6. QED
    BY <1>1, <2>3, <2>4, <2>5
<1>11. ASSUME Restart PROVE LedgerInv'
  <2>1. /\ ~up /\ up' = TRUE /\ session' = Today /\ book' = Replay(Today) /\ banked' = Carry(Today)
        /\ UNCHANGED <<clock, pending, orders, resets, rollovers, lost, wiped, astray>>
    BY <1>11 DEF Restart, storeVars
  <2>2. Rows' = Rows /\ Today' = Today /\ Used' = Used /\ Rows = orders
    BY <2>1 DEF Rows, Today, Used, OneRow
  <2>3. /\ Carry(Today) = CarryOf(rollovers, resets, Today)
        /\ Replay(Today) = {w.fill : w \in {x \in orders : Live(resets, x.ts, Today)}}
    BY <1>2, CarryIs, ReplayIs
  <2>4. /\ \A f \in Carry(Today) :
             \E r \in rollovers : f \in r.banked /\ Live(resets, r.ts, Today)
        /\ \A f \in Replay(Today) :
             \E w \in Rows : f = w.fill /\ Live(resets, w.ts, Today)
    BY <2>2, <2>3 DEF CarryOf
  <2>5. \A ts \in Nat : Live(resets, ts, Today) => ~Gone(ts)
    <3> SUFFICES ASSUME NEW ts \in Nat, Live(resets, ts, Today), Gone(ts) PROVE FALSE
      OBVIOUS
    <3>1. DayOf(ts) = Today /\ Today \in Nat
      BY <1>2, Typed DEF Live
    <3>2. PICK t \in resets : DayOf(t) = Today /\ ts < t
      BY <3>1 DEF Gone
    <3>3. t < ts /\ t \in Nat
      BY <1>2, <3>2, Typed DEF Live
    <3>4. QED
      BY <3>2, <3>3
  <2>6. Once'
    <3>1. Replay(Today) \cap Carry(Today) \subseteq astray
      <4> SUFFICES ASSUME NEW f \in Replay(Today), f \in Carry(Today), f \notin astray PROVE FALSE
        OBVIOUS
      <4>1. PICK w \in Rows : f = w.fill /\ Live(resets, w.ts, Today)
        BY <2>4
      <4>2. PICK r \in rollovers : f \in r.banked /\ Live(resets, r.ts, Today)
        BY <2>4
      <4>3. DayOf(w.ts) = DayOf(r.ts) /\ DayOf(w.ts) \in Nat
        BY <1>2, <4>1, <4>2, Typed DEF Live
      <4>4. DayOf(w.ts) < DayOf(r.ts)
        BY <4>1, <4>2 DEF BankedEarlier
      <4>5. QED
        BY <4>3, <4>4
    <3>2. Replay(Today) \cap wiped \subseteq astray
      <4> SUFFICES ASSUME NEW f \in Replay(Today), f \in wiped, f \notin astray PROVE FALSE
        OBVIOUS
      <4>1. PICK w \in Rows : f = w.fill /\ Live(resets, w.ts, Today)
        BY <2>4
      <4>2. w.ts \in Nat /\ Gone(w.ts)
        BY <1>2, <4>1, Typed DEF WipedGone
      <4>3. QED
        BY <2>5, <4>1, <4>2
    <3>3. Carry(Today) \cap wiped \subseteq astray
      <4> SUFFICES ASSUME NEW f \in Carry(Today), f \in wiped, f \notin astray PROVE FALSE
        OBVIOUS
      <4>1. PICK r \in rollovers : f \in r.banked /\ Live(resets, r.ts, Today)
        BY <2>4
      <4>2. r.ts \in Nat /\ Gone(r.ts)
        BY <1>2, <4>1, Typed DEF WipedGone
      <4>3. QED
        BY <2>5, <4>1, <4>2
    <3>4. QED
      BY <2>1, <3>1, <3>2, <3>3 DEF Once
  <2>7. Booked'
    <3> SUFFICES ASSUME NEW w \in Rows PROVE w.fill \in Replay(Today) <=> Live(resets, w.ts, Today)
      BY <2>1, <2>2 DEF Booked
    <3>1. QED
      BY <2>2, <2>3 DEF OneRow
  <2>8. Sourced'
    <3>1. Replay(Today) \subseteq Used
      BY <2>4 DEF Used
    <3>2. Carry(Today) \subseteq Used
      BY <2>4 DEF Sourced
    <3>3. QED
      BY <2>1, <2>2, <3>1, <3>2 DEF Sourced
  <2>9. OneRow' /\ BankedEarlier'
    BY <2>1, <2>2 DEF OneRow, BankedEarlier
  <2>10. RowsDated'
    <3>1. \A w \in Rows : DayOf(w.ts) \in Nat /\ (w.fill \notin astray => DayOf(w.ts) <= session)
      BY <1>2, Typed DEF RowsDated
    <3>2. session <= Today /\ session \in Nat /\ Today \in Nat
      BY <1>2, Typed DEF Dated
    <3>3. QED
      BY <2>1, <2>2, <3>1, <3>2 DEF RowsDated
  <2>11. WipedGone'
    BY <2>1, <2>2 DEF WipedGone, Gone
  <2>12. QED
    BY <1>1, <2>6, <2>7, <2>8, <2>9, <2>10, <2>11
<1>12. ASSUME Tick PROVE LedgerInv'
  <2>1. /\ clock' = clock + 1
        /\ UNCHANGED <<up, session, book, banked, pending, orders, resets, rollovers, lost, wiped, astray>>
    BY <1>12 DEF Tick, accountVars, storeVars
  <2>2. Today <= Today' /\ Today \in Nat /\ Today' \in Nat /\ session \in Nat /\ session <= Today
    <3>1. clock \in Nat /\ clock <= clock' /\ clock' \in Nat
      BY <1>2, <2>1, Typed
    <3>2. QED
      BY <1>2, <3>1, DaysInOrder, Typed DEF Today, Dated
  <2>3. Rows' = Rows /\ Used' = Used
    BY <2>1 DEF Rows, Used
  <2>4. ~RollDue' => ~RollDue
    BY <2>1, <2>2 DEF RollDue
  <2>5. \A w \in Rows \cup rollovers : Gone(w.ts) => Gone(w.ts)'
    BY <1>2, <2>1, <2>2, Typed DEF Gone
  <2>6. WipedGone'
    BY <2>1, <2>3, <2>5 DEF WipedGone
  <2>7. Booked'
    BY <2>1, <2>3, <2>4 DEF Booked
  <2>8. QED
    BY <1>1, <2>1, <2>3, <2>6, <2>7 DEF OneRow, Sourced, RowsDated, BankedEarlier, Once
<1>13. QED
  BY <1>4, <1>5, <1>6, <1>7, <1>8, <1>9, <1>10, <1>11, <1>12 DEF Next

(*** The theorems ***********************************************************)

LEMMA LedgerStarts == Init => LedgerInv
<1> SUFFICES ASSUME Init PROVE LedgerInv
  OBVIOUS
<1>1. 1 \in Time /\ DayOf(1) \in Days /\ DayOf(1) \in Nat
  <2>1. 1 \in Time
    BY LedgerAssumption DEF Time
  <2>2. QED
    BY <2>1, StampsAreNumbers
<1>2. TypeOK
  BY <1>1 DEF Init, TypeOK
<1>3. Dated /\ Untied
  BY <1>1 DEF Init, Dated, Untied, Today, Rows
<1>4. CarryKept
  BY DEF Init, CarryKept, CarryOf
<1>5. OneRow /\ Sourced /\ RowsDated /\ BankedEarlier /\ WipedGone /\ Booked /\ Once
  BY DEF Init, OneRow, Sourced, RowsDated, BankedEarlier, WipedGone, Booked, Once, Rows
<1>6. QED
  BY <1>2, <1>3, <1>4, <1>5 DEF LedgerInv, StoreInv

\* The inductive invariant of the stored rows alone, while no two readings of the clock are
\* the same: rows are dated, sourced and ordered by the moments their handlers read
\* (audit/writers.py, audit/boundaries.py).
THEOREM StoreInvariant == ASSUME ~CoarseClock PROVE Spec => []StoreInv
<1>1. Init => StoreInv
  BY LedgerStarts DEF LedgerInv
<1>2. StoreInv /\ [Next]_vars => StoreInv'
  BY StoreStep
<1>3. QED
  BY <1>1, <1>2, PTL DEF Spec

\* The inductive invariant of the store and of the account beside it: what memory holds is
\* what the rows of the live session say, but for the fills stamped across midnight.
THEOREM LedgerInvariant == ASSUME ~CoarseClock PROVE Spec => []LedgerInv
<1>1. LedgerInv /\ [Next]_vars => LedgerInv'
  BY LedgerStep
<1>2. QED
  BY <1>1, LedgerStarts, PTL DEF Spec

\* A stopped gateway can always start again (risk_proxy/rehydrate.py refuses a store whose
\* rows tie): no sequence of fills, sweeps, resets, rolls, lost writes and crashes stores a
\* tie, so long as no two handlers read the same microsecond, whether or not a handler
\* straddles midnight.
THEOREM GatewayAlwaysBoots == ASSUME ~CoarseClock PROVE Spec => []AlwaysBootable
<1>1. StoreInv => AlwaysBootable
  <2> SUFFICES ASSUME StoreInv PROVE Restorable(Today)
    BY DEF AlwaysBootable
  <2>1. TypeOK /\ Dated /\ Untied
    BY DEF StoreInv
  <2>2. \A r \in InDay(orders, Today) : r.ts \notin ResetsOf(Today)
    BY <2>1 DEF Untied, Rows, InDay, ResetsOf
  <2>3. \A r, q \in ReplayRows(Today) : r.ts = q.ts => r = q
    BY <2>1 DEF Untied, Rows, ReplayRows, InDay
  <2>4. \A r \in InDay(rollovers, Today) : r.ts \notin ResetsOf(Today)
    BY <2>1 DEF Untied, InDay, ResetsOf
  <2>5. \A r \in Records(Today) : r.session = Today
    BY <2>1, CarryIs DEF Dated, Live
  <2>6. QED
    BY <2>2, <2>3, <2>4, <2>5 DEF Restorable
<1>2. QED
  BY <1>1, StoreInvariant, PTL

\* The carry a restart would read is the one the account stands on, and the baseline holds
\* the opening mark exactly when equity does (audit/boundaries.py writes both boundaries
\* before memory moves), again even when a handler straddles midnight.
THEOREM CarryAlwaysDurable == ASSUME ~CoarseClock PROVE Spec => []CarryIsDurable
<1>1. StoreInv => CarryIsDurable
  BY CarryIs DEF StoreInv, CarryKept, CarryIsDurable
<1>2. QED
  BY <1>1, StoreInvariant, PTL

\* A restart's replay finds exactly the live session's recorded fills: no reset fill returns,
\* no closed session leaks in, none is invented (accepted_fills_for_session), when clock
\* readings are distinct. A fill stamped across midnight (decision.py:264) is found on the
\* other day, and disturbs no other fill.
THEOREM ReplayAlwaysIsBook == ASSUME ~CoarseClock PROVE Spec => []ReplayIsBook
<1>1. LedgerInv => ReplayIsBook
  <2> SUFFICES ASSUME LedgerInv, up, ~RollDue
               PROVE  Replay(session) \ astray = book \ (Unrecorded \cup astray)
    BY DEF ReplayIsBook
  <2> USE DEF LedgerInv
  <2>1. Replay(session) = {w.fill : w \in {x \in orders : Live(resets, x.ts, session)}}
    BY ReplayIs
  <2>2. \A w \in Rows : w.fill \notin astray => (w.fill \in book <=> Live(resets, w.ts, session))
    BY DEF Booked
  <2>3. Replay(session) \ astray \subseteq book \ (Unrecorded \cup astray)
    BY <2>1, <2>2 DEF Rows, Unrecorded, OneRow
  <2>4. book \ (Unrecorded \cup astray) \subseteq Replay(session) \ astray
    <3> SUFFICES ASSUME NEW f \in book, f \notin Unrecorded, f \notin astray
                 PROVE  f \in Replay(session)
      OBVIOUS
    <3>1. PICK w \in Rows : w.fill = f
      BY DEF Sourced, Used, Unrecorded
    <3>2. w \in orders
      BY <3>1 DEF Rows, Unrecorded
    <3>3. QED
      BY <2>1, <2>2, <3>1, <3>2
  <2>5. QED
    BY <2>3, <2>4
<1>2. QED
  BY <1>1, LedgerInvariant, PTL

\* A fill counts once: in this session's realized P&L, in the carry, or nowhere after a
\* reset, whatever rolls, crashes and restarts lie between, unless it was itself stamped
\* across midnight.
THEOREM FillsCountOnce == ASSUME ~CoarseClock PROVE Spec => []CountedOnce
<1>1. LedgerInv => CountedOnce
  BY DEF LedgerInv, StoreInv, Once, CountedOnce
<1>2. QED
  BY <1>1, LedgerInvariant, PTL

=============================================================================
