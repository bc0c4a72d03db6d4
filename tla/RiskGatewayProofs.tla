-------------------------- MODULE RiskGatewayProofs --------------------------
(***************************************************************************)
(* Theorems about the risk gateway, for every set of symbols and orders and *)
(* every value of the limits.  The counting lemmas come first: the quantity *)
(* resting on a side is the cardinality of its lots, so the finite-set      *)
(* library gives what sums over the book would otherwise need induction     *)
(* for.                                                                    *)
(***************************************************************************)
EXTENDS RiskGateway, FiniteSetTheorems, TLAPS

-----------------------------------------------------------------------------
(* Counting lots *)

\* A finite book has finitely many lots on a side, so its quantity is a natural.
LEMMA LotsFinite ==
  ASSUME NEW book, IsFiniteSet(book), NEW s, NEW side
  PROVE  IsFiniteSet(Lots(book, s, side)) /\ WorkingQty(book, s, side) \in Nat
<1>1. IsFiniteSet(1..MaxQty)
  BY FS_Interval, BoundsAssumption
<1>2. IsFiniteSet(book \X (1..MaxQty))
  BY <1>1, FS_Product
<1>3. Lots(book, s, side) \in SUBSET (book \X (1..MaxQty))
  BY DEF Lots
<1>4. IsFiniteSet(Lots(book, s, side))
  BY <1>2, <1>3, FS_Subset
<1>5. QED
  BY <1>4, FS_CardinalityType DEF WorkingQty

\* The empty book rests nothing.
LEMMA EmptyBookQty ==
  ASSUME NEW s, NEW side
  PROVE  WorkingQty({}, s, side) = 0
<1>1. Lots({}, s, side) = {}
  BY DEF Lots
<1>2. QED
  BY <1>1, FS_EmptySet DEF WorkingQty

\* Taking orders off a book takes exactly their quantity off each side.
LEMMA QtyWithout ==
  ASSUME NEW book, IsFiniteSet(book), NEW part \in SUBSET book, NEW s, NEW side
  PROVE  /\ WorkingQty(book \ part, s, side) = WorkingQty(book, s, side) - WorkingQty(part, s, side)
         /\ WorkingQty(part, s, side) \in Nat
         /\ WorkingQty(book, s, side) \in Nat
         /\ WorkingQty(book \ part, s, side) \in Nat
<1>1. IsFiniteSet(part) /\ IsFiniteSet(book \ part)
  BY FS_Subset, FS_Difference
<1>2. Lots(book \ part, s, side) = Lots(book, s, side) \ Lots(part, s, side)
  BY DEF Lots
<1>3. Lots(book, s, side) \cap Lots(part, s, side) = Lots(part, s, side)
  BY DEF Lots
<1>4. Cardinality(Lots(book, s, side) \ Lots(part, s, side))
        = Cardinality(Lots(book, s, side)) - Cardinality(Lots(book, s, side) \cap Lots(part, s, side))
  BY LotsFinite, FS_Difference
<1>5. QED
  BY <1>1, <1>2, <1>3, <1>4, LotsFinite DEF WorkingQty

\* An order that joins a book adds its quantity to its own side of its own symbol
\* and nothing anywhere else.
LEMMA QtyWith ==
  ASSUME NEW book, IsFiniteSet(book), NEW wo \in WorkingOrder, wo \notin book,
         NEW s, NEW side
  PROVE  WorkingQty(book \cup {wo}, s, side) =
           WorkingQty(book, s, side) +
             (IF wo.symbol = s /\ wo.side = side THEN wo.quantity ELSE 0)
<1>1. IsFiniteSet({wo}) /\ IsFiniteSet(book \cup {wo}) /\ Cardinality({wo}) = 1
  BY FS_Singleton, FS_AddElement
<1>2. WorkingQty((book \cup {wo}) \ {wo}, s, side)
        = WorkingQty(book \cup {wo}, s, side) - WorkingQty({wo}, s, side)
  BY <1>1, QtyWithout
<1>3. (book \cup {wo}) \ {wo} = book
  OBVIOUS
<1>4. WorkingQty({wo}, s, side) =
        IF wo.symbol = s /\ wo.side = side THEN wo.quantity ELSE 0
  <2>1. CASE wo.symbol = s /\ wo.side = side
    <3>1. wo.quantity \in 1..MaxQty /\ wo.quantity \in Nat
      BY BoundsAssumption DEF WorkingOrder
    <3>2. Lots({wo}, s, side) = {wo} \X (1..wo.quantity)
      BY <2>1, <3>1, BoundsAssumption DEF Lots
    <3>3. IsFiniteSet(1..wo.quantity) /\ Cardinality(1..wo.quantity) = wo.quantity
      BY <3>1, FS_Interval
    <3>4. Cardinality({wo} \X (1..wo.quantity)) = Cardinality({wo}) * Cardinality(1..wo.quantity)
      BY <1>1, <3>3, FS_Product
    <3>5. Cardinality({wo}) * Cardinality(1..wo.quantity) = wo.quantity
      BY <1>1, <3>1, <3>3
    <3>6. Cardinality(Lots({wo}, s, side)) = wo.quantity
      BY <3>2, <3>4, <3>5
    <3>7. QED
      BY <2>1, <3>6 DEF WorkingQty
  <2>2. CASE ~(wo.symbol = s /\ wo.side = side)
    <3>1. Lots({wo}, s, side) = {}
      BY <2>2 DEF Lots
    <3>2. QED
      BY <2>2, <3>1, FS_EmptySet DEF WorkingQty
  <2>3. QED
    BY <2>1, <2>2
<1>5. /\ WorkingQty(book \cup {wo}, s, side) \in Nat
      /\ WorkingQty({wo}, s, side) \in Nat
      /\ WorkingQty(book, s, side) \in Nat
  BY <1>1, LotsFinite
<1>6. WorkingQty(book, s, side) = WorkingQty(book \cup {wo}, s, side) - WorkingQty({wo}, s, side)
  BY <1>2, <1>3
<1>7. WorkingQty(book \cup {wo}, s, side) = WorkingQty(book, s, side) + WorkingQty({wo}, s, side)
  BY <1>5, <1>6
<1>8. QED
  BY <1>4, <1>7

-----------------------------------------------------------------------------
(* Exposure arithmetic *)

\* Lots a symbol may be worth at some mark are at most the lots it may be worth at
\* the lowest.
LEMMA CapInLots ==
  ASSUME NEW n \in Nat, NEW m \in Marks, n * m <= MaxSymbolNotional
  PROVE  n <= LotCap
<1>1. m \in Nat /\ LowMark \in Nat \ {0} /\ LowMark <= m /\ MaxSymbolNotional \in Nat
  BY BoundsAssumption
<1>2. n * LowMark <= n * m
  <2>1. PICK d \in Nat : m = LowMark + d
    <3>1. m - LowMark \in Nat /\ m = LowMark + (m - LowMark)
      BY <1>1
    <3>2. QED
      BY <3>1
  <2>2. n * m = n * LowMark + n * d
    BY <1>1, <2>1
  <2>3. n * d \in Nat /\ n * LowMark \in Nat
    BY <1>1, <2>1
  <2>4. QED
    BY <2>2, <2>3
<1>3. n * LowMark <= MaxSymbolNotional
  <2>1. n * LowMark \in Nat /\ n * m \in Nat
    BY <1>1
  <2>2. QED
    BY <1>1, <1>2, <2>1
<1>4. n <= MaxSymbolNotional \div LowMark
  BY <1>1, <1>3
<1>5. QED
  BY <1>4 DEF LotCap

\* The cap in lots is a natural.
LEMMA LotCapNat == LotCap \in Nat
  BY BoundsAssumption DEF LotCap

-----------------------------------------------------------------------------
(* Type correctness *)

\* Retiring orders keeps the outcomes well typed.
LEMMA RetiredType ==
  ASSUME NEW result \in [Orders -> Outcomes], NEW orders, NEW status \in Outcomes
  PROVE  Retired(result, orders, status) \in [Orders -> Outcomes]
  BY DEF Retired

\* What a handler finds after the roll it starts with.
LEMMA OpenType ==
  ASSUME TypeOK
  PROVE  /\ OpenBook \subseteq WorkingOrder
         /\ OpenBook \subseteq working /\ IsFiniteSet(OpenBook)
         /\ OpenOutcome \in [Orders -> Outcomes]
         /\ OpenBudget \in Levels
<1>1. OpenBook \subseteq WorkingOrder /\ OpenBook \subseteq working /\ IsFiniteSet(OpenBook)
  BY FS_EmptySet DEF TypeOK, OpenBook
<1>2. OpenOutcome \in [Orders -> Outcomes]
  <2>1. "CANCELLED" \in Outcomes /\ "EXPIRED" \in Outcomes
    BY DEF Outcomes
  <2>2. Retired(outcome, working, "CANCELLED") \in [Orders -> Outcomes]
    BY <2>1, RetiredType DEF TypeOK
  <2>3. Retired(Retired(outcome, working, "CANCELLED"), DayOrders(working), "EXPIRED")
          \in [Orders -> Outcomes]
    BY <2>1, <2>2, RetiredType
  <2>4. QED
    BY <2>3 DEF OpenOutcome, TypeOK
<1>3. OpenBudget \in Levels
  BY DEF TypeOK, OpenBudget, Levels
<1>4. QED
  BY <1>1, <1>2, <1>3

\* The trip of the kill switch keeps the types it changes.
LEMMA EngageKillType ==
  ASSUME TypeOK, EngageKill
  PROVE  /\ outcome' \in [Orders -> Outcomes] /\ IsFiniteSet(working')
         /\ working' = {} /\ killActive' = TRUE /\ halted' = halted
<1>1. "CANCELLED" \in Outcomes
  BY DEF Outcomes
<1>2. QED
  BY <1>1, RetiredType, FS_EmptySet DEF EngageKill, TypeOK

\* Everything an entering order changes keeps its type; replacing is the caller's.
LEMMA EnterType ==
  ASSUME TypeOK, NEW o \in Orders, NEW s \in Symbols, NEW side \in Sides,
         NEW qty \in 1..MaxQty, NEW type, NEW tif \in {"GTC", "DAY", "IOC"},
         Enter(o, s, side, qty, type, tif), replacing' \subseteq Replacement
  PROVE  TypeOK'
<1>1. /\ mark' \in [Symbols -> Marks] /\ killActive' \in BOOLEAN /\ halted' \subseteq Symbols
      /\ override' \in BOOLEAN /\ today' \in 0..LastDay /\ session' \in 0..LastDay
      /\ auditUp' \in BOOLEAN /\ sweepSettling' \in BOOLEAN
  BY DEF Enter, TypeOK, controlVars
<1>2. /\ outcome' \in [Orders -> Outcomes]
      /\ working' \subseteq WorkingOrder /\ IsFiniteSet(working')
      /\ held' \in [Symbols -> Int] /\ budget' \in Levels /\ settling' \subseteq Orders
  <2>1. CASE Refuse(o)
    BY <2>1, OpenType DEF Refuse, TypeOK, Outcomes
  <2>2. CASE Take(o, s, side, qty, type)
    <3>1. PICK filled \in (qty - MaxFillDrift)..(qty + MaxFillDrift) :
            held' = [held EXCEPT ![s] = @ + Signed(side, filled)]
      BY <2>2 DEF Take
    <3>2. Signed(side, filled) \in Int
      BY <3>1, BoundsAssumption DEF Signed
    <3>3. held' \in [Symbols -> Int]
      BY <3>1, <3>2 DEF TypeOK
    <3>4. QED
      BY <2>2, <3>3, OpenType DEF Take, TypeOK, Outcomes
  <2>3. CASE Lapse(o, s, side, qty)
    BY <2>3, OpenType DEF Lapse, TypeOK, Outcomes
  <2>4. CASE tif # "IOC" /\ Rest(o, s, side, qty, tif)
    <3>1. [id |-> o, symbol |-> s, side |-> side, quantity |-> qty, tif |-> tif,
           session |-> today] \in WorkingOrder
      BY <2>4 DEF WorkingOrder, TypeOK
    <3>2. IsFiniteSet(working')
      BY <2>4, OpenType, FS_AddElement DEF Rest
    <3>3. QED
      BY <2>4, <3>1, <3>2, OpenType DEF Rest, TypeOK, Outcomes
  <2>5. QED
    BY <2>1, <2>2, <2>3, <2>4 DEF Enter
<1>3. QED
  BY <1>1, <1>2 DEF TypeOK

\* The gateway starts well typed.
LEMMA TypeInit == Init => TypeOK
<1> SUFFICES ASSUME Init PROVE TypeOK
  OBVIOUS
<1>1. outcome \in [Orders -> Outcomes] /\ held \in [Symbols -> Int] /\ budget \in Levels
  BY DEF Init, Outcomes, Levels
<1>2. 0 \in 0..LastDay
  BY BoundsAssumption
<1>3. working \subseteq WorkingOrder /\ IsFiniteSet(working)
  BY FS_EmptySet DEF Init
<1>4. QED
  BY <1>1, <1>2, <1>3 DEF Init, TypeOK

\* Every step of the gateway and of the world around it keeps every type.
LEMMA TypeStep == TypeOK /\ [Next]_vars => TypeOK'
<1> SUFFICES ASSUME TypeOK, [Next]_vars PROVE TypeOK'
  OBVIOUS
<1> USE DEF bookVars, controlVars, handlerVars, clockVars
<1>1. ASSUME NEW o \in Orders, Submit(o) PROVE TypeOK'
  <2>1. PICK s \in Symbols, side \in Sides, qty \in 1..MaxQty :
          \/ Enter(o, s, side, qty, "MARKET", "IOC")
          \/ \E tif \in {"GTC", "DAY", "IOC"} : Enter(o, s, side, qty, "LIMIT", tif)
    BY <1>1 DEF Submit
  <2>2. replacing' \subseteq Replacement
    BY <1>1 DEF Submit, TypeOK
  <2>3. QED
    BY <2>1, <2>2, EnterType
<1>2. ASSUME NEW o \in Orders, CancelWorking(o) PROVE TypeOK'
  BY <1>2, FS_Subset DEF CancelWorking, TypeOK, Outcomes
<1>3. ASSUME NEW o \in Orders, ReplaceBegin(o) PROVE TypeOK'
  <2>1. PICK wo \in working, qty \in 1..MaxQty :
          /\ working' = working \ {wo}
          /\ replacing' = replacing \cup
               {[of |-> o, symbol |-> wo.symbol, side |-> wo.side, quantity |-> qty,
                 tif |-> wo.tif]}
    BY <1>3 DEF ReplaceBegin
  <2>2. working' \subseteq WorkingOrder /\ IsFiniteSet(working')
    BY <2>1, FS_Difference DEF TypeOK
  <2>3. wo \in WorkingOrder
    BY DEF TypeOK
  <2>4. [of |-> o, symbol |-> wo.symbol, side |-> wo.side, quantity |-> qty, tif |-> wo.tif]
          \in Replacement
    BY <2>3 DEF WorkingOrder, Replacement
  <2>5. replacing' \subseteq Replacement
    BY <2>1, <2>4 DEF TypeOK
  <2>6. QED
    BY <1>3, <2>2, <2>5 DEF ReplaceBegin, TypeOK, Outcomes
<1>4. ASSUME NEW r \in replacing, ReplaceAborts(r) PROVE TypeOK'
  BY <1>4 DEF ReplaceAborts, TypeOK
<1>5. ASSUME NEW r \in replacing, NEW o \in Orders, ReplaceFinish(r, o) PROVE TypeOK'
  <2>1. r \in Replacement /\ replacing' \subseteq Replacement
    BY <1>5 DEF ReplaceFinish, TypeOK
  <2>2. QED
    BY <1>5, <2>1, EnterType DEF ReplaceFinish, Replacement
<1>6. CASE TriggerKill
  BY <1>6, EngageKillType DEF TriggerKill, TypeOK
<1>7. CASE ReleaseKill
  BY <1>7 DEF ReleaseKill, TypeOK
<1>8. CASE ResetBook
  <2>1. "CANCELLED" \in Outcomes
    BY DEF Outcomes
  <2>2. outcome' \in [Orders -> Outcomes]
    BY <1>8, <2>1, RetiredType DEF ResetBook, TypeOK
  <2>3. QED
    BY <1>8, <2>2, FS_EmptySet DEF ResetBook, TypeOK, Levels
<1>9. ASSUME NEW s \in Symbols, HaltSymbol(s) PROVE TypeOK'
  <2>1. "CANCELLED" \in Outcomes
    BY DEF Outcomes
  <2>2. outcome' \in [Orders -> Outcomes]
    BY <1>9, <2>1, RetiredType DEF HaltSymbol, TypeOK
  <2>3. QED
    BY <1>9, <2>2, FS_Difference DEF HaltSymbol, TypeOK
<1>10. ASSUME NEW s \in Symbols, ResumeSymbol(s) PROVE TypeOK'
  BY <1>10 DEF ResumeSymbol, TypeOK
<1>11. ASSUME NEW enabled \in BOOLEAN, SetReduceOnly(enabled) PROVE TypeOK'
  BY <1>11 DEF SetReduceOnly, TypeOK
<1>12. CASE Sweep
  <2>1. PICK pulled \in SUBSET OpenBook, crossed \in SUBSET OpenBook :
          /\ held' = [s \in Symbols |->
                        held[s] + WorkingQty(crossed, s, "BUY") - WorkingQty(crossed, s, "SELL")]
          /\ working' = OpenBook \ (pulled \cup crossed)
          /\ outcome' = Retired(Retired(OpenOutcome, pulled, "CANCELLED"), crossed, "FILLED")
          /\ IF crossed = {} THEN budget' = OpenBudget ELSE budget' \in Levels
          /\ sweepSettling' = (crossed # {})
    BY <1>12 DEF Sweep
  <2>2. outcome' \in [Orders -> Outcomes]
    <3>1. "CANCELLED" \in Outcomes /\ "FILLED" \in Outcomes
      BY DEF Outcomes
    <3>2. QED
      BY <2>1, <3>1, OpenType, RetiredType
  <2>3. held' \in [Symbols -> Int]
    <3>1. IsFiniteSet(crossed)
      BY <2>1, OpenType, FS_Subset
    <3>2. \A s \in Symbols : WorkingQty(crossed, s, "BUY") \in Nat /\ WorkingQty(crossed, s, "SELL") \in Nat
      BY <3>1, LotsFinite
    <3>3. \A s \in Symbols : held[s] \in Int
      BY DEF TypeOK
    <3>4. \A s \in Symbols :
            held[s] + WorkingQty(crossed, s, "BUY") - WorkingQty(crossed, s, "SELL") \in Int
      BY <3>2, <3>3
    <3>5. QED
      BY <2>1, <3>4
  <2>4. working' \subseteq WorkingOrder /\ IsFiniteSet(working')
    BY <2>1, OpenType, FS_Difference
  <2>5. /\ mark' \in [Symbols -> Marks] /\ killActive' \in BOOLEAN /\ halted' \subseteq Symbols
        /\ override' \in BOOLEAN /\ today' \in 0..LastDay /\ session' \in 0..LastDay
        /\ auditUp' \in BOOLEAN /\ settling' \subseteq Orders /\ replacing' \subseteq Replacement
    BY <1>12 DEF Sweep, TypeOK
  <2>6. budget' \in Levels /\ sweepSettling' \in BOOLEAN
    BY <2>1, OpenType
  <2>7. QED
    BY <2>2, <2>3, <2>4, <2>5, <2>6 DEF TypeOK
<1>13. CASE SettleSweep
  BY <1>13, EngageKillType DEF SettleSweep, TypeOK
<1>14. CASE MonitorTick
  BY <1>14, OpenType, EngageKillType DEF MonitorTick, Roll, Breaker, TypeOK
<1>15. ASSUME NEW o \in Orders, Settle(o) PROVE TypeOK'
  BY <1>15, EngageKillType DEF Settle, TypeOK
<1>16. ASSUME NEW s \in Symbols, NEW price \in Marks, MarketMoves(s, price) PROVE TypeOK'
  BY <1>16 DEF MarketMoves, TypeOK
<1>17. CASE Midnight
  BY <1>17, BoundsAssumption DEF Midnight, TypeOK
<1>18. CASE AuditChanges
  BY <1>18 DEF AuditChanges, TypeOK
<1>19. CASE UNCHANGED vars
  BY <1>19 DEF vars, TypeOK
<1>20. QED
  BY <1>1, <1>2, <1>3, <1>4, <1>5, <1>6, <1>7, <1>8, <1>9, <1>10, <1>11, <1>12, <1>13,
     <1>14, <1>15, <1>16, <1>17, <1>18, <1>19 DEF Next, Client, Operator, Gateway, World

\* Every variable of the gateway keeps its type.
THEOREM TypeCorrect == Spec => []TypeOK
  BY TypeInit, TypeStep, PTL DEF Spec

-----------------------------------------------------------------------------
(* What one step may do to the resting book *)

\* A step in which an order comes to rest.
Resting(s, side, qty) ==
  \E o \in Orders, tif \in {"GTC", "DAY"} :
    /\ outcome[o] = "NEW"
    /\ Rest(o, s, side, qty, tif)
    /\ session' = today
    /\ UNCHANGED <<killActive, halted>>

\* A step that adds nothing to the book, and clears it of whatever the new halts
\* and the new session forbid.
Thinning ==
  /\ working' \subseteq working
  /\ killActive' => killActive \/ working' = {}
  /\ \A wo \in working' : wo.symbol \in halted' => wo.symbol \in halted
  /\ session' = session \/ working' = {}

\* The three ways a position moves: a taker fill, a sweep, the reset.
Moving ==
  \/ \E o \in Orders, s \in Symbols, side \in Sides, qty \in 1..MaxQty, type \in {"MARKET", "LIMIT"} :
       Take(o, s, side, qty, type)
  \/ Sweep
  \/ ResetBook

\* An entering order rests, or the book only thins; the position moves only when
\* the order takes.
LEMMA EnterBook ==
  ASSUME TypeOK, NEW o \in Orders, NEW s \in Symbols, NEW side \in Sides,
         NEW qty \in 1..MaxQty, NEW type \in {"MARKET", "LIMIT"},
         NEW tif \in {"GTC", "DAY", "IOC"},
         Enter(o, s, side, qty, type, tif)
  PROVE  \/ Resting(s, side, qty)
         \/ Thinning /\ (held' = held \/ Take(o, s, side, qty, type))
<1>1. session' = today /\ UNCHANGED <<killActive, halted>> /\ outcome[o] = "NEW"
  BY DEF Enter, controlVars
<1>2. working' = OpenBook => Thinning
  BY <1>1, OpenType DEF Thinning, OpenBook, RollDue
<1>3. CASE Refuse(o)
  BY <1>2, <1>3 DEF Refuse
<1>4. CASE Take(o, s, side, qty, type)
  BY <1>2, <1>4 DEF Take
<1>5. CASE Lapse(o, s, side, qty)
  BY <1>2, <1>5 DEF Lapse
<1>6. CASE tif # "IOC" /\ Rest(o, s, side, qty, tif)
  BY <1>1, <1>6 DEF Resting
<1>7. QED
  BY <1>3, <1>4, <1>5, <1>6 DEF Enter

\* Every step rests one order or thins the book, and moves positions in one of three
\* ways.
LEMMA BookStep ==
  ASSUME TypeOK, [Next]_vars
  PROVE  \/ \E s \in Symbols, side \in Sides, qty \in 1..MaxQty : Resting(s, side, qty)
         \/ Thinning /\ (held' = held \/ Moving)
<1> USE DEF bookVars, controlVars, handlerVars, clockVars
<1>1. ASSUME NEW o \in Orders, Submit(o)
      PROVE  \/ \E s \in Symbols, side \in Sides, qty \in 1..MaxQty : Resting(s, side, qty)
             \/ Thinning /\ (held' = held \/ Moving)
  <2>1. PICK s \in Symbols, side \in Sides, qty \in 1..MaxQty, type \in {"MARKET", "LIMIT"},
             tif \in {"GTC", "DAY", "IOC"} : Enter(o, s, side, qty, type, tif)
    BY <1>1 DEF Submit
  <2>2. \/ Resting(s, side, qty)
        \/ Thinning /\ (held' = held \/ Take(o, s, side, qty, type))
    BY <2>1, EnterBook
  <2>3. QED
    BY <2>2 DEF Moving
<1>2. ASSUME NEW o \in Orders, CancelWorking(o) PROVE Thinning /\ held' = held
  BY <1>2 DEF CancelWorking, Thinning
<1>3. ASSUME NEW o \in Orders, ReplaceBegin(o) PROVE Thinning /\ held' = held
  BY <1>3 DEF ReplaceBegin, Thinning
<1>4. ASSUME NEW r \in replacing, ReplaceAborts(r) PROVE Thinning /\ held' = held
  BY <1>4 DEF ReplaceAborts, Thinning
<1>5. ASSUME NEW r \in replacing, NEW o \in Orders, ReplaceFinish(r, o)
      PROVE  \/ \E s \in Symbols, side \in Sides, qty \in 1..MaxQty : Resting(s, side, qty)
             \/ Thinning /\ (held' = held \/ Moving)
  <2>1. r.symbol \in Symbols /\ r.side \in Sides /\ r.quantity \in 1..MaxQty
        /\ r.tif \in {"GTC", "DAY", "IOC"}
    BY DEF TypeOK, Replacement
  <2>2. \/ Resting(r.symbol, r.side, r.quantity)
        \/ Thinning /\ (held' = held \/ Take(o, r.symbol, r.side, r.quantity, "LIMIT"))
    BY <1>5, <2>1, EnterBook DEF ReplaceFinish
  <2>3. QED
    BY <2>1, <2>2 DEF Moving
<1>6. CASE TriggerKill
  BY <1>6 DEF TriggerKill, EngageKill, Thinning
<1>7. CASE ReleaseKill
  BY <1>7 DEF ReleaseKill, Thinning
<1>8. CASE ResetBook
  BY <1>8 DEF ResetBook, Thinning, Moving
<1>9. ASSUME NEW s \in Symbols, HaltSymbol(s) PROVE Thinning /\ held' = held
  BY <1>9 DEF HaltSymbol, Thinning
<1>10. ASSUME NEW s \in Symbols, ResumeSymbol(s) PROVE Thinning /\ held' = held
  BY <1>10 DEF ResumeSymbol, Thinning
<1>11. ASSUME NEW enabled \in BOOLEAN, SetReduceOnly(enabled) PROVE Thinning /\ held' = held
  BY <1>11 DEF SetReduceOnly, Thinning
<1>12. CASE Sweep
  <2>1. working' \subseteq OpenBook /\ session' = today /\ UNCHANGED <<killActive, halted>>
    BY <1>12 DEF Sweep
  <2>2. Thinning
    BY <2>1, OpenType DEF Thinning, OpenBook, RollDue
  <2>3. QED
    BY <1>12, <2>2 DEF Moving
<1>13. CASE SettleSweep
  BY <1>13 DEF SettleSweep, EngageKill, Thinning
<1>14. CASE MonitorTick
  BY <1>14 DEF MonitorTick, Roll, Breaker, EngageKill, OpenBook, Thinning
<1>15. ASSUME NEW o \in Orders, Settle(o) PROVE Thinning /\ held' = held
  BY <1>15 DEF Settle, EngageKill, Thinning
<1>16. ASSUME NEW s \in Symbols, NEW price \in Marks, MarketMoves(s, price)
       PROVE Thinning /\ held' = held
  BY <1>16 DEF MarketMoves, Thinning
<1>17. CASE Midnight
  BY <1>17 DEF Midnight, Thinning
<1>18. CASE AuditChanges
  BY <1>18 DEF AuditChanges, Thinning
<1>19. CASE UNCHANGED vars
  BY <1>19 DEF vars, Thinning
<1>20. QED
  BY <1>1, <1>2, <1>3, <1>4, <1>5, <1>6, <1>7, <1>8, <1>9, <1>10, <1>11, <1>12, <1>13,
     <1>14, <1>15, <1>16, <1>17, <1>18, <1>19 DEF Next, Client, Operator, Gateway, World

-----------------------------------------------------------------------------
(* Halts, sessions and the ceiling of the book *)

\* An order rests only where nothing is halted, and every trip of a halt clears what
\* rests under it.
LEMMA HaltedStep ==
  ASSUME TypeOK, HaltedDeskRestsNothing, [Next]_vars
  PROVE  HaltedDeskRestsNothing'
<1>1. CASE Thinning
  BY <1>1 DEF Thinning, HaltedDeskRestsNothing
<1>2. ASSUME NEW s \in Symbols, NEW side \in Sides, NEW qty \in 1..MaxQty, Resting(s, side, qty)
      PROVE  HaltedDeskRestsNothing'
  <2>1. ~killActive' /\ s \notin halted' /\ halted' = halted
    BY <1>2 DEF Resting, Rest, Gates
  <2>2. \A wo \in working' : wo \in working \/ wo.symbol = s
    BY <1>2, OpenType DEF Resting, Rest
  <2>3. QED
    BY <2>1, <2>2 DEF HaltedDeskRestsNothing
<1>3. QED
  BY <1>1, <1>2, BookStep

\* An order that rests carries the session the handler has just made current, and
\* whatever changes the session leaves an empty book.
LEMMA SessionStep ==
  ASSUME TypeOK, NothingOutlivesItsSession, [Next]_vars
  PROVE  NothingOutlivesItsSession'
<1>1. CASE Thinning
  BY <1>1 DEF Thinning, NothingOutlivesItsSession
<1>2. ASSUME NEW s \in Symbols, NEW side \in Sides, NEW qty \in 1..MaxQty, Resting(s, side, qty)
      PROVE  NothingOutlivesItsSession'
  <2>1. session' = today /\ \A wo \in working' : wo \in OpenBook \/ wo.session = today
    BY <1>2 DEF Resting, Rest
  <2>2. \A wo \in OpenBook : wo.session = today
    BY DEF OpenBook, RollDue, NothingOutlivesItsSession
  <2>3. QED
    BY <2>1, <2>2 DEF NothingOutlivesItsSession
<1>3. QED
  BY <1>1, <1>2, BookStep

\* The ceiling is checked in the same locked section that adds the order.
LEMMA CeilingStep ==
  ASSUME TypeOK, WorkingBookBounded, [Next]_vars
  PROVE  WorkingBookBounded'
<1>1. CASE Thinning
  <2>1. IsFiniteSet(working) /\ working' \in SUBSET working
    BY <1>1 DEF TypeOK, Thinning
  <2>2. Cardinality(working') <= Cardinality(working) /\ IsFiniteSet(working')
    BY <2>1, FS_Subset
  <2>3. Cardinality(working') \in Nat /\ Cardinality(working) \in Nat
    BY <2>1, <2>2, FS_CardinalityType
  <2>4. QED
    BY <2>2, <2>3, BoundsAssumption DEF WorkingBookBounded
<1>2. ASSUME NEW s \in Symbols, NEW side \in Sides, NEW qty \in 1..MaxQty, Resting(s, side, qty)
      PROVE  WorkingBookBounded'
  <2>1. Cardinality(OpenBook) < MaxWorkingOrders
    BY <1>2 DEF Resting, Rest, Gates
  <2>2. PICK wo : working' = OpenBook \cup {wo}
    BY <1>2 DEF Resting, Rest
  <2>3. IsFiniteSet(OpenBook) /\ Cardinality(OpenBook) \in Nat
    BY OpenType, FS_CardinalityType
  <2>4. \/ Cardinality(working') = Cardinality(OpenBook)
        \/ Cardinality(working') = Cardinality(OpenBook) + 1
    BY <2>2, <2>3, FS_AddElement
  <2>5. QED
    BY <2>1, <2>3, <2>4, BoundsAssumption DEF WorkingBookBounded
<1>3. QED
  BY <1>1, <1>2, BookStep

\* A halt leaves nothing resting under it, in every reachable state.
THEOREM HaltIsComplete == Spec => []HaltedDeskRestsNothing
<1>1. Init => TypeOK /\ HaltedDeskRestsNothing
  BY TypeInit DEF Init, HaltedDeskRestsNothing
<1>2. (TypeOK /\ HaltedDeskRestsNothing) /\ [Next]_vars => (TypeOK /\ HaltedDeskRestsNothing)'
  BY TypeStep, HaltedStep
<1>3. QED
  BY <1>1, <1>2, PTL DEF Spec

\* No resting order belongs to a session that has ended.
THEOREM SessionsAreClean == Spec => []NothingOutlivesItsSession
<1>1. Init => TypeOK /\ NothingOutlivesItsSession
  BY TypeInit DEF Init, NothingOutlivesItsSession
<1>2. (TypeOK /\ NothingOutlivesItsSession) /\ [Next]_vars
        => (TypeOK /\ NothingOutlivesItsSession)'
  BY TypeStep, SessionStep
<1>3. QED
  BY <1>1, <1>2, PTL DEF Spec

\* The resting book never outgrows settings.max_working_orders.
THEOREM CeilingHolds == Spec => []WorkingBookBounded
<1>1. Init => TypeOK /\ WorkingBookBounded
  BY TypeInit, FS_EmptySet, BoundsAssumption DEF Init, WorkingBookBounded
<1>2. (TypeOK /\ WorkingBookBounded) /\ [Next]_vars => (TypeOK /\ WorkingBookBounded)'
  BY TypeStep, CeilingStep
<1>3. QED
  BY <1>1, <1>2, PTL DEF Spec

-----------------------------------------------------------------------------
(* Concentration *)

\* The longest and the shortest position the book can still produce lie within a limit.
Within(h, b, f, limit) == h + b <= limit /\ -limit <= h - f

\* The worst case is within a limit exactly when both ends of the range are.
LEMMA WorstIsTheEnds ==
  ASSUME NEW h \in Int, NEW b \in Nat, NEW f \in Nat, NEW limit \in Int
  PROVE  Larger(Abs(h + b), Abs(h - f)) <= limit <=> Within(h, b, f, limit)
<1>1. Abs(h + b) \in Int /\ Abs(h - f) \in Int
  BY DEF Abs
<1>2. Larger(Abs(h + b), Abs(h - f)) <= limit <=> Abs(h + b) <= limit /\ Abs(h - f) <= limit
  BY <1>1 DEF Larger
<1>3. Abs(h + b) <= limit <=> h + b <= limit /\ -limit <= h + b
  BY DEF Abs
<1>4. Abs(h - f) <= limit <=> h - f <= limit /\ -limit <= h - f
  BY DEF Abs
<1>5. QED
  BY <1>2, <1>3, <1>4 DEF Within

\* A part of a finite book rests no more than the book does, on either side.
LEMMA PartQty ==
  ASSUME NEW book, IsFiniteSet(book), NEW part \in SUBSET book, NEW s, NEW side
  PROVE  /\ WorkingQty(part, s, side) \in Nat /\ WorkingQty(book, s, side) \in Nat
         /\ WorkingQty(part, s, side) <= WorkingQty(book, s, side)
<1>1. /\ WorkingQty(book \ part, s, side) = WorkingQty(book, s, side) - WorkingQty(part, s, side)
      /\ WorkingQty(part, s, side) \in Nat
      /\ WorkingQty(book, s, side) \in Nat
      /\ WorkingQty(book \ part, s, side) \in Nat
  BY QtyWithout
<1>2. QED
  BY <1>1

\* The worst case of the whole desk, read at its two ends.
LEMMA ConcentrationAtEnds ==
  ASSUME TypeOK, NEW s \in Symbols
  PROVE  WorstCase(s) <= LotCap + MaxFillDrift <=>
           Within(held[s], WorkingQty(working, s, "BUY"), WorkingQty(working, s, "SELL"),
                  LotCap + MaxFillDrift)
<1>1. /\ held[s] \in Int /\ LotCap + MaxFillDrift \in Int
      /\ WorkingQty(working, s, "BUY") \in Nat /\ WorkingQty(working, s, "SELL") \in Nat
  BY LotsFinite, LotCapNat, BoundsAssumption DEF TypeOK
<1>2. held[s] + 0 + WorkingQty(working, s, "BUY") = held[s] + WorkingQty(working, s, "BUY")
      /\ held[s] + 0 - WorkingQty(working, s, "SELL") = held[s] - WorkingQty(working, s, "SELL")
  BY <1>1
<1>3. WorstCase(s) = Larger(Abs(held[s] + WorkingQty(working, s, "BUY")),
                            Abs(held[s] - WorkingQty(working, s, "SELL")))
  BY <1>2 DEF WorstCase, Projected
<1>4. QED
  BY <1>1, <1>3, WorstIsTheEnds

\* The same in the next state.
LEMMA ConcentrationAtEndsNext ==
  ASSUME TypeOK', NEW s \in Symbols
  PROVE  (WorstCase(s) <= LotCap + MaxFillDrift)' <=>
           Within(held'[s], WorkingQty(working', s, "BUY"), WorkingQty(working', s, "SELL"),
                  LotCap + MaxFillDrift)
<1>1. /\ held'[s] \in Int /\ LotCap + MaxFillDrift \in Int
      /\ WorkingQty(working', s, "BUY") \in Nat /\ WorkingQty(working', s, "SELL") \in Nat
  BY LotsFinite, LotCapNat, BoundsAssumption DEF TypeOK
<1>2. held'[s] + 0 + WorkingQty(working', s, "BUY") = held'[s] + WorkingQty(working', s, "BUY")
      /\ held'[s] + 0 - WorkingQty(working', s, "SELL") = held'[s] - WorkingQty(working', s, "SELL")
  BY <1>1
<1>3. WorstCase(s)' = Larger(Abs(held'[s] + WorkingQty(working', s, "BUY")),
                             Abs(held'[s] - WorkingQty(working', s, "SELL")))
  BY <1>2 DEF WorstCase, Projected
<1>4. LotCap' = LotCap
  BY DEF LotCap
<1>5. QED
  BY <1>1, <1>3, <1>4, WorstIsTheEnds

\* What the concentration gate admits, in lots.
LEMMA GateInLots ==
  ASSUME TypeOK, NEW s \in Symbols, NEW side \in Sides, NEW qty \in 1..MaxQty, NEW type,
         Gates(s, side, qty, type)
  PROVE  Within(held[s] + Signed(side, qty), WorkingQty(OpenBook, s, "BUY"),
                WorkingQty(OpenBook, s, "SELL"), LotCap)
<1> DEFINE h == held[s] + Signed(side, qty)
           b == WorkingQty(OpenBook, s, "BUY")
           f == WorkingQty(OpenBook, s, "SELL")
           worst == Larger(Abs(h + b), Abs(h - f))
<1>1. h \in Int
  BY BoundsAssumption DEF TypeOK, Signed
<1>2. b \in Nat /\ f \in Nat
  BY OpenType, LotsFinite
<1>3. mark[s] \in Marks
  BY DEF TypeOK
<1>4. worst * mark[s] <= MaxSymbolNotional
  <2>1. Projected(OpenBook, s, Signed(side, qty)) * mark[s] <= MaxSymbolNotional
    BY DEF Gates
  <2>2. Projected(OpenBook, s, Signed(side, qty)) = worst
    <3>1. held[s] \in Int /\ Signed(side, qty) \in Int
      BY BoundsAssumption DEF TypeOK, Signed
    <3>2. (held[s] + Signed(side, qty) - WorkingQty(OpenBook, s, "SELL")) = h - f
      BY <1>2, <3>1
    <3>3. QED
      BY <3>2 DEF Projected
  <2>3. QED
    BY <2>1, <2>2
<1>5. worst \in Nat
  <2>1. Abs(h + b) \in Nat /\ Abs(h - f) \in Nat
    <3> HIDE DEF h, b, f
    <3>1. QED
      BY <1>1, <1>2 DEF Abs
  <2>2. QED
    BY <2>1 DEF Larger
<1>6. worst <= LotCap
  <2> HIDE DEF worst
  <2>1. QED
    BY <1>3, <1>4, <1>5, CapInLots
<1>7. Within(h, b, f, LotCap)
  <2> HIDE DEF h, b, f
  <2>1. LotCap \in Int
    BY LotCapNat
  <2>2. QED
    BY <1>1, <1>2, <1>6, <2>1, WorstIsTheEnds DEF worst
<1>8. QED
  BY <1>7

\* Fewer lots on the book, with the position where it was, is never worse.
LEMMA ThinnerIsWithin ==
  ASSUME NEW h \in Int, NEW b \in Nat, NEW f \in Nat, NEW limit \in Int,
         Within(h, b, f, limit), NEW c \in Nat, NEW g \in Nat, c <= b, g <= f
  PROVE  Within(h, c, g, limit)
  BY DEF Within

\* An order that rests was admitted against the side it joins; the other side was
\* within the limit already.
LEMMA ConcentrationRests ==
  ASSUME TypeOK, TypeOK', ConcentrationHolds,
         NEW s \in Symbols, NEW side \in Sides, NEW qty \in 1..MaxQty, Resting(s, side, qty)
  PROVE  ConcentrationHolds'
<1> SUFFICES ASSUME NEW t \in Symbols
             PROVE  Within(held'[t], WorkingQty(working', t, "BUY"),
                           WorkingQty(working', t, "SELL"), LotCap + MaxFillDrift)
  BY ConcentrationAtEndsNext DEF ConcentrationHolds
<1> DEFINE h == held[t]
           b == WorkingQty(OpenBook, t, "BUY")
           f == WorkingQty(OpenBook, t, "SELL")
           limit == LotCap + MaxFillDrift
<1>0. h \in Int /\ limit \in Int /\ LotCap \in Nat /\ MaxFillDrift \in Nat /\ limit = LotCap + MaxFillDrift
  BY LotCapNat, BoundsAssumption DEF TypeOK
<1>1. /\ b \in Nat /\ b <= WorkingQty(working, t, "BUY") /\ WorkingQty(working, t, "BUY") \in Nat
      /\ f \in Nat /\ f <= WorkingQty(working, t, "SELL") /\ WorkingQty(working, t, "SELL") \in Nat
  BY OpenType, PartQty DEF TypeOK
<1>2. Within(h, WorkingQty(working, t, "BUY"), WorkingQty(working, t, "SELL"), limit)
  BY ConcentrationAtEnds DEF ConcentrationHolds
<1>3. Within(h, b, f, limit)
  <2> HIDE DEF h, b, f, limit
  <2>1. QED
    BY <1>0, <1>1, <1>2, ThinnerIsWithin
<1>4. held' = held
  BY DEF Resting, Rest
<1>5. PICK o \in Orders, tif \in {"GTC", "DAY"} : outcome[o] = "NEW" /\ Rest(o, s, side, qty, tif)
  BY DEF Resting
<1> DEFINE wo == [id |-> o, symbol |-> s, side |-> side, quantity |-> qty, tif |-> tif,
                  session |-> today]
<1>6. wo \in WorkingOrder /\ working' = OpenBook \cup {wo}
  BY <1>5 DEF Rest, WorkingOrder, TypeOK
<1>7. CASE wo \in OpenBook
  <2>1. working' = OpenBook
    BY <1>6, <1>7
  <2>2. QED
    BY <1>3, <1>4, <2>1
<1>8. CASE wo \notin OpenBook
  <2>1. ASSUME NEW d
        PROVE  WorkingQty(working', t, d) =
                 WorkingQty(OpenBook, t, d) + (IF wo.symbol = t /\ wo.side = d THEN wo.quantity ELSE 0)
    <3> HIDE DEF wo
    <3>1. QED
      BY <1>6, <1>8, OpenType, QtyWith
  <2>2. wo.symbol = s /\ wo.side = side /\ wo.quantity = qty
    OBVIOUS
  <2>3. CASE t # s
    <3>1. WorkingQty(working', t, "BUY") = b + 0 /\ WorkingQty(working', t, "SELL") = f + 0
      BY <2>1, <2>2, <2>3
    <3>2. WorkingQty(working', t, "BUY") = b /\ WorkingQty(working', t, "SELL") = f
      <4> HIDE DEF b, f
      <4>1. QED
        BY <1>1, <3>1
    <3>3. QED
      BY <1>3, <1>4, <3>2
  <2>4. CASE t = s /\ side = "BUY"
    <3>1. WorkingQty(working', t, "BUY") = b + qty /\ WorkingQty(working', t, "SELL") = f + 0
      BY <2>1, <2>2, <2>4
    <3>2. Gates(s, side, qty, "LIMIT")
      BY <1>5 DEF Rest
    <3>3. Within(h + Signed(side, qty), b, f, LotCap)
      BY <2>4, <3>2, GateInLots
    <3>4. Within(h + qty, b, f, LotCap)
      BY <2>4, <3>3 DEF Signed
    <3>5. Within(h, b + qty, f + 0, limit)
      <4> HIDE DEF h, b, f, limit
      <4>1. QED
        BY <1>0, <1>1, <1>3, <3>4, BoundsAssumption DEF Within
    <3>6. QED
      BY <1>4, <3>1, <3>5
  <2>5. CASE t = s /\ side = "SELL"
    <3>1. WorkingQty(working', t, "BUY") = b + 0 /\ WorkingQty(working', t, "SELL") = f + qty
      BY <2>1, <2>2, <2>5
    <3>2. Gates(s, side, qty, "LIMIT")
      BY <1>5 DEF Rest
    <3>3. Within(h + Signed(side, qty), b, f, LotCap)
      BY <2>5, <3>2, GateInLots
    <3>4. Within(h + (-qty), b, f, LotCap)
      BY <2>5, <3>3 DEF Signed
    <3>5. Within(h, b + 0, f + qty, limit)
      <4> HIDE DEF h, b, f, limit
      <4>1. QED
        BY <1>0, <1>1, <1>3, <3>4, BoundsAssumption DEF Within
    <3>6. QED
      BY <1>4, <3>1, <3>5
  <2>6. QED
    BY <2>3, <2>4, <2>5 DEF Sides
<1>9. QED
  BY <1>7, <1>8

\* A taker fill was admitted with the whole resting book still to come, so it ends
\* within the cap up to its own drift; every other symbol's book only thins.
LEMMA ConcentrationTakes ==
  ASSUME TypeOK, TypeOK', ConcentrationHolds,
         NEW o \in Orders, NEW s \in Symbols, NEW side \in Sides, NEW qty \in 1..MaxQty,
         NEW type, Take(o, s, side, qty, type)
  PROVE  ConcentrationHolds'
<1> SUFFICES ASSUME NEW t \in Symbols
             PROVE  Within(held'[t], WorkingQty(working', t, "BUY"),
                           WorkingQty(working', t, "SELL"), LotCap + MaxFillDrift)
  BY ConcentrationAtEndsNext DEF ConcentrationHolds
<1> DEFINE h == held[t]
           b == WorkingQty(OpenBook, t, "BUY")
           f == WorkingQty(OpenBook, t, "SELL")
           limit == LotCap + MaxFillDrift
<1>1. h \in Int /\ limit \in Int /\ LotCap \in Nat /\ MaxFillDrift \in Nat /\ limit = LotCap + MaxFillDrift
  BY LotCapNat, BoundsAssumption DEF TypeOK
<1>2. /\ b \in Nat /\ b <= WorkingQty(working, t, "BUY") /\ WorkingQty(working, t, "BUY") \in Nat
      /\ f \in Nat /\ f <= WorkingQty(working, t, "SELL") /\ WorkingQty(working, t, "SELL") \in Nat
  BY OpenType, PartQty DEF TypeOK
<1>3. working' = OpenBook
  BY DEF Take
<1>4. PICK filled \in (qty - MaxFillDrift)..(qty + MaxFillDrift) :
        held' = [held EXCEPT ![s] = @ + Signed(side, filled)]
  BY DEF Take
<1>5. CASE t # s
  <2>1. held'[t] = h
    BY <1>4, <1>5 DEF TypeOK
  <2>2. Within(h, WorkingQty(working, t, "BUY"), WorkingQty(working, t, "SELL"), limit)
    BY ConcentrationAtEnds DEF ConcentrationHolds
  <2>3. Within(h, b, f, limit)
    <3> HIDE DEF h, b, f, limit
    <3>1. QED
      BY <1>1, <1>2, <2>2, ThinnerIsWithin
  <2>4. QED
    BY <1>3, <2>1, <2>3
<1>6. CASE t = s
  <2>1. Within(h + Signed(side, qty), b, f, LotCap)
    BY <1>6, GateInLots DEF Take
  <2>2. held'[t] = h + Signed(side, filled)
    BY <1>4, <1>6 DEF TypeOK
  <2>3. /\ Signed(side, filled) \in Int /\ Signed(side, qty) \in Int
        /\ Signed(side, filled) - Signed(side, qty) <= MaxFillDrift
        /\ Signed(side, qty) - Signed(side, filled) <= MaxFillDrift
    <3>1. filled \in Int /\ qty \in Int /\ filled - qty <= MaxFillDrift /\ qty - filled <= MaxFillDrift
      BY BoundsAssumption
    <3>2. QED
      BY <3>1 DEF Signed
  <2>4. Within(h + Signed(side, filled), b, f, limit)
    <3> DEFINE x == Signed(side, filled)
               y == Signed(side, qty)
    <3> HIDE DEF h, b, f, limit, x, y
    <3>1. Within(h + y, b, f, LotCap) /\ x \in Int /\ y \in Int /\ x - y <= MaxFillDrift /\ y - x <= MaxFillDrift
      BY <2>1, <2>3 DEF x, y
    <3>2. Within(h + x, b, f, limit)
      BY <1>1, <1>2, <3>1 DEF Within
    <3>3. QED
      BY <3>2 DEF x
  <2>5. QED
    BY <1>3, <2>2, <2>4
<1>7. QED
  BY <1>5, <1>6

\* A sweep moves lots from the book to the position: what fills was already counted.
LEMMA ConcentrationSweeps ==
  ASSUME TypeOK, TypeOK', ConcentrationHolds, Sweep
  PROVE  ConcentrationHolds'
<1>1. PICK crossed \in SUBSET OpenBook, pulled \in SUBSET OpenBook :
        /\ held' = [s \in Symbols |->
                      held[s] + WorkingQty(crossed, s, "BUY") - WorkingQty(crossed, s, "SELL")]
        /\ working' = OpenBook \ (pulled \cup crossed)
  BY DEF Sweep
<1> SUFFICES ASSUME NEW t \in Symbols
             PROVE  Within(held'[t], WorkingQty(working', t, "BUY"),
                           WorkingQty(working', t, "SELL"), LotCap + MaxFillDrift)
  BY ConcentrationAtEndsNext DEF ConcentrationHolds
<1> DEFINE limit == LotCap + MaxFillDrift
           Moves(side) ==
             /\ WorkingQty(crossed, t, side) \in Nat
             /\ WorkingQty(working', t, side) \in Nat
             /\ WorkingQty(working, t, side) \in Nat
             /\ WorkingQty(working', t, side) + WorkingQty(crossed, t, side)
                  <= WorkingQty(working, t, side)
<1>2. \A side : Moves(side)
  <2> SUFFICES ASSUME NEW side PROVE Moves(side)
    OBVIOUS
  <2>1. IsFiniteSet(OpenBook) /\ IsFiniteSet(OpenBook \ crossed)
    BY OpenType, FS_Difference
  <2>2. /\ WorkingQty(OpenBook \ crossed, t, side)
             = WorkingQty(OpenBook, t, side) - WorkingQty(crossed, t, side)
        /\ WorkingQty(crossed, t, side) \in Nat
        /\ WorkingQty(OpenBook, t, side) \in Nat
        /\ WorkingQty(OpenBook \ crossed, t, side) \in Nat
    BY <2>1, QtyWithout
  <2>3. working' \in SUBSET (OpenBook \ crossed)
    BY <1>1
  <2>4. /\ WorkingQty(working', t, side) <= WorkingQty(OpenBook \ crossed, t, side)
        /\ WorkingQty(working', t, side) \in Nat
    BY <2>1, <2>3, PartQty
  <2>5. /\ WorkingQty(OpenBook, t, side) <= WorkingQty(working, t, side)
        /\ WorkingQty(working, t, side) \in Nat
    BY OpenType, PartQty DEF TypeOK
  <2>6. QED
    BY <2>2, <2>4, <2>5
<1>3. held'[t] = held[t] + WorkingQty(crossed, t, "BUY") - WorkingQty(crossed, t, "SELL")
  BY <1>1
<1>4. Within(held[t], WorkingQty(working, t, "BUY"), WorkingQty(working, t, "SELL"), limit)
  BY ConcentrationAtEnds DEF ConcentrationHolds
<1>5. held[t] \in Int /\ limit \in Int
  BY LotCapNat, BoundsAssumption DEF TypeOK
<1>6. Moves("BUY") /\ Moves("SELL")
  BY <1>2
<1>7. Within(held[t] + WorkingQty(crossed, t, "BUY") - WorkingQty(crossed, t, "SELL"),
             WorkingQty(working', t, "BUY"), WorkingQty(working', t, "SELL"), limit)
  <2> HIDE DEF limit
  <2>1. QED
    BY <1>4, <1>5, <1>6 DEF Within
<1>8. QED
  BY <1>3, <1>7

\* The reset leaves nothing held and nothing resting.
LEMMA ConcentrationResets ==
  ASSUME TypeOK, TypeOK', ResetBook
  PROVE  ConcentrationHolds'
<1> SUFFICES ASSUME NEW t \in Symbols
             PROVE  Within(held'[t], WorkingQty(working', t, "BUY"),
                           WorkingQty(working', t, "SELL"), LotCap + MaxFillDrift)
  BY ConcentrationAtEndsNext DEF ConcentrationHolds
<1>1. held'[t] = 0 /\ working' = {}
  BY DEF ResetBook
<1>2. WorkingQty(working', t, "BUY") = 0 /\ WorkingQty(working', t, "SELL") = 0
  BY <1>1, EmptyBookQty
<1>3. LotCap + MaxFillDrift \in Nat
  BY LotCapNat, BoundsAssumption
<1>4. QED
  BY <1>1, <1>2, <1>3 DEF Within

\* Cancels, pulls, rolls and trips only take lots away.
LEMMA ConcentrationThins ==
  ASSUME TypeOK, TypeOK', ConcentrationHolds, Thinning, held' = held
  PROVE  ConcentrationHolds'
<1> SUFFICES ASSUME NEW t \in Symbols
             PROVE  Within(held'[t], WorkingQty(working', t, "BUY"),
                           WorkingQty(working', t, "SELL"), LotCap + MaxFillDrift)
  BY ConcentrationAtEndsNext DEF ConcentrationHolds
<1>1. \A side : /\ WorkingQty(working', t, side) \in Nat /\ WorkingQty(working, t, side) \in Nat
                /\ WorkingQty(working', t, side) <= WorkingQty(working, t, side)
  BY PartQty DEF TypeOK, Thinning
<1>2. Within(held[t], WorkingQty(working, t, "BUY"), WorkingQty(working, t, "SELL"),
             LotCap + MaxFillDrift)
  BY ConcentrationAtEnds DEF ConcentrationHolds
<1>3. held[t] \in Int /\ LotCap + MaxFillDrift \in Int
  BY LotCapNat, BoundsAssumption DEF TypeOK
<1>4. QED
  BY <1>1, <1>2, <1>3, ThinnerIsWithin

\* Every step keeps the worst case of every symbol within the cap and one drift.
LEMMA ConcentrationStep ==
  ASSUME TypeOK, ConcentrationHolds, [Next]_vars
  PROVE  ConcentrationHolds'
<1>1. TypeOK'
  BY TypeStep
<1>2. CASE \E s \in Symbols, side \in Sides, qty \in 1..MaxQty : Resting(s, side, qty)
  BY <1>1, <1>2, ConcentrationRests
<1>3. CASE Thinning /\ held' = held
  BY <1>1, <1>3, ConcentrationThins
<1>4. CASE Moving
  BY <1>1, <1>4, ConcentrationTakes, ConcentrationSweeps, ConcentrationResets DEF Moving
<1>5. QED
  BY <1>2, <1>3, <1>4, BookStep

\* No order of fills, and no subset of the resting book, takes a symbol's position
\* past its concentration cap by more than one taker fill's drift.
THEOREM ConcentrationIsInvariant == Spec => []ConcentrationHolds
<1>1. Init => TypeOK /\ ConcentrationHolds
  <2> SUFFICES ASSUME Init PROVE TypeOK /\ ConcentrationHolds
    OBVIOUS
  <2>1. TypeOK
    BY TypeInit
  <2>2. ASSUME NEW s \in Symbols
        PROVE  Within(held[s], WorkingQty(working, s, "BUY"), WorkingQty(working, s, "SELL"),
                      LotCap + MaxFillDrift)
    <3>1. held[s] = 0 /\ WorkingQty(working, s, "BUY") = 0 /\ WorkingQty(working, s, "SELL") = 0
      BY EmptyBookQty DEF Init
    <3>2. LotCap + MaxFillDrift \in Nat
      BY LotCapNat, BoundsAssumption
    <3>3. QED
      BY <3>1, <3>2 DEF Within
  <2>3. QED
    BY <2>1, <2>2, ConcentrationAtEnds DEF ConcentrationHolds
<1>2. (TypeOK /\ ConcentrationHolds) /\ [Next]_vars => (TypeOK /\ ConcentrationHolds)'
  BY TypeStep, ConcentrationStep
<1>3. QED
  BY <1>1, <1>2, PTL DEF Spec

-----------------------------------------------------------------------------
(***************************************************************************)
(* The life of an order: the book and the reported outcomes agree, an       *)
(* outcome is final, a replace never doubles, a halted position stands, and *)
(* the gateway implements the desk.  Every handler takes orders off the     *)
(* book the same way, which Retires names; an entering order adds at most   *)
(* itself.                                                                 *)
(***************************************************************************)

-----------------------------------------------------------------------------
(* Taking orders off a book *)

\* BookMatchesOutcomes of any book and any outcomes.
Matches(book, result) ==
  /\ \A o \in Orders : result[o] = "WORKING" <=> o \in Ids(book)
  /\ \A a, b \in book : a.id = b.id => a = b

\* What is left of a book, and the outcomes after: an order that left has an outcome
\* no order on the book has, the others are as they were.
Retires(book, result, left, after) ==
  /\ left \subseteq book
  /\ \A o \in Orders :
       IF o \in Ids(book \ left) THEN after[o] \in {"FILLED", "EXPIRED", "CANCELLED"}
                                 ELSE after[o] = result[o]

\* An outcome that is reported stays.
Final(result, after) ==
  \A o \in Orders : result[o] \in Terminal => after[o] = result[o]

\* Retiring orders keeps the book and the outcomes in agreement, and touches no
\* outcome already reported.
LEMMA RetiresKeeps ==
  ASSUME NEW book, NEW result, NEW left, NEW after,
         Matches(book, result), Retires(book, result, left, after)
  PROVE  Matches(left, after) /\ Final(result, after)
<1>1. ASSUME NEW o \in Orders PROVE after[o] = "WORKING" <=> o \in Ids(left)
  <2>1. CASE o \in Ids(book \ left)
    <3>1. o \notin Ids(left)
      BY <2>1 DEF Ids, Matches, Retires
    <3>2. QED
      BY <2>1, <3>1 DEF Retires
  <2>2. CASE o \notin Ids(book \ left)
    <3>1. o \in Ids(book) <=> o \in Ids(left)
      BY <2>2 DEF Ids, Retires
    <3>2. QED
      BY <2>2, <3>1 DEF Retires, Matches
  <2>3. QED
    BY <2>1, <2>2
<1>2. ASSUME NEW o \in Orders, result[o] \in Terminal PROVE after[o] = result[o]
  <2>1. o \notin Ids(book)
    BY <1>2 DEF Matches, Terminal
  <2>2. o \notin Ids(book \ left)
    BY <2>1 DEF Ids
  <2>3. QED
    BY <2>2 DEF Retires
<1>3. \A a, b \in left : a.id = b.id => a = b
  BY DEF Matches, Retires
<1>4. QED
  BY <1>1, <1>2, <1>3 DEF Matches, Final

\* One call of _retire_working_where.
LEMMA RetiredRetires ==
  ASSUME NEW book, NEW result, NEW part \in SUBSET book,
         NEW status \in {"FILLED", "EXPIRED", "CANCELLED"}
  PROVE  Retires(book, result, book \ part, Retired(result, part, status))
<1>1. book \ (book \ part) = part
  OBVIOUS
<1>2. QED
  BY <1>1 DEF Retires, Retired

\* A book that keeps everything retires nothing.
LEMMA NothingRetires ==
  ASSUME NEW book, NEW result
  PROVE  Retires(book, result, book, result)
  BY DEF Retires, Ids

\* The session roll, due or not.
LEMMA OpenRetires == Retires(working, outcome, OpenBook, OpenOutcome)
<1>1. CASE RollDue
  <2>1. OpenBook = {} /\ working \ {} = working
    BY <1>1 DEF OpenBook
  <2>2. ASSUME NEW o \in Orders
        PROVE  IF o \in Ids(working) THEN OpenOutcome[o] \in {"FILLED", "EXPIRED", "CANCELLED"}
                                     ELSE OpenOutcome[o] = outcome[o]
    <3>1. o \in Ids(DayOrders(working)) => o \in Ids(working)
      BY DEF Ids, DayOrders
    <3>2. QED
      BY <1>1, <3>1 DEF OpenOutcome, Retired
  <2>3. QED
    BY <2>1, <2>2 DEF Retires
<1>2. CASE ~RollDue
  BY <1>2, NothingRetires DEF OpenBook, OpenOutcome
<1>3. QED
  BY <1>1, <1>2

\* The kill switch takes everything.
LEMMA EngageKillRetires ==
  ASSUME EngageKill
  PROVE  Retires(working, outcome, working', outcome')
<1>1. working' = working \ working /\ outcome' = Retired(outcome, working, "CANCELLED")
  BY DEF EngageKill
<1>2. QED
  BY <1>1, RetiredRetires

\* One order by its id.
LEMMA OneRetires ==
  ASSUME TypeOK, BookMatchesOutcomes, NEW wo \in working
  PROVE  /\ working \ {wo} = {w \in working : w.id # wo.id}
         /\ Retires(working, outcome, working \ {wo}, [outcome EXCEPT ![wo.id] = "CANCELLED"])
<1>1. working \ {wo} = {w \in working : w.id # wo.id}
  BY DEF BookMatchesOutcomes
<1>2. [outcome EXCEPT ![wo.id] = "CANCELLED"] = Retired(outcome, {wo}, "CANCELLED")
  BY DEF Retired, Ids, TypeOK
<1>3. QED
  BY <1>1, <1>2, RetiredRetires

-----------------------------------------------------------------------------
(* Every step *)

\* What a step owes to the orders.
Kept == BookMatchesOutcomes' /\ Final(outcome, outcome')

\* A step that only retires orders keeps them.
LEMMA RetiringKeeps ==
  ASSUME BookMatchesOutcomes, Retires(working, outcome, working', outcome')
  PROVE  Kept
<1>1. Matches(working, outcome)
  BY DEF BookMatchesOutcomes, Matches
<1>2. Matches(working', outcome') /\ Final(outcome, outcome')
  BY <1>1, RetiresKeeps
<1>3. QED
  BY <1>2 DEF Kept, BookMatchesOutcomes, Matches

\* An entering order is new: it gets an outcome, and rests or does not.
LEMMA EnterKeeps ==
  ASSUME TypeOK, BookMatchesOutcomes, NEW o \in Orders, NEW s \in Symbols, NEW side \in Sides,
         NEW qty \in 1..MaxQty, NEW type \in {"MARKET", "LIMIT"},
         NEW tif \in {"GTC", "DAY", "IOC"}, Enter(o, s, side, qty, type, tif)
  PROVE  Kept
<1>1. Matches(working, outcome)
  BY DEF BookMatchesOutcomes, Matches
<1>2. Matches(OpenBook, OpenOutcome) /\ Final(outcome, OpenOutcome)
  BY <1>1, OpenRetires, RetiresKeeps
<1>3. outcome[o] = "NEW" /\ OpenOutcome \in [Orders -> Outcomes]
  BY OpenType DEF Enter
<1>4. o \notin Ids(OpenBook)
  <2>1. o \notin Ids(working)
    BY <1>1, <1>3 DEF Matches
  <2>2. QED
    BY <2>1, OpenType DEF Ids
<1>5. ASSUME NEW status \in {"REJECTED", "FILLED", "EXPIRED"},
             working' = OpenBook, outcome' = [OpenOutcome EXCEPT ![o] = status]
      PROVE  Kept
  <2>1. \A p \in Orders : outcome'[p] = "WORKING" <=> p \in Ids(working')
    BY <1>2, <1>3, <1>4, <1>5 DEF Matches
  <2>2. \A a, b \in working' : a.id = b.id => a = b
    BY <1>2, <1>5 DEF Matches
  <2>3. \A p \in Orders : outcome[p] \in Terminal => outcome'[p] = outcome[p]
    BY <1>2, <1>3, <1>5 DEF Final, Terminal
  <2>4. QED
    BY <2>1, <2>2, <2>3 DEF Kept, BookMatchesOutcomes, Final
<1>6. CASE Refuse(o)
  BY <1>5, <1>6 DEF Refuse
<1>7. CASE Take(o, s, side, qty, type)
  BY <1>5, <1>7 DEF Take
<1>8. CASE Lapse(o, s, side, qty)
  BY <1>5, <1>8 DEF Lapse
<1>9. CASE Rest(o, s, side, qty, tif)
  <2>1. PICK wo : wo.id = o /\ working' = OpenBook \cup {wo}
                  /\ outcome' = [OpenOutcome EXCEPT ![o] = "WORKING"]
    BY <1>9 DEF Rest
  <2>2. \A p : p \in Ids(working') <=> p \in Ids(OpenBook) \/ p = o
    BY <2>1 DEF Ids
  <2>3. \A p \in Orders : outcome'[p] = "WORKING" <=> p \in Ids(working')
    BY <1>2, <1>3, <2>1, <2>2 DEF Matches
  <2>4. \A a \in OpenBook : a.id # o
    BY <1>4 DEF Ids
  <2>5. \A a, b \in working' : a.id = b.id => a = b
    BY <1>2, <2>1, <2>4 DEF Matches
  <2>6. \A p \in Orders : outcome[p] \in Terminal => outcome'[p] = outcome[p]
    BY <1>2, <1>3, <2>1 DEF Final, Terminal
  <2>7. QED
    BY <2>3, <2>5, <2>6 DEF Kept, BookMatchesOutcomes, Final
<1>10. QED
  BY <1>6, <1>7, <1>8, <1>9 DEF Enter

\* Every step keeps book and outcomes in agreement and every reported outcome as it is.
LEMMA OrderStep ==
  ASSUME TypeOK, BookMatchesOutcomes, [Next]_vars
  PROVE  Kept
<1> USE DEF bookVars, controlVars, handlerVars, clockVars
<1>0. ASSUME working' = working, outcome' = outcome PROVE Kept
  BY <1>0, NothingRetires, RetiringKeeps
<1>1. ASSUME NEW o \in Orders, Submit(o) PROVE Kept
  <2>1. PICK s \in Symbols, side \in Sides, qty \in 1..MaxQty, type \in {"MARKET", "LIMIT"},
             tif \in {"GTC", "DAY", "IOC"} : Enter(o, s, side, qty, type, tif)
    BY <1>1 DEF Submit
  <2>2. QED
    BY <2>1, EnterKeeps
<1>2. ASSUME NEW o \in Orders, CancelWorking(o) PROVE Kept
  <2>1. PICK wo \in working : wo.id = o
    BY <1>2 DEF CancelWorking, Ids
  <2>2. Retires(working, outcome, working', outcome')
    BY <1>2, <2>1, OneRetires DEF CancelWorking
  <2>3. QED
    BY <2>2, RetiringKeeps
<1>3. ASSUME NEW o \in Orders, ReplaceBegin(o) PROVE Kept
  <2>1. PICK wo \in working : wo.id = o /\ working' = working \ {wo}
                              /\ outcome' = [outcome EXCEPT ![o] = "CANCELLED"]
    BY <1>3 DEF ReplaceBegin
  <2>2. Retires(working, outcome, working', outcome')
    BY <2>1, OneRetires
  <2>3. QED
    BY <2>2, RetiringKeeps
<1>4. ASSUME NEW r \in replacing, ReplaceAborts(r) PROVE Kept
  BY <1>0, <1>4 DEF ReplaceAborts
<1>5. ASSUME NEW r \in replacing, NEW o \in Orders, ReplaceFinish(r, o) PROVE Kept
  <2>1. r.symbol \in Symbols /\ r.side \in Sides /\ r.quantity \in 1..MaxQty
        /\ r.tif \in {"GTC", "DAY", "IOC"}
    BY DEF TypeOK, Replacement
  <2>2. QED
    BY <1>5, <2>1, EnterKeeps DEF ReplaceFinish
<1>6. ASSUME EngageKill PROVE Kept
  BY <1>6, EngageKillRetires, RetiringKeeps
<1>7. CASE ResetBook
  <2>1. working' = working \ working /\ outcome' = Retired(outcome, working, "CANCELLED")
    BY <1>7 DEF ResetBook
  <2>2. QED
    BY <2>1, RetiredRetires, RetiringKeeps
<1>8. ASSUME NEW s \in Symbols, HaltSymbol(s) PROVE Kept
  <2>1. PICK doomed \in SUBSET working :
          working' = working \ doomed /\ outcome' = Retired(outcome, doomed, "CANCELLED")
    BY <1>8 DEF HaltSymbol
  <2>2. QED
    BY <2>1, RetiredRetires, RetiringKeeps
<1>9. CASE Sweep
  <2>1. PICK pulled \in SUBSET OpenBook, crossed \in SUBSET OpenBook :
          /\ crossed \in SUBSET (OpenBook \ pulled)
          /\ working' = OpenBook \ (pulled \cup crossed)
          /\ outcome' = Retired(Retired(OpenOutcome, pulled, "CANCELLED"), crossed, "FILLED")
    BY <1>9 DEF Sweep
  <2>2. Matches(OpenBook, OpenOutcome) /\ Final(outcome, OpenOutcome)
    BY OpenRetires, RetiresKeeps DEF BookMatchesOutcomes, Matches
  <2> DEFINE mid == Retired(OpenOutcome, pulled, "CANCELLED")
  <2>3. Retires(OpenBook, OpenOutcome, OpenBook \ pulled, mid)
    BY RetiredRetires
  <2>4. Matches(OpenBook \ pulled, mid) /\ Final(OpenOutcome, mid)
    BY <2>2, <2>3, RetiresKeeps
  <2>5. Retires(OpenBook \ pulled, mid, (OpenBook \ pulled) \ crossed, outcome')
    BY <2>1, RetiredRetires
  <2>6. Matches((OpenBook \ pulled) \ crossed, outcome') /\ Final(mid, outcome')
    BY <2>4, <2>5, RetiresKeeps
  <2>7. (OpenBook \ pulled) \ crossed = working'
    BY <2>1
  <2> HIDE DEF mid
  <2>8. Final(outcome, outcome')
    BY <2>2, <2>4, <2>6 DEF Final
  <2>9. QED
    BY <2>6, <2>7, <2>8 DEF Kept, BookMatchesOutcomes, Matches
<1>10. CASE SettleSweep
  BY <1>0, <1>6, <1>10 DEF SettleSweep
<1>11. CASE MonitorTick
  <2>1. CASE Roll
    BY <2>1, OpenRetires, RetiringKeeps DEF Roll
  <2>2. CASE Breaker
    BY <1>6, <2>2 DEF Breaker
  <2>3. QED
    BY <1>11, <2>1, <2>2 DEF MonitorTick
<1>12. ASSUME NEW o \in Orders, Settle(o) PROVE Kept
  BY <1>0, <1>6, <1>12 DEF Settle
<1>13. CASE \/ ReleaseKill \/ Midnight \/ AuditChanges \/ UNCHANGED vars
            \/ \E s \in Symbols : ResumeSymbol(s)
            \/ \E enabled \in BOOLEAN : SetReduceOnly(enabled)
            \/ \E s \in Symbols, price \in Marks : MarketMoves(s, price)
  <2>1. working' = working /\ outcome' = outcome
    BY <1>13 DEF ReleaseKill, Midnight, AuditChanges, vars, ResumeSymbol, SetReduceOnly,
                 MarketMoves
  <2>2. QED
    BY <1>0, <2>1
<1>14. CASE TriggerKill
  BY <1>6, <1>14 DEF TriggerKill
<1>15. QED
  BY <1>1, <1>2, <1>3, <1>4, <1>5, <1>7, <1>8, <1>9, <1>10, <1>11, <1>12, <1>13, <1>14
     DEF Next, Client, Operator, Gateway, World

\* The resting book and the reported outcomes agree in every reachable state, one order
\* per id (working_orders.py and every handler that retires orders).
THEOREM BookAgrees == Spec => []BookMatchesOutcomes
<1>1. Init => TypeOK /\ BookMatchesOutcomes
  BY TypeInit DEF Init, BookMatchesOutcomes, Ids
<1>2. (TypeOK /\ BookMatchesOutcomes) /\ [Next]_vars => (TypeOK /\ BookMatchesOutcomes)'
  BY TypeStep, OrderStep DEF Kept
<1>3. QED
  BY <1>1, <1>2, PTL DEF Spec

\* Whatever handler reported an order's outcome, no handler reports another: an order
\* is never filled and cancelled, filled twice, or revived.
THEOREM OutcomesAreFinal == Spec => TerminalOnce
<1>1. TypeOK /\ BookMatchesOutcomes /\ [Next]_vars
        => [\A o \in Orders : outcome[o] \in Terminal => outcome'[o] = outcome[o]]_vars
  BY OrderStep DEF Kept, Final
<1>2. QED
  BY <1>1, TypeCorrect, BookAgrees, PTL DEF Spec, TerminalOnce

-----------------------------------------------------------------------------
(* Replaces *)

\* A replace begins on an order that still rests, and the original it cancelled stays
\* cancelled while the handler is suspended.
LEMMA ReplaceStep ==
  ASSUME TypeOK, BookMatchesOutcomes, ReplaceNeverDoubles, [Next]_vars
  PROVE  ReplaceNeverDoubles'
<1> USE DEF bookVars, controlVars, handlerVars, clockVars
<1>1. Final(outcome, outcome')
  BY OrderStep DEF Kept
<1>2. ASSUME NEW r \in replacing PROVE outcome'[r.of] = "CANCELLED"
  BY <1>1 DEF Final, Terminal, TypeOK, Replacement, ReplaceNeverDoubles
<1>3. ASSUME replacing' \subseteq replacing PROVE ReplaceNeverDoubles'
  BY <1>2, <1>3 DEF ReplaceNeverDoubles
<1>4. ASSUME NEW o \in Orders, ReplaceBegin(o) PROVE ReplaceNeverDoubles'
  <2>0. /\ \E wo \in working : wo.id = o
        /\ outcome' = [outcome EXCEPT ![o] = "CANCELLED"]
        /\ \E r : r.of = o /\ replacing' = replacing \cup {r}
    BY <1>4 DEF ReplaceBegin
  <2>1. PICK r : r.of = o /\ replacing' = replacing \cup {r}
    BY <2>0
  <2>2. outcome[o] = "WORKING"
    BY <2>0 DEF BookMatchesOutcomes, Ids
  <2>3. outcome'[r.of] = "CANCELLED"
    BY <2>0, <2>1 DEF TypeOK
  <2>4. \A q \in replacing : q.of # o
    BY <2>2 DEF ReplaceNeverDoubles
  <2>5. QED
    BY <1>2, <2>1, <2>3, <2>4 DEF ReplaceNeverDoubles
<1>5. CASE \E o \in Orders : ReplaceBegin(o)
  BY <1>4, <1>5
<1>6. CASE ~\E o \in Orders : ReplaceBegin(o)
  <2>1. replacing' \subseteq replacing
    BY <1>6 DEF Next, Client, Operator, Gateway, World, Submit, CancelWorking, ReplaceAborts,
       ReplaceFinish, TriggerKill, ReleaseKill, ResetBook, HaltSymbol, ResumeSymbol,
       SetReduceOnly, Sweep, SettleSweep, MonitorTick, Settle, MarketMoves, Midnight,
       AuditChanges, vars
  <2>2. QED
    BY <1>3, <2>1
<1>7. QED
  BY <1>5, <1>6

\* However replaces interleave with each other and with everything else, no order and
\* its replacement are both alive, and no order is replaced twice (replace_working).
THEOREM ReplacesNeverDouble == Spec => []ReplaceNeverDoubles
<1>1. Init => TypeOK /\ BookMatchesOutcomes /\ ReplaceNeverDoubles
  BY TypeInit DEF Init, BookMatchesOutcomes, Ids, ReplaceNeverDoubles
<1>2. (TypeOK /\ BookMatchesOutcomes /\ ReplaceNeverDoubles) /\ [Next]_vars
        => (TypeOK /\ BookMatchesOutcomes /\ ReplaceNeverDoubles)'
  BY TypeStep, OrderStep, ReplaceStep DEF Kept
<1>3. QED
  BY <1>1, <1>2, PTL DEF Spec

-----------------------------------------------------------------------------
(* Halted positions *)

\* A set of orders with none in a symbol rests nothing in it.
LEMMA NoneRests ==
  ASSUME NEW book, NEW s, NEW side, \A wo \in book : wo.symbol # s
  PROVE  WorkingQty(book, s, side) = 0
<1>1. Lots(book, s, side) = {}
  BY DEF Lots
<1>2. QED
  BY <1>1, FS_EmptySet DEF WorkingQty

\* Nothing that can fill is left in a halted symbol, and no order enters it.
LEMMA HaltedPositionStep ==
  ASSUME TypeOK, HaltedDeskRestsNothing, [Next]_vars, NEW s \in Symbols,
         killActive \/ s \in halted, held'[s] # held[s]
  PROVE  held'[s] = 0 /\ working' = {}
<1>1. held' # held
  OBVIOUS
<1>2. ASSUME NEW o \in Orders, NEW t \in Symbols, NEW side \in Sides, NEW qty \in 1..MaxQty,
             NEW type \in {"MARKET", "LIMIT"}, Take(o, t, side, qty, type)
      PROVE  FALSE
  <2>1. ~killActive /\ t \notin halted
    BY <1>2 DEF Take, Gates
  <2>2. PICK new : held' = [held EXCEPT ![t] = new]
    BY <1>2 DEF Take
  <2>3. QED
    BY <2>1, <2>2 DEF TypeOK
<1>3. ASSUME Sweep PROVE FALSE
  <2>1. PICK crossed \in SUBSET OpenBook :
          held' = [u \in Symbols |->
                     held[u] + WorkingQty(crossed, u, "BUY") - WorkingQty(crossed, u, "SELL")]
    BY <1>3 DEF Sweep
  <2>2. \A wo \in crossed : wo.symbol # s
    BY <2>1, OpenType DEF HaltedDeskRestsNothing
  <2>3. WorkingQty(crossed, s, "BUY") = 0 /\ WorkingQty(crossed, s, "SELL") = 0
    BY <2>2, NoneRests
  <2>4. held[s] \in Int
    BY DEF TypeOK
  <2>5. held'[s] = held[s] + 0 - 0
    BY <2>1, <2>3
  <2>6. QED
    BY <2>4, <2>5
<1>4. Moving
  <2>1. ASSUME NEW t \in Symbols, NEW side \in Sides, NEW qty \in 1..MaxQty, Resting(t, side, qty)
        PROVE  FALSE
    BY <1>1, <2>1 DEF Resting, Rest
  <2>2. QED
    BY <1>1, <2>1, BookStep
<1>5. ResetBook
  BY <1>2, <1>3, <1>4 DEF Moving
<1>6. QED
  BY <1>5 DEF ResetBook

\* While the desk or a symbol is halted only the paper-book reset moves the halted
\* position: no submit, replace or sweep that was suspended when the halt came does.
THEOREM HaltedPositionsAreSafe == Spec => HaltedPositionsStand
<1>1. TypeOK /\ HaltedDeskRestsNothing /\ [Next]_vars
        => [\A s \in Symbols :
              (killActive \/ s \in halted) /\ held'[s] # held[s]
                => held'[s] = 0 /\ working' = {}]_vars
  BY HaltedPositionStep
<1>2. QED
  BY <1>1, TypeCorrect, HaltIsComplete, PTL DEF Spec, HaltedPositionsStand

-----------------------------------------------------------------------------
(* The desk the gateway implements *)

\* What the desk knows of the gateway's state is well typed.
LEMMA DeskTyped == TypeOK => Desk!DeskTypeOK
<1> SUFFICES ASSUME TypeOK PROVE Desk!DeskTypeOK
  OBVIOUS
<1>1. \A s \in Symbols : \A side : WorkingQty(working, s, side) \in Nat
  BY LotsFinite DEF TypeOK
<1>2. QED
  BY <1>1 DEF TypeOK, Desk!DeskTypeOK

\* The gateway starts as the desk does.
LEMMA DeskStarts == Init => Desk!DeskInit
<1> SUFFICES ASSUME Init PROVE Desk!DeskInit
  OBVIOUS
<1>1. \A s, side : WorkingQty(working, s, side) = 0
  BY EmptyBookQty DEF Init
<1>2. QED
  BY <1>1 DEF Init, Desk!DeskInit

\* A step that changes what is halted leaves every position, and either halts more and
\* only takes orders off the book, or halts less and leaves the book.
LEMMA ControlStep ==
  ASSUME TypeOK, [Next]_vars
  PROVE  \/ UNCHANGED <<killActive, halted>>
         \/ /\ killActive => killActive'
            /\ halted \subseteq halted'
            /\ working' \subseteq working /\ held' = held
         \/ /\ killActive' => killActive
            /\ halted' \subseteq halted
            /\ UNCHANGED <<working, held>>
<1> USE DEF bookVars, controlVars, handlerVars, clockVars
<1>1. CASE \E s \in Symbols : HaltSymbol(s)
  BY <1>1 DEF HaltSymbol
<1>2. CASE ReleaseKill \/ \E s \in Symbols : ResumeSymbol(s)
  BY <1>2 DEF ReleaseKill, ResumeSymbol
<1>3. CASE TriggerKill \/ SettleSweep \/ \E o \in Orders : Settle(o)
  BY <1>3 DEF TriggerKill, SettleSweep, Settle, EngageKill
<1>4. CASE MonitorTick
  BY <1>4 DEF MonitorTick, Roll, Breaker, EngageKill
<1>5. CASE \/ \E o \in Orders : Submit(o) \/ CancelWorking(o) \/ ReplaceBegin(o)
           \/ \E r \in replacing : ReplaceAborts(r) \/ \E o \in Orders : ReplaceFinish(r, o)
  BY <1>5 DEF Submit, CancelWorking, ReplaceBegin, ReplaceAborts, ReplaceFinish, Enter
<1>6. CASE \/ ResetBook \/ Sweep \/ Midnight \/ AuditChanges \/ UNCHANGED vars
           \/ \E enabled \in BOOLEAN : SetReduceOnly(enabled)
           \/ \E s \in Symbols, price \in Marks : MarketMoves(s, price)
  BY <1>6 DEF ResetBook, Sweep, Midnight, AuditChanges, vars, SetReduceOnly, MarketMoves
<1>7. QED
  BY <1>1, <1>2, <1>3, <1>4, <1>5, <1>6 DEF Next, Client, Operator, Gateway, World

\* A book that only thins withdraws in every symbol whose position stands.
LEMMA ThinsWithdraws ==
  ASSUME TypeOK, NEW s \in Symbols, working' \subseteq working, held'[s] = held[s]
  PROVE  Desk!Withdraws(s)
<1>1. \A side : WorkingQty(working', s, side) <= WorkingQty(working, s, side)
  BY PartQty DEF TypeOK
<1>2. QED
  BY <1>1 DEF Desk!Withdraws

\* A withdrawal is a fill of nothing.
LEMMA WithdrawsFills ==
  ASSUME TypeOK, TypeOK', NEW s \in Symbols, Desk!Withdraws(s)
  PROVE  Desk!Fills(s)
<1>1. \A side : WorkingQty(working, s, side) \in Nat /\ WorkingQty(working', s, side) \in Nat
  BY LotsFinite DEF TypeOK
<1>2. held[s] \in Int /\ held'[s] = held[s]
  BY DEF TypeOK, Desk!Withdraws
<1>3. QED
  BY <1>1, <1>2 DEF Desk!Withdraws, Desk!Fills

\* Limits on both ends of the range are limits on the two sizes.
LEMMA WithinIsSize ==
  ASSUME NEW h \in Int, NEW b \in Nat, NEW f \in Nat, NEW limit \in Int,
         Within(h, b, f, limit)
  PROVE  Desk!Size(h + b) <= limit /\ Desk!Size(h - f) <= limit
  BY DEF Within, Desk!Size

\* An order that comes to rest commits lots within the cap, in a symbol that is not
\* stopped; nothing else is committed.
LEMMA RestingCommits ==
  ASSUME TypeOK, TypeOK', BookMatchesOutcomes,
         NEW s \in Symbols, NEW side \in Sides, NEW qty \in 1..MaxQty, Resting(s, side, qty)
  PROVE  Desk!Act
<1>1. PICK o \in Orders, tif \in {"GTC", "DAY"} : outcome[o] = "NEW" /\ Rest(o, s, side, qty, tif)
  BY DEF Resting
<1> DEFINE wo == [id |-> o, symbol |-> s, side |-> side, quantity |-> qty, tif |-> tif,
                  session |-> today]
<1>2. wo \in WorkingOrder /\ working' = OpenBook \cup {wo}
  BY <1>1 DEF Rest, WorkingOrder, TypeOK
<1>3. wo \notin OpenBook
  <2>1. o \notin Ids(working)
    BY <1>1 DEF BookMatchesOutcomes
  <2>2. QED
    BY <2>1, OpenType DEF Ids
<1>4. ~killActive /\ s \notin halted /\ UNCHANGED <<killActive, halted>> /\ held' = held
  BY <1>1 DEF Resting, Rest, Gates
<1>5. ASSUME NEW t, NEW d
      PROVE  WorkingQty(working', t, d) =
               WorkingQty(OpenBook, t, d) + (IF t = s /\ d = side THEN qty ELSE 0)
  <2>1. wo.symbol = s /\ wo.side = side /\ wo.quantity = qty
    OBVIOUS
  <2> HIDE DEF wo
  <2>2. WorkingQty(OpenBook \cup {wo}, t, d) =
          WorkingQty(OpenBook, t, d) + (IF wo.symbol = t /\ wo.side = d THEN wo.quantity ELSE 0)
    BY <1>2, <1>3, OpenType, QtyWith
  <2>3. QED
    BY <1>2, <2>1, <2>2
<1>6. ASSUME NEW t, NEW d
      PROVE  /\ WorkingQty(OpenBook, t, d) \in Nat
             /\ WorkingQty(OpenBook, t, d) <= WorkingQty(working, t, d)
  BY OpenType, PartQty DEF TypeOK
<1>7. ASSUME NEW t, NEW d, t # s \/ d # side
      PROVE  WorkingQty(working', t, d) <= WorkingQty(working, t, d)
  <2>1. WorkingQty(working', t, d) = WorkingQty(OpenBook, t, d) + 0
    BY <1>5, <1>7
  <2>2. QED
    BY <1>6, <2>1
<1>8. \A t \in Symbols \ {s} : Desk!Withdraws(t)
  BY <1>4, <1>7 DEF Desk!Withdraws
<1> DEFINE h == held[s]
           b == WorkingQty(OpenBook, s, "BUY")
           f == WorkingQty(OpenBook, s, "SELL")
<1>9. Within(h + Signed(side, qty), b, f, LotCap)
  BY <1>1, GateInLots DEF Rest
<1>10. h \in Int /\ b \in Nat /\ f \in Nat /\ LotCap \in Nat /\ qty \in Nat
  BY <1>6, LotCapNat, BoundsAssumption DEF TypeOK
<1>11. Desk!Commits(s)
  <2>1. CASE side = "BUY"
    <3>1. Desk!Size(h + (b + qty)) <= LotCap
      <4>1. Within(h + qty, b, f, LotCap)
        BY <1>9, <2>1 DEF Signed
      <4> HIDE DEF h, b, f
      <4>2. QED
        BY <1>10, <4>1 DEF Within, Desk!Size
    <3>2. WorkingQty(working', s, "BUY") = b + qty
      BY <1>5, <2>1
    <3>3. WorkingQty(working', s, "SELL") <= WorkingQty(working, s, "SELL")
      BY <1>7, <2>1
    <3>4. QED
      BY <1>4, <3>1, <3>2, <3>3 DEF Desk!Commits
  <2>2. CASE side = "SELL"
    <3>1. Desk!Size(h - (f + qty)) <= LotCap
      <4>1. Within(h + (-qty), b, f, LotCap)
        BY <1>9, <2>2 DEF Signed
      <4> HIDE DEF h, b, f
      <4>2. QED
        BY <1>10, <4>1 DEF Within, Desk!Size
    <3>2. WorkingQty(working', s, "SELL") = f + qty
      BY <1>5, <2>2
    <3>3. WorkingQty(working', s, "BUY") <= WorkingQty(working, s, "BUY")
      BY <1>7, <2>2
    <3>4. QED
      BY <1>4, <3>1, <3>2, <3>3 DEF Desk!Commits
  <2>3. QED
    BY <2>1, <2>2 DEF Sides
<1>12. QED
  BY <1>4, <1>8, <1>11 DEF Desk!Act

\* A taker fill trades within the cap and its own drift, in a symbol that is not stopped.
LEMMA TakeTrades ==
  ASSUME TypeOK, TypeOK', ConcentrationHolds', UNCHANGED <<killActive, halted>>,
         NEW o \in Orders, NEW s \in Symbols, NEW side \in Sides, NEW qty \in 1..MaxQty,
         NEW type, Take(o, s, side, qty, type)
  PROVE  Desk!Act
<1>1. ~killActive /\ s \notin halted /\ working' = OpenBook
  BY DEF Take, Gates
<1>2. PICK new : held' = [held EXCEPT ![s] = new]
  BY DEF Take
<1>3. working' \subseteq working
  BY <1>1, OpenType
<1>4. \A t \in Symbols \ {s} : Desk!Withdraws(t)
  BY <1>2, <1>3, ThinsWithdraws DEF TypeOK
<1>5. /\ WorkingQty(working', s, "BUY") <= WorkingQty(working, s, "BUY")
      /\ WorkingQty(working', s, "SELL") <= WorkingQty(working, s, "SELL")
  BY <1>3, PartQty DEF TypeOK
<1>6. Within(held'[s], WorkingQty(working', s, "BUY"), WorkingQty(working', s, "SELL"),
             LotCap + MaxFillDrift)
  BY ConcentrationAtEndsNext DEF ConcentrationHolds
<1>7. /\ held'[s] \in Int /\ LotCap + MaxFillDrift \in Int
      /\ WorkingQty(working', s, "BUY") \in Nat /\ WorkingQty(working', s, "SELL") \in Nat
  BY LotsFinite, LotCapNat, BoundsAssumption DEF TypeOK
<1>8. /\ Desk!Size(held'[s] + WorkingQty(working', s, "BUY")) <= LotCap + MaxFillDrift
      /\ Desk!Size(held'[s] - WorkingQty(working', s, "SELL")) <= LotCap + MaxFillDrift
  BY <1>6, <1>7, WithinIsSize
<1>9. Desk!Trades(s)
  BY <1>5, <1>8 DEF Desk!Trades, Desk!WithinAt
<1>10. QED
  BY <1>1, <1>4, <1>9 DEF Desk!Act

\* A sweep fills only lots that were committed, in every symbol at once.
LEMMA SweepSettles ==
  ASSUME TypeOK, TypeOK', UNCHANGED <<killActive, halted>>, Sweep
  PROVE  Desk!Settle
<1>1. PICK crossed \in SUBSET OpenBook, pulled \in SUBSET OpenBook :
        /\ held' = [s \in Symbols |->
                      held[s] + WorkingQty(crossed, s, "BUY") - WorkingQty(crossed, s, "SELL")]
        /\ working' = OpenBook \ (pulled \cup crossed)
  BY DEF Sweep
<1> SUFFICES ASSUME NEW t \in Symbols PROVE Desk!Fills(t)
  BY DEF Desk!Settle
<1>2. ASSUME NEW side
      PROVE  /\ WorkingQty(crossed, t, side) \in Nat
             /\ WorkingQty(working', t, side) \in Nat
             /\ WorkingQty(working, t, side) \in Nat
             /\ WorkingQty(working', t, side) + WorkingQty(crossed, t, side)
                  <= WorkingQty(working, t, side)
  <2>1. IsFiniteSet(OpenBook) /\ IsFiniteSet(OpenBook \ crossed)
    BY OpenType, FS_Difference
  <2>2. /\ WorkingQty(OpenBook \ crossed, t, side)
             = WorkingQty(OpenBook, t, side) - WorkingQty(crossed, t, side)
        /\ WorkingQty(crossed, t, side) \in Nat
        /\ WorkingQty(OpenBook, t, side) \in Nat
        /\ WorkingQty(OpenBook \ crossed, t, side) \in Nat
    BY <2>1, QtyWithout
  <2>3. /\ WorkingQty(working', t, side) <= WorkingQty(OpenBook \ crossed, t, side)
        /\ WorkingQty(working', t, side) \in Nat
    BY <1>1, <2>1, PartQty
  <2>4. /\ WorkingQty(OpenBook, t, side) <= WorkingQty(working, t, side)
        /\ WorkingQty(working, t, side) \in Nat
    BY OpenType, PartQty DEF TypeOK
  <2>5. QED
    BY <2>2, <2>3, <2>4
<1>3. held'[t] = held[t] + WorkingQty(crossed, t, "BUY") - WorkingQty(crossed, t, "SELL")
  BY <1>1
<1>4. held[t] \in Int
  BY DEF TypeOK
<1>5. QED
  BY <1>2, <1>3, <1>4 DEF Desk!Fills

\* Every step of the gateway is a step of the desk or leaves the desk as it was.
LEMMA DeskStep ==
  ASSUME TypeOK, HaltedDeskRestsNothing, BookMatchesOutcomes, ConcentrationHolds, [Next]_vars
  PROVE  Desk!DeskNext
<1>1. TypeOK' /\ HaltedDeskRestsNothing' /\ ConcentrationHolds'
  BY TypeStep, HaltedStep, ConcentrationStep
<1>2. Desk!DeskTypeOK'
  <2>1. (TypeOK => Desk!DeskTypeOK)'
    BY DeskTyped, PTL
  <2>2. QED
    BY <1>1, <2>1
<1>3. CASE \E s \in Symbols, side \in Sides, qty \in 1..MaxQty : Resting(s, side, qty)
  BY <1>1, <1>2, <1>3, RestingCommits DEF Desk!DeskNext
<1>4. CASE UNCHANGED <<killActive, halted>> /\ Moving
  <2>1. ResetBook => Desk!Flatten
    BY <1>4, EmptyBookQty DEF ResetBook, Desk!Flatten
  <2>2. QED
    BY <1>1, <1>2, <1>4, <2>1, TakeTrades, SweepSettles DEF Moving, Desk!DeskNext
<1>5. CASE UNCHANGED <<killActive, halted>> /\ Thinning /\ held' = held
  <2>1. \A s \in Symbols : Desk!Fills(s)
    BY <1>1, <1>5, ThinsWithdraws, WithdrawsFills DEF Thinning
  <2>2. QED
    BY <1>2, <1>5, <2>1 DEF Desk!DeskNext, Desk!Settle
<1>6. CASE /\ killActive => killActive'
           /\ halted \subseteq halted'
           /\ working' \subseteq working /\ held' = held
  <2>1. \A s \in Symbols : Desk!Withdraws(s)
    BY <1>6, ThinsWithdraws
  <2>2. ASSUME NEW s \in Symbols, killActive' \/ s \in halted', NEW side
        PROVE  WorkingQty(working', s, side) = 0
    <3>1. \A wo \in working' : wo.symbol # s
      BY <1>1, <2>2 DEF HaltedDeskRestsNothing
    <3>2. QED
      BY <3>1, NoneRests
  <2>3. halted \subseteq Symbols /\ halted' \subseteq Symbols
    BY <1>1 DEF TypeOK
  <2>4. QED
    BY <1>2, <1>6, <2>1, <2>2, <2>3 DEF Desk!DeskNext, Desk!Stop
<1>7. CASE /\ killActive' => killActive
           /\ halted' \subseteq halted
           /\ UNCHANGED <<working, held>>
  <2>1. halted \subseteq Symbols /\ halted' \subseteq Symbols
    BY <1>1 DEF TypeOK
  <2>2. QED
    BY <1>2, <1>7, <2>1 DEF Desk!DeskNext, Desk!Resume
<1>8. QED
  BY <1>3, <1>4, <1>5, <1>6, <1>7, BookStep, ControlStep

\* The gateway implements the exposure desk: whatever the orders, replaces, sweeps and
\* sessions do, a stopped symbol commits and trades nothing, admission stays within the
\* cap, and later only what was committed fills (submit, _sweep, trigger_kill, replace).
THEOREM GatewayImplementsDesk == Spec => RefinesDesk
<1>1. TypeOK /\ HaltedDeskRestsNothing /\ BookMatchesOutcomes /\ ConcentrationHolds /\ [Next]_vars
        => [Desk!DeskNext]_(Desk!deskVars)
  BY DeskStep
<1>2. QED
  BY <1>1, DeskStarts, TypeCorrect, HaltIsComplete, BookAgrees, ConcentrationIsInvariant, PTL
     DEF Spec, RefinesDesk, Desk!DeskSpec

=============================================================================
