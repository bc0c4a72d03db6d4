----------------------------- MODULE RiskGateway -----------------------------
(***************************************************************************)
(* The pre-trade risk gateway of AlphaEngine (modules/risk_proxy): one      *)
(* order entry point, the resting book, the kill switch, the reduce-only   *)
(* regime, the drawdown breaker and the session boundary.                  *)
(*                                                                         *)
(* The gateway is one asyncio loop.  Every section under its lock runs     *)
(* without a suspension point, so each is one action here; an await        *)
(* between two sections (the audit drain, the gap between a replace's      *)
(* retirement and its resubmission) is a place where other handlers run,   *)
(* and splits its handler into two actions.                                *)
(*                                                                         *)
(* Quantities are whole lots.  Prices are a mark per symbol; an order's    *)
(* limit price is abstracted to whether the touch crosses it.              *)
(***************************************************************************)
EXTENDS Integers, FiniteSets, FiniteSetsExt

CONSTANTS
  Symbols,            \* instruments of the live L2 universe
  Orders,             \* order ids the process may hand out
  MaxQty,             \* largest order in lots (bound of the model)
  Marks,              \* mark prices the market may show
  LowMark,            \* a lower bound of Marks
  MaxFillDrift,       \* lots by which a taker fill may differ from its order
  MaxOrderNotional,   \* settings.max_order_notional_usd
  MaxSymbolNotional,  \* settings.max_symbol_notional_usd
  MaxGross,           \* settings.max_gross_exposure_usd
  MaxWorkingOrders,   \* settings.max_working_orders
  LastDay             \* last UTC day of the model (bound of the clock)

Sides == {"BUY", "SELL"}

\* Where the day's drawdown stands: under the reduce-only threshold, at or over
\* it, or at or over the hard limit.
Levels == {"open", "soft", "spent"}

Outcomes == {"NEW", "REJECTED", "WORKING", "FILLED", "EXPIRED", "CANCELLED"}
Terminal == {"REJECTED", "FILLED", "EXPIRED", "CANCELLED"}

ASSUME BoundsAssumption ==
  /\ MaxQty \in Nat \ {0}
  /\ LowMark \in Nat \ {0}
  /\ Marks \subseteq Nat /\ Marks # {}
  /\ \A m \in Marks : LowMark <= m
  /\ MaxFillDrift \in Nat
  /\ MaxOrderNotional \in Nat
  /\ MaxSymbolNotional \in Nat
  /\ MaxGross \in Nat
  /\ MaxWorkingOrders \in Nat
  /\ LastDay \in Nat

VARIABLES
  outcome,        \* per order id: its decision's status, "NEW" before submission
  working,        \* the resting book: a set of WorkingOrderState records
  held,           \* per symbol: the signed position in lots
  mark,           \* per symbol: the mark price
  killActive,     \* the global kill switch
  halted,         \* symbols halted on their own
  override,       \* the operator's reduce-only override
  budget,         \* where the day's drawdown stands
  today,          \* the UTC day the wall clock shows
  session,        \* the day the gateway believes it is trading
  auditUp,        \* whether a strict audit write would succeed
  settling,       \* accepted orders whose submit has not yet read the drawdown
  sweepSettling,  \* the sweep has filled and has not yet read the drawdown
  replacing       \* replaces between their cancel and their resubmission

bookVars == <<outcome, working>>
controlVars == <<killActive, halted, override>>
handlerVars == <<settling, sweepSettling, replacing>>
clockVars == <<today, session>>
vars == <<bookVars, held, mark, controlVars, budget, clockVars, auditUp, handlerVars>>

\* A resting order as the book keeps it.
WorkingOrder ==
  [id: Orders, symbol: Symbols, side: Sides, quantity: 1..MaxQty,
   tif: {"GTC", "DAY"}, session: 0..LastDay]

\* A replace that has cancelled its original and not yet resubmitted.
Replacement ==
  [of: Orders, symbol: Symbols, side: Sides, quantity: 1..MaxQty, tif: {"GTC", "DAY"}]

TypeOK ==
  /\ outcome \in [Orders -> Outcomes]
  /\ working \subseteq WorkingOrder /\ IsFiniteSet(working)
  /\ held \in [Symbols -> Int]
  /\ mark \in [Symbols -> Marks]
  /\ killActive \in BOOLEAN
  /\ halted \subseteq Symbols
  /\ override \in BOOLEAN
  /\ budget \in Levels
  /\ today \in 0..LastDay
  /\ session \in 0..LastDay
  /\ auditUp \in BOOLEAN
  /\ settling \subseteq Orders
  /\ sweepSettling \in BOOLEAN
  /\ replacing \subseteq Replacement

-----------------------------------------------------------------------------
(* Quantities and exposure *)

Signed(side, qty) == IF side = "BUY" THEN qty ELSE -qty

Abs(n) == IF n >= 0 THEN n ELSE -n

Larger(a, b) == IF a >= b THEN a ELSE b

\* The lots resting on one side of one symbol: each order stands for as many
\* pairs as it has lots, so the side's quantity is the cardinality of the set.
Lots(book, s, side) ==
  {l \in book \X (1..MaxQty) :
     l[1].symbol = s /\ l[1].side = side /\ l[2] <= l[1].quantity}

WorkingQty(book, s, side) == Cardinality(Lots(book, s, side))

ProjectedNetted(book, s, signedQty) ==
  Abs(held[s] + signedQty + WorkingQty(book, s, "BUY") - WorkingQty(book, s, "SELL"))

\* The worst position in s once the incoming order and either whole side of the
\* resting book fill.
Projected(book, s, signedQty) ==
  Larger(Abs(held[s] + signedQty + WorkingQty(book, s, "BUY")),
         Abs(held[s] + signedQty - WorkingQty(book, s, "SELL")))

GrossExposure == MapThenSumSet(LAMBDA s : Abs(held[s]) * mark[s], Symbols)

\* Gross exposure with s replaced by its projection: the resting orders of the
\* other symbols do not enter.
ProjectedGross(book, s, signedQty) ==
  GrossExposure - Abs(held[s]) * mark[s] + Projected(book, s, signedQty) * mark[s]

-----------------------------------------------------------------------------
(* The reduce-only regime *)

ReduceOnlyActive(level) == override \/ level # "open"

\* Opposite to the holding and no larger than it.
Reducing(s, signedQty) ==
  /\ held[s] # 0
  /\ (held[s] > 0) # (signedQty > 0)
  /\ Abs(signedQty) <= Abs(held[s])

WouldIncreaseRisk(wo) == ~Reducing(wo.symbol, Signed(wo.side, wo.quantity))

-----------------------------------------------------------------------------
(* Taking orders off the book *)

Ids(orders) == {wo.id : wo \in orders}

\* The outcomes once the given resting orders are retired with a status.
Retired(result, orders, status) ==
  [o \in Orders |-> IF o \in Ids(orders) THEN status ELSE result[o]]

DayOrders(book) == {wo \in book : wo.tif = "DAY"}

\* The session boundary, as it stands at the start of a handler that rolls it:
\* DAY orders expire, the rest are cancelled, the drawdown restarts from zero.
RollDue == session # today
CanOpen == RollDue => auditUp

OpenBookKeepsGtc == IF RollDue THEN working \ DayOrders(working) ELSE working
OpenBook == IF RollDue THEN {} ELSE working

OpenOutcome ==
  IF RollDue
  THEN Retired(Retired(outcome, working, "CANCELLED"), DayOrders(working), "EXPIRED")
  ELSE outcome

OpenBudget == IF RollDue THEN "open" ELSE budget

-----------------------------------------------------------------------------
(* The gates of submit, over the book as the roll left it *)

\* Every gate the state of the desk decides.  The gates on the order's own data
\* (duplicate id, rate, whitelist, price, band, slippage, and for a limit order its
\* notional at its own price) may refuse any order, which Refuse allows at any time.
Gates(s, side, qty, type) ==
  /\ ~killActive
  /\ s \notin halted
  /\ type = "MARKET" => qty * mark[s] <= MaxOrderNotional
  /\ Projected(OpenBook, s, Signed(side, qty)) * mark[s] <= MaxSymbolNotional
  /\ ProjectedGross(OpenBook, s, Signed(side, qty)) <= MaxGross
  /\ type = "LIMIT" => Cardinality(OpenBook) < MaxWorkingOrders
  /\ OpenBudget # "spent"
  /\ ReduceOnlyActive(OpenBudget) => Reducing(s, Signed(side, qty))

-----------------------------------------------------------------------------
(* submit: what one locked section decides *)

\* Some gate failed: the order is counted and goes no further.
Refuse(o) ==
  /\ outcome' = [OpenOutcome EXCEPT ![o] = "REJECTED"]
  /\ working' = OpenBook
  /\ budget' = OpenBudget
  /\ UNCHANGED <<held, settling>>

\* A marketable order takes the touch at once.  It is sized in notional and fills
\* at the routed price, so the lots it moves may differ from the lots it named;
\* its fee and price move the day's P&L.
Take(o, s, side, qty, type) ==
  /\ Gates(s, side, qty, type)
  /\ \E filled \in (qty - MaxFillDrift)..(qty + MaxFillDrift) :
       /\ filled > 0
       /\ held' = [held EXCEPT ![s] = @ + Signed(side, filled)]
  /\ outcome' = [OpenOutcome EXCEPT ![o] = "FILLED"]
  /\ working' = OpenBook
  /\ budget' \in Levels
  /\ settling' = settling \cup {o}

\* A limit order the touch does not reach, and nothing may rest.
Lapse(o, s, side, qty) ==
  /\ Gates(s, side, qty, "LIMIT")
  /\ outcome' = [OpenOutcome EXCEPT ![o] = "EXPIRED"]
  /\ working' = OpenBook
  /\ budget' = OpenBudget
  /\ settling' = settling \cup {o}
  /\ UNCHANGED held

\* A limit order the touch does not reach rests.
Rest(o, s, side, qty, tif) ==
  /\ Gates(s, side, qty, "LIMIT")
  /\ outcome' = [OpenOutcome EXCEPT ![o] = "WORKING"]
  /\ working' = OpenBook \cup
       {[id |-> o, symbol |-> s, side |-> side, quantity |-> qty, tif |-> tif,
         session |-> today]}
  /\ budget' = OpenBudget
  /\ settling' = settling \cup {o}
  /\ UNCHANGED held

\* An order id is drawn, a due session roll is taken first, and the order is
\* decided.  When the roll cannot be persisted submit raises and the order never
\* existed, hence the guard.
Enter(o, s, side, qty, type, tif) ==
  /\ outcome[o] = "NEW"
  /\ CanOpen
  /\ session' = today
  /\ \/ Refuse(o)
     \/ Take(o, s, side, qty, type)
     \/ type = "LIMIT" /\ tif = "IOC" /\ Lapse(o, s, side, qty)
     \/ type = "LIMIT" /\ tif # "IOC" /\ Rest(o, s, side, qty, tif)
  /\ UNCHANGED <<mark, controlVars, today, auditUp, sweepSettling>>

Submit(o) ==
  /\ \E s \in Symbols, side \in Sides, qty \in 1..MaxQty :
       \/ Enter(o, s, side, qty, "MARKET", "IOC")
       \/ \E tif \in {"GTC", "DAY", "IOC"} : Enter(o, s, side, qty, "LIMIT", tif)
  /\ UNCHANGED replacing

-----------------------------------------------------------------------------
(* The kill switch *)

\* The kill switch of a desk that leaves its resting book working.
EngageKillLeavingOrders == killActive' = TRUE /\ UNCHANGED <<halted, bookVars>>

\* trigger_kill without a symbol: the flag is set and the whole resting book is
\* cancelled with no suspension between the two.
EngageKill ==
  /\ killActive' = TRUE
  /\ working' = {}
  /\ outcome' = Retired(outcome, working, "CANCELLED")
  /\ UNCHANGED halted

\* The end of submit for an accepted order: the drawdown is read after the audit
\* awaits, and a breach trips the breaker.
Settle(o) ==
  /\ o \in settling
  /\ settling' = settling \ {o}
  /\ IF budget = "spent" THEN EngageKill ELSE UNCHANGED <<killActive, halted, bookVars>>
  /\ UNCHANGED <<held, mark, override, budget, clockVars, auditUp, sweepSettling, replacing>>

TriggerKill ==
  /\ EngageKill
  /\ UNCHANGED <<held, mark, override, budget, clockVars, auditUp, handlerVars>>

\* trigger_kill with a symbol.
HaltSymbol(s) ==
  LET doomed == {wo \in working : wo.symbol = s}
  IN /\ halted' = halted \cup {s}
     /\ working' = working \ doomed
     /\ outcome' = Retired(outcome, doomed, "CANCELLED")
     /\ UNCHANGED <<held, mark, killActive, override, budget, clockVars, auditUp, handlerVars>>

ReleaseKill ==
  /\ killActive' = FALSE
  /\ UNCHANGED <<bookVars, held, mark, halted, override, budget, clockVars, auditUp, handlerVars>>

ResumeSymbol(s) ==
  /\ halted' = halted \ {s}
  /\ UNCHANGED <<bookVars, held, mark, killActive, override, budget, clockVars, auditUp,
                 handlerVars>>

SetReduceOnly(enabled) ==
  /\ override' = enabled
  /\ UNCHANGED <<bookVars, held, mark, killActive, halted, budget, clockVars, auditUp,
                 handlerVars>>

-----------------------------------------------------------------------------
(* The resting book's own handlers *)

\* A sweep that fills a crossed order and leaves it resting.
SweepKeepsFilled ==
  /\ ~sweepSettling
  /\ CanOpen
  /\ session' = today
  /\ \E crossed \in SUBSET OpenBook :
       /\ held' = [s \in Symbols |->
                     held[s] + WorkingQty(crossed, s, "BUY") - WorkingQty(crossed, s, "SELL")]
       /\ working' = OpenBook
       /\ outcome' = OpenOutcome
       /\ IF crossed = {} THEN budget' = OpenBudget ELSE budget' \in Levels
       /\ sweepSettling' = (crossed # {})
  /\ UNCHANGED <<mark, controlVars, today, auditUp, settling, replacing>>

\* One pass of the sweep.  Reduce-only is applied once, before anything fills;
\* then any set of the orders left may be crossed by the touch, and each fills
\* at its limit for exactly its quantity.
Sweep ==
  /\ ~sweepSettling
  /\ CanOpen
  /\ session' = today
  /\ LET pulled == IF ReduceOnlyActive(OpenBudget)
                   THEN {wo \in OpenBook : WouldIncreaseRisk(wo)} ELSE {}
     IN \E crossed \in SUBSET (OpenBook \ pulled) :
          /\ held' = [s \in Symbols |->
                        held[s] + WorkingQty(crossed, s, "BUY") - WorkingQty(crossed, s, "SELL")]
          /\ working' = OpenBook \ (pulled \cup crossed)
          /\ outcome' = Retired(Retired(OpenOutcome, pulled, "CANCELLED"), crossed, "FILLED")
          /\ IF crossed = {} THEN budget' = OpenBudget ELSE budget' \in Levels
          /\ sweepSettling' = (crossed # {})
  /\ UNCHANGED <<mark, controlVars, today, auditUp, settling, replacing>>

\* The end of a sweep that filled something.
SettleSweep ==
  /\ sweepSettling
  /\ sweepSettling' = FALSE
  /\ IF budget = "spent" THEN EngageKill ELSE UNCHANGED <<killActive, halted, bookVars>>
  /\ UNCHANGED <<held, mark, override, budget, clockVars, auditUp, settling, replacing>>

\* A cancel that looked the order up before it took the lock.
CancelWorkingStale(o) ==
  /\ outcome[o] \in {"WORKING", "FILLED"}
  /\ working' = {wo \in working : wo.id # o}
  /\ outcome' = [outcome EXCEPT ![o] = "CANCELLED"]
  /\ UNCHANGED <<held, mark, controlVars, budget, clockVars, auditUp, handlerVars>>

\* cancel_working: an order that no longer rests is a 404 and changes nothing.
CancelWorking(o) ==
  /\ o \in Ids(working)
  /\ working' = {wo \in working : wo.id # o}
  /\ outcome' = [outcome EXCEPT ![o] = "CANCELLED"]
  /\ UNCHANGED <<held, mark, controlVars, budget, clockVars, auditUp, handlerVars>>

\* A replace that leaves its original resting until the new order is in.
ReplaceBeginLate(o) ==
  \E wo \in working, qty \in 1..MaxQty :
    /\ wo.id = o
    /\ replacing' = replacing \cup
         {[of |-> o, symbol |-> wo.symbol, side |-> wo.side, quantity |-> qty, tif |-> wo.tif]}
    /\ UNCHANGED <<bookVars, held, mark, controlVars, budget, clockVars, auditUp, settling,
                   sweepSettling>>

\* A replace whose new quantity nobody validated.
ReplaceBeginUnvalidated(o) ==
  \E wo \in working, qty \in 0..MaxQty :
    /\ wo.id = o
    /\ working' = working \ {wo}
    /\ outcome' = [outcome EXCEPT ![o] = "CANCELLED"]
    /\ replacing' = replacing \cup
         {[of |-> o, symbol |-> wo.symbol, side |-> wo.side, quantity |-> qty, tif |-> wo.tif]}
    /\ UNCHANGED <<held, mark, controlVars, budget, clockVars, auditUp, settling, sweepSettling>>

\* replace_working up to its audit drain: the original is cancelled, and the
\* replacement exists only in the suspended handler.
ReplaceBegin(o) ==
  \E wo \in working, qty \in 1..MaxQty :
    /\ wo.id = o
    /\ working' = working \ {wo}
    /\ outcome' = [outcome EXCEPT ![o] = "CANCELLED"]
    /\ replacing' = replacing \cup
         {[of |-> o, symbol |-> wo.symbol, side |-> wo.side, quantity |-> qty, tif |-> wo.tif]}
    /\ UNCHANGED <<held, mark, controlVars, budget, clockVars, auditUp, settling, sweepSettling>>

\* replace_working after its drain: the replacement faces every gate as a new
\* order with a new id.
ReplaceFinish(r, o) ==
  /\ r \in replacing
  /\ Enter(o, r.symbol, r.side, r.quantity, "LIMIT", r.tif)
  /\ replacing' = replacing \ {r}

\* The same, when the roll inside submit raises: the original stays cancelled and
\* no replacement is ever decided.
ReplaceAborts(r) ==
  /\ r \in replacing
  /\ ~CanOpen
  /\ replacing' = replacing \ {r}
  /\ UNCHANGED <<bookVars, held, mark, controlVars, budget, clockVars, auditUp, settling,
                 sweepSettling>>

\* reset_book: persisted first, then the paper book is flat and nothing rests.  The
\* kill switch, the halts and the override stay as they are.
ResetBook ==
  /\ auditUp
  /\ held' = [s \in Symbols |-> 0]
  /\ working' = {}
  /\ outcome' = Retired(outcome, working, "CANCELLED")
  /\ budget' = "open"
  /\ UNCHANGED <<mark, controlVars, clockVars, auditUp, handlerVars>>

-----------------------------------------------------------------------------
(* The risk monitor *)

Roll ==
  /\ RollDue /\ auditUp
  /\ session' = today
  /\ working' = OpenBook
  /\ outcome' = OpenOutcome
  /\ budget' = OpenBudget
  /\ UNCHANGED <<killActive, halted>>

Breaker ==
  /\ RollDue => ~auditUp
  /\ ~killActive
  /\ budget = "spent"
  /\ EngageKill
  /\ UNCHANGED <<session, budget>>

\* A monitor whose failed roll ends the tick.
MonitorTickStrict ==
  /\ Roll \/ (Breaker /\ ~RollDue)
  /\ UNCHANGED <<held, mark, override, today, auditUp, handlerVars>>

\* A monitor that never looks at the calendar.
MonitorTickNoRoll ==
  /\ Breaker
  /\ UNCHANGED <<held, mark, override, today, auditUp, handlerVars>>

\* One tick: roll if a roll is due and can be persisted (the drawdown then starts
\* from zero); otherwise, also after a roll that failed, trip on a breach.
MonitorTick ==
  /\ Roll \/ Breaker
  /\ UNCHANGED <<held, mark, override, today, auditUp, handlerVars>>

-----------------------------------------------------------------------------
(* The world outside the gateway *)

\* The market marks a symbol somewhere else; a position in it moves the day's P&L.
MarketMoves(s, price) ==
  /\ mark[s] # price
  /\ mark' = [mark EXCEPT ![s] = price]
  /\ IF held[s] = 0 THEN UNCHANGED budget ELSE budget' \in Levels
  /\ UNCHANGED <<bookVars, held, controlVars, clockVars, auditUp, handlerVars>>

Midnight ==
  /\ today < LastDay
  /\ today' = today + 1
  /\ UNCHANGED <<bookVars, held, mark, controlVars, budget, session, auditUp, handlerVars>>

AuditChanges ==
  /\ auditUp' = ~auditUp
  /\ UNCHANGED <<bookVars, held, mark, controlVars, budget, clockVars, handlerVars>>

-----------------------------------------------------------------------------
Init ==
  /\ outcome = [o \in Orders |-> "NEW"]
  /\ working = {}
  /\ held = [s \in Symbols |-> 0]
  /\ mark \in [Symbols -> Marks]
  /\ killActive = FALSE
  /\ halted = {}
  /\ override = FALSE
  /\ budget = "open"
  /\ today = 0
  /\ session = 0
  /\ auditUp = TRUE
  /\ settling = {}
  /\ sweepSettling = FALSE
  /\ replacing = {}

Client ==
  \/ \E o \in Orders : Submit(o) \/ CancelWorking(o) \/ ReplaceBegin(o)
  \/ \E r \in replacing : ReplaceAborts(r) \/ \E o \in Orders : ReplaceFinish(r, o)

Operator ==
  \/ TriggerKill \/ ReleaseKill \/ ResetBook
  \/ \E s \in Symbols : HaltSymbol(s) \/ ResumeSymbol(s)
  \/ \E enabled \in BOOLEAN : SetReduceOnly(enabled)

Gateway ==
  \/ Sweep \/ SettleSweep \/ MonitorTick
  \/ \E o \in Orders : Settle(o)

World ==
  \/ \E s \in Symbols, price \in Marks : MarketMoves(s, price)
  \/ Midnight \/ AuditChanges

Next == Client \/ Operator \/ Gateway \/ World

Spec == Init /\ [][Next]_vars

\* The monitor task runs for the life of the process and survives every error of
\* its own tick; nothing else need ever happen.
FairSpec == Spec /\ WF_vars(MonitorTick)

-----------------------------------------------------------------------------
(* Properties *)

\* The worst position the resting book can still produce in a symbol.
WorstCase(s) == Projected(working, s, 0)

\* The lots of one symbol the notional cap buys at the lowest mark.
LotCap == MaxSymbolNotional \div LowMark

\* Whatever subset of the resting book fills, in whatever order, no symbol's
\* position exceeds what the concentration cap allows, up to the drift of one
\* taker fill: each resting order was admitted against both whole sides of the
\* book (projected_symbol_notional), and no fill, cancel, pull or roll afterwards
\* raises the worst case.
ConcentrationHolds == \A s \in Symbols : WorstCase(s) <= LotCap + MaxFillDrift

\* A halt reaches the resting book and stays there: while the kill switch is on
\* nothing rests, and nothing rests in a halted symbol, however submits, replaces
\* and sweeps interleave with trigger_kill.
HaltedDeskRestsNothing ==
  /\ killActive => working = {}
  /\ \A wo \in working : wo.symbol \notin halted

\* The resting book never outgrows its ceiling, replaces included: the slot a
\* replace frees may be taken before its replacement arrives.
WorkingBookBounded == Cardinality(working) <= MaxWorkingOrders

\* No resting order survives into another session, whichever of submit, the sweep
\* and the monitor rolls first.
NothingOutlivesItsSession == \A wo \in working : wo.session = session

\* A replace in flight never leaves the desk with both orders, and an order is
\* replaced at most once: its original is already cancelled.
ReplaceNeverDoubles ==
  \A r \in replacing :
    /\ outcome[r.of] = "CANCELLED"
    /\ \A q \in replacing : q.of = r.of => q = r

\* The resting book and the outcomes reported for orders agree, one order per id.
BookMatchesOutcomes ==
  /\ \A o \in Orders : outcome[o] = "WORKING" <=> o \in Ids(working)
  /\ \A a, b \in working : a.id = b.id => a = b

\* An order reaches one terminal outcome, once.
TerminalOnce ==
  [][\A o \in Orders : outcome[o] \in Terminal => outcome'[o] = outcome[o]]_vars

\* While the desk or a symbol is halted, the only thing that moves the halted
\* position is the paper-book reset.
HaltedPositionsStand ==
  [][\A s \in Symbols :
       (killActive \/ s \in halted) /\ held'[s] # held[s] => held'[s] = 0 /\ working' = {}]_vars

\* A drawdown at the limit halts the desk or recovers: the breaker does not wait
\* for an order, and does not wait for an audit store that refuses the rollover.
BreachEventuallyHalts == (budget = "spent") ~> (killActive \/ budget # "spent")

\* An order from a session that has ended leaves the book with no order, sweep or
\* operator to help it, as long as the rollover can be persisted.
StaleOrdersLeave ==
  \A o \in Orders :
    (outcome[o] = "WORKING" /\ RollDue) ~> (outcome[o] # "WORKING" \/ ~auditUp)

\* The desk the gateway implements: resting orders are committed lots, and the
\* kill switch stops every symbol.
Desk == INSTANCE ExposureDesk WITH
  Cap <- LotCap,
  Drift <- MaxFillDrift,
  position <- held,
  bids <- [s \in Symbols |-> WorkingQty(working, s, "BUY")],
  offers <- [s \in Symbols |-> WorkingQty(working, s, "SELL")],
  stopped <- IF killActive THEN Symbols ELSE halted

\* The gateway keeps the desk's promise step by step: a halted symbol commits and
\* trades nothing, admission stays within the cap, and only committed lots fill
\* later (submit, the sweep, the cancels, the replace, the roll and the reset).
RefinesDesk == Desk!DeskSpec

\* What the gate's comment claims of gross exposure: committed capital is
\* exposure whether or not it has landed, so fills cannot breach the gross cap.
GrossCapHolds == GrossExposure <= MaxGross

=============================================================================
