---------------------------- MODULE SessionLedger ----------------------------
(***************************************************************************)
(* What the risk gateway writes down, and what a restarted gateway may       *)
(* claim to know (risk_proxy/rehydrate.py, audit/boundaries.py).            *)
(*                                                                         *)
(* The audit store holds a row per filled order, written after the lock is   *)
(* released and best effort, and two strict boundaries: book_reset and       *)
(* session_rollover.  A restart reads today's rows and today's boundaries    *)
(* and rebuilds the account from nothing else.                              *)
(*                                                                         *)
(* Money is abstracted to the fills that made it: an account is the set of   *)
(* fills in this session's realized P&L and the set banked by sessions that  *)
(* have closed.  One symbol is modelled, the replay orders fills per symbol. *)
(***************************************************************************)
EXTENDS Integers, FiniteSets, FiniteSetsExt

CONSTANTS
  Fills,        \* fills the desk may ever make
  DayLength,    \* clock readings in one UTC day
  LastTime,     \* last clock reading of the model (bound of the clock)
  SweepMax,     \* fills one sweep may make (bound of the model)
  CoarseClock   \* two handlers may read the same clock, or one still behind a stamp

ASSUME LedgerAssumption ==
  /\ IsFiniteSet(Fills)
  /\ DayLength \in Nat \ {0}
  /\ LastTime \in Nat \ {0}
  /\ SweepMax \in Nat
  /\ CoarseClock \in BOOLEAN

VARIABLES
  clock,      \* the UTC wall clock
  up,         \* whether a gateway is running
  session,    \* session_date: the day it believes it is trading
  book,       \* the fills in this session's realized P&L
  banked,     \* the fills in carried_realized_pnl
  overnight,  \* equity holds the opening mark of positions carried into the session
  marked,     \* start_of_day_equity holds that mark
  lastStamp,  \* _last_fill_stamp, 0 when cleared
  pending,    \* order rows decided and not yet in the store
  orders,     \* order rows in the store
  resets,     \* timestamps of the book_reset rows
  rollovers,  \* session_rollover rows
  lost,       \* fills whose row never reached the store
  wiped,      \* fills some reset has written off
  astray      \* fills stamped in another day than the session that counted them

accountVars == <<book, banked, overnight, marked>>
storeVars == <<orders, resets, rollovers>>
vars == <<clock, up, session, accountVars, lastStamp, pending, storeVars, lost, wiped, astray>>

Time == 1..LastTime
Stamps == 1..(LastTime + Cardinality(Fills))
DayOf(t) == t \div DayLength
Days == 0..DayOf(LastTime)

Row == [fill : Fills, ts : Stamps]
Rollover ==
  [ts : Time, session : Days, banked : SUBSET Fills, mark : BOOLEAN]

TypeOK ==
  /\ clock \in Time
  /\ up \in BOOLEAN
  /\ session \in Days
  /\ book \subseteq Fills /\ banked \subseteq Fills
  /\ overnight \in BOOLEAN /\ marked \in BOOLEAN
  /\ lastStamp \in Nat
  /\ pending \subseteq Row /\ orders \subseteq Row
  /\ resets \subseteq Time
  /\ rollovers \subseteq Rollover
  /\ lost \subseteq Fills /\ wiped \subseteq Fills /\ astray \subseteq Fills

-----------------------------------------------------------------------------
(* What the store says *)

Today == DayOf(clock)

InDay(rows, day) == {r \in rows : DayOf(r.ts) = day}

ResetsOf(day) == {t \in resets : DayOf(t) = day}

AfterReset(ts, day) == \A t \in ResetsOf(day) : t < ts

\* accepted_fills_for_session that forgets the reset boundary.
ReplayRowsThroughReset(day) == InDay(orders, day)

\* accepted_fills_for_session: the day's filled orders after its last reset.
ReplayRows(day) == {r \in InDay(orders, day) : AfterReset(r.ts, day)}

Replay(day) == {r.fill : r \in ReplayRows(day)}

Latest(rows) == CHOOSE r \in rows : \A q \in rows : q.ts <= r.ts

\* latest_session_rollover that lets a rollover outlive a later reset.
RecordsThroughReset(day) == {r \in InDay(rollovers, day) : r = Latest(InDay(rollovers, day))}

\* latest_session_rollover: the day's last record, unless a reset came after it.
Records(day) ==
  {r \in InDay(rollovers, day) : r = Latest(InDay(rollovers, day)) /\ AfterReset(r.ts, day)}

\* The carry a restart reads; no record, also across a missed boundary, reads as none.
Carry(day) == UNION {r.banked : r \in Records(day)}

\* The store refuses to order rows that tie: a fill with a reset, a rollover with a
\* reset, or two fills of the symbol; and a record must name its own day.
Restorable(day) ==
  /\ \A r \in InDay(orders, day) : r.ts \notin ResetsOf(day)
  /\ \A r, q \in ReplayRows(day) : r.ts = q.ts => r = q
  /\ \A r \in InDay(rollovers, day) : r = Latest(InDay(rollovers, day)) => r.ts \notin ResetsOf(day)
  /\ \A r \in Records(day) : r.session = day

-----------------------------------------------------------------------------
(* The running gateway *)

RollDue == session # Today

Given == {r.ts : r \in orders \cup pending \cup rollovers} \cup resets

\* Unless the clock is coarse, a handler reads a later time than any already given out.
ClockIsFresh == CoarseClock \/ \A t \in Given : t < clock

Fresh == Fills \ (book \cup banked \cup lost \cup wiped \cup {r.fill : r \in orders \cup pending})

\* _roll_session_if_needed: persisted first, then the session's fills are banked and
\* the baseline becomes the equity, marks of open positions included.  A write that
\* fails raises, and nothing has moved.  A crash between the two is a crash after
\* both: memory dies with the process.
Roll ==
  /\ session' = Today
  /\ banked' = banked \cup book
  /\ \E open \in (IF book \cup banked = {} THEN {FALSE} ELSE BOOLEAN) :
       /\ rollovers' = rollovers \cup
            {[ts |-> clock, session |-> Today, banked |-> banked \cup book, mark |-> open]}
       /\ overnight' = open
       /\ marked' = open
  /\ UNCHANGED resets

\* A fill stamp that repeats the sweep's one clock reading.
FillStampRepeats(last, now) == now

\* _fill_stamp: strictly after the last stamp of the symbol.
FillStamp(last, now) == IF last < now THEN now ELSE last + 1

\* submit, for an order that takes: a due roll first, then the fill, whose row is
\* stamped with decided_at, a later reading of the clock, which may lie on the far side
\* of midnight from the roll.  A worker thread writes the row, and nobody but this
\* submit waits for it.
TakerFill(f) ==
  /\ up /\ f \in Fresh /\ ClockIsFresh
  /\ \E decided \in {clock, clock + 1} :
       /\ decided <= LastTime
       /\ clock' = decided
       /\ pending' = pending \cup {[fill |-> f, ts |-> decided]}
       /\ astray' = astray \cup {g \in {f} : DayOf(decided) # Today}
       /\ lastStamp' = FillStamp(IF RollDue THEN 0 ELSE lastStamp, decided)
  /\ book' = (IF RollDue THEN {} ELSE book) \cup {f}
  /\ IF RollDue THEN Roll
     ELSE UNCHANGED <<session, banked, overnight, marked, resets, rollovers>>
  /\ UNCHANGED <<up, orders, lost, wiped>>

\* One sweep fills several resting orders of the symbol off one clock reading, nudging
\* each stamp past the last, past midnight if need be.  A due roll would have emptied the
\* resting book.
SweepFills ==
  /\ up /\ ~RollDue /\ ClockIsFresh
  /\ \E n \in 1..SweepMax :
     \E filled \in [1..n -> Fresh], stamp \in [1..n -> Stamps] :
       /\ \A i, j \in 1..n : filled[i] = filled[j] => i = j
       /\ \A i \in 1..n : stamp[i] = FillStamp(IF i = 1 THEN lastStamp ELSE stamp[i - 1], clock)
       /\ astray' = astray \cup {filled[i] : i \in {k \in 1..n : DayOf(stamp[k]) # Today}}
       /\ book' = book \cup {filled[i] : i \in 1..n}
       /\ pending' = pending \cup {[fill |-> filled[i], ts |-> stamp[i]] : i \in 1..n}
       /\ lastStamp' = stamp[n]
  /\ UNCHANGED <<clock, up, session, banked, overnight, marked, storeVars, lost, wiped>>

\* A roll that leaves the closing session's counters where they were.
CrossBoundaryKeepingRealized ==
  /\ up /\ RollDue /\ ClockIsFresh
  /\ Roll
  /\ lastStamp' = 0
  /\ UNCHANGED <<clock, up, book, pending, orders, lost, wiped, astray>>

\* The monitor, or a handler that fills nothing, crosses the boundary.
CrossBoundary ==
  /\ up /\ RollDue /\ ClockIsFresh
  /\ Roll
  /\ book' = {}
  /\ lastStamp' = 0
  /\ UNCHANGED <<clock, up, pending, orders, lost, wiped, astray>>

\* reset_book: the boundary first, then the account is back on its opening balance.
\* It does not roll a due session.
ResetBook ==
  /\ up /\ ClockIsFresh
  /\ resets' = resets \cup {clock}
  /\ book' = {} /\ banked' = {}
  /\ overnight' = FALSE /\ marked' = FALSE
  /\ lastStamp' = 0
  /\ wiped' = wiped \cup book \cup banked
  /\ UNCHANGED <<clock, up, session, pending, orders, rollovers, lost, astray>>

\* A queued row reaches the store, or its write fails and is logged and dropped.
WriteRow(r) ==
  /\ up /\ r \in pending
  /\ pending' = pending \ {r}
  /\ orders' = orders \cup {r}
  /\ UNCHANGED <<clock, up, session, accountVars, lastStamp, resets, rollovers, lost, wiped, astray>>

DropRow(r) ==
  /\ up /\ r \in pending
  /\ pending' = pending \ {r}
  /\ lost' = lost \cup {r.fill}
  /\ UNCHANGED <<clock, up, session, accountVars, lastStamp, storeVars, wiped, astray>>

-----------------------------------------------------------------------------
(* Crash and restart *)

\* The process dies with whatever it had not written.  The account variables keep
\* what it knew, for the properties.
Crash ==
  /\ up
  /\ up' = FALSE
  /\ pending' = {}
  /\ lost' = lost \cup {r.fill : r \in pending}
  /\ UNCHANGED <<clock, session, accountVars, lastStamp, storeVars, wiped, astray>>

\* Construction: the baseline less the mark the replay cannot rebuild, then the day's
\* fills.  An ambiguous store refuses, and no gateway starts.
Restart ==
  /\ ~up /\ Restorable(Today)
  /\ up' = TRUE
  /\ session' = Today
  /\ book' = Replay(Today)
  /\ banked' = Carry(Today)
  /\ overnight' = FALSE
  /\ marked' = FALSE
  /\ lastStamp' = 0
  /\ UNCHANGED <<clock, pending, storeVars, lost, wiped, astray>>

Tick ==
  /\ clock < LastTime
  /\ clock' = clock + 1
  /\ UNCHANGED <<up, session, accountVars, lastStamp, pending, storeVars, lost, wiped, astray>>

-----------------------------------------------------------------------------
Init ==
  /\ clock = 1
  /\ up = TRUE
  /\ session = DayOf(1)
  /\ book = {} /\ banked = {}
  /\ overnight = FALSE /\ marked = FALSE
  /\ lastStamp = 0
  /\ pending = {} /\ orders = {} /\ resets = {} /\ rollovers = {}
  /\ lost = {} /\ wiped = {} /\ astray = {}

Next ==
  \/ \E f \in Fills : TakerFill(f)
  \/ SweepFills \/ CrossBoundary \/ ResetBook
  \/ \E r \in pending : WriteRow(r) \/ DropRow(r)
  \/ Crash \/ Restart \/ Tick

Spec == Init /\ [][Next]_vars

-----------------------------------------------------------------------------
(* Properties *)

Unrecorded == lost \cup {r.fill : r \in pending}

\* Were the gateway to restart now, its replay would find exactly the fills of the
\* live session, less those whose row had not been written: no reset fill returns, no
\* closed session leaks in, no fill is invented (accepted_fills_for_session). A fill stamped
\* across midnight is found on the other day (decision.py:264), and it alone.
ReplayIsBook ==
  up /\ ~RollDue => Replay(session) \ astray = book \ (Unrecorded \cup astray)

\* The baseline of a live session is the one a restart would find: the store gives back
\* the carry the account stands on, for rollover and reset are written before memory
\* moves, and the baseline holds the mark of carried positions exactly when equity does,
\* so the session opens with its budget unspent (record_session_rollover,
\* record_book_reset, latest_session_rollover).
CarryIsDurable ==
  /\ up /\ ~RollDue => Carry(session) = banked
  /\ up => marked = overnight

\* A fill counts in one place: never both in today's realized P&L and in what closed
\* sessions banked, and, once a reset has written it off, in neither, whatever rolls,
\* crashes and restarts lie between. Only a fill stamped across midnight can be banked by
\* the session that made it and replayed into the next one.
CountedOnce ==
  /\ TypeOK
  /\ book \cap banked \subseteq astray
  /\ up => (book \cup banked) \cap wiped \subseteq astray

\* The store never holds a tie, so a gateway that stopped can always start again.
AlwaysBootable == Restorable(Today)

=============================================================================
