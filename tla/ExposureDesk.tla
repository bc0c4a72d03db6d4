---------------------------- MODULE ExposureDesk ----------------------------
(***************************************************************************)
(* What the risk gateway promises about exposure, with no orders, handlers *)
(* or sessions: per symbol a position and the lots committed on each side  *)
(* by resting orders.  A desk may commit or trade only where it is not      *)
(* stopped and only within its cap; what is committed may fill or be        *)
(* withdrawn at any time.                                                  *)
(***************************************************************************)
EXTENDS Integers

CONSTANTS
  Symbols,
  Cap,      \* lots a symbol's worst case may reach when an order is admitted
  Drift     \* lots by which one trade may differ from the order admitted

VARIABLES
  position,   \* per symbol: signed lots held
  bids,       \* per symbol: lots resting to buy
  offers,     \* per symbol: lots resting to sell
  stopped     \* symbols in which the desk may not act

deskVars == <<position, bids, offers, stopped>>

Size(n) == IF n >= 0 THEN n ELSE -n

\* The worst position a symbol can reach when either resting side fills alone.
WithinAt(p, b, f, cap) == Size(p + b) <= cap /\ Size(p - f) <= cap

DeskTypeOK ==
  /\ position \in [Symbols -> Int]
  /\ bids \in [Symbols -> Nat]
  /\ offers \in [Symbols -> Nat]
  /\ stopped \subseteq Symbols

DeskInit ==
  /\ position = [s \in Symbols |-> 0]
  /\ bids = [s \in Symbols |-> 0]
  /\ offers = [s \in Symbols |-> 0]
  /\ stopped = {}

\* Resting lots leave the book; the position stays.
Withdraws(s) ==
  /\ position'[s] = position[s]
  /\ bids'[s] <= bids[s]
  /\ offers'[s] <= offers[s]

\* Resting lots leave the book, and any part of them on either side fills.
Fills(s) ==
  /\ bids'[s] <= bids[s]
  /\ offers'[s] <= offers[s]
  /\ position'[s] - position[s] <= bids[s] - bids'[s]
  /\ position[s] - position'[s] <= offers[s] - offers'[s]

\* Lots are committed on one side, within the cap; none on the other.
Commits(s) ==
  /\ position'[s] = position[s]
  /\ \/ Size(position[s] + bids'[s]) <= Cap /\ offers'[s] <= offers[s]
     \/ Size(position[s] - offers'[s]) <= Cap /\ bids'[s] <= bids[s]

\* The position moves at once, and nothing is committed.
Trades(s) ==
  /\ WithinAt(position'[s], bids'[s], offers'[s], Cap + Drift)
  /\ bids'[s] <= bids[s]
  /\ offers'[s] <= offers[s]

Act ==
  /\ \E s \in Symbols \ stopped :
       /\ Commits(s) \/ Trades(s)
       /\ \A t \in Symbols \ {s} : Withdraws(t)
  /\ UNCHANGED stopped

Settle ==
  /\ \A s \in Symbols : Fills(s)
  /\ UNCHANGED stopped

Stop ==
  /\ stopped \subseteq stopped'
  /\ \A s \in Symbols : Withdraws(s)
  /\ \A s \in stopped' : bids'[s] = 0 /\ offers'[s] = 0

Resume ==
  /\ stopped' \subseteq stopped
  /\ UNCHANGED <<position, bids, offers>>

Flatten ==
  /\ position' = [s \in Symbols |-> 0]
  /\ bids' = [s \in Symbols |-> 0]
  /\ offers' = [s \in Symbols |-> 0]
  /\ UNCHANGED stopped

DeskNext ==
  /\ DeskTypeOK'
  /\ Act \/ Settle \/ Stop \/ Resume \/ Flatten

DeskSpec == DeskInit /\ [][DeskNext]_deskVars

=============================================================================
