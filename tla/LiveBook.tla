------------------------------ MODULE LiveBook ------------------------------
(***************************************************************************)
(* One venue of the live order book: the supervised socket                    *)
(* (lib/livebook-socket.ts), the hysteresis that says whether the venue may    *)
(* price an order (lib/venue-liveness.ts) and the hook's publish tick           *)
(* (lib/livebook.ts). Handlers are functions from a connection to a             *)
(* connection, because the code runs each to its end. Venues share nothing but  *)
(* the merge of what each may price, so one venue of either kind is modelled.    *)
(* Deadlines are not counted in milliseconds: what expires is a step.            *)
(***************************************************************************)
EXTENDS Integers, FiniteSets

CONSTANTS
  Kinds,       \* "partial": whole books; "sequenced": a snapshot and numbered deltas
  LastNumber,  \* sequence numbers wrap here; the venue's do not
  Promotion,   \* PROMOTION_UPDATES
  MaxBackoff,  \* doublings up to MAX_BACKOFF_MS
  MaxEvents    \* bound on faults, silences, restarts and symbol changes

ASSUME LiveBookAssumption ==
  /\ Kinds \subseteq {"partial", "sequenced"} /\ Promotion \in Nat \ {0}
  /\ LastNumber \in Nat /\ LastNumber > 2
  /\ {MaxBackoff, MaxEvents} \subseteq Nat

VARIABLES
  kind,       \* the venue's feed
  enabled,    \* the hook runs
  conn,       \* the supervisor's closure, the ladder and the venue's liveness
  shown,      \* the status the hook last published
  reachable,  \* external: the venue's hosts answer
  flowing,    \* external: the venue has books to send
  heard,      \* books since the last silence, -1 before one
  books,      \* books the current socket has brought
  events      \* bounded events so far

vars == <<kind, enabled, conn, shown, reachable, flowing, heard, books, events>>

Numbers == 1..LastNumber
Slots == {1, 2}
Nowhere == 0
Phases == {"none", "connecting", "hung", "open"}
Frames == [u : Numbers, snapshot : BOOLEAN]
NoFrame == [u |-> 0, snapshot |-> FALSE]
NoSocket == [phase |-> "none", subscribed |-> FALSE, got |-> FALSE, settled |-> FALSE,
             bare |-> FALSE, sent |-> 0, wire |-> NoFrame]

\* A ladder is the venue's book at a number, unless deltas are missing from it.
NoLadder == [at |-> 0, whole |-> TRUE]
Unmarked == -1

Fresh == [sockets |-> [i \in Slots |-> NoSocket], ws |-> Nowhere, timers |-> {}, retry |-> FALSE,
          backoff |-> 0, seq |-> 0, ladder |-> NoLadder, book |-> NoLadder,
          transport |-> "connecting", age |-> "never", since |-> Unmarked]

TypeOK ==
  /\ kind \in Kinds /\ {enabled, reachable, flowing} \subseteq BOOLEAN
  /\ \A i \in Slots : LET s == conn.sockets[i] IN
       /\ s.phase \in Phases /\ {s.subscribed, s.got, s.settled, s.bare} \subseteq BOOLEAN
       /\ s.sent \in Numbers \cup {0} /\ s.wire \in Frames \cup {NoFrame}
       /\ s.phase # "open" => s.wire = NoFrame /\ ~s.got
  /\ conn.ws \in Slots \cup {Nowhere} /\ conn.timers \subseteq {"handshake", "silence", "stable"}
  /\ conn.backoff \in 0..MaxBackoff /\ conn.seq \in Numbers \cup {0}
  /\ conn.transport \in {"connecting", "live", "error"} /\ conn.age \in {"never", "fresh", "old"}
  /\ conn.since \in Unmarked..Promotion
  /\ shown \in {"none", "connecting", "live", "stale", "error"}
  /\ heard \in Unmarked..Promotion /\ books \in 0..2 /\ events \in 0..MaxEvents

Succ(u) == IF u + 1 \in Numbers THEN u + 1 ELSE 1
AtMost(n, limit) == IF n < limit THEN n ELSE limit
Event == events < MaxEvents /\ events' = events + 1

(*** The supervisor *********************************************************)

\* discardSocket: handlers detached, so nothing of it arrives any more.
Discarded(c) ==
  IF c.ws = Nowhere THEN c ELSE [c EXCEPT !.sockets[c.ws] = NoSocket, !.ws = Nowhere]

\* retry: the one path of every fault.
Retried(c) ==
  LET d == [Discarded(c) EXCEPT !.timers = {}]
  IN IF d.retry THEN d
     ELSE [d EXCEPT !.seq = 0, !.ladder = NoLadder, !.transport = "error", !.retry = TRUE,
                    !.backoff = AtMost(@ + 1, MaxBackoff)]

\* open: a new socket, and the deadline of its handshake. A constructor that throws leaves
\* what an immediate socket error leaves.
Opened(c, answers) ==
  LET i == CHOOSE i \in Slots : c.sockets[i].phase = "none"
  IN [c EXCEPT !.sockets[i] = [NoSocket EXCEPT !.phase = IF answers THEN "connecting" ELSE "hung"],
               !.ws = i, !.timers = @ \cup {"handshake"},
               !.transport = IF @ = "live" THEN @ ELSE "connecting"]

\* A restart that leaves the pending retry behind.
RestartedTwice(c, answers) ==
  Opened([Discarded(c) EXCEPT !.timers = {}, !.backoff = 0, !.seq = 0, !.ladder = NoLadder,
                              !.transport = "connecting", !.since = Unmarked], answers)

\* restart: what an operator asks for starts from nothing.
Restarted(c, answers) ==
  Opened([Discarded(c) EXCEPT !.retry = FALSE, !.timers = {}, !.backoff = 0, !.seq = 0,
                              !.ladder = NoLadder, !.transport = "connecting", !.since = Unmarked],
         answers)

\* An upgrade that waits for the first book before it watches for silence.
UpgradedTrusting(c, subscribed) ==
  [c EXCEPT !.sockets[c.ws].phase = "open", !.sockets[c.ws].subscribed = subscribed,
            !.timers = @ \ {"handshake"}]

\* onopen: the upgrade succeeded; books are due from now on.
Upgraded(c, subscribed) ==
  [c EXCEPT !.sockets[c.ws].phase = "open", !.sockets[c.ws].subscribed = subscribed,
            !.timers = (@ \ {"handshake"}) \cup {"silence"}]

\* A backoff that the first book resets.
NotedAtOnce(c) ==
  LET s == c.sockets[c.ws]
      watched == [c EXCEPT !.timers = @ \cup {"silence"}, !.backoff = 0]
  IN IF ~s.got
     THEN [watched EXCEPT !.sockets[c.ws].got = TRUE, !.transport = "live", !.timers = @ \cup {"stable"}]
     ELSE watched

\* noteValidBook: the first book makes the venue live, and a later one after the stability
\* window resets the backoff.
Noted(c) ==
  LET s == c.sockets[c.ws]
      watched == [c EXCEPT !.timers = @ \cup {"silence"}]
  IN IF ~s.got
     THEN [watched EXCEPT !.sockets[c.ws].got = TRUE, !.transport = "live", !.timers = @ \cup {"stable"}]
     ELSE [watched EXCEPT !.backoff = IF s.settled THEN 0 ELSE @]

(*** Liveness ***************************************************************)

\* VenueLiveness.update: the gap a book closes is itself the evidence of silence.
Updated(c) ==
  [c EXCEPT !.since = IF c.age = "old" THEN 1 ELSE IF @ = Unmarked THEN @ ELSE AtMost(@ + 1, Promotion),
            !.age = "fresh", !.transport = "live", !.book = c.ladder]

\* statusAt: silence demotes at once, and only further books promote.
StatusAt(c) ==
  CASE c.transport # "live" -> c.transport
    [] c.transport = "live" /\ c.age = "old" -> "stale"
    [] c.transport = "live" /\ c.age # "old" /\ c.since \in {Unmarked, Promotion} -> "live"
    [] OTHER -> "stale"

\* What asking leaves behind: the mark moves to now, or is cleared by a promotion.
Asked(c) ==
  [c EXCEPT !.since = IF c.transport # "live" THEN @ ELSE IF c.age = "old" THEN 0
                      ELSE IF StatusAt(c) = "live" THEN Unmarked ELSE @]

(*** Frames *****************************************************************)

\* The gap check on a backward jump only.
GapBackward(c, frame) == ~frame.snapshot /\ c.seq # 0 /\ frame.u < c.seq /\ frame.u # Succ(c.seq)

\* Any step of the sequence other than one.
Gap(c, frame) == ~frame.snapshot /\ c.seq # 0 /\ frame.u # Succ(c.seq)

\* A snapshot replaces the ladder. A delta continues the book it was made for.
Applied(ladder, frame) ==
  [at |-> frame.u,
   whole |-> frame.snapshot \/ (ladder.whole /\ ladder.at # 0 /\ frame.u = Succ(ladder.at))]

\* onmessage: the book handler, or a fresh snapshot instead of a book with holes.
Received(c, frame) ==
  IF Gap(c, frame) THEN Retried(c)
  ELSE Updated(Noted([c EXCEPT !.ladder = Applied(@, frame), !.seq = frame.u]))

Taken(i) == [conn EXCEPT !.sockets[i].wire = NoFrame]

Deliver(i) ==
  LET frame == conn.sockets[i].wire
      taken == Taken(i)
  IN /\ frame # NoFrame
     /\ conn' = IF conn.ws = i THEN Received(taken, frame) ELSE taken
     /\ IF conn.ws # i \/ Gap(taken, frame) THEN UNCHANGED <<heard, books>>
        ELSE /\ heard' = IF heard = Unmarked THEN heard ELSE AtMost(heard + 1, Promotion)
             /\ books' = AtMost(books + 1, 2)
     /\ UNCHANGED <<kind, enabled, shown, reachable, flowing, events>>

\* The venue sends its book: a whole one, or the snapshot and then the deltas in turn.
VenueSends(i) ==
  LET s == conn.sockets[i]
  IN /\ s.phase = "open" /\ s.subscribed /\ flowing /\ s.wire = NoFrame
     /\ \E u \in IF s.sent = 0 THEN Numbers ELSE {Succ(s.sent)} :
          conn' = [conn EXCEPT !.sockets[i].sent = u,
                               !.sockets[i].wire = [u |-> u, snapshot |-> kind = "partial" \/ s.sent = 0]]
     /\ UNCHANGED <<kind, enabled, shown, reachable, flowing, heard, books, events>>

\* A frame is lost or does not parse. A socket that loses its first one begins bare: nothing
\* tells it that its snapshot never came, and the next delta is applied to an empty ladder.
FrameLost(i) ==
  LET s == conn.sockets[i]
  IN /\ s.wire # NoFrame /\ Event
     /\ conn' = [conn EXCEPT !.sockets[i] = [s EXCEPT !.wire = NoFrame, !.bare = s.bare \/ ~s.got]]
     /\ UNCHANGED <<kind, enabled, shown, reachable, flowing, heard, books>>

(*** Sockets and timers *****************************************************)

Replaced(c) == conn' = c /\ books' = 0

\* The upgrade ends. A subscription that could not be sent leaves a socket that says nothing.
SocketOpens ==
  /\ conn.ws # Nowhere /\ conn.sockets[conn.ws].phase = "connecting"
  /\ \/ conn' = Upgraded(conn, TRUE) /\ UNCHANGED events
     \/ kind = "sequenced" /\ conn' = Upgraded(conn, FALSE) /\ Event
  /\ UNCHANGED <<kind, enabled, shown, reachable, flowing, heard, books>>

\* An error, a close, or a heartbeat that cannot be sent.
SocketFails ==
  /\ conn.ws # Nowhere /\ Event
  /\ Replaced(Retried(conn))
  /\ UNCHANGED <<kind, enabled, shown, reachable, flowing, heard>>

HandshakeExpires ==
  /\ "handshake" \in conn.timers
  /\ IF conn.sockets[conn.ws].phase = "hung" THEN UNCHANGED events ELSE Event
  /\ Replaced(Retried(conn))
  /\ UNCHANGED <<kind, enabled, shown, reachable, flowing, heard>>

\* The watchdog outlasts the threshold that makes a venue stale.
SilenceExpires ==
  /\ "silence" \in conn.timers
  /\ conn.sockets[conn.ws].got => conn.age = "old"
  /\ IF conn.sockets[conn.ws].subscribed /\ flowing THEN Event ELSE UNCHANGED events
  /\ Replaced(Retried(conn))
  /\ UNCHANGED <<kind, enabled, shown, reachable, flowing, heard>>

\* The stability window passes: it takes a later book to show that the feed is stable.
StableElapses ==
  /\ "stable" \in conn.timers
  /\ conn' = [conn EXCEPT !.timers = @ \ {"stable"}, !.sockets[conn.ws].settled = TRUE]
  /\ UNCHANGED <<kind, enabled, shown, reachable, flowing, heard, books, events>>

RetryFires ==
  /\ conn.retry
  /\ Replaced(Opened([conn EXCEPT !.retry = FALSE], reachable))
  /\ UNCHANGED <<kind, enabled, shown, reachable, flowing, heard, events>>

\* STALE_AFTER_MS pass without a book.
Silence ==
  /\ conn.age = "fresh"
  /\ IF flowing /\ conn.ws # Nowhere THEN Event ELSE UNCHANGED events
  /\ conn' = [conn EXCEPT !.age = "old"] /\ heard' = 0
  /\ UNCHANGED <<kind, enabled, shown, reachable, flowing, books>>

(*** The hook and the operator **********************************************)

Publish ==
  /\ enabled
  /\ shown' = StatusAt(conn) /\ conn' = Asked(conn)
  /\ UNCHANGED <<kind, enabled, reachable, flowing, heard, books, events>>

Restart ==
  /\ enabled /\ Event
  /\ Replaced(Restarted(conn, reachable))
  /\ heard' = IF conn.age = "old" THEN heard ELSE Unmarked
  /\ UNCHANGED <<kind, enabled, shown, reachable, flowing>>

\* The effect's cleanup stops the handle; another symbol, or the hook enabled again, makes a
\* new one with a liveness of its own.
Toggle ==
  /\ IF enabled THEN Event ELSE UNCHANGED events
  /\ \/ enabled /\ enabled' = FALSE /\ Replaced(Fresh)
     \/ enabled' = TRUE /\ Replaced(Opened(Fresh, reachable))
  /\ shown' = "none" /\ heard' = Unmarked
  /\ UNCHANGED <<kind, reachable, flowing>>

\* The venue goes away, comes back, stops sending or sends again.
VenueChanges ==
  /\ Event
  /\ \/ reachable' = ~reachable /\ UNCHANGED flowing
     \/ flowing' = ~flowing /\ UNCHANGED reachable
  /\ UNCHANGED <<kind, enabled, conn, shown, heard, books>>

Init ==
  /\ kind \in Kinds /\ enabled = TRUE /\ reachable \in BOOLEAN /\ flowing = TRUE
  /\ conn = Opened(Fresh, reachable)
  /\ shown = "none" /\ heard = Unmarked /\ books = 0 /\ events = 0

Next ==
  \/ \E i \in Slots : Deliver(i) \/ VenueSends(i) \/ FrameLost(i)
  \/ SocketOpens \/ SocketFails \/ HandshakeExpires \/ SilenceExpires \/ StableElapses \/ RetryFires
  \/ Silence \/ Publish \/ Restart \/ Toggle \/ VenueChanges

Spec == Init /\ [][Next]_vars

\* Frames arrive, upgrades end, timers fire and a venue that has books sends them.
FairSpec ==
  /\ Spec
  /\ \A i \in Slots : WF_vars(Deliver(i)) /\ WF_vars(VenueSends(i))
  /\ WF_vars(SocketOpens) /\ WF_vars(HandshakeExpires) /\ WF_vars(SilenceExpires)
  /\ WF_vars(RetryFires) /\ WF_vars(Silence) /\ WF_vars(Publish)

(*** Properties *************************************************************)

\* While the hook runs, the venue has one attached socket or one retry on its way, never
\* both and never two, and a socket always has a deadline that ends it.
OneWayForward ==
  LET attached == {i \in Slots : conn.sockets[i].phase # "none"}
  IN /\ TypeOK
     /\ enabled => /\ attached = {conn.ws} \ {Nowhere}
                   /\ conn.retry = (conn.ws = Nowhere)
                   /\ conn.ws # Nowhere => conn.timers \cap {"handshake", "silence"} # {}

\* Whenever the venue may price an order, its book is the book of the socket that is open now,
\* with no delta missing, after a silence that took Promotion books to earn back, whoever
\* looked meanwhile. Its one hole is the code's own: the gap check lets the first delta of a
\* socket through (livebook-socket.ts:298), so a socket that lost its snapshot prices what
\* the deltas since then amount to.
PricedBookIsWhole ==
  enabled /\ StatusAt(conn) = "live" =>
    /\ conn.ws # Nowhere /\ conn.sockets[conn.ws].phase = "open"
    /\ conn.book = conn.ladder /\ (conn.book.whole \/ conn.sockets[conn.ws].bare)
    /\ heard \in {Unmarked, Promotion}

\* A socket that brings one book and dies again never shortens the wait.
BackoffSurvivesFlapping ==
  [][conn'.backoff < conn.backoff => books' = 2 \/ Restart \/ Toggle]_vars

\* A venue that answers and sends for good is live again for good.
VenueComesBack == <>[](enabled /\ reachable /\ flowing) => <>[](shown = "live")

=============================================================================
