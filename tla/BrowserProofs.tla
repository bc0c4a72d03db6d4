--------------------------- MODULE BrowserProofs ----------------------------
(***************************************************************************)
(* Proofs about what the browser keeps of the gateway and of the venues, for  *)
(* every value of the constants: one venue of the live book (LiveBook), then  *)
(* the desk's reads (DeskReads).  The two specifications share nothing.        *)
(*                                                                         *)
(* The live book's handlers are functions from a connection to a connection,  *)
(* so the argument is one: each takes a sound connection (Sound) to a sound    *)
(* one.  The desk's reads rest on an order: what a surface shows is no newer   *)
(* than the book its refresh waits to hand on, that no newer than the answer   *)
(* on its way, that no newer than the gateway's (OrderOk).                    *)
(***************************************************************************)
EXTENDS LiveBook, DeskReads, TLAPS

(*** The live book: the invariant ******************************************)

Ladder == [at : Numbers \cup {0}, whole : BOOLEAN]
Socket == [phase : Phases, subscribed : BOOLEAN, got : BOOLEAN, settled : BOOLEAN,
           bare : BOOLEAN, sent : Numbers \cup {0}, wire : Frames \cup {NoFrame}]

Conn == [sockets : [Slots -> Socket], ws : Slots \cup {Nowhere},
         timers : SUBSET {"handshake", "silence", "stable"}, retry : BOOLEAN,
         backoff : 0..MaxBackoff, seq : Numbers \cup {0}, ladder : Ladder, book : Ladder,
         transport : {"connecting", "live", "error"}, age : {"never", "fresh", "old"},
         since : Unmarked..Promotion]

\* A socket and what the supervisor must have set beside it: a deadline, no frame before
\* the upgrade, the sequence and the ladder it feeds, and the snapshot before any delta
\* unless it lost it.
Attended(c, s) ==
  /\ s.phase # "none"
  /\ IF s.phase = "open" THEN "silence" \in c.timers
     ELSE "handshake" \in c.timers /\ s.wire = NoFrame /\ ~s.got
  /\ IF s.got THEN c.book = c.ladder /\ c.seq # 0
     ELSE /\ c.seq = 0 /\ c.transport # "live"
          /\ s.bare \/ IF s.wire = NoFrame THEN s.sent = 0 ELSE s.wire.snapshot

\* A connection of the running hook.
Sound(c) ==
  /\ c \in Conn
  /\ \A i \in Slots : i # c.ws => c.sockets[i] = NoSocket
  /\ c.retry <=> c.ws = Nowhere
  /\ IF c.ws = Nowhere THEN c.timers = {} /\ c.seq = 0 /\ c.transport # "live"
     ELSE Attended(c, c.sockets[c.ws])
  /\ c.ladder.whole \/ (c.ws # Nowhere /\ c.sockets[c.ws].bare)
  /\ c.ladder.at = c.seq

\* What silence still costs: since is never ahead of the books the venue has sent.
Earned(c, h) ==
  IF c.age = "old" THEN h = 0
  ELSE IF c.since = Unmarked THEN h \in {Unmarked, Promotion}
  ELSE h # Unmarked /\ c.since <= h

IInv ==
  /\ kind \in Kinds /\ enabled \in BOOLEAN /\ reachable \in BOOLEAN /\ flowing \in BOOLEAN
  /\ shown \in {"none", "connecting", "live", "stale", "error"}
  /\ heard \in Unmarked..Promotion /\ books \in 0..2 /\ events \in 0..MaxEvents
  /\ IF enabled THEN Sound(conn) ELSE conn = Fresh
  /\ Earned(conn, heard)
  /\ \A i \in Slots : conn.sockets[i].got => books >= 1

(*** The data **************************************************************)

\* The constants as numbers.
LEMMA Bounds ==
  /\ MaxBackoff \in Nat /\ MaxEvents \in Nat /\ Promotion \in Nat /\ Promotion >= 1
  /\ LastNumber \in Nat /\ LastNumber > 2
  /\ 0 \notin Numbers /\ 1 \in Numbers /\ Numbers \subseteq Nat
  /\ \A u \in Numbers : Succ(u) \in Numbers
<1>1. /\ MaxBackoff \in Nat /\ MaxEvents \in Nat /\ Promotion \in Nat /\ Promotion >= 1
      /\ LastNumber \in Nat /\ LastNumber > 2
  BY LiveBookAssumption
<1>2. QED
  BY <1>1 DEF Numbers, Succ

\* The ladder and the socket a connection starts from.
LEMMA Blank ==
  /\ NoSocket \in Socket /\ NoLadder \in Ladder /\ NoLadder.whole /\ NoLadder.at = 0
  /\ NoSocket.phase = "none" /\ ~NoSocket.bare /\ ~NoSocket.got /\ NoSocket.wire = NoFrame /\ NoSocket.sent = 0
  /\ NoFrame \notin Frames
<1>1. 0 \notin Numbers
  BY Bounds
<1>2. QED
  BY <1>1 DEF NoSocket, Socket, Phases, NoFrame, Frames, NoLadder, Ladder

\* A connection is its fields.
LEMMA Fields ==
  ASSUME NEW c \in Conn
  PROVE  /\ c.sockets \in [Slots -> Socket] /\ c.ws \in Slots \cup {Nowhere}
         /\ c.timers \subseteq {"handshake", "silence", "stable"}
         /\ c.retry \in BOOLEAN /\ c.backoff \in 0..MaxBackoff /\ c.seq \in Numbers \cup {0}
         /\ c.ladder \in Ladder /\ c.book \in Ladder
         /\ c.transport \in {"connecting", "live", "error"} /\ c.age \in {"never", "fresh", "old"}
         /\ c.since \in Unmarked..Promotion
BY DEF Conn

(*** The supervisor's handlers *********************************************)

\* A socket opened where there is none is attended, whatever the venue answers.
LEMMA OpenedIsSound ==
  ASSUME NEW c \in Conn, \A i \in Slots : c.sockets[i] = NoSocket, c.ws = Nowhere,
         c.retry = FALSE, c.timers = {}, c.seq = 0, c.ladder = NoLadder, c.transport # "live",
         NEW answers \in BOOLEAN
  PROVE  /\ Sound(Opened(c, answers))
         /\ Opened(c, answers).age = c.age /\ Opened(c, answers).since = c.since
         /\ Opened(c, answers).backoff = c.backoff
         /\ \A i \in Slots : ~Opened(c, answers).sockets[i].got
<1> DEFINE i == CHOOSE i \in Slots : c.sockets[i].phase = "none"
           s == [NoSocket EXCEPT !.phase = IF answers THEN "connecting" ELSE "hung"]
           o == Opened(c, answers)
<1>1. i \in Slots
  BY Blank DEF Slots
<1>2. /\ s \in Socket /\ s.phase \in {"connecting", "hung"} /\ s.wire = NoFrame /\ ~s.got /\ s.sent = 0
  BY Blank DEF NoSocket, Socket, Phases
<1>3. o = [c EXCEPT !.sockets[i] = s, !.ws = i, !.timers = @ \cup {"handshake"},
                    !.transport = IF @ = "live" THEN @ ELSE "connecting"]
  BY DEF Opened
<1> HIDE DEF i, s, o
<1>4. /\ o.sockets = [c.sockets EXCEPT ![i] = s] /\ o.ws = i /\ o.timers = {"handshake"}
      /\ o.transport = "connecting" /\ o.retry = c.retry /\ o.backoff = c.backoff
      /\ o.seq = c.seq /\ o.ladder = c.ladder /\ o.book = c.book /\ o.age = c.age
      /\ o.since = c.since
  BY <1>3 DEF Conn
<1>5. o \in Conn
  BY <1>1, <1>2, <1>3 DEF Conn
<1>6. /\ o.sockets[i] = s /\ \A j \in Slots : j # i => o.sockets[j] = NoSocket
  BY <1>1, <1>4, Fields
<1>7. Sound(o)
  BY <1>1, <1>2, <1>4, <1>5, <1>6, Blank DEF Sound, Attended, Slots, Nowhere
<1>8. QED
  BY <1>2, <1>4, <1>6, <1>7, Blank DEF o

\* Every fault takes a sound connection with a socket to one with a retry instead.
LEMMA RetriedIsSound ==
  ASSUME NEW c, Sound(c), c.ws # Nowhere
  PROVE  /\ Sound(Retried(c)) /\ Retried(c).ws = Nowhere
         /\ Retried(c).age = c.age /\ Retried(c).since = c.since
         /\ Retried(c).backoff >= c.backoff
         /\ Retried(c).ladder = NoLadder /\ Retried(c).timers = {}
         /\ \A i \in Slots : Retried(c).sockets[i] = NoSocket
<1> DEFINE d == [Discarded(c) EXCEPT !.timers = {}]
           r == [d EXCEPT !.seq = 0, !.ladder = NoLadder, !.transport = "error", !.retry = TRUE,
                          !.backoff = AtMost(@ + 1, MaxBackoff)]
<1>1. c \in Conn /\ c.ws \in Slots /\ ~c.retry
  BY Fields DEF Sound
<1>2. d = [c EXCEPT !.sockets[c.ws] = NoSocket, !.ws = Nowhere, !.timers = {}]
  BY <1>1 DEF Discarded, Slots, Nowhere, Conn
<1>3. /\ d.sockets = [c.sockets EXCEPT ![c.ws] = NoSocket] /\ d.ws = Nowhere /\ d.timers = {}
      /\ d.retry = c.retry /\ d.backoff = c.backoff /\ d.book = c.book /\ d.age = c.age
      /\ d.since = c.since
  BY <1>1, <1>2 DEF Conn
<1>4. d \in Conn
  <2>1. [c.sockets EXCEPT ![c.ws] = NoSocket] \in [Slots -> Socket]
    BY <1>1, Blank, Fields
  <2>2. d = [c EXCEPT !.sockets = [c.sockets EXCEPT ![c.ws] = NoSocket], !.ws = Nowhere, !.timers = {}]
    BY <1>2
  <2> HIDE DEF d
  <2>3. QED
    BY <1>1, <2>1, <2>2 DEF Conn
<1>5. Retried(c) = r
  BY <1>1, <1>3 DEF Retried
<1>6. AtMost(d.backoff + 1, MaxBackoff) \in 0..MaxBackoff /\ AtMost(d.backoff + 1, MaxBackoff) >= c.backoff
  BY <1>1, <1>3, Bounds, Fields DEF AtMost
<1> HIDE DEF d
<1>7. /\ r.sockets = d.sockets /\ r.ws = d.ws /\ r.timers = d.timers /\ r.retry = TRUE
      /\ r.backoff = AtMost(d.backoff + 1, MaxBackoff) /\ r.seq = 0 /\ r.ladder = NoLadder
      /\ r.book = d.book /\ r.transport = "error" /\ r.age = d.age /\ r.since = d.since
  BY <1>4 DEF Conn
<1>8. r \in Conn
  BY <1>4, <1>6, Blank DEF Conn
<1> HIDE DEF r
<1>9. \A i \in Slots : r.sockets[i] = NoSocket
  BY <1>1, <1>3, <1>7, Fields DEF Sound
<1>10. Sound(r)
  BY <1>3, <1>7, <1>8, <1>9, Blank DEF Sound
<1>11. QED
  BY <1>3, <1>5, <1>6, <1>7, <1>9, <1>10

\* A restart is a new supervisor's first socket.
LEMMA RestartedIsSound ==
  ASSUME NEW c, Sound(c), NEW answers \in BOOLEAN
  PROVE  /\ Sound(Restarted(c, answers))
         /\ Restarted(c, answers).age = c.age /\ Restarted(c, answers).since = Unmarked
         /\ \A i \in Slots : ~Restarted(c, answers).sockets[i].got
<1> DEFINE d == [Discarded(c) EXCEPT !.retry = FALSE, !.timers = {}, !.backoff = 0, !.seq = 0,
                              !.ladder = NoLadder, !.transport = "connecting", !.since = Unmarked]
           b == Discarded(c)
<1>1. c \in Conn
  BY DEF Sound
<1>2. /\ b \in Conn /\ b.age = c.age /\ b.ws = Nowhere
      /\ \A i \in Slots : b.sockets[i] = NoSocket
  <2>1. CASE c.ws = Nowhere
    <3>1. b = c
      BY <2>1 DEF Discarded
    <3>2. \A i \in Slots : i # c.ws
      BY <2>1 DEF Slots, Nowhere
    <3>3. QED
      BY <1>1, <2>1, <3>1, <3>2 DEF Sound
  <2>2. CASE c.ws # Nowhere
    <3>1. b = [c EXCEPT !.sockets = [c.sockets EXCEPT ![c.ws] = NoSocket], !.ws = Nowhere]
      BY <2>2 DEF Discarded
    <3>2. [c.sockets EXCEPT ![c.ws] = NoSocket] \in [Slots -> Socket] /\ c.ws \in Slots
      BY <1>1, <2>2, Blank, Fields
    <3> HIDE DEF b
    <3>3. b \in Conn /\ b.age = c.age /\ b.ws = Nowhere
          /\ b.sockets = [c.sockets EXCEPT ![c.ws] = NoSocket]
      BY <1>1, <3>1, <3>2 DEF Conn
    <3>4. QED
      BY <1>1, <3>2, <3>3, Fields DEF Sound
  <2>3. QED
    BY <2>1, <2>2
<1> HIDE DEF b
<1>3. d = [b EXCEPT !.retry = FALSE, !.timers = {}, !.backoff = 0, !.seq = 0,
                    !.ladder = NoLadder, !.transport = "connecting", !.since = Unmarked]
  BY DEF b
<1> HIDE DEF d
<1>4. Unmarked \in Unmarked..Promotion /\ 0 \in 0..MaxBackoff
  BY Bounds DEF Unmarked
<1>5. d \in Conn
  BY <1>2, <1>3, <1>4, Blank DEF Conn
<1>6. /\ d.sockets = b.sockets /\ d.ws = b.ws /\ d.retry = FALSE /\ d.timers = {}
      /\ d.seq = 0 /\ d.ladder = NoLadder /\ d.transport = "connecting" /\ d.age = b.age
      /\ d.since = Unmarked
  BY <1>2, <1>3 DEF Conn
<1>7. Restarted(c, answers) = Opened(d, answers)
  BY DEF Restarted, d
<1>8. QED
  BY <1>2, <1>5, <1>6, <1>7, OpenedIsSound

\* The blank connection: what a disabled hook has, and what a first socket is opened on.
LEMMA FreshOpens ==
  ASSUME NEW answers \in BOOLEAN
  PROVE  /\ Sound(Opened(Fresh, answers))
         /\ Opened(Fresh, answers).age = "never" /\ Opened(Fresh, answers).since = Unmarked
         /\ \A i \in Slots : ~Opened(Fresh, answers).sockets[i].got
         /\ Fresh \in Conn /\ Fresh.age = "never" /\ Fresh.since = Unmarked
         /\ \A i \in Slots : Fresh.sockets[i] = NoSocket
<1>1. Unmarked \in Unmarked..Promotion /\ 0 \in 0..MaxBackoff
  BY Bounds DEF Unmarked
<1>2. [i \in Slots |-> NoSocket] \in [Slots -> Socket]
  BY Blank
<1>3. Fresh \in Conn
  BY <1>1, <1>2, Blank DEF Fresh, Conn
<1>4. /\ \A i \in Slots : Fresh.sockets[i] = NoSocket
      /\ Fresh.ws = Nowhere /\ Fresh.retry = FALSE /\ Fresh.timers = {} /\ Fresh.seq = 0
      /\ Fresh.ladder = NoLadder /\ Fresh.transport = "connecting" /\ Fresh.age = "never"
      /\ Fresh.since = Unmarked
  BY DEF Fresh
<1> HIDE DEF Fresh
<1>5. QED
  BY <1>3, <1>4, OpenedIsSound

\* The upgrade swaps the handshake's deadline for the watch on silence.
LEMMA UpgradedIsSound ==
  ASSUME NEW c, Sound(c), c.ws # Nowhere, c.sockets[c.ws].phase = "connecting",
         NEW subscribed \in BOOLEAN
  PROVE  /\ Sound(Upgraded(c, subscribed))
         /\ Upgraded(c, subscribed).age = c.age /\ Upgraded(c, subscribed).since = c.since
         /\ Upgraded(c, subscribed).backoff = c.backoff
         /\ \A i \in Slots : Upgraded(c, subscribed).sockets[i].got = c.sockets[i].got
<1> DEFINE s == c.sockets[c.ws]
           up == [s EXCEPT !.phase = "open", !.subscribed = subscribed]
           o == Upgraded(c, subscribed)
<1>1. c \in Conn /\ c.ws \in Slots /\ s \in Socket /\ Attended(c, s)
  BY Fields DEF Sound
<1>2. o = [c EXCEPT !.sockets = [c.sockets EXCEPT ![c.ws] = up],
                    !.timers = (c.timers \ {"handshake"}) \cup {"silence"}]
  BY <1>1, Fields DEF Upgraded
<1>3. /\ up \in Socket /\ up.phase = "open" /\ up.got = s.got /\ up.wire = s.wire /\ up.sent = s.sent
      /\ up.bare = s.bare
  BY <1>1 DEF Socket, Phases
<1> HIDE DEF o, up
<1>4. [c.sockets EXCEPT ![c.ws] = up] \in [Slots -> Socket]
  BY <1>1, <1>3, Fields
<1>5. /\ o \in Conn /\ o.sockets = [c.sockets EXCEPT ![c.ws] = up]
      /\ o.timers = (c.timers \ {"handshake"}) \cup {"silence"}
      /\ o.ws = c.ws /\ o.retry = c.retry /\ o.backoff = c.backoff /\ o.seq = c.seq
      /\ o.ladder = c.ladder /\ o.book = c.book /\ o.transport = c.transport
      /\ o.age = c.age /\ o.since = c.since
  BY <1>1, <1>2, <1>4 DEF Conn
<1>6. o.sockets[c.ws] = up /\ \A i \in Slots : i # c.ws => o.sockets[i] = c.sockets[i]
  BY <1>1, <1>5, Fields
<1>7. Attended(o, up)
  BY <1>1, <1>3, <1>5 DEF Attended
<1>8. Sound(o)
  <2>1. /\ \A i \in Slots : i # c.ws => c.sockets[i] = NoSocket
        /\ ~c.retry /\ c.ladder.at = c.seq /\ (c.ladder.whole \/ s.bare)
    BY <1>1 DEF Sound, Slots, Nowhere
  <2> HIDE DEF s
  <2>2. o.sockets[o.ws] = up /\ o.ladder.at = o.seq /\ (o.ladder.whole \/ up.bare)
    BY <1>3, <1>5, <1>6, <2>1
  <2>3. QED
    BY <1>1, <1>5, <1>6, <1>7, <2>1, <2>2 DEF Sound, Slots, Nowhere
<1>9. QED
  BY <1>1, <1>3, <1>5, <1>6, <1>8 DEF o

(*** Frames and what is made of them ***************************************)

\* Putting a socket in the place of the attached one.
LEMMA SocketPut ==
  ASSUME NEW c \in Conn, c.ws \in Slots, NEW s \in Socket
  PROVE  /\ [c EXCEPT !.sockets[c.ws] = s] \in Conn
         /\ [c EXCEPT !.sockets[c.ws] = s].sockets[c.ws] = s
         /\ \A i \in Slots : i # c.ws => [c EXCEPT !.sockets[c.ws] = s].sockets[i] = c.sockets[i]
<1>1. [c.sockets EXCEPT ![c.ws] = s] \in [Slots -> Socket]
  BY Fields
<1>2. [c EXCEPT !.sockets[c.ws] = s] = [c EXCEPT !.sockets = [c.sockets EXCEPT ![c.ws] = s]]
  OBVIOUS
<1>3. /\ [c EXCEPT !.sockets = [c.sockets EXCEPT ![c.ws] = s]] \in Conn
      /\ [c EXCEPT !.sockets = [c.sockets EXCEPT ![c.ws] = s]].sockets = [c.sockets EXCEPT ![c.ws] = s]
  BY <1>1 DEF Conn
<1>4. QED
  BY <1>2, <1>3, Fields

\* A frame that is no gap continues the venue's own book, or replaces it, unless the socket
\* began without its snapshot.
LEMMA AppliedIsWhole ==
  ASSUME NEW c, Sound(c), c.ws \in Slots, NEW frame \in Frames,
         frame = c.sockets[c.ws].wire, ~Gap(c, frame)
  PROVE  /\ Applied(c.ladder, frame) \in Ladder
         /\ Applied(c.ladder, frame).whole \/ c.sockets[c.ws].bare
         /\ Applied(c.ladder, frame).at = frame.u /\ frame.u \in Numbers
<1> DEFINE whole == frame.snapshot \/ (c.ladder.whole /\ c.ladder.at # 0 /\ frame.u = Succ(c.ladder.at))
           bare == c.sockets[c.ws].bare
<1>1. /\ c \in Conn /\ Attended(c, c.sockets[c.ws]) /\ c.ladder.at = c.seq
      /\ c.ladder.whole \/ bare
  BY DEF Sound, Slots, Nowhere
<1>2. frame.u \in Numbers /\ frame.snapshot \in BOOLEAN /\ frame # NoFrame
  BY Blank DEF Frames
<1>3. bare \/ frame.snapshot \/ (c.seq # 0 /\ frame.u = Succ(c.seq))
  BY <1>1, <1>2 DEF Gap, Attended
<1>4. whole \/ bare
  BY <1>1, <1>3
<1>5. Applied(c.ladder, frame) = [at |-> frame.u, whole |-> whole]
  BY DEF Applied
<1>6. whole \in BOOLEAN
  BY <1>1, <1>2, Fields DEF Ladder
<1> HIDE DEF whole
<1>7. QED
  BY <1>2, <1>4, <1>5, <1>6 DEF Ladder

\* The book handler: the venue is live on a whole book, and what silence costs is counted.
LEMMA ReceivedIsSound ==
  ASSUME NEW c, Sound(c), c.ws \in Slots, NEW frame \in Frames,
         frame = c.sockets[c.ws].wire, ~Gap(c, frame),
         NEW h \in Unmarked..Promotion, Earned(c, h)
  PROVE  LET r == Received([c EXCEPT !.sockets[c.ws].wire = NoFrame], frame)
             k == IF h = Unmarked THEN h ELSE AtMost(h + 1, Promotion)
         IN /\ Sound(r) /\ r.ws = c.ws
            /\ Earned(r, k) /\ k \in Unmarked..Promotion
            /\ r.backoff < c.backoff => c.sockets[c.ws].got
<1> DEFINE s == c.sockets[c.ws]
           s1 == [s EXCEPT !.wire = NoFrame]
           s2 == [s EXCEPT !.wire = NoFrame, !.got = TRUE]
           t == [c EXCEPT !.sockets[c.ws].wire = NoFrame]
           L == Applied(c.ladder, frame)
           n == [t EXCEPT !.ladder = L, !.seq = frame.u]
           r == Received(t, frame)
           since == IF c.age = "old" THEN 1 ELSE IF c.since = Unmarked THEN Unmarked
                    ELSE AtMost(c.since + 1, Promotion)
           k == IF h = Unmarked THEN h ELSE AtMost(h + 1, Promotion)
<1>1. /\ c \in Conn /\ s \in Socket /\ Attended(c, s) /\ c.ladder.at = c.seq
      /\ ~c.retry /\ \A i \in Slots : i # c.ws => c.sockets[i] = NoSocket
  BY Fields DEF Sound, Slots, Nowhere
<1>2. /\ frame # NoFrame /\ s.phase = "open" /\ "silence" \in c.timers
  BY <1>1, Blank DEF Attended
<1>3. /\ L \in Ladder /\ (L.whole \/ s.bare) /\ L.at = frame.u /\ frame.u \in Numbers
  BY AppliedIsWhole
<1>4. /\ s1 \in Socket /\ s1.phase = "open" /\ s1.got = s.got /\ s1.wire = NoFrame /\ s1.settled = s.settled
      /\ s2 \in Socket /\ s2.phase = "open" /\ s2.got /\ s2.wire = NoFrame
      /\ s2.bare = s.bare
      /\ s.got => s2 = s1
      /\ [s1 EXCEPT !.got = TRUE] = s2
  BY <1>1, <1>2 DEF Socket
<1> HIDE DEF L, since
<1>5. /\ t = [c EXCEPT !.sockets = [c.sockets EXCEPT ![c.ws] = s1]]
      /\ [c.sockets EXCEPT ![c.ws] = s1] \in [Slots -> Socket]
      /\ [c.sockets EXCEPT ![c.ws] = s2] \in [Slots -> Socket]
  BY <1>1, <1>4, Fields
<1> HIDE DEF s1, s2, t
<1>6. /\ t \in Conn /\ t.sockets = [c.sockets EXCEPT ![c.ws] = s1] /\ t.ws = c.ws
      /\ t.timers = c.timers /\ t.retry = c.retry /\ t.backoff = c.backoff /\ t.seq = c.seq
      /\ t.ladder = c.ladder /\ t.transport = c.transport /\ t.age = c.age /\ t.since = c.since
  BY <1>1, <1>5 DEF Conn
<1>7. /\ n \in Conn /\ n.sockets = t.sockets /\ n.ws = c.ws
      /\ n.timers = c.timers /\ n.retry = c.retry /\ n.backoff = c.backoff /\ n.seq = frame.u
      /\ n.ladder = L /\ n.transport = c.transport /\ n.age = c.age /\ n.since = c.since
  BY <1>3, <1>6 DEF Conn
<1>8. ~Gap(t, frame) /\ r = Updated(Noted(n))
  BY <1>6 DEF Gap, Received, L
<1> HIDE DEF n, r
<1>9. n.sockets[n.ws] = s1 /\ [n.sockets EXCEPT ![n.ws] = s2] = [c.sockets EXCEPT ![c.ws] = s2]
  BY <1>1, <1>6, <1>7, Fields
<1> DEFINE m == Noted(n)
<1>10. /\ m \in Conn /\ m.sockets = [c.sockets EXCEPT ![c.ws] = s2] /\ m.ws = c.ws
       /\ "silence" \in m.timers /\ m.retry = c.retry /\ m.seq = frame.u /\ m.ladder = L
       /\ m.age = c.age /\ m.since = c.since
       /\ m.backoff < c.backoff => s.got
  <2> DEFINE w == [n EXCEPT !.timers = @ \cup {"silence"}]
  <2>1. /\ w \in Conn /\ w.sockets = n.sockets /\ w.ws = c.ws /\ w.timers = c.timers \cup {"silence"}
        /\ w.retry = c.retry /\ w.backoff = c.backoff /\ w.seq = frame.u /\ w.ladder = L
        /\ w.age = c.age /\ w.since = c.since
    BY <1>7 DEF Conn
  <2>2. CASE ~s1.got
    <3>1. m = [w EXCEPT !.sockets[n.ws].got = TRUE, !.transport = "live", !.timers = @ \cup {"stable"}]
      BY <1>9, <2>2 DEF Noted
    <3> HIDE DEF m, w
    <3>2. m = [w EXCEPT !.sockets = [c.sockets EXCEPT ![c.ws] = s2], !.transport = "live",
                        !.timers = @ \cup {"stable"}]
      BY <1>4, <1>7, <1>9, <2>1, <3>1
    <3>3. w.timers \cup {"stable"} \subseteq {"handshake", "silence", "stable"}
      BY <2>1, Fields
    <3>4. m \in Conn
      BY <1>5, <2>1, <3>2, <3>3 DEF Conn
    <3>5. /\ m.sockets = [c.sockets EXCEPT ![c.ws] = s2] /\ m.ws = w.ws
          /\ m.timers = w.timers \cup {"stable"} /\ m.retry = w.retry /\ m.seq = w.seq
          /\ m.ladder = w.ladder /\ m.age = w.age /\ m.since = w.since /\ m.backoff = w.backoff
      BY <2>1, <3>2 DEF Conn
    <3>6. c.backoff \in Int
      BY <1>1, Bounds, Fields
    <3>7. QED
      BY <2>1, <3>4, <3>5, <3>6
  <2>3. CASE s1.got
    <3>1. m = [w EXCEPT !.backoff = IF s1.settled THEN 0 ELSE @]
      BY <1>9, <2>3 DEF Noted
    <3>2. s2 = s1 /\ s.got
      BY <1>4, <2>3
    <3>3. (IF s1.settled THEN 0 ELSE w.backoff) \in 0..MaxBackoff
      <4>1. w.backoff \in 0..MaxBackoff
        BY <2>1, Fields
      <4>2. 0 \in 0..MaxBackoff
        BY Bounds
      <4> HIDE DEF w
      <4>3. QED
        BY <4>1, <4>2
    <3> HIDE DEF m, w
    <3>4. QED
      BY <1>6, <1>7, <2>1, <3>1, <3>2, <3>3 DEF Conn
  <2>4. QED
    BY <2>2, <2>3
<1>11. r = [m EXCEPT !.since = since, !.age = "fresh", !.transport = "live", !.book = L]
  BY <1>8, <1>10 DEF Updated, since
<1>12. since \in Unmarked..Promotion
  BY <1>1, Bounds, Fields DEF since, AtMost, Unmarked
<1> HIDE DEF m
<1>13. /\ r \in Conn /\ r.sockets = [c.sockets EXCEPT ![c.ws] = s2] /\ r.ws = c.ws
       /\ "silence" \in r.timers /\ r.retry = c.retry /\ r.seq = frame.u /\ r.ladder = L
       /\ r.book = L /\ r.transport = "live" /\ r.age = "fresh" /\ r.since = since
       /\ r.backoff = m.backoff
  BY <1>3, <1>10, <1>11, <1>12 DEF Conn
<1>14. r.sockets[c.ws] = s2 /\ \A i \in Slots : i # c.ws => r.sockets[i] = NoSocket
  BY <1>1, <1>13, Fields
<1>15. Attended(r, s2)
  BY <1>3, <1>4, <1>13, Bounds DEF Attended
<1>16. Sound(r)
  BY <1>1, <1>3, <1>4, <1>13, <1>14, <1>15 DEF Sound, Slots, Nowhere
<1>17. k \in Unmarked..Promotion /\ Earned(r, k)
  <2>1. c.since \in Unmarked..Promotion
    BY <1>1, Fields
  <2>2. QED
    BY <2>1, <1>13, Bounds DEF Earned, since, AtMost, Unmarked
<1>18. QED
  BY <1>10, <1>13, <1>16, <1>17 DEF r, t

\* Soundness reads nothing of age, mark or backoff.
LEMMA SoundIgnoresAge ==
  ASSUME NEW c, Sound(c), NEW d \in Conn,
         d.sockets = c.sockets, d.ws = c.ws, d.timers = c.timers, d.retry = c.retry,
         d.seq = c.seq, d.ladder = c.ladder, d.book = c.book, d.transport = c.transport
  PROVE  Sound(d)
BY DEF Sound, Attended

\* Asking changes the mark alone: it never makes a venue priced sooner than it earned.
LEMMA AskedIsSound ==
  ASSUME NEW c, Sound(c), NEW h \in Unmarked..Promotion, Earned(c, h)
  PROVE  /\ Sound(Asked(c)) /\ Earned(Asked(c), h)
         /\ Asked(c).backoff = c.backoff /\ Asked(c).sockets = c.sockets
         /\ StatusAt(c) \in {"connecting", "live", "stale", "error"}
<1> DEFINE since == IF c.transport # "live" THEN c.since ELSE IF c.age = "old" THEN 0
                    ELSE IF StatusAt(c) = "live" THEN Unmarked ELSE c.since
           a == Asked(c)
<1>1. c \in Conn /\ c.since \in Unmarked..Promotion /\ c.transport \in {"connecting", "live", "error"}
  BY Fields DEF Sound
<1>2. a = [c EXCEPT !.since = since]
  BY DEF Asked
<1>3. since \in Unmarked..Promotion
  BY <1>1, Bounds DEF Unmarked
<1>4. /\ a \in Conn /\ a.sockets = c.sockets /\ a.ws = c.ws /\ a.timers = c.timers /\ a.retry = c.retry
      /\ a.seq = c.seq /\ a.ladder = c.ladder /\ a.book = c.book /\ a.transport = c.transport
      /\ a.backoff = c.backoff /\ a.age = c.age /\ a.since = since
  <2> HIDE DEF a, since
  <2>1. QED
    BY <1>1, <1>2, <1>3 DEF Conn
<1>5. Sound(a)
  BY <1>4, SoundIgnoresAge
<1>6. c.transport = "live" /\ c.age # "old" /\ StatusAt(c) = "live" => c.since \in {Unmarked, Promotion}
  BY DEF StatusAt
<1>7. c.age # "old" /\ c.since \in {Unmarked, Promotion} => h \in {Unmarked, Promotion}
  BY Bounds DEF Earned, Unmarked
<1>8. Earned(a, h)
  BY <1>4, <1>6, <1>7 DEF Earned
<1>9. StatusAt(c) \in {"connecting", "live", "stale", "error"}
  BY <1>1 DEF StatusAt
<1>10. QED
  BY <1>4, <1>5, <1>8, <1>9

\* A connection with another socket in the attached one's place, and other deadlines.
Swapped(c, s, ts) == [c EXCEPT !.sockets[c.ws] = s, !.timers = ts]

\* The attached socket changed in its frames and flags alone, in a way that stays attended.
LEMMA SocketChanged ==
  ASSUME NEW c, Sound(c), c.ws \in Slots, NEW s \in Socket,
         NEW ts \in SUBSET {"handshake", "silence", "stable"},
         Attended(Swapped(c, s, ts), s), c.sockets[c.ws].bare => s.bare
  PROVE  /\ Sound(Swapped(c, s, ts)) /\ Swapped(c, s, ts).age = c.age
         /\ Swapped(c, s, ts).since = c.since /\ Swapped(c, s, ts).backoff = c.backoff
         /\ Swapped(c, s, ts).seq = c.seq /\ Swapped(c, s, ts).ws = c.ws
         /\ Swapped(c, s, ts).sockets[c.ws] = s
         /\ \A i \in Slots : i # c.ws => Swapped(c, s, ts).sockets[i] = c.sockets[i]
<1> DEFINE d == Swapped(c, s, ts)
<1>1. c \in Conn
  BY DEF Sound
<1>2. [c.sockets EXCEPT ![c.ws] = s] \in [Slots -> Socket]
  BY <1>1, Fields
<1>3. d = [c EXCEPT !.sockets = [c.sockets EXCEPT ![c.ws] = s], !.timers = ts]
  BY DEF Swapped
<1> HIDE DEF d
<1>4. /\ d \in Conn /\ d.sockets = [c.sockets EXCEPT ![c.ws] = s] /\ d.ws = c.ws
      /\ d.retry = c.retry /\ d.seq = c.seq /\ d.ladder = c.ladder /\ d.age = c.age
      /\ d.since = c.since /\ d.backoff = c.backoff
  BY <1>1, <1>2, <1>3 DEF Conn
<1>5. d.sockets[c.ws] = s /\ \A i \in Slots : i # c.ws => d.sockets[i] = c.sockets[i]
  BY <1>1, <1>4, Fields
<1>6. Sound(d)
  BY <1>4, <1>5 DEF Sound, Slots, Nowhere, d
<1>7. QED
  BY <1>4, <1>5, <1>6 DEF d

\* A frame taken off the wire of a socket that has had its snapshot.
LEMMA TakenIsSound ==
  ASSUME NEW c, Sound(c), c.ws \in Slots, c.sockets[c.ws].got
  PROVE  LET d == [c EXCEPT !.sockets[c.ws].wire = NoFrame]
         IN /\ Sound(d) /\ d.age = c.age /\ d.since = c.since /\ d.backoff = c.backoff
            /\ d.ws = c.ws /\ d.seq = c.seq
            /\ \A i \in Slots : d.sockets[i].got = c.sockets[i].got
<1> DEFINE s == [c.sockets[c.ws] EXCEPT !.wire = NoFrame]
           d == Swapped(c, s, c.timers)
<1>1. /\ c \in Conn /\ c.sockets[c.ws] \in Socket /\ Attended(c, c.sockets[c.ws])
      /\ c.timers \in SUBSET {"handshake", "silence", "stable"}
  BY Fields DEF Sound, Slots, Nowhere
<1>2. s \in Socket /\ s.phase = c.sockets[c.ws].phase /\ s.got /\ s.wire = NoFrame
      /\ s.bare = c.sockets[c.ws].bare
  BY <1>1 DEF Socket
<1>3. d = [c EXCEPT !.sockets[c.ws].wire = NoFrame]
  BY <1>1 DEF Conn, Swapped
<1> HIDE DEF s
<1>4. d.timers = c.timers /\ d.book = c.book /\ d.ladder = c.ladder /\ d.seq = c.seq
  BY <1>1 DEF Conn, Swapped
<1>5. Attended(d, s)
  BY <1>1, <1>2, <1>4 DEF Attended
<1>6. /\ Sound(d) /\ d.age = c.age /\ d.since = c.since /\ d.backoff = c.backoff
      /\ d.seq = c.seq /\ d.ws = c.ws /\ d.sockets[c.ws] = s
      /\ \A i \in Slots : i # c.ws => d.sockets[i] = c.sockets[i]
  BY <1>1, <1>2, <1>5, SocketChanged
<1>7. \A i \in Slots : d.sockets[i].got = c.sockets[i].got
  BY <1>1, <1>2, <1>6 DEF Socket
<1> HIDE DEF d
<1>8. QED
  BY <1>3, <1>6, <1>7

(*** Every step ************************************************************)

\* Where a step leaves the connection sound and the account of silence straight, the
\* invariant is kept.
LEMMA Reassembled ==
  ASSUME kind' \in Kinds, enabled' = TRUE, reachable' \in BOOLEAN, flowing' \in BOOLEAN,
         shown' \in {"none", "connecting", "live", "stale", "error"},
         heard' \in Unmarked..Promotion, books' \in 0..2, events' \in 0..MaxEvents,
         Sound(conn'), Earned(conn', heard'),
         \A i \in Slots : conn'.sockets[i].got => books' >= 1
  PROVE  IInv'
BY DEF IInv

\* The environment's counter moves within its bound.
LEMMA EventCounts ==
  ASSUME events \in 0..MaxEvents, Event \/ UNCHANGED events
  PROVE  events' \in 0..MaxEvents
BY Bounds DEF Event

\* The backoff shrinks only for a second book, a restart or a new handle.
Patient == conn'.backoff < conn.backoff => books' = 2 \/ Restart \/ Toggle

\* A frame delivered leaves a sound connection.
LEMMA DeliverStep ==
  ASSUME IInv, NEW i \in Slots, Deliver(i)
  PROVE  IInv' /\ Patient
<1> DEFINE frame == conn.sockets[i].wire
           taken == Taken(i)
<1>1. /\ frame # NoFrame
      /\ conn' = IF conn.ws = i THEN Received(taken, frame) ELSE taken
      /\ UNCHANGED <<kind, enabled, shown, reachable, flowing, events>>
  BY DEF Deliver
<1>2. enabled = TRUE /\ Sound(conn) /\ conn \in Conn
  BY <1>1, FreshOpens, Blank DEF IInv, Sound
<1>3. i = conn.ws
  BY <1>1, <1>2, Blank DEF Sound
<1>4. /\ frame \in Frames /\ taken = [conn EXCEPT !.sockets[conn.ws].wire = NoFrame]
      /\ Attended(conn, conn.sockets[conn.ws])
  <2>1. conn.sockets[i] \in Socket
    BY <1>2, Fields
  <2>2. QED
    BY <1>1, <1>2, <1>3, <2>1 DEF Socket, Taken, Sound, Slots, Nowhere
<1>5. Gap(taken, frame) <=> Gap(conn, frame)
  <2>1. taken.seq = conn.seq
    BY <1>2, <1>4 DEF Conn
  <2>2. QED
    BY <2>1 DEF Gap
<1>6. /\ heard \in Unmarked..Promotion /\ books \in 0..2 /\ Earned(conn, heard)
      /\ conn.sockets[i].got => books >= 1
  BY DEF IInv
<1>7. /\ kind' \in Kinds /\ enabled' = TRUE /\ reachable' \in BOOLEAN /\ flowing' \in BOOLEAN
      /\ shown' \in {"none", "connecting", "live", "stale", "error"}
      /\ events' \in 0..MaxEvents
  BY <1>1, <1>2 DEF IInv
<1> HIDE DEF frame, taken
<1>8. CASE Gap(taken, frame)
  <2>1. UNCHANGED <<heard, books>> /\ conn' = Retried(taken)
    BY <1>1, <1>3, <1>8 DEF Deliver, Received, frame, taken
  <2>2. conn.sockets[i].got
    BY <1>1, <1>3, <1>4, <1>5, <1>8 DEF Gap, Attended, frame
  <2>3. Sound(taken) /\ taken.age = conn.age /\ taken.since = conn.since
        /\ taken.backoff = conn.backoff /\ taken.ws = conn.ws
    BY <1>2, <1>3, <1>4, <2>2, TakenIsSound
  <2>4. /\ Sound(conn') /\ conn'.age = conn.age /\ conn'.since = conn.since
        /\ conn'.backoff >= conn.backoff
        /\ \A j \in Slots : conn'.sockets[j] = NoSocket
    BY <1>3, <2>1, <2>3, RetriedIsSound DEF Slots, Nowhere
  <2>5. Earned(conn', heard') /\ heard' \in Unmarked..Promotion /\ books' \in 0..2
    BY <1>6, <2>1, <2>4 DEF Earned
  <2>6. IInv'
    BY <1>7, <2>4, <2>5, Blank, Reassembled
  <2>7. ~(conn'.backoff < conn.backoff)
    <3>1. conn.backoff \in Int /\ conn'.backoff \in Int
      BY <1>2, <2>4, Fields, Bounds DEF Sound
    <3>2. QED
      BY <2>4, <3>1
  <2>8. QED
    BY <2>6, <2>7 DEF Patient
<1>9. CASE ~Gap(taken, frame)
  <2>1. /\ heard' = IF heard = Unmarked THEN heard ELSE AtMost(heard + 1, Promotion)
        /\ books' = AtMost(books + 1, 2)
        /\ conn' = Received(taken, frame)
    BY <1>1, <1>3, <1>9 DEF Deliver, frame, taken
  <2>2. /\ Sound(conn') /\ conn'.ws = conn.ws /\ Earned(conn', heard') /\ heard' \in Unmarked..Promotion
        /\ conn'.backoff < conn.backoff => conn.sockets[conn.ws].got
    BY <1>2, <1>3, <1>4, <1>5, <1>6, <1>9, <2>1, ReceivedIsSound DEF frame
  <2>3. books' \in 0..2 /\ books' >= 1 /\ (books >= 1 => books' = 2)
    BY <1>6, <2>1 DEF AtMost
  <2>4. IInv'
    BY <1>7, <2>2, <2>3, Reassembled
  <2>5. Patient
    BY <1>3, <1>6, <2>2, <2>3 DEF Patient
  <2>6. QED
    BY <2>4, <2>5
<1>10. QED
  BY <1>8, <1>9

\* The venue sends: the snapshot first, and only then deltas.
LEMMA SendStep ==
  ASSUME IInv, NEW i \in Slots, VenueSends(i)
  PROVE  IInv' /\ Patient
<1> DEFINE s == conn.sockets[i]
<1>1. PICK u \in (IF s.sent = 0 THEN Numbers ELSE {Succ(s.sent)}) :
        /\ conn' = [conn EXCEPT !.sockets[i].sent = u,
                     !.sockets[i].wire = [u |-> u, snapshot |-> kind = "partial" \/ s.sent = 0]]
        /\ s.phase = "open" /\ s.wire = NoFrame
        /\ UNCHANGED <<kind, enabled, shown, reachable, flowing, heard, books, events>>
  BY DEF VenueSends
<1>2. enabled = TRUE /\ Sound(conn) /\ conn \in Conn
  BY <1>1, FreshOpens, Blank DEF IInv, Sound
<1>3. i = conn.ws
  BY <1>1, <1>2, Blank DEF Sound
<1>4. /\ s \in Socket /\ Attended(conn, s) /\ u \in Numbers
      /\ conn.timers \in SUBSET {"handshake", "silence", "stable"}
  <2>1. s \in Socket /\ conn.timers \in SUBSET {"handshake", "silence", "stable"}
    BY <1>2, Fields
  <2>2. Attended(conn, s)
    BY <1>2, <1>3 DEF Sound, Slots, Nowhere
  <2>3. s.sent \in Numbers \cup {0}
    BY <2>1 DEF Socket
  <2> HIDE DEF s
  <2>4. u \in Numbers
    BY <1>1, <2>3, Bounds
  <2>5. QED
    BY <2>1, <2>2, <2>4
<1> DEFINE frame == [u |-> u, snapshot |-> kind = "partial" \/ s.sent = 0]
           s1 == [s EXCEPT !.sent = u, !.wire = frame]
           d == Swapped(conn, s1, conn.timers)
<1>5. frame \in Frames /\ frame # NoFrame /\ (s.sent = 0 => frame.snapshot)
  <2>1. (kind = "partial" \/ s.sent = 0) \in BOOLEAN
    OBVIOUS
  <2>2. frame \in Frames
    BY <1>4, <2>1 DEF Frames
  <2>3. QED
    BY <2>2, Blank
<1> HIDE DEF frame
<1>6. s1 \in Socket /\ s1.phase = "open" /\ s1.got = s.got /\ s1.wire = frame /\ s1.bare = s.bare
  BY <1>1, <1>4, <1>5 DEF Socket
<1>7. conn' = d
  BY <1>1, <1>2, <1>3 DEF Conn, Swapped, frame
<1> HIDE DEF s1
<1>8. d.timers = conn.timers /\ d.book = conn.book /\ d.ladder = conn.ladder /\ d.seq = conn.seq
      /\ d.transport = conn.transport
  BY <1>2 DEF Conn, Swapped
<1>9. Attended(d, s1)
  BY <1>1, <1>4, <1>5, <1>6, <1>8 DEF Attended
<1> HIDE DEF d
<1>10. /\ Sound(d) /\ d.age = conn.age /\ d.since = conn.since /\ d.backoff = conn.backoff
       /\ d.sockets[conn.ws] = s1
       /\ \A j \in Slots : j # conn.ws => d.sockets[j] = conn.sockets[j]
  BY <1>2, <1>3, <1>4, <1>6, <1>9, SocketChanged DEF d
<1>11. \A j \in Slots : d.sockets[j].got = conn.sockets[j].got
  BY <1>3, <1>6, <1>10
<1>12. Earned(d, heard)
  BY <1>10 DEF IInv, Earned
<1>13. IInv'
  BY <1>1, <1>2, <1>7, <1>10, <1>11, <1>12, Reassembled DEF IInv
<1>14. ~(conn'.backoff < conn.backoff)
  BY <1>2, <1>7, <1>10, Fields, Bounds
<1>15. QED
  BY <1>13, <1>14 DEF Patient

\* A fault that replaces the connection by its retry.
LEMMA FaultStep ==
  ASSUME IInv, conn.ws # Nowhere, conn' = Retried(conn), books' = 0, events' \in 0..MaxEvents,
         UNCHANGED <<kind, enabled, shown, reachable, flowing, heard>>
  PROVE  IInv' /\ Patient
<1>1. enabled = TRUE /\ Sound(conn)
  BY DEF IInv, Fresh
<1>2. /\ Sound(conn') /\ conn'.age = conn.age /\ conn'.since = conn.since
      /\ conn'.backoff >= conn.backoff
      /\ \A i \in Slots : conn'.sockets[i] = NoSocket
  BY <1>1, RetriedIsSound
<1>3. Earned(conn', heard')
  BY <1>2 DEF IInv, Earned
<1>4. IInv'
  BY <1>1, <1>2, <1>3, Blank, Reassembled DEF IInv
<1>5. ~(conn'.backoff < conn.backoff)
  <2>1. conn.backoff \in Int /\ conn'.backoff \in Int
    BY <1>1, <1>2, Fields, Bounds DEF Sound
  <2>2. QED
    BY <1>2, <2>1
<1>6. QED
  BY <1>4, <1>5 DEF Patient

\* A step that keeps the socket's books and the account of silence.
LEMMA QuietStep ==
  ASSUME IInv, enabled = TRUE, Sound(conn'), conn'.age = conn.age, conn'.since = conn.since,
         conn'.backoff = conn.backoff,
         \A i \in Slots : conn'.sockets[i].got => conn.sockets[i].got,
         events' \in 0..MaxEvents,
         UNCHANGED <<kind, enabled, shown, reachable, flowing, heard, books>>
  PROVE  IInv' /\ Patient
<1>1. Sound(conn)
  BY DEF IInv
<1>2. Earned(conn', heard')
  BY DEF IInv, Earned
<1>3. IInv'
  BY <1>2, Reassembled DEF IInv
<1>4. ~(conn'.backoff < conn.backoff)
  BY <1>1, Fields, Bounds DEF Sound
<1>5. QED
  BY <1>3, <1>4 DEF Patient

\* A frame lost leaves a sound connection: a bare one, if it was the socket's first.
LEMMA LossStep ==
  ASSUME IInv, NEW i \in Slots, FrameLost(i)
  PROVE  IInv' /\ Patient
<1> DEFINE s == conn.sockets[i]
           s1 == [s EXCEPT !.wire = NoFrame, !.bare = s.bare \/ ~s.got]
           d == Swapped(conn, s1, conn.timers)
<1>1. /\ s.wire # NoFrame /\ Event
      /\ conn' = [conn EXCEPT !.sockets[i] = s1]
      /\ UNCHANGED <<kind, enabled, shown, reachable, flowing, heard, books>>
  BY DEF FrameLost
<1>2. enabled = TRUE /\ Sound(conn) /\ conn \in Conn
  BY <1>1, FreshOpens, Blank DEF IInv, Sound
<1>3. i = conn.ws
  BY <1>1, <1>2, Blank DEF Sound
<1>4. /\ s \in Socket /\ Attended(conn, s) /\ conn.timers \in SUBSET {"handshake", "silence", "stable"}
  BY <1>2, <1>3, Fields DEF Sound, Slots, Nowhere
<1>5. /\ s1 \in Socket /\ s1.phase = s.phase /\ s1.got = s.got /\ s1.wire = NoFrame
      /\ (s.bare \/ ~s.got) => s1.bare
  <2>1. (s.bare \/ ~s.got) \in BOOLEAN /\ NoFrame \in Frames \cup {NoFrame}
    OBVIOUS
  <2>2. QED
    BY <1>4, <2>1 DEF Socket
<1>6. conn' = d
  BY <1>1, <1>2, <1>3 DEF Conn, Swapped
<1> HIDE DEF s1
<1>7. d.timers = conn.timers /\ d.book = conn.book /\ d.ladder = conn.ladder /\ d.seq = conn.seq
      /\ d.transport = conn.transport
  BY <1>2 DEF Conn, Swapped
<1>8. Attended(d, s1)
  BY <1>1, <1>4, <1>5, <1>7 DEF Attended
<1> HIDE DEF d
<1>9. /\ Sound(d) /\ d.age = conn.age /\ d.since = conn.since /\ d.backoff = conn.backoff
      /\ d.sockets[conn.ws] = s1
      /\ \A j \in Slots : j # conn.ws => d.sockets[j] = conn.sockets[j]
  BY <1>2, <1>3, <1>4, <1>5, <1>8, SocketChanged DEF d
<1>10. \A j \in Slots : d.sockets[j].got = conn.sockets[j].got
  BY <1>3, <1>5, <1>9
<1>11. events' \in 0..MaxEvents
  BY <1>1, EventCounts DEF IInv
<1>12. QED
  BY <1>1, <1>2, <1>6, <1>9, <1>10, <1>11, QuietStep

\* A mounted hook's connection is sound.
LEMMA LiveStarts == Init => IInv
<1> SUFFICES ASSUME Init PROVE IInv
  OBVIOUS
<1>1. /\ Sound(conn) /\ conn.age = "never" /\ conn.since = Unmarked
      /\ \A i \in Slots : ~conn.sockets[i].got
  BY FreshOpens DEF Init
<1>2. Earned(conn, heard)
  BY <1>1 DEF Init, Earned
<1>3. heard \in Unmarked..Promotion /\ books \in 0..2 /\ events \in 0..MaxEvents
  BY Bounds DEF Init, Unmarked
<1>4. QED
  BY <1>1, <1>2, <1>3 DEF Init, IInv

\* Every step leaves a sound connection and shortens no wait it may not.
LEMMA LiveStep ==
  ASSUME IInv, [Next]_vars
  PROVE  IInv' /\ Patient
<1>0. /\ kind \in Kinds /\ enabled \in BOOLEAN /\ reachable \in BOOLEAN /\ flowing \in BOOLEAN
      /\ shown \in {"none", "connecting", "live", "stale", "error"}
      /\ heard \in Unmarked..Promotion /\ books \in 0..2 /\ events \in 0..MaxEvents
      /\ (enabled => Sound(conn)) /\ (~enabled => conn = Fresh)
      /\ Earned(conn, heard) /\ \A i \in Slots : conn.sockets[i].got => books >= 1
      /\ conn \in Conn
  BY FreshOpens DEF IInv, Sound
<1>a. conn.backoff \in Int
  BY <1>0, Fields, Bounds
<1>1. CASE UNCHANGED vars
  <2>1. IInv'
    BY <1>1 DEF vars, IInv
  <2>2. ~(conn'.backoff < conn.backoff)
    BY <1>1, <1>a DEF vars
  <2>3. QED
    BY <2>1, <2>2 DEF Patient
<1>2. ASSUME NEW i \in Slots, FrameLost(i) PROVE IInv' /\ Patient
  BY <1>2, LossStep
<1>3. ASSUME SocketOpens PROVE IInv' /\ Patient
  <2>1. /\ conn.ws # Nowhere /\ conn.sockets[conn.ws].phase = "connecting"
        /\ UNCHANGED <<kind, enabled, shown, reachable, flowing, heard, books>>
        /\ Event \/ UNCHANGED events
        /\ \E subscribed \in BOOLEAN : conn' = Upgraded(conn, subscribed)
    BY <1>3 DEF SocketOpens
  <2>2. enabled = TRUE /\ Sound(conn)
    BY <1>0, <2>1 DEF Fresh
  <2>3. /\ Sound(conn') /\ conn'.age = conn.age /\ conn'.since = conn.since
        /\ conn'.backoff = conn.backoff
        /\ \A j \in Slots : conn'.sockets[j].got = conn.sockets[j].got
    BY <2>1, <2>2, UpgradedIsSound
  <2>4. QED
    BY <1>0, <2>1, <2>2, <2>3, EventCounts, QuietStep
<1>4. ASSUME SocketFails \/ HandshakeExpires \/ SilenceExpires PROVE IInv' /\ Patient
  <2>1. conn.ws # Nowhere
    <3>1. CASE SocketFails
      BY <3>1 DEF SocketFails
    <3>2. CASE conn.timers # {}
      BY <1>0, <3>2 DEF Sound, Fresh
    <3>3. QED
      BY <1>4, <3>1, <3>2 DEF HandshakeExpires, SilenceExpires
  <2>2. /\ conn' = Retried(conn) /\ books' = 0
        /\ Event \/ UNCHANGED events
        /\ UNCHANGED <<kind, enabled, shown, reachable, flowing, heard>>
    BY <1>4 DEF SocketFails, HandshakeExpires, SilenceExpires, Replaced
  <2>3. events' \in 0..MaxEvents
    BY <1>0, <2>2, EventCounts
  <2>4. QED
    BY <2>1, <2>2, <2>3, FaultStep
<1>5. ASSUME StableElapses PROVE IInv' /\ Patient
  <2> DEFINE s == [conn.sockets[conn.ws] EXCEPT !.settled = TRUE]
             ts == conn.timers \ {"stable"}
             d == Swapped(conn, s, ts)
  <2>1. /\ conn.timers # {}
        /\ UNCHANGED <<kind, enabled, shown, reachable, flowing, heard, books, events>>
        /\ conn' = [conn EXCEPT !.timers = @ \ {"stable"}, !.sockets[conn.ws].settled = TRUE]
    BY <1>5 DEF StableElapses
  <2>2. enabled = TRUE /\ Sound(conn) /\ conn.ws \in Slots
    BY <1>0, <2>1, Fields DEF Fresh, Sound
  <2>3. conn' = d
    BY <1>0, <2>1 DEF Conn, Swapped
  <2>4. /\ conn.sockets[conn.ws] \in Socket /\ Attended(conn, conn.sockets[conn.ws])
        /\ ts \in SUBSET {"handshake", "silence", "stable"}
    BY <1>0, <2>2, Fields DEF Sound, Slots, Nowhere
  <2>5. /\ s \in Socket /\ s.phase = conn.sockets[conn.ws].phase /\ s.got = conn.sockets[conn.ws].got
        /\ s.wire = conn.sockets[conn.ws].wire /\ s.sent = conn.sockets[conn.ws].sent
        /\ s.bare = conn.sockets[conn.ws].bare
    BY <2>4 DEF Socket
  <2> HIDE DEF s
  <2>6. d.timers = ts /\ d.book = conn.book /\ d.ladder = conn.ladder /\ d.seq = conn.seq
        /\ d.transport = conn.transport
    BY <1>0 DEF Conn, Swapped
  <2>7. Attended(d, s)
    BY <2>4, <2>5, <2>6 DEF Attended
  <2> HIDE DEF d, ts
  <2>8. /\ Sound(d) /\ d.age = conn.age /\ d.since = conn.since /\ d.backoff = conn.backoff
        /\ d.sockets[conn.ws] = s
        /\ \A j \in Slots : j # conn.ws => d.sockets[j] = conn.sockets[j]
    BY <2>2, <2>4, <2>5, <2>7, SocketChanged DEF d
  <2>9. \A j \in Slots : d.sockets[j].got => conn.sockets[j].got
    BY <2>5, <2>8
  <2>10. QED
    BY <1>0, <2>1, <2>2, <2>3, <2>8, <2>9, QuietStep
<1>6. ASSUME RetryFires PROVE IInv' /\ Patient
  <2> DEFINE c == [conn EXCEPT !.retry = FALSE]
  <2>1. /\ conn.retry /\ conn' = Opened(c, reachable) /\ books' = 0
        /\ UNCHANGED <<kind, enabled, shown, reachable, flowing, heard, events>>
    BY <1>6 DEF RetryFires, Replaced
  <2>2. enabled = TRUE /\ Sound(conn)
    BY <1>0, <2>1 DEF Fresh
  <2>3. /\ c \in Conn /\ c.sockets = conn.sockets /\ c.ws = conn.ws /\ c.retry = FALSE
        /\ c.timers = conn.timers /\ c.seq = conn.seq /\ c.ladder = conn.ladder
        /\ c.transport = conn.transport /\ c.age = conn.age /\ c.since = conn.since
        /\ c.backoff = conn.backoff
    BY <1>0 DEF Conn
  <2>4. /\ conn.ws = Nowhere /\ conn.timers = {} /\ conn.seq = 0 /\ conn.transport # "live"
        /\ \A i \in Slots : conn.sockets[i] = NoSocket
    BY <2>1, <2>2 DEF Sound, Slots, Nowhere
  <2>5. conn.ladder = NoLadder
    <3>1. conn.ladder \in Ladder /\ conn.ladder.whole /\ conn.ladder.at = 0
      BY <1>0, <2>2, <2>4, Fields DEF Sound
    <3>2. QED
      BY <3>1 DEF Ladder, NoLadder
  <2> HIDE DEF c
  <2>6. /\ Sound(conn') /\ conn'.age = conn.age /\ conn'.since = conn.since
        /\ conn'.backoff = conn.backoff
        /\ \A i \in Slots : ~conn'.sockets[i].got
    <3>1. reachable \in BOOLEAN /\ c.transport # "live" /\ c.ladder = NoLadder /\ c.ws = Nowhere
          /\ c.seq = 0 /\ c.timers = {} /\ \A i \in Slots : c.sockets[i] = NoSocket
      BY <1>0, <2>3, <2>4, <2>5
    <3>2. /\ Sound(Opened(c, reachable))
          /\ Opened(c, reachable).age = c.age /\ Opened(c, reachable).since = c.since
          /\ Opened(c, reachable).backoff = c.backoff
          /\ \A i \in Slots : ~Opened(c, reachable).sockets[i].got
      BY <2>3, <3>1, OpenedIsSound
    <3>3. QED
      BY <2>1, <2>3, <3>2
  <2>7. IInv'
    <3>1. Earned(conn', heard')
      BY <1>0, <2>1, <2>6 DEF Earned
    <3>2. QED
      BY <1>0, <2>1, <2>2, <2>6, <3>1, Reassembled
  <2>8. QED
    BY <1>a, <2>6, <2>7 DEF Patient
<1>7. ASSUME Silence PROVE IInv' /\ Patient
  <2>1. /\ conn.age = "fresh" /\ conn' = [conn EXCEPT !.age = "old"] /\ heard' = 0
        /\ Event \/ UNCHANGED events
        /\ UNCHANGED <<kind, enabled, shown, reachable, flowing, books>>
    BY <1>7 DEF Silence
  <2>2. enabled = TRUE /\ Sound(conn)
    BY <1>0, <2>1, FreshOpens
  <2>3. /\ conn' \in Conn /\ conn'.sockets = conn.sockets /\ conn'.ws = conn.ws
        /\ conn'.timers = conn.timers /\ conn'.retry = conn.retry /\ conn'.seq = conn.seq
        /\ conn'.ladder = conn.ladder /\ conn'.book = conn.book
        /\ conn'.transport = conn.transport /\ conn'.age = "old" /\ conn'.backoff = conn.backoff
    BY <1>0, <2>1 DEF Conn
  <2>4. Sound(conn') /\ Earned(conn', heard') /\ heard' \in Unmarked..Promotion
    <3>1. Sound(conn')
      BY <2>2, <2>3, SoundIgnoresAge
    <3>2. Earned(conn', heard')
      BY <2>1, <2>3 DEF Earned
    <3>3. heard' \in Unmarked..Promotion
      BY <2>1, Bounds DEF Unmarked
    <3>4. QED
      BY <3>1, <3>2, <3>3
  <2>5. IInv'
    BY <1>0, <2>1, <2>2, <2>3, <2>4, EventCounts, Reassembled
  <2>6. QED
    BY <1>a, <2>3, <2>5 DEF Patient
<1>8. ASSUME Publish PROVE IInv' /\ Patient
  <2>1. /\ enabled /\ shown' = StatusAt(conn) /\ conn' = Asked(conn)
        /\ UNCHANGED <<kind, enabled, reachable, flowing, heard, books, events>>
    BY <1>8 DEF Publish
  <2>2. /\ Sound(conn') /\ Earned(conn', heard) /\ conn'.backoff = conn.backoff
        /\ conn'.sockets = conn.sockets
        /\ StatusAt(conn) \in {"connecting", "live", "stale", "error"}
    BY <1>0, <2>1, AskedIsSound
  <2>3. IInv'
    BY <1>0, <2>1, <2>2, Reassembled
  <2>4. QED
    BY <1>a, <2>2, <2>3 DEF Patient
<1>9. ASSUME Restart PROVE IInv' /\ Patient
  <2>1. /\ enabled /\ Event /\ conn' = Restarted(conn, reachable) /\ books' = 0
        /\ heard' = IF conn.age = "old" THEN heard ELSE Unmarked
        /\ UNCHANGED <<kind, enabled, shown, reachable, flowing>>
    BY <1>9 DEF Restart, Replaced
  <2>2. /\ Sound(conn') /\ conn'.age = conn.age /\ conn'.since = Unmarked
        /\ \A i \in Slots : ~conn'.sockets[i].got
    BY <1>0, <2>1, RestartedIsSound
  <2>3. Earned(conn', heard') /\ heard' \in Unmarked..Promotion
    BY <1>0, <2>1, <2>2, Bounds DEF Earned, Unmarked
  <2>4. IInv'
    BY <1>0, <2>1, <2>2, <2>3, EventCounts, Reassembled
  <2>5. QED
    BY <1>9, <2>4 DEF Patient
<1>10. ASSUME Toggle PROVE IInv' /\ Patient
  <2>1. /\ Event \/ UNCHANGED events
        /\ \/ enabled' = FALSE /\ conn' = Fresh
           \/ enabled' = TRUE /\ conn' = Opened(Fresh, reachable)
        /\ books' = 0 /\ shown' = "none" /\ heard' = Unmarked
        /\ UNCHANGED <<kind, reachable, flowing>>
    BY <1>10 DEF Toggle, Replaced
  <2>2. /\ events' \in 0..MaxEvents /\ Unmarked \in Unmarked..Promotion
    BY <1>0, <2>1, EventCounts, Bounds DEF Unmarked
  <2>3. /\ conn'.age = "never" /\ conn'.since = Unmarked
        /\ \A i \in Slots : ~conn'.sockets[i].got
        /\ enabled' => Sound(conn')
        /\ ~enabled' => conn' = Fresh
    BY <1>0, <2>1, FreshOpens, Blank
  <2>4. Earned(conn', heard')
    BY <2>1, <2>3 DEF Earned
  <2>5. IInv'
    <3>1. (IF enabled THEN Sound(conn) ELSE conn = Fresh)'
      BY <2>1, <2>3
    <3>2. (\A i \in Slots : conn.sockets[i].got => books >= 1)'
      BY <2>3
    <3>3. /\ kind' \in Kinds /\ reachable' \in BOOLEAN /\ flowing' \in BOOLEAN
          /\ shown' \in {"none", "connecting", "live", "stale", "error"}
      BY <1>0, <2>1
    <3>4. enabled' \in BOOLEAN
      BY <2>1
    <3>5. heard' \in Unmarked..Promotion /\ books' \in 0..2
      BY <2>1, <2>2
    <3>6. QED
      BY <2>2, <2>4, <3>1, <3>2, <3>3, <3>4, <3>5 DEF IInv
  <2>6. QED
    BY <1>10, <2>5 DEF Patient
<1>11. ASSUME VenueChanges PROVE IInv' /\ Patient
  <2>1. /\ UNCHANGED <<kind, enabled, conn, shown, heard, books>> /\ Event
        /\ reachable' \in BOOLEAN /\ flowing' \in BOOLEAN
    BY <1>0, <1>11 DEF VenueChanges
  <2>2. IInv'
    BY <1>0, <2>1, EventCounts DEF IInv
  <2>3. QED
    BY <1>a, <2>1, <2>2 DEF Patient
<1>12. QED
  BY <1>1, <1>2, <1>3, <1>4, <1>5, <1>6, <1>7, <1>8, <1>9, <1>10, <1>11, DeliverStep, SendStep
     DEF Next

(*** The theorems **********************************************************)

\* The inductive invariant of one venue: what a running hook's connection is sound in, and
\* what the silences it has lived through still cost it.
THEOREM LiveInvariant == Spec => []IInv
<1>1. Init => IInv
  BY LiveStarts
<1>2. IInv /\ [Next]_vars => IInv'
  BY LiveStep
<1>3. QED
  BY <1>1, <1>2, PTL DEF Spec

\* The types the run checks.
LEMMA WellTyped == IInv => TypeOK
<1> SUFFICES ASSUME IInv PROVE TypeOK
  OBVIOUS
<1>1. conn \in Conn /\ (enabled => Sound(conn)) /\ (~enabled => conn = Fresh)
  BY FreshOpens DEF IInv, Sound
<1>2. ASSUME NEW i \in Slots
      PROVE  LET s == conn.sockets[i] IN
               /\ s.phase \in Phases /\ {s.subscribed, s.got, s.settled, s.bare} \subseteq BOOLEAN
               /\ s.sent \in Numbers \cup {0} /\ s.wire \in Frames \cup {NoFrame}
               /\ s.phase # "open" => s.wire = NoFrame /\ ~s.got
  <2> DEFINE s == conn.sockets[i]
  <2>1. s \in Socket
    BY <1>1, Fields
  <2>2. s = NoSocket \/ Attended(conn, s)
    <3>1. CASE ~enabled
      BY <1>1, <3>1, FreshOpens
    <3>2. CASE enabled /\ i # conn.ws
      BY <1>1, <3>2 DEF Sound
    <3>3. CASE enabled /\ i = conn.ws
      BY <1>1, <3>3 DEF Sound, Slots, Nowhere
    <3>4. QED
      BY <3>1, <3>2, <3>3
  <2>3. s.phase # "open" => s.wire = NoFrame /\ ~s.got
    BY <2>2, Blank DEF Attended
  <2> HIDE DEF s
  <2>4. QED
    BY <2>1, <2>3 DEF Socket, s
<1>3. kind \in Kinds /\ {enabled, reachable, flowing} \subseteq BOOLEAN
  BY DEF IInv
<1>4. QED
  BY <1>1, <1>2, <1>3, Fields DEF IInv, TypeOK

\* While the hook runs, the venue has one attached socket or one retry on its way, never
\* both, and a socket always has the deadline that ends it: the supervisor can neither
\* stall nor double its connection, whatever fails and in which order.
THEOREM OneWayForwardAlways == Spec => []OneWayForward
<1>1. IInv => OneWayForward
  <2> SUFFICES ASSUME IInv PROVE OneWayForward
    OBVIOUS
  <2> DEFINE attached == {i \in Slots : conn.sockets[i].phase # "none"}
  <2>1. ASSUME enabled
        PROVE  /\ attached = {conn.ws} \ {Nowhere}
               /\ conn.retry = (conn.ws = Nowhere)
               /\ conn.ws # Nowhere => conn.timers \cap {"handshake", "silence"} # {}
    <3>1. Sound(conn) /\ conn.ws \in Slots \cup {Nowhere} /\ conn.retry \in BOOLEAN
      BY <2>1, Fields DEF IInv, Sound
    <3>2. \A i \in Slots : i # conn.ws => conn.sockets[i].phase = "none"
      BY <3>1, Blank DEF Sound
    <3>3. conn.ws # Nowhere => Attended(conn, conn.sockets[conn.ws])
      BY <3>1 DEF Sound
    <3>4. attached = {conn.ws} \ {Nowhere}
      BY <3>1, <3>2, <3>3 DEF Attended, Slots, Nowhere
    <3>5. conn.ws # Nowhere => conn.timers \cap {"handshake", "silence"} # {}
      BY <3>3 DEF Attended
    <3>6. conn.retry = (conn.ws = Nowhere)
      BY <3>1 DEF Sound
    <3>7. QED
      BY <3>4, <3>5, <3>6
  <2>2. QED
    BY <2>1, WellTyped DEF OneWayForward
<1>2. QED
  BY <1>1, LiveInvariant, PTL

\* Whenever the venue may price an order, its book is the book of the socket that is open
\* now, every silence has been earned back in full, and no delta is missing from it: a hole
\* can only be the snapshot that this very socket lost (livebook-socket.ts:298).
THEOREM PricedBookAlwaysWhole == Spec => []PricedBookIsWhole
<1>1. IInv => PricedBookIsWhole
  <2> SUFFICES ASSUME IInv, enabled, StatusAt(conn) = "live"
               PROVE  /\ conn.ws # Nowhere /\ conn.sockets[conn.ws].phase = "open"
                      /\ conn.book = conn.ladder /\ (conn.book.whole \/ conn.sockets[conn.ws].bare)
                      /\ heard \in {Unmarked, Promotion}
    BY DEF PricedBookIsWhole
  <2>1. /\ Sound(conn) /\ conn.since \in Unmarked..Promotion /\ conn.transport \in {"connecting", "live", "error"}
        /\ Earned(conn, heard) /\ heard \in Unmarked..Promotion
    BY Fields DEF IInv, Sound
  <2>2. conn.transport = "live" /\ conn.age # "old" /\ conn.since \in {Unmarked, Promotion}
    BY <2>1 DEF StatusAt
  <2>3. conn.ws # Nowhere /\ Attended(conn, conn.sockets[conn.ws])
        /\ (conn.ladder.whole \/ conn.sockets[conn.ws].bare)
    BY <2>1, <2>2 DEF Sound
  <2>4. conn.book = conn.ladder /\ conn.sockets[conn.ws].phase = "open"
    BY <2>2, <2>3 DEF Attended
  <2>5. heard \in {Unmarked, Promotion}
    BY <2>1, <2>2, Bounds DEF Earned, Unmarked
  <2>6. QED
    BY <2>3, <2>4, <2>5
<1>2. QED
  BY <1>1, LiveInvariant, PTL

\* The wait before the next attempt shrinks only when a socket brings its second book, or an
\* operator starts over: a socket that brings one book and dies never shortens it.
THEOREM FlappingKeepsBackoff == Spec => BackoffSurvivesFlapping
<1>1. IInv /\ [Next]_vars => [conn'.backoff < conn.backoff => books' = 2 \/ Restart \/ Toggle]_vars
  BY LiveStep DEF Patient
<1>2. QED
  BY <1>1, LiveInvariant, PTL DEF Spec, BackoffSurvivesFlapping

(*** The desk's reads: the invariant ***************************************)

Refresh == [waits : SUBSET Resources, out : Outcomes \cup {NoBook}]
Machine == [best : Versions \cup {NoBook}, demoted : BOOLEAN, streak : 0..Streak,
            failure : {NoBook, Failed, Unconfigured}]
Probe == {"idle", "asked"} \X {NoBook} \cup {"read"} \X Outcomes

ReadsShape ==
  /\ probe \in [Resources -> Probe] /\ probe["audit"][1] # "read"
  /\ latest \in [Surfaces -> Refresh] /\ old \in [Surfaces -> Refresh]
  /\ machine \in [Surfaces -> Machine] /\ streakOf \in [Surfaces -> 0..Streak]

LoopShape ==
  /\ on \in [Surfaces -> BOOLEAN] /\ timer \in [Surfaces -> BOOLEAN]
  /\ tick \in [Surfaces -> {"no", "latest", "old"}]

StreamShape ==
  /\ source \in {"none", "opening", "open"} /\ loop \in [on : BOOLEAN, timer : BOOLEAN]
  /\ store \in [state : {"connecting", "live", "unavailable"}, seq : 0..(MaxChanges + 1),
                ver : Versions \cup {NoBook}]
  /\ pushed \in [seq : 0..(MaxChanges + 1), ver : Versions \cup {NoBook}]
  /\ seen \in [Surfaces -> 0..(MaxChanges + 1)]

WorldShape ==
  /\ desk \in Versions /\ health \in {"up", "down", "absent"} /\ hidden \in BOOLEAN
  /\ generated \in [Surfaces -> BOOLEAN] /\ disturbances \in 0..MaxDisturbances

\* One way to go on for a loop that runs, and nobody waits for what is not asked.
LoopsOk == \A s \in Surfaces :
  /\ on[s] = (timer[s] \/ tick[s] # "no") /\ ~(timer[s] /\ tick[s] # "no")
  /\ tick[s] = "latest" => latest[s].waits # {}
  /\ tick[s] = "old" => old[s].waits # {}
  /\ \A r \in latest[s].waits \cup old[s].waits : probe[r][1] # "idle"

\* The stream belongs to its loop, and the loop to the surfaces that subscribe.
StreamOk ==
  /\ loop.on => loop.timer # (source = "opening")
  /\ source # "none" \/ loop.timer \/ store.state = "live" => loop.on
  /\ loop.on /\ Surfaces # {} => \E s \in Surfaces : on[s]

\* A connection has pushed at most one number for each version of the book.
PushedOk == pushed.ver <= desk /\ pushed.seq <= pushed.ver + 1

\* What a surface shows is no newer than the book it waits to hand on, that no newer than
\* the answer on its way, and that no newer than the gateway's.
OrderOk == \A s \in Surfaces :
  /\ machine[s].best <= desk /\ latest[s].out <= desk
  /\ latest[s].out >= 0 => machine[s].best <= latest[s].out
  /\ probe["book"][2] >= 0 =>
       machine[s].best <= probe["book"][2] /\ latest[s].out <= probe["book"][2]

ProbeOk == probe["book"][2] <= desk

\* The history counts what the machine counts.
StreakOk == \A s \in Surfaces :
  streakOf[s] = machine[s].streak /\ (machine[s].demoted => machine[s].best # NoBook)

PageInv ==
  /\ ReadsShape /\ LoopShape /\ StreamShape /\ WorldShape
  /\ LoopsOk /\ StreamOk /\ PushedOk /\ OrderOk /\ ProbeOk /\ StreakOk

ReadsInv == ReadsShape /\ LoopShape /\ LoopsOk /\ OrderOk /\ ProbeOk /\ StreakOk
StreamInv == StreamShape /\ StreamOk /\ PushedOk

\* The invariant splits into the reads, the stream and the world.
LEMMA PageParts == PageInv <=> ReadsInv /\ StreamInv /\ WorldShape
BY DEF PageInv, ReadsInv, StreamInv

\* The bounds, and the codes of the failures below every version.
LEMMA PageBounds ==
  /\ Streak \in Nat /\ Streak >= 1 /\ MaxChanges \in Nat /\ MaxDisturbances \in Nat
  /\ Versions \subseteq Nat /\ 0 \in Versions /\ NoBook = -1 /\ Failed = -2 /\ Unconfigured = -3
  /\ \A o \in Outcomes : o \in Versions \/ o = -2 \/ o = -3
  /\ \A o \in Outcomes : o \in Int /\ o # -1 /\ (o >= 0 <=> o \in Versions)
BY DeskAssumption DEF Versions, Outcomes, NoBook, Failed, Unconfigured

\* Versions and outcomes compare as numbers.
LEMMA PageNumbers ==
  /\ \A o \in Versions \cup {NoBook} : o \in Int /\ o >= -1
  /\ \A o \in Outcomes \cup {NoBook} : o \in Int
BY PageBounds

\* A request carries an outcome once it was read, and none before.
LEMMA ProbeIs ==
  ASSUME NEW p \in Probe
  PROVE  /\ p[1] \in {"idle", "asked", "read"} /\ p[2] \in Outcomes \cup {NoBook} /\ p[2] \in Int
         /\ p[1] # "read" => p[2] = NoBook
         /\ p[1] = "read" => p[2] \in Outcomes
         /\ p = <<p[1], p[2]>>
BY PageBounds DEF Probe

(*** The desk's reads: refreshes and the machine ***************************)

\* What is left of a refresh.
LEMMA RestIs ==
  ASSUME NEW f \in Refresh, NEW r \in Resources, NEW out \in Outcomes \cup {NoBook}
  PROVE  /\ Rest(f, r, out) \in Refresh /\ Rest(f, r, out).waits = f.waits \ {r}
         /\ Rest(f, r, out).out =
              IF f.waits \ {r} = {} THEN NoBook ELSE IF r = "book" THEN out ELSE f.out
BY DEF Refresh, Rest, NoRefresh

\* The streak counts up to its bound.
LEMMA CappedIs ==
  ASSUME NEW n \in 0..Streak
  PROVE  Capped(n + 1) \in 0..Streak /\ (n + 1 >= Streak => Capped(n + 1) = Streak)
BY PageBounds DEF Capped

\* An answer is shown, a failure changes nothing of what is, and only a streak promotes.
LEMMA ObservedIs ==
  ASSUME NEW m \in Machine, NEW out \in Outcomes, m.demoted => m.best # NoBook
  PROVE  /\ Observed(m, out) \in Machine
         /\ Observed(m, out).best = IF out >= 0 THEN out ELSE m.best
         /\ Observed(m, out).streak = IF out < 0 THEN 0 ELSE Capped(m.streak + 1)
         /\ Observed(m, out).demoted => Observed(m, out).best # NoBook
         /\ m.demoted /\ ~Observed(m, out).demoted => out >= 0 /\ m.streak + 1 >= Streak
<1>1. /\ m.best \in Versions \cup {NoBook} /\ m.demoted \in BOOLEAN /\ m.streak \in 0..Streak
      /\ Capped(m.streak + 1) \in 0..Streak
  BY CappedIs DEF Machine
<1>2. CASE out >= 0
  <2>1. Observed(m, out) = [best |-> out, streak |-> Capped(m.streak + 1), failure |-> NoBook,
                            demoted |-> m.demoted /\ m.streak + 1 < Streak]
    BY <1>2 DEF Observed
  <2>2. out \in Versions /\ out # NoBook /\ ~(out < 0)
    BY <1>2, PageBounds
  <2>. QED BY <1>1, <1>2, <2>1, <2>2, PageBounds DEF Machine
<1>3. CASE ~(out >= 0)
  <2>1. Observed(m, out) = [m EXCEPT !.failure = out, !.streak = 0, !.demoted = m.best # NoBook]
    BY <1>3 DEF Observed
  <2>2. out \in {NoBook, Failed, Unconfigured} /\ out < 0 /\ 0 \in 0..Streak
    BY <1>3, PageBounds
  <2>3. Observed(m, out) = [best |-> m.best, demoted |-> m.best # NoBook, streak |-> 0, failure |-> out]
    BY <2>1 DEF Machine
  <2>. QED BY <1>1, <1>3, <2>2, <2>3 DEF Machine
<1>. QED BY <1>2, <1>3

\* The gateway's book moves on under reads that stand.
LEMMA ReadsStand ==
  ASSUME ReadsInv, UNCHANGED <<readVars, loopVars>>, desk \in Versions, desk' \in Versions, desk <= desk'
  PROVE  ReadsInv'
<1>1. /\ UNCHANGED <<probe, latest, machine, streakOf, on, timer, tick, old>>
  BY DEF readVars, loopVars
<1>2. ReadsShape' /\ LoopShape' /\ LoopsOk' /\ StreakOk'
  BY <1>1 DEF ReadsInv, ReadsShape, LoopShape, LoopsOk, StreakOk
<1>3. /\ probe["book"][2] \in Int /\ desk \in Int /\ desk' \in Int
      /\ \A s \in Surfaces : machine[s].best \in Int /\ latest[s].out \in Int
  BY PageBounds, ProbeIs DEF ReadsInv, ReadsShape, Machine, Refresh, Resources
<1>4. OrderOk' /\ ProbeOk'
  BY <1>1, <1>3 DEF ReadsInv, OrderOk, ProbeOk
<1>. QED BY <1>2, <1>4 DEF ReadsInv

\* The gateway's book moves on under a stream that stands.
LEMMA StreamStands ==
  ASSUME StreamInv, UNCHANGED <<streamVars, seen, on>>, desk \in Versions, desk' \in Versions, desk <= desk'
  PROVE  StreamInv'
<1>1. UNCHANGED <<source, pushed, store, loop, seen, on>>
  BY DEF streamVars
<1>2. pushed.ver \in Versions \cup {NoBook} /\ pushed.seq \in 0..(MaxChanges + 1)
  BY DEF StreamInv, StreamShape
<1>3. pushed.ver \in Int /\ desk \in Int /\ desk' \in Int
  BY <1>2, PageNumbers
<1>. QED BY <1>1, <1>3 DEF StreamInv, StreamShape, StreamOk, PushedOk

(*** The desk's reads: asking **********************************************)

\* A refresh joins what is in flight and asks what is not: nobody waits for nothing, and
\* a tick it supersedes keeps what it waits for.
LEMMA AskKeeps ==
  ASSUME ReadsInv, desk \in Versions, NEW s \in Surfaces, NEW audit \in BOOLEAN, NEW byTick \in BOOLEAN,
         Ask(s, audit, byTick), desk' = desk, on' = on,
         IF byTick THEN on[s] /\ timer[s] /\ tick[s] = "no" /\ timer' = [timer EXCEPT ![s] = FALSE]
         ELSE timer' = timer
  PROVE  ReadsInv'
<1>. DEFINE w == Wanted(s, audit)
            f == [waits |-> w, out |-> NoBook]
<1>1. /\ latest' = [latest EXCEPT ![s] = f]
      /\ probe' = [r \in Resources |-> IF r \in w /\ probe[r][1] = "idle" THEN <<"asked", NoBook>> ELSE probe[r]]
      /\ machine' = machine /\ streakOf' = streakOf
      /\ IF byTick THEN tick' = [tick EXCEPT ![s] = "latest"] /\ old' = old
         ELSE IF tick[s] = "latest"
         THEN tick' = [tick EXCEPT ![s] = "old"] /\ old' = [old EXCEPT ![s] = latest[s]]
         ELSE tick' = tick /\ old' = old
  BY DEF Ask
<1>2. w \subseteq Resources /\ w # {} /\ f \in Refresh /\ f.waits = w /\ f.out = NoBook
  BY DEF Wanted, Resources, Refresh
<1>. HIDE DEF w, f
<1>3. ReadsShape /\ LoopShape /\ LoopsOk /\ OrderOk /\ ProbeOk /\ StreakOk
  BY DEF ReadsInv
<1>4. /\ \A r \in Resources : probe[r] \in Probe
      /\ \A r \in Resources : probe[r][1] # "idle" => probe'[r] = probe[r]
      /\ \A r \in w : probe'[r][1] # "idle"
      /\ \A r \in Resources : probe'[r] = probe[r] \/ probe'[r] = <<"asked", NoBook>>
  BY <1>1, <1>2, <1>3 DEF ReadsShape
<1>5. probe' \in [Resources -> Probe] /\ probe'["audit"][1] # "read"
  <2>1. <<"asked", NoBook>> \in Probe
    BY DEF Probe
  <2>2. \A r \in Resources : probe'[r] \in Probe
    BY <1>4, <2>1
  <2>3. probe' = [r \in Resources |-> probe'[r]]
    BY <1>1
  <2>4. probe' \in [Resources -> Probe]
    BY <2>2, <2>3
  <2>5. probe'["audit"] = probe["audit"] \/ probe'["audit"] = <<"asked", NoBook>>
    BY <1>4 DEF Resources
  <2>6. probe'["audit"][1] # "read"
    BY <1>3, <2>5 DEF ReadsShape
  <2>. QED BY <2>4, <2>6
<1>6. /\ latest[s] \in Refresh /\ latest' \in [Surfaces -> Refresh] /\ old' \in [Surfaces -> Refresh]
      /\ latest'[s] = f /\ \A x \in Surfaces : x # s => latest'[x] = latest[x] /\ old'[x] = old[x] /\ tick'[x] = tick[x]
  BY <1>1, <1>2, <1>3 DEF ReadsShape, LoopShape
<1>7. ReadsShape' /\ LoopShape'
  BY <1>1, <1>3, <1>5, <1>6 DEF ReadsShape, LoopShape
<1>8. LoopsOk'
  <2>. SUFFICES ASSUME NEW x \in Surfaces
                PROVE  /\ on[x] = (timer'[x] \/ tick'[x] # "no") /\ ~(timer'[x] /\ tick'[x] # "no")
                       /\ tick'[x] = "latest" => latest'[x].waits # {}
                       /\ tick'[x] = "old" => old'[x].waits # {}
                       /\ \A r \in latest'[x].waits \cup old'[x].waits : probe'[r][1] # "idle"
    BY DEF LoopsOk
  <2>1. /\ \A r \in latest[x].waits \cup old[x].waits : r \in Resources /\ probe'[r][1] # "idle"
    BY <1>3, <1>4 DEF LoopsOk, ReadsShape, Refresh
  <2>2. CASE x # s
    BY <1>3, <1>6, <2>1, <2>2 DEF LoopsOk, LoopShape
  <2>3. CASE x = s
    <3>1. \A r \in latest'[s].waits : probe'[r][1] # "idle"
      BY <1>2, <1>4, <1>6
    <3>2. \A r \in old'[s].waits : probe'[r][1] # "idle"
      BY <1>1, <1>3, <1>6, <2>1, <2>3 DEF ReadsShape
    <3>3. tick'[s] = "old" => old'[s].waits # {}
      BY <1>1, <1>3 DEF LoopsOk, LoopShape, ReadsShape
    <3>4. on[s] = (timer'[s] \/ tick'[s] # "no") /\ ~(timer'[s] /\ tick'[s] # "no")
      BY <1>1, <1>3 DEF LoopsOk, LoopShape
    <3>. QED BY <1>2, <1>6, <2>3, <3>1, <3>2, <3>3, <3>4
  <2>. QED BY <2>2, <2>3
<1>9. OrderOk' /\ ProbeOk'
  <2>1. "book" \in Resources /\ (probe'["book"][2] = probe["book"][2] \/ probe'["book"][2] = NoBook)
    BY <1>4 DEF Resources
  <2>2. NoBook = -1 /\ desk \in Nat
    BY PageBounds
  <2>3. \A x \in Surfaces : latest'[x].out = latest[x].out \/ latest'[x].out = NoBook
    BY <1>2, <1>6
  <2>4. /\ probe["book"][2] \in Int
        /\ \A x \in Surfaces : machine[x].best \in Int /\ latest[x].out \in Int
    BY <1>3, <1>4, <2>1, PageBounds, ProbeIs DEF ReadsShape, Machine, Refresh
  <2>5. ASSUME NEW x \in Surfaces
        PROVE  /\ machine[x].best <= desk /\ latest'[x].out <= desk
               /\ latest'[x].out >= 0 => machine[x].best <= latest'[x].out
               /\ probe'["book"][2] >= 0 =>
                    machine[x].best <= probe'["book"][2] /\ latest'[x].out <= probe'["book"][2]
    BY <1>3, <2>1, <2>2, <2>3, <2>4 DEF OrderOk
  <2>. QED BY <1>1, <1>3, <2>1, <2>2, <2>5 DEF OrderOk, ProbeOk
<1>10. StreakOk'
  BY <1>1, <1>3 DEF StreakOk
<1>. QED BY <1>7, <1>8, <1>9, <1>10 DEF ReadsInv

\* A superseded refresh is dropped; the tick that asked it still waits for it.
LEMMA SupersedeKeeps ==
  ASSUME ReadsInv, desk \in Versions, NEW s \in Surfaces, Supersede(s), UNCHANGED <<desk, on, timer>>
  PROVE  ReadsInv'
<1>1. /\ latest' = [latest EXCEPT ![s] = NoRefresh]
      /\ tick' = [tick EXCEPT ![s] = IF tick[s] = "latest" THEN "old" ELSE tick[s]]
      /\ old' = [old EXCEPT ![s] = IF tick[s] = "latest" THEN latest[s] ELSE old[s]]
      /\ UNCHANGED <<probe, machine, streakOf>>
  BY DEF Supersede
<1>2. ReadsShape /\ LoopShape /\ LoopsOk /\ OrderOk /\ ProbeOk /\ StreakOk
  BY DEF ReadsInv
<1>3. NoRefresh \in Refresh /\ NoRefresh.waits = {} /\ NoRefresh.out = NoBook
  BY DEF NoRefresh, Refresh
<1>4. ReadsShape' /\ LoopShape' /\ StreakOk'
  BY <1>1, <1>2, <1>3 DEF ReadsShape, LoopShape, StreakOk
<1>5. LoopsOk'
  <2>. SUFFICES ASSUME NEW x \in Surfaces
                PROVE  /\ on[x] = (timer[x] \/ tick'[x] # "no") /\ ~(timer[x] /\ tick'[x] # "no")
                       /\ tick'[x] = "latest" => latest'[x].waits # {}
                       /\ tick'[x] = "old" => old'[x].waits # {}
                       /\ \A r \in latest'[x].waits \cup old'[x].waits : probe[r][1] # "idle"
    BY <1>1 DEF LoopsOk
  <2>1. CASE x # s
    BY <1>1, <1>2, <2>1 DEF LoopsOk, LoopShape, ReadsShape
  <2>2. CASE x = s
    BY <1>1, <1>2, <1>3, <2>2 DEF LoopsOk, LoopShape, ReadsShape
  <2>. QED BY <2>1, <2>2
<1>6. OrderOk' /\ ProbeOk'
  <2>1. \A x \in Surfaces : latest'[x].out = latest[x].out \/ latest'[x].out = NoBook
    BY <1>1, <1>2, <1>3 DEF ReadsShape
  <2>2. /\ probe["book"][2] \in Int /\ NoBook = -1 /\ desk \in Nat
        /\ \A x \in Surfaces : machine[x].best \in Int /\ latest[x].out \in Int
    BY <1>2, PageBounds, ProbeIs DEF ReadsShape, Machine, Refresh, Resources
  <2>. QED BY <1>1, <1>2, <2>1, <2>2 DEF OrderOk, ProbeOk
<1>. QED BY <1>4, <1>5, <1>6 DEF ReadsInv

(*** The desk's reads: answering *******************************************)

\* What r's answer leaves of a refresh that waits for it, and of one that does not.
LEMMA AnswerLeaves ==
  ASSUME NEW f \in Refresh, NEW r \in Resources, NEW out \in Outcomes \cup {NoBook},
         NEW g, g = IF r \in f.waits THEN Rest(f, r, out) ELSE f
  PROVE  /\ g \in Refresh /\ g.waits = f.waits \ {r}
         /\ r \notin f.waits => g = f
         /\ r \in f.waits => g.out = IF f.waits = {r} THEN NoBook ELSE IF r = "book" THEN out ELSE f.out
BY RestIs DEF Refresh

\* A request settles for everyone: the surface whose refresh is complete observes the answer,
\* one that still waits keeps it, and each tick either goes on waiting or arms its timer.
LEMMA SettleKeeps ==
  ASSUME ReadsInv, desk \in Versions, NEW r \in Resources, NEW out \in Outcomes \cup {NoBook},
         Settle(r, out), UNCHANGED <<desk, on>>,
         r = "book" => out \in Outcomes /\ (out >= 0 => out = probe["book"][2]),
         r = "audit" => out = NoBook
  PROVE  /\ ReadsInv'
         /\ \A s \in Surfaces : /\ machine'[s].best >= machine[s].best
                                /\ machine[s].demoted /\ ~machine'[s].demoted => streakOf'[s] = Streak
<1>. DEFINE v(s) == Verdict(s, r, out)
            e(s) == TickEnds(s, r)
<1>1. /\ probe' = [probe EXCEPT ![r] = <<"idle", NoBook>>]
      /\ latest' = [s \in Surfaces |-> IF r \in latest[s].waits THEN Rest(latest[s], r, out) ELSE latest[s]]
      /\ machine' = [s \in Surfaces |-> IF v(s) = NoBook THEN machine[s] ELSE Observed(machine[s], v(s))]
      /\ streakOf' = [s \in Surfaces |-> IF v(s) = NoBook THEN streakOf[s]
                                         ELSE IF v(s) < 0 THEN 0 ELSE Capped(streakOf[s] + 1)]
      /\ tick' = [s \in Surfaces |-> IF e(s) THEN "no" ELSE tick[s]]
      /\ old' = [s \in Surfaces |-> IF r \in old[s].waits THEN Rest(old[s], r, out) ELSE old[s]]
      /\ timer' = [s \in Surfaces |-> timer[s] \/ e(s)]
  BY DEF Settle
<1>2. ReadsShape /\ LoopShape /\ LoopsOk /\ OrderOk /\ ProbeOk /\ StreakOk
  BY DEF ReadsInv
<1>3. \A s \in Surfaces :
        /\ v(s) = IF latest[s].waits = {r} THEN (IF r = "book" THEN out ELSE latest[s].out) ELSE NoBook
        /\ e(s) <=> (tick[s] = "latest" /\ latest[s].waits = {r}) \/ (tick[s] = "old" /\ old[s].waits = {r})
  BY DEF Verdict, Carried, TickEnds
<1>4. \A s \in Surfaces :
        /\ latest[s] \in Refresh /\ old[s] \in Refresh /\ machine[s] \in Machine /\ streakOf[s] \in 0..Streak
        /\ on[s] \in BOOLEAN /\ timer[s] \in BOOLEAN /\ tick[s] \in {"no", "latest", "old"}
  BY <1>2 DEF ReadsShape, LoopShape
<1>5. ASSUME NEW s \in Surfaces
      PROVE  v(s) \in Outcomes \cup {NoBook}
  BY <1>3, <1>4 DEF Refresh
<1>. HIDE DEF v, e
<1>6. /\ probe' \in [Resources -> Probe] /\ probe'["audit"][1] # "read"
      /\ probe'[r] = <<"idle", NoBook>> /\ \A q \in Resources : q # r => probe'[q] = probe[q]
  BY <1>1, <1>2 DEF ReadsShape, Probe, Resources
<1>7. ASSUME NEW s \in Surfaces
      PROVE  /\ latest'[s] \in Refresh /\ latest'[s].waits = latest[s].waits \ {r}
             /\ r \notin latest[s].waits => latest'[s] = latest[s]
             /\ r \in latest[s].waits =>
                  latest'[s].out = IF latest[s].waits = {r} THEN NoBook ELSE IF r = "book" THEN out ELSE latest[s].out
  <2>1. latest'[s] = IF r \in latest[s].waits THEN Rest(latest[s], r, out) ELSE latest[s]
    BY <1>1
  <2>. QED BY <1>4, <2>1, AnswerLeaves
<1>8. ASSUME NEW s \in Surfaces
      PROVE  old'[s] \in Refresh /\ old'[s].waits = old[s].waits \ {r}
  <2>1. old'[s] = IF r \in old[s].waits THEN Rest(old[s], r, out) ELSE old[s]
    BY <1>1
  <2>. QED BY <1>4, <2>1, AnswerLeaves
<1>9. ASSUME NEW s \in Surfaces
      PROVE  /\ v(s) = NoBook => machine'[s] = machine[s] /\ streakOf'[s] = streakOf[s]
             /\ v(s) # NoBook => machine'[s] = Observed(machine[s], v(s)) /\ v(s) \in Outcomes
             /\ v(s) # NoBook => streakOf'[s] = IF v(s) < 0 THEN 0 ELSE Capped(streakOf[s] + 1)
  <2>1. machine'[s] = IF v(s) = NoBook THEN machine[s] ELSE Observed(machine[s], v(s))
    BY <1>1
  <2>2. streakOf'[s] = IF v(s) = NoBook THEN streakOf[s] ELSE IF v(s) < 0 THEN 0 ELSE Capped(streakOf[s] + 1)
    BY <1>1
  <2>. QED BY <1>5, <2>1, <2>2
<1>10. ASSUME NEW s \in Surfaces
       PROVE  /\ machine'[s] \in Machine /\ streakOf'[s] \in 0..Streak
              /\ streakOf'[s] = machine'[s].streak /\ (machine'[s].demoted => machine'[s].best # NoBook)
              /\ machine'[s].best = IF v(s) = NoBook \/ v(s) < 0 THEN machine[s].best ELSE v(s)
              /\ machine[s].demoted /\ ~machine'[s].demoted => streakOf'[s] = Streak
  <2>1. streakOf[s] = machine[s].streak /\ (machine[s].demoted => machine[s].best # NoBook)
    BY <1>2 DEF StreakOk
  <2>2. CASE v(s) = NoBook
    BY <1>4, <1>9, <2>1, <2>2
  <2>3. CASE v(s) # NoBook
    <3>1. machine'[s] = Observed(machine[s], v(s)) /\ v(s) \in Outcomes
      BY <1>9, <2>3
    <3>2. streakOf'[s] = IF v(s) < 0 THEN 0 ELSE Capped(streakOf[s] + 1)
      BY <1>9, <2>3
    <3>3. machine[s] \in Machine /\ streakOf[s] \in 0..Streak
      BY <1>4
    <3>4. v(s) \in Int /\ 0 \in 0..Streak
      BY <3>1, PageBounds
    <3>5. /\ Observed(machine[s], v(s)) \in Machine
          /\ Observed(machine[s], v(s)).best = IF v(s) >= 0 THEN v(s) ELSE machine[s].best
          /\ Observed(machine[s], v(s)).streak = IF v(s) < 0 THEN 0 ELSE Capped(machine[s].streak + 1)
          /\ Observed(machine[s], v(s)).demoted => Observed(machine[s], v(s)).best # NoBook
          /\ machine[s].demoted /\ ~Observed(machine[s], v(s)).demoted => v(s) >= 0 /\ machine[s].streak + 1 >= Streak
      BY <2>1, <3>1, <3>3, ObservedIs
    <3>6. Capped(streakOf[s] + 1) \in 0..Streak /\ (streakOf[s] + 1 >= Streak => Capped(streakOf[s] + 1) = Streak)
      BY <3>3, CappedIs
    <3>. QED BY <2>1, <2>3, <3>1, <3>2, <3>4, <3>5, <3>6
  <2>. QED BY <2>2, <2>3
<1>11. ReadsShape'
  <2>1. latest' \in [Surfaces -> Refresh] /\ old' \in [Surfaces -> Refresh]
    <3>1. latest' = [s \in Surfaces |-> latest'[s]] /\ old' = [s \in Surfaces |-> old'[s]]
      BY <1>1
    <3>. QED BY <1>7, <1>8, <3>1
  <2>2. machine' \in [Surfaces -> Machine] /\ streakOf' \in [Surfaces -> 0..Streak]
    <3>1. machine' = [s \in Surfaces |-> machine'[s]] /\ streakOf' = [s \in Surfaces |-> streakOf'[s]]
      BY <1>1
    <3>. QED BY <1>10, <3>1
  <2>. QED BY <1>6, <2>1, <2>2 DEF ReadsShape
<1>12. LoopShape'
  <2>1. \A s \in Surfaces : e(s) \in BOOLEAN
    BY DEF e, TickEnds
  <2>. QED BY <1>1, <1>2, <2>1 DEF LoopShape
<1>13. LoopsOk'
  <2>. SUFFICES ASSUME NEW s \in Surfaces
                PROVE  /\ on'[s] = (timer'[s] \/ tick'[s] # "no") /\ ~(timer'[s] /\ tick'[s] # "no")
                       /\ tick'[s] = "latest" => latest'[s].waits # {}
                       /\ tick'[s] = "old" => old'[s].waits # {}
                       /\ \A q \in latest'[s].waits \cup old'[s].waits : probe'[q][1] # "idle"
    BY DEF LoopsOk
  <2>1. /\ on[s] = (timer[s] \/ tick[s] # "no") /\ ~(timer[s] /\ tick[s] # "no")
        /\ tick[s] = "latest" => latest[s].waits # {}
        /\ tick[s] = "old" => old[s].waits # {}
        /\ \A q \in latest[s].waits \cup old[s].waits : probe[q][1] # "idle"
    BY <1>2 DEF LoopsOk
  <2>2. tick'[s] = (IF e(s) THEN "no" ELSE tick[s]) /\ timer'[s] = (timer[s] \/ e(s)) /\ on'[s] = on[s]
    BY <1>1
  <2>3. latest'[s].waits = latest[s].waits \ {r} /\ old'[s].waits = old[s].waits \ {r}
    BY <1>7, <1>8
  <2>4. e(s) <=> (tick[s] = "latest" /\ latest[s].waits = {r}) \/ (tick[s] = "old" /\ old[s].waits = {r})
    BY <1>3
  <2>5. on'[s] = (timer'[s] \/ tick'[s] # "no") /\ ~(timer'[s] /\ tick'[s] # "no")
    BY <1>4, <2>1, <2>2, <2>4
  <2>6. (tick'[s] = "latest" => latest'[s].waits # {}) /\ (tick'[s] = "old" => old'[s].waits # {})
    BY <2>1, <2>2, <2>3, <2>4
  <2>7. \A q \in latest'[s].waits \cup old'[s].waits : probe'[q][1] # "idle"
    BY <1>4, <1>6, <2>1, <2>3 DEF Refresh
  <2>. QED BY <2>5, <2>6, <2>7
<1>14. /\ desk \in Nat /\ NoBook = -1 /\ probe["book"] \in Probe /\ probe["book"][2] \in Int /\ out \in Int
       /\ \A s \in Surfaces : machine[s].best \in Int /\ latest[s].out \in Int
  <2>1. probe["book"] \in Probe
    BY <1>2 DEF ReadsShape, Resources
  <2>2. probe["book"][2] \in Int
    BY <2>1, ProbeIs
  <2>3. \A s \in Surfaces : machine[s].best \in Int /\ latest[s].out \in Int
    BY <1>4, PageNumbers DEF Machine, Refresh
  <2>. QED BY <2>1, <2>2, <2>3, PageBounds, PageNumbers
<1>15. probe'["book"][2] = IF r = "book" THEN NoBook ELSE probe["book"][2]
  BY <1>6 DEF Resources
<1>16. r = "book" \/ r = "audit"
  BY DEF Resources
<1>17. ASSUME NEW s \in Surfaces
       PROVE  /\ machine'[s].best >= machine[s].best
              /\ machine'[s].best <= desk /\ latest'[s].out <= desk
              /\ latest'[s].out >= 0 => machine'[s].best <= latest'[s].out
              /\ probe'["book"][2] >= 0 =>
                   machine'[s].best <= probe'["book"][2] /\ latest'[s].out <= probe'["book"][2]
  <2>1. /\ machine[s].best <= desk /\ latest[s].out <= desk
        /\ latest[s].out >= 0 => machine[s].best <= latest[s].out
        /\ probe["book"][2] >= 0 =>
             machine[s].best <= probe["book"][2] /\ latest[s].out <= probe["book"][2]
        /\ probe["book"][2] <= desk
    BY <1>2 DEF OrderOk, ProbeOk
  <2>2. v(s) = IF latest[s].waits = {r} THEN (IF r = "book" THEN out ELSE latest[s].out) ELSE NoBook
    BY <1>3
  <2>3. machine'[s].best = IF v(s) = NoBook \/ v(s) < 0 THEN machine[s].best ELSE v(s)
    BY <1>10
  <2>4. machine[s].best \in Int /\ latest[s].out \in Int
    BY <1>14
  <2>5. /\ r \notin latest[s].waits => latest'[s].out = latest[s].out
        /\ r \in latest[s].waits =>
             latest'[s].out = IF latest[s].waits = {r} THEN NoBook ELSE IF r = "book" THEN out ELSE latest[s].out
    BY <1>7
  <2>6. latest[s].waits = {r} => r \in latest[s].waits
    OBVIOUS
  <2>7. CASE r = "book"
    BY <1>14, <1>15, <2>1, <2>2, <2>3, <2>4, <2>5, <2>6, <2>7
  <2>8. CASE r = "audit"
    BY <1>14, <1>15, <2>1, <2>2, <2>3, <2>4, <2>5, <2>6, <2>8
  <2>. QED BY <1>16, <2>7, <2>8
<1>18. OrderOk' /\ ProbeOk'
  <2>1. desk' = desk
    OBVIOUS
  <2>. QED BY <1>2, <1>14, <1>15, <1>17, <2>1 DEF OrderOk, ProbeOk
<1>19. StreakOk'
  BY <1>10 DEF StreakOk
<1>. QED BY <1>10, <1>11, <1>12, <1>13, <1>17, <1>18, <1>19 DEF ReadsInv

\* The gateway answers what it has: nothing older is on its way.
LEMMA AnswerKeeps ==
  ASSUME ReadsInv, WorldShape, GatewayReads
  PROVE  ReadsInv'
<1>. DEFINE a == CASE health = "up" -> desk [] health = "down" -> Failed [] OTHER -> Unconfigured
<1>1. /\ probe["book"][1] = "asked" /\ probe' = [probe EXCEPT !["book"] = <<"read", a>>]
      /\ UNCHANGED <<desk, latest, machine, streakOf, on, timer, tick, old>>
  BY DEF GatewayReads, gatewayVars, loopVars
<1>2. ReadsShape /\ LoopShape /\ LoopsOk /\ OrderOk /\ ProbeOk /\ StreakOk
  BY DEF ReadsInv
<1>3. a \in Outcomes /\ a \in Int /\ desk \in Nat /\ a <= desk /\ (a >= 0 => a = desk)
  BY PageBounds DEF WorldShape, Outcomes
<1>. HIDE DEF a
<1>4. /\ probe' \in [Resources -> Probe] /\ probe'["book"] = <<"read", a>>
      /\ probe'["audit"] = probe["audit"]
      /\ \A q \in Resources : probe[q][1] # "idle" => probe'[q][1] # "idle"
  BY <1>1, <1>2, <1>3 DEF ReadsShape, Resources, Probe
<1>5. ReadsShape' /\ LoopShape' /\ StreakOk'
  BY <1>1, <1>2, <1>4 DEF ReadsShape, LoopShape, StreakOk
<1>6. LoopsOk'
  BY <1>1, <1>2, <1>4 DEF LoopsOk, ReadsShape, Refresh
<1>7. \A s \in Surfaces : machine[s].best \in Int /\ latest[s].out \in Int
  BY <1>2, PageNumbers DEF ReadsShape, Machine, Refresh
<1>8. OrderOk' /\ ProbeOk'
  BY <1>1, <1>2, <1>3, <1>4, <1>7 DEF OrderOk, ProbeOk
<1>. QED BY <1>5, <1>6, <1>8 DEF ReadsInv

(*** The desk's reads: loops and the stream ********************************)

\* The surface's loop starts or stops, beside the reads.
LEMMA LoopTurns ==
  ASSUME ReadsInv, desk \in Versions, NEW s \in Surfaces, UNCHANGED <<desk, readVars>>,
         \/ ~on[s] /\ on' = [on EXCEPT ![s] = TRUE] /\ timer' = [timer EXCEPT ![s] = TRUE] /\ UNCHANGED <<tick, old>>
         \/ /\ on' = [on EXCEPT ![s] = FALSE] /\ timer' = [timer EXCEPT ![s] = FALSE]
            /\ tick' = [tick EXCEPT ![s] = "no"] /\ old' = [old EXCEPT ![s] = NoRefresh]
  PROVE  ReadsInv'
<1>1. UNCHANGED <<probe, latest, machine, streakOf, desk>>
  BY DEF readVars
<1>2. ReadsShape /\ LoopShape /\ LoopsOk /\ OrderOk /\ ProbeOk /\ StreakOk
  BY DEF ReadsInv
<1>3. NoRefresh \in Refresh /\ NoRefresh.waits = {}
  BY DEF NoRefresh, Refresh
<1>4. OrderOk' /\ ProbeOk' /\ StreakOk'
  BY <1>1, <1>2 DEF OrderOk, ProbeOk, StreakOk
<1>5. CASE ~on[s] /\ on' = [on EXCEPT ![s] = TRUE] /\ timer' = [timer EXCEPT ![s] = TRUE] /\ UNCHANGED <<tick, old>>
  <2>1. ReadsShape' /\ LoopShape'
    BY <1>1, <1>2, <1>5 DEF ReadsShape, LoopShape
  <2>2. LoopsOk'
    BY <1>1, <1>2, <1>5 DEF LoopsOk, LoopShape
  <2>. QED BY <1>4, <2>1, <2>2 DEF ReadsInv
<1>6. CASE /\ on' = [on EXCEPT ![s] = FALSE] /\ timer' = [timer EXCEPT ![s] = FALSE]
           /\ tick' = [tick EXCEPT ![s] = "no"] /\ old' = [old EXCEPT ![s] = NoRefresh]
  <2>1. ReadsShape' /\ LoopShape'
    BY <1>1, <1>2, <1>3, <1>6 DEF ReadsShape, LoopShape
  <2>2. LoopsOk'
    BY <1>1, <1>2, <1>3, <1>6 DEF LoopsOk, LoopShape, ReadsShape
  <2>. QED BY <1>4, <2>1, <2>2 DEF ReadsInv
<1>. QED BY <1>5, <1>6

\* Where opening a connection leaves the stream's loop.
LEMMA OpenIs ==
  ASSUME OpenStream
  PROVE  /\ source' \in {source, "opening"} /\ loop' \in [on : BOOLEAN, timer : BOOLEAN]
         /\ loop'.on /\ (hidden => source' = source /\ loop'.timer)
         /\ (~hidden => source' = "opening" /\ ~loop'.timer)
<1>1. CASE hidden
  <2>1. loop' = [on |-> TRUE, timer |-> TRUE] /\ source' = source
    BY <1>1 DEF OpenStream
  <2>. QED BY <1>1, <2>1
<1>2. CASE ~hidden
  <2>1. loop' = [on |-> TRUE, timer |-> FALSE] /\ source' = "opening"
    BY <1>2 DEF OpenStream
  <2>. QED BY <1>2, <2>1
<1>. QED BY <1>1, <1>2

\* The first surface to join the stream opens it.
LEMMA LoopStarts ==
  ASSUME PageInv, NEW s \in Surfaces, StartLoop(s)
  PROVE  PageInv'
<1>1. /\ ~on[s] /\ on' = [on EXCEPT ![s] = TRUE] /\ timer' = [timer EXCEPT ![s] = TRUE]
      /\ IF Subscribed = {} THEN OpenStream ELSE UNCHANGED <<source, loop>>
      /\ UNCHANGED <<desk, health, hidden, readVars, generated, tick, old, pushed, store, seen, disturbances>>
  BY DEF StartLoop, gatewayVars
<1>2. ReadsInv /\ StreamInv /\ WorldShape
  BY PageParts
<1>3. ReadsInv'
  BY <1>1, <1>2, LoopTurns DEF WorldShape
<1>4. WorldShape'
  BY <1>1, <1>2 DEF WorldShape
<1>5. StreamShape /\ StreamOk /\ PushedOk /\ on \in [Surfaces -> BOOLEAN]
  BY <1>2 DEF StreamInv, ReadsInv, LoopShape
<1>6. StreamShape' /\ PushedOk'
  <2>1. source' \in {"none", "opening", "open"} /\ loop' \in [on : BOOLEAN, timer : BOOLEAN]
    BY <1>1, <1>5, OpenIs DEF StreamShape
  <2>2. UNCHANGED <<desk, pushed, store, seen>>
    BY <1>1
  <2>. QED BY <1>5, <2>1, <2>2 DEF StreamShape, PushedOk
<1>7. on'[s]
  BY <1>1, <1>5
<1>8. CASE Subscribed = {}
  <2>1. ~loop.on
    BY <1>5, <1>8 DEF StreamOk, Subscribed
  <2>2. source = "none" /\ ~loop.timer /\ store.state # "live"
    BY <1>5, <2>1 DEF StreamOk
  <2>3. OpenStream
    BY <1>1, <1>8
  <2>4. loop'.on /\ loop'.timer # (source' = "opening")
    BY <2>2, <2>3, OpenIs
  <2>5. StreamOk'
    BY <1>7, <2>4 DEF StreamOk
  <2>. QED BY <1>3, <1>4, <1>6, <2>5 DEF PageInv, ReadsInv
<1>9. CASE Subscribed # {}
  <2>1. UNCHANGED <<source, loop, store>>
    BY <1>1, <1>9
  <2>2. StreamOk'
    BY <1>5, <1>7, <2>1 DEF StreamOk
  <2>. QED BY <1>3, <1>4, <1>6, <2>2 DEF PageInv, ReadsInv
<1>. QED BY <1>8, <1>9

\* The last surface to leave the stream closes it.
LEMMA LoopStops ==
  ASSUME PageInv, NEW s \in Surfaces, StopLoop(s)
  PROVE  PageInv'
<1>1. /\ on[s] /\ on' = [on EXCEPT ![s] = FALSE] /\ timer' = [timer EXCEPT ![s] = FALSE]
      /\ tick' = [tick EXCEPT ![s] = "no"] /\ old' = [old EXCEPT ![s] = NoRefresh]
      /\ IF Subscribed = {s}
         THEN source' = "none" /\ store' = Connecting /\ pushed' = Closed /\ loop' = [on |-> FALSE, timer |-> FALSE]
         ELSE UNCHANGED <<source, pushed, store, loop>>
      /\ UNCHANGED <<desk, health, hidden, readVars, generated, seen, disturbances>>
  BY DEF StopLoop, gatewayVars, streamVars
<1>2. ReadsInv /\ StreamInv /\ WorldShape
  BY PageParts
<1>3. ReadsInv'
  BY <1>1, <1>2, LoopTurns DEF WorldShape
<1>4. WorldShape'
  BY <1>1, <1>2 DEF WorldShape
<1>5. StreamShape /\ StreamOk /\ PushedOk /\ on \in [Surfaces -> BOOLEAN] /\ desk' = desk /\ seen' = seen
  BY <1>1, <1>2 DEF StreamInv, ReadsInv, LoopShape
<1>6. desk \in Nat /\ MaxChanges \in Nat /\ NoBook = -1
  BY <1>2, PageBounds DEF WorldShape
<1>7. CASE Subscribed = {s}
  <2>1. source' = "none" /\ store' = Connecting /\ pushed' = Closed /\ loop' = [on |-> FALSE, timer |-> FALSE]
    BY <1>1, <1>7
  <2>2. StreamShape' /\ StreamOk'
    BY <1>5, <1>6, <2>1 DEF StreamShape, StreamOk, Connecting, Closed
  <2>3. PushedOk'
    BY <1>5, <1>6, <2>1 DEF PushedOk, Closed
  <2>. QED BY <1>3, <1>4, <2>2, <2>3 DEF PageInv, ReadsInv
<1>8. CASE Subscribed # {s}
  <2>1. UNCHANGED <<source, pushed, store, loop>>
    BY <1>1, <1>8
  <2>2. PICK x \in Surfaces : x # s /\ on[x]
    BY <1>1, <1>8 DEF Subscribed
  <2>3. on'[x]
    BY <1>1, <1>5, <2>2
  <2>4. StreamShape' /\ StreamOk' /\ PushedOk'
    BY <1>5, <2>1, <2>3 DEF StreamShape, StreamOk, PushedOk
  <2>. QED BY <1>3, <1>4, <2>4 DEF PageInv, ReadsInv
<1>. QED BY <1>7, <1>8

\* What a connection sends is numbered within the bound: once for each version.
LEMMA PushKeeps ==
  ASSUME PageInv, GatewayPushes
  PROVE  StreamInv'
<1>1. /\ source = "open" /\ pushed.ver # desk
      /\ pushed' = [seq |-> pushed.seq + 1, ver |-> desk]
      /\ store' = [state |-> "live", seq |-> pushed.seq + 1, ver |-> desk]
      /\ UNCHANGED <<desk, on, source, loop, seen>>
  BY DEF GatewayPushes, gatewayVars, loopVars
<1>2. StreamShape /\ StreamOk /\ PushedOk /\ desk \in Versions
  BY DEF PageInv, WorldShape
<1>3. pushed.seq \in 0..(MaxChanges + 1) /\ pushed.ver \in Versions \cup {NoBook}
  BY <1>2 DEF StreamShape
<1>4. pushed.ver \in Int /\ desk \in Nat /\ desk <= MaxChanges /\ MaxChanges \in Nat
  BY <1>2, <1>3, PageNumbers, PageBounds DEF Versions
<1>5. pushed.seq + 1 \in 0..(MaxChanges + 1) /\ pushed.seq + 1 <= desk + 1
  BY <1>1, <1>2, <1>3, <1>4 DEF PushedOk
<1>6. StreamShape' /\ PushedOk'
  BY <1>1, <1>2, <1>4, <1>5 DEF StreamShape, PushedOk
<1>7. StreamOk'
  BY <1>1, <1>2 DEF StreamOk
<1>. QED BY <1>6, <1>7 DEF StreamInv

\* Opening, refusing and losing a connection: the loop is armed or a handshake is open,
\* never both.
LEMMA ConnectionTurns ==
  ASSUME PageInv, UNCHANGED <<desk, on, seen>>,
         StreamTick \/ StreamOpens \/ StreamRefused \/ StreamDrops \/ StreamRotates
  PROVE  StreamInv'
<1>1. StreamShape /\ StreamOk /\ PushedOk /\ desk \in Nat /\ MaxChanges \in Nat /\ NoBook = -1
  BY PageBounds DEF PageInv, WorldShape
<1>2. Closed.ver = NoBook /\ Closed.seq = 0 /\ Closed \in [seq : 0..(MaxChanges + 1), ver : Versions \cup {NoBook}]
  BY <1>1 DEF Closed
<1>3. CASE StreamTick
  <2>1. /\ loop.timer /\ source = "none" /\ source' = "opening" /\ loop' = [loop EXCEPT !.timer = FALSE]
        /\ UNCHANGED <<pushed, store>>
    BY <1>3 DEF StreamTick
  <2>7. StreamShape'
    BY <1>1, <2>1 DEF StreamShape
  <2>8. StreamOk'
    BY <1>1, <2>1 DEF StreamShape, StreamOk
  <2>9. PushedOk'
    BY <1>1, <2>1 DEF PushedOk
  <2>. QED BY <2>7, <2>8, <2>9 DEF StreamInv
<1>4. CASE StreamOpens
  <2>1. /\ source = "opening" /\ source' = "open" /\ pushed' = Closed /\ store' = [store EXCEPT !.state = "live"]
        /\ loop' = [loop EXCEPT !.timer = loop.on]
    BY <1>4 DEF StreamOpens
  <2>7. StreamShape'
    BY <1>1, <1>2, <2>1 DEF StreamShape
  <2>8. StreamOk'
    BY <1>1, <1>2, <2>1 DEF StreamShape, StreamOk
  <2>9. PushedOk'
    BY <1>1, <1>2, <2>1 DEF PushedOk
  <2>. QED BY <2>7, <2>8, <2>9 DEF StreamInv
<1>5. CASE StreamRefused
  <2>1. /\ loop' = [on |-> health # "absent" /\ loop.on, timer |-> health # "absent" /\ loop.on]
        /\ source' = "none" /\ pushed' = Closed /\ store' = [store EXCEPT !.state = "unavailable"]
    BY <1>5 DEF StreamRefused, Disconnect
  <2>7. StreamShape'
    BY <1>1, <1>2, <2>1 DEF StreamShape
  <2>8. StreamOk'
    BY <1>1, <1>2, <2>1 DEF StreamShape, StreamOk
  <2>9. PushedOk'
    BY <1>1, <1>2, <2>1 DEF PushedOk
  <2>. QED BY <2>7, <2>8, <2>9 DEF StreamInv
<1>6. CASE StreamDrops
  <2>1. /\ loop' = [loop EXCEPT !.timer = loop.on]
        /\ source' = "none" /\ pushed' = Closed /\ store' = [store EXCEPT !.state = "unavailable"]
    BY <1>6 DEF StreamDrops, Disconnect
  <2>7. StreamShape'
    BY <1>1, <1>2, <2>1 DEF StreamShape
  <2>8. StreamOk'
    BY <1>1, <1>2, <2>1 DEF StreamShape, StreamOk
  <2>9. PushedOk'
    BY <1>1, <1>2, <2>1 DEF PushedOk
  <2>. QED BY <2>7, <2>8, <2>9 DEF StreamInv
<1>7. CASE StreamRotates
  <2>1. /\ source = "open" /\ pushed' = Closed /\ UNCHANGED store
        /\ IF hidden THEN source' = "none" /\ UNCHANGED loop ELSE OpenStream
    BY <1>7 DEF StreamRotates
  <2>2. CASE hidden
    <3>1. source' = "none" /\ loop' = loop
      BY <2>1, <2>2
    <3>. QED BY <1>1, <1>2, <2>1, <3>1 DEF StreamInv, StreamShape, StreamOk, PushedOk
  <2>3. CASE ~hidden
    <3>1. source' = "opening" /\ loop' \in [on : BOOLEAN, timer : BOOLEAN] /\ loop'.on /\ ~loop'.timer
      BY <2>1, <2>3, OpenIs
    <3>2. StreamShape'
      BY <1>1, <1>2, <2>1, <3>1 DEF StreamShape
    <3>3. StreamOk'
      BY <1>1, <2>1, <3>1 DEF StreamShape, StreamOk
    <3>4. PushedOk'
      BY <1>1, <1>2, <2>1 DEF PushedOk
    <3>. QED BY <3>2, <3>3, <3>4 DEF StreamInv
  <2>. QED BY <2>2, <2>3
<1>. QED BY <1>3, <1>4, <1>5, <1>6, <1>7

(*** The desk's reads: the step ********************************************)

\* What a step may do to what a surface shows.
Forward == \A s \in Surfaces :
  /\ machine'[s].best >= machine[s].best
  /\ machine[s].demoted /\ ~machine'[s].demoted => streakOf'[s] = Streak

\* A step that leaves the machine alone shows what it showed.
LEMMA ForwardStands ==
  ASSUME ReadsInv, machine' = machine
  PROVE  Forward
<1>1. \A s \in Surfaces : machine[s].best \in Int
  BY PageNumbers DEF ReadsInv, ReadsShape, Machine
<1>. QED BY <1>1 DEF Forward

\* The parts of the invariant a step leaves alone.
LEMMA OthersStand ==
  ASSUME PageInv, WorldShape', UNCHANGED desk
  PROVE  /\ UNCHANGED <<streamVars, seen, on>> => StreamInv'
         /\ UNCHANGED <<readVars, loopVars>> => ReadsInv'
<1>1. ReadsInv /\ StreamInv /\ desk \in Versions /\ desk' \in Versions /\ desk <= desk'
  BY PageParts, PageBounds DEF WorldShape
<1>. QED BY <1>1, ReadsStand, StreamStands

\* The gateway's answer on its way settles, late or in time.
LEMMA AnswersKeep ==
  ASSUME PageInv, BookArrives \/ BookTimesOut \/ AuditArrives
  PROVE  PageInv' /\ Forward
<1>1. ReadsInv /\ StreamInv /\ WorldShape /\ desk \in Versions
  BY PageParts DEF WorldShape
<1>2. /\ UNCHANGED <<desk, health, hidden, generated, on, streamVars, seen>>
      /\ disturbances' = disturbances \/ Disturbance
  BY DEF BookArrives, BookTimesOut, AuditArrives, gatewayVars
<1>3. WorldShape'
  BY <1>1, <1>2, PageBounds DEF WorldShape, Disturbance
<1>4. StreamInv'
  BY <1>2, <1>3, OthersStand
<1>5. Failed \in Outcomes /\ Failed = -2 /\ "book" \in Resources /\ "audit" \in Resources /\ "book" # "audit"
  BY PageBounds DEF Outcomes, Resources
<1>6. ReadsInv' /\ Forward
  <2>1. CASE BookArrives
    <3>1. probe["book"][1] = "read" /\ Settle("book", probe["book"][2])
      BY <2>1 DEF BookArrives
    <3>2. probe["book"] \in Probe
      BY <1>1, <1>5 DEF ReadsInv, ReadsShape
    <3>3. probe["book"][2] \in Outcomes
      BY <3>1, <3>2, ProbeIs
    <3>. QED BY <1>1, <1>2, <1>5, <3>1, <3>3, SettleKeeps DEF Forward
  <2>2. CASE BookTimesOut
    <3>1. Settle("book", Failed)
      BY <2>2 DEF BookTimesOut
    <3>. QED BY <1>1, <1>2, <1>5, <3>1, SettleKeeps DEF Forward
  <2>3. CASE AuditArrives
    <3>1. Settle("audit", NoBook)
      BY <2>3 DEF AuditArrives
    <3>. QED BY <1>1, <1>2, <1>5, <3>1, SettleKeeps DEF Forward
  <2>. QED BY <2>1, <2>2, <2>3
<1>. QED BY <1>3, <1>4, <1>6, PageParts DEF PageInv, ReadsInv, StreamInv

\* A refresh asked by the loop, the reader or the stream.
LEMMA AsksKeep ==
  ASSUME PageInv, NEW s \in Surfaces, TimerFires(s) \/ Press(s) \/ Choose(s) \/ Signal(s)
  PROVE  PageInv' /\ machine' = machine
<1>1. ReadsInv /\ StreamInv /\ WorldShape /\ desk \in Versions
  BY PageParts DEF WorldShape
<1>2. CASE TimerFires(s)
  <2>1. /\ on[s] /\ timer[s] /\ tick[s] = "no" /\ timer' = [timer EXCEPT ![s] = FALSE]
        /\ UNCHANGED <<desk, health, hidden, generated, on, streamVars, seen, disturbances>>
    BY <1>2 DEF TimerFires, gatewayVars
  <2>2. PICK audit \in BOOLEAN : Ask(s, audit, TRUE)
    BY <1>2 DEF TimerFires
  <2>3. ReadsInv'
    BY <1>1, <2>1, <2>2, AskKeeps
  <2>4. WorldShape'
    BY <1>1, <2>1 DEF WorldShape
  <2>5. StreamInv'
    BY <2>1, <2>4, OthersStand
  <2>6. machine' = machine
    BY <2>2 DEF Ask
  <2>. QED BY <2>3, <2>4, <2>5, <2>6 DEF PageInv, ReadsInv, StreamInv
<1>3. CASE Press(s)
  <2>1. /\ Ask(s, TRUE, FALSE) /\ Disturbance
        /\ UNCHANGED <<desk, health, hidden, generated, on, timer, streamVars, seen>>
    BY <1>3 DEF Press, gatewayVars
  <2>3. ReadsInv'
    BY <1>1, <2>1, AskKeeps
  <2>4. WorldShape'
    BY <1>1, <2>1, PageBounds DEF WorldShape, Disturbance
  <2>5. StreamInv'
    BY <2>1, <2>4, OthersStand
  <2>6. machine' = machine
    BY <2>1 DEF Ask
  <2>. QED BY <2>3, <2>4, <2>5, <2>6 DEF PageInv, ReadsInv, StreamInv
<1>4. CASE Choose(s)
  <2>1. /\ generated' = [generated EXCEPT ![s] = ~generated[s]]
        /\ disturbances' = disturbances \/ Disturbance
        /\ UNCHANGED <<desk, health, hidden, on, timer, streamVars, seen>>
    BY <1>4 DEF Choose, gatewayVars
  <2>2. UNCHANGED <<readVars, tick, old>> \/ Ask(s, TRUE, FALSE) \/ Supersede(s)
    BY <1>4 DEF Choose
  <2>4. WorldShape'
    BY <1>1, <2>1, PageBounds DEF WorldShape, Disturbance
  <2>5. StreamInv'
    BY <2>1, <2>4, OthersStand
  <2>6. CASE UNCHANGED <<readVars, tick, old>>
    <3>1. UNCHANGED <<readVars, loopVars>> /\ machine' = machine
      BY <2>1, <2>6 DEF loopVars, readVars
    <3>2. ReadsInv'
      BY <2>1, <2>4, <3>1, OthersStand
    <3>. QED BY <2>4, <2>5, <3>1, <3>2 DEF PageInv, ReadsInv, StreamInv
  <2>7. CASE Ask(s, TRUE, FALSE)
    <3>1. ReadsInv' /\ machine' = machine
      BY <1>1, <2>1, <2>7, AskKeeps DEF Ask
    <3>. QED BY <2>4, <2>5, <3>1 DEF PageInv, ReadsInv, StreamInv
  <2>8. CASE Supersede(s)
    <3>1. ReadsInv' /\ machine' = machine
      BY <1>1, <2>1, <2>8, SupersedeKeeps DEF Supersede
    <3>. QED BY <2>4, <2>5, <3>1 DEF PageInv, ReadsInv, StreamInv
  <2>. QED BY <2>2, <2>6, <2>7, <2>8
<1>5. CASE Signal(s)
  <2>1. /\ Ask(s, FALSE, FALSE) /\ store.seq # seen[s] /\ seen' = [seen EXCEPT ![s] = store.seq]
        /\ UNCHANGED <<desk, health, hidden, generated, on, timer, streamVars, disturbances>>
    BY <1>5 DEF Signal, gatewayVars
  <2>3. ReadsInv'
    BY <1>1, <2>1, AskKeeps
  <2>4. WorldShape'
    BY <1>1, <2>1 DEF WorldShape
  <2>5. StreamInv'
    <3>1. UNCHANGED <<source, pushed, store, loop, on, desk>>
      BY <2>1 DEF streamVars
    <3>2. StreamShape /\ StreamOk /\ PushedOk /\ store.seq \in 0..(MaxChanges + 1)
      BY <1>1 DEF StreamInv, StreamShape
    <3>3. seen' \in [Surfaces -> 0..(MaxChanges + 1)]
      BY <2>1, <3>2 DEF StreamShape
    <3>. QED BY <3>1, <3>2, <3>3 DEF StreamInv, StreamShape, StreamOk, PushedOk
  <2>6. machine' = machine
    BY <2>1 DEF Ask
  <2>. QED BY <2>3, <2>4, <2>5, <2>6 DEF PageInv, ReadsInv, StreamInv
<1>. QED BY <1>2, <1>3, <1>4, <1>5

\* What the connection does leaves the reads alone.
LEMMA StreamKeeps ==
  ASSUME PageInv, StreamTick \/ StreamOpens \/ GatewayPushes \/ StreamRefused \/ StreamDrops \/ StreamRotates
  PROVE  PageInv' /\ machine' = machine
<1>1. /\ UNCHANGED <<desk, health, hidden, generated, readVars, loopVars, seen>>
      /\ disturbances' = disturbances \/ Disturbance
  BY DEF StreamTick, StreamOpens, GatewayPushes, StreamRefused, StreamDrops, StreamRotates, Disconnect, gatewayVars
<1>2. WorldShape /\ on' = on /\ machine' = machine
  BY <1>1 DEF PageInv, loopVars, readVars
<1>3. WorldShape'
  BY <1>1, <1>2, PageBounds DEF WorldShape, Disturbance
<1>4. ReadsInv'
  BY <1>1, <1>3, OthersStand
<1>5. StreamInv'
  BY <1>1, <1>2, PushKeeps, ConnectionTurns
<1>. QED BY <1>2, <1>3, <1>4, <1>5 DEF PageInv, ReadsInv, StreamInv

\* The world moves under the page: the gateway's book only forward.
LEMMA WorldKeeps ==
  ASSUME PageInv, GatewayChanges \/ HealthChanges \/ PageHides \/ PageReturns
  PROVE  PageInv' /\ machine' = machine
<1>1. UNCHANGED <<readVars, generated, loopVars, streamVars, seen>>
  BY DEF GatewayChanges, HealthChanges, PageHides, PageReturns
<1>2. ReadsInv /\ StreamInv /\ WorldShape /\ on' = on /\ machine' = machine
  BY <1>1, PageParts DEF loopVars, readVars
<1>3. WorldShape' /\ desk <= desk'
  <2>1. desk \in Nat /\ MaxChanges \in Nat
    BY <1>2, PageBounds DEF WorldShape
  <2>2. CASE GatewayChanges
    <3>1. desk < MaxChanges /\ desk' = desk + 1 /\ UNCHANGED <<health, hidden, disturbances>>
      BY <2>2 DEF GatewayChanges
    <3>2. desk' \in Versions /\ desk <= desk'
      BY <2>1, <3>1 DEF Versions
    <3>. QED BY <1>1, <1>2, <3>1, <3>2 DEF WorldShape
  <2>3. CASE HealthChanges
    <3>1. /\ UNCHANGED <<desk, hidden>> /\ health' \in {"up", "down"}
          /\ disturbances' = disturbances \/ Disturbance
      BY <2>3 DEF HealthChanges
    <3>. QED BY <1>1, <1>2, <2>1, <3>1, PageBounds DEF WorldShape, Disturbance
  <2>4. CASE PageHides
    <3>1. UNCHANGED <<desk, health>> /\ hidden' = TRUE /\ Disturbance
      BY <2>4 DEF PageHides, gatewayVars
    <3>. QED BY <1>1, <1>2, <2>1, <3>1, PageBounds DEF WorldShape, Disturbance
  <2>5. CASE PageReturns
    <3>1. UNCHANGED <<desk, health, disturbances>> /\ hidden' \in BOOLEAN
      BY <2>5 DEF PageReturns, gatewayVars
    <3>. QED BY <1>1, <1>2, <2>1, <3>1, PageBounds DEF WorldShape
  <2>. QED BY <2>2, <2>3, <2>4, <2>5
<1>4. ReadsInv' /\ StreamInv'
  BY <1>1, <1>2, <1>3, ReadsStand, StreamStands DEF WorldShape
<1>. QED BY <1>2, <1>3, <1>4 DEF PageInv, ReadsInv, StreamInv

\* Every step keeps the invariant and moves what is shown forward only.
LEMMA PageStep ==
  ASSUME PageInv, [PageNext]_pageVars
  PROVE  PageInv' /\ Forward
<1>1. ReadsInv /\ StreamInv /\ WorldShape
  BY PageParts
<1>2. CASE GatewayReads
  <2>1. /\ UNCHANGED <<desk, health, hidden, generated, on, streamVars, seen, disturbances>> /\ machine' = machine
    BY <1>2 DEF GatewayReads, gatewayVars, loopVars
  <2>2. WorldShape'
    BY <1>1, <2>1 DEF WorldShape
  <2>3. ReadsInv' /\ StreamInv'
    BY <1>1, <1>2, <2>1, <2>2, AnswerKeeps, OthersStand
  <2>. QED BY <1>1, <2>1, <2>2, <2>3, ForwardStands DEF PageInv, ReadsInv, StreamInv
<1>3. CASE BookArrives \/ BookTimesOut \/ AuditArrives
  BY <1>3, AnswersKeep
<1>4. ASSUME NEW s \in Surfaces, TimerFires(s) \/ Press(s) \/ Choose(s) \/ Signal(s)
      PROVE  PageInv' /\ Forward
  BY <1>1, <1>4, AsksKeep, ForwardStands
<1>5. ASSUME NEW s \in Surfaces, StartLoop(s) \/ StopLoop(s)
      PROVE  PageInv' /\ Forward
  <2>1. machine' = machine
    BY <1>5 DEF StartLoop, StopLoop, readVars
  <2>. QED BY <1>1, <1>5, <2>1, LoopStarts, LoopStops, ForwardStands
<1>6. CASE StreamTick \/ StreamOpens \/ GatewayPushes \/ StreamRefused \/ StreamDrops \/ StreamRotates
  BY <1>1, <1>6, StreamKeeps, ForwardStands
<1>7. CASE GatewayChanges \/ HealthChanges \/ PageHides \/ PageReturns
  BY <1>1, <1>7, WorldKeeps, ForwardStands
<1>8. CASE UNCHANGED pageVars
  <2>1. /\ UNCHANGED <<desk, health, hidden, generated, disturbances, on, machine>>
        /\ UNCHANGED <<readVars, loopVars>> /\ UNCHANGED <<streamVars, seen, on>>
    BY <1>8 DEF pageVars, gatewayVars, readVars, loopVars
  <2>2. WorldShape'
    BY <1>1, <2>1 DEF WorldShape
  <2>3. ReadsInv' /\ StreamInv'
    BY <2>1, <2>2, OthersStand
  <2>. QED BY <1>1, <2>1, <2>2, <2>3, ForwardStands DEF PageInv, ReadsInv, StreamInv
<1>. QED BY <1>2, <1>3, <1>4, <1>5, <1>6, <1>7, <1>8 DEF PageNext

\* Every hook has asked once, and the stream is opening its first connection.
LEMMA PageStarts == PageInit => PageInv
<1>. SUFFICES ASSUME PageInit PROVE PageInv
  OBVIOUS
<1>1. /\ desk = 0 /\ health \in {"up", "absent"} /\ hidden = FALSE /\ disturbances = 0
      /\ probe = [r \in Resources |-> IF r = "audit" /\ Audited = {} THEN <<"idle", NoBook>> ELSE <<"asked", NoBook>>]
      /\ latest = [s \in Surfaces |-> [waits |-> Wanted(s, TRUE), out |-> NoBook]]
      /\ machine = [s \in Surfaces |-> Empty] /\ generated = [s \in Surfaces |-> FALSE]
      /\ on = [s \in Surfaces |-> TRUE] /\ timer = [s \in Surfaces |-> TRUE]
      /\ tick = [s \in Surfaces |-> "no"] /\ old = [s \in Surfaces |-> NoRefresh]
      /\ source = "opening" /\ pushed = Closed /\ store = Connecting
      /\ loop = [on |-> TRUE, timer |-> FALSE]
      /\ seen = [s \in Surfaces |-> 0] /\ streakOf = [s \in Surfaces |-> 0]
  BY DEF PageInit
<1>2. /\ Streak \in Nat /\ MaxChanges \in Nat /\ MaxDisturbances \in Nat /\ NoBook = -1 /\ 0 \in Versions
      /\ 0 \in 0..Streak /\ 0 \in 0..(MaxChanges + 1) /\ 0 \in 0..MaxDisturbances
  BY PageBounds
<1>3. WorldShape
  BY <1>1, <1>2 DEF WorldShape
<1>4. StreamShape /\ StreamOk /\ PushedOk
  <2>1. StreamShape
    BY <1>1, <1>2 DEF StreamShape, Closed, Connecting
  <2>2. StreamOk
    BY <1>1 DEF StreamOk, Connecting
  <2>3. PushedOk
    BY <1>1, <1>2 DEF PushedOk, Closed
  <2>. QED BY <2>1, <2>2, <2>3
<1>5. /\ NoRefresh \in Refresh /\ NoRefresh.waits = {} /\ Empty \in Machine
      /\ Empty.best = -1 /\ Empty.streak = 0 /\ ~Empty.demoted
      /\ <<"idle", NoBook>> \in Probe /\ <<"asked", NoBook>> \in Probe
  BY <1>2 DEF NoRefresh, Refresh, Empty, Machine, Probe
<1>6. \A s \in Surfaces : /\ Wanted(s, TRUE) \in SUBSET Resources
                          /\ \A r \in Wanted(s, TRUE) : probe[r] = <<"asked", NoBook>>
  BY <1>1 DEF Wanted, Resources
<1>7. \A r \in Resources : probe[r] \in Probe /\ probe[r][1] # "read" /\ probe[r][2] = -1
  BY <1>1, <1>2, <1>5
<1>8. "book" \in Resources /\ "audit" \in Resources /\ probe["book"][2] = -1
  BY <1>7 DEF Resources
<1>9. \A s \in Surfaces : latest[s] \in Refresh /\ latest[s].waits = Wanted(s, TRUE) /\ latest[s].out = -1
  BY <1>1, <1>2, <1>6 DEF Refresh
<1>10. ReadsShape /\ LoopShape
  <2>1. probe \in [Resources -> Probe]
    BY <1>1, <1>7
  <2>2. latest \in [Surfaces -> Refresh]
    BY <1>1, <1>9
  <2>. QED BY <1>1, <1>2, <1>5, <1>7, <1>8, <2>1, <2>2 DEF ReadsShape, LoopShape
<1>11. LoopsOk
  BY <1>1, <1>5, <1>6, <1>9 DEF LoopsOk
<1>12. OrderOk /\ ProbeOk
  <2>1. \A s \in Surfaces : machine[s].best = -1 /\ latest[s].out = -1
    BY <1>1, <1>5, <1>9
  <2>2. desk = 0 /\ probe["book"][2] = -1
    BY <1>1, <1>8
  <2>. QED BY <2>1, <2>2 DEF OrderOk, ProbeOk
<1>13. StreakOk
  BY <1>1, <1>5 DEF StreakOk
<1>. QED BY <1>3, <1>4, <1>10, <1>11, <1>12, <1>13 DEF PageInv

(*** The desk's reads: the theorems ****************************************)

\* The state of the page's reads is always such: nothing waits for what nobody asked, and
\* nothing that is shown or on its way is newer than what comes after it.
THEOREM PageIsCoherent == PageSpec => []PageInv
BY PageStarts, PageStep, PTL DEF PageSpec

\* No polling loop dies or doubles, whatever supersedes its refresh, and a page that calls
\* itself pushed holds a connection or is about to make one (lib/polling.ts,
\* lib/use-desk-stream.ts).
THEOREM LoopsAlwaysStayAlive == PageSpec => []LoopsStayAlive
<1>1. PageInv => LoopsStayAlive
  <2>. SUFFICES ASSUME PageInv PROVE LoopsStayAlive
    OBVIOUS
  <2>1. ReadsShape /\ LoopShape /\ StreamShape /\ WorldShape /\ LoopsOk /\ StreamOk
    BY DEF PageInv
  <2>2. probe.book \in {"idle", "asked"} \X {NoBook} \cup {"read"} \X Outcomes
    BY <2>1 DEF ReadsShape, Probe, Resources
  <2>3. probe.audit \in {"idle", "asked"} \X {NoBook}
    <3>1. probe["audit"] \in Probe /\ probe["audit"][1] # "read"
      BY <2>1 DEF ReadsShape, Resources
    <3>. QED BY <3>1 DEF Probe
  <2>4. \A s \in Surfaces : machine[s].best \in Versions \cup {NoBook} /\ machine[s].streak \in 0..Streak
    BY <2>1 DEF ReadsShape, Machine
  <2>5. latest \in [Surfaces -> Refresh] /\ old \in [Surfaces -> Refresh]
    BY <2>1 DEF ReadsShape
  <2>6. PageTypeOK
    BY <2>1, <2>2, <2>3, <2>4, <2>5 DEF PageTypeOK, Refresh, LoopShape, StreamShape, WorldShape
  <2>7. store.state = "live" => (source = "open" \/ loop.on)
    BY <2>1 DEF StreamOk
  <2>. QED BY <2>1, <2>6, <2>7 DEF LoopsStayAlive, LoopsOk, StreamOk
<1>. QED BY <1>1, PageIsCoherent, PTL

\* Refreshes, pushes and presses end in any order, and no surface goes back to an older book
\* or calls itself live again before a streak of answers (lib/desk-source.ts).
THEOREM BooksNeverGoBackwards == PageSpec => NeverBackwards
<1>1. PageInv /\ [PageNext]_pageVars =>
        [\A s \in Surfaces :
           /\ machine'[s].best >= machine[s].best
           /\ (machine[s].demoted /\ ~machine'[s].demoted) => streakOf'[s] = Streak]_machine
  BY PageStep DEF Forward
<1>. QED BY <1>1, PageIsCoherent, PTL DEF PageSpec, NeverBackwards
=============================================================================
