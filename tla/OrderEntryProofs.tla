--------------------------- MODULE OrderEntryProofs ---------------------------
(***************************************************************************)
(* Theorems about the web order path, for every number of submits, orders   *)
(* in a burst, actions of the panel and faults.  An order has one request    *)
(* that is on its way or one acceptance, never both, and none before the      *)
(* ticket reaches it; an order that has rested stays recognisable for ever     *)
(* (RestedBy), so once pulled it never rests again.                             *)
(***************************************************************************)
EXTENDS OrderEntry, TLAPS

-----------------------------------------------------------------------------
(* The invariant *)

\* A cancel or an amendment, as TypeOK has it.
ActRecord ==
  [kind : {"none", "cancel", "amend"}, id : Ids \cup {Nothing},
   gateway : {"none", "sent", "retired", "done", "refused", "gone"},
   reply : {"none", "due", "lost", "hung", "loading", "over"}, blind : BOOLEAN]

\* TypeOK, with the panel's request and its notice as whole records.
Shape ==
  /\ TypeOK
  /\ listing \in [at : {"idle", "asked", "read"}, saw : SUBSET Ids]
  /\ said \in [what : {"nothing", "error", "refused"}, id : Ids \cup {Nothing}]

\* A busy ticket waits for one request, of an order of its burst.
TicketOk ==
  /\ ticket.busy <=> hop # "none"
  /\ ticket.busy => 1 <= ticket.sent /\ ticket.sent <= ticket.count
  /\ ticket.count > 0 => ticket.press > 0

\* The orders no request has carried to the gateway's side yet.
Unsent(o) ==
  \/ o[1] > ticket.press
  \/ o[1] = ticket.press /\ o[2] > ticket.sent
  \/ o = Current /\ hop \in {"route", "lost"}

\* An order is on its way or accepted, once, and neither before it is sent.
OnceOk ==
  \A o \in Orders :
    /\ inbound[o] + booked[o] <= 1
    /\ Unsent(o) => inbound[o] = 0 /\ booked[o] = 0

\* What the gateway has of this press is collected, with its fields or blank, but for the
\* order the ticket waits for or has an error for.
ShownOk ==
  \A i \in 1..MaxBurst :
    ticket.press > 0 /\ booked[<<ticket.press, i>>] + inbound[<<ticket.press, i>>] > 0 =>
      \/ <<ticket.press, i>> \in ticket.shown \cup ticket.blank
      \/ i = ticket.sent /\ (ticket.busy \/ ticket.doubt # "none")

\* An order or a replacement that came to rest at some time.
RestedBy(accepted, taken, id) ==
  \/ id \in Orders /\ accepted[id] = 1
  \/ \E n \in Acts : id = <<0, n>> /\ taken[n].gateway = "done"

RestedOk ==
  /\ \A id \in resting \cup rows \cup listing.saw : RestedBy(booked, acts, id)
  /\ \A n \in Acts : acts[n] # Unused => RestedBy(booked, acts, acts[n].id)

\* What an amendment pulled does not come back, and what the panel calls refused is gone.
GoneOk ==
  /\ \A n \in Acts : acts[n].gateway \in {"retired", "refused"} => acts[n].id \notin resting
  /\ said.what = "refused" => RestedBy(booked, acts, said.id) /\ said.id \notin resting

\* The only action so far ended without its wish carried out: the panel has said so, unless
\* the body of its answer could not be read.
SaidOk ==
  \A n \in Acts :
    /\ acts[n].reply \in {"loading", "over"} /\ acts[n].gateway # "done" /\ ~acts[n].blind
    /\ \A k \in Acts \ {n} : acts[k] = Unused
    => said.what # "nothing"

IInv == Shape /\ TicketOk /\ OnceOk /\ ShownOk /\ RestedOk /\ GoneOk /\ SaidOk

-----------------------------------------------------------------------------
(* The ticket, the route and the gateway's answer *)

\* A ticket that waits for a request waits for an order of its burst.
LEMMA CurrentIsOrder ==
  ASSUME Shape, TicketOk, hop # "none"
  PROVE  /\ ticket.press \in 1..MaxPresses /\ ticket.sent \in 1..MaxBurst
         /\ Current \in Orders
<1>1. ticket.press \in 0..MaxPresses /\ ticket.sent \in 0..MaxBurst /\ ticket.count \in 0..MaxBurst
  BY DEF Shape, TypeOK
<1>2. MaxPresses \in Nat /\ MaxBurst \in Nat
  BY OrderEntryAssumption
<1>3. ticket.busy /\ 1 <= ticket.sent /\ ticket.sent <= ticket.count
  BY DEF TicketOk
<1>4. ticket.count > 0
  BY <1>1, <1>3
<1>5. ticket.press > 0
  BY <1>4 DEF TicketOk
<1>6. QED
  BY <1>1, <1>2, <1>3, <1>5 DEF Current, Orders

\* Whatever the ticket and its request do, the panel's part stands while nothing is
\* accepted and nothing comes to rest.
LEMMA PanelStands ==
  ASSUME RestedOk, GoneOk, SaidOk, UNCHANGED <<booked, resting, panelVars>>
  PROVE  RestedOk' /\ GoneOk' /\ SaidOk'
  BY DEF RestedOk, GoneOk, SaidOk, RestedBy, panelVars

\* Whatever the panel does, the ticket's part stands.
LEMMA TicketStands ==
  ASSUME TicketOk, OnceOk, ShownOk, UNCHANGED <<ticketVars, inbound, booked>>
  PROVE  TicketOk' /\ OnceOk' /\ ShownOk'
  BY DEF TicketOk, OnceOk, ShownOk, Unsent, Current, ticketVars

\* A submit starts a burst none of whose orders has been sent.
LEMMA PressStep ==
  ASSUME IInv, Press
  PROVE  Shape' /\ TicketOk' /\ OnceOk' /\ ShownOk'
<1> USE DEF gatewayVars, panelVars
<1>1. PICK count \in {1, MaxBurst}, retry \in BOOLEAN :
        /\ retry => ticket.doubt = "timeout" /\ ticket.count = 1 /\ count = 1
        /\ ticket' = [busy |-> TRUE, press |-> ticket.press + 1, sent |-> 1, count |-> count,
                      shown |-> {}, blank |-> {}, doubt |-> "none"]
        /\ intent' = [intent EXCEPT ![ticket.press + 1] =
                        IF retry THEN intent[ticket.press] ELSE ticket.press + 1]
  BY DEF Press
<1>2. /\ ticket.press \in 0..MaxPresses /\ ticket.press < MaxPresses /\ hop' = "route"
      /\ MaxPresses \in Nat /\ MaxBurst \in Nat \ {0}
      /\ UNCHANGED <<gatewayVars, panelVars, events>>
  BY OrderEntryAssumption DEF Press, IInv, Shape, TypeOK
<1>3. Shape'
  <2>1. ticket' \in [busy : BOOLEAN, press : 0..MaxPresses, sent : 0..MaxBurst,
                     count : 0..MaxBurst, shown : SUBSET Orders, blank : SUBSET Orders,
                     doubt : {"none", "failure", "timeout", "unsent"}]
    BY <1>1, <1>2
  <2>2. retry => ticket.press \in 1..MaxPresses
    BY <1>1, <1>2 DEF IInv, TicketOk
  <2>3. intent' \in [1..MaxPresses -> 0..MaxPresses]
    BY <1>1, <1>2, <2>2 DEF IInv, Shape, TypeOK
  <2>4. QED
    BY <1>2, <2>1, <2>3 DEF IInv, Shape, TypeOK
<1>4. TicketOk'
  BY <1>1, <1>2 DEF TicketOk
<1>5. ASSUME NEW o \in Orders, Unsent(o)' PROVE Unsent(o)
  <2>1. o \in (1..MaxPresses) \X (1..MaxBurst)
    BY DEF Orders
  <2>2. o[1] \in Nat /\ o[2] \in Nat /\ o = <<o[1], o[2]>>
    BY <2>1
  <2>3. o[1] > ticket.press
    BY <1>1, <1>2, <1>5, <2>2 DEF Unsent, Current
  <2>4. QED
    BY <2>3 DEF Unsent
<1>6. OnceOk'
  BY <1>2, <1>5 DEF IInv, OnceOk
<1>7. ShownOk'
  <2>1. ASSUME NEW i \in 1..MaxBurst
        PROVE  booked[<<ticket.press + 1, i>>] + inbound[<<ticket.press + 1, i>>] = 0
    <3>1. <<ticket.press + 1, i>> \in Orders
      BY <1>2 DEF Orders
    <3>2. Unsent(<<ticket.press + 1, i>>)
      BY <1>2 DEF Unsent
    <3>3. QED
      BY <3>1, <3>2 DEF IInv, OnceOk
  <2>2. QED
    BY <1>1, <1>2, <2>1 DEF ShownOk
<1>8. QED
  BY <1>3, <1>4, <1>6, <1>7

\* The ticket at rest, with an error on screen for the order it waited for.
LEMMA StoppedStep ==
  ASSUME IInv, NEW doubt \in {"failure", "timeout", "unsent"}, hop # "none", Stopped(doubt),
         UNCHANGED <<intent, gatewayVars, panelVars>>, events' \in 0..MaxEvents
  PROVE  Shape' /\ TicketOk' /\ OnceOk' /\ ShownOk'
<1> USE DEF gatewayVars, panelVars
<1>1. ticket' = [ticket EXCEPT !.busy = FALSE, !.doubt = doubt] /\ hop' = "none"
  BY DEF Stopped
<1>2. /\ ticket'.busy = FALSE /\ ticket'.doubt = doubt /\ ticket'.press = ticket.press
      /\ ticket'.sent = ticket.sent /\ ticket'.count = ticket.count
      /\ ticket'.shown = ticket.shown /\ ticket'.blank = ticket.blank
  BY <1>1 DEF IInv, Shape, TypeOK
<1>3. Shape'
  BY <1>1 DEF IInv, Shape, TypeOK
<1>4. TicketOk'
  BY <1>1, <1>2 DEF IInv, TicketOk
<1>5. OnceOk'
  BY <1>1, <1>2 DEF IInv, OnceOk, Unsent, Current
<1>6. ShownOk'
  BY <1>2 DEF IInv, ShownOk
<1>7. QED
  BY <1>3, <1>4, <1>5, <1>6

\* A decision is kept, blank or not, and the next order of the burst has not been sent.
LEMMA DecisionStep ==
  ASSUME IInv, NEW shown \in SUBSET Orders, NEW blank \in SUBSET Orders,
         shown \cup blank = ticket.shown \cup ticket.blank \cup {Current},
         hop = "decided", BurstGoesOn(shown, blank),
         UNCHANGED <<intent, gatewayVars, panelVars>>, events' \in 0..MaxEvents
  PROVE  Shape' /\ TicketOk' /\ OnceOk' /\ ShownOk'
<1> USE DEF gatewayVars, panelVars
<1>1. /\ ticket' = [ticket EXCEPT !.shown = shown, !.blank = blank,
                                  !.busy = ticket.sent < ticket.count,
                                  !.sent = IF ticket.sent < ticket.count THEN @ + 1 ELSE @]
      /\ hop' = IF ticket.sent < ticket.count THEN "route" ELSE "none"
  BY DEF BurstGoesOn
<1>2. /\ ticket'.busy = (ticket.sent < ticket.count) /\ ticket'.press = ticket.press
      /\ ticket'.sent = IF ticket.sent < ticket.count THEN ticket.sent + 1 ELSE ticket.sent
      /\ ticket'.count = ticket.count /\ ticket'.shown = shown /\ ticket'.blank = blank
  BY <1>1 DEF IInv, Shape, TypeOK
<1>3. ticket.press \in 1..MaxPresses /\ ticket.sent \in 1..MaxBurst /\ Current \in Orders
  BY <1>1, CurrentIsOrder DEF IInv
<1>4. /\ ticket.count \in 0..MaxBurst /\ ticket.busy /\ ticket.sent <= ticket.count
      /\ MaxBurst \in Nat
  BY <1>1, OrderEntryAssumption DEF IInv, Shape, TypeOK, TicketOk
<1>5. Shape' /\ TicketOk'
  <2>1. CASE ticket.sent < ticket.count
    <3>1. (ticket.sent < ticket.count) = TRUE
      BY <2>1
    <3>2. ticket' = [ticket EXCEPT !.shown = shown, !.blank = blank, !.busy = TRUE, !.sent = @ + 1]
      BY <1>1, <3>1
    <3>3. /\ ticket'.busy /\ ticket'.sent = ticket.sent + 1 /\ ticket'.count = ticket.count
          /\ ticket'.press = ticket.press
      BY <1>3, <3>2 DEF IInv, Shape, TypeOK
    <3>4. ticket' \in [busy : BOOLEAN, press : 0..MaxPresses, sent : 0..MaxBurst,
                       count : 0..MaxBurst, shown : SUBSET Orders, blank : SUBSET Orders,
                       doubt : {"none", "failure", "timeout", "unsent"}]
      <4> DEFINE next == ticket.sent + 1
      <4>1. next \in 0..MaxBurst
        BY <1>3, <1>4, <2>1
      <4>2. ticket' = [ticket EXCEPT !.shown = shown, !.blank = blank, !.busy = TRUE, !.sent = next]
        BY <3>2
      <4> HIDE DEF next
      <4>3. QED
        BY <1>3, <4>1, <4>2 DEF IInv, Shape, TypeOK
    <3>5. Shape'
      BY <1>1, <3>4 DEF IInv, Shape, TypeOK
    <3>6. TicketOk'
      BY <1>1, <1>3, <1>4, <2>1, <3>3 DEF TicketOk
    <3>7. QED
      BY <3>5, <3>6
  <2>2. CASE ~(ticket.sent < ticket.count)
    <3>1. (ticket.sent < ticket.count) = FALSE
      BY <2>2
    <3>2. ticket' = [ticket EXCEPT !.shown = shown, !.blank = blank, !.busy = FALSE, !.sent = @]
      BY <1>1, <3>1
    <3>3. /\ ticket'.busy = FALSE /\ ticket'.sent = ticket.sent /\ ticket'.count = ticket.count
          /\ ticket'.press = ticket.press
      BY <1>3, <3>2 DEF IInv, Shape, TypeOK
    <3>4. ticket' \in [busy : BOOLEAN, press : 0..MaxPresses, sent : 0..MaxBurst,
                       count : 0..MaxBurst, shown : SUBSET Orders, blank : SUBSET Orders,
                       doubt : {"none", "failure", "timeout", "unsent"}]
      BY <1>3, <1>4, <3>2 DEF IInv, Shape, TypeOK
    <3>5. Shape'
      BY <1>1, <3>4 DEF IInv, Shape, TypeOK
    <3>6. TicketOk'
      BY <1>1, <1>3, <1>4, <2>2, <3>3 DEF TicketOk
    <3>7. QED
      BY <3>5, <3>6
  <2>3. QED
    BY <2>1, <2>2
<1>7. ASSUME NEW o \in Orders, Unsent(o)' PROVE Unsent(o)
  <2>1. o \in (1..MaxPresses) \X (1..MaxBurst)
    BY DEF Orders
  <2>2. o[1] \in Nat /\ o[2] \in Nat /\ o = <<o[1], o[2]>>
    BY <2>1
  <2>3. o[1] > ticket.press \/ (o[1] = ticket.press /\ o[2] > ticket.sent)
    BY <1>1, <1>2, <1>3, <1>4, <1>7, <2>2 DEF Unsent, Current
  <2>4. QED
    BY <2>3 DEF Unsent
<1>8. OnceOk'
  BY <1>1, <1>7 DEF IInv, OnceOk
<1>9. ShownOk'
  BY <1>1, <1>2 DEF IInv, ShownOk, Current
<1>10. QED
  BY <1>5, <1>8, <1>9

\* The request moves on, or a copy of it is dropped; only the one the ticket waits for
\* becomes one on its way.
LEMMA RequestStep ==
  ASSUME IInv, RequestLost \/ RouteForwards \/ TransportFails \/ RouteTimesOut
  PROVE  Shape' /\ TicketOk' /\ OnceOk' /\ ShownOk'
<1> USE DEF gatewayVars, panelVars
<1>1. /\ hop # "none" /\ hop' # "none" /\ hop' \in {"lost", "failed", "gateway"}
      /\ hop' = "lost" => hop = "route"
      /\ UNCHANGED <<ticket, intent, booked, seen, resting, panelVars>>
  BY DEF RequestLost, RouteForwards, TransportFails, RouteTimesOut
<1>2. Current \in Orders /\ Current' = Current
  BY <1>1, CurrentIsOrder DEF IInv, Current
<1>3. \/ inbound' = inbound
      \/ hop = "route" /\ inbound' = [inbound EXCEPT ![Current] = @ + 1]
      \/ inbound' = [inbound EXCEPT ![Current] = 0]
  BY DEF RequestLost, RouteForwards, TransportFails, RouteTimesOut
<1>4. inbound \in [Orders -> 0..2] /\ booked \in [Orders -> 0..2]
  BY DEF IInv, Shape, TypeOK
<1>5. ASSUME NEW o \in Orders
      PROVE  /\ o # Current => inbound'[o] = inbound[o]
             /\ \/ inbound'[o] = inbound[o]
                \/ hop = "route" /\ o = Current /\ inbound'[o] = inbound[o] + 1
                \/ inbound'[o] = 0
  BY <1>2, <1>3, <1>4
<1>6. ASSUME NEW o \in Orders
      PROVE  /\ inbound'[o] \in 0..1 /\ inbound'[o] + booked[o] <= 1
             /\ Unsent(o)' => inbound'[o] = 0 /\ booked[o] = 0
  <2>1. inbound[o] \in 0..2 /\ booked[o] \in 0..2 /\ inbound[o] + booked[o] <= 1
        /\ (Unsent(o) => inbound[o] = 0 /\ booked[o] = 0)
    BY <1>4 DEF IInv, OnceOk
  <2>2. hop = "route" => Unsent(Current)
    BY DEF Unsent
  <2>3. Unsent(o)' => Unsent(o)
    BY <1>1 DEF Unsent, Current
  <2>4. CASE o # Current
    BY <1>5, <2>1, <2>3, <2>4
  <2>5. CASE o = Current
    <3>1. ~Unsent(o)' \/ hop' = "lost"
      <4>1. o = <<ticket.press, ticket.sent>> /\ ticket.press \in Nat /\ ticket.sent \in Nat
        BY <2>5 DEF Current, IInv, Shape, TypeOK
      <4>2. QED
        BY <1>1, <4>1 DEF Unsent
    <3>2. hop' = "lost" => inbound' = inbound
      BY DEF RequestLost, RouteForwards, TransportFails, RouteTimesOut
    <3>3. QED
      BY <1>5, <2>1, <2>2, <2>3, <2>5, <3>1, <3>2
  <2>6. QED
    BY <2>4, <2>5
<1>7. inbound' \in [Orders -> 0..2]
  <2>1. DOMAIN inbound' = Orders /\ inbound' = [o \in Orders |-> inbound'[o]]
    BY <1>3, <1>4
  <2>2. QED
    BY <1>6, <2>1
<1>8. events' \in 0..MaxEvents
  BY OrderEntryAssumption DEF RequestLost, RouteForwards, TransportFails, RouteTimesOut, Event,
     IInv, Shape, TypeOK
<1>9. Shape'
  BY <1>1, <1>7, <1>8 DEF IInv, Shape, TypeOK
<1>10. TicketOk'
  BY <1>1 DEF IInv, TicketOk
<1>11. OnceOk'
  BY <1>1, <1>6 DEF OnceOk
<1>12. ShownOk'
  <2>1. ticket.busy
    BY <1>1 DEF IInv, TicketOk
  <2> SUFFICES ASSUME NEW i \in 1..MaxBurst, ticket.press > 0, i # ticket.sent,
                      booked[<<ticket.press, i>>] + inbound'[<<ticket.press, i>>] > 0
               PROVE  <<ticket.press, i>> \in ticket.shown \cup ticket.blank
    BY <1>1, <2>1 DEF ShownOk
  <2>2. <<ticket.press, i>> \in Orders /\ <<ticket.press, i>> # Current
    BY DEF Orders, Current, IInv, Shape, TypeOK
  <2>3. inbound'[<<ticket.press, i>>] = inbound[<<ticket.press, i>>]
    BY <1>5, <2>2
  <2>4. QED
    BY <2>3 DEF IInv, ShownOk
<1>13. QED
  BY <1>9, <1>10, <1>11, <1>12

\* An order the gateway has not accepted has never rested.
LEMMA NotRested ==
  ASSUME NEW o \in Orders, booked[o] = 0
  PROVE  ~RestedBy(booked, acts, o)
<1>1. o[1] \in 1..MaxPresses /\ o[1] # 0
  BY OrderEntryAssumption DEF Orders
<1>2. QED
  BY <1>1 DEF RestedBy

\* The gateway's decision uses up the request, whether it accepts or not, and an order it
\* accepts has never rested before.
LEMMA DecideStep ==
  ASSUME IInv, NEW o \in Orders, GatewayDecides(o)
  PROVE  IInv'
<1> USE DEF panelVars
<1>1. /\ inbound[o] > 0 /\ inbound' = [inbound EXCEPT ![o] = @ - 1]
      /\ UNCHANGED <<ticket, intent, panelVars, events>>
      /\ hop' = hop \/ (hop = "gateway" /\ hop' = "decided")
  BY DEF GatewayDecides
<1>2. /\ inbound \in [Orders -> 0..2] /\ booked \in [Orders -> 0..2] /\ inbound[o] + booked[o] <= 1
  BY DEF IInv, Shape, TypeOK, OnceOk
<1>3. inbound[o] = 1 /\ booked[o] = 0 /\ inbound' = [inbound EXCEPT ![o] = 0]
  <2>1. inbound[o] = 1 /\ booked[o] = 0
    <3> DEFINE sent == inbound[o]
               accepted == booked[o]
    <3>1. sent \in 0..2 /\ accepted \in 0..2 /\ sent > 0 /\ sent + accepted <= 1
      BY <1>1, <1>2
    <3> HIDE DEF sent, accepted
    <3>2. sent = 1 /\ accepted = 0
      BY <3>1
    <3>3. QED
      BY <3>2 DEF sent, accepted
  <2>2. QED
    BY <1>1, <2>1
<1>4. \/ UNCHANGED <<booked, seen, resting>>
      \/ /\ booked' = [booked EXCEPT ![o] = 1]
         /\ seen' \subseteq seen \cup {o}
         /\ resting' \subseteq resting \cup {o}
  BY <1>2, <1>3 DEF GatewayDecides
<1>5. ASSUME NEW p \in Orders
      PROVE  /\ inbound'[p] + booked'[p] <= inbound[p] + booked[p]
             /\ inbound'[p] \in 0..2 /\ booked'[p] \in 0..2
             /\ p # o => inbound'[p] = inbound[p] /\ booked'[p] = booked[p]
  BY <1>2, <1>3, <1>4
<1>6. Shape'
  <2>1. inbound' \in [Orders -> 0..2] /\ booked' \in [Orders -> 0..2]
    BY <1>2, <1>3, <1>4
  <2>2. resting' \subseteq Ids /\ seen' \subseteq Orders
    BY <1>4 DEF IInv, Shape, TypeOK, Ids
  <2>3. QED
    BY <1>1, <2>1, <2>2 DEF IInv, Shape, TypeOK
<1>7. TicketOk'
  BY <1>1 DEF IInv, TicketOk
<1>8. OnceOk'
  <2> SUFFICES ASSUME NEW p \in Orders
               PROVE  /\ inbound'[p] + booked'[p] <= 1
                      /\ Unsent(p)' => inbound'[p] = 0 /\ booked'[p] = 0
    BY DEF OnceOk
  <2>1. inbound[p] + booked[p] <= 1 /\ (Unsent(p) => inbound[p] = 0 /\ booked[p] = 0)
    BY DEF IInv, OnceOk
  <2>2. Unsent(p)' => Unsent(p)
    BY <1>1 DEF Unsent, Current
  <2>3. inbound[p] \in 0..2 /\ booked[p] \in 0..2
    BY <1>2
  <2>4. QED
    BY <1>5, <2>1, <2>2, <2>3
<1>9. ShownOk'
  <2> SUFFICES ASSUME NEW i \in 1..MaxBurst, ticket.press > 0,
                      booked'[<<ticket.press, i>>] + inbound'[<<ticket.press, i>>] > 0
               PROVE  \/ <<ticket.press, i>> \in ticket.shown \cup ticket.blank
                      \/ i = ticket.sent /\ (ticket.busy \/ ticket.doubt # "none")
    BY <1>1 DEF ShownOk
  <2>1. <<ticket.press, i>> \in Orders
    BY DEF Orders, IInv, Shape, TypeOK
  <2>2. /\ booked[<<ticket.press, i>>] \in 0..2 /\ inbound[<<ticket.press, i>>] \in 0..2
        /\ booked[<<ticket.press, i>>] + inbound[<<ticket.press, i>>] > 0
    BY <1>2, <1>5, <2>1
  <2>3. QED
    BY <2>2 DEF IInv, ShownOk
<1>10. ~RestedBy(booked, acts, o)
  BY <1>3, NotRested
<1>11. ASSUME NEW id, RestedBy(booked, acts, id) PROVE RestedBy(booked', acts', id)
  <2>1. CASE id \in Orders /\ booked[id] = 1
    BY <1>3, <1>5, <2>1 DEF RestedBy
  <2>2. CASE \E n \in Acts : id = <<0, n>> /\ acts[n].gateway = "done"
    BY <1>1, <2>2 DEF RestedBy
  <2>3. QED
    BY <1>11, <2>1, <2>2 DEF RestedBy
<1>12. RestedOk'
  <2>1. o \in resting' => o \in resting \/ RestedBy(booked', acts', o)
    BY <1>2, <1>4 DEF RestedBy
  <2>2. \A id \in resting' \cup rows \cup listing.saw : RestedBy(booked', acts', id)
    BY <1>4, <1>11, <2>1 DEF IInv, RestedOk
  <2>3. QED
    BY <1>1, <1>11, <2>2 DEF IInv, RestedOk
<1>13. ASSUME NEW id, RestedBy(booked, acts, id), id \notin resting PROVE id \notin resting'
  BY <1>4, <1>10, <1>13
<1>14. GoneOk'
  <2>1. \A n \in Acts : acts[n].gateway \in {"retired", "refused"}
                          => RestedBy(booked, acts, acts[n].id)
    BY DEF IInv, RestedOk, Unused
  <2>2. QED
    BY <1>1, <1>11, <1>13, <2>1 DEF IInv, GoneOk
<1>15. SaidOk'
  BY <1>1 DEF IInv, SaidOk
<1>16. QED
  BY <1>6, <1>7, <1>8, <1>9, <1>12, <1>14, <1>15 DEF IInv

-----------------------------------------------------------------------------
(* The panel *)

\* What rested once still did, while no acceptance is taken back and no finished action
\* is undone.
LEMMA RestedStays ==
  ASSUME booked' = booked, \A n \in Acts : acts[n].gateway = "done" => acts'[n].gateway = "done"
  PROVE  \A id : RestedBy(booked, acts, id) => RestedBy(booked', acts', id)
  BY DEF RestedBy

\* A click asks for something about a row on screen, which has rested.
LEMMA ClickStep ==
  ASSUME IInv, NEW n \in Acts, NEW kind \in {"cancel", "amend"}, Click(n, kind)
  PROVE  Shape' /\ RestedOk' /\ GoneOk' /\ SaidOk'
<1> USE DEF ticketVars, gatewayVars
<1>1. PICK o \in rows \ {busyRow} :
        /\ acts' = [acts EXCEPT ![n] = [kind |-> kind, id |-> o, gateway |-> "sent", reply |-> "due",
                                       blind |-> FALSE]]
        /\ busyRow' = o
  BY DEF Click
<1>2. acts[n] = Unused /\ UNCHANGED <<ticketVars, gatewayVars, rows, listing, said, events>>
  BY DEF Click
<1>3. o \in Ids
  BY DEF IInv, Shape, TypeOK
<1>4. Shape'
  BY <1>1, <1>2, <1>3 DEF IInv, Shape, TypeOK
<1>5. /\ acts'[n] = [kind |-> kind, id |-> o, gateway |-> "sent", reply |-> "due", blind |-> FALSE]
      /\ \A k \in Acts \ {n} : acts'[k] = acts[k]
  BY <1>1 DEF IInv, Shape, TypeOK
<1>6. \A id : RestedBy(booked, acts, id) => RestedBy(booked', acts', id)
  BY <1>2, <1>5, RestedStays DEF Unused
<1>7. RestedBy(booked, acts, o)
  BY DEF IInv, RestedOk
<1>8. RestedOk'
  BY <1>2, <1>5, <1>6, <1>7 DEF IInv, RestedOk
<1>9. GoneOk'
  BY <1>2, <1>5, <1>6 DEF IInv, GoneOk
<1>10. acts'[n] # Unused
  BY <1>5 DEF Unused
<1>11. SaidOk'
  <2> SUFFICES ASSUME NEW m \in Acts, acts'[m].reply \in {"loading", "over"},
                      \A k \in Acts \ {m} : acts'[k] = Unused
               PROVE  FALSE
    BY DEF SaidOk
  <2>1. m = n
    BY <1>10
  <2>2. QED
    BY <1>5, <2>1
<1>12. QED
  BY <1>4, <1>8, <1>9, <1>11

\* What an action pulls does not rest, and only a replacement that never rested joins.
LEMMA GatewayActsStep ==
  ASSUME IInv, NEW n \in Acts, GatewayActs(n)
  PROVE  Shape' /\ RestedOk' /\ GoneOk' /\ SaidOk'
<1> USE DEF ticketVars, Answered
<1>1. UNCHANGED <<ticketVars, inbound, booked, seen, rows, listing, busyRow, said, events>>
  BY DEF GatewayActs
<1>2. PICK what \in {"gone", "done", "retired", "refused"} :
        /\ acts' = [acts EXCEPT ![n].gateway = what]
        /\ acts[n].gateway \in {"sent", "retired"}
        /\ what = "gone" => acts[n].id \notin resting
        /\ \/ /\ acts[n].gateway = "sent"
              /\ acts[n].id \notin resting'
              /\ resting' \subseteq resting
           \/ /\ acts[n].gateway = "retired"
              /\ resting' = resting \/ (what = "done" /\ resting' = resting \cup {<<0, n>>})
  BY DEF GatewayActs
<1>3. /\ acts'[n].gateway = what /\ acts'[n].id = acts[n].id /\ acts'[n].reply = acts[n].reply
      /\ acts'[n].blind = acts[n].blind
      /\ \A k \in Acts \ {n} : acts'[k] = acts[k]
  BY <1>2 DEF IInv, Shape, TypeOK
<1>4. acts[n] # Unused /\ acts'[n] # Unused
  BY <1>2, <1>3 DEF Unused
<1>5. Shape'
  <2>1. resting' \subseteq Ids
    BY <1>2 DEF IInv, Shape, TypeOK, Ids
  <2>2. acts' \in [Acts -> ActRecord]
    BY <1>2 DEF IInv, Shape, TypeOK, ActRecord
  <2>3. QED
    BY <1>1, <2>1, <2>2 DEF IInv, Shape, TypeOK, ActRecord
<1>6. \A id : RestedBy(booked, acts, id) => RestedBy(booked', acts', id)
  BY <1>1, <1>2, <1>3, RestedStays
<1>7. ASSUME acts[n].gateway = "retired" PROVE ~RestedBy(booked, acts, <<0, n>>)
  <2>1. <<0, n>> \notin Orders
    BY OrderEntryAssumption DEF Orders
  <2>2. QED
    BY <1>7, <2>1 DEF RestedBy
<1>8. RestedOk'
  <2>1. what = "done" => RestedBy(booked', acts', <<0, n>>)
    BY <1>3 DEF RestedBy
  <2>2. \A id \in resting' \cup rows \cup listing.saw : RestedBy(booked', acts', id)
    BY <1>2, <1>6, <2>1 DEF IInv, RestedOk
  <2>3. \A k \in Acts : acts'[k] # Unused => RestedBy(booked', acts', acts'[k].id)
    BY <1>3, <1>4, <1>6 DEF IInv, RestedOk
  <2>4. QED
    BY <1>1, <2>2, <2>3 DEF RestedOk
<1>9. ASSUME NEW id, RestedBy(booked, acts, id), id \notin resting PROVE id \notin resting'
  BY <1>2, <1>7, <1>9
<1>10. GoneOk'
  <2>1. ASSUME NEW k \in Acts, acts'[k].gateway \in {"retired", "refused"}
        PROVE  acts'[k].id \notin resting'
    <3>1. CASE k = n
      <4>1. RestedBy(booked, acts, acts[n].id)
        BY <1>4 DEF IInv, RestedOk
      <4>2. acts[n].gateway = "retired" => acts[n].id \notin resting
        BY DEF IInv, GoneOk
      <4>3. QED
        BY <1>2, <1>3, <1>9, <3>1, <4>1, <4>2
    <3>2. CASE k # n
      <4>1. acts[k].gateway \in {"retired", "refused"} /\ acts'[k].id = acts[k].id
        BY <1>3, <2>1, <3>2
      <4>2. RestedBy(booked, acts, acts[k].id) /\ acts[k].id \notin resting
        BY <4>1 DEF IInv, RestedOk, GoneOk, Unused
      <4>3. QED
        BY <1>9, <4>1, <4>2
    <3>3. QED
      BY <3>1, <3>2
  <2>2. said.what = "refused" => RestedBy(booked', acts', said.id) /\ said.id \notin resting'
    BY <1>6, <1>9 DEF IInv, GoneOk
  <2>3. QED
    BY <1>1, <2>1, <2>2 DEF GoneOk
<1>11. SaidOk'
  <2> SUFFICES ASSUME NEW m \in Acts, acts'[m].reply \in {"loading", "over"},
                      acts'[m].gateway # "done", ~acts'[m].blind,
                      \A k \in Acts \ {m} : acts'[k] = Unused
               PROVE  said.what # "nothing"
    BY <1>1 DEF SaidOk
  <2>1. m = n
    BY <1>4
  <2>2. \A k \in Acts \ {n} : acts[k] = Unused
    BY <1>3, <2>1
  <2>3. acts[n].reply \in {"loading", "over"} /\ acts[n].gateway # "done" /\ ~acts[n].blind
    BY <1>2, <1>3, <2>1
  <2>4. QED
    BY <2>2, <2>3 DEF IInv, SaidOk
<1>12. QED
  BY <1>5, <1>8, <1>10, <1>11

\* A lost answer, one that never comes, or a request lost on its way, ends nothing the
\* gateway carried out.
LEMMA ActFailsStep ==
  ASSUME IInv, NEW n \in Acts, ActFails(n)
  PROVE  Shape' /\ RestedOk' /\ GoneOk' /\ SaidOk'
<1> USE DEF ticketVars, gatewayVars
<1>1. PICK left \in {"none", acts[n].gateway}, reply \in {"lost", "hung"} :
        /\ left # acts[n].gateway => acts[n].gateway = "sent"
        /\ acts' = [acts EXCEPT ![n].reply = reply, ![n].gateway = left]
  BY DEF ActFails
<1>2. /\ UNCHANGED <<ticketVars, gatewayVars, rows, listing, busyRow, said>>
      /\ acts[n].reply = "due" /\ events' \in 0..MaxEvents
  BY OrderEntryAssumption DEF ActFails, Event, IInv, Shape, TypeOK
<1>3. /\ acts'[n].gateway = left /\ acts'[n].id = acts[n].id /\ acts'[n].reply = reply
      /\ \A k \in Acts \ {n} : acts'[k] = acts[k]
  BY <1>1 DEF IInv, Shape, TypeOK
<1>4. acts' \in [Acts -> ActRecord]
  <2>1. left \in {"none", "sent", "retired", "done", "refused", "gone"}
    BY <1>1 DEF IInv, Shape, TypeOK
  <2>2. acts' = [acts EXCEPT ![n] = [@ EXCEPT !.reply = reply, !.gateway = left]]
    BY <1>1 DEF IInv, Shape, TypeOK
  <2>3. \A a \in ActRecord : [a EXCEPT !.reply = reply, !.gateway = left] \in ActRecord
    BY <2>1 DEF ActRecord
  <2>4. acts \in [Acts -> ActRecord]
    BY DEF IInv, Shape, TypeOK, ActRecord
  <2>5. QED
    BY <2>2, <2>3, <2>4
<1>5. Shape'
  BY <1>2, <1>4 DEF IInv, Shape, TypeOK, ActRecord
<1>6. \A id : RestedBy(booked, acts, id) => RestedBy(booked', acts', id)
  BY <1>1, <1>2, <1>3, RestedStays
<1>7. RestedOk'
  <2>1. acts[n] # Unused
    BY <1>2 DEF Unused
  <2>2. \A k \in Acts : acts'[k] # Unused => acts[k] # Unused /\ acts'[k].id = acts[k].id
    BY <1>3, <2>1
  <2>3. QED
    BY <1>2, <1>6, <2>2 DEF IInv, RestedOk
<1>8. GoneOk'
  <2>1. \A k \in Acts : /\ acts'[k].id = acts[k].id
                        /\ acts'[k].gateway \in {"retired", "refused"}
                             => acts[k].gateway \in {"retired", "refused"}
    BY <1>1, <1>3
  <2>2. QED
    BY <1>2, <1>6, <2>1 DEF IInv, GoneOk
<1>9. SaidOk'
  <2>1. acts'[n] # Unused
    BY <1>3 DEF Unused
  <2>2. QED
    BY <1>3, <2>1 DEF SaidOk
<1>10. QED
  BY <1>5, <1>7, <1>8, <1>9

\* An answer that is not what was asked for is said as it is read.
LEMMA ActReturnsStep ==
  ASSUME IInv, NEW n \in Acts, ActReturns(n)
  PROVE  Shape' /\ RestedOk' /\ GoneOk' /\ SaidOk'
<1> USE DEF ticketVars, gatewayVars
<1>1. /\ UNCHANGED <<ticketVars, gatewayVars, rows, events>>
      /\ acts[n].reply \in {"due", "lost"}
  BY DEF ActReturns
<1>2. PICK reply \in {"loading", "over"} : acts' = [acts EXCEPT ![n].reply = reply]
  BY DEF ActReturns
<1>3. listing' = listing \/ listing' = Asking(listing)
  BY DEF ActReturns
<1>4. busyRow' = busyRow \/ busyRow' = Nothing
  BY DEF ActReturns
<1>5. \/ said' = Silent /\ acts[n].gateway = "done"
      \/ said' = [what |-> "refused", id |-> acts[n].id] /\ acts[n].gateway = "refused"
      \/ said' = [what |-> "error", id |-> acts[n].id]
  BY DEF ActReturns
<1>6. /\ acts'[n].gateway = acts[n].gateway /\ acts'[n].id = acts[n].id
      /\ acts'[n].reply = reply /\ \A k \in Acts \ {n} : acts'[k] = acts[k]
  BY <1>2 DEF IInv, Shape, TypeOK
<1>7. acts[n] # Unused /\ acts'[n] # Unused
  BY <1>1, <1>6 DEF Unused
<1>8. /\ listing' \in [at : {"idle", "asked", "read"}, saw : SUBSET Ids]
      /\ listing'.saw = listing.saw
  BY <1>3 DEF Asking, IInv, Shape
<1>9. Shape'
  <2>1. acts' \in [Acts -> ActRecord]
    BY <1>2 DEF IInv, Shape, TypeOK, ActRecord
  <2>2. acts[n].id \in Ids \cup {Nothing}
    BY DEF IInv, Shape, TypeOK
  <2>3. said' \in [what : {"nothing", "error", "refused"}, id : Ids \cup {Nothing}]
    BY <1>5, <2>2 DEF Silent
  <2>4. listing'.at \in {"idle", "asked", "read"} /\ listing'.saw \subseteq Ids
        /\ said'.what \in {"nothing", "error", "refused"}
    BY <1>8, <2>3
  <2>5. busyRow' \in Ids \cup {Nothing}
    BY <1>4 DEF IInv, Shape, TypeOK
  <2>6. QED
    BY <1>1, <1>8, <2>1, <2>3, <2>4, <2>5 DEF IInv, Shape, TypeOK, ActRecord
<1>10. \A id : RestedBy(booked, acts, id) => RestedBy(booked', acts', id)
  BY <1>1, <1>6, RestedStays
<1>11. RestedOk'
  BY <1>1, <1>6, <1>7, <1>8, <1>10 DEF IInv, RestedOk
<1>12. GoneOk'
  <2>1. RestedBy(booked, acts, acts[n].id)
    BY <1>7 DEF IInv, RestedOk
  <2>2. acts[n].gateway = "refused" => acts[n].id \notin resting
    BY DEF IInv, GoneOk
  <2>3. said'.what = "refused" => RestedBy(booked', acts', said'.id) /\ said'.id \notin resting'
    BY <1>1, <1>5, <1>10, <2>1, <2>2 DEF Silent
  <2>4. QED
    BY <1>1, <1>6, <2>3 DEF IInv, GoneOk
<1>13. SaidOk'
  <2> SUFFICES ASSUME NEW m \in Acts, acts'[m].gateway # "done",
                      \A k \in Acts \ {m} : acts'[k] = Unused
               PROVE  said'.what # "nothing"
    BY DEF SaidOk
  <2>1. m = n
    BY <1>7
  <2>2. QED
    BY <1>5, <1>6, <2>1
<1>14. QED
  BY <1>9, <1>11, <1>12, <1>13

\* A good status whose body is unreadable ends the wait, says nothing, and is marked so.
LEMMA ActReturnsBlindStep ==
  ASSUME IInv, NEW n \in Acts, ActReturnsBlind(n)
  PROVE  Shape' /\ RestedOk' /\ GoneOk' /\ SaidOk'
<1> USE DEF ticketVars, gatewayVars
<1>1. /\ UNCHANGED <<ticketVars, gatewayVars, rows, busyRow>>
      /\ acts[n].reply = "due" /\ said' = Silent /\ listing' = Asking(listing)
      /\ acts' = [acts EXCEPT ![n].reply = "loading", ![n].blind = TRUE]
      /\ events' \in 0..MaxEvents
  BY OrderEntryAssumption DEF ActReturnsBlind, Event, IInv, Shape, TypeOK
<1>2. /\ acts'[n].gateway = acts[n].gateway /\ acts'[n].id = acts[n].id
      /\ acts'[n].reply = "loading" /\ acts'[n].blind
      /\ \A k \in Acts \ {n} : acts'[k] = acts[k]
  BY <1>1 DEF IInv, Shape, TypeOK
<1>3. acts[n] # Unused /\ acts'[n] # Unused
  <2>1. acts[n].reply = "due" /\ acts'[n].reply = "loading"
    BY <1>1, <1>2
  <2>2. QED
    BY <2>1 DEF Unused
<1>4. /\ listing' \in [at : {"idle", "asked", "read"}, saw : SUBSET Ids]
      /\ listing'.saw = listing.saw
  BY <1>1 DEF Asking, IInv, Shape
<1>5. Shape'
  <2>1. acts' \in [Acts -> ActRecord]
    <3>1. acts' = [acts EXCEPT ![n] = [@ EXCEPT !.reply = "loading", !.blind = TRUE]]
      BY <1>1 DEF IInv, Shape, TypeOK
    <3>2. \A a \in ActRecord : [a EXCEPT !.reply = "loading", !.blind = TRUE] \in ActRecord
      BY DEF ActRecord
    <3>3. acts \in [Acts -> ActRecord]
      BY DEF IInv, Shape, TypeOK, ActRecord
    <3>4. QED
      BY <3>1, <3>2, <3>3
  <2>2. said' \in [what : {"nothing", "error", "refused"}, id : Ids \cup {Nothing}]
        /\ said'.what = "nothing"
    BY <1>1 DEF Silent
  <2>3. listing'.at \in {"idle", "asked", "read"} /\ listing'.saw \subseteq Ids
    BY <1>4
  <2>4. QED
    BY <1>1, <1>4, <2>1, <2>2, <2>3 DEF IInv, Shape, TypeOK, ActRecord
<1>6. \A id : RestedBy(booked, acts, id) => RestedBy(booked', acts', id)
  BY <1>1, <1>2, RestedStays
<1>7. RestedOk'
  BY <1>1, <1>2, <1>3, <1>4, <1>6 DEF IInv, RestedOk
<1>8. GoneOk'
  <2>1. \A k \in Acts : acts'[k].id = acts[k].id /\ acts'[k].gateway = acts[k].gateway
    BY <1>2
  <2>2. said'.what # "refused" /\ resting' = resting
    BY <1>1 DEF Silent
  <2>3. QED
    BY <2>1, <2>2 DEF IInv, GoneOk
<1>9. SaidOk'
  <2> SUFFICES ASSUME NEW m \in Acts, ~acts'[m].blind, \A k \in Acts \ {m} : acts'[k] = Unused
               PROVE  FALSE
    BY DEF SaidOk
  <2>1. m = n
    BY <1>3
  <2>2. QED
    BY <1>2, <2>1
<1>10. QED
  BY <1>5, <1>7, <1>8, <1>9

\* Reading the list again changes no action's outcome; what it read did rest.
LEMMA ListStep ==
  ASSUME IInv, Poll \/ GatewayLists \/ ListSettles \/ OrderLeaves
  PROVE  Shape' /\ RestedOk' /\ GoneOk' /\ SaidOk'
<1> USE DEF ticketVars, gatewayVars, panelVars
<1>1. CASE Poll \/ GatewayLists
  <2>1. UNCHANGED <<ticketVars, gatewayVars, rows, acts, busyRow, said, events>>
    BY <1>1 DEF Poll, GatewayLists
  <2>2. /\ listing' \in [at : {"idle", "asked", "read"}, saw : SUBSET Ids]
        /\ listing'.saw \in {listing.saw, resting}
    BY <1>1 DEF Poll, GatewayLists, Asking, IInv, Shape, TypeOK
  <2>3. Shape'
    BY <2>1, <2>2 DEF IInv, Shape, TypeOK
  <2>4. \A id : RestedBy(booked, acts, id) => RestedBy(booked', acts', id)
    BY <2>1, RestedStays
  <2>5. QED
    BY <2>1, <2>2, <2>3, <2>4 DEF IInv, RestedOk, GoneOk, SaidOk
<1>2. CASE OrderLeaves
  <2>1. /\ UNCHANGED <<ticketVars, inbound, booked, seen, panelVars>> /\ resting' \subseteq resting
        /\ events' \in 0..MaxEvents
    BY <1>2, OrderEntryAssumption DEF OrderLeaves, Event, IInv, Shape, TypeOK
  <2>2. Shape'
    BY <2>1 DEF IInv, Shape, TypeOK
  <2>3. \A id : RestedBy(booked, acts, id) => RestedBy(booked', acts', id)
    BY <2>1, RestedStays
  <2>4. QED
    BY <2>1, <2>2, <2>3 DEF IInv, RestedOk, GoneOk, SaidOk
<1>3. CASE ListSettles
  <2>1. /\ UNCHANGED <<ticketVars, gatewayVars, said>> /\ listing' = Idle
        /\ rows' \in {rows, listing.saw, {}} /\ events' \in 0..MaxEvents
        /\ busyRow' \in {busyRow, Nothing}
        /\ acts' = [n \in Acts |-> IF acts[n].reply = "loading"
                                   THEN [acts[n] EXCEPT !.reply = "over"] ELSE acts[n]]
    BY <1>3, OrderEntryAssumption DEF ListSettles, Event, IInv, Shape, TypeOK
  <2>2. ASSUME NEW n \in Acts
        PROVE  /\ acts'[n] \in ActRecord
               /\ acts'[n].id = acts[n].id /\ acts'[n].gateway = acts[n].gateway
               /\ acts'[n].blind = acts[n].blind
               /\ acts'[n].reply \in {"loading", "over"} => acts[n].reply \in {"loading", "over"}
               /\ acts'[n] = Unused <=> acts[n] = Unused
    <3>1. acts[n] \in ActRecord
      BY DEF IInv, Shape, TypeOK, ActRecord
    <3>2. CASE acts[n].reply = "loading"
      <4>1. acts'[n] = [acts[n] EXCEPT !.reply = "over"]
        BY <2>1, <3>2
      <4>2. /\ acts'[n] \in ActRecord /\ acts'[n].reply = "over"
            /\ acts'[n].id = acts[n].id /\ acts'[n].gateway = acts[n].gateway
            /\ acts'[n].blind = acts[n].blind
        BY <3>1, <4>1 DEF ActRecord
      <4>3. acts[n] # Unused /\ acts'[n] # Unused
        BY <3>2, <4>2 DEF Unused
      <4>4. QED
        BY <3>2, <4>2, <4>3
    <3>3. CASE acts[n].reply # "loading"
      BY <2>1, <3>1, <3>3
    <3>4. QED
      BY <3>2, <3>3
  <2>3. listing' \in [at : {"idle", "asked", "read"}, saw : SUBSET Ids] /\ listing'.saw = {}
    BY <2>1 DEF Idle
  <2>4. acts' \in [Acts -> ActRecord]
    BY <2>1, <2>2
  <2>5. Shape'
    BY <2>1, <2>3, <2>4 DEF IInv, Shape, TypeOK
  <2>6. \A id : RestedBy(booked, acts, id) => RestedBy(booked', acts', id)
    BY <2>1, <2>2, RestedStays
  <2>7. RestedOk'
    BY <2>1, <2>2, <2>3, <2>6 DEF IInv, RestedOk
  <2>8. GoneOk'
    BY <2>1, <2>2, <2>6 DEF IInv, GoneOk
  <2>9. SaidOk'
    BY <2>1, <2>2 DEF IInv, SaidOk
  <2>10. QED
    BY <2>5, <2>7, <2>8, <2>9
<1>4. QED
  BY <1>1, <1>2, <1>3

-----------------------------------------------------------------------------
(* Every step *)

\* The invariant holds at the start.
LEMMA InvInit == Init => IInv
<1> SUFFICES ASSUME Init PROVE IInv
  OBVIOUS
<1>1. Shape
  BY OrderEntryAssumption DEF Init, Shape, TypeOK, Idle, Silent, Unused
<1>2. TicketOk /\ OnceOk /\ ShownOk
  BY DEF Init, TicketOk, OnceOk, ShownOk
<1>3. RestedOk /\ GoneOk /\ SaidOk
  BY DEF Init, RestedOk, GoneOk, SaidOk, Idle, Silent, Unused
<1>4. QED
  BY <1>1, <1>2, <1>3 DEF IInv

\* Every step keeps the invariant.
LEMMA InvStep == IInv /\ [Next]_vars => IInv'
<1> SUFFICES ASSUME IInv, [Next]_vars PROVE IInv'
  OBVIOUS
<1> USE DEF gatewayVars
<1>1. ASSUME Shape' /\ TicketOk' /\ OnceOk' /\ ShownOk', UNCHANGED <<booked, resting, panelVars>>
      PROVE  IInv'
  BY <1>1, PanelStands DEF IInv
<1>2. ASSUME Shape' /\ RestedOk' /\ GoneOk' /\ SaidOk', UNCHANGED <<ticketVars, inbound, booked>>
      PROVE  IInv'
  BY <1>2, TicketStands DEF IInv
<1>3. CASE Press
  BY <1>1, <1>3, PressStep DEF Press
<1>4. CASE DecisionArrives \/ VerdictUnread
  <2>1. hop = "decided" /\ Current \in Orders
    BY <1>4, CurrentIsOrder DEF DecisionArrives, VerdictUnread, IInv
  <2>2. UNCHANGED <<intent, gatewayVars, panelVars>> /\ events' \in 0..MaxEvents
    BY <1>4, OrderEntryAssumption DEF DecisionArrives, VerdictUnread, Event, IInv, Shape, TypeOK
  <2>3. PICK shown \in SUBSET Orders, blank \in SUBSET Orders :
          /\ shown \cup blank = ticket.shown \cup ticket.blank \cup {Current}
          /\ BurstGoesOn(shown, blank)
    <3>1. ticket.shown \subseteq Orders /\ ticket.blank \subseteq Orders
      BY DEF IInv, Shape, TypeOK
    <3>2. CASE DecisionArrives
      BY <2>1, <3>1, <3>2 DEF DecisionArrives
    <3>3. CASE VerdictUnread
      BY <2>1, <3>1, <3>3 DEF VerdictUnread
    <3>4. QED
      BY <1>4, <3>2, <3>3
  <2>4. QED
    BY <1>1, <2>1, <2>2, <2>3, DecisionStep
<1>5. CASE FailureArrives
  <2>1. /\ hop # "none" /\ Stopped("failure") /\ UNCHANGED <<intent, gatewayVars, panelVars>>
        /\ events' \in 0..MaxEvents
    BY <1>5 DEF FailureArrives, IInv, Shape, TypeOK
  <2>2. QED
    BY <1>1, <2>1, StoppedStep
<1>6. CASE ConnectionBreaks
  <2>1. /\ hop # "none" /\ Stopped("unsent") /\ UNCHANGED <<intent, gatewayVars, panelVars>>
        /\ events' \in 0..MaxEvents
    BY <1>6, OrderEntryAssumption DEF ConnectionBreaks, Event, IInv, Shape, TypeOK
  <2>2. QED
    BY <1>1, <2>1, StoppedStep
<1>7. CASE BrowserTimesOut
  <2>1. /\ hop # "none" /\ Stopped("timeout") /\ UNCHANGED <<intent, gatewayVars, panelVars>>
        /\ events' \in 0..MaxEvents
    BY <1>7, OrderEntryAssumption DEF BrowserTimesOut, Event, IInv, Shape, TypeOK
  <2>2. QED
    BY <1>1, <2>1, StoppedStep
<1>8. CASE RequestLost \/ RouteForwards \/ TransportFails \/ RouteTimesOut
  BY <1>1, <1>8, RequestStep DEF RequestLost, RouteForwards, TransportFails, RouteTimesOut
<1>9. ASSUME NEW o \in Orders, GatewayDecides(o) PROVE IInv'
  BY <1>9, DecideStep
<1>10. CASE OrderLeaves \/ Poll \/ GatewayLists \/ ListSettles
  BY <1>2, <1>10, ListStep DEF OrderLeaves, Poll, GatewayLists, ListSettles
<1>11. ASSUME NEW n \in Acts, NEW kind \in {"cancel", "amend"}, Click(n, kind) PROVE IInv'
  BY <1>2, <1>11, ClickStep DEF Click
<1>12. ASSUME NEW n \in Acts, GatewayActs(n) PROVE IInv'
  BY <1>2, <1>12, GatewayActsStep DEF GatewayActs
<1>13. ASSUME NEW n \in Acts, ActFails(n) PROVE IInv'
  BY <1>2, <1>13, ActFailsStep DEF ActFails
<1>14. ASSUME NEW n \in Acts, ActReturns(n) \/ ActReturnsBlind(n) PROVE IInv'
  BY <1>2, <1>14, ActReturnsStep, ActReturnsBlindStep DEF ActReturns, ActReturnsBlind
<1>15. CASE UNCHANGED vars
  <2>1. UNCHANGED <<ticketVars, inbound, booked>> /\ UNCHANGED <<booked, resting, panelVars>>
    BY <1>15 DEF vars
  <2>2. Shape'
    BY <1>15 DEF vars, ticketVars, panelVars, IInv, Shape, TypeOK
  <2>3. QED
    BY <2>1, <2>2, TicketStands, PanelStands DEF IInv
<1>16. QED
  BY <1>3, <1>4, <1>5, <1>6, <1>7, <1>8, <1>9, <1>10, <1>11, <1>12, <1>13, <1>14, <1>15 DEF Next

\* The invariant holds in every reachable state.
LEMMA InvHolds == Spec => []IInv
  BY InvInit, InvStep, PTL DEF Spec

\* No order the ticket sends once is accepted twice, with or without a client id, whatever
\* is lost, late or broken between the browser and the gateway (OrderTicket.submit, the
\* orders route, gatewayFetch).
THEOREM OrdersAreAcceptedOnce == Spec => []AcceptedOnce
<1>1. IInv => AcceptedOnce
  <2> SUFFICES ASSUME IInv, NEW o \in Orders PROVE booked[o] <= 1
    BY DEF IInv, Shape, AcceptedOnce
  <2> DEFINE sent == inbound[o]
             accepted == booked[o]
  <2>1. sent \in 0..2 /\ accepted \in 0..2 /\ sent + accepted <= 1
    BY DEF IInv, Shape, TypeOK, OnceOk
  <2> HIDE DEF sent, accepted
  <2>2. accepted <= 1
    BY <2>1
  <2>3. QED
    BY <2>2 DEF accepted
<1>2. QED
  BY <1>1, InvHolds, PTL

\* A ticket at rest accounts for its burst: whatever the gateway accepted, or may still
\* accept, is on screen, but for the one order an error on screen stands for, and for the
\* orders whose good answer could not be read, which are collected blank and shown as
\* rejections (OrderTicket.tsx:189, :198).
THEOREM DoubtIsAlwaysShown == Spec => []DoubtIsShown
<1>1. IInv => DoubtIsShown
  <2> SUFFICES ASSUME IInv, ~ticket.busy, NEW i \in 1..MaxBurst, ticket.press > 0,
                      booked[<<ticket.press, i>>] + inbound[<<ticket.press, i>>] > 0
               PROVE  \/ <<ticket.press, i>> \in ticket.shown \cup ticket.blank
                      \/ <<ticket.press, i>> = Current /\ ticket.doubt # "none"
    BY DEF DoubtIsShown
  <2>1. QED
    BY DEF IInv, ShownOk, Current
<1>2. QED
  BY <1>1, InvHolds, PTL

\* An amendment the gates refused after it had pulled its order is said, unless the body of
\* the answer could not be read (WorkingOrders.tsx:161), and what the panel calls refused and
\* gone never rests again (WorkingOrders.mutate).
THEOREM LossIsAlwaysSaid == Spec => []LossIsSaid
<1>1. IInv => LossIsSaid
  BY DEF IInv, GoneOk, SaidOk, LossIsSaid
<1>2. QED
  BY <1>1, InvHolds, PTL

=============================================================================
