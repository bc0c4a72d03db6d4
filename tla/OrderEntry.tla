----------------------------- MODULE OrderEntry -----------------------------
(***************************************************************************)
(* How an order travels from the web desk to the gateway: the ticket            *)
(* (components/execution/OrderTicket.tsx) sends a burst one request after        *)
(* another through the order route (app/api/gateway/orders/route.ts) and the      *)
(* gateway boundary (lib/gateway.ts), and the working-orders panel                 *)
(* (components/portfolio/WorkingOrders.tsx) cancels and amends what rests.          *)
(* The gateway is what its handlers promise: RiskGateway models its gates.          *)
(***************************************************************************)
EXTENDS Integers, FiniteSets

CONSTANTS
  Traced,      \* the ticket carries an experiment id, so its orders carry client ids
  MaxPresses,  \* bound on submits of the ticket
  MaxBurst,    \* the orders of a burst preset
  MaxActs,     \* bound on cancels and amendments
  MaxClicks,   \* bound on submits, cancels and amendments together
  MaxEvents    \* bound on lost requests, lost replies and deadlines that race an answer

ASSUME OrderEntryAssumption ==
  /\ Traced \in BOOLEAN
  /\ MaxPresses \in Nat \ {0} /\ MaxBurst \in Nat \ {0}
  /\ {MaxActs, MaxClicks, MaxEvents} \subseteq Nat

\* An order is its press and its place in the burst; a replacement has press 0.
Orders == (1..MaxPresses) \X (1..MaxBurst)
Acts == 1..MaxActs
Ids == Orders \cup ({0} \X Acts)
Nothing == <<0, 0>>

VARIABLES
  ticket,   \* the press, its burst, the decisions, the blank ones and the error on screen
  intent,   \* per press: the intention it carries out, shared with a deliberate retry
  hop,      \* where the request the ticket waits for is
  inbound,  \* per order: requests on their way to the gateway
  booked,   \* per order: how often the gateway accepted it
  seen,     \* the client ids the gateway knows
  resting,  \* the gateway's working orders
  rows,     \* the panel's list
  listing,  \* the list's request: idle, asked, or what it read
  acts,     \* per cancel or amendment: its order, what the gateway did, what came back and
            \* whether its body was unreadable (blind)
  busyRow,  \* the row whose buttons are disabled
  said,     \* what the panel says of an action
  events    \* bounded events so far

ticketVars == <<ticket, intent, hop>>
gatewayVars == <<inbound, booked, seen, resting>>
panelVars == <<rows, listing, acts, busyRow, said>>
vars == <<ticketVars, gatewayVars, panelVars, events>>

Idle == [at |-> "idle", saw |-> {}]
Unused == [kind |-> "none", id |-> Nothing, gateway |-> "none", reply |-> "none", blind |-> FALSE]
Silent == [what |-> "nothing", id |-> Nothing]

TypeOK ==
  /\ ticket \in [busy : BOOLEAN, press : 0..MaxPresses, sent : 0..MaxBurst, count : 0..MaxBurst,
                 shown : SUBSET Orders, blank : SUBSET Orders,
                 doubt : {"none", "failure", "timeout", "unsent"}]
  /\ intent \in [1..MaxPresses -> 0..MaxPresses]
  /\ hop \in {"none", "route", "lost", "gateway", "decided", "failed"}
  /\ inbound \in [Orders -> 0..2] /\ booked \in [Orders -> 0..2] /\ seen \subseteq Orders
  /\ resting \subseteq Ids /\ rows \subseteq Ids
  /\ listing.at \in {"idle", "asked", "read"} /\ listing.saw \subseteq Ids
  /\ acts \in [Acts -> [kind : {"none", "cancel", "amend"}, id : Ids \cup {Nothing},
                        gateway : {"none", "sent", "retired", "done", "refused", "gone"},
                        reply : {"none", "due", "lost", "hung", "loading", "over"},
                        blind : BOOLEAN]]
  /\ busyRow \in Ids \cup {Nothing} /\ said.what \in {"nothing", "error", "refused"}
  /\ events \in 0..MaxEvents

Event == events < MaxEvents /\ events' = events + 1
Clicks == ticket.press + Cardinality({n \in Acts : acts[n] # Unused})
Current == <<ticket.press, ticket.sent>>

(*** The ticket *************************************************************)

\* submit: the first order of a burst, or a single one. A single order that ran into the
\* ticket's deadline may be pressed again on purpose.
Press ==
  /\ ~ticket.busy /\ ticket.press < MaxPresses /\ Clicks < MaxClicks
  /\ \E count \in {1, MaxBurst}, retry \in BOOLEAN :
       /\ retry => ticket.doubt = "timeout" /\ ticket.count = 1 /\ count = 1
       /\ ticket' = [busy |-> TRUE, press |-> ticket.press + 1, sent |-> 1, count |-> count,
                     shown |-> {}, blank |-> {}, doubt |-> "none"]
       /\ intent' = [intent EXCEPT ![ticket.press + 1] = IF retry THEN intent[ticket.press] ELSE ticket.press + 1]
  /\ hop' = "route"
  /\ UNCHANGED <<gatewayVars, panelVars, events>>

\* A refusal that skips to the burst's next order.
StoppedNever(doubt) ==
  IF ticket.sent < ticket.count
  THEN ticket' = [ticket EXCEPT !.sent = @ + 1] /\ hop' = "route"
  ELSE ticket' = [ticket EXCEPT !.busy = FALSE, !.doubt = doubt] /\ hop' = "none"

\* Anything but a decision ends the burst, and the ticket says so.
Stopped(doubt) == ticket' = [ticket EXCEPT !.busy = FALSE, !.doubt = doubt] /\ hop' = "none"

\* What was collected so far is kept, and the next order of the burst goes out.
BurstGoesOn(shown, blank) ==
  /\ ticket' = [ticket EXCEPT !.shown = shown, !.blank = blank, !.busy = ticket.sent < ticket.count,
                              !.sent = IF ticket.sent < ticket.count THEN @ + 1 ELSE @]
  /\ hop' = IF ticket.sent < ticket.count THEN "route" ELSE "none"

DecisionArrives ==
  /\ hop = "decided" /\ BurstGoesOn(ticket.shown \cup {Current}, ticket.blank)
  /\ UNCHANGED <<intent, gatewayVars, panelVars, events>>

\* A good status whose body breaks off, or is cut by the deadline, is collected as a decision
\* without fields, which the screen reads as a rejection.
VerdictUnread ==
  /\ hop = "decided" /\ Event /\ BurstGoesOn(ticket.shown, ticket.blank \cup {Current})
  /\ UNCHANGED <<intent, gatewayVars, panelVars>>

FailureArrives ==
  /\ hop = "failed" /\ Stopped("failure")
  /\ UNCHANGED <<intent, gatewayVars, panelVars, events>>

\* The connection breaks before the headers of an answer.
ConnectionBreaks ==
  /\ hop # "none" /\ Event /\ Stopped("unsent")
  /\ UNCHANGED <<intent, gatewayVars, panelVars>>

\* A ticket without a deadline.
BrowserWaits == FALSE /\ UNCHANGED vars

\* ORDER_TIMEOUT_MS, longer than the route's own deadline.
BrowserTimesOut ==
  /\ hop \in {"route", "lost", "gateway"}
  /\ IF hop = "lost" THEN UNCHANGED events ELSE Event
  /\ Stopped("timeout")
  /\ UNCHANGED <<intent, gatewayVars, panelVars>>

(*** The route and the gateway **********************************************)

RequestLost ==
  /\ hop = "route" /\ Event /\ hop' = "lost"
  /\ UNCHANGED <<ticket, intent, gatewayVars, panelVars>>

\* POST: an order that parses, with a quote where it needs one, is forwarded once.
RouteForwards ==
  /\ hop = "route"
  /\ \/ hop' = "failed" /\ UNCHANGED inbound
     \/ hop' = "gateway" /\ inbound' = [inbound EXCEPT ![Current] = @ + 1]
  /\ UNCHANGED <<ticket, intent, booked, seen, resting, panelVars, events>>

\* A failed transport that tries the recovery ingress as a read would.
TransportFailsOver ==
  /\ hop = "gateway" /\ Event
  /\ hop' = "gateway" /\ inbound' = [inbound EXCEPT ![Current] = @ + 1]
  /\ UNCHANGED <<ticket, intent, booked, seen, resting, panelVars>>

\* The transport fails, before or after the order reached the gateway. An order is not sent
\* again through the recovery ingress.
TransportFails ==
  /\ hop = "gateway" /\ Event
  /\ hop' = "failed" /\ inbound' \in {inbound, [inbound EXCEPT ![Current] = 0]}
  /\ UNCHANGED <<ticket, intent, booked, seen, resting, panelVars>>

\* The route's budget ends before the gateway's answer.
RouteTimesOut ==
  /\ hop = "gateway" /\ Event /\ hop' = "failed"
  /\ UNCHANGED <<ticket, intent, gatewayVars, panelVars>>

\* The gateway's gates accept or reject, a client id seen before is a duplicate, and an
\* accepted limit order may come to rest.
GatewayDecides(o) ==
  /\ inbound[o] > 0 /\ inbound' = [inbound EXCEPT ![o] = @ - 1]
  /\ \/ UNCHANGED <<booked, seen, resting>>
     \/ /\ o \notin seen
        /\ booked' = [booked EXCEPT ![o] = @ + 1]
        /\ seen' = seen \cup IF Traced THEN {o} ELSE {}
        /\ resting' \in {resting, resting \cup {o}}
  /\ hop' = IF hop = "gateway" /\ Current = o THEN "decided" ELSE hop
  /\ UNCHANGED <<ticket, intent, panelVars, events>>

\* The market takes a resting order, or its session ends.
OrderLeaves ==
  /\ Event
  /\ \E o \in resting : resting' = resting \ {o}
  /\ UNCHANGED <<ticketVars, inbound, booked, seen, panelVars>>

(*** The working-orders panel ***********************************************)

\* A click on a row whose buttons are not disabled.
Click(n, kind) ==
  /\ acts[n] = Unused /\ Clicks < MaxClicks /\ \A k \in 1..(n - 1) : acts[k] # Unused
  /\ \E o \in rows \ {busyRow} :
       /\ acts' = [acts EXCEPT ![n] = [kind |-> kind, id |-> o, gateway |-> "sent", reply |-> "due",
                                   blind |-> FALSE]]
       /\ busyRow' = o
  /\ UNCHANGED <<ticketVars, gatewayVars, rows, listing, said, events>>

Answered(n, what) == acts' = [acts EXCEPT ![n].gateway = what]

\* A cancel pulls the order. An amendment pulls it too, and then submits a new one,
\* which the gates may refuse.
GatewayActs(n) ==
  /\ \/ /\ acts[n].gateway = "sent" /\ acts[n].id \notin resting
        /\ Answered(n, "gone") /\ UNCHANGED resting
     \/ /\ acts[n].gateway = "sent" /\ acts[n].id \in resting
        /\ Answered(n, IF acts[n].kind = "cancel" THEN "done" ELSE "retired")
        /\ resting' = resting \ {acts[n].id}
     \/ /\ acts[n].gateway = "retired"
        /\ \/ Answered(n, "refused") /\ UNCHANGED resting
           \/ Answered(n, "done") /\ resting' \in {resting, resting \cup {<<0, n>>}}
  /\ UNCHANGED <<ticketVars, inbound, booked, seen, rows, listing, busyRow, said, events>>

\* The route's deadline or the network loses the answer, or the request on its way. The panel
\* learns of it, or its request, which has no deadline, never ends.
ActFails(n) ==
  /\ acts[n].reply = "due" /\ Event
  /\ \E unsent \in BOOLEAN, reply \in {"lost", "hung"} :
       /\ unsent => acts[n].gateway = "sent"
       /\ acts' = [acts EXCEPT ![n].reply = reply, ![n].gateway = IF unsent THEN "none" ELSE @]
  /\ UNCHANGED <<ticketVars, gatewayVars, rows, listing, busyRow, said>>

Asking(l) == IF l.at = "idle" THEN [l EXCEPT !.at = "asked"] ELSE l

\* An answer is read by its status alone.
ActReturnsTrusting(n) ==
  LET decided == acts[n].reply = "due" /\ acts[n].gateway \in {"done", "refused"}
  IN /\ decided \/ (acts[n].reply = "due" /\ acts[n].gateway = "gone") \/ acts[n].reply = "lost"
     /\ said' = IF decided THEN Silent ELSE [what |-> "error", id |-> acts[n].id]
     /\ IF decided
        THEN /\ acts' = [acts EXCEPT ![n].reply = "loading"] /\ listing' = Asking(listing)
             /\ UNCHANGED busyRow
        ELSE acts' = [acts EXCEPT ![n].reply = "over"] /\ busyRow' = Nothing /\ UNCHANGED listing
  /\ UNCHANGED <<ticketVars, gatewayVars, rows, events>>

\* mutate, once its answer is there: a refused replacement is said although the status is
\* good, and a decision either way reads the list again before the row is free.
ActReturns(n) ==
  LET decided == acts[n].reply = "due" /\ acts[n].gateway \in {"done", "refused"}
  IN /\ decided \/ (acts[n].reply = "due" /\ acts[n].gateway = "gone") \/ acts[n].reply = "lost"
     /\ said' = CASE ~decided -> [what |-> "error", id |-> acts[n].id]
                  [] decided /\ acts[n].gateway = "refused" -> [what |-> "refused", id |-> acts[n].id]
                  [] OTHER -> Silent
     /\ IF decided
        THEN /\ acts' = [acts EXCEPT ![n].reply = "loading"] /\ listing' = Asking(listing)
             /\ UNCHANGED busyRow
        ELSE acts' = [acts EXCEPT ![n].reply = "over"] /\ busyRow' = Nothing /\ UNCHANGED listing
  /\ UNCHANGED <<ticketVars, gatewayVars, rows, events>>

\* A good status whose body cannot be read passes for one without a decision: the error is
\* cleared and the list read again, whatever the gateway did.
ActReturnsBlind(n) ==
  /\ acts[n].reply = "due" /\ acts[n].gateway \in {"done", "refused"} /\ Event
  /\ said' = Silent /\ listing' = Asking(listing)
  /\ acts' = [acts EXCEPT ![n].reply = "loading", ![n].blind = TRUE]
  /\ UNCHANGED <<ticketVars, gatewayVars, rows, busyRow>>

\* The panel's loop, which no request of mutate holds up.
Poll ==
  /\ listing.at = "idle" /\ listing' = Asking(listing)
  /\ UNCHANGED <<ticketVars, gatewayVars, rows, acts, busyRow, said, events>>

GatewayLists ==
  /\ listing.at = "asked" /\ listing' = [at |-> "read", saw |-> resting]
  /\ UNCHANGED <<ticketVars, gatewayVars, rows, acts, busyRow, said, events>>

\* load ends for everyone who joined it: a measured list replaces the rows, a failure keeps
\* them, and a good status whose body is lost reads as an empty list.
ListSettles ==
  /\ \/ listing.at = "read" /\ rows' = listing.saw /\ UNCHANGED events
     \/ listing.at # "idle" /\ Event /\ rows' \in {rows, {}}
  /\ listing' = Idle
  /\ acts' = [n \in Acts |-> IF acts[n].reply = "loading" THEN [acts[n] EXCEPT !.reply = "over"] ELSE acts[n]]
  /\ busyRow' = IF \E n \in Acts : acts[n].reply = "loading" THEN Nothing ELSE busyRow
  /\ UNCHANGED <<ticketVars, gatewayVars, said>>

Init ==
  /\ ticket = [busy |-> FALSE, press |-> 0, sent |-> 0, count |-> 0, shown |-> {}, blank |-> {}, doubt |-> "none"]
  /\ intent = [p \in 1..MaxPresses |-> 0] /\ hop = "none"
  /\ inbound = [o \in Orders |-> 0] /\ booked = [o \in Orders |-> 0] /\ seen = {} /\ resting = {}
  /\ rows = {} /\ listing = Idle /\ acts = [n \in Acts |-> Unused]
  /\ busyRow = Nothing /\ said = Silent /\ events = 0

Next ==
  \/ Press \/ DecisionArrives \/ VerdictUnread \/ FailureArrives \/ ConnectionBreaks \/ BrowserTimesOut
  \/ RequestLost \/ RouteForwards \/ TransportFails \/ RouteTimesOut
  \/ \E o \in Orders : GatewayDecides(o)
  \/ OrderLeaves
  \/ \E n \in Acts : Click(n, "cancel") \/ Click(n, "amend") \/ GatewayActs(n) \/ ActFails(n)
       \/ ActReturns(n) \/ ActReturnsBlind(n)
  \/ Poll \/ GatewayLists \/ ListSettles

Spec == Init /\ [][Next]_vars

\* Handlers run, the ticket's deadline fires, the gateway answers and the panel's loop polls. An
\* answer on its way to the panel comes back unless its request hangs.
FairSpec ==
  /\ Spec
  /\ WF_vars(DecisionArrives \/ FailureArrives) /\ WF_vars(BrowserTimesOut)
  /\ WF_vars(RouteForwards)
  /\ \A o \in Orders : WF_vars(GatewayDecides(o))
  /\ \A n \in Acts : WF_vars(GatewayActs(n)) /\ WF_vars(ActReturns(n))
  /\ WF_vars(Poll) /\ WF_vars(GatewayLists) /\ WF_vars(ListSettles)

(*** Properties *************************************************************)

\* No order the ticket sends once is accepted twice, with a client id or without.
AcceptedOnce == TypeOK /\ \A o \in Orders : booked[o] <= 1

\* A ticket at rest accounts for its burst: what the gateway accepted is on screen, but for
\* the one order that an error on screen stands for, and for those whose good answer could not
\* be read, which the screen calls rejected (OrderTicket.tsx:189, OrderVerdict.tsx:132).
DoubtIsShown ==
  ~ticket.busy => \A i \in 1..MaxBurst :
    LET o == <<ticket.press, i>>
    IN ticket.press > 0 /\ booked[o] + inbound[o] > 0 =>
         o \in ticket.shown \cup ticket.blank \/ (o = Current /\ ticket.doubt # "none")

\* When an amendment of the only action so far was refused, its order gone, the panel says so
\* once the answer is there, unless the body of that answer could not be read
\* (WorkingOrders.tsx:161). And what it calls refused and gone does not rest.
LossIsSaid ==
  /\ \A n \in Acts :
       /\ acts[n].gateway = "refused" /\ acts[n].reply \in {"loading", "over"} /\ ~acts[n].blind
       /\ \A k \in Acts \ {n} : acts[k] = Unused
       => said.what # "nothing"
  /\ said.what = "refused" => said.id \notin resting

\* A row whose own request hangs.
HeldUp == \E n \in Acts : acts[n].reply = "hung" /\ acts[n].id = busyRow

\* A submitted ticket comes back to the trader, and the panel's list ends up as the gateway's
\* working book with its rows free again, but for the row of a request that never ends: the
\* panel's requests have no deadline (WorkingOrders.tsx:153).
PanelCatchesUp == <>[](~ticket.busy /\ rows = resting /\ (busyRow = Nothing \/ HeldUp))

\* "The gateway's idempotency gate makes a deliberate retry safe": an intention of one order
\* that is pressed again is accepted once.
RetryIsSafe ==
  \A p \in 1..MaxPresses, q \in 1..MaxPresses :
    p < q /\ intent[p] = intent[q] /\ intent[q] # 0 => booked[<<p, 1>>] + booked[<<q, 1>>] <= 1

=============================================================================
