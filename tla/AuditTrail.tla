----------------------------- MODULE AuditTrail -----------------------------
(***************************************************************************)
(* The audit rows the gateway produces under its lock and writes after it    *)
(* (risk_proxy/deferred_audit.py), with the handlers that queue and drain    *)
(* them: submit, cancel, the sweep, the monitor's roll, the kill switch, the *)
(* reset and the graceful stop.                                             *)
(*                                                                         *)
(* A handler queues its rows and swaps the whole queue into a batch of its   *)
(* own without suspending; it then awaits one worker thread per row.         *)
(* Drains of different handlers therefore interleave row by row.            *)
(***************************************************************************)
EXTENDS Integers, Sequences, SequencesExt, FiniteSets

CONSTANTS
  Orders,     \* orders the desk may take
  Requests,   \* API handlers in flight at once
  MaxHalts    \* bound on kill switch trips

ASSUME TrailAssumption == IsFiniteSet(Orders) /\ IsFiniteSet(Requests) /\ MaxHalts \in Nat

\* The background loops are coroutines of their own; Stopper is RiskGateway.stop.
Drainers == Requests \cup {"sweep", "monitor", "stopper"}

VARIABLES
  used,      \* orders that have been accepted
  resting,   \* orders on the resting book
  queue,     \* _deferred_audit
  batch,     \* per handler: the rows its drain has still to write
  doing,     \* per handler: "idle", "drain", or "halt" when trigger_kill drains
  stored,    \* how often each row is in the store
  dropped,   \* rows whose write failed
  switch,    \* kill.active
  trips,     \* how often the switch has been tripped
  told,      \* the last kill switch row of risk_events
  missed,    \* the last kill switch event failed to be written (_write_failures counts it)
  phase      \* "running", "stopping" or "stopped"

deskVars == <<used, resting>>
toldVars == <<told, missed>>
killVars == <<switch, trips, toldVars>>
vars == <<deskVars, queue, batch, doing, stored, dropped, killVars, phase>>

\* An order leaves two rows when it is retired, its outcome and the event, and one
\* event when it comes to rest.
Row == [order : Orders, what : {"rested", "outcome", "event"}]

RestRow(o) == [order |-> o, what |-> "rested"]
RetireRows(o) == <<[order |-> o, what |-> "outcome"], [order |-> o, what |-> "event"]>>

\* The rows of the orders of a set, retired in some order.
RetireAll(orders) ==
  [i \in 1..2 * Cardinality(orders) |->
     [order |-> SetToSeq(orders)[(i + 1) \div 2], what |-> IF i % 2 = 1 THEN "outcome" ELSE "event"]]

TypeOK ==
  /\ used \subseteq Orders /\ resting \subseteq used
  /\ queue \in Seq(Row)
  /\ batch \in [Drainers -> Seq(Row)]
  /\ doing \in [Drainers -> {"idle", "drain", "halt"}]
  /\ \A d \in Drainers : doing[d] = "idle" => batch[d] = <<>>
  /\ stored \in [Row -> Nat]
  /\ dropped \subseteq Row
  /\ switch \in BOOLEAN
  /\ trips \in 0..MaxHalts
  /\ told \in {"none", "engaged", "released"} /\ missed \in BOOLEAN
  /\ phase \in {"running", "stopping", "stopped"}

-----------------------------------------------------------------------------
(* Draining *)

Idle(d) == phase = "running" /\ doing[d] = "idle"

\* record_risk_event, called in place: the row is stored, or _exec swallows the failure
\* and counts it.
Record(event) ==
  \/ told' = event /\ missed' = FALSE
  \/ told' = told /\ missed' = TRUE

\* A drain that leaves the queue it copied in place.
DrainKeepingQueue(d, rows, why) ==
  /\ queue' = queue \o rows
  /\ batch' = [batch EXCEPT ![d] = queue \o rows]
  /\ doing' = [doing EXCEPT ![d] = IF queue \o rows = <<>> THEN "idle" ELSE why]
  /\ IF why = "halt" /\ queue \o rows = <<>> THEN Record("engaged") ELSE UNCHANGED toldVars

\* The end of a locked section: rows are queued, and the drain takes the whole queue
\* before anything else runs.  With nothing to write it does not suspend, and
\* trigger_kill records its event at once.
Drain(d, rows, why) ==
  /\ queue' = <<>>
  /\ batch' = [batch EXCEPT ![d] = queue \o rows]
  /\ doing' = [doing EXCEPT ![d] = IF queue \o rows = <<>> THEN "idle" ELSE why]
  /\ IF why = "halt" /\ queue \o rows = <<>> THEN Record("engaged") ELSE UNCHANGED toldVars

\* One row's worker thread finishes: the row is stored, or its failure is logged and
\* the row dropped.
Write(d) ==
  /\ phase # "stopped" /\ batch[d] # <<>>
  /\ batch' = [batch EXCEPT ![d] = Tail(@)]
  /\ \/ stored' = [stored EXCEPT ![Head(batch[d])] = @ + 1] /\ UNCHANGED dropped
     \/ dropped' = dropped \cup {Head(batch[d])} /\ UNCHANGED stored
  /\ UNCHANGED <<deskVars, queue, doing, killVars, phase>>

\* The handler resumes after its last row; trigger_kill records its event here.
Resume(d) ==
  /\ phase # "stopped" /\ doing[d] # "idle" /\ batch[d] = <<>>
  /\ doing' = [doing EXCEPT ![d] = "idle"]
  /\ IF doing[d] = "halt" THEN Record("engaged") ELSE UNCHANGED toldVars
  /\ UNCHANGED <<deskVars, queue, batch, stored, dropped, switch, trips, phase>>

-----------------------------------------------------------------------------
(* Handlers *)

\* submit, for an order that comes to rest; a session roll due before it retires the
\* whole book.
OrderRests(d, o) ==
  /\ Idle(d) /\ d \in Requests
  /\ o \notin used /\ ~switch
  /\ used' = used \cup {o}
  /\ \E rolled \in {{}, resting} :
       /\ resting' = (resting \ rolled) \cup {o}
       /\ Drain(d, Append(RetireAll(rolled), RestRow(o)), "drain")
  /\ UNCHANGED <<stored, dropped, switch, trips, phase>>

CancelWorking(d, o) ==
  /\ Idle(d) /\ d \in Requests
  /\ o \in resting
  /\ resting' = resting \ {o}
  /\ Drain(d, RetireRows(o), "drain")
  /\ UNCHANGED <<used, stored, dropped, switch, trips, phase>>

\* A sweep that only drains when it filled something.
SweepDrainsFills ==
  /\ Idle("sweep")
  /\ \E filled \in SUBSET resting :
       /\ filled # {}
       /\ resting' = resting \ filled
       /\ Drain("sweep", RetireAll(filled), "drain")
  /\ UNCHANGED <<used, stored, dropped, switch, trips, phase>>

\* One pass of the sweep, which drains whether it filled anything or not.
Sweep ==
  /\ Idle("sweep")
  /\ \E filled \in SUBSET resting :
       /\ resting' = resting \ filled
       /\ Drain("sweep", RetireAll(filled), "drain")
  /\ UNCHANGED <<used, stored, dropped, switch, trips, phase>>

\* The monitor's roll retires the whole book and does not drain: its rows wait for the
\* next handler that does.
MonitorRolls ==
  /\ Idle("monitor")
  /\ resting # {}
  /\ resting' = {}
  /\ queue' = queue \o RetireAll(resting)
  /\ UNCHANGED <<used, batch, doing, stored, dropped, killVars, phase>>

\* A trip that records its event only when it pulled orders.
TriggerKillQuiet(d) ==
  /\ Idle(d) /\ d # "stopper"
  /\ trips < MaxHalts
  /\ trips' = trips + 1
  /\ switch' = TRUE
  /\ resting' = {}
  /\ Drain(d, RetireAll(resting), IF resting = {} THEN "drain" ELSE "halt")
  /\ UNCHANGED <<used, stored, dropped, phase>>

\* trigger_kill, by a request or by the breaker: the flag and the book at once, then
\* the drain, and only after it the event.
TriggerKill(d) ==
  /\ Idle(d) /\ d # "stopper"
  /\ trips < MaxHalts
  /\ trips' = trips + 1
  /\ switch' = TRUE
  /\ resting' = {}
  /\ Drain(d, RetireAll(resting), "halt")
  /\ UNCHANGED <<used, stored, dropped, phase>>

\* release_kill clears the flag, set or not, and records it without suspending.
ReleaseKill(d) ==
  /\ Idle(d) /\ d \in Requests
  /\ switch' = FALSE
  /\ Record("released")
  /\ UNCHANGED <<deskVars, queue, batch, doing, stored, dropped, trips, phase>>

\* How often a row is in a sequence of rows.
Times(row, rows) == Cardinality({i \in 1..Len(rows) : rows[i] = row})

\* reset_book flushes its own rows, and any it finds queued, before it returns.
ResetBook(d) ==
  /\ Idle(d) /\ d \in Requests
  /\ resting' = {}
  /\ queue' = <<>>
  /\ LET rows == queue \o RetireAll(resting)
     IN \E failed \in SUBSET ToSet(rows) :
          /\ dropped' = dropped \cup failed
          /\ stored' = [r \in Row |-> stored[r] + IF r \in failed THEN 0 ELSE Times(r, rows)]
  /\ UNCHANGED <<used, batch, doing, killVars, phase>>

\* stop, once no request is in flight: both loops are cancelled, and a drain cancelled
\* under await finishes the row its thread holds and abandons the rest.  Orders still
\* resting are then cancelled and drained; with none, nothing drains.
Stop ==
  /\ phase = "running"
  /\ \A d \in Requests : doing[d] = "idle"
  /\ phase' = "stopping"
  /\ LET held == {d \in {"sweep", "monitor"} : batch[d] # <<>>}
         heads == {Head(batch[d]) : d \in held}
     IN \E failed \in SUBSET heads :
          /\ dropped' = dropped \cup failed
          /\ stored' = [r \in Row |->
               stored[r] + IF r \in failed THEN 0 ELSE Cardinality({d \in held : Head(batch[d]) = r})]
  /\ resting' = {}
  /\ IF resting = {}
     THEN /\ batch' = [d \in Drainers |-> <<>>]
          /\ UNCHANGED queue
     ELSE /\ batch' = [d \in Drainers |->
                         IF d = "stopper" THEN queue \o RetireAll(resting) ELSE <<>>]
          /\ queue' = <<>>
  /\ doing' = [d \in Drainers |-> IF d = "stopper" /\ batch'[d] # <<>> THEN "drain" ELSE "idle"]
  /\ UNCHANGED <<used, killVars>>

Exit ==
  /\ phase = "stopping"
  /\ doing["stopper"] = "idle"
  /\ phase' = "stopped"
  /\ UNCHANGED <<deskVars, queue, batch, doing, stored, dropped, killVars>>

-----------------------------------------------------------------------------
Init ==
  /\ used = {} /\ resting = {}
  /\ queue = <<>>
  /\ batch = [d \in Drainers |-> <<>>]
  /\ doing = [d \in Drainers |-> "idle"]
  /\ stored = [r \in Row |-> 0] /\ dropped = {}
  /\ switch = FALSE /\ trips = 0 /\ told = "none" /\ missed = FALSE
  /\ phase = "running"

Next ==
  \/ \E d \in Requests, o \in Orders : OrderRests(d, o) \/ CancelWorking(d, o)
  \/ \E d \in Requests : ReleaseKill(d) \/ ResetBook(d)
  \/ \E d \in Drainers : TriggerKill(d) \/ Write(d) \/ Resume(d)
  \/ Sweep \/ MonitorRolls \/ Stop \/ Exit

Spec == Init /\ [][Next]_vars

\* The sweep's loop runs for the life of the process, and a worker thread finishes.
FairSpec ==
  /\ Spec
  /\ WF_vars(Sweep)
  /\ \A d \in Drainers : WF_vars(Write(d)) /\ WF_vars(Resume(d))

-----------------------------------------------------------------------------
(* Properties *)

\* Where the drains hold a row.
PlacesHeld(row) ==
  UNION {{<<"held", d, i>> : i \in {k \in 1..Len(batch[d]) : batch[d][k] = row}} : d \in Drainers}

\* The places where a row of the running process is: in the queue, in a drain, in the
\* store, or among the dropped.
Places(row) ==
  {<<"queued", i>> : i \in {k \in 1..Len(queue) : queue[k] = row}}
    \cup PlacesHeld(row)
    \cup {<<"stored", n>> : n \in 1..stored[row]}
    \cup {<<"dropped">> : r \in dropped \cap {row}}

\* What an order has produced so far.
Produced == {r \in Row : r.order \in used /\ (r.what = "rested" \/ r.order \notin resting)}

\* While the gateway runs, every row of every order is in exactly one place: queued,
\* held by one drain, stored once or dropped once.  Concurrent drains neither write a
\* row twice nor leave one behind, and through the stop as well a row is stored at most
\* once.
RowsAccounted ==
  /\ TypeOK
  /\ phase = "running" =>
       \A r \in Row : IF r \in Produced THEN \E p \in Places(r) : Places(r) = {p} ELSE Places(r) = {}
  /\ \A r \in Row : stored[r] <= 1

\* A halt goes unrecorded only by a write that failed and was counted: once no trip is
\* still draining, the last word of the trail on an engaged switch is that it is engaged,
\* or the last kill switch event the code recorded met a failing store (trigger_kill
\* records its event after an await, release_kill at once; _exec raises for neither).
HaltIsTold ==
  phase = "running" /\ switch /\ (\A d \in Drainers : doing[d] # "halt")
    => told = "engaged" \/ missed

\* Rows the monitor's roll left queued reach a drain: the sweep drains even when it
\* fills nothing.
QueueIsDrained == (queue # <<>>) ~> (queue = <<>> \/ phase # "running")

=============================================================================
