------------------------------ MODULE DeskReads ------------------------------
(***************************************************************************)
(* How the web desk keeps the gateway's book on screen: the book hook         *)
(* (lib/use-book.ts) and the execution cockpit (components/execution/         *)
(* use-cockpit-feed.ts) each refresh from a polling loop (lib/polling.ts), a  *)
(* button and the pushed risk stream (lib/use-desk-stream.ts), share one       *)
(* request per resource (lib/use-gateway-connection.ts), drop superseded        *)
(* answers and let the source machine (lib/desk-source.ts) decide what is       *)
(* shown. Timers fire at any time, so how long a loop backs off is left out.      *)
(***************************************************************************)
EXTENDS Integers, FiniteSets

CONSTANTS
  Surfaces,    \* the hooks that read the book
  Audited,     \* those whose refresh also reads the audit feeds (the cockpit)
  Streak,      \* PROMOTION_STREAK
  MaxChanges,  \* bound on changes of the gateway's book
  MaxDisturbances  \* bound on failures, deadlines, rotations and what the reader does

ASSUME DeskAssumption ==
  /\ Audited \subseteq Surfaces /\ Streak \in Nat \ {0}
  /\ {MaxChanges, MaxDisturbances} \subseteq Nat

\* What a probe answers: a version of the book, or one of the failures.
NoBook == -1
Failed == -2
Unconfigured == -3
Versions == 0..MaxChanges
Outcomes == Versions \cup {Failed, Unconfigured}
Resources == {"book", "audit"}

VARIABLES
  desk,     \* the version of the gateway's book
  health,   \* "up", "down", or "absent" when the deployment has no gateway
  hidden,   \* nobody is looking at the page
  probe,    \* per resource: "idle", "asked", or the outcome on its way
  latest,   \* per surface: the refresh that has not been superseded
  machine,  \* per surface: the source machine
  generated,  \* per surface: the reader chose the generated desk
  on,       \* per surface: the loop runs and the stream is subscribed
  timer,    \* per surface: the loop's timer is armed
  tick,     \* per surface: "no" tick in flight, or its refresh is the "latest" or an "old" one
  old,      \* per surface: the superseded refresh the tick still waits for
  source,   \* the page's stream: "none", "opening" or "open"
  pushed,     \* the gateway's side of it: events sent and the version last sent
  store,    \* the stream's snapshot in the page
  loop,     \* the stream's loop runs, its timer is armed
  seen,     \* per surface: the event number it last acted on
  streakOf, \* per surface: good answers observed since the last bad one
  disturbances  \* how many of them so far

gatewayVars == <<desk, health>>
loopVars == <<on, timer, tick, old>>
streamVars == <<source, pushed, store, loop>>
readVars == <<probe, latest, machine, streakOf>>
pageVars == <<gatewayVars, hidden, readVars, generated, loopVars, streamVars, seen, disturbances>>

NoRefresh == [waits |-> {}, out |-> NoBook]
Empty == [best |-> NoBook, demoted |-> FALSE, streak |-> 0, failure |-> NoBook]
Closed == [seq |-> 0, ver |-> NoBook]
Connecting == [state |-> "connecting", seq |-> 0, ver |-> NoBook]

\* What a surface shows, and how current it says it is.
Shown(s) == IF generated[s] THEN NoBook ELSE machine[s].best
Tier(s) == IF generated[s] THEN "generated" ELSE IF machine[s].best = NoBook THEN "unavailable"
           ELSE IF machine[s].demoted THEN "cached" ELSE "live"

PageTypeOK ==
  /\ desk \in Versions /\ health \in {"up", "down", "absent"} /\ hidden \in BOOLEAN
  /\ probe.book \in {"idle", "asked"} \X {NoBook} \cup {"read"} \X Outcomes
  /\ probe.audit \in {"idle", "asked"} \X {NoBook}
  /\ latest \in [Surfaces -> [waits : SUBSET Resources, out : Outcomes \cup {NoBook}]]
  /\ \A s \in Surfaces : machine[s].best \in Versions \cup {NoBook} /\ machine[s].streak \in 0..Streak
  /\ generated \in [Surfaces -> BOOLEAN] /\ on \in [Surfaces -> BOOLEAN]
  /\ timer \in [Surfaces -> BOOLEAN] /\ tick \in [Surfaces -> {"no", "latest", "old"}]
  /\ old \in [Surfaces -> [waits : SUBSET Resources, out : Outcomes \cup {NoBook}]]
  /\ source \in {"none", "opening", "open"} /\ loop \in [on : BOOLEAN, timer : BOOLEAN]
  /\ store.state \in {"connecting", "live", "unavailable"}
  /\ pushed.seq \in 0..(MaxChanges + 1) /\ store.seq \in 0..(MaxChanges + 1)
  /\ seen \in [Surfaces -> 0..(MaxChanges + 1)]
  /\ disturbances \in 0..MaxDisturbances

(*** The source machine *****************************************************)

Capped(n) == IF n < Streak THEN n ELSE Streak

\* observe: a failure demotes at once what has been measured, a streak of answers promotes.
Observed(m, out) ==
  IF out >= 0
  THEN [best |-> out, streak |-> Capped(m.streak + 1), failure |-> NoBook,
        demoted |-> m.demoted /\ m.streak + 1 < Streak]
  ELSE [m EXCEPT !.failure = out, !.streak = 0, !.demoted = m.best # NoBook]

Disturbance == disturbances < MaxDisturbances /\ disturbances' = disturbances + 1

(*** Asking and answering ****************************************************)

Wanted(s, audit) == {"book"} \cup IF s \in Audited /\ audit THEN {"audit"} ELSE {}

\* refresh: supersedes what was outstanding, and joins the requests already in flight.
Ask(s, audit, byTick) ==
  /\ latest' = [latest EXCEPT ![s] = [waits |-> Wanted(s, audit), out |-> NoBook]]
  /\ probe' = [r \in Resources |-> IF r \in Wanted(s, audit) /\ probe[r][1] = "idle"
                                   THEN <<"asked", NoBook>> ELSE probe[r]]
  /\ IF byTick THEN tick' = [tick EXCEPT ![s] = "latest"] /\ UNCHANGED old
     ELSE IF tick[s] = "latest"
     THEN tick' = [tick EXCEPT ![s] = "old"] /\ old' = [old EXCEPT ![s] = latest[s]]
     ELSE UNCHANGED <<tick, old>>
  /\ UNCHANGED <<machine, streakOf>>

\* The effect's cleanup: what is outstanding counts as superseded.
Supersede(s) ==
  /\ latest' = [latest EXCEPT ![s] = NoRefresh]
  /\ tick' = [tick EXCEPT ![s] = IF @ = "latest" THEN "old" ELSE @]
  /\ old' = [old EXCEPT ![s] = IF tick[s] = "latest" THEN latest[s] ELSE @]
  /\ UNCHANGED <<probe, machine, streakOf>>

\* The gateway answers what it has then.
GatewayReads ==
  /\ probe.book[1] = "asked"
  /\ probe' = [probe EXCEPT !.book = <<"read",
       CASE health = "up" -> desk [] health = "down" -> Failed [] OTHER -> Unconfigured>>]
  /\ UNCHANGED <<gatewayVars, hidden, latest, machine, streakOf, generated, loopVars, streamVars,
                 seen, disturbances>>

\* What is left of a refresh once resource r has answered.
Rest(refresh, r, out) ==
  IF refresh.waits \ {r} = {} THEN NoRefresh
  ELSE [waits |-> refresh.waits \ {r}, out |-> IF r = "book" THEN out ELSE refresh.out]
Carried(refresh, r, out) == IF r = "book" THEN out ELSE refresh.out

\* A verdict a superseded refresh gets as well.
VerdictOfAny(s, r, out) ==
  CASE latest[s].waits = {r} -> Carried(latest[s], r, out)
    [] latest[s].waits # {r} /\ tick[s] = "old" /\ old[s].waits = {r} -> Carried(old[s], r, out)
    [] OTHER -> NoBook

\* What a surface observes when r answers: the outcome of the refresh that has all it asked
\* for, unless it was superseded; else nothing.
Verdict(s, r, out) == IF latest[s].waits = {r} THEN Carried(latest[s], r, out) ELSE NoBook

\* A tick that never ends once superseded.
TickEndsIfLatest(s, r) == tick[s] = "latest" /\ latest[s].waits = {r}

TickEnds(s, r) == \/ tick[s] = "latest" /\ latest[s].waits = {r}
                  \/ tick[s] = "old" /\ old[s].waits = {r}

\* A request settles for everyone who waits for it. The tick whose refresh completes ends and
\* schedules the next, superseded or not.
Settle(r, out) ==
  LET seenBy(s) == Verdict(s, r, out)
  IN /\ probe' = [probe EXCEPT ![r] = <<"idle", NoBook>>]
     /\ latest' = [s \in Surfaces |-> IF r \in latest[s].waits THEN Rest(latest[s], r, out) ELSE latest[s]]
     /\ machine' = [s \in Surfaces |-> IF seenBy(s) = NoBook THEN machine[s] ELSE Observed(machine[s], seenBy(s))]
     /\ streakOf' = [s \in Surfaces |-> IF seenBy(s) = NoBook THEN streakOf[s]
                                        ELSE IF seenBy(s) < 0 THEN 0 ELSE Capped(streakOf[s] + 1)]
     /\ tick' = [s \in Surfaces |-> IF TickEnds(s, r) THEN "no" ELSE tick[s]]
     /\ old' = [s \in Surfaces |-> IF r \in old[s].waits THEN Rest(old[s], r, out) ELSE old[s]]
     /\ timer' = [s \in Surfaces |-> timer[s] \/ TickEnds(s, r)]

BookArrives ==
  /\ probe.book[1] = "read"
  /\ Settle("book", probe.book[2])
  /\ UNCHANGED <<gatewayVars, hidden, generated, on, streamVars, seen, disturbances>>

\* The deadline passes, or the connection breaks, before the headers of the answer.
BookTimesOut ==
  /\ probe.book[1] # "idle" /\ Disturbance
  /\ Settle("book", Failed)
  /\ UNCHANGED <<gatewayVars, hidden, generated, on, streamVars, seen>>

\* The audit feeds arrive or fail: either way the refresh goes on.
AuditArrives ==
  /\ probe.audit[1] = "asked"
  /\ Settle("audit", NoBook)
  /\ UNCHANGED <<gatewayVars, hidden, generated, on, streamVars, seen, disturbances>>

(*** The loops, the reader, the stream **************************************)

\* The loop's timer while the page is looked at, or its return to view; a hidden page only
\* arms the timer again. The audit feeds ride every fifth tick.
TimerFires(s) ==
  /\ on[s] /\ timer[s] /\ tick[s] = "no" /\ ~hidden
  /\ timer' = [timer EXCEPT ![s] = FALSE]
  /\ \E audit \in BOOLEAN : Ask(s, audit, TRUE)
  /\ UNCHANGED <<gatewayVars, hidden, generated, on, streamVars, seen, disturbances>>

\* Every failure read as a deployment without a gateway.
EnabledIfWell(s) == machine[s].failure = NoBook /\ (generated[s] => s \in Audited)

\* The loop and the subscription follow what the surface shows.
Enabled(s) == machine[s].failure # Unconfigured /\ (generated[s] => s \in Audited)
Subscribed == {s \in Surfaces : on[s]}

\* The stream's loop runs now: it opens a connection, or waits while nobody looks.
OpenStream ==
  IF ~hidden
  THEN source' = "opening" /\ loop' = [on |-> TRUE, timer |-> FALSE]
  ELSE loop' = [on |-> TRUE, timer |-> TRUE] /\ UNCHANGED source

StartLoop(s) ==
  /\ ~on[s] /\ Enabled(s)
  /\ on' = [on EXCEPT ![s] = TRUE] /\ timer' = [timer EXCEPT ![s] = TRUE]
  /\ IF Subscribed = {} THEN OpenStream ELSE UNCHANGED <<source, loop>>
  /\ UNCHANGED <<gatewayVars, hidden, readVars, generated, tick, old, pushed, store, seen, disturbances>>

\* A stopped loop forgets its tick, whose refresh is still observed. The last to leave the
\* stream closes it.
StopLoop(s) ==
  /\ on[s] /\ ~Enabled(s)
  /\ on' = [on EXCEPT ![s] = FALSE] /\ timer' = [timer EXCEPT ![s] = FALSE]
  /\ tick' = [tick EXCEPT ![s] = "no"] /\ old' = [old EXCEPT ![s] = NoRefresh]
  /\ IF Subscribed = {s}
     THEN /\ source' = "none" /\ store' = Connecting /\ pushed' = Closed
          /\ loop' = [on |-> FALSE, timer |-> FALSE]
     ELSE UNCHANGED streamVars
  /\ UNCHANGED <<gatewayVars, hidden, readVars, generated, seen, disturbances>>

\* Retry or Refresh.
Press(s) ==
  /\ ~generated[s] /\ Disturbance
  /\ Ask(s, TRUE, FALSE)
  /\ UNCHANGED <<gatewayVars, hidden, generated, on, timer, streamVars, seen>>

\* Live or the generated desk. The book's effect supersedes what is outstanding and asks again only on
\* the way back to Live; the cockpit keeps reading.
Choose(s) ==
  /\ IF generated[s] THEN UNCHANGED disturbances ELSE Disturbance
  /\ generated' = [generated EXCEPT ![s] = ~@]
  /\ IF s \in Audited THEN UNCHANGED <<readVars, tick, old>>
     ELSE IF generated[s] THEN Ask(s, TRUE, FALSE) ELSE Supersede(s)
  /\ UNCHANGED <<gatewayVars, hidden, on, timer, streamVars, seen>>

\* The stream's number moved: refresh the book, not the audit feeds.
Signal(s) ==
  /\ on[s] /\ store.state = "live" /\ store.seq # 0 /\ store.seq # seen[s]
  /\ seen' = [seen EXCEPT ![s] = store.seq]
  /\ Ask(s, FALSE, FALSE)
  /\ UNCHANGED <<gatewayVars, hidden, generated, on, timer, streamVars, disturbances>>

\* The stream's loop opens a connection when there is none.
StreamTick ==
  /\ loop.timer /\ source = "none" /\ ~hidden
  /\ source' = "opening" /\ loop' = [loop EXCEPT !.timer = FALSE]
  /\ UNCHANGED <<gatewayVars, hidden, readVars, generated, loopVars, pushed, store, seen, disturbances>>

\* The proxy found the gateway: the tick ends well.
StreamOpens ==
  /\ source = "opening" /\ health = "up"
  /\ source' = "open" /\ pushed' = Closed /\ store' = [store EXCEPT !.state = "live"]
  /\ loop' = [loop EXCEPT !.timer = loop.on]
  /\ UNCHANGED <<gatewayVars, hidden, readVars, generated, loopVars, seen, disturbances>>

\* A push on every beat, changed or not.
GatewayPushesAlways ==
  /\ source = "open"
  /\ pushed' = [seq |-> pushed.seq + 1, ver |-> desk]
  /\ store' = [state |-> "live", seq |-> pushed.seq + 1, ver |-> desk]
  /\ UNCHANGED <<gatewayVars, hidden, readVars, generated, loopVars, source, loop, seen, disturbances>>

\* stream_desk: numbers what it sends from one, on every connection.
GatewayPushes ==
  /\ source = "open" /\ pushed.ver # desk
  /\ pushed' = [seq |-> pushed.seq + 1, ver |-> desk]
  /\ store' = [state |-> "live", seq |-> pushed.seq + 1, ver |-> desk]
  /\ UNCHANGED <<gatewayVars, hidden, readVars, generated, loopVars, source, loop, seen, disturbances>>

\* fail: the connection is closed, and a handshake's tick ends badly.
Disconnect ==
  /\ source' = "none" /\ pushed' = Closed /\ store' = [store EXCEPT !.state = "unavailable"]
  /\ UNCHANGED <<gatewayVars, hidden, readVars, generated, loopVars, seen>>

\* A refusal that never settles the handshake's tick.
StreamRefusedSilent ==
  /\ source = "opening" /\ health # "up"
  /\ loop' = [loop EXCEPT !.on = health # "absent"]
  /\ Disconnect /\ UNCHANGED disturbances

\* The proxy found no gateway. A deployment without one stops the loop.
StreamRefused ==
  /\ source = "opening" /\ health # "up"
  /\ loop' = [on |-> health # "absent" /\ loop.on, timer |-> health # "absent" /\ loop.on]
  /\ Disconnect /\ UNCHANGED disturbances

\* The connection drops, or the handshake passes its deadline.
StreamDrops ==
  /\ source # "none" /\ Disturbance
  /\ loop' = [loop EXCEPT !.timer = loop.on]
  /\ Disconnect

\* A planned rotation: the state stays live and the loop runs at once.
StreamRotates ==
  /\ source = "open" /\ Disturbance /\ pushed' = Closed
  /\ IF hidden THEN source' = "none" /\ UNCHANGED loop ELSE OpenStream
  /\ UNCHANGED <<gatewayVars, hidden, readVars, generated, loopVars, store, seen>>

(*** The world **************************************************************)

GatewayChanges ==
  /\ desk < MaxChanges /\ health = "up" /\ desk' = desk + 1
  /\ UNCHANGED <<health, hidden, readVars, generated, loopVars, streamVars, seen, disturbances>>

\* A failure, a recovery, or the redeployment that gives the desk its gateway.
HealthChanges ==
  /\ \/ health = "up" /\ health' = "down" /\ Disturbance
     \/ health = "absent" /\ health' = "up" /\ Disturbance
     \/ health = "down" /\ health' = "up" /\ UNCHANGED disturbances
  /\ UNCHANGED <<desk, hidden, readVars, generated, loopVars, streamVars, seen>>

PageHides ==
  /\ ~hidden /\ hidden' = TRUE /\ Disturbance
  /\ UNCHANGED <<gatewayVars, readVars, generated, loopVars, streamVars, seen>>

PageReturns ==
  /\ hidden /\ hidden' = FALSE
  /\ UNCHANGED <<gatewayVars, readVars, generated, loopVars, streamVars, seen, disturbances>>

\* Every hook has asked once on mount, beside its loop.
PageInit ==
  /\ desk = 0 /\ health \in {"up", "absent"} /\ hidden = FALSE
  /\ probe = [r \in Resources |-> IF r = "audit" /\ Audited = {} THEN <<"idle", NoBook>> ELSE <<"asked", NoBook>>]
  /\ latest = [s \in Surfaces |-> [waits |-> Wanted(s, TRUE), out |-> NoBook]]
  /\ machine = [s \in Surfaces |-> Empty] /\ generated = [s \in Surfaces |-> FALSE]
  /\ on = [s \in Surfaces |-> TRUE] /\ timer = [s \in Surfaces |-> TRUE]
  /\ tick = [s \in Surfaces |-> "no"] /\ old = [s \in Surfaces |-> NoRefresh]
  /\ source = "opening" /\ pushed = Closed /\ store = Connecting
  /\ loop = [on |-> TRUE, timer |-> FALSE]
  /\ seen = [s \in Surfaces |-> 0]
  /\ streakOf = [s \in Surfaces |-> 0] /\ disturbances = 0

PageNext ==
  \/ GatewayReads \/ BookArrives \/ BookTimesOut \/ AuditArrives
  \/ \E s \in Surfaces : TimerFires(s) \/ StartLoop(s) \/ StopLoop(s) \/ Press(s) \/ Choose(s) \/ Signal(s)
  \/ StreamTick \/ StreamOpens \/ GatewayPushes \/ StreamRefused \/ StreamDrops \/ StreamRotates
  \/ GatewayChanges \/ HealthChanges \/ PageHides \/ PageReturns

PageSpec == PageInit /\ [][PageNext]_pageVars

\* Requests settle within their deadline, timers fire while the page is looked at, effects run
\* and the stream's handshake ends.
PageFairSpec ==
  /\ PageSpec
  /\ WF_pageVars(GatewayReads \/ BookArrives) /\ WF_pageVars(AuditArrives)
  /\ \A s \in Surfaces : WF_pageVars(TimerFires(s)) /\ WF_pageVars(StartLoop(s) \/ StopLoop(s))
  /\ WF_pageVars(StreamTick \/ StreamOpens \/ StreamRefused)

(*** Properties *************************************************************)

\* A loop that runs has exactly one way to go on: an armed timer, or a tick whose refresh waits
\* for requests that are in flight. None stacks ticks and none dies, and a page that says
\* "pushed" holds a connection or is about to make one.
LoopsStayAlive ==
  /\ PageTypeOK
  /\ \A s \in Surfaces :
       /\ on[s] = (timer[s] \/ tick[s] # "no") /\ ~(timer[s] /\ tick[s] # "no")
       /\ tick[s] = "latest" => latest[s].waits # {}
       /\ tick[s] = "old" => old[s].waits # {}
       /\ \A r \in latest[s].waits \cup old[s].waits : probe[r][1] # "idle"
  /\ loop.on => loop.timer # (source = "opening")
  /\ store.state = "live" => (source = "open" \/ loop.on)

\* The book on a surface never goes back to an older one, whatever order refreshes end in,
\* and a surface that was demoted calls itself live again only after a streak of answers
\* without a failure between them.
NeverBackwards ==
  [][\A s \in Surfaces :
       /\ machine'[s].best >= machine[s].best
       /\ (machine[s].demoted /\ ~machine'[s].demoted) => streakOf'[s] = Streak]_machine

\* Once the gateway answers and the page is looked at, every surface on Live shows the
\* gateway's book and calls it live.
SettledUp == health = "up" /\ ~hidden /\ \A s \in Surfaces : machine[s].failure # Unconfigured
DeskCatchesUp ==
  <>[]SettledUp => <>[](\A s \in Surfaces : generated[s] \/ (Tier(s) = "live" /\ Shown(s) = desk))

\* ... and the page's stream comes back, unless the loop learned there is no gateway.
StreamReturns == <>[](SettledUp /\ loop.on) => <>[](store.state = "live")

=============================================================================
