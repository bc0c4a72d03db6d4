------------------------------ MODULE OpsSync -------------------------------
(***************************************************************************)
(* How the web instances share one operations ledger through the gateway:    *)
(* each queues its quota spends, quota resets and outage commands             *)
(* (lib/observability/ops-ledger.ts), drains the queue into one request at a  *)
(* time (lib/ops-sync.ts) and installs the merged view of the reply, or puts  *)
(* the batch back when the push failed. The gateway merges the batches         *)
(* (modules/web_telemetry.py). One provider and one quota window stand for    *)
(* all of them, which no step of either side relates.                        *)
(***************************************************************************)
EXTENDS Integers, FiniteSets

CONSTANTS
  Instances,    \* web instances
  MaxSpends,    \* bound on the calls an instance makes
  MaxCommands,  \* bound on operator actions
  MaxLosses     \* bound on pushes that fail and on gateway restarts

ASSUME SyncAssumption == IsFiniteSet(Instances) /\ {MaxSpends, MaxCommands, MaxLosses} \subseteq Nat

Absent == -1

VARIABLES
  pend,      \* per instance: the queued batch
  flight,    \* per instance: the sync in flight, its batch and the reply on its way
  count,     \* per instance: its own quota counter
  held,      \* per instance: the outage registry has the provider
  overlay,   \* per instance: the merged view's outage, "stale" when there is no fresh view
  total,     \* the gateway's spend of the window
  gout,      \* the gateway's outage of the provider
  made,      \* per instance: calls no reset of its own has forgotten
  credited,  \* per instance: spends the gateway took from its batches
  last,      \* per instance: the operator's last outage command there
  acting,    \* per instance: the command that started the sync in flight, until another comes
  commands,  \* operator actions so far
  losses     \* pushes lost so far

localVars == <<count, held, overlay>>
gateVars == <<total, gout>>
ghostVars == <<made, credited, last>>
vars == <<pend, flight, localVars, gateVars, ghostVars, acting, commands, losses>>

Batch == [spent : 0..MaxSpends, reset : BOOLEAN, set : BOOLEAN, cleared : SUBSET {"one", "all"}]
NoBatch == [spent |-> 0, reset |-> FALSE, set |-> FALSE, cleared |-> {}]
View == [total : Nat \cup {Absent}, out : BOOLEAN]
NoView == [total |-> Absent, out |-> FALSE]
Grounded == [at |-> "idle", body |-> NoBatch, view |-> NoView]
Commands == {"none", "set", "clear"}

TypeOK ==
  /\ pend \in [Instances -> Batch]
  /\ flight \in [Instances -> [at : {"idle", "sent", "merged"}, body : Batch, view : View]]
  /\ \A i \in Instances : flight[i].at = "idle" => flight[i] = Grounded
  /\ count \in [Instances -> Nat] /\ held \in [Instances -> BOOLEAN]
  /\ overlay \in [Instances -> {"stale", "out", "in"}]
  /\ total \in Nat \cup {Absent} /\ gout \in BOOLEAN
  /\ made \in [Instances -> 0..MaxSpends] /\ credited \in [Instances -> Nat]
  /\ last \in [Instances -> Commands] /\ acting \in [Instances -> Commands \cup {"reset"}]
  /\ commands \in 0..MaxCommands /\ losses \in 0..MaxLosses

\* outageFor: the instance's own record first, the fresh overlay behind it.
OutageFor(i) == held[i] \/ overlay[i] = "out"

(*** Draining, merging, installing *******************************************)

\* syncSharedOpsState: a sync in flight is shared, otherwise the queue is drained into a new
\* one. "queue" is the batch as the caller left it, "by" the command that asks.
SyncOrJoin(i, queue, by) ==
  IF flight[i].at = "idle"
  THEN /\ flight' = [flight EXCEPT ![i] = [at |-> "sent", body |-> queue, view |-> NoView]]
       /\ pend' = [pend EXCEPT ![i] = NoBatch]
       /\ acting' = [acting EXCEPT ![i] = by]
  ELSE /\ pend' = [pend EXCEPT ![i] = queue]
       /\ acting' = [acting EXCEPT ![i] = IF by = "none" THEN @ ELSE "none"]
       /\ UNCHANGED flight

\* A health poll of this instance.
Poll(i) ==
  /\ flight[i].at = "idle"
  /\ SyncOrJoin(i, pend[i], "none")
  /\ UNCHANGED <<localVars, gateVars, ghostVars, commands, losses>>

\* _ingest_quota: resets first, leaving an explicit zero; an absent counter stays absent
\* until something is spent.
Merged(body) ==
  LET base == IF body.reset THEN 0 ELSE total
  IN IF body.spent = 0 THEN base ELSE body.spent + IF base = Absent THEN 0 ELSE base

\* A merge that forgets what "*" stands for.
MergedOutOne(body) == (gout \/ body.set) /\ "one" \notin body.cleared

\* _ingest_outages: the sets, then the clears.
MergedOut(body) == (gout \/ body.set) /\ body.cleared = {}

GatewaySyncs(i) ==
  /\ flight[i].at = "sent"
  /\ LET body == flight[i].body
     IN /\ total' = Merged(body)
        /\ gout' = MergedOut(body)
        /\ credited' = [credited EXCEPT ![i] = @ + body.spent]
  /\ flight' = [flight EXCEPT ![i].at = "merged", ![i].view = [total |-> total', out |-> gout']]
  /\ UNCHANGED <<pend, localVars, made, last, acting, commands, losses>>

\* A hydration that keeps the larger count.
InstallLarger(i) ==
  /\ flight[i].at = "merged"
  /\ overlay' = [overlay EXCEPT ![i] = IF flight[i].view.out THEN "out" ELSE "in"]
  /\ count' = [count EXCEPT ![i] = IF flight[i].view.total < @ THEN @ ELSE flight[i].view.total]
  /\ flight' = [flight EXCEPT ![i] = Grounded]
  /\ acting' = [acting EXCEPT ![i] = "none"]
  /\ UNCHANGED <<pend, held, gateVars, ghostVars, commands, losses>>

\* applySharedOpsState and hydrateQuotaLedger: both replace what the instance had; a window
\* the view does not name is left as it is.
Install(i) ==
  /\ flight[i].at = "merged"
  /\ overlay' = [overlay EXCEPT ![i] = IF flight[i].view.out THEN "out" ELSE "in"]
  /\ count' = [count EXCEPT ![i] = IF flight[i].view.total = Absent THEN @ ELSE flight[i].view.total]
  /\ flight' = [flight EXCEPT ![i] = Grounded]
  /\ acting' = [acting EXCEPT ![i] = "none"]
  /\ UNCHANGED <<pend, held, gateVars, ghostVars, commands, losses>>

\* Restores that put everything back, or drop the batch.
RestoreBlind(now, old) ==
  [spent |-> now.spent + old.spent, reset |-> now.reset \/ old.reset,
   set |-> now.set \/ old.set, cleared |-> now.cleared \cup old.cleared]
RestoreNothing(now, old) == now

\* restore: what was queued since the drain wins over what is put back.
Restore(now, old) ==
  LET set == now.set \/ (old.set /\ now.cleared = {})
  IN [spent   |-> IF now.reset THEN now.spent ELSE now.spent + old.spent,
      reset   |-> now.reset \/ old.reset,
      set     |-> set,
      cleared |-> now.cleared \cup {c \in old.cleared : c = "all" \/ ~set}]

\* The push timed out or was refused, before the gateway merged it or after; by then the
\* overlay may have outlived its freshness.
PushFails(i) ==
  /\ flight[i].at # "idle" /\ losses < MaxLosses
  /\ losses' = losses + 1
  /\ pend' = [pend EXCEPT ![i] = Restore(@, flight[i].body)]
  /\ made' = [made EXCEPT ![i] = IF pend[i].reset /\ flight[i].at = "sent"
                                 THEN @ - flight[i].body.spent ELSE @]
  /\ flight' = [flight EXCEPT ![i] = Grounded]
  /\ acting' = [acting EXCEPT ![i] = "none"]
  /\ overlay' \in {overlay, [overlay EXCEPT ![i] = "stale"]}
  /\ UNCHANGED <<count, held, gateVars, credited, last, commands>>

\* The shared ledger lives in the gateway's memory.
GatewayRestarts ==
  /\ losses < MaxLosses
  /\ losses' = losses + 1
  /\ total' = Absent /\ gout' = FALSE
  /\ UNCHANGED <<pend, flight, localVars, ghostVars, acting, commands>>

(*** The instance and its operator *******************************************)

Spend(i) ==
  /\ made[i] < MaxSpends
  /\ count' = [count EXCEPT ![i] = @ + 1]
  /\ pend' = [pend EXCEPT ![i].spent = @ + 1]
  /\ made' = [made EXCEPT ![i] = @ + 1]
  /\ UNCHANGED <<flight, held, overlay, gateVars, credited, last, acting, commands, losses>>

\* The action route applies the action and builds a snapshot, which syncs.
Command(i) == commands < MaxCommands /\ commands' = commands + 1 /\ UNCHANGED <<gateVars, credited, losses>>

Mirrored(i, out) == [overlay EXCEPT ![i] = IF @ = "stale" THEN @ ELSE out]

SimulateOutage(i) ==
  /\ Command(i)
  /\ held' = [held EXCEPT ![i] = TRUE]
  /\ overlay' = Mirrored(i, "out")
  /\ last' = [last EXCEPT ![i] = "set"]
  /\ SyncOrJoin(i, [pend[i] EXCEPT !.set = TRUE, !.cleared = @ \ {"one"}], "set")
  /\ UNCHANGED <<count, made>>

\* One provider, or all of them.
ClearOutage(i, all) ==
  /\ Command(i)
  /\ held' = [held EXCEPT ![i] = FALSE]
  /\ overlay' = Mirrored(i, "in")
  /\ last' = [last EXCEPT ![i] = "clear"]
  /\ SyncOrJoin(i, [pend[i] EXCEPT !.set = FALSE,
                                   !.cleared = IF all THEN {"all"} ELSE @ \cup {"one"}], "clear")
  /\ UNCHANGED <<count, made>>

\* The instance's own unpushed spend is forgotten with its counter.
ResetQuota(i) ==
  /\ Command(i)
  /\ count' = [count EXCEPT ![i] = 0]
  /\ made' = [made EXCEPT ![i] = @ - pend[i].spent]
  /\ SyncOrJoin(i, [pend[i] EXCEPT !.spent = 0, !.reset = TRUE], "reset")
  /\ UNCHANGED <<held, overlay, last>>

\* The registry's record runs out.
OutageExpires(i) ==
  /\ held[i] /\ ~pend[i].set /\ flight[i].at = "idle"
  /\ held' = [held EXCEPT ![i] = FALSE]
  /\ UNCHANGED <<pend, flight, count, overlay, gateVars, ghostVars, acting, commands, losses>>

Init ==
  /\ pend = [i \in Instances |-> NoBatch]
  /\ flight = [i \in Instances |-> Grounded]
  /\ count = [i \in Instances |-> 0] /\ held = [i \in Instances |-> FALSE]
  /\ overlay = [i \in Instances |-> "stale"]
  /\ total = Absent /\ gout = FALSE
  /\ made = [i \in Instances |-> 0] /\ credited = [i \in Instances |-> 0]
  /\ last = [i \in Instances |-> "none"] /\ acting = [i \in Instances |-> "none"]
  /\ commands = 0 /\ losses = 0

Next == \/ \E i \in Instances :
             \/ Poll(i) \/ GatewaySyncs(i) \/ Install(i) \/ PushFails(i)
             \/ Spend(i) \/ SimulateOutage(i) \/ ResetQuota(i) \/ OutageExpires(i)
             \/ \E all \in BOOLEAN : ClearOutage(i, all)
        \/ GatewayRestarts

Spec == Init /\ [][Next]_vars

\* The console polls, and a push is answered or times out.
FairSpec == Spec /\ \A i \in Instances :
  WF_vars(Poll(i)) /\ WF_vars(GatewaySyncs(i)) /\ WF_vars(Install(i))

(*** Properties ************************************************************)

Unmerged(i) == IF flight[i].at = "sent" THEN flight[i].body.spent ELSE 0

\* Every call is queued, on its way or credited by the gateway, whatever pushes fail and
\* whatever is reset around it; only a push whose reply was lost is credited twice.
SpendsAccounted ==
  /\ TypeOK
  /\ \A i \in Instances :
       LET accounted == credited[i] + pend[i].spent + Unmerged(i)
       IN accounted >= made[i] /\ (losses = 0 => accounted = made[i])

\* The queue holds no outage command that a later one of the operator has overtaken, failed
\* pushes included, but for a clear of all outages: that one stays queued under a later set,
\* is then queued only together with it, and the gateway, which applies sets first, lets it
\* cancel the newer set.
NewestIsQueued == \A i \in Instances :
  /\ pend[i].set => last[i] = "set"
  /\ pend[i].cleared # {} => last[i] = "clear" \/ (pend[i].cleared = {"all"} /\ pend[i].set)

\* The snapshot an operator's action builds shows the action, when the action started the
\* sync it waits for.
SnapshotReflects ==
  [][\A i \in Instances : Install(i) =>
       CASE acting[i] = "set" -> OutageFor(i)' [] acting[i] = "clear" -> ~OutageFor(i)'
         [] acting[i] = "reset" -> count'[i] <= flight[i].body.spent
         [] OTHER -> TRUE]_vars

\* Once the operators and the failures are done, every instance that holds no outage of
\* its own agrees with the gateway on the outage and on the quota.
FleetConverges ==
  <>[](\A i \in Instances :
         /\ (~held[i] /\ overlay[i] # "stale") => (overlay[i] = "out") = gout
         /\ total # Absent => count[i] = total)

=============================================================================
