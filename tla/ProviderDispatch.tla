-------------------------- MODULE ProviderDispatch --------------------------
(***************************************************************************)
(* The web tier's market-data registry: one dispatch walks a ranked chain of *)
(* providers (lib/providers/dispatch.ts) past the operator's outages, the    *)
(* circuit breaker, the learned licences and the quota ledger, which it       *)
(* shares with every other dispatch of the process and with the operator's    *)
(* actions (lib/operator.ts).                                               *)
(*                                                                         *)
(* A dispatch suspends only while it waits for a provider, so the walk from   *)
(* one provider's answer to the next provider's call is a single step.       *)
(***************************************************************************)
EXTENDS Integers, Sequences, FiniteSets, FiniteSetsExt, Functions

CONSTANTS
  Chain,         \* the providers of the capability's chain, by rank
  Configured,    \* those whose key is in the environment
  Metered,       \* those of the chain with an allowance
  Capabilities,  \* what may be asked for
  Pins,          \* providers a request or an operator's probe may name
  Requests,      \* dispatches in flight at once
  Answers,       \* per provider: how it may answer
  Threshold,     \* BREAKER_THRESHOLD
  Limit,         \* an allowance's calls
  Reserve,       \* the part of it kept for interactive lookups
  MaxStreak,     \* bound on the failures counted past the threshold
  MaxTotal       \* bound on the spend of all instances, at the gateway

Providers == Range(Chain)
None == "none"

ASSUME RegistryAssumption ==
  /\ Chain \in Seq(Providers) \ {<<>>} /\ None \notin Providers
  /\ Metered \subseteq Providers
  /\ Threshold \in Nat \ {0} /\ Limit \in Nat /\ MaxStreak \in Nat /\ MaxTotal \in Nat
  /\ Answers \in [Providers ->
       SUBSET {"ok", "broken", "failed", "no_data", "refused", "rate_limited"}]
  /\ Pins \subseteq Providers /\ MaxStreak >= Threshold /\ MaxTotal >= Limit /\ Reserve \in 0..Limit

PinOrNone == Pins \cup {None}
Priorities == {"interactive", "background"}

VARIABLES
  outage,    \* providers an operator holds out
  breaker,   \* per provider: the breaker record
  licence,   \* <<provider, capability>> learned as refused
  used,      \* per provider: the ledger's count for this window
  base,      \* per provider: what the count was last set to
  cache,     \* per capability and pin (None: the wildcard key): the cached answer
  req,       \* per dispatch: where it is
  incident,  \* per provider: a trip without a closure, as remediation.ts pairs them
  spent,     \* calls begun since the count was set, by provider and priority
  streak     \* per provider: bad answers in a row, as the breaker should see them

vars == <<outage, breaker, licence, used, base, cache, req, incident, spent, streak>>

\* What a dispatch notes of the providers behind it.
Notes == {"skipped", "no_data", "unhelpful"}

Record == [failures : 0..MaxStreak, opened : BOOLEAN, cooled : BOOLEAN, probing : BOOLEAN]
NoRecord == [failures |-> 0, opened |-> FALSE, cooled |-> FALSE, probing |-> FALSE]
NoAnswer == [by |-> None, sound |-> TRUE]
Answer == [by : Providers \cup {None}, sound : BOOLEAN]
Idle == [state |-> "idle", cap |-> None, pin |-> None, prio |-> "interactive", at |-> None,
         notes |-> [p \in Providers |-> None], answer |-> NoAnswer]

TypeOK ==
  /\ outage \subseteq Providers
  /\ breaker \in [Providers -> Record]
  /\ licence \subseteq Providers \X Capabilities
  /\ used \in [Providers -> 0..MaxTotal] /\ base \in [Providers -> 0..MaxTotal]
  /\ cache \in [Capabilities \X PinOrNone -> Answer]
  /\ req \in [Requests -> [state : {"idle", "asking", "served", "missing", "unserved"},
                           cap : Capabilities \cup {None}, pin : PinOrNone,
                           prio : Priorities, at : Providers \cup {None},
                           notes : [Providers -> Notes \cup {None}],
                           answer : Answer]]
  /\ incident \in [Providers -> BOOLEAN]
  /\ spent \in [Providers -> [Priorities -> 0..Limit]]
  /\ streak \in [Providers -> 0..MaxStreak]

(*** The gates ************************************************************)

\* breakerOpen's verdict, and whether asking it turns the record half-open.
BreakerOpen(p) == breaker[p].opened /\ ~breaker[p].cooled
TurnsHalfOpen(p) == breaker[p].opened /\ breaker[p].cooled
HalfOpen == [failures |-> 0, opened |-> FALSE, cooled |-> FALSE, probing |-> TRUE]

Remaining(p) == Limit - used[p]

\* A gate that spends the last reserved call.
QuotaBlockInclusive(p, prio) ==
  IF p \in Metered /\ (Remaining(p) <= 0 \/ (prio = "background" /\ Remaining(p) < Reserve))
  THEN "quota_reserved" ELSE None

QuotaBlock(p, prio) ==
  IF p \notin Metered THEN None
  ELSE IF Remaining(p) <= 0 THEN "quota_exhausted"
  ELSE IF prio = "background" /\ Remaining(p) <= Reserve THEN "quota_reserved"
  ELSE None

\* The gates of the dispatch loop, in its order.
SkipReason(p, cap, prio) ==
  IF p \in outage THEN "simulated_outage"
  ELSE IF p \notin Configured THEN "not_configured"
  ELSE IF BreakerOpen(p) THEN "circuit_open"
  ELSE IF <<p, cap>> \in licence THEN "unlicensed"
  ELSE QuotaBlock(p, prio)

(*** The console's drawing of the same chain (lib/providers/status.ts) ******)

\* A console that still draws a circuit open after its cooldown.
BreakerSnapshotHeld(p) == IF breaker[p].opened THEN "open" ELSE "closed"

\* breakerSnapshot, which must not change the record it reads.
BreakerSnapshot(p) ==
  IF ~breaker[p].opened THEN "closed" ELSE IF breaker[p].cooled THEN "half_open" ELSE "open"

RouteState(p, cap, prio) ==
  IF p \in outage THEN "simulated_outage"
  ELSE IF p \notin Configured THEN "not_configured"
  ELSE IF BreakerSnapshot(p) = "open" THEN "circuit_open"
  ELSE IF <<p, cap>> \in licence THEN "unlicensed"
  ELSE IF p \in Metered /\ Remaining(p) <= 0 THEN "quota_exhausted"
  ELSE IF p \in Metered /\ prio = "background" /\ Remaining(p) <= Reserve THEN "quota_reserved"
  ELSE "ready"

\* failoverRoute's activeProvider: the first ready node, None when there is none.
ActiveProvider(cap, prio) ==
  LET ready == {i \in DOMAIN Chain : RouteState(Chain[i], cap, prio) = "ready"}
  IN IF ready = {} THEN None ELSE Chain[Min(ready)]

(*** The walk **************************************************************)

\* A pin is the whole pool: nothing else is tried.
Pool(pin) == {i \in DOMAIN Chain : pin # None => Chain[i] = pin}
Rank(p) == CHOOSE i \in DOMAIN Chain : Chain[i] = p

\* The verdict of an exhausted chain: nothing here only if all who were asked said so.
Exhausted(notes) ==
  LET asked == {p \in Providers : notes[p] \in {"no_data", "unhelpful"}}
  IN IF asked # {} /\ \A p \in asked : notes[p] = "no_data" THEN "missing" ELSE "unserved"

\* Request q, with breaker records bk (and bad answers sk), goes on along ranks "left" of its pool: every
\* provider it passes is noted, the first that no gate stops is charged and called.
Walk(r, q, left, bk, sk) ==
  LET clear == {i \in left : SkipReason(Chain[i], q.cap, q.prio) = None}
      next  == IF clear = {} THEN None ELSE Chain[Min(clear)]
      past  == {Chain[i] : i \in {j \in left : clear # {} => j < Min(clear)}}
      met   == {p \in past \cup {next} : p \in Providers /\ p \notin outage /\ p \in Configured}
      notes == [p \in Providers |-> IF p \in past THEN "skipped" ELSE q.notes[p]]
  IN /\ breaker' = [p \in Providers |-> IF p \in met /\ TurnsHalfOpen(p) THEN HalfOpen ELSE bk[p]]
     /\ streak' = [p \in Providers |-> IF p \in met /\ TurnsHalfOpen(p) THEN 0 ELSE sk[p]]
     /\ used' = [p \in Providers |-> IF p = next /\ p \in Metered THEN used[p] + 1 ELSE used[p]]
     /\ spent' = IF next \in Metered THEN [spent EXCEPT ![next][q.prio] = @ + 1] ELSE spent
     /\ req' = [req EXCEPT ![r] =
          IF next # None THEN [q EXCEPT !.state = "asking", !.at = next, !.notes = notes]
          ELSE [Idle EXCEPT !.state = Exhausted(notes)]]

CacheHit(entry, pin) == entry.by # None /\ (pin # None => entry.by = pin)

Served(pin, answer) == [Idle EXCEPT !.state = "served", !.pin = pin, !.answer = answer]

Dispatch(r, cap, pin, prio) ==
  LET entry == cache'[<<cap, pin>>]
      q == [Idle EXCEPT !.cap = cap, !.pin = pin, !.prio = prio]
  IN IF CacheHit(entry, pin)
     THEN /\ req' = [req EXCEPT ![r] = Served(pin, entry)]
          /\ UNCHANGED <<breaker, used, spent, streak>>
     ELSE Walk(r, q, Pool(pin), breaker, streak)

Begin(r) ==
  /\ req[r].state # "asking"
  /\ UNCHANGED <<outage, licence, base, cache, incident>>
  /\ \E cap \in Capabilities, pin \in PinOrNone, prio \in Priorities :
       Dispatch(r, cap, pin, prio)

(*** A provider answers ****************************************************)

RecordFailure(p) ==
  LET failures == Min({breaker[p].failures + 1, MaxStreak})
      trips == failures >= Threshold
  IN [failures |-> failures, opened |-> trips \/ breaker[p].opened,
      cooled |-> breaker[p].cooled /\ ~trips, probing |-> FALSE]

\* The "open" event is written on the transition alone.
IncidentOnFailure(p) == incident[p] \/ (RecordFailure(p).opened /\ ~breaker[p].opened)
IncidentOnSuccess(p) == incident[p] /\ ~(breaker[p].opened \/ breaker[p].probing)

Serve(r, p) ==
  LET given == [by |-> p, sound |-> TRUE]
  IN /\ breaker' = [breaker EXCEPT ![p] = NoRecord]
     /\ incident' = [incident EXCEPT ![p] = IncidentOnSuccess(p)]
     /\ cache' = [cache EXCEPT ![<<req[r].cap, req[r].pin>>] = given]
     /\ req' = [req EXCEPT ![r] = Served(@.pin, given)]
     /\ streak' = [streak EXCEPT ![p] = 0]
     /\ UNCHANGED <<licence, used, spent>>

\* Failovers that cache before the contract is evaluated, or record the success of the round
\* trip before its contract failed.
ChargeCachingFirst(r, p, how) ==
  /\ cache' = IF how # "broken" THEN cache
              ELSE [cache EXCEPT ![<<req[r].cap, req[r].pin>>] = [by |-> p, sound |-> FALSE]]
  /\ UNCHANGED <<incident, licence>>
  /\ Walk(r, [req[r] EXCEPT !.notes[p] = "unhelpful"], {i \in Pool(req[r].pin) : i > Rank(p)},
          breaker, streak)
ChargeClearingCount(r, p, how) ==
  LET bad == how \in {"failed", "broken"}
      one == [NoRecord EXCEPT !.failures = 1]
  IN /\ UNCHANGED <<incident, licence, cache>>
     /\ Walk(r, [req[r] EXCEPT !.notes[p] = "unhelpful"], {i \in Pool(req[r].pin) : i > Rank(p)},
             IF bad THEN [breaker EXCEPT ![p] = one] ELSE breaker,
             IF bad THEN [streak EXCEPT ![p] = Min({@ + 1, MaxStreak})] ELSE streak)

\* What a bad answer costs the provider: the breaker for a failure and for a fatal
\* breach of the contract, the licence for a refusal, nothing for "no data" or a 429.
Charge(r, p, how) ==
  LET q == [req[r] EXCEPT !.notes[p] = IF how = "no_data" THEN how ELSE "unhelpful"]
      bad == how \in {"failed", "broken"}
  IN /\ incident' = [incident EXCEPT ![p] = IF bad THEN IncidentOnFailure(p) ELSE @]
     /\ licence' = IF how = "refused" THEN licence \cup {<<p, q.cap>>} ELSE licence
     /\ UNCHANGED cache
     /\ Walk(r, q, {i \in Pool(q.pin) : i > Rank(p)},
             IF bad THEN [breaker EXCEPT ![p] = RecordFailure(p)] ELSE breaker,
             IF bad THEN [streak EXCEPT ![p] = Min({@ + 1, MaxStreak})] ELSE streak)

Settle(r, how) ==
  /\ req[r].state = "asking" /\ how \in Answers[req[r].at]
  /\ IF how = "ok" THEN Serve(r, req[r].at) ELSE Charge(r, req[r].at, how)
  /\ UNCHANGED <<outage, base>>

(*** Time *****************************************************************)

CooldownElapses(p) ==
  /\ BreakerOpen(p)
  /\ breaker' = [breaker EXCEPT ![p].cooled = TRUE]
  /\ UNCHANGED <<outage, licence, used, base, cache, req, incident, spent, streak>>

\* The record's own lifetime is four cooldowns.
BreakerExpires(p) ==
  /\ breaker[p] # NoRecord /\ ~BreakerOpen(p)
  /\ breaker' = [breaker EXCEPT ![p] = NoRecord]
  /\ streak' = [streak EXCEPT ![p] = 0]
  /\ UNCHANGED <<outage, licence, used, base, cache, req, incident, spent>>

LicenceExpires ==
  /\ \E block \in licence : licence' = licence \ {block}
  /\ UNCHANGED <<outage, breaker, used, base, cache, req, incident, spent, streak>>

\* A cached answer's TTL, its eviction to make room, the operator's purge: none of them
\* reaches the protected namespaces.
CacheLoses ==
  /\ \E key \in DOMAIN cache :
       cache[key].by # None /\ cache' = [cache EXCEPT ![key] = NoAnswer]
  /\ UNCHANGED <<outage, breaker, licence, used, base, req, incident, spent, streak>>

\* The count becomes "n", and calls are counted from there on.
SetCount(p, n) ==
  /\ used' = [used EXCEPT ![p] = n]
  /\ base' = [base EXCEPT ![p] = n]
  /\ spent' = [spent EXCEPT ![p] = [prio \in Priorities |-> 0]]
  /\ UNCHANGED <<outage, breaker, licence, cache, req, incident, streak>>

WindowRolls(p) == used[p] > 0 /\ SetCount(p, 0)

\* hydrateQuotaLedger: every sync replaces the count by the gateway's merged total, which
\* has the other instances' spends and lacks this one's that it has not merged, or lost.
HydrateQuota(p) == p \in Metered /\ \E total \in 0..MaxTotal : SetCount(p, total)

(*** The operator **********************************************************)

SimulateOutage(p) ==
  /\ p \notin outage
  /\ outage' = outage \cup {p}
  /\ UNCHANGED <<breaker, licence, used, base, cache, req, incident, spent, streak>>

\* An operator's clear, or the record's own expiry.
ClearOutage(p) ==
  /\ p \in outage
  /\ outage' = outage \ {p}
  /\ UNCHANGED <<breaker, licence, used, base, cache, req, incident, spent, streak>>

\* "Close circuit": the breaker and the learned licences; the event only if it held.
ResetBreaker(p) ==
  /\ breaker' = [breaker EXCEPT ![p] = NoRecord]
  /\ licence' = {block \in licence : block[1] # p}
  /\ incident' = [incident EXCEPT ![p] = @ /\ ~breaker[p].opened]
  /\ streak' = [streak EXCEPT ![p] = 0]
  /\ UNCHANGED <<outage, used, base, cache, req, spent>>

\* resetQuota zeroes the ledger, not the vendor's meter.
ResetQuota(p) == p \in Metered /\ used[p] > 0 /\ SetCount(p, 0)

\* The cache key a probe deletes before its pinned, interactive lookup: the pinned one
\* when it asks for a quote, the wildcard one when it searches.
ProbeKey(cap, p) == IF cap = "quote" THEN <<cap, p>> ELSE <<cap, None>>

ProbeProvider(r, p) ==
  /\ req[r].state # "asking"
  /\ UNCHANGED <<outage, licence, base, incident>>
  /\ \E cap \in Capabilities \cap {"quote", "search"} :
       /\ cache' = [cache EXCEPT ![ProbeKey(cap, p)] = NoAnswer]
       /\ Dispatch(r, cap, p, "interactive")

(*** Specification *********************************************************)

Init ==
  /\ outage = {} /\ licence = {}
  /\ breaker = [p \in Providers |-> NoRecord]
  /\ used = [p \in Providers |-> 0] /\ base = used
  /\ cache = [key \in Capabilities \X PinOrNone |-> NoAnswer]
  /\ req = [r \in Requests |-> Idle]
  /\ incident = [p \in Providers |-> FALSE]
  /\ spent = [p \in Providers |-> [prio \in Priorities |-> 0]]
  /\ streak = [p \in Providers |-> 0]

Operator(p) == SimulateOutage(p) \/ ClearOutage(p) \/ ResetBreaker(p) \/ ResetQuota(p)
Time(p) == CooldownElapses(p) \/ BreakerExpires(p) \/ WindowRolls(p) \/ HydrateQuota(p)

Next ==
  \/ \E r \in Requests : Begin(r) \/ \E how \in UNION Range(Answers) : Settle(r, how)
  \/ \E r \in Requests, p \in Pins : ProbeProvider(r, p)
  \/ \E p \in Providers : Operator(p) \/ Time(p)
  \/ LicenceExpires \/ CacheLoses

Spec == Init /\ [][Next]_vars

(*** Properties ************************************************************)

\* The ledger is what it was last set to (by a sync; zero by the window or the operator) and
\* every call begun since, whatever became of the call and whatever the cache has dropped;
\* interleaved dispatches never take it past the allowance, and background polling never
\* begins a call in the reserve, however syncs move the count in between.
AllowanceHolds ==
  /\ TypeOK
  /\ \A p \in Metered :
       LET begun == spent[p]["interactive"] + spent[p]["background"]
       IN /\ used[p] = base[p] + begun
          /\ begun > 0 => used[p] <= Limit
          /\ spent[p]["background"] > 0 => base[p] + spent[p]["background"] <= Limit - Reserve

\* An answer handed out or cached passed its contract, and a pinned request is answered
\* by its pin or not at all, even over a key another provider's answer is cached under.
AnswersAreTrusted ==
  /\ \A key \in DOMAIN cache : cache[key].sound
  /\ \A r \in Requests : req[r].state = "served" =>
       /\ req[r].answer.sound
       /\ req[r].pin # None => req[r].answer.by = req[r].pin

\* A provider answering badly is out of routing by the threshold, so long as nobody probed
\* it, reset it or had a good answer of it since, and the circuit that holds it out is an
\* incident the console still shows open.
BadAnswersTrip == \A p \in Providers :
  /\ streak[p] >= Threshold => breaker[p].opened
  /\ breaker[p].opened => incident[p]

\* The failover graph marks as active the provider a dispatch would now call, and gives
\* for every other node the reason the dispatch would note.
GraphIsTheWalk == \A cap \in Capabilities, prio \in Priorities :
  /\ \A p \in Providers : RouteState(p, cap, prio) =
       IF SkipReason(p, cap, prio) = None THEN "ready" ELSE SkipReason(p, cap, prio)
  /\ LET clear == {i \in DOMAIN Chain : SkipReason(Chain[i], cap, prio) = None}
     IN ActiveProvider(cap, prio) = IF clear = {} THEN None ELSE Chain[Min(clear)]

=============================================================================
