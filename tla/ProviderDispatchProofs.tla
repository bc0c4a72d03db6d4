----------------------- MODULE ProviderDispatchProofs -----------------------
(***************************************************************************)
(* Proofs about the market-data registry: for every chain, allowance,         *)
(* threshold and set of dispatches in flight, not only the two-provider chain *)
(* TLC runs.                                                                *)
(*                                                                         *)
(* Every step that touches a provider's records ends in the same walk, so the *)
(* argument is one lemma about the walk (WalkStep), from which each action    *)
(* follows in a few lines.                                                  *)
(***************************************************************************)
EXTENDS ProviderDispatch, WellFoundedInduction, TLAPS

(*** The least element of a set of numbers **********************************)

\* What Min (of the community modules) returns: the walk's "first clear rank".
LEMMA MinIs ==
  ASSUME NEW S, S \subseteq Nat, S # {}
  PROVE  Min(S) \in S /\ \A y \in S : Min(S) <= y
<1> DEFINE R == {ss \in Nat \X Nat : ss[1] < ss[2]}
<1>1. IsWellFoundedOn(R, Nat)
  BY NatLessThanWellFounded DEF OpToRel
<1>2. PICK x \in S : \A y \in S : ~ (<<y, x>> \in R)
  <2> HIDE DEF R
  <2>1. QED
    BY <1>1, WFMin
<1>3. ASSUME NEW y \in S PROVE x <= y
  <2>1. <<y, x>> \in Nat \X Nat /\ <<y, x>> \notin R
    BY <1>2
  <2>2. ~(y < x)
    BY <2>1
  <2>3. QED
    BY <2>2
<1>4. QED
  BY <1>3 DEF Min

\* The failure count saturates inside its bound.
LEMMA CountSaturates ==
  ASSUME NEW n \in 0..MaxStreak
  PROVE  Min({n + 1, MaxStreak}) \in 0..MaxStreak
<1> DEFINE S == {n + 1, MaxStreak}
<1>1. S \subseteq Nat /\ S # {} /\ MaxStreak \in S
  BY RegistryAssumption
<1>2. Min(S) \in S /\ Min(S) <= MaxStreak
  <2> HIDE DEF S
  <2>1. QED
    BY <1>1, MinIs
<1>3. QED
  BY <1>1, <1>2, RegistryAssumption

(*** The inductive invariant ************************************************)

Request ==
  [state : {"idle", "asking", "served", "missing", "unserved"},
   cap : Capabilities \cup {None}, pin : PinOrNone,
   prio : Priorities, at : Providers \cup {None},
   notes : [Providers -> Notes \cup {None}],
   answer : Answer]

\* A dispatch that waits, waits for a provider of its own pool about a capability.
Pinned(q) == q.state = "asking" =>
  q.at \in Providers /\ q.cap \in Capabilities /\ (q.pin # None => q.at = q.pin)

LedgerOk == \A p \in Metered :
  /\ used[p] = base[p] + (spent[p]["interactive"] + spent[p]["background"])
  /\ spent[p]["interactive"] + spent[p]["background"] > 0 => used[p] <= Limit
  /\ spent[p]["background"] > 0 => base[p] + spent[p]["background"] <= Limit - Reserve

\* The breaker's own count is the streak of bad answers, and an open circuit an incident.
CircuitOk == \A p \in Providers :
  /\ streak[p] = breaker[p].failures
  /\ breaker[p].failures >= Threshold => breaker[p].opened
  /\ breaker[p].opened => incident[p]

TrustOk == AnswersAreTrusted /\ \A r \in Requests : Pinned(req[r])

IInv == TypeOK /\ LedgerOk /\ CircuitOk /\ TrustOk

(*** The chain **************************************************************)

\* Every rank of the chain names a provider.
LEMMA ChainTyped ==
  /\ DOMAIN Chain \subseteq Nat
  /\ \A i \in DOMAIN Chain : Chain[i] \in Providers /\ Chain[i] # None
<1>1. Chain \in Seq(Providers) /\ None \notin Providers
  BY RegistryAssumption
<1>2. DOMAIN Chain = 1..Len(Chain) /\ Len(Chain) \in Nat
  BY <1>1
<1>3. \A i \in DOMAIN Chain : Chain[i] \in Providers
  BY DEF Providers, Range
<1>4. QED
  BY <1>1, <1>2, <1>3

\* A provider that no gate stops has a call left, and for background polling one beyond
\* the reserve.
LEMMA ClearHasBudget ==
  ASSUME NEW p \in Metered, NEW cap, NEW prio, SkipReason(p, cap, prio) = None
  PROVE  /\ ~(Remaining(p) <= 0)
         /\ prio = "background" => ~(Remaining(p) <= Reserve)
BY DEF SkipReason, QuotaBlock, None

\* The idle request, and one that is given an answer.
LEMMA RequestForms ==
  ASSUME TypeOK
  PROVE  /\ Idle \in Request
         /\ NoRecord \in Record /\ HalfOpen \in Record
         /\ NoRecord.failures = 0 /\ ~NoRecord.opened
         /\ HalfOpen.failures = 0 /\ ~HalfOpen.opened
         /\ \A pin \in PinOrNone, answer \in Answer :
              /\ Served(pin, answer) \in Request
              /\ Served(pin, answer).state = "served"
              /\ Served(pin, answer).pin = pin
              /\ Served(pin, answer).answer = answer
<1>1. NoAnswer \in Answer
  BY DEF NoAnswer, Answer
<1>2. Idle \in Request
  BY <1>1 DEF Idle, Request, PinOrNone, Priorities
<1>3. NoRecord \in Record /\ HalfOpen \in Record
  <2>1. MaxStreak \in Nat /\ 0 \in 0..MaxStreak
    BY RegistryAssumption
  <2>2. QED
    BY <2>1 DEF HalfOpen, NoRecord, Record
<1>4. QED
  BY <1>2, <1>3 DEF NoRecord, HalfOpen, Served, Idle, Request

(*** The walk ***************************************************************)

\* A request put in one dispatch's place.
LEMMA RequestPlaced ==
  ASSUME TypeOK, \A x \in Requests : Pinned(req[x]), NEW r \in Requests,
         NEW q \in Request, Pinned(q), req' = [req EXCEPT ![r] = q]
  PROVE  /\ req' \in [Requests -> Request]
         /\ \A x \in Requests : Pinned(req'[x])
         /\ \A x \in Requests : x # r => req'[x] = req[x]
         /\ req'[r] = q
<1>1. req \in [Requests -> Request]
  BY DEF TypeOK, Request
<1>2. QED
  BY <1>1

\* Whatever the records it starts from, the walk charges a provider only within its
\* allowance, calls one of the pool, turns records half-open and does nothing else.
LEMMA WalkStep ==
  ASSUME TypeOK, LedgerOk, \A x \in Requests : Pinned(req[x]),
         NEW r \in Requests, NEW q \in Request, q.cap \in Capabilities,
         NEW left, left \subseteq Pool(q.pin),
         NEW bk \in [Providers -> Record], NEW sk \in [Providers -> 0..MaxStreak],
         Walk(r, q, left, bk, sk), base' = base
  PROVE  /\ breaker' \in [Providers -> Record] /\ streak' \in [Providers -> 0..MaxStreak]
         /\ \A p \in Providers : \/ breaker'[p] = bk[p] /\ streak'[p] = sk[p]
                                 \/ breaker'[p] = HalfOpen /\ streak'[p] = 0
         /\ used' \in [Providers -> 0..MaxTotal]
         /\ spent' \in [Providers -> [Priorities -> 0..Limit]]
         /\ LedgerOk'
         /\ req' \in [Requests -> Request]
         /\ \A x \in Requests : Pinned(req'[x])
         /\ \A x \in Requests : x # r => req'[x] = req[x]
         /\ req'[r].state # "served"
<1> DEFINE clear == {i \in left : SkipReason(Chain[i], q.cap, q.prio) = None}
           next == IF clear = {} THEN None ELSE Chain[Min(clear)]
           past == {Chain[i] : i \in {j \in left : clear # {} => j < Min(clear)}}
           met == {p \in past \cup {next} : p \in Providers /\ p \notin outage /\ p \in Configured}
           notes == [p \in Providers |-> IF p \in past THEN "skipped" ELSE q.notes[p]]
           on == IF next # None THEN [q EXCEPT !.state = "asking", !.at = next, !.notes = notes]
                 ELSE [Idle EXCEPT !.state = Exhausted(notes)]
<1>1. /\ breaker' = [p \in Providers |-> IF p \in met /\ TurnsHalfOpen(p) THEN HalfOpen ELSE bk[p]]
      /\ streak' = [p \in Providers |-> IF p \in met /\ TurnsHalfOpen(p) THEN 0 ELSE sk[p]]
      /\ used' = [p \in Providers |-> IF p = next /\ p \in Metered THEN used[p] + 1 ELSE used[p]]
      /\ spent' = IF next \in Metered THEN [spent EXCEPT ![next][q.prio] = @ + 1] ELSE spent
      /\ req' = [req EXCEPT ![r] = on]
  BY DEF Walk
<1>2. clear \subseteq Nat /\ left \subseteq DOMAIN Chain
  BY ChainTyped DEF Pool
<1>3. clear # {} => Min(clear) \in clear
  <2> HIDE DEF clear
  <2>1. QED
    BY <1>2, MinIs
<1>4. next # None =>
        /\ next \in Providers /\ (q.pin # None => next = q.pin)
        /\ SkipReason(next, q.cap, q.prio) = None
  BY <1>2, <1>3, ChainTyped DEF Pool
<1>5. next = None => next \notin Metered
  BY RegistryAssumption
<1> HIDE DEF clear, next, past, met
<1>6. /\ breaker' \in [Providers -> Record] /\ streak' \in [Providers -> 0..MaxStreak]
      /\ \A p \in Providers : \/ breaker'[p] = bk[p] /\ streak'[p] = sk[p]
                              \/ breaker'[p] = HalfOpen /\ streak'[p] = 0
  <2>1. HalfOpen \in Record
    BY RequestForms
  <2>2. 0 \in 0..MaxStreak
    BY RegistryAssumption
  <2>3. QED
    BY <1>1, <2>1, <2>2
<1>7. /\ used' \in [Providers -> 0..MaxTotal]
      /\ spent' \in [Providers -> [Priorities -> 0..Limit]]
      /\ LedgerOk'
  <2>1. CASE next \notin Metered
    <3>1. used' = used /\ spent' = spent
      BY <1>1, <2>1 DEF TypeOK
    <3>2. QED
      BY <3>1 DEF TypeOK, LedgerOk
  <2>2. CASE next \in Metered
    <3>1. /\ next \in Providers /\ SkipReason(next, q.cap, q.prio) = None
      BY <1>4, <1>5, <2>2
    <3>2. /\ ~(Remaining(next) <= 0)
          /\ q.prio = "background" => ~(Remaining(next) <= Reserve)
      BY <2>2, <3>1, ClearHasBudget
    <3>3. /\ used[next] \in 0..MaxTotal /\ base[next] \in 0..MaxTotal
          /\ Limit \in Nat /\ MaxTotal \in Nat /\ MaxTotal >= Limit /\ Reserve \in 0..Limit
          /\ spent[next]["interactive"] \in 0..Limit /\ spent[next]["background"] \in 0..Limit
          /\ q.prio \in {"interactive", "background"}
      <4>1. used[next] \in 0..MaxTotal /\ base[next] \in 0..MaxTotal /\ spent[next] \in [Priorities -> 0..Limit]
        BY <3>1 DEF TypeOK
      <4>2. q.prio \in Priorities
        BY DEF Request
      <4>3. QED
        BY <4>1, <4>2, RegistryAssumption DEF Priorities
    <3>4. /\ used[next] = base[next] + (spent[next]["interactive"] + spent[next]["background"])
          /\ spent[next]["background"] > 0 => base[next] + spent[next]["background"] <= Limit - Reserve
      BY <2>2 DEF LedgerOk
    <3>5. used[next] + 1 <= Limit /\ (q.prio = "background" => used[next] + 1 <= Limit - Reserve)
      BY <3>2, <3>3 DEF Remaining
    <3>6. /\ used' = [used EXCEPT ![next] = @ + 1]
          /\ spent' = [spent EXCEPT ![next] = [spent[next] EXCEPT ![q.prio] = spent[next][q.prio] + 1]]
      <4>1. used \in [Providers -> 0..MaxTotal]
        BY DEF TypeOK
      <4>2. used' = [used EXCEPT ![next] = @ + 1]
        BY <4>1, <1>1, <2>2, <3>1
      <4>3. spent' = [spent EXCEPT ![next][q.prio] = @ + 1]
        BY <1>1, <2>2
      <4>4. QED
        BY <4>2, <4>3
    <3>7. spent[next] \in [Priorities -> 0..Limit] /\ q.prio \in Priorities
      BY <3>1 DEF TypeOK, Request
    <3>8. [spent[next] EXCEPT ![q.prio] = spent[next][q.prio] + 1] \in [Priorities -> 0..Limit]
      <4>1. spent[next][q.prio] + 1 \in 0..Limit
        BY <3>3, <3>4, <3>5
      <4>2. QED
        BY <4>1, <3>7
    <3>9. /\ used'[next] = base[next] + (spent'[next]["interactive"] + spent'[next]["background"])
          /\ used'[next] <= Limit
          /\ spent'[next]["background"] > 0 => base[next] + spent'[next]["background"] <= Limit - Reserve
      <4>1. used'[next] = used[next] + 1 /\ spent'[next] = [spent[next] EXCEPT ![q.prio] = spent[next][q.prio] + 1]
        BY <3>6, <3>1 DEF TypeOK
      <4>2. CASE q.prio = "interactive"
        <5>1. /\ spent'[next]["interactive"] = spent[next]["interactive"] + 1
              /\ spent'[next]["background"] = spent[next]["background"]
          BY <4>1, <4>2, <3>7 DEF Priorities
        <5>2. QED
          BY <5>1, <4>1, <3>3, <3>4, <3>5
      <4>3. CASE q.prio = "background"
        <5>1. /\ spent'[next]["background"] = spent[next]["background"] + 1
              /\ spent'[next]["interactive"] = spent[next]["interactive"]
          BY <4>1, <4>3, <3>7 DEF Priorities
        <5>2. QED
          BY <5>1, <4>1, <4>3, <3>3, <3>4, <3>5
      <4>4. QED
        BY <4>2, <4>3, <3>3
    <3>10. \A p \in Providers : p # next => used'[p] = used[p] /\ spent'[p] = spent[p]
      BY <3>6, <3>1 DEF TypeOK
    <3>11. used[next] + 1 \in 0..MaxTotal
      BY <3>3, <3>5
    <3>12. used' \in [Providers -> 0..MaxTotal] /\ spent' \in [Providers -> [Priorities -> 0..Limit]]
      BY <3>6, <3>8, <3>11, <3>1 DEF TypeOK
    <3>13. \A p \in Metered :
             /\ used'[p] = base'[p] + (spent'[p]["interactive"] + spent'[p]["background"])
             /\ spent'[p]["interactive"] + spent'[p]["background"] > 0 => used'[p] <= Limit
             /\ spent'[p]["background"] > 0 => base'[p] + spent'[p]["background"] <= Limit - Reserve
      BY <3>9, <3>10, RegistryAssumption DEF LedgerOk
    <3>14. QED
      BY <3>12, <3>13 DEF LedgerOk
  <2>3. QED
    BY <2>1, <2>2
<1>8. on \in Request /\ Pinned(on) /\ on.state # "served"
  <2>1. notes \in [Providers -> Notes \cup {None}]
    BY DEF Request, Notes
  <2>2. CASE next # None
    BY <1>4, <2>1, <2>2 DEF Request, Pinned
  <2>3. CASE next = None
    <3>1. Exhausted(notes) \in {"missing", "unserved"}
      BY DEF Exhausted
    <3>2. Idle \in Request
      BY RequestForms
    <3>3. QED
      BY <2>3, <3>1, <3>2 DEF Request, Pinned
  <2>4. QED
    BY <2>2, <2>3
<1>9. QED
  <2> HIDE DEF on
  <2>1. req' = [req EXCEPT ![r] = on]
    BY <1>1
  <2>2. QED
    BY <1>6, <1>7, <1>8, <2>1, RequestPlaced

(*** One step at a time *****************************************************)

\* A half-open record has nothing left to hold against its provider.
LEMMA HalfOpenIsClear == HalfOpen.failures = 0 /\ ~HalfOpen.opened /\ ~(0 >= Threshold)
<1>1. ~(0 >= Threshold)
  BY RegistryAssumption
<1>2. QED
  BY <1>1 DEF HalfOpen

\* A failure counts one up, and from the threshold on it leaves the circuit open.
LEMMA FailureRecorded ==
  ASSUME TypeOK, NEW p \in Providers
  PROVE  /\ RecordFailure(p) \in Record
         /\ RecordFailure(p).failures = Min({breaker[p].failures + 1, MaxStreak})
         /\ RecordFailure(p).failures >= Threshold => RecordFailure(p).opened
         /\ breaker[p].opened => RecordFailure(p).opened
<1> DEFINE failures == Min({breaker[p].failures + 1, MaxStreak})
           trips == failures >= Threshold
<1>1. breaker[p] \in Record
  BY DEF TypeOK
<1>2. breaker[p].failures \in 0..MaxStreak /\ breaker[p].opened \in BOOLEAN
  BY <1>1 DEF Record
<1>3. failures \in 0..MaxStreak
  BY <1>2, CountSaturates
<1> HIDE DEF failures
<1>4. (trips \/ breaker[p].opened) \in BOOLEAN /\ (breaker[p].cooled /\ ~trips) \in BOOLEAN
  OBVIOUS
<1>5. RecordFailure(p) = [failures |-> failures, opened |-> trips \/ breaker[p].opened,
                          cooled |-> breaker[p].cooled /\ ~trips, probing |-> FALSE]
  BY DEF RecordFailure, failures
<1>6. RecordFailure(p) \in Record
  <2>1. \A f \in 0..MaxStreak, o \in BOOLEAN, c \in BOOLEAN :
          [failures |-> f, opened |-> o, cooled |-> c, probing |-> FALSE] \in Record
    BY DEF Record
  <2>2. QED
    BY <2>1, <1>3, <1>4, <1>5
<1>7. /\ RecordFailure(p).failures = failures
      /\ RecordFailure(p).opened = (trips \/ breaker[p].opened)
  BY <1>5
<1>8. QED
  BY <1>6, <1>7 DEF failures

\* A new dispatch, whatever became of the cache just before: a cached answer the pin may
\* be given, or a walk over the pool.
LEMMA DispatchStep ==
  ASSUME IInv, NEW r \in Requests, NEW cap \in Capabilities, NEW pin \in PinOrNone,
         NEW prio \in Priorities, UNCHANGED <<outage, licence, base, incident>>,
         cache' \in [Capabilities \X PinOrNone -> Answer],
         \A key \in DOMAIN cache' : cache'[key].sound,
         Dispatch(r, cap, pin, prio)
  PROVE  IInv'
<1> DEFINE entry == cache'[<<cap, pin>>]
           q == [Idle EXCEPT !.cap = cap, !.pin = pin, !.prio = prio]
<1> USE DEF IInv, TrustOk
<1>1. CASE CacheHit(entry, pin)
  <2>1. req' = [req EXCEPT ![r] = Served(pin, entry)] /\ UNCHANGED <<breaker, used, spent, streak>>
    BY <1>1 DEF Dispatch
  <2>2. entry \in Answer /\ entry.sound /\ (pin # None => entry.by = pin)
    BY <1>1 DEF CacheHit
  <2>3. /\ Served(pin, entry) \in Request /\ Served(pin, entry).state = "served"
        /\ Served(pin, entry).pin = pin /\ Served(pin, entry).answer = entry
    BY <2>2, RequestForms
  <2>4. Pinned(Served(pin, entry))
    BY <2>3 DEF Pinned
  <2>5. /\ req' \in [Requests -> Request] /\ \A x \in Requests : Pinned(req'[x])
        /\ \A x \in Requests : x # r => req'[x] = req[x]
        /\ req'[r] = Served(pin, entry)
    BY <2>1, <2>3, <2>4, RequestPlaced
  <2>6. TypeOK'
    BY <2>1, <2>5 DEF TypeOK, Request
  <2>7. LedgerOk' /\ CircuitOk'
    BY <2>1 DEF LedgerOk, CircuitOk
  <2>8. AnswersAreTrusted'
    BY <2>2, <2>3, <2>5 DEF AnswersAreTrusted
  <2>9. QED
    BY <2>5, <2>6, <2>7, <2>8 DEF Pinned
<1>2. CASE ~CacheHit(entry, pin)
  <2>1. Walk(r, q, Pool(pin), breaker, streak)
    BY <1>2 DEF Dispatch
  <2>2. q \in Request /\ q.cap \in Capabilities /\ Pool(pin) = Pool(q.pin)
    BY RequestForms DEF Request, Idle
  <2>3. breaker \in [Providers -> Record] /\ streak \in [Providers -> 0..MaxStreak]
    BY DEF TypeOK
  <2> HIDE DEF q
  <2>4. /\ breaker' \in [Providers -> Record] /\ streak' \in [Providers -> 0..MaxStreak]
        /\ \A p \in Providers : \/ breaker'[p] = breaker[p] /\ streak'[p] = streak[p]
                                \/ breaker'[p] = HalfOpen /\ streak'[p] = 0
        /\ used' \in [Providers -> 0..MaxTotal]
        /\ spent' \in [Providers -> [Priorities -> 0..Limit]]
        /\ LedgerOk'
        /\ req' \in [Requests -> Request]
        /\ \A x \in Requests : Pinned(req'[x])
        /\ \A x \in Requests : x # r => req'[x] = req[x]
        /\ req'[r].state # "served"
    BY <2>1, <2>2, <2>3, WalkStep
  <2>5. TypeOK'
    BY <2>4 DEF TypeOK, Request
  <2>6. CircuitOk'
    <3>1. \A p \in Providers :
            /\ streak[p] = breaker[p].failures
            /\ breaker[p].failures >= Threshold => breaker[p].opened
            /\ breaker[p].opened => incident'[p]
      BY DEF CircuitOk
    <3>2. QED
      BY <2>4, <3>1, HalfOpenIsClear DEF CircuitOk
  <2>7. AnswersAreTrusted'
    BY <2>4 DEF AnswersAreTrusted
  <2>8. QED
    BY <2>4, <2>5, <2>6, <2>7 DEF Pinned
<1>3. QED
  BY <1>1, <1>2

\* A good answer clears the provider's record and is handed out and cached.
LEMMA ServeStep ==
  ASSUME IInv, NEW r \in Requests, req[r].state = "asking",
         Serve(r, req[r].at), UNCHANGED <<outage, base>>
  PROVE  IInv'
<1> DEFINE p == req[r].at
           given == [by |-> p, sound |-> TRUE]
           pin == req[r].pin
<1> USE DEF IInv, TrustOk
<1>1. /\ breaker' = [breaker EXCEPT ![p] = NoRecord]
      /\ incident' = [incident EXCEPT ![p] = IncidentOnSuccess(p)]
      /\ cache' = [cache EXCEPT ![<<req[r].cap, pin>>] = given]
      /\ req' = [req EXCEPT ![r] = Served(pin, given)]
      /\ streak' = [streak EXCEPT ![p] = 0]
      /\ UNCHANGED <<licence, used, base, spent, outage>>
  BY DEF Serve
<1>2. /\ req[r] \in Request /\ p \in Providers /\ req[r].cap \in Capabilities
      /\ (pin # None => p = pin) /\ pin \in PinOrNone
  BY DEF TypeOK, Request, Pinned
<1>3. given \in Answer /\ given.sound /\ given.by = p
  BY <1>2 DEF Answer
<1> HIDE DEF given, p, pin
<1>4. /\ Served(pin, given) \in Request /\ Served(pin, given).state = "served"
      /\ Served(pin, given).pin = pin /\ Served(pin, given).answer = given
  BY <1>2, <1>3, RequestForms
<1>5. Pinned(Served(pin, given))
  BY <1>4 DEF Pinned
<1>6. /\ req' \in [Requests -> Request] /\ \A x \in Requests : Pinned(req'[x])
      /\ \A x \in Requests : x # r => req'[x] = req[x]
      /\ req'[r] = Served(pin, given)
  BY <1>1, <1>4, <1>5, RequestPlaced
<1>7. IncidentOnSuccess(p) \in BOOLEAN
  BY DEF IncidentOnSuccess
<1>8. NoRecord \in Record /\ 0 \in 0..MaxStreak
  BY RequestForms, RegistryAssumption
<1>9. cache' \in [Capabilities \X PinOrNone -> Answer] /\ \A key \in DOMAIN cache' : cache'[key].sound
  BY <1>1, <1>2, <1>3 DEF TypeOK, AnswersAreTrusted
<1>10. TypeOK'
  <2>1. incident' \in [Providers -> BOOLEAN]
    BY <1>1, <1>7 DEF TypeOK
  <2>2. breaker' \in [Providers -> Record] /\ streak' \in [Providers -> 0..MaxStreak]
    BY <1>1, <1>8 DEF TypeOK
  <2>3. QED
    BY <1>1, <1>6, <1>9, <2>1, <2>2 DEF TypeOK, Request
<1>11. LedgerOk'
  BY <1>1 DEF LedgerOk
<1>12. CircuitOk'
  <2>1. NoRecord.failures = 0 /\ ~NoRecord.opened /\ ~(0 >= Threshold)
    BY RequestForms, RegistryAssumption
  <2>2. breaker'[p] = NoRecord /\ streak'[p] = 0
    BY <1>1, <1>2 DEF TypeOK
  <2>3. \A x \in Providers : x # p => breaker'[x] = breaker[x] /\ streak'[x] = streak[x]
                                      /\ incident'[x] = incident[x]
    BY <1>1, <1>2 DEF TypeOK
  <2>4. QED
    BY <2>1, <2>2, <2>3 DEF CircuitOk
<1>13. AnswersAreTrusted'
  BY <1>2, <1>3, <1>4, <1>6, <1>9 DEF AnswersAreTrusted
<1>14. QED
  BY <1>6, <1>10, <1>11, <1>12, <1>13 DEF Pinned

\* A bad answer is charged to the provider, and the walk goes on behind it.
LEMMA ChargeStep ==
  ASSUME IInv, NEW r \in Requests, req[r].state = "asking", NEW how,
         how \in {"broken", "failed", "no_data", "refused", "rate_limited"},
         Charge(r, req[r].at, how), UNCHANGED <<outage, base>>
  PROVE  IInv'
<1> DEFINE p == req[r].at
           q == [req[r] EXCEPT !.notes[p] = IF how = "no_data" THEN how ELSE "unhelpful"]
           bad == how \in {"failed", "broken"}
           bk == IF bad THEN [breaker EXCEPT ![p] = RecordFailure(p)] ELSE breaker
           sk == IF bad THEN [streak EXCEPT ![p] = Min({@ + 1, MaxStreak})] ELSE streak
           left == {i \in Pool(q.pin) : i > Rank(p)}
<1> USE DEF IInv, TrustOk
<1>1. /\ incident' = [incident EXCEPT ![p] = IF bad THEN IncidentOnFailure(p) ELSE @]
      /\ licence' = IF how = "refused" THEN licence \cup {<<p, q.cap>>} ELSE licence
      /\ UNCHANGED <<cache, outage, base>>
      /\ Walk(r, q, left, bk, sk)
  BY DEF Charge
<1>2. /\ req[r] \in Request /\ p \in Providers /\ req[r].cap \in Capabilities
  BY DEF TypeOK, Request, Pinned
<1>3. q \in Request /\ q.cap = req[r].cap /\ q.cap \in Capabilities
  <2>1. (IF how = "no_data" THEN how ELSE "unhelpful") \in Notes
    BY DEF Notes
  <2>2. QED
    BY <1>2, <2>1 DEF Request
<1>4. left \subseteq Pool(q.pin)
  OBVIOUS
<1>5. bk \in [Providers -> Record] /\ sk \in [Providers -> 0..MaxStreak]
  <2>1. RecordFailure(p) \in Record
    BY <1>2, FailureRecorded
  <2>2. streak[p] \in 0..MaxStreak
    BY <1>2 DEF TypeOK
  <2>3. Min({streak[p] + 1, MaxStreak}) \in 0..MaxStreak
    BY <2>2, CountSaturates
  <2>4. QED
    BY <2>1, <2>3 DEF TypeOK
<1>6. /\ RecordFailure(p).failures = Min({breaker[p].failures + 1, MaxStreak})
      /\ RecordFailure(p).failures >= Threshold => RecordFailure(p).opened
      /\ breaker[p].opened => RecordFailure(p).opened
  BY <1>2, FailureRecorded
<1>7. \A x \in Providers :
        /\ sk[x] = bk[x].failures
        /\ bk[x].failures >= Threshold => bk[x].opened
        /\ bk[x].opened => incident'[x]
  <2>1. \A x \in Providers :
          /\ streak[x] = breaker[x].failures
          /\ breaker[x].failures >= Threshold => breaker[x].opened
          /\ breaker[x].opened => incident[x]
    BY DEF CircuitOk
  <2>2. CASE bad
    <3>1. bk[p] = RecordFailure(p) /\ sk[p] = Min({streak[p] + 1, MaxStreak})
      BY <1>2, <2>2 DEF TypeOK
    <3>2. incident'[p] = IncidentOnFailure(p)
      BY <1>1, <1>2, <2>2 DEF TypeOK
    <3>3. RecordFailure(p).opened => incident'[p]
      BY <1>2, <2>1, <3>2 DEF IncidentOnFailure
    <3>4. \A x \in Providers : x # p => /\ bk[x] = breaker[x] /\ sk[x] = streak[x]
                                       /\ incident'[x] = incident[x]
      BY <1>1, <1>2, <2>2 DEF TypeOK
    <3> HIDE DEF p, bk, sk
    <3>5. QED
      BY <1>2, <1>6, <2>1, <3>1, <3>3, <3>4
  <2>3. CASE ~bad
    <3>1. bk = breaker /\ sk = streak /\ incident' = incident
      BY <1>1, <2>3 DEF TypeOK
    <3>2. QED
      BY <2>1, <3>1
  <2>4. QED
    BY <2>2, <2>3
<1>8. incident' \in [Providers -> BOOLEAN] /\ licence' \subseteq Providers \X Capabilities
  <2>1. IncidentOnFailure(p) \in BOOLEAN
    BY DEF IncidentOnFailure
  <2>2. incident' \in [Providers -> BOOLEAN]
    BY <1>1, <2>1 DEF TypeOK
  <2>3. QED
    BY <1>1, <1>2, <1>3, <2>2 DEF TypeOK
<1> HIDE DEF p, q, bk, sk, left
<1>9. /\ breaker' \in [Providers -> Record] /\ streak' \in [Providers -> 0..MaxStreak]
      /\ \A x \in Providers : \/ breaker'[x] = bk[x] /\ streak'[x] = sk[x]
                              \/ breaker'[x] = HalfOpen /\ streak'[x] = 0
      /\ used' \in [Providers -> 0..MaxTotal]
      /\ spent' \in [Providers -> [Priorities -> 0..Limit]]
      /\ LedgerOk'
      /\ req' \in [Requests -> Request]
      /\ \A x \in Requests : Pinned(req'[x])
      /\ \A x \in Requests : x # r => req'[x] = req[x]
      /\ req'[r].state # "served"
  BY <1>1, <1>3, <1>4, <1>5, WalkStep
<1>10. TypeOK'
  BY <1>1, <1>8, <1>9 DEF TypeOK, Request
<1>11. CircuitOk'
  BY <1>7, <1>9, HalfOpenIsClear DEF CircuitOk
<1>12. AnswersAreTrusted'
  BY <1>1, <1>9 DEF AnswersAreTrusted
<1>13. QED
  BY <1>9, <1>10, <1>11, <1>12 DEF Pinned

\* Time and the operator forgive a provider, and forget what they forgive.
LEMMA UpkeepStep ==
  ASSUME IInv, \/ \E p \in Providers : Operator(p) \/ Time(p)
               \/ LicenceExpires \/ CacheLoses
  PROVE  IInv'
<1> USE DEF IInv, TrustOk
<1>1. /\ 0 \in 0..MaxStreak /\ ~(0 >= Threshold) /\ 0 \in 0..Limit /\ 0 \in 0..MaxTotal
      /\ Metered \subseteq Providers /\ 0 = 0 + (0 + 0) /\ ~(0 > 0) /\ ~(0 + 0 > 0)
  BY RegistryAssumption
<1>2. NoRecord \in Record /\ NoRecord.failures = 0 /\ ~NoRecord.opened
  BY RequestForms
<1>3. ASSUME NEW p \in Providers, SimulateOutage(p) \/ ClearOutage(p) PROVE IInv'
  BY <1>3 DEF SimulateOutage, ClearOutage, TypeOK, Request, LedgerOk, CircuitOk,
              AnswersAreTrusted, Pinned
<1>4. ASSUME NEW p \in Providers, ResetBreaker(p) PROVE IInv'
  <2>1. /\ breaker' = [breaker EXCEPT ![p] = NoRecord]
        /\ licence' = {block \in licence : block[1] # p}
        /\ incident' = [incident EXCEPT ![p] = @ /\ ~breaker[p].opened]
        /\ streak' = [streak EXCEPT ![p] = 0]
        /\ UNCHANGED <<outage, used, base, cache, req, spent>>
    BY <1>4 DEF ResetBreaker
  <2>2. (incident[p] /\ ~breaker[p].opened) \in BOOLEAN
    OBVIOUS
  <2>3. /\ breaker' \in [Providers -> Record] /\ streak' \in [Providers -> 0..MaxStreak]
        /\ incident' \in [Providers -> BOOLEAN]
    BY <1>1, <1>2, <2>1, <2>2 DEF TypeOK
  <2>4. TypeOK'
    BY <2>1, <2>3 DEF TypeOK, Request
  <2>5. /\ breaker'[p] = NoRecord /\ streak'[p] = 0
        /\ \A x \in Providers : x # p => /\ breaker'[x] = breaker[x] /\ streak'[x] = streak[x]
                                         /\ incident'[x] = incident[x]
    BY <2>1 DEF TypeOK
  <2>6. CircuitOk'
    BY <1>1, <1>2, <2>5 DEF CircuitOk
  <2>7. QED
    BY <2>1, <2>4, <2>6 DEF LedgerOk, AnswersAreTrusted, Pinned
<1>5. ASSUME NEW p \in Providers, ResetQuota(p) \/ WindowRolls(p) \/ HydrateQuota(p) PROVE IInv'
  <2>1. PICK n \in 0..MaxTotal : SetCount(p, n)
    BY <1>1, <1>5 DEF ResetQuota, WindowRolls, HydrateQuota
  <2>2. /\ used' = [used EXCEPT ![p] = n] /\ base' = [base EXCEPT ![p] = n]
        /\ spent' = [spent EXCEPT ![p] = [prio \in Priorities |-> 0]]
        /\ UNCHANGED <<outage, breaker, licence, cache, req, incident, streak>>
    BY <2>1 DEF SetCount
  <2>3. /\ used' \in [Providers -> 0..MaxTotal] /\ base' \in [Providers -> 0..MaxTotal]
        /\ spent' \in [Providers -> [Priorities -> 0..Limit]]
    BY <1>1, <2>2 DEF TypeOK
  <2>4. /\ used'[p] = n /\ base'[p] = n /\ n = n + (0 + 0)
        /\ spent'[p]["interactive"] = 0 /\ spent'[p]["background"] = 0
        /\ \A x \in Providers : x # p => used'[x] = used[x] /\ base'[x] = base[x] /\ spent'[x] = spent[x]
    BY <2>2, RegistryAssumption DEF TypeOK, Priorities
  <2>5. LedgerOk'
    BY <1>1, <2>4 DEF LedgerOk
  <2>6. QED
    BY <2>2, <2>3, <2>5 DEF TypeOK, Request, CircuitOk, AnswersAreTrusted, Pinned
<1>6. ASSUME NEW p \in Providers, CooldownElapses(p) PROVE IInv'
  <2>1. /\ breaker' = [breaker EXCEPT ![p].cooled = TRUE]
        /\ UNCHANGED <<outage, licence, used, base, cache, req, incident, spent, streak>>
    BY <1>6 DEF CooldownElapses
  <2>2. breaker[p] \in Record
    BY DEF TypeOK
  <2>3. /\ [breaker[p] EXCEPT !.cooled = TRUE] \in Record
        /\ [breaker[p] EXCEPT !.cooled = TRUE].failures = breaker[p].failures
        /\ [breaker[p] EXCEPT !.cooled = TRUE].opened = breaker[p].opened
    BY <2>2 DEF Record
  <2>4. /\ breaker' \in [Providers -> Record]
        /\ breaker'[p] = [breaker[p] EXCEPT !.cooled = TRUE]
        /\ \A x \in Providers : x # p => breaker'[x] = breaker[x]
    BY <2>1, <2>3 DEF TypeOK
  <2>5. CircuitOk'
    BY <2>1, <2>3, <2>4 DEF CircuitOk
  <2>6. QED
    BY <2>1, <2>4, <2>5 DEF TypeOK, Request, LedgerOk, AnswersAreTrusted, Pinned
<1>7. ASSUME NEW p \in Providers, BreakerExpires(p) PROVE IInv'
  <2>1. /\ breaker' = [breaker EXCEPT ![p] = NoRecord] /\ streak' = [streak EXCEPT ![p] = 0]
        /\ UNCHANGED <<outage, licence, used, base, cache, req, incident, spent>>
    BY <1>7 DEF BreakerExpires
  <2>2. breaker' \in [Providers -> Record] /\ streak' \in [Providers -> 0..MaxStreak]
    BY <1>1, <1>2, <2>1 DEF TypeOK
  <2>3. /\ breaker'[p] = NoRecord /\ streak'[p] = 0
        /\ \A x \in Providers : x # p => breaker'[x] = breaker[x] /\ streak'[x] = streak[x]
    BY <2>1 DEF TypeOK
  <2>4. CircuitOk'
    BY <1>1, <1>2, <2>1, <2>3 DEF CircuitOk
  <2>5. QED
    BY <2>1, <2>2, <2>4 DEF TypeOK, Request, LedgerOk, AnswersAreTrusted, Pinned
<1>8. ASSUME LicenceExpires PROVE IInv'
  BY <1>8 DEF LicenceExpires, TypeOK, Request, LedgerOk, CircuitOk, AnswersAreTrusted, Pinned
<1>9. ASSUME CacheLoses PROVE IInv'
  <2>1. /\ \E key \in DOMAIN cache : cache' = [cache EXCEPT ![key] = NoAnswer]
        /\ UNCHANGED <<outage, breaker, licence, used, base, req, incident, spent, streak>>
    BY <1>9 DEF CacheLoses
  <2>2. NoAnswer \in Answer /\ NoAnswer.sound
    BY DEF NoAnswer, Answer
  <2>3. cache' \in [Capabilities \X PinOrNone -> Answer] /\ \A key \in DOMAIN cache' : cache'[key].sound
    BY <2>1, <2>2 DEF TypeOK, AnswersAreTrusted
  <2>4. QED
    BY <2>1, <2>3 DEF TypeOK, Request, LedgerOk, CircuitOk, AnswersAreTrusted, Pinned
<1>10. QED
  BY <1>3, <1>4, <1>5, <1>6, <1>7, <1>8, <1>9 DEF Operator, Time

(*** The theorems ***********************************************************)

\* A registry that has asked nothing satisfies the invariant.
LEMMA RegistryStarts == Init => IInv
<1> SUFFICES ASSUME Init PROVE IInv
  OBVIOUS
<1>1. /\ 0 \in 0..MaxStreak /\ ~(0 >= Threshold) /\ 0 \in 0..Limit /\ 0 \in 0..MaxTotal
      /\ Metered \subseteq Providers /\ 0 = 0 + (0 + 0) /\ ~(0 > 0) /\ ~(0 + 0 > 0)
  BY RegistryAssumption
<1>2. NoRecord \in Record /\ NoRecord.failures = 0 /\ ~NoRecord.opened
  BY <1>1 DEF NoRecord, Record
<1>3. NoAnswer \in Answer /\ NoAnswer.sound
  BY DEF NoAnswer, Answer
<1>4. Idle \in Request /\ Idle.state = "idle"
  BY <1>3 DEF Idle, Request, PinOrNone, Priorities
<1>5. TypeOK
  BY <1>1, <1>2, <1>3, <1>4 DEF Init, TypeOK, Request
<1>6. LedgerOk
  BY <1>1 DEF Init, LedgerOk, Priorities
<1>7. CircuitOk
  BY <1>1, <1>2 DEF Init, CircuitOk
<1>8. TrustOk
  BY <1>3, <1>4 DEF Init, TrustOk, AnswersAreTrusted, Pinned
<1>9. QED
  BY <1>5, <1>6, <1>7, <1>8 DEF IInv

\* Every step keeps the invariant: one case per action.
LEMMA RegistryStep == IInv /\ [Next]_vars => IInv'
<1> SUFFICES ASSUME IInv, [Next]_vars PROVE IInv'
  OBVIOUS
<1>1. CASE UNCHANGED vars
  BY <1>1 DEF vars, IInv, TypeOK, LedgerOk, CircuitOk, TrustOk, AnswersAreTrusted, Pinned
<1>2. ASSUME NEW r \in Requests, Begin(r) PROVE IInv'
  <2>1. PICK cap \in Capabilities, pin \in PinOrNone, prio \in Priorities :
          Dispatch(r, cap, pin, prio)
    BY <1>2 DEF Begin
  <2>2. UNCHANGED <<outage, licence, base, cache, incident>>
    BY <1>2 DEF Begin
  <2>3. cache' \in [Capabilities \X PinOrNone -> Answer] /\ \A key \in DOMAIN cache' : cache'[key].sound
    BY <2>2 DEF IInv, TypeOK, TrustOk, AnswersAreTrusted
  <2>4. QED
    BY <2>1, <2>2, <2>3, DispatchStep
<1>3. ASSUME NEW r \in Requests, NEW p \in Pins, ProbeProvider(r, p) PROVE IInv'
  <2>1. PICK cap \in Capabilities \cap {"quote", "search"} :
          /\ cache' = [cache EXCEPT ![ProbeKey(cap, p)] = NoAnswer]
          /\ Dispatch(r, cap, p, "interactive")
    BY <1>3 DEF ProbeProvider
  <2>2. UNCHANGED <<outage, licence, base, incident>>
    BY <1>3 DEF ProbeProvider
  <2>3. NoAnswer \in Answer /\ NoAnswer.sound
    BY DEF NoAnswer, Answer
  <2>4. cache' \in [Capabilities \X PinOrNone -> Answer] /\ \A key \in DOMAIN cache' : cache'[key].sound
    BY <2>1, <2>3 DEF IInv, TypeOK, TrustOk, AnswersAreTrusted
  <2>5. p \in PinOrNone /\ "interactive" \in Priorities
    BY DEF PinOrNone, Priorities
  <2>6. QED
    BY <2>1, <2>2, <2>4, <2>5, DispatchStep
<1>4. ASSUME NEW r \in Requests, NEW how \in UNION Range(Answers), Settle(r, how) PROVE IInv'
  <2>1. req[r].state = "asking" /\ how \in Answers[req[r].at] /\ UNCHANGED <<outage, base>>
    BY <1>4 DEF Settle
  <2>2. req[r].at \in Providers
    BY <2>1 DEF IInv, TrustOk, Pinned
  <2>3. how \in {"ok", "broken", "failed", "no_data", "refused", "rate_limited"}
    BY <2>1, <2>2, RegistryAssumption
  <2>4. CASE how = "ok"
    BY <1>4, <2>1, <2>4, ServeStep DEF Settle
  <2>5. CASE how # "ok"
    <3>1. Charge(r, req[r].at, how)
      BY <1>4, <2>5 DEF Settle
    <3>2. QED
      BY <2>1, <2>3, <2>5, <3>1, ChargeStep
  <2>6. QED
    BY <2>4, <2>5
<1>5. QED
  BY <1>1, <1>2, <1>3, <1>4, UpkeepStep DEF Next

\* The registry's inductive invariant holds of every behaviour.
THEOREM RegistryInvariant == Spec => []IInv
BY RegistryStarts, RegistryStep, PTL DEF Spec

\* The quota ledger (lib/providers/quota.ts) is what a sync, the window or the operator last
\* set it to and every call begun since, and no interleaving of dispatches and syncs begins a
\* call past the allowance or a background call in the reserve, however many providers,
\* allowances and dispatches there are.
THEOREM NoAllowanceOverspent == Spec => []AllowanceHolds
<1>1. IInv => AllowanceHolds
  BY DEF IInv, LedgerOk, AllowanceHolds
<1>2. QED
  BY <1>1, RegistryInvariant, PTL

\* Whatever dispatch serves or caches (lib/providers/dispatch.ts) passed its contract, and a
\* pinned request is answered by its pin.
THEOREM TrustedAnswersOnly == Spec => []AnswersAreTrusted
<1>1. IInv => AnswersAreTrusted
  BY DEF IInv, TrustOk
<1>2. QED
  BY <1>1, RegistryInvariant, PTL

\* A provider that keeps answering badly is out of routing by the threshold, whichever
\* dispatches saw the answers, and the console's incident log shows it open
\* (lib/providers/circuit-breaker.ts).
THEOREM BadAnswersAlwaysTrip == Spec => []BadAnswersTrip
<1>1. IInv => BadAnswersTrip
  BY DEF IInv, CircuitOk, BadAnswersTrip
<1>2. QED
  BY <1>1, RegistryInvariant, PTL

\* One provider: the two copies of the gates give the same reason.
LEMMA GatesAgree ==
  ASSUME TypeOK, NEW p \in Providers, NEW cap \in Capabilities, NEW prio \in Priorities
  PROVE  /\ RouteState(p, cap, prio) =
              IF SkipReason(p, cap, prio) = None THEN "ready" ELSE SkipReason(p, cap, prio)
         /\ RouteState(p, cap, prio) = "ready" <=> SkipReason(p, cap, prio) = None
<1>1. (BreakerSnapshot(p) = "open") <=> BreakerOpen(p)
  BY DEF BreakerSnapshot, BreakerOpen
<1>2. QED
  BY <1>1 DEF RouteState, SkipReason, QuotaBlock, None

\* The failover graph an operator reads (lib/providers/status.ts) and the dispatch loop, two
\* copies of the same gates in two files, agree in every state on every provider and on the
\* one the next dispatch would call.
THEOREM GraphAlwaysIsTheWalk == Spec => []GraphIsTheWalk
<1>1. ASSUME IInv PROVE GraphIsTheWalk
  <2> SUFFICES ASSUME NEW cap \in Capabilities, NEW prio \in Priorities
               PROVE  /\ \A p \in Providers : RouteState(p, cap, prio) =
                           IF SkipReason(p, cap, prio) = None THEN "ready"
                           ELSE SkipReason(p, cap, prio)
                      /\ LET clear == {i \in DOMAIN Chain : SkipReason(Chain[i], cap, prio) = None}
                         IN ActiveProvider(cap, prio) = IF clear = {} THEN None ELSE Chain[Min(clear)]
    BY DEF GraphIsTheWalk
  <2>1. TypeOK
    BY <1>1 DEF IInv
  <2>2. {i \in DOMAIN Chain : RouteState(Chain[i], cap, prio) = "ready"}
        = {i \in DOMAIN Chain : SkipReason(Chain[i], cap, prio) = None}
    BY <2>1, ChainTyped, GatesAgree
  <2>3. QED
    BY <2>1, <2>2, GatesAgree DEF ActiveProvider
<1>2. QED
  BY <1>1, RegistryInvariant, PTL
=============================================================================
