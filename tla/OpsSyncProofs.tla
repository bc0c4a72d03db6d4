---------------------------- MODULE OpsSyncProofs ----------------------------
(***************************************************************************)
(* Theorems about the shared operations ledger, for every set of instances   *)
(* and every bound: what is spent is accounted for, the queue holds only the *)
(* operator's newest outage command, and a snapshot shows the action that     *)
(* started it.  An instance's steps touch its own queue and its own sync, so *)
(* every invariant is a condition on one instance and one lemma shows that    *)
(* the others keep theirs.                                                    *)
(***************************************************************************)
EXTENDS OpsSync, TLAPS

\* What instance i has queued and sent was spent by a call no reset has forgotten.
SpendsOk(i) ==
  LET accounted == credited[i] + pend[i].spent + Unmerged(i)
  IN /\ pend[i].spent + flight[i].body.spent <= made[i]
     /\ accounted >= made[i]
     /\ losses = 0 => accounted = made[i]

\* A command in flight that the operator has overtaken meets its successor in the queue.
NewestOk(i) ==
  /\ pend[i].set => last[i] = "set"
  /\ pend[i].cleared # {} => last[i] = "clear" \/ (pend[i].cleared = {"all"} /\ pend[i].set)
  /\ flight[i].body.set /\ last[i] # "set" => pend[i].cleared # {}
  /\ flight[i].body.cleared # {} /\ last[i] # "clear" =>
       pend[i].set \/ (flight[i].body.cleared = {"all"} /\ flight[i].body.set)

\* A sync that a command started carries the command, and its view shows it.
ActingOk(i) ==
  /\ flight[i].at = "idle" => acting[i] = "none"
  /\ acting[i] = "set" => held[i]
  /\ acting[i] = "clear" =>
       ~held[i] /\ flight[i].body.cleared # {} /\ (flight[i].at = "merged" => ~flight[i].view.out)
  /\ acting[i] = "reset" =>
       /\ flight[i].body.spent = 0 /\ flight[i].body.reset
       /\ flight[i].at = "merged" => flight[i].view.total = 0

InstanceOk(i) == SpendsOk(i) /\ NewestOk(i) /\ ActingOk(i)

IInv == TypeOK /\ \A i \in Instances : InstanceOk(i)

USE DEF Absent

\* Every other instance keeps its queue, its sync and its history.
OthersStand(i) ==
  \A j \in Instances \ {i} :
    /\ pend'[j] = pend[j] /\ flight'[j] = flight[j]
    /\ made'[j] = made[j] /\ credited'[j] = credited[j]
    /\ last'[j] = last[j] /\ acting'[j] = acting[j] /\ held'[j] = held[j]

LEMMA OthersKeep ==
  ASSUME IInv, NEW i \in Instances, OthersStand(i), losses' \in Nat, losses' >= losses
  PROVE  \A j \in Instances \ {i} : InstanceOk(j)'
<1>1. losses \in Nat
  BY DEF IInv, TypeOK
<1>. SUFFICES ASSUME NEW j \in Instances, j # i
     PROVE InstanceOk(j)'
  OBVIOUS
<1>2. InstanceOk(j)
  BY DEF IInv
<1>3. /\ pend'[j] = pend[j] /\ flight'[j] = flight[j]
      /\ made'[j] = made[j] /\ credited'[j] = credited[j]
      /\ last'[j] = last[j] /\ acting'[j] = acting[j] /\ held'[j] = held[j]
  BY DEF OthersStand
<1>4. SpendsOk(j)'
  BY <1>1, <1>2, <1>3 DEF InstanceOk, SpendsOk, Unmerged
<1>5. NewestOk(j)'
  BY <1>2, <1>3 DEF InstanceOk, NewestOk
<1>6. ActingOk(j)'
  BY <1>2, <1>3 DEF InstanceOk, ActingOk
<1>. QED BY <1>4, <1>5, <1>6 DEF InstanceOk

\* Records with two fields changed, spelled out.
LEMMA TwoFieldsOfBatch ==
  ASSUME NEW b \in Batch, NEW x, NEW y
  PROVE  [b EXCEPT !.set = x, !.cleared = y]
           = [spent |-> b.spent, reset |-> b.reset, set |-> x, cleared |-> y]
<1>. DEFINE c == [b EXCEPT !.set = x]
<1>1. c = [spent |-> b.spent, reset |-> b.reset, set |-> x, cleared |-> b.cleared]
  BY DEF Batch
<1>2. [b EXCEPT !.set = x, !.cleared = y] = [c EXCEPT !.cleared = y]
  OBVIOUS
<1>. HIDE DEF c
<1>3. [c EXCEPT !.cleared = y] = [spent |-> b.spent, reset |-> b.reset, set |-> x, cleared |-> y]
  BY <1>1
<1>. QED BY <1>2, <1>3

LEMMA TwoFieldsOfFlight ==
  ASSUME NEW f \in [at : {"idle", "sent", "merged"}, body : Batch, view : View], NEW x, NEW y
  PROVE  [f EXCEPT !.at = x, !.view = y] = [at |-> x, body |-> f.body, view |-> y]
<1>. DEFINE c == [f EXCEPT !.at = x]
<1>1. c = [at |-> x, body |-> f.body, view |-> f.view]
  OBVIOUS
<1>2. [f EXCEPT !.at = x, !.view = y] = [c EXCEPT !.view = y]
  OBVIOUS
<1>. HIDE DEF c
<1>3. [c EXCEPT !.view = y] = [at |-> x, body |-> f.body, view |-> y]
  BY <1>1
<1>. QED BY <1>2, <1>3

\* A sync asked for with a well-formed queue: the queue is in flight, or waits.
LEMMA SyncTypes ==
  ASSUME TypeOK, NEW i \in Instances, NEW queue \in Batch, NEW by \in Commands \cup {"reset"},
         SyncOrJoin(i, queue, by)
  PROVE  /\ pend' \in [Instances -> Batch]
         /\ flight' \in [Instances -> [at : {"idle", "sent", "merged"}, body : Batch, view : View]]
         /\ \A j \in Instances : flight'[j].at = "idle" => flight'[j] = Grounded
         /\ acting' \in [Instances -> Commands \cup {"reset"}]
         /\ \A j \in Instances \ {i} :
              pend'[j] = pend[j] /\ flight'[j] = flight[j] /\ acting'[j] = acting[j]
         /\ IF flight[i].at = "idle"
            THEN pend'[i] = NoBatch /\ acting'[i] = by
                 /\ flight'[i] = [at |-> "sent", body |-> queue, view |-> NoView]
            ELSE pend'[i] = queue /\ flight'[i] = flight[i]
                 /\ acting'[i] = IF by = "none" THEN acting[i] ELSE "none"
<1>1. NoBatch \in Batch /\ NoView \in View
  BY SyncAssumption DEF NoBatch, Batch, NoView, View
<1>2. CASE flight[i].at = "idle"
  <2>. DEFINE sync == [at |-> "sent", body |-> queue, view |-> NoView]
  <2>1. /\ flight' = [flight EXCEPT ![i] = sync]
        /\ pend' = [pend EXCEPT ![i] = NoBatch]
        /\ acting' = [acting EXCEPT ![i] = by]
    BY <1>2 DEF SyncOrJoin
  <2>2. sync \in [at : {"idle", "sent", "merged"}, body : Batch, view : View] /\ sync.at = "sent"
    BY <1>1
  <2>3. pend' \in [Instances -> Batch] /\ acting' \in [Instances -> Commands \cup {"reset"}]
    BY <1>1, <2>1 DEF TypeOK
  <2>. HIDE DEF sync
  <2>4. /\ flight' \in [Instances -> [at : {"idle", "sent", "merged"}, body : Batch, view : View]]
        /\ \A j \in Instances : flight'[j].at = "idle" => flight'[j] = Grounded
    BY <2>1, <2>2 DEF TypeOK
  <2>5. pend'[i] = NoBatch /\ acting'[i] = by /\ flight'[i] = sync
    BY <2>1 DEF TypeOK
  <2>6. \A j \in Instances \ {i} :
          pend'[j] = pend[j] /\ flight'[j] = flight[j] /\ acting'[j] = acting[j]
    BY <2>1 DEF TypeOK
  <2>. QED BY <1>2, <2>3, <2>4, <2>5, <2>6 DEF sync
<1>3. CASE flight[i].at # "idle"
  <2>. DEFINE act == IF by = "none" THEN acting[i] ELSE "none"
  <2>1. flight' = flight /\ pend' = [pend EXCEPT ![i] = queue] /\ acting' = [acting EXCEPT ![i] = act]
    BY <1>3 DEF SyncOrJoin
  <2>2. act \in Commands \cup {"reset"}
    BY DEF TypeOK, Commands
  <2>. HIDE DEF act
  <2>3. pend' \in [Instances -> Batch] /\ acting' \in [Instances -> Commands \cup {"reset"}]
    BY <2>1, <2>2 DEF TypeOK
  <2>4. pend'[i] = queue /\ acting'[i] = act
    BY <2>1 DEF TypeOK
  <2>5. \A j \in Instances \ {i} :
          pend'[j] = pend[j] /\ flight'[j] = flight[j] /\ acting'[j] = acting[j]
    BY <2>1 DEF TypeOK
  <2>6. /\ flight' \in [Instances -> [at : {"idle", "sent", "merged"}, body : Batch, view : View]]
        /\ \A j \in Instances : flight'[j].at = "idle" => flight'[j] = Grounded
    BY <2>1 DEF TypeOK
  <2>. QED BY <1>3, <2>1, <2>3, <2>4, <2>5, <2>6 DEF act
<1>. QED BY <1>2, <1>3

LEMMA PollStep ==
  ASSUME IInv, NEW i \in Instances, Poll(i)
  PROVE  IInv'
<1>. DEFINE B == pend[i]
<1>1. TypeOK /\ InstanceOk(i) /\ B \in Batch /\ flight[i] = Grounded
  BY DEF IInv, TypeOK, Poll
<1>2. /\ pend' \in [Instances -> Batch]
      /\ flight' \in [Instances -> [at : {"idle", "sent", "merged"}, body : Batch, view : View]]
      /\ \A j \in Instances : flight'[j].at = "idle" => flight'[j] = Grounded
      /\ acting' \in [Instances -> Commands \cup {"reset"}]
      /\ \A j \in Instances \ {i} :
           pend'[j] = pend[j] /\ flight'[j] = flight[j] /\ acting'[j] = acting[j]
      /\ pend'[i] = NoBatch /\ acting'[i] = "none"
      /\ flight'[i] = [at |-> "sent", body |-> B, view |-> NoView]
  BY <1>1, SyncTypes DEF Poll, Commands
<1>3. UNCHANGED <<localVars, gateVars, ghostVars, commands, losses>>
  BY DEF Poll
<1>4. TypeOK'
  BY <1>1, <1>2, <1>3 DEF TypeOK, localVars, gateVars, ghostVars
<1>5. InstanceOk(i)'
  <2>1. SpendsOk(i)'
    BY <1>1, <1>2, <1>3, SyncAssumption
    DEF TypeOK, InstanceOk, SpendsOk, Unmerged, Grounded, NoBatch, Batch, ghostVars
  <2>2. NewestOk(i)'
    BY <1>1, <1>2, <1>3 DEF InstanceOk, NewestOk, NoBatch, ghostVars
  <2>3. ActingOk(i)'
    BY <1>2 DEF ActingOk
  <2>. QED BY <2>1, <2>2, <2>3 DEF InstanceOk
<1>6. OthersStand(i) /\ losses' \in Nat /\ losses' >= losses
  BY <1>1, <1>2, <1>3 DEF OthersStand, TypeOK, localVars, ghostVars
<1>. QED BY <1>4, <1>5, <1>6, OthersKeep DEF IInv

LEMMA GatewaySyncsStep ==
  ASSUME IInv, NEW i \in Instances, GatewaySyncs(i)
  PROVE  IInv'
<1>. DEFINE body == flight[i].body
            view == [total |-> total', out |-> gout']
<1>1. TypeOK /\ InstanceOk(i) /\ body \in Batch /\ flight[i].at = "sent"
  BY DEF IInv, TypeOK, GatewaySyncs
<1>2. body.spent \in Nat /\ body.reset \in BOOLEAN /\ body.set \in BOOLEAN
  BY <1>1, SyncAssumption DEF Batch
<1>3. total' = Merged(body) /\ gout' = MergedOut(body)
  BY DEF GatewaySyncs
<1>4. total' \in Nat \cup {Absent} /\ (body.reset /\ body.spent = 0 => total' = 0)
  BY <1>1, <1>2, <1>3 DEF Merged, TypeOK
<1>5. gout' \in BOOLEAN /\ (body.cleared # {} => ~gout')
  BY <1>1, <1>2, <1>3 DEF MergedOut, TypeOK
<1>6. view \in View
  BY <1>4, <1>5 DEF View
<1>. HIDE DEF view
<1>7. /\ flight' = [flight EXCEPT ![i] = [flight[i] EXCEPT !.at = "merged", !.view = view]]
      /\ credited' = [credited EXCEPT ![i] = credited[i] + body.spent]
      /\ UNCHANGED <<pend, localVars, made, last, acting, commands, losses>>
  BY DEF GatewaySyncs, view, TypeOK
<1>8. [flight[i] EXCEPT !.at = "merged", !.view = view]
        = [at |-> "merged", body |-> body, view |-> view]
  <2>1. flight[i] \in [at : {"idle", "sent", "merged"}, body : Batch, view : View]
    BY <1>1 DEF TypeOK
  <2>. QED BY <2>1, TwoFieldsOfFlight
<1>9. flight'[i] = [at |-> "merged", body |-> body, view |-> view]
  BY <1>1, <1>7, <1>8 DEF TypeOK
<1>10. TypeOK'
  <2>1. flight' \in [Instances -> [at : {"idle", "sent", "merged"}, body : Batch, view : View]]
    BY <1>1, <1>6, <1>7, <1>8 DEF TypeOK
  <2>2. \A j \in Instances : flight'[j].at = "idle" => flight'[j] = Grounded
    BY <1>1, <1>7, <1>9 DEF TypeOK
  <2>3. credited' \in [Instances -> Nat]
    BY <1>1, <1>2, <1>7 DEF TypeOK
  <2>. QED BY <1>1, <1>4, <1>5, <1>7, <2>1, <2>2, <2>3 DEF TypeOK, localVars
<1>11. InstanceOk(i)'
  <2>1. SpendsOk(i)'
    BY <1>1, <1>2, <1>7, <1>9, SyncAssumption DEF TypeOK, InstanceOk, SpendsOk, Unmerged, Batch
  <2>2. NewestOk(i)'
    BY <1>1, <1>7, <1>9 DEF InstanceOk, NewestOk
  <2>3. ActingOk(i)'
    BY <1>1, <1>4, <1>5, <1>7, <1>9 DEF InstanceOk, ActingOk, view, localVars
  <2>. QED BY <2>1, <2>2, <2>3 DEF InstanceOk
<1>12. OthersStand(i) /\ losses' \in Nat /\ losses' >= losses
  BY <1>1, <1>7 DEF OthersStand, TypeOK, localVars
<1>. QED BY <1>10, <1>11, <1>12, OthersKeep DEF IInv

LEMMA InstallStep ==
  ASSUME IInv, NEW i \in Instances, Install(i)
  PROVE  IInv'
<1>1. TypeOK /\ InstanceOk(i) /\ flight[i].at = "merged" /\ flight[i].view \in View
  BY DEF IInv, TypeOK, Install
<1>2. /\ overlay' = [overlay EXCEPT ![i] = IF flight[i].view.out THEN "out" ELSE "in"]
      /\ count' = [count EXCEPT ![i] = IF flight[i].view.total = Absent THEN @ ELSE flight[i].view.total]
      /\ flight' = [flight EXCEPT ![i] = Grounded]
      /\ acting' = [acting EXCEPT ![i] = "none"]
      /\ UNCHANGED <<pend, held, gateVars, ghostVars, commands, losses>>
  BY DEF Install
<1>3. Grounded \in [at : {"idle", "sent", "merged"}, body : Batch, view : View]
  BY SyncAssumption DEF Grounded, NoBatch, NoView, Batch, View
<1>4. TypeOK'
  <2>1. /\ flight' \in [Instances -> [at : {"idle", "sent", "merged"}, body : Batch, view : View]]
        /\ \A j \in Instances : flight'[j].at = "idle" => flight'[j] = Grounded
    BY <1>1, <1>2, <1>3 DEF TypeOK
  <2>2. count' \in [Instances -> Nat]
    BY <1>1, <1>2 DEF TypeOK, View
  <2>3. overlay' \in [Instances -> {"stale", "out", "in"}] /\ acting' \in [Instances -> Commands \cup {"reset"}]
    BY <1>1, <1>2 DEF TypeOK, Commands
  <2>. QED BY <1>1, <1>2, <2>1, <2>2, <2>3 DEF TypeOK, gateVars, ghostVars
<1>5. flight'[i] = Grounded /\ acting'[i] = "none"
  BY <1>1, <1>2 DEF TypeOK
<1>6. InstanceOk(i)'
  <2>1. SpendsOk(i)'
    BY <1>1, <1>2, <1>5, SyncAssumption
    DEF TypeOK, InstanceOk, SpendsOk, Unmerged, Grounded, NoBatch, Batch, ghostVars
  <2>2. NewestOk(i)'
    BY <1>1, <1>2, <1>5 DEF InstanceOk, NewestOk, Grounded, NoBatch, ghostVars
  <2>3. ActingOk(i)'
    BY <1>5 DEF ActingOk
  <2>. QED BY <2>1, <2>2, <2>3 DEF InstanceOk
<1>7. OthersStand(i) /\ losses' \in Nat /\ losses' >= losses
  BY <1>1, <1>2 DEF OthersStand, TypeOK, ghostVars
<1>. QED BY <1>4, <1>6, <1>7, OthersKeep DEF IInv

LEMMA PushFailsStep ==
  ASSUME IInv, NEW i \in Instances, PushFails(i)
  PROVE  IInv'
<1>. DEFINE body == flight[i].body
            now  == pend[i]
            back == Restore(now, body)
            kept == IF now.reset /\ flight[i].at = "sent" THEN made[i] - body.spent ELSE made[i]
<1>1. TypeOK /\ InstanceOk(i) /\ body \in Batch /\ now \in Batch
  BY DEF IInv, TypeOK
<1>2. /\ pend' = [pend EXCEPT ![i] = back]
      /\ made' = [made EXCEPT ![i] = kept]
      /\ flight' = [flight EXCEPT ![i] = Grounded]
      /\ acting' = [acting EXCEPT ![i] = "none"]
      /\ overlay' \in {overlay, [overlay EXCEPT ![i] = "stale"]}
      /\ UNCHANGED <<count, held, gateVars, credited, last, commands>>
      /\ losses < MaxLosses /\ losses' = losses + 1 /\ flight[i].at # "idle"
  BY DEF PushFails
<1>3. /\ body.spent \in Nat /\ now.spent \in Nat /\ made[i] \in 0..MaxSpends
      /\ now.spent + body.spent <= made[i]
  BY <1>1, SyncAssumption DEF InstanceOk, SpendsOk, TypeOK, Batch
<1>4. /\ back.spent = IF now.reset THEN now.spent ELSE now.spent + body.spent
      /\ back.reset = (now.reset \/ body.reset)
      /\ back.set = (now.set \/ (body.set /\ now.cleared = {}))
      /\ back.cleared = now.cleared \cup {c \in body.cleared : c = "all" \/ ~back.set}
  BY DEF Restore
<1>5. back \in Batch
  <2>1. back.spent \in 0..MaxSpends
    BY <1>3, <1>4, SyncAssumption
  <2>2. back.reset \in BOOLEAN /\ back.set \in BOOLEAN /\ back.cleared \in SUBSET {"one", "all"}
    BY <1>1, <1>4 DEF Batch
  <2>3. back = [spent |-> back.spent, reset |-> back.reset, set |-> back.set, cleared |-> back.cleared]
    BY DEF Restore
  <2>. HIDE DEF back
  <2>. QED BY <2>1, <2>2, <2>3 DEF Batch
<1>6. kept \in 0..MaxSpends
  BY <1>3, SyncAssumption
<1>. HIDE DEF back, kept
<1>7. Grounded \in [at : {"idle", "sent", "merged"}, body : Batch, view : View]
  BY SyncAssumption DEF Grounded, NoBatch, NoView, Batch, View
<1>8. pend'[i] = back /\ made'[i] = kept /\ flight'[i] = Grounded /\ acting'[i] = "none"
  BY <1>1, <1>2 DEF TypeOK
<1>9. TypeOK'
  <2>1. /\ flight' \in [Instances -> [at : {"idle", "sent", "merged"}, body : Batch, view : View]]
        /\ \A j \in Instances : flight'[j].at = "idle" => flight'[j] = Grounded
    BY <1>1, <1>2, <1>7 DEF TypeOK
  <2>2. pend' \in [Instances -> Batch] /\ made' \in [Instances -> 0..MaxSpends]
    BY <1>1, <1>2, <1>5, <1>6 DEF TypeOK
  <2>3. overlay' \in [Instances -> {"stale", "out", "in"}] /\ acting' \in [Instances -> Commands \cup {"reset"}]
    BY <1>1, <1>2 DEF TypeOK, Commands
  <2>4. losses' \in 0..MaxLosses
    BY <1>1, <1>2, SyncAssumption DEF TypeOK
  <2>. QED BY <1>1, <1>2, <2>1, <2>2, <2>3, <2>4 DEF TypeOK, gateVars
<1>10. InstanceOk(i)'
  <2>1. SpendsOk(i)'
    <3>1. flight'[i].body.spent = 0 /\ Unmerged(i)' = 0
      BY <1>8 DEF Grounded, NoBatch, Unmerged
    <3>2. back.spent <= kept
      BY <1>3, <1>4, SyncAssumption DEF kept
    <3>3. credited[i] \in Nat /\ credited'[i] = credited[i] /\ losses' # 0
      BY <1>1, <1>2, SyncAssumption DEF TypeOK
    <3>4. credited[i] + now.spent + (IF flight[i].at = "sent" THEN body.spent ELSE 0) >= made[i]
      BY <1>1 DEF InstanceOk, SpendsOk, Unmerged
    <3>5. credited[i] + back.spent >= kept
      BY <1>3, <1>4, <3>3, <3>4, SyncAssumption DEF kept
    <3>. QED BY <1>3, <1>4, <1>6, <1>8, <3>1, <3>2, <3>3, <3>5, SyncAssumption DEF SpendsOk
  <2>2. NewestOk(i)'
    <3>1. last'[i] = last[i]
      BY <1>2
    <3>2. NewestOk(i)
      BY <1>1 DEF InstanceOk
    <3>3. back.set => last[i] = "set"
      BY <1>4, <3>2 DEF NewestOk
    <3>4. back.cleared # {} => last[i] = "clear" \/ (back.cleared = {"all"} /\ back.set)
      <4>1. CASE now.cleared = {}
        BY <1>4, <3>2, <4>1 DEF NewestOk
      <4>2. CASE now.cleared # {}
        BY <1>4, <3>2, <4>2 DEF NewestOk
      <4>. QED BY <4>1, <4>2
    <3>5. ~flight'[i].body.set /\ flight'[i].body.cleared = {}
      BY <1>8 DEF Grounded, NoBatch
    <3>. QED BY <1>8, <3>1, <3>3, <3>4, <3>5 DEF NewestOk
  <2>3. ActingOk(i)'
    BY <1>8 DEF ActingOk
  <2>. QED BY <2>1, <2>2, <2>3 DEF InstanceOk
<1>11. OthersStand(i) /\ losses' \in Nat /\ losses' >= losses
  BY <1>1, <1>2, SyncAssumption DEF OthersStand, TypeOK
<1>. QED BY <1>9, <1>10, <1>11, OthersKeep DEF IInv

LEMMA SpendStep ==
  ASSUME IInv, NEW i \in Instances, Spend(i)
  PROVE  IInv'
<1>. DEFINE queue == [pend[i] EXCEPT !.spent = @ + 1]
<1>1. TypeOK /\ InstanceOk(i) /\ pend[i] \in Batch /\ made[i] < MaxSpends /\ made[i] \in Nat
  BY SyncAssumption DEF IInv, TypeOK, Spend
<1>2. /\ pend' = [pend EXCEPT ![i] = queue]
      /\ made' = [made EXCEPT ![i] = made[i] + 1]
      /\ count' = [count EXCEPT ![i] = count[i] + 1]
      /\ UNCHANGED <<flight, held, overlay, gateVars, credited, last, acting, commands, losses>>
  BY DEF Spend
<1>3. pend[i].spent \in Nat /\ flight[i].body.spent \in Nat /\ pend[i].spent <= made[i]
  BY <1>1, SyncAssumption DEF TypeOK, Batch, InstanceOk, SpendsOk
<1>4. queue = [spent |-> pend[i].spent + 1, reset |-> pend[i].reset, set |-> pend[i].set,
               cleared |-> pend[i].cleared]
  BY <1>1 DEF Batch
<1>5. queue \in Batch
  BY <1>1, <1>3, <1>4, SyncAssumption DEF Batch
<1>. HIDE DEF queue
<1>6. pend'[i] = queue /\ made'[i] = made[i] + 1
  BY <1>1, <1>2 DEF TypeOK
<1>7. TypeOK'
  <2>1. pend' \in [Instances -> Batch] /\ made' \in [Instances -> 0..MaxSpends] /\ count' \in [Instances -> Nat]
    BY <1>1, <1>2, <1>5, SyncAssumption DEF TypeOK
  <2>. QED BY <1>1, <1>2, <2>1 DEF TypeOK, gateVars
<1>8. InstanceOk(i)'
  <2>1. SpendsOk(i)'
    BY <1>1, <1>2, <1>3, <1>4, <1>6 DEF TypeOK, InstanceOk, SpendsOk, Unmerged
  <2>2. NewestOk(i)'
    BY <1>1, <1>2, <1>4, <1>6 DEF InstanceOk, NewestOk
  <2>3. ActingOk(i)'
    BY <1>1, <1>2 DEF InstanceOk, ActingOk
  <2>. QED BY <2>1, <2>2, <2>3 DEF InstanceOk
<1>9. OthersStand(i) /\ losses' \in Nat /\ losses' >= losses
  BY <1>1, <1>2 DEF OthersStand, TypeOK
<1>. QED BY <1>7, <1>8, <1>9, OthersKeep DEF IInv

LEMMA SimulateOutageStep ==
  ASSUME IInv, NEW i \in Instances, SimulateOutage(i)
  PROVE  IInv'
<1>. DEFINE queue == [pend[i] EXCEPT !.set = TRUE, !.cleared = @ \ {"one"}]
<1>1. TypeOK /\ InstanceOk(i) /\ pend[i] \in Batch
  BY DEF IInv, TypeOK
<1>2. /\ SyncOrJoin(i, queue, "set")
      /\ held' = [held EXCEPT ![i] = TRUE]
      /\ overlay' = Mirrored(i, "out")
      /\ last' = [last EXCEPT ![i] = "set"]
      /\ commands < MaxCommands /\ commands' = commands + 1
      /\ UNCHANGED <<count, made, gateVars, credited, losses>>
  BY DEF SimulateOutage, Command
<1>3. queue = [spent |-> pend[i].spent, reset |-> pend[i].reset, set |-> TRUE,
               cleared |-> pend[i].cleared \ {"one"}]
  BY <1>1, TwoFieldsOfBatch
<1>4. queue \in Batch
  BY <1>1, <1>3 DEF Batch
<1>. HIDE DEF queue
<1>5. /\ pend' \in [Instances -> Batch]
      /\ flight' \in [Instances -> [at : {"idle", "sent", "merged"}, body : Batch, view : View]]
      /\ \A j \in Instances : flight'[j].at = "idle" => flight'[j] = Grounded
      /\ acting' \in [Instances -> Commands \cup {"reset"}]
      /\ \A j \in Instances \ {i} :
           pend'[j] = pend[j] /\ flight'[j] = flight[j] /\ acting'[j] = acting[j]
      /\ IF flight[i].at = "idle"
         THEN pend'[i] = NoBatch /\ acting'[i] = "set"
              /\ flight'[i] = [at |-> "sent", body |-> queue, view |-> NoView]
         ELSE pend'[i] = queue /\ flight'[i] = flight[i] /\ acting'[i] = "none"
  BY <1>1, <1>2, <1>4, SyncTypes DEF Commands
<1>6. held'[i] = TRUE /\ last'[i] = "set"
  BY <1>1, <1>2 DEF TypeOK
<1>7. TypeOK'
  <2>1. overlay' \in [Instances -> {"stale", "out", "in"}] /\ held' \in [Instances -> BOOLEAN]
        /\ last' \in [Instances -> Commands]
    BY <1>1, <1>2 DEF TypeOK, Mirrored, Commands
  <2>2. commands' \in 0..MaxCommands
    BY <1>1, <1>2, SyncAssumption DEF TypeOK
  <2>. QED BY <1>1, <1>2, <1>5, <2>1, <2>2 DEF TypeOK, gateVars
<1>8. InstanceOk(i)'
  <2>1. SpendsOk(i)'
    BY <1>1, <1>2, <1>3, <1>5, SyncAssumption
    DEF TypeOK, InstanceOk, SpendsOk, Unmerged, Grounded, NoBatch, Batch
  <2>2. NewestOk(i)'
    <3>1. queue.set /\ (queue.cleared # {} => queue.cleared = {"all"})
      BY <1>1, <1>3 DEF Batch
    <3>. QED BY <1>1, <1>5, <1>6, <3>1 DEF InstanceOk, NewestOk, NoBatch
  <2>3. ActingOk(i)'
    BY <1>5, <1>6 DEF ActingOk
  <2>. QED BY <2>1, <2>2, <2>3 DEF InstanceOk
<1>9. OthersStand(i) /\ losses' \in Nat /\ losses' >= losses
  BY <1>1, <1>2, <1>5 DEF OthersStand, TypeOK
<1>. QED BY <1>7, <1>8, <1>9, OthersKeep DEF IInv

LEMMA ClearOutageStep ==
  ASSUME IInv, NEW i \in Instances, NEW all \in BOOLEAN, ClearOutage(i, all)
  PROVE  IInv'
<1>. DEFINE clears == IF all THEN {"all"} ELSE pend[i].cleared \cup {"one"}
            queue == [pend[i] EXCEPT !.set = FALSE, !.cleared = clears]
<1>1. TypeOK /\ InstanceOk(i) /\ pend[i] \in Batch
  BY DEF IInv, TypeOK
<1>2. /\ SyncOrJoin(i, queue, "clear")
      /\ held' = [held EXCEPT ![i] = FALSE]
      /\ overlay' = Mirrored(i, "in")
      /\ last' = [last EXCEPT ![i] = "clear"]
      /\ commands < MaxCommands /\ commands' = commands + 1
      /\ UNCHANGED <<count, made, gateVars, credited, losses>>
  BY DEF ClearOutage, Command
<1>3. clears \in SUBSET {"one", "all"} /\ clears # {}
  BY <1>1 DEF Batch
<1>. HIDE DEF clears
<1>4. queue = [spent |-> pend[i].spent, reset |-> pend[i].reset, set |-> FALSE, cleared |-> clears]
  BY <1>1, TwoFieldsOfBatch
<1>5. queue \in Batch
  BY <1>1, <1>3, <1>4 DEF Batch
<1>. HIDE DEF queue
<1>6. /\ pend' \in [Instances -> Batch]
      /\ flight' \in [Instances -> [at : {"idle", "sent", "merged"}, body : Batch, view : View]]
      /\ \A j \in Instances : flight'[j].at = "idle" => flight'[j] = Grounded
      /\ acting' \in [Instances -> Commands \cup {"reset"}]
      /\ \A j \in Instances \ {i} :
           pend'[j] = pend[j] /\ flight'[j] = flight[j] /\ acting'[j] = acting[j]
      /\ IF flight[i].at = "idle"
         THEN pend'[i] = NoBatch /\ acting'[i] = "clear"
              /\ flight'[i] = [at |-> "sent", body |-> queue, view |-> NoView]
         ELSE pend'[i] = queue /\ flight'[i] = flight[i] /\ acting'[i] = "none"
  BY <1>1, <1>2, <1>5, SyncTypes DEF Commands
<1>7. held'[i] = FALSE /\ last'[i] = "clear"
  BY <1>1, <1>2 DEF TypeOK
<1>8. TypeOK'
  <2>1. overlay' \in [Instances -> {"stale", "out", "in"}] /\ held' \in [Instances -> BOOLEAN]
        /\ last' \in [Instances -> Commands]
    BY <1>1, <1>2 DEF TypeOK, Mirrored, Commands
  <2>2. commands' \in 0..MaxCommands
    BY <1>1, <1>2, SyncAssumption DEF TypeOK
  <2>. QED BY <1>1, <1>2, <1>6, <2>1, <2>2 DEF TypeOK, gateVars
<1>9. InstanceOk(i)'
  <2>1. SpendsOk(i)'
    BY <1>1, <1>2, <1>4, <1>6, SyncAssumption
    DEF TypeOK, InstanceOk, SpendsOk, Unmerged, Grounded, NoBatch, Batch
  <2>2. NewestOk(i)'
    BY <1>1, <1>3, <1>4, <1>6, <1>7 DEF InstanceOk, NewestOk, NoBatch
  <2>3. ActingOk(i)'
    BY <1>3, <1>4, <1>6, <1>7 DEF ActingOk
  <2>. QED BY <2>1, <2>2, <2>3 DEF InstanceOk
<1>10. OthersStand(i) /\ losses' \in Nat /\ losses' >= losses
  BY <1>1, <1>2, <1>6 DEF OthersStand, TypeOK
<1>. QED BY <1>8, <1>9, <1>10, OthersKeep DEF IInv

LEMMA ResetQuotaStep ==
  ASSUME IInv, NEW i \in Instances, ResetQuota(i)
  PROVE  IInv'
<1>. DEFINE queue == [pend[i] EXCEPT !.spent = 0, !.reset = TRUE]
            one   == [pend[i] EXCEPT !.spent = 0]
            left  == made[i] - pend[i].spent
<1>1. TypeOK /\ InstanceOk(i) /\ pend[i] \in Batch
  BY DEF IInv, TypeOK
<1>2. /\ SyncOrJoin(i, queue, "reset")
      /\ count' = [count EXCEPT ![i] = 0]
      /\ made' = [made EXCEPT ![i] = left]
      /\ commands < MaxCommands /\ commands' = commands + 1
      /\ UNCHANGED <<held, overlay, last, gateVars, credited, losses>>
  BY DEF ResetQuota, Command
<1>3. one = [spent |-> 0, reset |-> pend[i].reset, set |-> pend[i].set, cleared |-> pend[i].cleared]
  BY <1>1 DEF Batch
<1>4. queue = [one EXCEPT !.reset = TRUE]
  OBVIOUS
<1>. HIDE DEF one
<1>. HIDE DEF queue
<1>5. queue = [spent |-> 0, reset |-> TRUE, set |-> pend[i].set, cleared |-> pend[i].cleared]
  BY <1>3, <1>4
<1>6. queue \in Batch
  BY <1>1, <1>5, SyncAssumption DEF Batch
<1>7. pend[i].spent \in Nat /\ flight[i].body.spent \in Nat /\ left \in 0..MaxSpends
  BY <1>1, SyncAssumption DEF TypeOK, Batch, InstanceOk, SpendsOk
<1>8. /\ pend' \in [Instances -> Batch]
      /\ flight' \in [Instances -> [at : {"idle", "sent", "merged"}, body : Batch, view : View]]
      /\ \A j \in Instances : flight'[j].at = "idle" => flight'[j] = Grounded
      /\ acting' \in [Instances -> Commands \cup {"reset"}]
      /\ \A j \in Instances \ {i} :
           pend'[j] = pend[j] /\ flight'[j] = flight[j] /\ acting'[j] = acting[j]
      /\ IF flight[i].at = "idle"
         THEN pend'[i] = NoBatch /\ acting'[i] = "reset"
              /\ flight'[i] = [at |-> "sent", body |-> queue, view |-> NoView]
         ELSE pend'[i] = queue /\ flight'[i] = flight[i] /\ acting'[i] = "none"
  BY <1>1, <1>2, <1>6, SyncTypes DEF Commands
<1>9. made'[i] = left
  BY <1>1, <1>2 DEF TypeOK
<1>10. TypeOK'
  <2>1. made' \in [Instances -> 0..MaxSpends] /\ count' \in [Instances -> Nat]
    BY <1>1, <1>2, <1>7 DEF TypeOK
  <2>2. commands' \in 0..MaxCommands
    BY <1>1, <1>2, SyncAssumption DEF TypeOK
  <2>. QED BY <1>1, <1>2, <1>8, <2>1, <2>2 DEF TypeOK, gateVars
<1>11. InstanceOk(i)'
  <2>1. SpendsOk(i)'
    BY <1>1, <1>2, <1>5, <1>7, <1>8, <1>9, SyncAssumption
    DEF TypeOK, InstanceOk, SpendsOk, Unmerged, Grounded, NoBatch
  <2>2. NewestOk(i)'
    BY <1>1, <1>2, <1>5, <1>8 DEF InstanceOk, NewestOk, NoBatch
  <2>3. ActingOk(i)'
    BY <1>5, <1>8 DEF ActingOk
  <2>. QED BY <2>1, <2>2, <2>3 DEF InstanceOk
<1>12. OthersStand(i) /\ losses' \in Nat /\ losses' >= losses
  BY <1>1, <1>2, <1>8 DEF OthersStand, TypeOK
<1>. QED BY <1>10, <1>11, <1>12, OthersKeep DEF IInv

LEMMA OutageExpiresStep ==
  ASSUME IInv, NEW i \in Instances, OutageExpires(i)
  PROVE  IInv'
<1>1. TypeOK /\ InstanceOk(i) /\ flight[i] = Grounded
  BY DEF IInv, TypeOK, OutageExpires
<1>2. /\ held' = [held EXCEPT ![i] = FALSE]
      /\ UNCHANGED <<pend, flight, count, overlay, gateVars, ghostVars, acting, commands, losses>>
  BY DEF OutageExpires
<1>3. TypeOK'
  BY <1>1, <1>2 DEF TypeOK, gateVars, ghostVars
<1>4. InstanceOk(i)'
  <2>1. SpendsOk(i)' /\ NewestOk(i)'
    BY <1>1, <1>2 DEF InstanceOk, SpendsOk, NewestOk, Unmerged, ghostVars
  <2>2. acting[i] = "none"
    BY <1>1 DEF InstanceOk, ActingOk, Grounded
  <2>3. ActingOk(i)'
    BY <1>2, <2>2 DEF ActingOk
  <2>. QED BY <2>1, <2>3 DEF InstanceOk
<1>5. OthersStand(i) /\ losses' \in Nat /\ losses' >= losses
  BY <1>1, <1>2, SyncAssumption DEF OthersStand, TypeOK, ghostVars
<1>. QED BY <1>3, <1>4, <1>5, OthersKeep DEF IInv

LEMMA GatewayRestartsStep ==
  ASSUME IInv, GatewayRestarts
  PROVE  IInv'
<1>1. /\ losses < MaxLosses /\ losses' = losses + 1
      /\ total' = Absent /\ gout' = FALSE
      /\ UNCHANGED <<pend, flight, localVars, ghostVars, acting, commands>>
  BY DEF GatewayRestarts
<1>2. TypeOK'
  <2>1. losses' \in 0..MaxLosses
    BY <1>1, SyncAssumption DEF IInv, TypeOK
  <2>2. total' \in Nat \cup {Absent} /\ gout' \in BOOLEAN
    BY <1>1
  <2>. QED BY <1>1, <2>1, <2>2 DEF IInv, TypeOK, localVars, ghostVars
<1>. SUFFICES ASSUME NEW i \in Instances PROVE InstanceOk(i)'
  BY <1>2 DEF IInv
<1>3. TypeOK /\ InstanceOk(i) /\ losses \in Nat
  BY DEF IInv, TypeOK
<1>4. SpendsOk(i)'
  BY <1>1, <1>3 DEF InstanceOk, SpendsOk, Unmerged, ghostVars
<1>5. NewestOk(i)' /\ ActingOk(i)'
  BY <1>1, <1>3 DEF InstanceOk, NewestOk, ActingOk, localVars, ghostVars
<1>. QED BY <1>4, <1>5 DEF InstanceOk

-----------------------------------------------------------------------------
LEMMA InitIsGood == Init => IInv
<1>. SUFFICES ASSUME Init PROVE IInv
  OBVIOUS
<1>1. NoBatch \in Batch /\ NoView \in View
  BY SyncAssumption DEF NoBatch, Batch, NoView, View
<1>2. Grounded \in [at : {"idle", "sent", "merged"}, body : Batch, view : View]
  BY <1>1 DEF Grounded
<1>3. TypeOK
  <2>1. /\ pend \in [Instances -> Batch] /\ count \in [Instances -> Nat] /\ held \in [Instances -> BOOLEAN]
        /\ overlay \in [Instances -> {"stale", "out", "in"}]
    BY <1>1 DEF Init
  <2>2. /\ flight \in [Instances -> [at : {"idle", "sent", "merged"}, body : Batch, view : View]]
        /\ \A i \in Instances : flight[i].at = "idle" => flight[i] = Grounded
    BY <1>2 DEF Init
  <2>3. /\ made \in [Instances -> 0..MaxSpends] /\ credited \in [Instances -> Nat]
        /\ commands \in 0..MaxCommands /\ losses \in 0..MaxLosses
    BY SyncAssumption DEF Init
  <2>4. /\ total \in Nat \cup {Absent} /\ gout \in BOOLEAN
        /\ last \in [Instances -> Commands] /\ acting \in [Instances -> Commands \cup {"reset"}]
    BY DEF Init, Commands
  <2>. QED BY <2>1, <2>2, <2>3, <2>4 DEF TypeOK
<1>4. \A i \in Instances : InstanceOk(i)
  BY DEF Init, InstanceOk, SpendsOk, NewestOk, ActingOk, Unmerged, Grounded, NoBatch
<1>. QED BY <1>3, <1>4 DEF IInv

LEMMA StepsAreGood == IInv /\ [Next]_vars => IInv'
<1>. SUFFICES ASSUME IInv, [Next]_vars PROVE IInv'
  OBVIOUS
<1>1. CASE UNCHANGED vars
  <2>1. TypeOK'
    BY <1>1 DEF IInv, TypeOK, vars, localVars, gateVars, ghostVars
  <2>2. \A i \in Instances : InstanceOk(i)'
    BY <1>1 DEF IInv, InstanceOk, SpendsOk, NewestOk, ActingOk, Unmerged, vars, localVars, gateVars, ghostVars
  <2>. QED BY <2>1, <2>2 DEF IInv
<1>2. CASE \E i \in Instances : Poll(i) \/ GatewaySyncs(i) \/ Install(i) \/ PushFails(i) \/ Spend(i)
  BY <1>2, PollStep, GatewaySyncsStep, InstallStep, PushFailsStep, SpendStep
<1>3. CASE \E i \in Instances : SimulateOutage(i) \/ ResetQuota(i) \/ OutageExpires(i)
  BY <1>3, SimulateOutageStep, ResetQuotaStep, OutageExpiresStep
<1>4. CASE \E i \in Instances, all \in BOOLEAN : ClearOutage(i, all)
  BY <1>4, ClearOutageStep
<1>5. CASE GatewayRestarts
  BY <1>5, GatewayRestartsStep
<1>. QED BY <1>1, <1>2, <1>3, <1>4, <1>5 DEF Next

\* The invariant the theorems follow from.
THEOREM LedgerIsGood == Spec => []IInv
BY InitIsGood, StepsAreGood, PTL DEF Spec

\* Every call is queued, on its way or credited by the gateway, whatever pushes fail, however
\* often the gateway restarts and whatever is reset around it; without a failure exactly once.
THEOREM NoSpendIsLost == Spec => []SpendsAccounted
<1>1. IInv => SpendsAccounted
  BY DEF IInv, InstanceOk, SpendsOk, SpendsAccounted
<1>. QED BY <1>1, LedgerIsGood, PTL

\* However commands and failed pushes interleave, the queue holds no outage command a later
\* one of the operator has overtaken, but for a clear of all outages, which is then queued
\* together with the newer set.
THEOREM OvertakenIsDropped == Spec => []NewestIsQueued
<1>1. IInv => NewestIsQueued
  BY DEF IInv, InstanceOk, NewestOk, NewestIsQueued
<1>. QED BY <1>1, LedgerIsGood, PTL

\* The snapshot an action builds shows the action when it started the sync it waits for.
THEOREM SnapshotsReflect == Spec => SnapshotReflects
<1>. DEFINE Shows(i) ==
       CASE acting[i] = "set" -> OutageFor(i)' [] acting[i] = "clear" -> ~OutageFor(i)'
         [] acting[i] = "reset" -> count'[i] <= flight[i].body.spent
         [] OTHER -> TRUE
<1>1. ASSUME IInv, NEW i \in Instances, Install(i)
      PROVE  Shows(i)
  <2>1. TypeOK /\ ActingOk(i)
    BY <1>1 DEF IInv, InstanceOk
  <2>2. /\ overlay' = [overlay EXCEPT ![i] = IF flight[i].view.out THEN "out" ELSE "in"]
        /\ count' = [count EXCEPT ![i] = IF flight[i].view.total = Absent THEN @ ELSE flight[i].view.total]
        /\ held' = held /\ flight[i].at = "merged"
    BY <1>1 DEF Install
  <2>3. CASE acting[i] = "set"
    BY <2>1, <2>2, <2>3 DEF ActingOk, OutageFor
  <2>4. CASE acting[i] = "clear"
    BY <2>1, <2>2, <2>4 DEF ActingOk, OutageFor, TypeOK
  <2>5. CASE acting[i] = "reset"
    BY <2>1, <2>2, <2>5 DEF ActingOk, TypeOK
  <2>. QED BY <2>3, <2>4, <2>5
<1>2. IInv => [\A i \in Instances : Install(i) => Shows(i)]_vars
  BY <1>1
<1>. QED BY <1>2, LedgerIsGood, PTL DEF SnapshotReflects

=============================================================================
