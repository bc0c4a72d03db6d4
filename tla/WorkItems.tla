------------------------------ MODULE WorkItems ------------------------------
(***************************************************************************)
(* The Data tab's work queue: the browsers' half (use-data-work-queue.ts   *)
(* with the calls of data-work-queue.ts and data-work-delete.ts), which    *)
(* edits optimistically, holds what the gateway did not answer and replays *)
(* it on the next load, and the gateway's half (work_items.py), which      *)
(* mints ids and writes rows by compare-and-swap.                          *)
(*                                                                         *)
(* A handler is one coroutine with no await, so a gateway process runs one *)
(* at a time; with the Postgres backend several processes share the table  *)
(* and a handler's calls to it interleave with theirs.  A row is its       *)
(* version, the edit whose content it has, and the edit that created it.   *)
(***************************************************************************)
EXTENDS Integers, Sequences, FiniteSets

CONSTANTS
  Browsers,    \* readers whose Data tab is followed
  Loaders,     \* loads one browser may have out at once
  Processes,   \* how many gateway processes share the table
  MaxEdits,    \* edits the readers make, all together
  MaxFaults,   \* refused, lost or failed calls
  LastId       \* ids a table can number

ASSUME SizesAssumption ==
  /\ Processes \in Nat \ {0}
  /\ MaxEdits \in Nat
  /\ MaxFaults \in Nat
  /\ LastId \in Nat \ {0, 1}
  /\ "mutate" \notin Loaders

VARIABLES
  rows,     \* the table: a row per id, Absent where there is none
  minted,   \* the highest number handed out (the sequence, or data_work_item_ids)
  edits,    \* the readers' mutations in the order they made them
  items,    \* what each board shows
  held,     \* each browser's held writes
  load,     \* each load under way
  wire,     \* requests no process has taken
  running,  \* the handlers under way, one to a process
  replies,  \* answers no browser has read
  applied,  \* history: every write the table took
  told,     \* history: edits a reader was told did not happen, by an answer that was read
  misread,  \* history: edits told so because the body of a good answer was not
  faults    \* faults so far

vars == <<rows, minted, edits, items, held, load, wire, running, replies, applied, told, misread, faults>>
browser == <<edits, items, held, load, told, misread>>
table == <<rows, minted, applied>>

Ids == 1 .. LastId
Edits == 1 .. MaxEdits

\* "born" of a row a board made up and no gateway has minted.
Unborn == MaxEdits + 1

Row == [ver : Nat, val : 0 .. MaxEdits, born : 0 .. Unborn]
Absent == [ver |-> 0, val |-> 0, born |-> 0]

\* Everyone else who edits the table; their boards are not followed.
Elsewhere == "elsewhere"

Mutation == [by : Browsers \cup {Elsewhere}, kind : {"create", "move", "delete"}, id : Ids, item : Row]

\* A request for an edit: sent by mutate or by a load's replay, and live
\* while its sender still waits for the answer.
Request == [from : {"mutate"} \cup Loaders, edit : Edits, ver : Nat, live : BOOLEAN]

\* "unread" is a good status whose body broke off or held no row.
Codes == {"ok", "unread", "missing", "conflict", "refused", "unreachable"}

\* A handler: the call it makes next, its request and the row it is about.
Handler == [pc : {"add", "swap", "remove", "reread"}, req : Request, id : Ids]

\* A load that is not under way.
NoLoad == [pc |-> "idle"]

TypeShape ==
  /\ rows \in [Ids -> Row]
  /\ minted \in 0 .. LastId
  /\ edits \in Seq(Mutation)
  /\ items \in [Browsers -> [Ids -> Row]]
  /\ held \in [Browsers -> Seq(Edits)]
  /\ wire \in SUBSET Request
  /\ running \in SUBSET Handler
  /\ Cardinality(running) <= Processes
  /\ \A q \in replies : q.req \in Request /\ q.code \in Codes /\ q.row \in Row
  /\ faults \in 0 .. MaxFaults

Mine(req) == edits[req.edit]

\* The requests whose senders are waiting.
Waiting ==
  {r \in wire \cup {h.req : h \in running} \cup {q.req : q \in replies} : r.live}

----------------------------------------------------------------------------
\* The first rows a desk ever made.
Seeded(ids) == [id \in Ids |-> IF id \in ids THEN [ver |-> 1, val |-> 0, born |-> 0] ELSE Absent]

\* Two rows were made and the second has been deleted; the boards were loaded
\* before that and have not read the table since.
Init ==
  /\ rows = Seeded({1})
  /\ minted = 2
  /\ items = [b \in Browsers |-> Seeded({1, 2})]
  /\ edits = << >>
  /\ held = [b \in Browsers |-> << >>]
  /\ load = [b \in Browsers |-> [l \in Loaders |-> NoLoad]]
  /\ wire = {}
  /\ running = {}
  /\ replies = {}
  /\ applied = {}
  /\ told = {}
  /\ misread = {}
  /\ faults = 0

----------------------------------------------------------------------------
(* The board: every gesture changes the screen first and sends after.      *)

\* The id a new card shows until the gateway mints one (nextDataWorkId): one
\* more than the largest on this screen, whatever the table has.
NextLocalId(b) ==
  CHOOSE id \in 1 .. LastId + 1 :
    /\ \A k \in Ids : items[b][k] # Absent => k < id
    /\ id = 1 \/ (id - 1 \in Ids /\ items[b][id - 1] # Absent)

Gesture(b, kind, id, item, shown, ver) ==
  /\ Len(edits) < MaxEdits
  /\ edits' = Append(edits, [by |-> b, kind |-> kind, id |-> id, item |-> item])
  /\ items' = [items EXCEPT ![b][id] = shown]
  /\ wire' = wire \cup {[from |-> "mutate", edit |-> Len(edits) + 1, ver |-> ver, live |-> TRUE]}
  /\ UNCHANGED <<table, held, load, running, replies, told, misread, faults>>

SubmitNewItem(b) ==
  LET id == NextLocalId(b)
      item == [ver |-> 1, val |-> Len(edits) + 1, born |-> Unborn]
  IN /\ id \in Ids
     /\ Gesture(b, "create", id, item, item, 0)

Move(b, id) ==
  LET item == items[b][id]
  IN /\ item # Absent
     /\ Gesture(b, "move", id, item, [item EXCEPT !.val = Len(edits) + 1], item.ver)

Remove(b, id) ==
  /\ items[b][id] # Absent
  /\ Gesture(b, "delete", id, items[b][id], Absent, 0)

SendElsewhere(kind, id, item, ver) ==
  /\ Len(edits) < MaxEdits
  /\ edits' = Append(edits, [by |-> Elsewhere, kind |-> kind, id |-> id, item |-> item])
  /\ wire' = wire \cup {[from |-> "mutate", edit |-> Len(edits) + 1, ver |-> ver, live |-> FALSE]}
  /\ UNCHANGED <<table, items, held, load, running, replies, told, misread, faults>>

\* Another reader adds a card, deletes a row, or moves one as some board showed
\* it: by now the table may have a later version.
EditElsewhere ==
  \/ SendElsewhere("create", 1, [ver |-> 1, val |-> Len(edits) + 1, born |-> Unborn], 0)
  \/ \E id \in Ids : rows[id] # Absent /\ SendElsewhere("delete", id, rows[id], 0)
  \/ \E id \in Ids : \E ver \in 1 .. rows[id].ver :
       SendElsewhere("move", id, [rows[id] EXCEPT !.ver = ver], ver)

----------------------------------------------------------------------------
(* The gateway: one handler per process, each call to the table a step.    *)

\* An answer goes back only to a sender that still waits.
Answer(req, code, id, row) ==
  IF req.live THEN {[req |-> req, code |-> code, id |-> id, row |-> row]} ELSE {}

\* The handler leaves with its answer, or goes on to its next call.
Leave(h, code, row) ==
  /\ running' = running \ {h}
  /\ replies' = replies \cup Answer(h.req, code, h.id, row)

GoesOn(h) ==
  /\ running' = (running \ {h}) \cup {[h EXCEPT !.pc = "reread"]}
  /\ replies' = replies

Starts(pc, req, id) == running' = running \cup {[pc |-> pc, req |-> req, id |-> id]}

\* A number that follows the rows that are left.
NextIdOfRows == 1 + CHOOSE n \in 0 .. LastId :
  (n = 0 \/ rows[n] # Absent) /\ \A k \in Ids : rows[k] # Absent => k <= n

\* A number is taken in one atomic call and never handed out again.
NextId == minted + 1

TakeCreate(req) ==
  /\ Mine(req).kind = "create"
  /\ NextId \in Ids
  /\ minted' = NextId
  /\ Starts("add", req, NextId)
  /\ UNCHANGED <<rows, applied, replies>>

\* patch and delete read the row first.
TakeOther(req) ==
  LET m == Mine(req)
      row == rows[m.id]
      stale == m.kind = "move" /\ row.ver # req.ver
  IN /\ m.kind # "create"
     /\ \/ /\ row = Absent
           /\ replies' = replies \cup Answer(req, "missing", m.id, row)
           /\ running' = running
        \/ /\ row # Absent /\ stale
           /\ replies' = replies \cup Answer(req, "conflict", m.id, row)
           /\ running' = running
        \/ /\ row # Absent /\ ~stale
           /\ Starts(IF m.kind = "move" THEN "swap" ELSE "remove", req, m.id)
           /\ replies' = replies
     /\ UNCHANGED table

Take(req) ==
  /\ Cardinality(running) < Processes
  /\ req \in wire
  /\ wire' = wire \ {req}
  /\ TakeCreate(req) \/ TakeOther(req)
  /\ UNCHANGED <<browser, faults>>

Write(id, row, entry) ==
  /\ rows' = [rows EXCEPT ![id] = row]
  /\ applied' = applied \cup {entry}

Entry(req, id, born) == [edit |-> req.edit, id |-> id, ver |-> req.ver, born |-> born]

Add(h) ==
  /\ h.pc = "add"
  /\ Write(h.id, [ver |-> 1, val |-> h.req.edit, born |-> h.req.edit], Entry(h.req, h.id, h.req.edit))
  /\ GoesOn(h)
  /\ UNCHANGED <<minted, browser, wire, faults>>

\* A filter that names the id alone.
SwapMatchesAny(req, row) == TRUE

\* The version is in the filter of the write; a filter that matches nothing
\* reads the row again to say why.
SwapMatches(req, row) == row.ver = req.ver

Swap(h) ==
  LET row == rows[h.id]
      matches == row # Absent /\ SwapMatches(h.req, row)
  IN /\ h.pc = "swap"
     /\ \/ /\ matches
           /\ Write(h.id, [row EXCEPT !.ver = h.req.ver + 1, !.val = h.req.edit],
                    Entry(h.req, h.id, row.born))
           /\ GoesOn(h)
        \/ /\ ~matches
           /\ Leave(h, IF row = Absent THEN "missing" ELSE "conflict", row)
           /\ UNCHANGED <<rows, applied>>
     /\ UNCHANGED <<minted, browser, wire, faults>>

\* What create and patch return is the row as it is now.  If another process
\* has deleted it the assertion fails and the caller gets a 500.
Reread(h) ==
  /\ h.pc = "reread"
  /\ Leave(h, IF rows[h.id] = Absent THEN "unreachable" ELSE "ok", rows[h.id])
  /\ UNCHANGED <<table, browser, wire, faults>>

\* A delete that trusts the row it read before.
DeleteTrustsRead(h) ==
  /\ h.pc = "remove"
  /\ Leave(h, "ok", rows[h.id])
  /\ Write(h.id, Absent, Entry(h.req, h.id, rows[h.id].born))
  /\ UNCHANGED <<minted, browser, wire, faults>>

Delete(h) ==
  /\ h.pc = "remove"
  /\ \/ /\ rows[h.id] = Absent
        /\ Leave(h, "missing", Absent)
        /\ UNCHANGED <<rows, applied>>
     \/ /\ rows[h.id] # Absent
        /\ Leave(h, "ok", rows[h.id])
        /\ Write(h.id, Absent, Entry(h.req, h.id, rows[h.id].born))
  /\ UNCHANGED <<minted, browser, wire, faults>>

----------------------------------------------------------------------------
(* Faults.  Every answer of 500 or more, and no answer at all, is          *)
(* "unreachable" to the browser; a body that cannot be read is not: with a *)
(* good status it is one more rejection, whatever the table took.          *)

Fault == faults < MaxFaults /\ faults' = faults + 1

\* A failure on the gateway read as a rejection.
StoreFailsRejected(h) ==
  /\ Fault
  /\ Leave(h, "refused", Absent)
  /\ UNCHANGED <<table, browser, wire>>

\* The store raises: the handler stops where it is.
StoreFails(h) ==
  /\ Fault
  /\ Leave(h, "unreachable", Absent)
  /\ UNCHANGED <<table, browser, wire>>

\* The request dies on its way.
Lost(req) ==
  /\ Fault
  /\ req \in wire /\ req.live
  /\ wire' = wire \ {req}
  /\ replies' = replies \cup Answer(req, "unreachable", Mine(req).id, Absent)
  /\ UNCHANGED <<table, browser, running>>

\* The route wants a credential, or turns the body down.
Refuse(req) ==
  /\ Fault
  /\ req \in wire /\ req.live
  /\ wire' = wire \ {req}
  /\ replies' = replies \cup Answer(req, "refused", Mine(req).id, Absent)
  /\ UNCHANGED <<table, browser, running>>

\* The body breaks off behind its headers, for the browser or for the route,
\* which relays null with the status it had.
BodyBreaks(q) ==
  /\ Fault
  /\ q \in replies /\ q.code \in {"ok", "conflict"}
  /\ replies' = (replies \ {q}) \cup
       {[q EXCEPT !.code = IF @ = "ok" THEN "unread" ELSE @, !.row = Absent]}
  /\ UNCHANGED <<table, browser, wire, running>>

Orphan(req) == [req EXCEPT !.live = FALSE]
OrphanIf(r, req) == IF r = req THEN Orphan(r) ELSE r

\* The browser's six seconds run out; the request goes on without it.
TimeOut(req) ==
  /\ Fault
  /\ req \in Waiting
  /\ wire' = {OrphanIf(r, req) : r \in wire}
  /\ running' = {[h EXCEPT !.req = OrphanIf(@, req)] : h \in running}
  /\ replies' = {q \in replies : q.req # req} \cup Answer(req, "unreachable", Mine(req).id, Absent)
  /\ UNCHANGED <<table, browser>>

----------------------------------------------------------------------------
(* The browser reads an answer to a mutation of its own.                   *)

\* The gateway minted the id; the local placeholder goes.
Replaced(list, m, q) == [[list EXCEPT ![m.id] = Absent] EXCEPT ![q.id] = q.row]

\* What the browser takes for a rejection.
Rejected(q) == q.code \in {"refused", "unread"}

\* What the board shows after the answer q to the mutation m.
Reconciled(list, m, q) ==
  CASE q.code = "ok" /\ m.kind = "create" -> Replaced(list, m, q)
    [] q.code = "ok" /\ m.kind = "move"   -> [list EXCEPT ![m.id] = q.row]
    [] q.code = "conflict" /\ q.row # Absent   -> [list EXCEPT ![m.id] = q.row]
    [] Rejected(q) /\ m.kind = "create"   -> [list EXCEPT ![m.id] = Absent]
    [] Rejected(q) /\ m.kind # "create"   -> [list EXCEPT ![m.id] = m.item]
    [] q.code = "missing" /\ m.kind = "move"   -> [list EXCEPT ![m.id] = m.item]
    [] OTHER -> list

\* The answers, read in full, whose notice says the edit did not happen.
SaysNo(m, q) == q.code \in {"refused", "conflict"} \/ (q.code = "missing" /\ m.kind = "move")

MutateAnswered(q) ==
  LET m == Mine(q.req) IN
  /\ q \in replies /\ q.req.from = "mutate"
  /\ replies' = replies \ {q}
  /\ items' = [items EXCEPT ![m.by] = Reconciled(@, m, q)]
  /\ held' = IF q.code = "unreachable" THEN [held EXCEPT ![m.by] = Append(@, q.req.edit)] ELSE held
  /\ told' = IF SaysNo(m, q) THEN told \cup {q.req.edit} ELSE told
  /\ misread' = IF q.code = "unread" THEN misread \cup {q.req.edit} ELSE misread
  /\ UNCHANGED <<table, edits, load, wire, running, faults>>

----------------------------------------------------------------------------
(* loadOnce: read the list, replay what is held against it, show the rest. *)

LoadRead(b, l) ==
  /\ load[b][l] = NoLoad
  /\ Cardinality(running) < Processes
  /\ load' = [load EXCEPT ![b][l] = [pc |-> "fetched", list |-> rows]]
  /\ UNCHANGED <<table, edits, items, held, wire, running, replies, told, misread, faults>>

\* The list arrives.  With nothing held it is what the board shows; otherwise
\* the replay takes the holds of this moment.
LoadArrives(b, l) ==
  /\ load[b][l].pc = "fetched"
  /\ \/ /\ held[b] = << >>
        /\ items' = [items EXCEPT ![b] = load[b][l].list]
        /\ load' = [load EXCEPT ![b][l] = NoLoad]
     \/ /\ held[b] # << >>
        /\ load' = [load EXCEPT ![b][l] =
                      [pc |-> "replay", list |-> @.list, pending |-> held[b], still |-> << >>]]
        /\ items' = items
  /\ UNCHANGED <<table, edits, held, wire, running, replies, told, misread, faults>>

\* The next held write is sent; a move of a row the list does not have is
\* passed over.
ReplaySend(b, l) ==
  LET r == load[b][l]
      e == Head(r.pending)
      m == edits[e]
      row == r.list[m.id]
  IN /\ r.pc = "replay" /\ r.pending # << >>
     /\ IF m.kind = "move" /\ row = Absent
        THEN /\ load' = [load EXCEPT ![b][l].pending = Tail(@)]
             /\ wire' = wire
        ELSE /\ load' = [load EXCEPT ![b][l].pc = "waiting"]
             /\ wire' = wire \cup {[from |-> l, edit |-> e, live |-> TRUE,
                                    ver |-> IF m.kind = "move" THEN row.ver ELSE 0]}
     /\ UNCHANGED <<table, edits, items, held, running, replies, told, misread, faults>>

\* The list after the answer q to the replay of m.
Replayed(list, m, q) ==
  CASE q.code = "ok" /\ m.kind = "create" -> Replaced(list, m, q)
    [] q.code \in {"ok", "missing"} /\ m.kind = "delete" -> [list EXCEPT ![m.id] = Absent]
    [] q.code \in {"ok", "conflict"} /\ m.kind = "move" /\ q.row # Absent -> [list EXCEPT ![m.id] = q.row]
    [] OTHER -> list

\* A replay that keeps every write the gateway did not confirm.
StillHeldUnlessSaved(q) == q.code # "ok"

\* Only a write that had no answer is tried again.
StillHeld(q) == q.code = "unreachable"

ReplayAnswered(b, l, q) ==
  LET r == load[b][l]
      m == Mine(q.req)
  IN
  /\ r.pc = "waiting"
  /\ q \in replies /\ q.req.from = l /\ m.by = b
  /\ replies' = replies \ {q}
  /\ load' = [load EXCEPT ![b][l] =
       [pc |-> "replay", list |-> Replayed(r.list, m, q), pending |-> Tail(r.pending),
        still |-> IF StillHeld(q) THEN Append(r.still, q.req.edit) ELSE r.still]]
  /\ UNCHANGED <<table, edits, items, held, wire, running, told, misread, faults>>

\* The replay is over: setHeld(stillHeld), then setItems(merged).
Show(b, l) ==
  LET r == load[b][l] IN
  /\ r.pc = "replay" /\ r.pending = << >>
  /\ items' = [items EXCEPT ![b] = r.list]
  /\ held' = [held EXCEPT ![b] = r.still]
  /\ load' = [load EXCEPT ![b][l] = NoLoad]
  /\ UNCHANGED <<table, edits, wire, running, replies, told, misread, faults>>

----------------------------------------------------------------------------
Edit(b) == SubmitNewItem(b) \/ \E id \in Ids : Move(b, id) \/ Remove(b, id)

Serve(h) == Add(h) \/ Swap(h) \/ Reread(h) \/ Delete(h)

Working ==
  \/ \E h \in running : Serve(h)
  \/ \E req \in wire : Take(req)
  \/ \E q \in replies : MutateAnswered(q)

Faulty ==
  \/ \E h \in running : StoreFails(h)
  \/ \E req \in wire : Lost(req) \/ Refuse(req)
  \/ \E req \in Waiting : TimeOut(req)
  \/ \E q \in replies : BodyBreaks(q)

Loading(b, l) ==
  \/ LoadArrives(b, l) \/ ReplaySend(b, l) \/ Show(b, l)
  \/ \E q \in replies : ReplayAnswered(b, l, q)

Next ==
  \/ \E b \in Browsers : Edit(b)
  \/ EditElsewhere
  \/ Working
  \/ Faulty
  \/ \E b \in Browsers, l \in Loaders : LoadRead(b, l) \/ Loading(b, l)

Spec == Init /\ [][Next]_vars

\* What runs on its own: while a handler can go on, a free process can take
\* what waits or an answer can be read, one of these happens; and the poll of
\* an open tab keeps loading.  Readers need not edit and calls need not fail.
Fairness ==
  /\ WF_vars(Working)
  /\ \A b \in Browsers, l \in Loaders : WF_vars(Loading(b, l)) /\ SF_vars(LoadRead(b, l))

FairSpec == Spec /\ Fairness

----------------------------------------------------------------------------
\* Every variable keeps its shape, and a load that waits waits for exactly
\* one live request (6-second deadline of data-work-queue.ts:92-100).
TypeOK ==
  /\ TypeShape
  /\ \A b \in Browsers, l \in Loaders :
       Cardinality({r \in Waiting : r.from = l /\ Mine(r).by = b})
         = IF load[b][l].pc = "waiting" THEN 1 ELSE 0

\* Of the edits that quote the same version of a row at most one is written,
\* whichever processes run them and however their reads and writes interleave
\* (work_items.py:224-235).
OneWinner ==
  \A a, c \in applied :
    a.id = c.id /\ a.ver = c.ver /\ edits[a.edit].kind = "move" /\ edits[c.edit].kind = "move"
      => a = c

\* A move or delete the reader aimed at a row the gateway had minted is never
\* written to another row, whatever was deleted and created in between and
\* however long the edit was held: a deleted row's number stays retired
\* (work_items.py:278-281).
LandsWhereAimed ==
  \A a \in applied :
    LET m == edits[a.edit] IN
    m.kind # "create" /\ m.item.born # Unborn => a.born = m.item.born

\* An edit the reader was told was not saved, moved or deleted is not in the
\* table: not when the handler died after writing, nor when a process lost a
\* race it had already read for; and no answer reaches a load that did not wait
\* for it (use-data-work-queue.ts:163-217).  The one exception is a good answer
\* whose body was lost: it is told as a rejection too (data-work-queue.ts:165),
\* and then the table did take the edit.
RefusedMeansUnsaved ==
  /\ TypeOK
  /\ \A a \in applied : a.edit \notin told
  /\ \A e \in misread : \E a \in applied : a.edit = e

\* What has been written, as its edits quoted it.
Claims ==
  {[edit |-> a.edit, id |-> a.id, quoted |-> IF edits[a.edit].kind = "move" THEN a.ver ELSE 0] : a \in applied}

\* The table the queue implements: a write is one atomic compare-and-swap, whatever was
\* read before it, and a notice that an edit failed ends it.
Cells == INSTANCE VersionedTable WITH
  Vacant <- Absent,
  asked <- Len(edits),
  cells <- rows,
  given <- {1, 2} \cup {a.id : a \in applied},
  written <- Claims,
  refused <- told

\* Every handler of every process, with the retries, deadlines and replays around it, takes
\* effect in one step of the versioned table or in none: no row comes back under a number
\* that was used, no update overwrites a version it did not quote, and what a reader was
\* told failed, by an answer that could be read, was not written before and is not written
\* after (work_items.py:189-281, use-data-work-queue.ts:163-217).
RefinesTable == Cells!TableSpec

\* Once readers stop editing and calls stop failing, every held write leaves
\* the hold (replayed, turned down or passed over) and every board comes to
\* show the table, whatever was optimistic, rolled back, replayed against an
\* old list or answered late (use-data-work-queue.ts:88-159).
QueueSettles == \A b \in Browsers : <>[](held[b] = << >> /\ items[b] = rows)
=============================================================================
