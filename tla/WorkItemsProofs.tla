--------------------------- MODULE WorkItemsProofs ---------------------------
(***************************************************************************)
(* Theorems about the work queue, for any number of readers, loads, gateway *)
(* processes, edits and faults: of the edits that quote one version of a    *)
(* row at most one is written; no edit of a minted row is written to        *)
(* another one; an edit the reader was told was not saved is not in the     *)
(* table.                                                                   *)
(*                                                                         *)
(* For the first two: a number is minted once, so what a board, a hold, a   *)
(* list or an answer says about the origin of a row stays true for ever,    *)
(* however old it is.  "Origins" is what has been minted, and it only       *)
(* grows.  The invariant has one part for each place a row is kept; a step  *)
(* that leaves a place alone keeps its part (PartsStand).                   *)
(*                                                                         *)
(* For the third: a request is a token on the wire, at a handler or in an   *)
(* answer, and a step moves one token (MoveKeepsAsking).  While the first   *)
(* try of an edit is undecided its token stands alone for the edit.         *)
(*                                                                         *)
(* From both: every step of the queue is a step of the versioned table or   *)
(* a stutter (QueueImplementsTable).                                        *)
(***************************************************************************)
EXTENDS WorkItems, SequenceTheorems, FiniteSetTheorems, TLAPS

-----------------------------------------------------------------------------
(* The invariant *)

Board == [Ids -> Row]
Made == 1 .. Len(edits)
Reply == [req : Request, code : Codes, id : Ids, row : Row]
Fetched == [pc : {"fetched"}, list : Board]
Replay == [pc : {"replay", "waiting"}, list : Board, pending : Seq(Made), still : Seq(Made)]
LoadState == {NoLoad} \cup Fetched \cup Replay

Created == {a \in applied : edits[a.edit].kind = "create"}

\* Each number that was ever minted, with the edit that created its row.
Origins == {<<1, 0>>, <<2, 0>>} \cup {<<a.id, a.born>> : a \in Created}

\* What "row" says of its origin is true of the number "id".
Known(id, row) == row # Absent /\ row.born # Unborn => <<id, row.born>> \in Origins

EditsOk ==
  /\ edits \in Seq(Mutation) /\ Len(edits) <= MaxEdits
  /\ \A e \in Made :
       /\ Known(edits[e].id, edits[e].item)
       /\ edits[e].kind # "create" => edits[e].item # Absent

RowsOk ==
  /\ rows \in Board
  /\ minted \in Nat /\ minted >= 2
  /\ \A id \in Ids : rows[id] # Absent => id <= minted /\ rows[id].born # Unborn
  /\ \A id \in Ids : Known(id, rows[id])

\* A number is created once, and a row has moved past every version a written
\* move quoted.
AppliedOk ==
  /\ \A a \in applied : a.edit \in Made /\ a.id \in Ids /\ a.ver \in Nat /\ a.id <= minted
  /\ \A a \in Created : 2 < a.id
  /\ \A a, c \in Created : a.id = c.id => a.born = c.born
  /\ \A a \in applied :
       edits[a.edit].kind = "move" /\ rows[a.id] # Absent => a.ver < rows[a.id].ver
  /\ OneWinner /\ LandsWhereAimed

\* A handler runs what its request asks for on the row it names, and a number
\* being added is its handler's own.
RunningOk ==
  /\ running \subseteq Handler
  /\ \A h \in running :
       /\ h.req.edit \in Made
       /\ h.pc = "add" => Mine(h.req).kind = "create"
       /\ h.pc = "swap" => Mine(h.req).kind = "move"
       /\ h.pc = "remove" => Mine(h.req).kind = "delete"
       /\ Mine(h.req).kind # "create" => h.id = Mine(h.req).id
       /\ h.pc = "add" =>
            /\ 2 < h.id /\ h.id <= minted /\ rows[h.id] = Absent
            /\ \A a \in applied : a.id # h.id
  /\ \A g, h \in running : g.pc = "add" /\ h.pc = "add" /\ g.id = h.id => g = h

WireOk == wire \subseteq Request /\ \A r \in wire : r.edit \in Made

ReplyOk(q) ==
  /\ q \in Reply /\ q.req.edit \in Made
  /\ Mine(q.req).kind # "create" => q.id = Mine(q.req).id
  /\ q.code = "conflict" => Mine(q.req).kind = "move"
  /\ Known(q.id, q.row)

RepliesOk == \A q \in replies : ReplyOk(q)

BoardOk(list) == list \in Board /\ \A id \in Ids : Known(id, list[id])

ItemsOk ==
  /\ items \in [Browsers -> Board]
  /\ \A b \in Browsers : BoardOk(items[b])

HeldOk == held \in [Browsers -> Seq(Made)]

\* A load that waits has something to wait for.
LoadingOk(r) ==
  \/ r = NoLoad
  \/ r \in Fetched /\ BoardOk(r.list)
  \/ r \in Replay /\ BoardOk(r.list) /\ (r.pc = "waiting" => r.pending # << >>)

LoadOk ==
  /\ load \in [Browsers -> [Loaders -> LoadState]]
  /\ \A b \in Browsers, l \in Loaders : LoadingOk(load[b][l])

Table == EditsOk /\ RowsOk /\ AppliedOk
Gateway == RunningOk /\ WireOk /\ RepliesOk
Desk == ItemsOk /\ HeldOk /\ LoadOk

IInv == Table /\ Gateway /\ Desk

-----------------------------------------------------------------------------
(* What a step may leave alone *)

\* History only grows: edits are appended, origins are added.
Grows ==
  /\ Made \subseteq Made' /\ \A e \in Made : edits'[e] = edits[e]
  /\ Origins \subseteq Origins'

\* Where no edit is made and nothing is written, history stands still.
LEMMA HistoryStands ==
  ASSUME IInv, UNCHANGED edits, applied \subseteq applied'
  PROVE  Grows
BY DEF Grows, Made, Origins, Created

\* A number has one origin.
LEMMA OneOrigin ==
  ASSUME AppliedOk, NEW id, NEW b, NEW c, <<id, b>> \in Origins, <<id, c>> \in Origins
  PROVE  b = c
<1>1. \A a \in Created : a.id \in Int /\ 2 < a.id
  BY DEF AppliedOk, Created, Ids
<1>2. CASE <<id, b>> \in {<<1, 0>>, <<2, 0>>}
  <2>1. id \in {1, 2} /\ b = 0
    BY <1>2
  <2>2. \A a \in Created : a.id # id
    BY <1>1, <2>1
  <2>3. <<id, c>> \in {<<1, 0>>, <<2, 0>>}
    BY <2>2 DEF Origins
  <2>. QED BY <2>1, <2>3
<1>3. CASE <<id, c>> \in {<<1, 0>>, <<2, 0>>}
  <2>1. id \in {1, 2} /\ c = 0
    BY <1>3
  <2>2. \A a \in Created : a.id # id
    BY <1>1, <2>1
  <2>3. <<id, b>> \in {<<1, 0>>, <<2, 0>>}
    BY <2>2 DEF Origins
  <2>. QED BY <2>1, <2>3
<1>4. CASE (\E a \in Created : a.id = id /\ a.born = b) /\ (\E a \in Created : a.id = id /\ a.born = c)
  BY <1>4 DEF AppliedOk
<1>. QED BY <1>2, <1>3, <1>4 DEF Origins

LEMMA SeqGrows ==
  ASSUME Made \subseteq Made', NEW s \in Seq(Made)
  PROVE  s \in Seq(Made')
<1>1. s \in [1 .. Len(s) -> Made] /\ Len(s) \in Nat
  BY LenProperties
<1>2. s \in [1 .. Len(s) -> Made']
  BY <1>1
<1>. QED BY <1>1, <1>2, SeqDef

LEMMA BoardStands ==
  ASSUME Grows, NEW list, BoardOk(list)
  PROVE  list \in Board /\ \A id \in Ids :
           list[id] # Absent /\ list[id].born # Unborn => <<id, list[id].born>> \in Origins'
BY DEF Grows, BoardOk, Known

LEMMA PartsStand ==
  ASSUME IInv, Grows
  PROVE  /\ UNCHANGED items => ItemsOk'
         /\ UNCHANGED held => HeldOk'
         /\ UNCHANGED load => LoadOk'
         /\ wire' \subseteq wire => WireOk'
         /\ replies' \subseteq replies => RepliesOk'
         /\ UNCHANGED table /\ running' \subseteq running => RunningOk'
         /\ UNCHANGED edits => EditsOk'
         /\ UNCHANGED <<table, edits>> => Table'
<1>1. ASSUME UNCHANGED items PROVE ItemsOk'
  BY <1>1 DEF IInv, Desk, Grows, ItemsOk, BoardOk, Known, Board
<1>2. ASSUME UNCHANGED held PROVE HeldOk'
  <2>1. \A b \in Browsers : held[b] \in Seq(Made')
    BY SeqGrows DEF IInv, Desk, HeldOk, Grows
  <2>. QED BY <1>2, <2>1 DEF IInv, Desk, HeldOk
<1>3. ASSUME UNCHANGED load PROVE LoadOk'
  <2>1. ASSUME NEW b \in Browsers, NEW l \in Loaders PROVE LoadingOk(load[b][l])'
    <3>1. LoadingOk(load[b][l])
      BY DEF IInv, Desk, LoadOk
    <3>2. CASE load[b][l] = NoLoad
      BY <1>3, <3>2 DEF LoadingOk
    <3>3. CASE load[b][l] \in Fetched /\ BoardOk(load[b][l].list)
      BY <1>3, <3>3, BoardStands DEF LoadingOk, BoardOk, Known, Fetched, Board
    <3>4. CASE load[b][l] \in Replay /\ BoardOk(load[b][l].list)
                 /\ (load[b][l].pc = "waiting" => load[b][l].pending # << >>)
      <4>1. load[b][l].pending \in Seq(Made') /\ load[b][l].still \in Seq(Made')
        BY <3>4, SeqGrows DEF Replay, Grows
      <4>2. load[b][l] \in Replay'
        BY <3>4, <4>1 DEF Replay, Board
      <4>. QED BY <1>3, <3>4, <4>2, BoardStands DEF LoadingOk, BoardOk, Known, Board
    <3>. QED BY <3>1, <3>2, <3>3, <3>4 DEF LoadingOk
  <2>. QED BY <1>3, <2>1 DEF IInv, Desk, LoadOk, LoadingOk, LoadState
<1>4. ASSUME wire' \subseteq wire PROVE WireOk'
  BY <1>4 DEF IInv, Gateway, WireOk, Grows
<1>5. ASSUME replies' \subseteq replies PROVE RepliesOk'
  BY <1>5 DEF IInv, Gateway, RepliesOk, ReplyOk, Known, Grows, Mine
<1>6. ASSUME UNCHANGED table, running' \subseteq running PROVE RunningOk'
  BY <1>6 DEF IInv, Gateway, RunningOk, Grows, Mine, table
<1>7. ASSUME UNCHANGED edits PROVE EditsOk'
  BY <1>7 DEF IInv, Table, EditsOk, Grows, Made, Known
<1>8. ASSUME UNCHANGED <<table, edits>> PROVE Table'
  BY <1>8 DEF IInv, Table, EditsOk, RowsOk, AppliedOk, OneWinner, LandsWhereAimed, table, Made, Origins, Created, Known
<1>. QED BY <1>1, <1>2, <1>3, <1>4, <1>5, <1>6, <1>7, <1>8

-----------------------------------------------------------------------------
(* The readers' gestures *)

\* An edit is added to the history; what was there stays.
LEMMA EditMade ==
  ASSUME IInv, NEW m \in Mutation, Len(edits) < MaxEdits, edits' = Append(edits, m),
         UNCHANGED applied, Known(m.id, m.item), m.kind # "create" => m.item # Absent
  PROVE  Grows /\ EditsOk' /\ Len(edits) + 1 \in Made' /\ Len(edits) + 1 \in Edits
<1>1. edits \in Seq(Mutation) /\ Len(edits) \in Nat /\ MaxEdits \in Nat
  BY SizesAssumption, LenProperties DEF IInv, Table, EditsOk
<1>2. /\ edits' \in Seq(Mutation) /\ Len(edits') = Len(edits) + 1
      /\ edits'[Len(edits) + 1] = m
      /\ \A e \in Made : edits'[e] = edits[e]
  BY <1>1, AppendProperties DEF Made
<1>3. Made' = Made \cup {Len(edits) + 1}
  BY <1>1, <1>2 DEF Made
<1>4. Origins' = Origins
  BY <1>2 DEF Origins, Created, IInv, Table, AppliedOk
<1>5. Grows
  BY <1>2, <1>3, <1>4 DEF Grows
<1>6. EditsOk'
  <2>1. Len(edits') <= MaxEdits
    BY <1>1, <1>2
  <2>2. \A e \in Made' : e = Len(edits) + 1 \/ (e \in Made /\ edits'[e] = edits[e])
    BY <1>2, <1>3
  <2>. QED BY <1>2, <1>4, <2>1, <2>2 DEF EditsOk, IInv, Table, Known
<1>. QED BY <1>1, <1>3, <1>5, <1>6 DEF Edits

\* The new edit is no part of what was written.
LEMMA TableStands ==
  ASSUME IInv, Grows, EditsOk', UNCHANGED table
  PROVE  Table'
<1>1. RowsOk'
  BY DEF IInv, Table, RowsOk, table, Grows, Known
<1>2. \A a \in applied : a.edit \in Made /\ edits'[a.edit] = edits[a.edit]
  BY DEF IInv, Table, AppliedOk, Grows
<1>3. AppliedOk'
  <2>1. Created' = Created
    BY <1>2 DEF table, Created
  <2>2. OneWinner' /\ LandsWhereAimed'
    BY <1>2 DEF IInv, Table, AppliedOk, OneWinner, LandsWhereAimed, table
  <2>. QED BY <1>2, <2>1, <2>2 DEF IInv, Table, AppliedOk, table, Grows
<1>. QED BY <1>1, <1>3 DEF Table

LEMMA GestureStep ==
  ASSUME IInv, NEW b \in Browsers, NEW kind \in {"create", "move", "delete"}, NEW id \in Ids,
         NEW item \in Row, NEW shown \in Row, NEW ver \in Nat,
         Gesture(b, kind, id, item, shown, ver),
         kind # "create" => item # Absent, Known(id, item), Known(id, shown)
  PROVE  IInv'
<1>. DEFINE m == [by |-> b, kind |-> kind, id |-> id, item |-> item]
            r == [from |-> "mutate", edit |-> Len(edits) + 1, ver |-> ver, live |-> TRUE]
<1>1. m \in Mutation
  BY DEF Mutation
<1>2. Grows /\ EditsOk' /\ Len(edits) + 1 \in Made' /\ Len(edits) + 1 \in Edits
  BY <1>1, EditMade DEF Gesture, table
<1>3. Table'
  BY <1>2, TableStands DEF Gesture
<1>4. ItemsOk'
  <2>1. items' = [items EXCEPT ![b] = [items[b] EXCEPT ![id] = shown]]
    BY DEF Gesture
  <2>. DEFINE list == [items[b] EXCEPT ![id] = shown]
  <2>2. items \in [Browsers -> Board] /\ \A x \in Browsers : BoardOk(items[x])
    BY DEF IInv, Desk, ItemsOk
  <2>3. list \in Board /\ \A k \in Ids : Known(k, list[k])
    BY <2>2 DEF Board, BoardOk
  <2>. HIDE DEF list
  <2>4. items' \in [Browsers -> Board] /\ \A x \in Browsers : BoardOk(items'[x])
    BY <2>1, <2>2, <2>3 DEF BoardOk, list
  <2>. QED BY <1>2, <2>4 DEF ItemsOk, BoardOk, Known, Grows, Board
<1>5. WireOk'
  <2>1. r \in Request
    BY <1>2 DEF Request
  <2>2. wire' = wire \cup {r} /\ r.edit \in Made'
    BY <1>2 DEF Gesture
  <2>. QED BY <1>2, <2>1, <2>2 DEF WireOk, IInv, Gateway, Grows
<1>. QED BY <1>2, <1>3, <1>4, <1>5, PartsStand DEF IInv, Gateway, Desk, Gesture

LEMMA ElsewhereStep ==
  ASSUME IInv, NEW kind \in {"create", "move", "delete"}, NEW id \in Ids,
         NEW item \in Row, NEW ver \in Nat, SendElsewhere(kind, id, item, ver),
         kind # "create" => item # Absent, Known(id, item)
  PROVE  IInv'
<1>. DEFINE m == [by |-> Elsewhere, kind |-> kind, id |-> id, item |-> item]
            r == [from |-> "mutate", edit |-> Len(edits) + 1, ver |-> ver, live |-> FALSE]
<1>1. m \in Mutation
  BY DEF Mutation
<1>2. Grows /\ EditsOk' /\ Len(edits) + 1 \in Made' /\ Len(edits) + 1 \in Edits
  BY <1>1, EditMade DEF SendElsewhere, table
<1>3. Table'
  BY <1>2, TableStands DEF SendElsewhere
<1>4. WireOk'
  <2>1. r \in Request
    BY <1>2 DEF Request
  <2>2. wire' = wire \cup {r} /\ r.edit \in Made'
    BY <1>2 DEF SendElsewhere
  <2>. QED BY <1>2, <2>1, <2>2 DEF WireOk, IInv, Gateway, Grows
<1>. QED BY <1>2, <1>3, <1>4, PartsStand DEF IInv, Gateway, Desk, SendElsewhere

\* What a reader does on a board is a gesture with what the board shows.
LEMMA EditIsGesture ==
  ASSUME IInv, NEW b \in Browsers, Edit(b)
  PROVE  \E kind \in {"create", "move", "delete"}, id \in Ids, item \in Row, shown \in Row, ver \in Nat :
           /\ Gesture(b, kind, id, item, shown, ver)
           /\ kind # "create" => item # Absent
           /\ Known(id, item) /\ Known(id, shown)
<1>. DEFINE Goal == \E kind \in {"create", "move", "delete"}, id \in Ids, item \in Row, shown \in Row, ver \in Nat :
                      /\ Gesture(b, kind, id, item, shown, ver)
                      /\ kind # "create" => item # Absent
                      /\ Known(id, item) /\ Known(id, shown)
<1>1. MaxEdits \in Nat /\ Len(edits) \in Nat
  BY SizesAssumption, LenProperties DEF IInv, Table, EditsOk
<1>2. items[b] \in [Ids -> Row] /\ \A id \in Ids : Known(id, items[b][id])
  BY DEF IInv, Desk, ItemsOk, BoardOk, Board
<1>3. Absent \in Row /\ Absent.ver = 0
  BY <1>1 DEF Absent, Row, Unborn
<1>4. CASE SubmitNewItem(b)
  <2>. DEFINE item == [ver |-> 1, val |-> Len(edits) + 1, born |-> Unborn]
  <2>1. PICK id \in Ids : Gesture(b, "create", id, item, item, 0)
    BY <1>4 DEF SubmitNewItem
  <2>2. item \in Row /\ Known(id, item)
    BY <1>1, <2>1 DEF Row, Unborn, Known, Gesture
  <2>. HIDE DEF item
  <2>. QED BY <2>1, <2>2
<1>5. ASSUME NEW id \in Ids, Move(b, id) PROVE Goal
  <2>. DEFINE item == items[b][id]
              shown == [item EXCEPT !.val = Len(edits) + 1]
  <2>1. item # Absent /\ Gesture(b, "move", id, item, shown, item.ver) /\ Len(edits) < MaxEdits
    BY <1>5 DEF Move, Gesture
  <2>2. item \in Row /\ item.ver \in Nat /\ Known(id, item)
    BY <1>2 DEF Row
  <2>3. shown \in Row /\ shown.born = item.born
    BY <1>1, <2>1, <2>2 DEF Row
  <2>. HIDE DEF item, shown
  <2>4. Known(id, shown)
    BY <2>1, <2>2, <2>3 DEF Known
  <2>. QED BY <2>1, <2>2, <2>3, <2>4
<1>6. ASSUME NEW id \in Ids, Remove(b, id) PROVE Goal
  <2>. DEFINE item == items[b][id]
  <2>1. item # Absent /\ Gesture(b, "delete", id, item, Absent, 0)
    BY <1>6 DEF Remove
  <2>2. item \in Row /\ Known(id, item) /\ Known(id, Absent)
    BY <1>2 DEF Known
  <2>. HIDE DEF item
  <2>. QED BY <1>3, <2>1, <2>2
<1>. QED BY <1>4, <1>5, <1>6 DEF Edit

LEMMA ElsewhereIsSend ==
  ASSUME IInv, EditElsewhere
  PROVE  \E kind \in {"create", "move", "delete"}, id \in Ids, item \in Row, ver \in Nat :
           /\ SendElsewhere(kind, id, item, ver)
           /\ kind # "create" => item # Absent
           /\ Known(id, item)
<1>. DEFINE Goal == \E kind \in {"create", "move", "delete"}, id \in Ids, item \in Row, ver \in Nat :
                      /\ SendElsewhere(kind, id, item, ver)
                      /\ kind # "create" => item # Absent
                      /\ Known(id, item)
<1>1. MaxEdits \in Nat /\ Len(edits) \in Nat /\ 1 \in Ids
  BY SizesAssumption, LenProperties DEF IInv, Table, EditsOk, Ids
<1>2. CASE SendElsewhere("create", 1, [ver |-> 1, val |-> Len(edits) + 1, born |-> Unborn], 0)
  <2>. DEFINE item == [ver |-> 1, val |-> Len(edits) + 1, born |-> Unborn]
  <2>1. item \in Row /\ Known(1, item)
    BY <1>1, <1>2 DEF Row, Unborn, Known, SendElsewhere
  <2>. HIDE DEF item
  <2>. QED BY <1>1, <1>2, <2>1 DEF item
<1>3. \A id \in Ids : rows[id] \in Row /\ rows[id].ver \in Nat /\ Known(id, rows[id])
  BY DEF IInv, Table, RowsOk, Board, Row
<1>4. ASSUME NEW id \in Ids, rows[id] # Absent, SendElsewhere("delete", id, rows[id], 0)
      PROVE Goal
  BY <1>3, <1>4
<1>5. ASSUME NEW id \in Ids, NEW ver \in 1 .. rows[id].ver,
             SendElsewhere("move", id, [rows[id] EXCEPT !.ver = ver], ver)
      PROVE Goal
  <2>. DEFINE item == [rows[id] EXCEPT !.ver = ver]
  <2>1. ver \in Nat /\ ver > 0 /\ rows[id] # Absent
    BY <1>3 DEF Absent
  <2>2. item \in Row /\ item.born = rows[id].born /\ item.ver = ver
    BY <1>3, <2>1 DEF Row
  <2>3. item # Absent /\ Known(id, item)
    BY <1>3, <2>1, <2>2 DEF Absent, Known
  <2>4. SendElsewhere("move", id, item, ver)
    BY <1>5
  <2>. HIDE DEF item
  <2>. QED BY <2>1, <2>2, <2>3, <2>4
<1>. QED BY <1>2, <1>4, <1>5 DEF EditElsewhere

LEMMA EditSteps ==
  ASSUME IInv, EditElsewhere \/ \E b \in Browsers : Edit(b)
  PROVE  IInv'
BY EditIsGesture, ElsewhereIsSend, GestureStep, ElsewhereStep

-----------------------------------------------------------------------------
(* The gateway's handlers *)

LEMMA RepliesFit ==
  ASSUME IInv, Grows, UNCHANGED edits, NEW req \in Request, NEW code \in Codes, NEW id \in Ids,
         NEW row \in Row, replies' \subseteq replies \cup Answer(req, code, id, row),
         req.edit \in Made, Mine(req).kind # "create" => id = Mine(req).id,
         code = "conflict" => Mine(req).kind = "move", Known(id, row)
  PROVE  RepliesOk'
<1>. DEFINE q == [req |-> req, code |-> code, id |-> id, row |-> row]
<1>1. q \in Reply /\ q.req = req /\ q.code = code /\ q.id = id /\ q.row = row
  BY DEF Reply
<1>2. \A x \in replies' : x \in replies \/ x = q
  BY DEF Answer
<1>. HIDE DEF q
<1>3. ReplyOk(q)
  BY <1>1 DEF ReplyOk
<1>4. \A x \in replies' : ReplyOk(x)
  BY <1>2, <1>3 DEF IInv, Gateway, RepliesOk
<1>. QED BY <1>4 DEF RepliesOk, ReplyOk, Known, Grows, Mine

\* An answer takes nothing from the table.
LEMMA AnswerStep ==
  ASSUME IInv, UNCHANGED <<table, browser>>, NEW req \in Request, NEW code \in Codes, NEW id \in Ids,
         NEW row \in Row, replies' \subseteq replies \cup Answer(req, code, id, row),
         req.edit \in Made, Mine(req).kind # "create" => id = Mine(req).id,
         code = "conflict" => Mine(req).kind = "move", Known(id, row),
         RunningOk', WireOk'
  PROVE  IInv'
<1>1. Grows
  BY HistoryStands DEF table, browser
<1>2. RepliesOk'
  BY <1>1, RepliesFit DEF browser
<1>. QED BY <1>1, <1>2, PartsStand DEF IInv, Gateway, Desk, browser

\* Of the rows of the table none is made up; Absent is known of every number.
LEMMA RowsKnown ==
  ASSUME IInv, NEW id \in Ids
  PROVE  /\ rows[id] \in Row /\ rows[id].ver \in Nat /\ Known(id, rows[id])
         /\ Absent \in Row /\ Known(id, Absent)
<1>1. MaxEdits \in Nat
  BY SizesAssumption
<1>. QED BY <1>1 DEF IInv, Table, RowsOk, Board, Row, Absent, Known, Unborn

LEMMA TakeStep ==
  ASSUME IInv, NEW req \in wire, Take(req)
  PROVE  IInv'
<1>1. req \in Request /\ req.edit \in Made /\ WireOk'
  BY DEF IInv, Gateway, WireOk, Take, browser, Made
<1>2. Mine(req) \in Mutation
  BY <1>1 DEF IInv, Table, EditsOk, Made, Mine
<1>3. CASE TakeCreate(req)
  <2>. DEFINE n == minted + 1
              h == [pc |-> "add", req |-> req, id |-> n]
  <2>1. /\ n \in Ids /\ minted' = n /\ running' = running \cup {h} /\ Mine(req).kind = "create"
        /\ UNCHANGED <<rows, applied, replies, edits, items, held, load>>
    BY <1>3 DEF TakeCreate, NextId, Starts, Take, browser
  <2>2. minted \in Nat /\ minted >= 2 /\ n > minted
    BY DEF IInv, Table, RowsOk
  <2>3. Grows
    BY <2>1, HistoryStands
  <2>4. Table'
    <3>1. RowsOk'
      BY <2>1, <2>2 DEF IInv, Table, RowsOk, Board, Known, Origins, Created, Ids
    <3>2. AppliedOk'
      BY <2>1, <2>2 DEF IInv, Table, AppliedOk, Made, Created, OneWinner, LandsWhereAimed, Ids
    <3>. QED BY <2>1, <2>3, <3>1, <3>2, PartsStand DEF Table
  <2>5. RunningOk'
    <3>1. h \in Handler /\ h.pc = "add" /\ h.req = req /\ h.id = n
      BY <1>1, <2>1 DEF Handler
    <3>. HIDE DEF h
    <3>2. rows[n] = Absent /\ (\A a \in applied : a.id # n) /\ 2 < n
      BY <2>1, <2>2 DEF IInv, Table, RowsOk, AppliedOk, Ids
    <3>3. \A g \in running : g.id \in Nat /\ (g.pc = "add" => g.id < n)
      BY <2>2 DEF IInv, Gateway, RunningOk, Handler, Ids
    <3>. HIDE DEF n
    <3>4. \A g \in running' : g = h \/ g \in running
      BY <2>1
    <3>5. running' \subseteq Handler
      BY <3>1, <3>4 DEF IInv, Gateway, RunningOk
    <3>6. \A g, k \in running' : g.pc = "add" /\ k.pc = "add" /\ g.id = k.id => g = k
      <4>1. \A g \in running : g.pc = "add" => g.id # n
        BY <3>3, <2>1 DEF Ids
      <4>. QED BY <3>1, <3>4, <4>1 DEF IInv, Gateway, RunningOk
    <3>7. n \in Nat /\ \A g \in running : g.pc = "add" => g.id <= n
      BY <3>3, <2>1 DEF Ids
    <3>. QED BY <1>1, <2>1, <3>1, <3>2, <3>4, <3>5, <3>6, <3>7
         DEF IInv, Gateway, RunningOk, Mine, Made
  <2>. QED BY <1>1, <2>1, <2>3, <2>4, <2>5, PartsStand DEF IInv, Gateway, Desk
<1>4. CASE TakeOther(req)
  <2>. DEFINE m == Mine(req)
              row == rows[m.id]
              h == [pc |-> IF m.kind = "move" THEN "swap" ELSE "remove", req |-> req, id |-> m.id]
  <2>1. m.kind # "create" /\ m.kind \in {"move", "delete"} /\ m.id \in Ids
    BY <1>2, <1>4 DEF TakeOther, Mutation
  <2>2. UNCHANGED <<table, browser>>
    BY <1>4 DEF TakeOther, Take
  <2>3. \/ running' = running /\ replies' = replies \cup Answer(req, "missing", m.id, row)
        \/ /\ m.kind = "move"
           /\ running' = running /\ replies' = replies \cup Answer(req, "conflict", m.id, row)
        \/ running' = running \cup {h} /\ replies' = replies
    BY <1>4 DEF TakeOther, Starts
  <2>4. row \in Row /\ Known(m.id, row)
    BY <2>1, RowsKnown
  <2>5. Grows
    BY <2>2, HistoryStands DEF table, browser
  <2>. HIDE DEF row
  <2>6. CASE running' = running /\ replies' = replies \cup Answer(req, "missing", m.id, row)
    BY <1>1, <2>1, <2>2, <2>4, <2>5, <2>6, AnswerStep, PartsStand DEF Codes
  <2>7. CASE /\ m.kind = "move"
             /\ running' = running /\ replies' = replies \cup Answer(req, "conflict", m.id, row)
    BY <1>1, <2>1, <2>2, <2>4, <2>5, <2>7, AnswerStep, PartsStand DEF Codes
  <2>8. CASE running' = running \cup {h} /\ replies' = replies
    <3>1. /\ h \in Handler /\ h.req = req /\ h.id = m.id /\ h.pc \in {"swap", "remove"}
          /\ h.pc = "swap" => m.kind = "move"
          /\ h.pc = "remove" => m.kind = "delete"
      BY <1>1, <2>1 DEF Handler
    <3>. HIDE DEF h
    <3>2. running' \subseteq Handler /\ \A g \in running' : g = h \/ g \in running
      BY <2>8, <3>1 DEF IInv, Gateway, RunningOk
    <3>3. RunningOk'
      BY <1>1, <2>1, <2>2, <3>1, <3>2 DEF IInv, Gateway, RunningOk, table, browser, Mine, Made
    <3>. QED BY <1>1, <2>2, <2>5, <2>8, <3>3, PartsStand DEF IInv, Gateway, Desk, browser
  <2>. QED BY <2>3, <2>6, <2>7, <2>8
<1>. QED BY <1>3, <1>4 DEF Take

\* A handler that ends, or goes on to read the row again, leaves the others
\* what they have when it wrote no number another one is adding.
LEMMA HandlersStand ==
  ASSUME IInv, NEW h \in running, NEW id \in Ids, UNCHANGED <<minted, edits>>,
         \A k \in Ids \ {id} : rows'[k] = rows[k],
         \A a \in applied' : a \in applied \/ a.id = id,
         \A g \in running \ {h} : g.pc = "add" => g.id # id,
         \/ running' = running \ {h}
         \/ running' = (running \ {h}) \cup {[h EXCEPT !.pc = "reread"]}
  PROVE  RunningOk'
<1>. DEFINE k == [h EXCEPT !.pc = "reread"]
<1>1. h \in Handler /\ h.req.edit \in Made /\ (Mine(h.req).kind # "create" => h.id = Mine(h.req).id)
  BY DEF IInv, Gateway, RunningOk
<1>2. k \in Handler /\ k.pc = "reread" /\ k.req = h.req /\ k.id = h.id
  BY <1>1 DEF Handler
<1>. HIDE DEF k
<1>3. \A g \in running' : g = k \/ g \in running \ {h}
  BY DEF k
<1>4. running' \subseteq Handler
  BY <1>2, <1>3 DEF IInv, Gateway, RunningOk
<1>5. \A g \in running \ {h} : g.pc = "add" =>
        rows'[g.id] = rows[g.id] /\ \A a \in applied' : a.id # g.id
  <2>. SUFFICES ASSUME NEW g \in running \ {h}, g.pc = "add"
       PROVE rows'[g.id] = rows[g.id] /\ \A a \in applied' : a.id # g.id
    OBVIOUS
  <2>1. g.id \in Ids \ {id} /\ \A a \in applied : a.id # g.id
    BY DEF IInv, Gateway, RunningOk, Handler
  <2>. QED BY <2>1
<1>. QED BY <1>1, <1>2, <1>3, <1>4, <1>5 DEF IInv, Gateway, RunningOk, Mine, Made

\* What a write must be: the first of its number, or a step of the row that is there.
WriteFits(id, row, e) ==
  LET was == rows[id]
      kind == edits[e.edit].kind
  IN /\ e.edit \in Made /\ e.id = id /\ e.ver \in Nat /\ id <= minted
     /\ row # Absent => row.born = e.born /\ row.born # Unborn
     /\ \/ /\ kind = "create" /\ 2 < id
           /\ \A a \in applied : a.id # id
        \/ /\ kind = "delete" /\ id = edits[e.edit].id /\ row = Absent
           /\ was # Absent /\ e.born = was.born
        \/ /\ kind = "move" /\ id = edits[e.edit].id /\ row # Absent
           /\ was # Absent /\ e.born = was.born
           /\ e.ver = was.ver /\ e.ver < row.ver

LEMMA WriteKeepsTable ==
  ASSUME IInv, NEW id \in Ids, NEW row \in Row, NEW e, Write(id, row, e), WriteFits(id, row, e),
         UNCHANGED <<minted, edits>>
  PROVE  Table' /\ Grows
<1>1. applied' = applied \cup {e} /\ rows' = [rows EXCEPT ![id] = row]
  BY DEF Write
<1>2. Grows
  BY <1>1, HistoryStands
<1>3. /\ rows \in Board /\ rows' \in Board /\ rows'[id] = row
      /\ \A k \in Ids \ {id} : rows'[k] = rows[k]
      /\ \A k \in Ids : rows[k].ver \in Nat
  BY <1>1 DEF IInv, Table, RowsOk, Board, Row
<1>4. Known(id, rows[id]) /\ (rows[id] # Absent => <<id, rows[id].born>> \in Origins)
  BY DEF IInv, Table, RowsOk, Known
<1>5. row # Absent => <<id, row.born>> \in Origins'
  <2>1. CASE edits[e.edit].kind = "create"
    <3>1. e \in Created'
      BY <1>1, <2>1 DEF Created
    <3>. QED BY <3>1 DEF WriteFits, Origins
  <2>2. CASE edits[e.edit].kind # "create"
    BY <1>2, <1>4, <2>2 DEF WriteFits, Grows
  <2>. QED BY <2>1, <2>2
<1>6. RowsOk'
  <2>1. \A k \in Ids : rows'[k] # Absent => k <= minted' /\ rows'[k].born # Unborn
    BY <1>3 DEF IInv, Table, RowsOk, WriteFits
  <2>2. ASSUME NEW k \in Ids PROVE Known(k, rows[k])'
    <3>1. CASE k = id
      BY <1>3, <1>5, <3>1 DEF Known
    <3>2. CASE k # id
      BY <1>2, <1>3, <3>2 DEF IInv, Table, RowsOk, Known, Grows
    <3>. QED BY <3>1, <3>2
  <2>. QED BY <1>3, <2>1, <2>2 DEF IInv, Table, RowsOk
<1>7. EditsOk'
  BY <1>2, PartsStand
<1>8. AppliedOk
  BY DEF IInv, Table
<1>9. \A a \in applied : a.edit \in Made /\ a.id \in Ids /\ a.ver \in Nat
  BY <1>8 DEF AppliedOk
<1>10. OneWinner'
  <2>1. OneWinner
    BY <1>8 DEF AppliedOk
  <2>2. ASSUME edits[e.edit].kind = "move", NEW a \in applied, edits[a.edit].kind = "move",
               a.id = id, a.ver = e.ver
        PROVE FALSE
    <3>1. rows[id] # Absent /\ e.ver = rows[id].ver
      BY <2>2 DEF WriteFits
    <3>2. a.ver < rows[id].ver
      BY <1>8, <2>2, <3>1 DEF AppliedOk
    <3>. QED BY <1>3, <2>2, <3>1, <3>2
  <2>. QED BY <1>1, <2>1, <2>2 DEF OneWinner, WriteFits
<1>11. LandsWhereAimed'
  <2>1. LandsWhereAimed
    BY <1>8 DEF AppliedOk
  <2>2. ASSUME edits[e.edit].kind # "create", edits[e.edit].item.born # Unborn
        PROVE e.born = edits[e.edit].item.born
    <3>1. <<id, e.born>> \in Origins /\ id = edits[e.edit].id
      BY <1>4, <2>2 DEF WriteFits
    <3>2. <<id, edits[e.edit].item.born>> \in Origins
      BY <2>2, <3>1 DEF IInv, Table, EditsOk, Known, WriteFits
    <3>. QED BY <1>8, <3>1, <3>2, OneOrigin
  <2>. QED BY <1>1, <2>1, <2>2 DEF LandsWhereAimed
<1>12. \A a \in applied' : edits[a.edit].kind = "move" /\ rows'[a.id] # Absent => a.ver < rows'[a.id].ver
  <2>. SUFFICES ASSUME NEW a \in applied', edits[a.edit].kind = "move", rows'[a.id] # Absent
       PROVE a.ver < rows'[a.id].ver
    OBVIOUS
  <2>1. CASE a = e
    BY <1>3, <2>1 DEF WriteFits
  <2>2. CASE a \in applied /\ a.id # id
    BY <1>3, <1>8, <1>9, <2>2 DEF AppliedOk
  <2>3. CASE a \in applied /\ a.id = id
    <3>1. edits[e.edit].kind = "move" /\ rows[id] # Absent /\ rows[id].ver < row.ver
      BY <1>3, <2>3 DEF WriteFits
    <3>2. a.ver < rows[id].ver
      BY <1>8, <2>3, <3>1 DEF AppliedOk
    <3>3. row.ver \in Nat /\ rows[id].ver \in Nat /\ a.ver \in Nat
      BY <1>3, <1>9, <2>3 DEF Row
    <3>. QED BY <1>3, <2>3, <3>1, <3>2, <3>3
  <2>. QED BY <1>1, <2>1, <2>2, <2>3
<1>13. /\ \A a \in Created' : 2 < a.id
       /\ \A a, c \in Created' : a.id = c.id => a.born = c.born
  <2>1. \A a \in Created' : a \in Created \/ (a = e /\ edits[e.edit].kind = "create")
    BY <1>1 DEF Created
  <2>2. edits[e.edit].kind = "create" => 2 < e.id /\ \A a \in Created : a.id # e.id
    BY DEF WriteFits, Created
  <2>. QED BY <1>8, <2>1, <2>2 DEF AppliedOk
<1>14. \A a \in applied' : a.edit \in Made' /\ a.id \in Ids /\ a.ver \in Nat /\ a.id <= minted'
  BY <1>1, <1>8 DEF AppliedOk, WriteFits, Made
<1>15. AppliedOk'
  BY <1>10, <1>11, <1>12, <1>13, <1>14 DEF AppliedOk
<1>. QED BY <1>2, <1>6, <1>7, <1>15 DEF Table

LEMMA HandlerFacts ==
  ASSUME IInv, NEW h \in running
  PROVE  /\ h \in Handler /\ h.req \in Request /\ h.id \in Ids /\ h.req.edit \in Made
         /\ h.req.ver \in Nat /\ Mine(h.req) \in Mutation
         /\ Mine(h.req).kind # "create" => h.id = Mine(h.req).id
<1>1. h \in Handler /\ h.req.edit \in Made /\ (Mine(h.req).kind # "create" => h.id = Mine(h.req).id)
  BY DEF IInv, Gateway, RunningOk
<1>2. h.req \in Request /\ h.id \in Ids /\ h.req.ver \in Nat
  BY <1>1 DEF Handler, Request
<1>. QED BY <1>1, <1>2 DEF IInv, Table, EditsOk, Made, Mine

LEMMA AddStep ==
  ASSUME IInv, NEW h \in running, Add(h)
  PROVE  IInv'
<1>. DEFINE row == [ver |-> 1, val |-> h.req.edit, born |-> h.req.edit]
            e == Entry(h.req, h.id, h.req.edit)
<1>1. /\ Write(h.id, row, e) /\ UNCHANGED <<minted, browser, wire>> /\ replies' = replies
      /\ running' = (running \ {h}) \cup {[h EXCEPT !.pc = "reread"]}
      /\ h.pc = "add"
  BY DEF Add, GoesOn
<1>2. h.id \in Ids /\ h.req.edit \in Made /\ h.req.ver \in Nat
  BY HandlerFacts
<1>3. /\ Mine(h.req).kind = "create" /\ 2 < h.id /\ h.id <= minted
      /\ \A a \in applied : a.id # h.id
      /\ \A g \in running \ {h} : g.pc = "add" => g.id # h.id
  BY <1>1 DEF IInv, Gateway, RunningOk
<1>4. row \in Row /\ row.born # Unborn
  BY <1>2, SizesAssumption, LenProperties DEF Row, Unborn, Made, IInv, Table, EditsOk
<1>5. WriteFits(h.id, row, e)
  BY <1>2, <1>3, <1>4 DEF WriteFits, Entry, Mine
<1>6. Table' /\ Grows
  BY <1>1, <1>2, <1>4, <1>5, WriteKeepsTable DEF browser
<1>7. (\A k \in Ids \ {h.id} : rows'[k] = rows[k]) /\ \A a \in applied' : a \in applied \/ a.id = h.id
  BY <1>1 DEF Write, Entry, IInv, Table, RowsOk, Board
<1>8. RunningOk'
  BY <1>1, <1>2, <1>3, <1>7, HandlersStand DEF browser
<1>. QED BY <1>1, <1>6, <1>8, PartsStand DEF IInv, Gateway, Desk, browser

LEMMA SwapStep ==
  ASSUME IInv, NEW h \in running, Swap(h)
  PROVE  IInv'
<1>. DEFINE was == rows[h.id]
            row == [was EXCEPT !.ver = h.req.ver + 1, !.val = h.req.edit]
            e == Entry(h.req, h.id, was.born)
<1>1. h.pc = "swap" /\ UNCHANGED <<minted, browser, wire>>
  BY DEF Swap
<1>2. /\ h.id \in Ids /\ h.req \in Request /\ h.req.edit \in Made /\ h.req.ver \in Nat
      /\ Mine(h.req).kind = "move" /\ h.id = Mine(h.req).id
      /\ \A g \in running \ {h} : g.pc = "add" => g.pc = "add" /\ rows[g.id] = Absent
  BY <1>1, HandlerFacts DEF IInv, Gateway, RunningOk
<1>3. was \in Row /\ was.ver \in Nat /\ Known(h.id, was) /\ Absent \in Row
  BY <1>2, RowsKnown
<1>4. CASE was # Absent /\ was.ver = h.req.ver /\ Write(h.id, row, e) /\ GoesOn(h)
  <2>1. row \in Row /\ row.ver = h.req.ver + 1 /\ row.born = was.born
    <3>. DEFINE half == [was EXCEPT !.ver = h.req.ver + 1]
    <3>1. half \in Row /\ half.ver = h.req.ver + 1 /\ half.born = was.born
      BY <1>2, <1>3 DEF Row
    <3>2. row = [half EXCEPT !.val = h.req.edit]
      OBVIOUS
    <3>3. h.req.edit \in 0 .. MaxEdits
      BY <1>2, SizesAssumption DEF Request, Edits
    <3>. HIDE DEF half
    <3>. QED BY <3>1, <3>2, <3>3 DEF Row
  <2>2. h.id <= minted /\ was.born # Unborn
    BY <1>2, <1>4 DEF IInv, Table, RowsOk
  <2>. HIDE DEF row
  <2>3. row # Absent
    BY <1>2, <2>1 DEF Absent
  <2>4. WriteFits(h.id, row, e)
    BY <1>2, <1>3, <1>4, <2>1, <2>2, <2>3 DEF WriteFits, Entry, Mine
  <2>5. Table' /\ Grows
    BY <1>1, <1>2, <1>4, <2>1, <2>4, WriteKeepsTable DEF browser
  <2>6. (\A k \in Ids \ {h.id} : rows'[k] = rows[k]) /\ \A a \in applied' : a \in applied \/ a.id = h.id
    BY <1>4 DEF Write, Entry, IInv, Table, RowsOk, Board
  <2>7. \A g \in running \ {h} : g.pc = "add" => g.id # h.id
    BY <1>2, <1>4
  <2>8. RunningOk'
    BY <1>1, <1>2, <1>4, <2>6, <2>7, HandlersStand DEF GoesOn, browser
  <2>. QED BY <1>1, <1>4, <2>5, <2>8, PartsStand DEF IInv, Gateway, Desk, browser, GoesOn
<1>5. CASE /\ Leave(h, IF was = Absent THEN "missing" ELSE "conflict", was)
           /\ UNCHANGED <<rows, applied>>
  <2>. DEFINE code == IF was = Absent THEN "missing" ELSE "conflict"
  <2>1. code \in Codes /\ running' \subseteq running /\ replies' = replies \cup Answer(h.req, code, h.id, was)
    BY <1>5 DEF Codes, Leave
  <2>2. UNCHANGED <<table, browser>>
    BY <1>1, <1>5 DEF table
  <2>3. Grows
    BY <2>2, HistoryStands DEF table, browser
  <2>. HIDE DEF was, code
  <2>. QED BY <1>1, <1>2, <1>3, <2>1, <2>2, <2>3, AnswerStep, PartsStand
<1>. QED BY <1>4, <1>5 DEF Swap, SwapMatches

LEMMA DeleteStep ==
  ASSUME IInv, NEW h \in running, Delete(h)
  PROVE  IInv'
<1>. DEFINE was == rows[h.id]
            e == Entry(h.req, h.id, was.born)
<1>1. h.pc = "remove" /\ UNCHANGED <<minted, browser, wire>>
  BY DEF Delete
<1>2. /\ h.id \in Ids /\ h.req \in Request /\ h.req.edit \in Made /\ h.req.ver \in Nat
      /\ Mine(h.req).kind = "delete" /\ h.id = Mine(h.req).id
      /\ \A g \in running \ {h} : g.pc = "add" => rows[g.id] = Absent
  BY <1>1, HandlerFacts DEF IInv, Gateway, RunningOk
<1>3. was \in Row /\ was.ver \in Nat /\ Known(h.id, was) /\ Absent \in Row /\ Known(h.id, Absent)
  BY <1>2, RowsKnown
<1>4. CASE was = Absent /\ Leave(h, "missing", Absent) /\ UNCHANGED <<rows, applied>>
  <2>1. UNCHANGED <<table, browser>> /\ Grows
    BY <1>1, <1>4, HistoryStands DEF table, browser
  <2>2. running' \subseteq running /\ replies' = replies \cup Answer(h.req, "missing", h.id, Absent)
    BY <1>4 DEF Leave
  <2>. QED BY <1>1, <1>2, <1>3, <2>1, <2>2, AnswerStep, PartsStand DEF Codes
<1>5. CASE was # Absent /\ Leave(h, "ok", was) /\ Write(h.id, Absent, e)
  <2>1. h.id <= minted /\ was.born # Unborn
    BY <1>2, <1>5 DEF IInv, Table, RowsOk
  <2>2. WriteFits(h.id, Absent, e)
    BY <1>2, <1>3, <1>5, <2>1 DEF WriteFits, Entry, Mine
  <2>3. Table' /\ Grows
    BY <1>1, <1>2, <1>3, <1>5, <2>2, WriteKeepsTable DEF browser
  <2>4. (\A k \in Ids \ {h.id} : rows'[k] = rows[k]) /\ \A a \in applied' : a \in applied \/ a.id = h.id
    BY <1>5 DEF Write, Entry, IInv, Table, RowsOk, Board
  <2>5. \A g \in running \ {h} : g.pc = "add" => g.id # h.id
    BY <1>2, <1>5
  <2>6. RunningOk'
    BY <1>1, <1>2, <1>5, <2>4, <2>5, HandlersStand DEF Leave, browser
  <2>7. replies' = replies \cup Answer(h.req, "ok", h.id, was)
    BY <1>5 DEF Leave
  <2>. HIDE DEF was
  <2>8. RepliesOk'
    BY <1>1, <1>2, <1>3, <2>3, <2>7, RepliesFit DEF Codes, browser
  <2>. QED BY <1>1, <2>3, <2>6, <2>8, PartsStand DEF IInv, Gateway, Desk, browser
<1>. QED BY <1>4, <1>5 DEF Delete

\* Steps that only answer.
LEMMA RereadStep ==
  ASSUME IInv, NEW h \in running, Reread(h) \/ StoreFails(h)
  PROVE  IInv'
<1>1. PICK code \in {"unreachable", "ok"}, row \in {Absent, rows[h.id]} :
        Leave(h, code, row) /\ UNCHANGED <<table, browser, wire>>
  BY DEF Reread, StoreFails
<1>2. /\ h.id \in Ids /\ h.req \in Request /\ h.req.edit \in Made
      /\ Mine(h.req).kind # "create" => h.id = Mine(h.req).id
  BY HandlerFacts
<1>3. row \in Row /\ Known(h.id, row) /\ code \in Codes /\ code # "conflict"
  BY <1>2, RowsKnown DEF Codes
<1>4. Grows /\ running' \subseteq running
  BY <1>1, HistoryStands DEF table, browser, Leave
<1>. QED BY <1>1, <1>2, <1>3, <1>4, AnswerStep, PartsStand DEF Leave

-----------------------------------------------------------------------------
(* Requests that fail *)

LEMMA EditFacts ==
  ASSUME IInv, NEW req, req.edit \in Made
  PROVE  /\ Mine(req) \in Mutation /\ Mine(req).id \in Ids /\ Mine(req).item \in Row
         /\ Known(Mine(req).id, Mine(req).item)
<1>1. Mine(req) \in Mutation /\ Known(Mine(req).id, Mine(req).item)
  BY DEF IInv, Table, EditsOk, Made, Mine
<1>. QED BY <1>1 DEF Mutation

LEMMA LostStep ==
  ASSUME IInv, NEW req \in wire, Lost(req) \/ Refuse(req)
  PROVE  IInv'
<1>1. req \in Request /\ req.edit \in Made
  BY DEF IInv, Gateway, WireOk
<1>2. Mine(req) \in Mutation /\ Mine(req).id \in Ids
  BY <1>1, EditFacts
<1>3. PICK code \in {"unreachable", "refused"} :
        /\ wire' = wire \ {req} /\ UNCHANGED <<table, browser, running>>
        /\ replies' = replies \cup Answer(req, code, Mine(req).id, Absent)
  BY DEF Lost, Refuse
<1>4. Grows
  BY <1>3, HistoryStands DEF table, browser
<1>. QED BY <1>1, <1>2, <1>3, <1>4, AnswerStep, PartsStand, RowsKnown DEF Codes

LEMMA OrphanFacts ==
  ASSUME NEW r \in Request, NEW req
  PROVE  OrphanIf(r, req) \in Request /\ OrphanIf(r, req).edit = r.edit
BY DEF OrphanIf, Orphan, Request

LEMMA TimeOutStep ==
  ASSUME IInv, NEW req \in Waiting, TimeOut(req)
  PROVE  IInv'
<1>1. req \in Request /\ req.edit \in Made
  BY DEF Waiting, IInv, Gateway, WireOk, RunningOk, Handler, RepliesOk, ReplyOk, Reply
<1>2. Mine(req) \in Mutation /\ Mine(req).id \in Ids
  BY <1>1, EditFacts
<1>3. UNCHANGED <<table, browser>> /\ UNCHANGED edits
  BY DEF TimeOut, browser
<1>4. WireOk'
  BY <1>3, OrphanFacts DEF TimeOut, IInv, Gateway, WireOk, Made
<1>5. RunningOk'
  <2>. DEFINE f[h \in running] == [h EXCEPT !.req = OrphanIf(@, req)]
  <2>1. ASSUME NEW h \in running
        PROVE /\ f[h] \in Handler /\ f[h].pc = h.pc /\ f[h].id = h.id
              /\ f[h].req.edit = h.req.edit
    <3>1. h \in Handler /\ h.req \in Request
      BY HandlerFacts
    <3>2. f[h] = [h EXCEPT !.req = OrphanIf(h.req, req)]
      OBVIOUS
    <3>. QED BY <3>1, <3>2, OrphanFacts DEF Handler
  <2>2. running' = {f[h] : h \in running}
    BY DEF TimeOut
  <2>. HIDE DEF f
  <2>3. running' \subseteq Handler
    BY <2>1, <2>2
  <2>4. \A g, h \in running : f[g].pc = "add" /\ f[h].pc = "add" /\ f[g].id = f[h].id => f[g] = f[h]
    BY <2>1 DEF IInv, Gateway, RunningOk
  <2>. QED BY <1>3, <2>1, <2>2, <2>3, <2>4 DEF IInv, Gateway, RunningOk, Mine, Made, table
<1>6. replies' \subseteq replies \cup Answer(req, "unreachable", Mine(req).id, Absent)
  BY DEF TimeOut
<1>. QED BY <1>1, <1>2, <1>3, <1>4, <1>5, <1>6, AnswerStep, RowsKnown DEF Codes

LEMMA BodyBreaksStep ==
  ASSUME IInv, NEW q \in replies, BodyBreaks(q)
  PROVE  IInv'
<1>. DEFINE p == [q EXCEPT !.code = IF q.code = "ok" THEN "unread" ELSE q.code, !.row = Absent]
<1>1. UNCHANGED <<table, browser, wire, running>> /\ replies' = (replies \ {q}) \cup {p}
  BY DEF BodyBreaks
<1>2. ReplyOk(q) /\ q \in Reply
  BY DEF IInv, Gateway, RepliesOk, ReplyOk
<1>3. p \in Reply /\ p.req = q.req /\ p.id = q.id /\ p.row = Absent /\ (p.code = "conflict" => q.code = "conflict")
  BY <1>2, RowsKnown DEF Reply, Codes
<1>. HIDE DEF p
<1>4. ReplyOk(p)
  BY <1>2, <1>3, RowsKnown DEF ReplyOk, Reply
<1>5. Grows
  BY <1>1, HistoryStands DEF table, browser
<1>6. \A x \in replies' : ReplyOk(x)
  BY <1>1, <1>4 DEF IInv, Gateway, RepliesOk
<1>7. RepliesOk'
  BY <1>1, <1>5, <1>6 DEF RepliesOk, ReplyOk, Known, Grows, Mine, browser
<1>. QED BY <1>1, <1>5, <1>7, PartsStand DEF IInv, Gateway, Desk, browser

-----------------------------------------------------------------------------
(* The browser reads, replays and shows *)

\* A board with one row changed to what is known of it.
LEMMA OneRowChanged ==
  ASSUME NEW list, BoardOk(list), NEW id \in Ids, NEW row \in Row, Known(id, row)
  PROVE  BoardOk([list EXCEPT ![id] = row])
BY DEF BoardOk, Board

LEMMA ReplacedIsOk ==
  ASSUME IInv, NEW list, BoardOk(list), NEW q, ReplyOk(q)
  PROVE  BoardOk(Replaced(list, Mine(q.req), q))
<1>. DEFINE m == Mine(q.req)
<1>1. q.id \in Ids /\ q.row \in Row /\ Known(q.id, q.row) /\ m.id \in Ids
  BY EditFacts DEF ReplyOk, Reply
<1>2. Absent \in Row /\ Known(m.id, Absent)
  BY <1>1, RowsKnown
<1>. HIDE DEF m
<1>3. BoardOk([list EXCEPT ![m.id] = Absent])
  BY <1>1, <1>2, OneRowChanged
<1>. QED BY <1>1, <1>3, OneRowChanged DEF Replaced, m

LEMMA ReplyFacts ==
  ASSUME IInv, NEW q \in replies
  PROVE  LET m == Mine(q.req) IN
         /\ ReplyOk(q) /\ q.row \in Row /\ q.req.edit \in Made
         /\ m \in Mutation /\ m.id \in Ids /\ m.item \in Row /\ Known(m.id, m.item)
         /\ m.kind # "create" => q.id = m.id /\ Known(m.id, q.row)
         /\ q.code = "conflict" => m.kind = "move"
         /\ Absent \in Row /\ Known(m.id, Absent)
<1>. DEFINE m == Mine(q.req)
<1>1. ReplyOk(q) /\ q.row \in Row /\ q.req.edit \in Made
  BY DEF IInv, Gateway, RepliesOk, ReplyOk, Reply
<1>2. m \in Mutation /\ Known(m.id, m.item) /\ m.id \in Ids /\ m.item \in Row
  BY <1>1, EditFacts
<1>. QED BY <1>1, <1>2, RowsKnown DEF ReplyOk

LEMMA MutateAnsweredStep ==
  ASSUME IInv, NEW q \in replies, MutateAnswered(q)
  PROVE  IInv'
<1>. DEFINE m == Mine(q.req)
<1>1. /\ replies' \subseteq replies /\ UNCHANGED <<table, edits, load, wire, running>>
      /\ items' = [items EXCEPT ![m.by] = Reconciled(items[m.by], m, q)]
      /\ \/ held' = held
         \/ held' = [held EXCEPT ![m.by] = Append(held[m.by], q.req.edit)]
  BY DEF MutateAnswered
<1>2. Grows
  BY <1>1, HistoryStands DEF table
<1>3. /\ items \in [Browsers -> Board] /\ \A b \in Browsers : BoardOk(items[b])
      /\ held \in [Browsers -> Seq(Made)]
  BY DEF IInv, Desk, ItemsOk, HeldOk
<1>4. ASSUME m.by \in Browsers PROVE BoardOk(Reconciled(items[m.by], m, q))
  <2>. DEFINE list == items[m.by]
  <2>1. BoardOk(list)
    BY <1>3, <1>4
  <2>. HIDE DEF list
  <2>2. /\ ReplyOk(q) /\ q.row \in Row
        /\ m \in Mutation /\ m.id \in Ids /\ m.item \in Row /\ Known(m.id, m.item)
        /\ m.kind # "create" => Known(m.id, q.row)
        /\ q.code = "conflict" => m.kind = "move"
        /\ Absent \in Row /\ Known(m.id, Absent)
    BY ReplyFacts
  <2>3. BoardOk(Replaced(list, m, q))
    BY <2>1, <2>2, ReplacedIsOk
  <2>. HIDE DEF m
  <2>4. BoardOk([list EXCEPT ![m.id] = Absent]) /\ BoardOk([list EXCEPT ![m.id] = m.item])
    BY <2>1, <2>2, OneRowChanged
  <2>5. m.kind # "create" => BoardOk([list EXCEPT ![m.id] = q.row])
    BY <2>1, <2>2, OneRowChanged
  <2>6. BoardOk(Reconciled(list, m, q))
    BY <2>1, <2>2, <2>3, <2>4, <2>5 DEF Reconciled, Rejected
  <2>. QED BY <2>6 DEF list
<1>. HIDE DEF m
<1>5. items' \in [Browsers -> Board] /\ \A b \in Browsers : BoardOk(items'[b])
  BY <1>1, <1>3, <1>4 DEF BoardOk
<1>6. ItemsOk'
  BY <1>2, <1>5 DEF ItemsOk, BoardOk, Known, Grows, Board
<1>7. HeldOk'
  <2>1. q.req.edit \in Made /\ Made' = Made
    BY <1>1, ReplyFacts DEF Made
  <2>2. m.by \in Browsers => Append(held[m.by], q.req.edit) \in Seq(Made)
    BY <1>3, <2>1, AppendProperties
  <2>. QED BY <1>1, <1>3, <2>1, <2>2 DEF HeldOk
<1>. QED BY <1>1, <1>2, <1>6, <1>7, PartsStand DEF IInv, Gateway, Desk

\* A load that moves from one good state to another.
LEMMA OneLoadChanged ==
  ASSUME IInv, Grows, UNCHANGED edits, NEW b \in Browsers, NEW l \in Loaders, NEW x, LoadingOk(x),
         load' = [load EXCEPT ![b][l] = x]
  PROVE  LoadOk'
<1>1. x \in LoadState
  BY DEF LoadingOk, LoadState
<1>2. load' = [load EXCEPT ![b] = [load[b] EXCEPT ![l] = x]]
  OBVIOUS
<1>3. load \in [Browsers -> [Loaders -> LoadState]] /\ [load[b] EXCEPT ![l] = x] \in [Loaders -> LoadState]
  BY <1>1 DEF IInv, Desk, LoadOk
<1>4. load' \in [Browsers -> [Loaders -> LoadState]]
  BY <1>2, <1>3
<1>5. \A c \in Browsers, k \in Loaders : load'[c][k] = x \/ load'[c][k] = load[c][k]
  BY <1>2, <1>3
<1>6. ASSUME NEW r, LoadingOk(r) PROVE LoadingOk(r)'
  <2>1. Made' = Made
    BY DEF Made
  <2>2. r = NoLoad \/ (BoardOk(r.list) /\ \A id \in Ids :
           r.list[id] # Absent /\ r.list[id].born # Unborn => <<id, r.list[id].born>> \in Origins')
    BY <1>6, BoardStands DEF LoadingOk
  <2>. QED BY <1>6, <2>1, <2>2 DEF LoadingOk, BoardOk, Known, Fetched, Replay
<1>7. \A c \in Browsers, k \in Loaders : LoadingOk(load[c][k])
  BY DEF IInv, Desk, LoadOk
<1>8. ASSUME NEW c \in Browsers, NEW k \in Loaders PROVE LoadingOk(load[c][k])'
  <2>1. CASE load'[c][k] = x
    BY <1>6, <2>1 DEF LoadingOk, BoardOk, Known, Fetched, Replay
  <2>2. CASE load'[c][k] = load[c][k]
    BY <1>6, <1>7, <2>2 DEF LoadingOk, BoardOk, Known, Fetched, Replay
  <2>. QED BY <1>5, <2>1, <2>2
<1>9. LoadState' = LoadState
  BY DEF LoadState, Fetched, Replay, Made, Board
<1>. QED BY <1>4, <1>8, <1>9 DEF LoadOk

LEMMA BoardShown ==
  ASSUME IInv, Grows, NEW b \in Browsers, NEW list, BoardOk(list), items' = [items EXCEPT ![b] = list]
  PROVE  ItemsOk'
<1>1. items' \in [Browsers -> Board] /\ \A c \in Browsers : BoardOk(items'[c])
  BY DEF IInv, Desk, ItemsOk, BoardOk
<1>. QED BY <1>1 DEF ItemsOk, BoardOk, Known, Grows, Board

LEMMA LoadFacts ==
  ASSUME IInv, NEW b \in Browsers, NEW l \in Loaders
  PROVE  LET r == load[b][l] IN
         /\ LoadingOk(r) /\ LoadingOk(NoLoad)
         /\ r.pc = "fetched" => BoardOk(r.list)
         /\ r.pc \in {"replay", "waiting"} =>
              /\ r \in Replay /\ BoardOk(r.list)
              /\ r.pending \in Seq(Made) /\ r.still \in Seq(Made)
         /\ r.pc = "waiting" => r.pending # << >>
<1>. DEFINE r == load[b][l]
<1>1. LoadingOk(r)
  BY DEF IInv, Desk, LoadOk
<1>. HIDE DEF r
<1>. QED BY <1>1 DEF LoadingOk, NoLoad, Fetched, Replay, r

LEMMA LoadStep ==
  ASSUME IInv, NEW b \in Browsers, NEW l \in Loaders,
         LoadRead(b, l) \/ LoadArrives(b, l) \/ Show(b, l)
  PROVE  IInv'
<1>. DEFINE r == load[b][l]
<1>1. UNCHANGED <<table, edits, wire, running, replies>>
  BY DEF LoadRead, LoadArrives, Show
<1>2. Grows
  BY <1>1, HistoryStands DEF table
<1>3. /\ LoadingOk(r) /\ LoadingOk(NoLoad)
      /\ r.pc = "fetched" => BoardOk(r.list)
      /\ r.pc = "replay" =>
           r \in Replay /\ BoardOk(r.list) /\ r.pending \in Seq(Made) /\ r.still \in Seq(Made)
  BY LoadFacts
<1>4. BoardOk(rows) /\ held \in [Browsers -> Seq(Made)]
  BY DEF IInv, Table, RowsOk, Desk, HeldOk, BoardOk
<1>5. CASE LoadRead(b, l)
  <2>. DEFINE x == [pc |-> "fetched", list |-> rows]
  <2>1. LoadingOk(x)
    BY <1>4 DEF LoadingOk, Fetched, BoardOk
  <2>2. load' = [load EXCEPT ![b][l] = x] /\ UNCHANGED <<items, held>>
    BY <1>5 DEF LoadRead
  <2>. HIDE DEF x
  <2>. QED BY <1>1, <1>2, <2>1, <2>2, OneLoadChanged, PartsStand DEF IInv, Gateway, Desk
<1>6. CASE LoadArrives(b, l)
  <2>1. r.pc = "fetched" /\ held' = held
    BY <1>6 DEF LoadArrives
  <2>2. CASE items' = [items EXCEPT ![b] = r.list] /\ load' = [load EXCEPT ![b][l] = NoLoad]
    BY <1>1, <1>2, <1>3, <2>1, <2>2, OneLoadChanged, BoardShown, PartsStand DEF IInv, Gateway, Desk
  <2>3. CASE /\ items' = items
             /\ load' = [load EXCEPT ![b][l] =
                  [pc |-> "replay", list |-> @.list, pending |-> held[b], still |-> << >>]]
    <3>. DEFINE x == [pc |-> "replay", list |-> r.list, pending |-> held[b], still |-> << >>]
    <3>1. LoadingOk(x)
      BY <1>3, <1>4, <2>1 DEF LoadingOk, Replay, BoardOk
    <3>2. load' = [load EXCEPT ![b][l] = x]
      BY <2>3
    <3>. HIDE DEF x
    <3>. QED BY <1>1, <1>2, <2>1, <2>3, <3>1, <3>2, OneLoadChanged, PartsStand DEF IInv, Gateway, Desk
  <2>. QED BY <1>6, <2>2, <2>3 DEF LoadArrives
<1>7. CASE Show(b, l)
  <2>1. /\ r.pc = "replay" /\ items' = [items EXCEPT ![b] = r.list]
        /\ held' = [held EXCEPT ![b] = r.still] /\ load' = [load EXCEPT ![b][l] = NoLoad]
    BY <1>7 DEF Show
  <2>2. HeldOk'
    BY <1>1, <1>3, <1>4, <2>1 DEF HeldOk, Made
  <2>. QED BY <1>1, <1>2, <1>3, <2>1, <2>2, OneLoadChanged, BoardShown, PartsStand DEF IInv, Gateway, Desk
<1>. QED BY <1>5, <1>6, <1>7

LEMMA ReplaySendStep ==
  ASSUME IInv, NEW b \in Browsers, NEW l \in Loaders, ReplaySend(b, l)
  PROVE  IInv'
<1>. DEFINE r == load[b][l]
            e == Head(r.pending)
            m == edits[e]
            row == r.list[m.id]
            ver == IF m.kind = "move" THEN row.ver ELSE 0
            req == [from |-> l, edit |-> e, live |-> TRUE, ver |-> ver]
            skipped == [r EXCEPT !.pending = Tail(r.pending)]
            asking == [r EXCEPT !.pc = "waiting"]
<1>1. UNCHANGED <<table, edits, items, held, running, replies>> /\ r.pc = "replay" /\ r.pending # << >>
  BY DEF ReplaySend
<1>2. Grows
  BY <1>1, HistoryStands DEF table
<1>3. /\ r \in Replay /\ BoardOk(r.list)
      /\ r.pending \in Seq(Made) /\ r.still \in Seq(Made)
  BY <1>1, LoadFacts
<1>4. e \in Made /\ Tail(r.pending) \in Seq(Made)
  BY <1>1, <1>3, HeadTailProperties
<1>5. \/ load' = [load EXCEPT ![b][l] = skipped] /\ wire' = wire
      \/ load' = [load EXCEPT ![b][l] = asking] /\ wire' = wire \cup {req}
  BY DEF ReplaySend
<1>6. LoadingOk(skipped) /\ LoadingOk(asking)
  BY <1>1, <1>3, <1>4 DEF LoadingOk, Replay
<1>7. req \in Request /\ req.edit = e
  <2>1. m \in Mutation /\ e \in Edits
    BY <1>4, SizesAssumption DEF IInv, Table, EditsOk, Made, Edits
  <2>2. m.id \in Ids
    BY <2>1 DEF Mutation
  <2>3. ver \in Nat
    BY <1>3, <2>2 DEF BoardOk, Board, Row
  <2>. HIDE DEF e, ver
  <2>. QED BY <2>1, <2>3 DEF Request
<1>. HIDE DEF skipped, asking, req
<1>8. WireOk'
  BY <1>1, <1>4, <1>5, <1>7 DEF WireOk, IInv, Gateway, Made
<1>. QED BY <1>1, <1>2, <1>5, <1>6, <1>8, OneLoadChanged, PartsStand DEF IInv, Gateway, Desk

LEMMA ReplayAnsweredStep ==
  ASSUME IInv, NEW b \in Browsers, NEW l \in Loaders, NEW q \in replies, ReplayAnswered(b, l, q)
  PROVE  IInv'
<1>. DEFINE r == load[b][l]
            m == Mine(q.req)
            list == Replayed(r.list, m, q)
            still == IF StillHeld(q) THEN Append(r.still, q.req.edit) ELSE r.still
            x == [pc |-> "replay", list |-> list, pending |-> Tail(r.pending), still |-> still]
<1>1. /\ UNCHANGED <<table, edits, items, held, wire, running>> /\ replies' \subseteq replies
      /\ r.pc = "waiting" /\ load' = [load EXCEPT ![b][l] = x]
  BY DEF ReplayAnswered
<1>2. Grows
  BY <1>1, HistoryStands DEF table
<1>3. /\ BoardOk(r.list) /\ r.pending # << >>
      /\ r.pending \in Seq(Made) /\ r.still \in Seq(Made)
  BY <1>1, LoadFacts
<1>4. /\ ReplyOk(q) /\ q.row \in Row /\ q.req.edit \in Made /\ m.id \in Ids
      /\ m.kind # "create" => Known(m.id, q.row)
      /\ Absent \in Row /\ Known(m.id, Absent)
  BY ReplyFacts
<1>5. BoardOk(list)
  <2>1. BoardOk(Replaced(r.list, m, q))
    BY <1>3, <1>4, ReplacedIsOk
  <2>. HIDE DEF m, r
  <2>2. BoardOk([r.list EXCEPT ![m.id] = Absent])
    BY <1>3, <1>4, OneRowChanged
  <2>3. m.kind = "move" => BoardOk([r.list EXCEPT ![m.id] = q.row])
    BY <1>3, <1>4, OneRowChanged
  <2>. QED BY <1>3, <2>1, <2>2, <2>3 DEF Replayed
<1>6. Tail(r.pending) \in Seq(Made) /\ still \in Seq(Made)
  BY <1>3, <1>4, HeadTailProperties, AppendProperties
<1>. HIDE DEF list, still
<1>7. LoadingOk(x)
  BY <1>5, <1>6 DEF LoadingOk, Replay, BoardOk
<1>. HIDE DEF x
<1>. QED BY <1>1, <1>2, <1>7, OneLoadChanged, PartsStand DEF IInv, Gateway, Desk

-----------------------------------------------------------------------------
(* What is written goes where it was aimed *)

LEMMA InitIsGood ==
  ASSUME Init
  PROVE  IInv
<1>1. MaxEdits \in Nat /\ {1, 2} \subseteq Ids /\ << >> \in Seq(Mutation) /\ Len(<< >>) = 0
  BY SizesAssumption, EmptySeq DEF Ids
<1>. DEFINE first == [ver |-> 1, val |-> 0, born |-> 0]
<1>2. first \in Row /\ Absent \in Row /\ first.born # Unborn /\ Absent.born # Unborn
  BY <1>1 DEF Row, Absent, Unborn
<1>3. \A ids : \A id \in Ids : Seeded(ids)[id] = IF id \in ids THEN first ELSE Absent
  BY DEF Seeded
<1>4. Seeded({1}) \in Board /\ Seeded({1, 2}) \in Board
  BY <1>2 DEF Seeded, Board
<1>. HIDE DEF first
<1>5. ASSUME NEW ids \in {{1}, {1, 2}}, NEW id \in Ids
      PROVE /\ Known(id, Seeded(ids)[id]) /\ Seeded(ids)[id].born # Unborn
            /\ Seeded(ids)[id] # Absent => id <= 2
  <2>1. CASE id \in {1, 2} /\ Seeded(ids)[id] = first
    BY <1>2, <2>1 DEF Known, Origins, first
  <2>2. CASE Seeded(ids)[id] = Absent
    BY <1>2, <2>2 DEF Known
  <2>. QED BY <1>3, <2>1, <2>2
<1>6. EditsOk
  BY <1>1 DEF Init, EditsOk, Made
<1>7. RowsOk
  BY <1>4, <1>5 DEF Init, RowsOk
<1>8. AppliedOk
  BY DEF Init, AppliedOk, Created, OneWinner, LandsWhereAimed
<1>9. Gateway
  BY DEF Init, Gateway, RunningOk, WireOk, RepliesOk
<1>10. ItemsOk
  BY <1>4, <1>5 DEF Init, ItemsOk, BoardOk
<1>11. HeldOk
  BY EmptySeq DEF Init, HeldOk
<1>12. LoadOk
  BY DEF Init, LoadOk, LoadingOk, LoadState
<1>. QED BY <1>6, <1>7, <1>8, <1>9, <1>10, <1>11, <1>12 DEF IInv, Table, Desk

LEMMA StandsStill ==
  ASSUME IInv, UNCHANGED vars
  PROVE  IInv'
<1>1. UNCHANGED <<rows, minted, edits, items, held, load, wire, running, replies, applied>>
  BY DEF vars
<1>2. Grows
  BY <1>1, HistoryStands
<1>. QED BY <1>1, <1>2, PartsStand DEF IInv, Gateway, Desk, table

LEMMA StepIsGood ==
  ASSUME IInv, [Next]_vars
  PROVE  IInv'
<1>1. ASSUME NEW h \in running, Serve(h) PROVE IInv'
  BY <1>1, AddStep, SwapStep, RereadStep, DeleteStep DEF Serve
<1>2. CASE Faulty
  BY <1>2, RereadStep, LostStep, TimeOutStep, BodyBreaksStep DEF Faulty
<1>3. ASSUME NEW b \in Browsers, NEW l \in Loaders, LoadRead(b, l) \/ Loading(b, l) PROVE IInv'
  BY <1>3, LoadStep, ReplaySendStep, ReplayAnsweredStep DEF Loading
<1>. QED BY <1>1, <1>2, <1>3, EditSteps, TakeStep, MutateAnsweredStep, StandsStill
  DEF Next, Working

\* What a board, a held write, a list or an answer says of the origin of a row
\* is true of its number, however stale it is.
THEOREM QueueIsGood == Spec => []IInv
<1>1. Init => IInv
  BY InitIsGood
<1>2. IInv /\ [Next]_vars => IInv'
  BY StepIsGood
<1>. QED BY <1>1, <1>2, PTL DEF Spec

\* Of the edits that quote one version of a row at most one is written, for any
\* number of readers and processes (work_items.py:224-235).
THEOREM SwapsHaveOneWinner == Spec => []OneWinner
<1>1. IInv => OneWinner
  BY DEF IInv, Table, AppliedOk
<1>. QED BY <1>1, QueueIsGood, PTL

\* An edit aimed at a row the gateway had minted is written to that row or to
\* none (work_items.py:278-281).
THEOREM EditsLandWhereAimed == Spec => []LandsWhereAimed
<1>1. IInv => LandsWhereAimed
  BY DEF IInv, Table, AppliedOk
<1>. QED BY <1>1, QueueIsGood, PTL

-----------------------------------------------------------------------------
(* Who is waiting for an answer.  A request is a token that moves from the   *)
(* wire to a handler to an answer.  A reader is told "no" by the answer to   *)
(* the first try of an edit, so the argument follows first tries: until one  *)
(* is decided nothing else stands for its edit, and a "no" ends it.          *)

OnWire(r) == [at |-> "wire", req |-> r, of |-> r]
AtHandler(h) == [at |-> "handler", req |-> h.req, of |-> h]
InReply(q) == [at |-> "reply", req |-> q.req, of |-> q]
Tokens == {OnWire(r) : r \in wire} \cup {AtHandler(h) : h \in running} \cup {InReply(q) : q \in replies}

\* The answer of a decided token is neither a rejection nor yet to come before a write.
Undecided(t) ==
  \/ t.at = "wire"
  \/ t.at = "handler" /\ t.of.pc # "reread"
  \/ t.at = "reply" /\ t.of.code \notin {"ok", "unread", "unreachable"}

FirstTry(r) == r.from = "mutate" /\ r.live

SameSender(r, s) ==
  /\ r.live /\ s.live /\ r.from = s.from
  /\ IF r.from = "mutate" THEN r.edit = s.edit ELSE Mine(r).by = Mine(s).by

Elements(s) == {s[i] : i \in 1 .. Len(s)}

\* The edits a load still replays or has failed to.
Out(r) == IF r.pc \in {"replay", "waiting"} THEN Elements(r.pending) \cup Elements(r.still) ELSE {}

Kept(e) ==
  \/ \E b \in Browsers : e \in Elements(held[b])
  \/ \E b \in Browsers, l \in Loaders : e \in Out(load[b][l])

\* An edit whose first try is over without an answer.
Retried(e) == Kept(e) \/ \E t \in Tokens : t.req.from \in Loaders /\ t.req.edit = e

Unwritten(e) == \A a \in applied : a.edit # e

OneAsk == \A s, t \in Tokens : SameSender(s.req, t.req) => s = t

Authored ==
  /\ \A b \in Browsers : \A e \in Elements(held[b]) : edits[e].by = b
  /\ \A b \in Browsers, l \in Loaders : \A e \in Out(load[b][l]) : edits[e].by = b

Asked(b, l) == \E t \in Tokens : t.req.live /\ t.req.from = l /\ Mine(t.req).by = b

\* A load waits exactly while a live request of its own is somewhere.
Waits ==
  /\ \A t \in Tokens : t.req.live => Mine(t.req).by \in Browsers
  /\ \A q \in replies : q.req.live
  /\ \A b \in Browsers, l \in Loaders : load[b][l].pc = "waiting" <=> Asked(b, l)

Alone(t) == Unwritten(t.req.edit) /\ \A s \in Tokens : s.req.edit = t.req.edit => s = t

FirstTries ==
  \A t \in Tokens : FirstTry(t.req) =>
    ~Retried(t.req.edit) /\ t.req.edit \notin told /\ (Undecided(t) => Alone(t))

Ended(e) == e \in Made /\ ~Retried(e) /\ Unwritten(e) /\ \A t \in Tokens : t.req.edit # e

Asking == OneAsk /\ Authored /\ Waits /\ FirstTries /\ \A e \in told : Ended(e)

\* What of the shape counts.
Counted ==
  /\ IsFiniteSet(running) /\ Cardinality(running) <= Processes
  /\ minted <= LastId /\ faults \in 0 .. MaxFaults

LEMMA ElementsOf ==
  ASSUME NEW S, NEW s \in Seq(S)
  PROVE  /\ Elements(<< >>) = {} /\ Elements(s) \subseteq S
         /\ \A x \in S : Elements(Append(s, x)) = Elements(s) \cup {x}
         /\ s # << >> => Head(s) \in Elements(s) /\ Elements(Tail(s)) \subseteq Elements(s)
<1>1. Len(s) \in Nat
  BY LenProperties
<1>2. ASSUME NEW x \in S PROVE Elements(Append(s, x)) = Elements(s) \cup {x}
  BY <1>1, AppendProperties DEF Elements
<1>3. ASSUME s # << >> PROVE Head(s) \in Elements(s) /\ Elements(Tail(s)) \subseteq Elements(s)
  <2>1. Len(s) > 0 /\ Head(s) = s[1]
    BY <1>1, <1>3, EmptySeq, HeadTailProperties
  <2>2. Len(Tail(s)) = Len(s) - 1 /\ \A i \in 1 .. Len(Tail(s)) : Tail(s)[i] = s[i + 1]
    BY <1>3, HeadTailProperties
  <2>. QED BY <1>1, <2>1, <2>2 DEF Elements
<1>4. Elements(s) \subseteq S
  BY ElementOfSeq DEF Elements
<1>5. Elements(<< >>) = {}
  BY EmptySeq DEF Elements
<1>. QED BY <1>2, <1>3, <1>4, <1>5

\* Every token, every held write and every write taken is of an edit that was made.
LEMMA TokenFacts ==
  ASSUME IInv
  PROVE  /\ \A t \in Tokens : t.req \in Request /\ t.req.edit \in Made
         /\ \A e : Kept(e) => e \in Made
         /\ \A a \in applied : a.edit \in Made
<1>1. /\ \A r \in wire : r \in Request /\ r.edit \in Made
      /\ \A h \in running : h.req \in Request /\ h.req.edit \in Made
      /\ \A q \in replies : q.req \in Request /\ q.req.edit \in Made
      /\ \A a \in applied : a.edit \in Made
  BY DEF IInv, Table, AppliedOk, Gateway, WireOk, RunningOk, Handler, RepliesOk, ReplyOk, Reply
<1>2. \A t \in Tokens : t.req \in Request /\ t.req.edit \in Made
  BY <1>1 DEF Tokens, OnWire, AtHandler, InReply
<1>3. \A b \in Browsers : Elements(held[b]) \subseteq Made
  BY ElementsOf DEF IInv, Desk, HeldOk
<1>4. \A b \in Browsers, l \in Loaders : Out(load[b][l]) \subseteq Made
  BY LoadFacts, ElementsOf DEF Out
<1>. QED BY <1>1, <1>2, <1>3, <1>4 DEF Kept

\* A token moves on as "u"; a sender that has given up leaves an orphan of it.
Moved(t, u) ==
  /\ \A x \in Tokens' : \/ x \in Tokens \ {t} \/ x = u
                        \/ ~x.req.live /\ x.req.edit = t.req.edit /\ x.req.from = t.req.from /\ ~Undecided(u)
  /\ \A x \in Tokens \ {t} : x \in Tokens'
  /\ u.req = t.req /\ (t.req.live => u \in Tokens') /\ (Undecided(u) => Undecided(t))

\* A write is of the edit of the token that moves past its decision.
Writes(t, u) ==
  \/ applied' = applied
  \/ ~Undecided(u) /\ \A a \in applied' : a \in applied \/ a.edit = t.req.edit

LEMMA MoveKeepsAsking ==
  ASSUME Asking, UNCHANGED <<edits, held, load, told>>, NEW t \in Tokens, NEW u,
         Moved(t, u), Writes(t, u), \A q \in replies' : q.req.live
  PROVE  Asking'
<1>1. \A r : Mine(r)' = Mine(r)
  BY DEF Mine
<1>2. \A r, s : SameSender(r, s)' = SameSender(r, s)
  BY <1>1 DEF SameSender
<1>3. \A e : (Kept(e)' <=> Kept(e)) /\ (Retried(e)' => Retried(e))
  <2>1. \A e : Kept(e)' <=> Kept(e)
    BY DEF Kept, Out
  <2>2. ASSUME NEW e, NEW x \in Tokens', x.req.from \in Loaders, x.req.edit = e
        PROVE  \E y \in Tokens : y.req.from \in Loaders /\ y.req.edit = e
    BY <2>2 DEF Moved
  <2>. QED BY <2>1, <2>2 DEF Retried
<1>4. OneAsk'
  <2>. SUFFICES ASSUME NEW x \in Tokens', NEW y \in Tokens', SameSender(x.req, y.req) PROVE x = y
    BY <1>2 DEF OneAsk
  <2>1. (x \in Tokens \ {t} \/ x = u) /\ (y \in Tokens \ {t} \/ y = u)
    BY DEF Moved, SameSender
  <2>2. \A z \in Tokens \ {t} : ~SameSender(z.req, u.req) /\ ~SameSender(u.req, z.req)
    BY DEF Asking, OneAsk, Moved
  <2>. QED BY <2>1, <2>2 DEF Asking, OneAsk
<1>5. Authored'
  BY DEF Asking, Authored, Out
<1>6. Waits'
  <2>1. \A x \in Tokens' : x.req.live => \E y \in Tokens : y.req = x.req
    BY DEF Moved
  <2>2. \A x \in Tokens : x.req.live => \E y \in Tokens' : y.req = x.req
    BY DEF Moved
  <2>3. \A b \in Browsers, l \in Loaders : Asked(b, l)' <=> Asked(b, l)
    BY <1>1, <2>1, <2>2 DEF Asked
  <2>4. \A x \in Tokens' : x.req.live => Mine(x.req)'.by \in Browsers
    BY <1>1, <2>1 DEF Asking, Waits
  <2>. QED BY <2>3, <2>4 DEF Asking, Waits
<1>7. FirstTries'
  <2>. SUFFICES ASSUME NEW x \in Tokens', FirstTry(x.req)
       PROVE /\ ~Retried(x.req.edit)' /\ x.req.edit \notin told
             /\ Undecided(x) => /\ \A a \in applied' : a.edit # x.req.edit
                                /\ \A s \in Tokens' : s.req.edit = x.req.edit => s = x
    BY DEF FirstTries, Alone, Unwritten
  <2>1. x \in Tokens \ {t} \/ x = u
    BY DEF Moved, FirstTry
  <2>2. ~Retried(x.req.edit)' /\ x.req.edit \notin told
    BY <1>3, <2>1 DEF Asking, FirstTries, Moved
  <2>3. ASSUME Undecided(x)
        PROVE  /\ \A a \in applied' : a.edit # x.req.edit
               /\ \A s \in Tokens' : s.req.edit = x.req.edit => s = x
    <3>1. CASE x \in Tokens \ {t}
      <4>1. Alone(x) /\ t.req.edit # x.req.edit
        BY <2>3, <3>1 DEF Asking, FirstTries, Alone
      <4>. QED BY <3>1, <4>1 DEF Alone, Unwritten, Moved, Writes
    <3>2. CASE x = u
      <4>1. Alone(t)
        BY <2>3, <3>2 DEF Asking, FirstTries, Moved
      <4>. QED BY <2>3, <3>2, <4>1 DEF Alone, Unwritten, Moved, Writes
    <3>. QED BY <2>1, <3>1, <3>2
  <2>. QED BY <2>2, <2>3
<1>8. \A e \in told' : Ended(e)'
  <2>. SUFFICES ASSUME NEW e \in told
       PROVE e \in Made' /\ ~Retried(e)' /\ (\A a \in applied' : a.edit # e) /\ \A x \in Tokens' : x.req.edit # e
    BY DEF Ended, Unwritten
  <2>1. Ended(e)
    BY DEF Asking
  <2>. QED BY <1>3, <2>1 DEF Ended, Unwritten, Moved, Writes, Made
<1>. QED BY <1>4, <1>5, <1>6, <1>7, <1>8 DEF Asking

\* Tokens are apart by their place and by what they are tokens of.
LEMMA TokensApart ==
  /\ \A r, s : OnWire(r) = OnWire(s) => r = s
  /\ \A g, h : AtHandler(g) = AtHandler(h) => g = h
  /\ \A p, q : InReply(p) = InReply(q) => p = q
  /\ \A r, h, q : OnWire(r) # AtHandler(h) /\ OnWire(r) # InReply(q) /\ AtHandler(h) # InReply(q)
  /\ \A r : OnWire(r).req = r /\ Undecided(OnWire(r))
  /\ \A h : AtHandler(h).req = h.req /\ (Undecided(AtHandler(h)) <=> h.pc # "reread")
  /\ \A q : InReply(q).req = q.req /\ (Undecided(InReply(q)) <=> q.code \notin {"ok", "unread", "unreachable"})
BY DEF OnWire, AtHandler, InReply, Undecided

\* A request leaves the wire for its answer ...
LEMMA WireAnswered ==
  ASSUME NEW r \in wire, NEW code, NEW id, NEW row, wire' = wire \ {r}, running' = running,
         replies' = replies \cup Answer(r, code, id, row)
  PROVE  \E u : Moved(OnWire(r), u)
<1>. DEFINE q == [req |-> r, code |-> code, id |-> id, row |-> row]
<1>1. q.req = r /\ replies' = replies \cup (IF r.live THEN {q} ELSE {})
  BY DEF Answer
<1>. HIDE DEF q
<1>2. Moved(OnWire(r), InReply(q))
  BY <1>1, TokensApart DEF Moved, Tokens
<1>. QED BY <1>2

\* ... or for a handler,
LEMMA WireTaken ==
  ASSUME NEW r \in wire, NEW h, h.req = r, wire' = wire \ {r}, running' = running \cup {h},
         replies' = replies
  PROVE  Moved(OnWire(r), AtHandler(h))
BY TokensApart DEF Moved, Tokens

\* What is left without one handler.
LEMMA OthersOf ==
  ASSUME NEW h \in running
  PROVE  Tokens \ {AtHandler(h)} = {OnWire(r) : r \in wire} \cup {AtHandler(g) : g \in running \ {h}}
                                     \cup {InReply(q) : q \in replies}
<1>1. ASSUME NEW x \in Tokens \ {AtHandler(h)}
      PROVE  \/ \E r \in wire : x = OnWire(r)
             \/ \E g \in running \ {h} : x = AtHandler(g)
             \/ \E q \in replies : x = InReply(q)
  BY DEF Tokens
<1>2. \A r \in wire : OnWire(r) \in Tokens /\ OnWire(r) # AtHandler(h)
  BY TokensApart DEF Tokens
<1>3. \A g \in running \ {h} : AtHandler(g) \in Tokens /\ AtHandler(g) # AtHandler(h)
  BY TokensApart DEF Tokens
<1>4. \A q \in replies : InReply(q) \in Tokens /\ InReply(q) # AtHandler(h)
  BY TokensApart DEF Tokens
<1>. QED BY <1>1, <1>2, <1>3, <1>4

\* a handler leaves with its answer
LEMMA HandlerLeft ==
  ASSUME NEW h \in running, NEW code, NEW row, wire' = wire, Leave(h, code, row),
         h.pc = "reread" => code \in {"ok", "unread", "unreachable"}
  PROVE  \E u : Moved(AtHandler(h), u) /\ (Undecided(u) <=> code \notin {"ok", "unread", "unreachable"})
<1>. DEFINE q == [req |-> h.req, code |-> code, id |-> h.id, row |-> row]
<1>1. /\ q.req = h.req /\ q.code = code /\ running' = running \ {h}
      /\ replies' = replies \cup (IF h.req.live THEN {q} ELSE {})
  BY DEF Answer, Leave
<1>. HIDE DEF q
<1>2. Moved(AtHandler(h), InReply(q))
  <2>1. Tokens' = (Tokens \ {AtHandler(h)}) \cup (IF h.req.live THEN {InReply(q)} ELSE {})
    BY <1>1, OthersOf DEF Tokens
  <2>2. InReply(q).req = AtHandler(h).req /\ AtHandler(h).req = h.req
    BY <1>1, TokensApart
  <2>3. Undecided(InReply(q)) => Undecided(AtHandler(h))
    BY <1>1, TokensApart
  <2>. QED BY <2>1, <2>2, <2>3 DEF Moved
<1>. QED BY <1>1, <1>2, TokensApart

\* or goes on to read the row again.
LEMMA HandlerGoesOn ==
  ASSUME NEW h \in running, h \in Handler, wire' = wire, GoesOn(h)
  PROVE  \E u : Moved(AtHandler(h), u) /\ ~Undecided(u)
<1>. DEFINE k == [h EXCEPT !.pc = "reread"]
<1>1. /\ k.req = h.req /\ k.pc = "reread" /\ running' = (running \ {h}) \cup {k} /\ replies' = replies
  BY DEF GoesOn, Handler
<1>. HIDE DEF k
<1>2. Moved(AtHandler(h), AtHandler(k))
  <2>1. Tokens' = (Tokens \ {AtHandler(h)}) \cup {AtHandler(k)}
    BY <1>1, OthersOf DEF Tokens
  <2>2. AtHandler(k).req = AtHandler(h).req /\ AtHandler(h).req = h.req
    BY <1>1, TokensApart
  <2>3. ~Undecided(AtHandler(k))
    BY <1>1, TokensApart
  <2>. QED BY <2>1, <2>2, <2>3 DEF Moved
<1>. QED BY <1>1, <1>2, TokensApart

\* Whatever a handler does, the tokens stay in order;
LEMMA HandlerAsks ==
  ASSUME IInv, Asking, NEW h \in running, Serve(h) \/ StoreFails(h)
  PROVE  Asking'
<1>. DEFINE t == AtHandler(h)
<1>1. t \in Tokens /\ t.req = h.req /\ h \in Handler
  BY TokensApart, HandlerFacts DEF Tokens
<1>2. UNCHANGED <<edits, held, load, told>> /\ wire' = wire
  BY DEF Serve, Add, Swap, Reread, Delete, StoreFails, browser
<1>3. \/ /\ GoesOn(h)
         /\ \A a \in applied' : a \in applied \/ a.edit = h.req.edit
      \/ \E code, row :
           /\ Leave(h, code, row)
           /\ h.pc = "reread" => code \in {"ok", "unread", "unreachable"}
           /\ \/ applied' = applied
              \/ code = "ok" /\ \A a \in applied' : a \in applied \/ a.edit = h.req.edit
  BY DEF Serve, Add, Swap, Reread, Delete, StoreFails, Write, Entry, table
<1>. HIDE DEF t
<1>4. CASE /\ GoesOn(h)
           /\ \A a \in applied' : a \in applied \/ a.edit = h.req.edit
  <2>1. PICK u : Moved(t, u) /\ ~Undecided(u)
    BY <1>1, <1>2, <1>4, HandlerGoesOn DEF t
  <2>2. Writes(t, u) /\ \A q \in replies' : q.req.live
    BY <1>1, <1>4, <2>1 DEF Writes, GoesOn, Asking, Waits
  <2>. QED BY <1>1, <1>2, <2>1, <2>2, MoveKeepsAsking
<1>5. ASSUME NEW code, NEW row, Leave(h, code, row),
             h.pc = "reread" => code \in {"ok", "unread", "unreachable"},
             \/ applied' = applied
             \/ code = "ok" /\ \A a \in applied' : a \in applied \/ a.edit = h.req.edit
      PROVE  Asking'
  <2>1. PICK u : Moved(t, u) /\ (Undecided(u) <=> code \notin {"ok", "unread", "unreachable"})
    BY <1>2, <1>5, HandlerLeft DEF t
  <2>2. Writes(t, u)
    BY <1>1, <1>5, <2>1 DEF Writes
  <2>3. \A q \in replies' : q.req.live
    BY <1>5 DEF Leave, Answer, Asking, Waits
  <2>. QED BY <1>1, <1>2, <2>1, <2>2, <2>3, MoveKeepsAsking
<1>. QED BY <1>3, <1>4, <1>5

\* so they do when a request leaves the wire,
LEMMA WireAsks ==
  ASSUME IInv, Asking, NEW r \in wire, Take(r) \/ Lost(r) \/ Refuse(r)
  PROVE  Asking'
<1>. DEFINE t == OnWire(r)
<1>1. t \in Tokens
  BY DEF Tokens
<1>2. UNCHANGED <<edits, held, load, told, applied>> /\ wire' = wire \ {r}
  BY DEF Take, TakeCreate, TakeOther, Lost, Refuse, browser, table
<1>3. \/ replies' = replies /\ \E h : h.req = r /\ running' = running \cup {h}
      \/ running' = running /\ \E code, id, row : replies' = replies \cup Answer(r, code, id, row)
  BY DEF Take, TakeCreate, TakeOther, Starts, Lost, Refuse
<1>4. \E u : Moved(t, u)
  BY <1>2, <1>3, WireTaken, WireAnswered
<1>5. \A q \in replies' : q.req.live
  BY <1>3 DEF Answer, Asking, Waits
<1>. HIDE DEF t
<1>. QED BY <1>1, <1>2, <1>4, <1>5, MoveKeepsAsking DEF Writes

\* when an answer loses its body,
LEMMA BodyBreaksAsks ==
  ASSUME IInv, Asking, NEW q \in replies, BodyBreaks(q)
  PROVE  Asking'
<1>. DEFINE p == [q EXCEPT !.code = IF q.code = "ok" THEN "unread" ELSE q.code, !.row = Absent]
            t == InReply(q)
            u == InReply(p)
<1>1. /\ UNCHANGED <<edits, held, load, told, applied, wire, running>>
      /\ replies' = (replies \ {q}) \cup {p}
  BY DEF BodyBreaks, table, browser
<1>2. q \in Reply
  BY DEF IInv, Gateway, RepliesOk, ReplyOk
<1>3. p.req = q.req /\ (p.code \notin {"ok", "unread", "unreachable"} => q.code \notin {"ok", "unread", "unreachable"})
  BY <1>2 DEF Reply
<1>. HIDE DEF p
<1>4. t \in Tokens /\ t.req = q.req /\ u.req = q.req /\ (Undecided(u) => Undecided(t))
  BY <1>3, TokensApart DEF Tokens
<1>5. Tokens' = (Tokens \ {t}) \cup {u}
  <2>1. /\ \A x \in replies \ {q} : InReply(x) \in Tokens /\ InReply(x) # t
        /\ \A r \in wire : OnWire(r) \in Tokens /\ OnWire(r) # t
        /\ \A h \in running : AtHandler(h) \in Tokens /\ AtHandler(h) # t
    BY TokensApart DEF Tokens
  <2>2. ASSUME NEW x \in Tokens \ {t}
        PROVE  \/ \E r \in wire : x = OnWire(r)
               \/ \E h \in running : x = AtHandler(h)
               \/ \E y \in replies \ {q} : x = InReply(y)
    BY DEF Tokens
  <2>. QED BY <1>1, <2>1, <2>2 DEF Tokens
<1>. HIDE DEF t, u
<1>6. Moved(t, u)
  BY <1>4, <1>5 DEF Moved
<1>7. \A x \in replies' : x.req.live
  BY <1>1, <1>3 DEF Asking, Waits
<1>. QED BY <1>1, <1>4, <1>6, <1>7, MoveKeepsAsking DEF Writes

\* and when the reader stops waiting: what is left of the request has no sender.
LEMMA TimeOutAsks ==
  ASSUME IInv, Asking, NEW req \in Waiting, TimeOut(req)
  PROVE  Asking'
<1>. DEFINE a == [req |-> req, code |-> "unreachable", id |-> Mine(req).id, row |-> Absent]
            u == InReply(a)
<1>1. PICK t \in Tokens : t.req = req
  BY TokensApart DEF Waiting, Tokens
<1>2. req.live /\ req \in Request
  BY <1>1, TokenFacts DEF Waiting
<1>3. /\ Orphan(req).edit = req.edit /\ Orphan(req).from = req.from /\ ~Orphan(req).live
      /\ a.req = req /\ u.req = req /\ ~Undecided(u)
  BY <1>2, TokensApart DEF Orphan, Request
<1>4. \A s \in Tokens : s.req = req => s = t
  BY <1>1, <1>2 DEF Asking, OneAsk, SameSender
<1>5. /\ UNCHANGED <<edits, held, load, told, applied>>
      /\ wire' = {OrphanIf(r, req) : r \in wire}
      /\ running' = {[h EXCEPT !.req = OrphanIf(@, req)] : h \in running}
      /\ replies' = {q \in replies : q.req # req} \cup {a}
  BY <1>2 DEF TimeOut, browser, table, Answer
<1>6. \A h \in running : LET k == [h EXCEPT !.req = OrphanIf(@, req)] IN
        /\ h.req = req => k.req = Orphan(req)
        /\ h.req # req => k = h
  BY HandlerFacts DEF OrphanIf, Handler
<1>. HIDE DEF a, u
<1>7. ASSUME NEW x \in Tokens'
      PROVE  \/ x \in Tokens \ {t} \/ x = u
             \/ ~x.req.live /\ x.req.edit = req.edit /\ x.req.from = req.from
  <2>1. CASE \E r \in wire' : x = OnWire(r)
    <3>1. PICK r \in wire : x = OnWire(OrphanIf(r, req))
      BY <1>5, <2>1
    <3>2. CASE r = req
      <4>1. x.req = Orphan(req)
        BY <3>1, <3>2, TokensApart DEF OrphanIf
      <4>. QED BY <1>3, <4>1
    <3>3. CASE r # req
      <4>1. x = OnWire(r) /\ x.req # req /\ x \in Tokens
        BY <3>1, <3>3, TokensApart DEF OrphanIf, Tokens
      <4>. QED BY <1>1, <4>1
    <3>. QED BY <3>2, <3>3
  <2>2. CASE \E h \in running' : x = AtHandler(h)
    <3>1. PICK h \in running : x = AtHandler([h EXCEPT !.req = OrphanIf(@, req)])
      BY <1>5, <2>2
    <3>2. CASE h.req = req
      <4>1. x.req = Orphan(req)
        BY <1>6, <3>1, <3>2, TokensApart
      <4>. QED BY <1>3, <4>1
    <3>3. CASE h.req # req
      <4>1. x = AtHandler(h)
        BY <1>6, <3>1, <3>3
      <4>2. x.req # req /\ x \in Tokens
        BY <3>3, <4>1, TokensApart DEF Tokens
      <4>. QED BY <1>1, <4>2
    <3>. QED BY <3>2, <3>3
  <2>3. CASE \E q \in replies' : x = InReply(q)
    BY <1>1, <1>5, <2>3, TokensApart DEF Tokens, u
  <2>. QED BY <2>1, <2>2, <2>3 DEF Tokens
<1>8. ASSUME NEW x \in Tokens \ {t} PROVE x \in Tokens'
  <2>1. x.req # req
    BY <1>4
  <2>2. CASE \E r \in wire : x = OnWire(r)
    <3>1. PICK r \in wire : x = OnWire(r)
      BY <2>2
    <3>2. OrphanIf(r, req) = r
      BY <2>1, <3>1, TokensApart DEF OrphanIf
    <3>. QED BY <1>5, <3>1, <3>2 DEF Tokens
  <2>3. CASE \E h \in running : x = AtHandler(h)
    <3>1. PICK h \in running : x = AtHandler(h)
      BY <2>3
    <3>2. [h EXCEPT !.req = OrphanIf(@, req)] = h
      BY <1>6, <2>1, <3>1, TokensApart
    <3>3. h \in running'
      BY <1>5, <3>2
    <3>. QED BY <3>1, <3>3 DEF Tokens
  <2>4. CASE \E q \in replies : x = InReply(q)
    BY <1>5, <2>1, <2>4, TokensApart DEF Tokens
  <2>. QED BY <2>2, <2>3, <2>4 DEF Tokens
<1>9. Moved(t, u)
  <2>1. u \in Tokens'
    BY <1>5 DEF Tokens, u
  <2>. QED BY <1>1, <1>3, <1>7, <1>8, <2>1 DEF Moved
<1>10. \A q \in replies' : q.req.live
  BY <1>2, <1>3, <1>5 DEF Asking, Waits
<1>. QED BY <1>5, <1>9, <1>10, MoveKeepsAsking DEF Writes

\* A reader's fresh edit is asked for once.
LEMMA FreshAsk ==
  ASSUME IInv, Asking, Grows, NEW r, r.edit \notin Made, r.edit \in Made', r.from = "mutate",
         r.live => Mine(r)'.by \in Browsers,
         Made \subseteq Made',
         wire' = wire \cup {r}, UNCHANGED <<held, load, told, applied, running, replies>>
  PROVE  Asking'
<1>1. /\ \A t \in Tokens : t.req \in Request /\ t.req.edit \in Made
      /\ \A e : Kept(e) => e \in Made
      /\ \A a \in applied : a.edit \in Made
  BY TokenFacts
<1>2. Tokens' = Tokens \cup {OnWire(r)} /\ OnWire(r).req = r
  BY TokensApart DEF Tokens
<1>3. \A t \in Tokens : Mine(t.req)' = Mine(t.req)
  BY <1>1 DEF Mine, Grows
<1>4. "mutate" \notin Loaders
  BY SizesAssumption
<1>5. \A e : (Kept(e)' <=> Kept(e)) /\ (Retried(e)' => Retried(e))
  <2>1. \A e : Kept(e)' <=> Kept(e)
    BY DEF Kept, Out
  <2>. QED BY <1>2, <1>4, <2>1 DEF Retried
<1>6. ~Retried(r.edit) /\ r.edit \notin told
  BY <1>1 DEF Retried, Asking, Ended
<1>7. OneAsk'
  <2>. SUFFICES ASSUME NEW s \in Tokens', NEW t \in Tokens', SameSender(s.req, t.req)' PROVE s = t
    BY DEF OneAsk
  <2>1. CASE s \in Tokens /\ t \in Tokens
    <3>1. SameSender(s.req, t.req)
      BY <1>3, <2>1 DEF SameSender
    <3>. QED BY <2>1, <3>1 DEF Asking, OneAsk
  <2>2. CASE s = OnWire(r)
    BY <1>1, <1>2, <2>2 DEF SameSender
  <2>3. CASE t = OnWire(r)
    BY <1>1, <1>2, <2>3 DEF SameSender
  <2>. QED BY <1>2, <2>1, <2>2, <2>3
<1>8. Authored'
  <2>1. \A e : Kept(e) => edits'[e] = edits[e]
    BY <1>1 DEF Grows
  <2>2. \A b \in Browsers : \A e \in Elements(held[b]) : edits'[e].by = b
    BY <2>1 DEF Asking, Authored, Kept
  <2>3. \A b \in Browsers, l \in Loaders : \A e \in Out(load[b][l]) : edits'[e].by = b
    BY <2>1 DEF Asking, Authored, Kept
  <2>. QED BY <2>2, <2>3 DEF Authored, Out
<1>9. Waits'
  <2>1. \A b \in Browsers, l \in Loaders : Asked(b, l)' <=> Asked(b, l)
    BY <1>2, <1>3, <1>4 DEF Asked
  <2>2. \A t \in Tokens' : t.req.live => Mine(t.req)'.by \in Browsers
    BY <1>2, <1>3 DEF Asking, Waits
  <2>. QED BY <2>1, <2>2 DEF Asking, Waits
<1>10. FirstTries'
  <2>. SUFFICES ASSUME NEW t \in Tokens', FirstTry(t.req)
       PROVE  ~Retried(t.req.edit)' /\ t.req.edit \notin told /\ (Undecided(t) => Alone(t)')
    BY DEF FirstTries
  <2>1. CASE t = OnWire(r)
    BY <1>1, <1>2, <1>5, <1>6, <2>1 DEF Alone, Unwritten
  <2>2. CASE t \in Tokens
    BY <1>1, <1>2, <1>5, <2>2 DEF Asking, FirstTries, Alone, Unwritten
  <2>. QED BY <1>2, <2>1, <2>2
<1>11. \A e \in told' : Ended(e)'
  <2>. SUFFICES ASSUME NEW e \in told
       PROVE  e \in Made' /\ ~Retried(e)' /\ Unwritten(e)' /\ \A t \in Tokens' : t.req.edit # e
    BY DEF Ended
  <2>1. Ended(e) /\ e # r.edit
    BY <1>6 DEF Asking
  <2>. QED BY <1>2, <1>5, <2>1 DEF Ended, Unwritten
<1>. QED BY <1>7, <1>8, <1>9, <1>10, <1>11 DEF Asking

LEMMA GestureAsks ==
  ASSUME IInv, Asking, NEW b \in Browsers, NEW kind \in {"create", "move", "delete"}, NEW id \in Ids,
         NEW item \in Row, NEW shown \in Row, NEW ver \in Nat,
         Gesture(b, kind, id, item, shown, ver),
         kind # "create" => item # Absent, Known(id, item)
  PROVE  Asking'
<1>. DEFINE m == [by |-> b, kind |-> kind, id |-> id, item |-> item]
<1>. PICK r : r = [from |-> "mutate", edit |-> Len(edits) + 1, ver |-> ver, live |-> TRUE]
  OBVIOUS
<1>1. m \in Mutation /\ m.by = b
  BY DEF Mutation
<1>2. Grows /\ Len(edits) + 1 \in Made'
  BY <1>1, EditMade DEF Gesture, table
<1>3. r.edit = Len(edits) + 1 /\ r.from = "mutate" /\ r.edit \notin Made
  BY LenProperties DEF Made, IInv, Table, EditsOk
<1>4. edits' = Append(edits, m) /\ wire' = wire \cup {r}
  BY DEF Gesture
<1>5. UNCHANGED <<held, load, told, applied, running, replies>>
  BY DEF Gesture, table
<1>. HIDE DEF m
<1>6. Mine(r)' = m
  <2>1. edits'[Len(edits) + 1] = m
    BY <1>1, <1>4, AppendProperties DEF IInv, Table, EditsOk
  <2>. QED BY <1>3, <2>1 DEF Mine
<1>. QED BY <1>1, <1>2, <1>3, <1>4, <1>5, <1>6, FreshAsk DEF Grows

LEMMA ElsewhereAsks ==
  ASSUME IInv, Asking, NEW kind \in {"create", "move", "delete"}, NEW id \in Ids,
         NEW item \in Row, NEW ver \in Nat, SendElsewhere(kind, id, item, ver),
         kind # "create" => item # Absent, Known(id, item)
  PROVE  Asking'
<1>. DEFINE m == [by |-> Elsewhere, kind |-> kind, id |-> id, item |-> item]
<1>. PICK r : r = [from |-> "mutate", edit |-> Len(edits) + 1, ver |-> ver, live |-> FALSE]
  OBVIOUS
<1>1. m \in Mutation
  BY DEF Mutation
<1>2. Grows /\ Len(edits) + 1 \in Made'
  BY <1>1, EditMade DEF SendElsewhere, table
<1>3. r.edit = Len(edits) + 1 /\ r.from = "mutate" /\ ~r.live /\ r.edit \notin Made
  BY LenProperties DEF Made, IInv, Table, EditsOk
<1>4. edits' = Append(edits, m) /\ wire' = wire \cup {r}
  BY DEF SendElsewhere
<1>5. UNCHANGED <<held, load, told, applied, running, replies>>
  BY DEF SendElsewhere, table
<1>. HIDE DEF m
<1>. QED BY <1>2, <1>3, <1>4, <1>5, FreshAsk DEF Grows

\* What browser "c" may hold or replay next: an edit of its own whose first try
\* is over.
Own(c) == {e \in Made : Retried(e) /\ edits[e].by = c}

LEMMA OwnFacts ==
  ASSUME IInv, Asking
  PROVE  /\ \A c \in Browsers : Elements(held[c]) \subseteq Own(c)
         /\ \A c \in Browsers, k \in Loaders : Out(load[c][k]) \subseteq Own(c)
BY TokenFacts DEF Asking, Authored, Own, Retried, Kept

\* A load that goes on keeps, or asks for again, only what it was left with.
LEMMA LoadMoves ==
  ASSUME IInv, Asking, UNCHANGED <<edits, applied, told>>,
         \A c \in Browsers : Elements(held'[c]) \subseteq Own(c),
         \A c \in Browsers, k \in Loaders : Out(load[c][k])' \subseteq Own(c),
         \A t \in Tokens' : t \in Tokens \/ (t.req.from \in Loaders /\ Retried(t.req.edit)),
         OneAsk', Waits'
  PROVE  Asking'
<1>1. \A e : Retried(e)' => Retried(e)
  <2>1. \A e : Kept(e)' => Retried(e)
    BY DEF Kept, Own
  <2>2. ASSUME NEW e, NEW t \in Tokens', t.req.from \in Loaders, t.req.edit = e PROVE Retried(e)
    BY <2>2 DEF Retried
  <2>. QED BY <2>1, <2>2 DEF Retried
<1>2. Authored'
  BY DEF Authored, Own
<1>3. FirstTries'
  <2>. SUFFICES ASSUME NEW t \in Tokens', FirstTry(t.req)
       PROVE  ~Retried(t.req.edit)' /\ t.req.edit \notin told /\ (Undecided(t) => Alone(t)')
    BY DEF FirstTries
  <2>1. t \in Tokens
    BY SizesAssumption DEF FirstTry
  <2>2. ~Retried(t.req.edit) /\ t.req.edit \notin told /\ (Undecided(t) => Alone(t))
    BY <2>1 DEF Asking, FirstTries
  <2>. QED BY <1>1, <2>2 DEF Alone, Unwritten
<1>4. \A e \in told' : Ended(e)'
  <2>. SUFFICES ASSUME NEW e \in told
       PROVE  e \in Made' /\ ~Retried(e)' /\ Unwritten(e)' /\ \A t \in Tokens' : t.req.edit # e
    BY DEF Ended
  <2>1. Ended(e)
    BY DEF Asking
  <2>. QED BY <1>1, <2>1 DEF Ended, Unwritten, Made
<1>. QED BY <1>2, <1>3, <1>4 DEF Asking

\* One load goes on as "x".
LoadBecomes(b, l, x) == load' = [load EXCEPT ![b][l] = x]

LEMMA OneLoad ==
  ASSUME IInv, NEW b \in Browsers, NEW l \in Loaders, NEW x, LoadBecomes(b, l, x)
  PROVE  /\ load'[b][l] = x
         /\ \A c \in Browsers, k \in Loaders : c # b \/ k # l => load'[c][k] = load[c][k]
<1>. DEFINE mine == [load[b] EXCEPT ![l] = x]
<1>1. load' = [load EXCEPT ![b] = mine]
  BY DEF LoadBecomes
<1>2. load \in [Browsers -> [Loaders -> LoadState]]
  BY DEF IInv, Desk, LoadOk
<1>3. mine[l] = x /\ \A k \in Loaders : k # l => mine[k] = load[b][k]
  BY <1>2
<1>. HIDE DEF mine
<1>4. load'[b] = mine /\ \A c \in Browsers : c # b => load'[c] = load[c]
  BY <1>1, <1>2
<1>. QED BY <1>3, <1>4

LEMMA LoadAsks ==
  ASSUME IInv, Asking, NEW b \in Browsers, NEW l \in Loaders,
         LoadRead(b, l) \/ LoadArrives(b, l) \/ Show(b, l)
  PROVE  Asking'
<1>. DEFINE r == load[b][l]
<1>1. UNCHANGED <<edits, applied, told, wire, running, replies>>
  BY DEF LoadRead, LoadArrives, Show, table
<1>2. Tokens' = Tokens
  BY <1>1 DEF Tokens
<1>3. PICK x : /\ load' = [load EXCEPT ![b][l] = x]
               /\ r.pc # "waiting" /\ x.pc # "waiting"
               /\ Out(x) \subseteq Own(b)
               /\ held' = held \/ (held' = [held EXCEPT ![b] = r.still] /\ r.pc = "replay")
  <2>1. CASE LoadRead(b, l)
    <3>. DEFINE x == [pc |-> "fetched", list |-> rows]
    <3>1. load' = [load EXCEPT ![b][l] = x] /\ r.pc = "idle" /\ held' = held
      BY <2>1 DEF LoadRead, NoLoad
    <3>2. x.pc = "fetched" /\ Out(x) = {}
      BY DEF Out
    <3>. QED BY <3>1, <3>2
  <2>2. CASE LoadArrives(b, l)
    <3>1. r.pc = "fetched" /\ held' = held
      BY <2>2 DEF LoadArrives
    <3>2. CASE load' = [load EXCEPT ![b][l] = NoLoad]
      <4>1. NoLoad.pc = "idle" /\ Out(NoLoad) = {}
        BY DEF NoLoad, Out
      <4>. QED BY <3>1, <3>2, <4>1
    <3>3. CASE load' = [load EXCEPT ![b][l] =
                 [pc |-> "replay", list |-> @.list, pending |-> held[b], still |-> << >>]]
      <4>. DEFINE x == [pc |-> "replay", list |-> r.list, pending |-> held[b], still |-> << >>]
      <4>1. load' = [load EXCEPT ![b][l] = x]
        BY <3>3
      <4>2. x.pc = "replay" /\ Out(x) = Elements(held[b]) \cup Elements(<< >>)
        BY DEF Out
      <4>3. Elements(<< >>) = {} /\ Elements(held[b]) \subseteq Own(b)
        BY ElementsOf, OwnFacts DEF IInv, Desk, HeldOk
      <4>. QED BY <3>1, <4>1, <4>2, <4>3
    <3>. QED BY <2>2, <3>2, <3>3 DEF LoadArrives
  <2>3. CASE Show(b, l)
    <3>1. NoLoad.pc = "idle" /\ Out(NoLoad) = {}
      BY DEF NoLoad, Out
    <3>. QED BY <2>3, <3>1 DEF Show
  <2>. QED BY <2>1, <2>2, <2>3
<1>4. /\ load'[b][l] = x
      /\ \A c \in Browsers, k \in Loaders : c # b \/ k # l => load'[c][k] = load[c][k]
  <2>1. LoadBecomes(b, l, x)
    BY <1>3 DEF LoadBecomes
  <2>. QED BY <2>1, OneLoad
<1>. HIDE DEF r
<1>5. \A c \in Browsers : Elements(held'[c]) \subseteq Own(c)
  <2>1. r.pc = "replay" => Elements(r.still) \subseteq Own(b)
    BY OwnFacts DEF Out, r
  <2>2. held \in [Browsers -> Seq(Made)]
    BY DEF IInv, Desk, HeldOk
  <2>. QED BY <1>3, <2>1, <2>2, OwnFacts
<1>6. \A c \in Browsers, k \in Loaders : Out(load[c][k])' \subseteq Own(c)
  BY <1>3, <1>4, OwnFacts DEF Out
<1>7. OneAsk'
  BY <1>1, <1>2 DEF Asking, OneAsk, SameSender, Mine
<1>8. Waits'
  <2>1. \A c \in Browsers, k \in Loaders : Asked(c, k)' <=> Asked(c, k)
    BY <1>1, <1>2 DEF Asked, Mine
  <2>2. \A c \in Browsers, k \in Loaders : load'[c][k].pc = "waiting" <=> load[c][k].pc = "waiting"
    BY <1>3, <1>4 DEF r
  <2>. QED BY <1>1, <1>2, <2>1, <2>2 DEF Asking, Waits, Mine
<1>. QED BY <1>1, <1>2, <1>5, <1>6, <1>7, <1>8, LoadMoves

LEMMA ReplaySendAsks ==
  ASSUME IInv, Asking, NEW b \in Browsers, NEW l \in Loaders, ReplaySend(b, l)
  PROVE  Asking'
<1>. DEFINE r == load[b][l]
            e == Head(r.pending)
            skipped == [r EXCEPT !.pending = Tail(r.pending)]
            asking == [r EXCEPT !.pc = "waiting"]
<1>1. /\ UNCHANGED <<edits, held, told, applied, running, replies>>
      /\ r.pc = "replay" /\ r.pending # << >>
  BY DEF ReplaySend, table
<1>2. r \in Replay /\ r.pending \in Seq(Made) /\ r.still \in Seq(Made)
  BY <1>1, LoadFacts
<1>3. e \in Elements(r.pending) /\ Elements(Tail(r.pending)) \subseteq Elements(r.pending)
  BY <1>1, <1>2, ElementsOf
<1>4. Out(r) = Elements(r.pending) \cup Elements(r.still) /\ Out(r) \subseteq Own(b)
  BY <1>1, OwnFacts DEF Out
<1>5. /\ skipped.pc = "replay" /\ Out(skipped) \subseteq Own(b)
      /\ asking.pc = "waiting" /\ Out(asking) \subseteq Own(b)
  <2>1. skipped.pc = "replay" /\ skipped.pending = Tail(r.pending) /\ skipped.still = r.still
    BY <1>1, <1>2 DEF Replay
  <2>2. asking.pc = "waiting" /\ asking.pending = r.pending /\ asking.still = r.still
    BY <1>2 DEF Replay
  <2>. HIDE DEF skipped, asking, r
  <2>. QED BY <1>3, <1>4, <2>1, <2>2 DEF Out
<1>6. e \in Own(b)
  BY <1>3, <1>4
<1>7. PICK x, req :
        /\ load' = [load EXCEPT ![b][l] = x] /\ Out(x) \subseteq Own(b)
        /\ req.from = l /\ req.edit = e
        /\ \/ x.pc = "replay" /\ wire' = wire
           \/ x.pc = "waiting" /\ wire' = wire \cup {req} /\ req.live
  <2>. DEFINE ver == IF edits[e].kind = "move" THEN r.list[edits[e].id].ver ELSE 0
              ask == [from |-> l, edit |-> e, live |-> TRUE, ver |-> ver]
  <2>1. \/ load' = [load EXCEPT ![b][l] = skipped] /\ wire' = wire
        \/ load' = [load EXCEPT ![b][l] = asking] /\ wire' = wire \cup {ask}
    BY DEF ReplaySend
  <2>2. ask.from = l /\ ask.edit = e /\ ask.live
    OBVIOUS
  <2>. HIDE DEF skipped, asking, ask, e, r
  <2>. QED BY <1>5, <2>1, <2>2
<1>8. /\ load'[b][l] = x
      /\ \A c \in Browsers, k \in Loaders : c # b \/ k # l => load'[c][k] = load[c][k]
  <2>1. LoadBecomes(b, l, x)
    BY <1>7 DEF LoadBecomes
  <2>. QED BY <2>1, OneLoad
<1>. HIDE DEF r, e, skipped, asking
<1>9. /\ \A c \in Browsers : Elements(held'[c]) \subseteq Own(c)
      /\ \A c \in Browsers, k \in Loaders : Out(load[c][k])' \subseteq Own(c)
  BY <1>1, <1>7, <1>8, OwnFacts DEF Out
<1>10. Retried(req.edit) /\ Mine(req).by = b
  BY <1>6, <1>7 DEF Own, Mine
<1>11. ~Asked(b, l)
  BY <1>1 DEF Asking, Waits, r
<1>12. CASE x.pc = "replay" /\ wire' = wire
  <2>1. Tokens' = Tokens
    BY <1>1, <1>12 DEF Tokens
  <2>2. OneAsk'
    BY <1>1, <2>1 DEF Asking, OneAsk, SameSender, Mine
  <2>3. Waits'
    <3>1. \A c \in Browsers, k \in Loaders : Asked(c, k)' <=> Asked(c, k)
      BY <1>1, <2>1 DEF Asked, Mine
    <3>2. \A c \in Browsers, k \in Loaders : load'[c][k].pc = "waiting" <=> load[c][k].pc = "waiting"
      BY <1>1, <1>8, <1>12 DEF r
    <3>. QED BY <1>1, <2>1, <3>1, <3>2 DEF Asking, Waits, Mine
  <2>. QED BY <1>1, <1>9, <2>1, <2>2, <2>3, LoadMoves
<1>13. CASE x.pc = "waiting" /\ wire' = wire \cup {req} /\ req.live
  <2>1. Tokens' = Tokens \cup {OnWire(req)} /\ OnWire(req).req = req
    BY <1>1, <1>13, TokensApart DEF Tokens
  <2>2. OneAsk'
    <3>. SUFFICES ASSUME NEW s \in Tokens', NEW t \in Tokens', SameSender(s.req, t.req)' PROVE s = t
      BY DEF OneAsk
    <3>1. SameSender(s.req, t.req)
      BY <1>1 DEF SameSender, Mine
    <3>2. \A y \in Tokens : ~SameSender(y.req, req) /\ ~SameSender(req, y.req)
      <4>1. l # "mutate"
        BY SizesAssumption
      <4>. QED BY <1>7, <1>10, <1>11, <4>1 DEF SameSender, Asked
    <3>. QED BY <2>1, <3>1, <3>2 DEF Asking, OneAsk
  <2>3. Waits'
    <3>1. ASSUME NEW c \in Browsers, NEW k \in Loaders
          PROVE  Asked(c, k)' <=> Asked(c, k) \/ (c = b /\ k = l)
      BY <1>1, <1>7, <1>10, <1>13, <2>1 DEF Asked, Mine
    <3>2. \A c \in Browsers, k \in Loaders :
            load'[c][k].pc = "waiting" <=> load[c][k].pc = "waiting" \/ (c = b /\ k = l)
      BY <1>8, <1>13
    <3>3. \A t \in Tokens' : t.req.live => Mine(t.req)'.by \in Browsers
      BY <1>1, <1>10, <2>1 DEF Asking, Waits, Mine
    <3>. QED BY <1>1, <3>1, <3>2, <3>3 DEF Asking, Waits
  <2>4. \A t \in Tokens' : t \in Tokens \/ (t.req.from \in Loaders /\ Retried(t.req.edit))
    BY <1>7, <1>10, <2>1
  <2>. QED BY <1>1, <1>9, <2>2, <2>3, <2>4, LoadMoves
<1>. QED BY <1>7, <1>12, <1>13

\* An answer read is gone; a "no" to a first try is the last of its edit.
LEMMA AnswerRead ==
  ASSUME IInv, Asking, NEW q \in replies, replies' = replies \ {q}, UNCHANGED <<wire, running>>
  PROVE  /\ InReply(q) \in Tokens /\ q.req.live /\ Mine(q.req).by \in Browsers
         /\ Tokens' = Tokens \ {InReply(q)}
         /\ \A t \in Tokens' : ~SameSender(t.req, q.req) /\ ~SameSender(q.req, t.req)
<1>1. InReply(q) \in Tokens /\ InReply(q).req = q.req
  BY TokensApart DEF Tokens
<1>2. Tokens' = Tokens \ {InReply(q)}
  <2>1. /\ \A p \in replies \ {q} : InReply(p) \in Tokens /\ InReply(p) # InReply(q)
        /\ \A r \in wire : OnWire(r) \in Tokens /\ OnWire(r) # InReply(q)
        /\ \A h \in running : AtHandler(h) \in Tokens /\ AtHandler(h) # InReply(q)
    BY TokensApart DEF Tokens
  <2>2. ASSUME NEW t \in Tokens \ {InReply(q)}
        PROVE  \/ \E r \in wire : t = OnWire(r)
               \/ \E h \in running : t = AtHandler(h)
               \/ \E p \in replies \ {q} : t = InReply(p)
    BY DEF Tokens
  <2>. QED BY <2>1, <2>2 DEF Tokens
<1>. QED BY <1>1, <1>2 DEF Asking, OneAsk, Waits

LEMMA ReplayAnsweredAsks ==
  ASSUME IInv, Asking, NEW b \in Browsers, NEW l \in Loaders, NEW q \in replies, ReplayAnswered(b, l, q)
  PROVE  Asking'
<1>. DEFINE r == load[b][l]
            still == IF StillHeld(q) THEN Append(r.still, q.req.edit) ELSE r.still
            list == Replayed(r.list, Mine(q.req), q)
<1>1. /\ UNCHANGED <<edits, held, told, applied, wire, running>> /\ replies' = replies \ {q}
      /\ r.pc = "waiting" /\ q.req.from = l /\ Mine(q.req).by = b
      /\ load' = [load EXCEPT ![b][l] =
           [pc |-> "replay", list |-> list, pending |-> Tail(r.pending), still |-> still]]
  BY DEF ReplayAnswered, table
<1>2. /\ InReply(q) \in Tokens /\ q.req.live /\ Tokens' = Tokens \ {InReply(q)}
      /\ \A t \in Tokens' : ~SameSender(t.req, q.req) /\ ~SameSender(q.req, t.req)
  BY <1>1, AnswerRead
<1>3. q.req.edit \in Made /\ q.req.edit \in Own(b)
  <2>1. q.req.edit \in Made /\ InReply(q).req = q.req
    BY <1>2, TokenFacts, TokensApart
  <2>. QED BY <1>1, <1>2, <2>1 DEF Own, Retried, Mine
<1>4. r.pending \in Seq(Made) /\ r.still \in Seq(Made) /\ r.pending # << >>
  BY <1>1, LoadFacts
<1>5. Elements(r.pending) \subseteq Own(b) /\ Elements(r.still) \subseteq Own(b)
  BY <1>1, OwnFacts DEF Out
<1>6. Elements(Tail(r.pending)) \subseteq Own(b) /\ Elements(still) \subseteq Own(b)
  BY <1>3, <1>4, <1>5, ElementsOf
<1>. HIDE DEF still, list, r
<1>7. PICK x : /\ load' = [load EXCEPT ![b][l] = x] /\ x.pc = "replay"
               /\ x.pending = Tail(r.pending) /\ x.still = still
  <2>. DEFINE y == [pc |-> "replay", list |-> list, pending |-> Tail(r.pending), still |-> still]
  <2>1. load' = [load EXCEPT ![b][l] = y] /\ y.pc = "replay" /\ y.pending = Tail(r.pending) /\ y.still = still
    BY <1>1
  <2>. HIDE DEF y
  <2>. QED BY <2>1
<1>8. Out(x) \subseteq Own(b)
  BY <1>6, <1>7 DEF Out
<1>9. /\ load'[b][l] = x
      /\ \A c \in Browsers, k \in Loaders : c # b \/ k # l => load'[c][k] = load[c][k]
  <2>1. LoadBecomes(b, l, x)
    BY <1>7 DEF LoadBecomes
  <2>. QED BY <2>1, OneLoad
<1>10. /\ \A c \in Browsers : Elements(held'[c]) \subseteq Own(c)
       /\ \A c \in Browsers, k \in Loaders : Out(load[c][k])' \subseteq Own(c)
  <2>1. held' = held
    BY <1>1
  <2>. QED BY <2>1, <1>8, <1>9, OwnFacts
<1>11. OneAsk'
  BY <1>1, <1>2 DEF Asking, OneAsk, SameSender, Mine
<1>12. Waits'
  <2>1. ASSUME NEW c \in Browsers, NEW k \in Loaders
        PROVE  Asked(c, k)' <=> Asked(c, k) /\ ~(c = b /\ k = l)
    <3>1. ASSUME Asked(b, l)' PROVE FALSE
      <4>1. PICK t \in Tokens' : t.req.live /\ t.req.from = l /\ Mine(t.req).by = b
        BY <1>1, <3>1 DEF Asked, Mine
      <4>2. l # "mutate"
        BY SizesAssumption
      <4>. QED BY <1>1, <1>2, <4>1, <4>2 DEF SameSender
    <3>2. c # b \/ k # l => (Asked(c, k)' <=> Asked(c, k))
      <4>1. InReply(q).req = q.req
        BY TokensApart
      <4>. QED BY <1>1, <1>2, <4>1 DEF Asked, Mine
    <3>. QED BY <3>1, <3>2
  <2>2. \A c \in Browsers, k \in Loaders :
          load'[c][k].pc = "waiting" <=> load[c][k].pc = "waiting" /\ ~(c = b /\ k = l)
    BY <1>7, <1>9
  <2>. QED BY <1>1, <1>2, <2>1, <2>2 DEF Asking, Waits, Mine
<1>. QED BY <1>1, <1>2, <1>10, <1>11, <1>12, LoadMoves

LEMMA MutateAnsweredAsks ==
  ASSUME IInv, Asking, NEW q \in replies, MutateAnswered(q)
  PROVE  Asking'
<1>. DEFINE m == Mine(q.req)
            e == q.req.edit
<1>1. /\ UNCHANGED <<edits, load, applied, wire, running>> /\ replies' = replies \ {q}
      /\ q.req.from = "mutate"
      /\ held' = IF q.code = "unreachable" THEN [held EXCEPT ![m.by] = Append(held[m.by], e)] ELSE held
      /\ told' = IF SaysNo(m, q) THEN told \cup {e} ELSE told
  BY DEF MutateAnswered, table
<1>2. /\ InReply(q) \in Tokens /\ q.req.live /\ m.by \in Browsers
      /\ Tokens' = Tokens \ {InReply(q)}
      /\ \A t \in Tokens' : ~SameSender(t.req, q.req) /\ ~SameSender(q.req, t.req)
  BY <1>1, AnswerRead
<1>3. e \in Made /\ InReply(q).req = q.req /\ edits[e] = m
  BY <1>2, TokenFacts, TokensApart DEF Mine
<1>4. /\ ~Retried(e) /\ e \notin told
      /\ q.code \notin {"ok", "unread", "unreachable"} => Alone(InReply(q))
  BY <1>1, <1>2, <1>3, TokensApart DEF Asking, FirstTries, FirstTry
<1>5. SaysNo(m, q) => q.code \notin {"ok", "unread", "unreachable"}
  BY DEF SaysNo
<1>6. held \in [Browsers -> Seq(Made)]
  BY DEF IInv, Desk, HeldOk
<1>7. \A c \in Browsers : Elements(held'[c]) =
        IF q.code = "unreachable" /\ c = m.by THEN Elements(held[c]) \cup {e} ELSE Elements(held[c])
  <2>1. Elements(Append(held[m.by], e)) = Elements(held[m.by]) \cup {e}
    BY <1>2, <1>3, <1>6, ElementsOf
  <2>. HIDE DEF m, e
  <2>. QED BY <1>1, <1>2, <1>6, <2>1
<1>. HIDE DEF m, e
<1>8. \A d : Retried(d)' => Retried(d) \/ (d = e /\ q.code = "unreachable")
  <2>1. \A d : Kept(d)' => Kept(d) \/ (d = e /\ q.code = "unreachable")
    <3>1. load' = load
      BY <1>1
    <3>. QED BY <1>7, <3>1 DEF Kept
  <2>. QED BY <1>2, <2>1 DEF Retried
<1>9. OneAsk'
  BY <1>1, <1>2 DEF Asking, OneAsk, SameSender, Mine
<1>10. Authored'
  <2>1. load' = load /\ edits' = edits
    BY <1>1
  <2>. QED BY <1>3, <1>7, <2>1 DEF Asking, Authored
<1>11. Waits'
  <2>1. \A c \in Browsers, k \in Loaders : Asked(c, k)' <=> Asked(c, k)
    BY <1>1, <1>2, <1>3, SizesAssumption DEF Asked, Mine
  <2>. QED BY <1>1, <1>2, <2>1 DEF Asking, Waits, Mine
<1>12. FirstTries'
  <2>. SUFFICES ASSUME NEW t \in Tokens', FirstTry(t.req)
       PROVE  ~Retried(t.req.edit)' /\ t.req.edit \notin told' /\ (Undecided(t) => Alone(t)')
    BY DEF FirstTries
  <2>1. t.req.edit # e
    BY <1>1, <1>2 DEF SameSender, FirstTry, e
  <2>2. ~Retried(t.req.edit) /\ t.req.edit \notin told /\ (Undecided(t) => Alone(t))
    BY <1>2 DEF Asking, FirstTries
  <2>. QED BY <1>1, <1>2, <1>8, <2>1, <2>2 DEF Alone, Unwritten
<1>13. \A d \in told' : Ended(d)'
  <2>. SUFFICES ASSUME NEW d \in told'
       PROVE  d \in Made' /\ ~Retried(d)' /\ Unwritten(d)' /\ \A t \in Tokens' : t.req.edit # d
    BY DEF Ended
  <2>1. CASE d \in told
    <3>1. Ended(d) /\ d # e
      BY <1>4, <2>1 DEF Asking
    <3>. QED BY <1>1, <1>2, <1>8, <3>1 DEF Ended, Unwritten, Made
  <2>2. CASE d = e /\ SaysNo(m, q)
    <3>1. Alone(InReply(q)) /\ q.code # "unreachable"
      BY <1>4, <1>5, <2>2
    <3>2. Unwritten(e) /\ \A t \in Tokens : t.req.edit = e => t = InReply(q)
      BY <1>3, <3>1 DEF Alone, e
    <3>. QED BY <1>1, <1>2, <1>3, <1>4, <1>8, <2>2, <3>1, <3>2 DEF Unwritten, Made
  <2>. QED BY <1>1, <2>1, <2>2
<1>. QED BY <1>9, <1>10, <1>11, <1>12, <1>13 DEF Asking

LEMMA EditAsks ==
  ASSUME IInv, Asking, EditElsewhere \/ \E b \in Browsers : Edit(b)
  PROVE  Asking'
BY EditIsGesture, ElsewhereIsSend, GestureAsks, ElsewhereAsks

LEMMA InitAsks ==
  ASSUME Init
  PROVE  Asking
<1>1. Tokens = {} /\ applied = {} /\ told = {} /\ replies = {}
  BY DEF Init, Tokens
<1>2. /\ \A b \in Browsers : Elements(held[b]) = {}
      /\ \A b \in Browsers, l \in Loaders : load[b][l].pc = "idle" /\ Out(load[b][l]) = {}
  BY ElementsOf, EmptySeq DEF Init, NoLoad, Out
<1>. QED BY <1>1, <1>2 DEF Asking, OneAsk, Authored, Waits, Asked, FirstTries

LEMMA StepAsks ==
  ASSUME IInv, Asking, [Next]_vars
  PROVE  Asking'
<1>1. CASE Working
  BY <1>1, HandlerAsks, WireAsks, MutateAnsweredAsks DEF Working
<1>2. CASE Faulty
  BY <1>2, HandlerAsks, WireAsks, TimeOutAsks, BodyBreaksAsks DEF Faulty
<1>3. ASSUME NEW b \in Browsers, NEW l \in Loaders, LoadRead(b, l) \/ Loading(b, l) PROVE Asking'
  BY <1>3, LoadAsks, ReplaySendAsks, ReplayAnsweredAsks DEF Loading
<1>4. CASE UNCHANGED vars
  <2>1. UNCHANGED <<edits, held, load, wire, running, replies, applied, told>>
    BY <1>4 DEF vars
  <2>. QED BY <2>1 DEF Asking, OneAsk, Authored, Waits, FirstTries, Ended, Tokens, SameSender, Mine,
                       Asked, Retried, Kept, Alone, Unwritten, Made
<1>. QED BY <1>1, <1>2, <1>3, <1>4, EditAsks DEF Next

-----------------------------------------------------------------------------
(* The shape *)

\* What a step may take: a number, a fault, a process.
LEMMA StepTakes ==
  ASSUME [Next]_vars
  PROVE  /\ minted' = minted \/ minted' \in Ids
         /\ faults' = faults \/ (faults < MaxFaults /\ faults' = faults + 1)
         /\ \/ running' = running
            \/ \E h : running' = running \cup {h} /\ Cardinality(running) < Processes
            \/ \E h \in running : running' = running \ {h}
            \/ \E h \in running : \E k : running' = (running \ {h}) \cup {k}
            \/ \E req : TimeOut(req)
<1>. DEFINE TakesNone == minted' = minted /\ faults' = faults /\ running' = running
            Faults == faults' = faults \/ (faults < MaxFaults /\ faults' = faults + 1)
<1>1. ASSUME NEW h \in running, Serve(h) \/ StoreFails(h)
      PROVE  /\ minted' = minted /\ Faults
             /\ running' = running \ {h} \/ \E k : running' = (running \ {h}) \cup {k}
  BY <1>1 DEF Serve, Add, Swap, Reread, Delete, StoreFails, Fault, Leave, GoesOn, table
<1>2. ASSUME NEW req \in wire, Take(req)
      PROVE  /\ minted' = minted \/ minted' \in Ids
             /\ faults' = faults
             /\ running' = running \/ \E h : running' = running \cup {h} /\ Cardinality(running) < Processes
  BY <1>2 DEF Take, TakeCreate, TakeOther, Starts, NextId, table
<1>3. ASSUME NEW req, Lost(req) \/ Refuse(req) PROVE minted' = minted /\ running' = running /\ Faults
  BY <1>3 DEF Lost, Refuse, Fault, table
<1>4. ASSUME NEW req, TimeOut(req) PROVE minted' = minted /\ Faults
  BY <1>4 DEF TimeOut, Fault, table
<1>9. ASSUME NEW q, BodyBreaks(q) PROVE minted' = minted /\ running' = running /\ Faults
  BY <1>9 DEF BodyBreaks, Fault, table
<1>5. ASSUME NEW q, MutateAnswered(q) PROVE TakesNone
  BY <1>5 DEF MutateAnswered, table
<1>6. ASSUME NEW b, NEW l, LoadRead(b, l) \/ Loading(b, l) PROVE TakesNone
  BY <1>6 DEF Loading, LoadRead, LoadArrives, ReplaySend, ReplayAnswered, Show, table
<1>7. ASSUME EditElsewhere \/ \E b \in Browsers : Edit(b) PROVE TakesNone
  BY <1>7 DEF Edit, SubmitNewItem, Move, Remove, Gesture, EditElsewhere, SendElsewhere, table
<1>8. CASE UNCHANGED vars
  BY <1>8 DEF vars
<1>. QED BY <1>1, <1>2, <1>3, <1>4, <1>5, <1>6, <1>7, <1>8, <1>9 DEF Next, Working, Faulty

LEMMA StepCounts ==
  ASSUME IInv, Counted, [Next]_vars
  PROVE  Counted'
<1>1. minted' <= LastId /\ faults' \in 0 .. MaxFaults
  BY StepTakes, SizesAssumption DEF Counted, Ids
<1>2. IsFiniteSet(running) /\ Cardinality(running) \in Nat /\ Cardinality(running) <= Processes
  BY FS_CardinalityType DEF Counted
<1>3. IsFiniteSet(running') /\ Cardinality(running') <= Processes
  <2>. DEFINE Fits(S) == IsFiniteSet(S) /\ Cardinality(S) <= Processes
  <2>1. ASSUME NEW S, IsFiniteSet(S), NEW h
        PROVE  /\ IsFiniteSet(S \cup {h}) /\ IsFiniteSet(S \ {h})
               /\ Cardinality(S) \in Nat
               /\ Cardinality(S \cup {h}) <= Cardinality(S) + 1
               /\ h \in S => Cardinality(S \ {h}) = Cardinality(S) - 1
    <3>1. Cardinality(S) \in Nat
      BY <2>1, FS_CardinalityType
    <3>2. IsFiniteSet(S \cup {h}) /\ Cardinality(S \cup {h}) = IF h \in S THEN Cardinality(S) ELSE Cardinality(S) + 1
      BY <2>1, FS_AddElement
    <3>3. IsFiniteSet(S \ {h}) /\ Cardinality(S \ {h}) = IF h \in S THEN Cardinality(S) - 1 ELSE Cardinality(S)
      BY <2>1, FS_RemoveElement
    <3>. QED BY <3>1, <3>2, <3>3
  <2>2. ASSUME NEW h, Cardinality(running) < Processes PROVE Fits(running \cup {h})
    <3>1. IsFiniteSet(running \cup {h}) /\ Cardinality(running \cup {h}) <= Cardinality(running) + 1
      BY <1>2, <2>1
    <3>2. Cardinality(running \cup {h}) \in Nat
      BY <3>1, FS_CardinalityType
    <3>. QED BY <1>2, <2>2, <3>1, <3>2, SizesAssumption
  <2>3. ASSUME NEW h \in running PROVE Fits(running \ {h})
    BY <1>2, <2>1, SizesAssumption
  <2>4. ASSUME NEW h \in running, NEW k PROVE Fits((running \ {h}) \cup {k})
    <3>1. IsFiniteSet(running \ {h}) /\ Cardinality(running \ {h}) = Cardinality(running) - 1
      BY <1>2, <2>1
    <3>2. /\ IsFiniteSet((running \ {h}) \cup {k})
          /\ Cardinality((running \ {h}) \cup {k}) <= Cardinality(running \ {h}) + 1
      BY <2>1, <3>1
    <3>3. Cardinality((running \ {h}) \cup {k}) \in Nat
      BY <3>2, FS_CardinalityType
    <3>. QED BY <1>2, <3>1, <3>2, <3>3, SizesAssumption
  <2>5. ASSUME NEW req, TimeOut(req) PROVE Fits(running')
    <3>. DEFINE f == [h \in running |-> [h EXCEPT !.req = OrphanIf(@, req)]]
    <3>1. running' = {f[h] : h \in running}
      BY <2>5 DEF TimeOut
    <3>2. f \in Surjection(running, running')
      BY <3>1 DEF Surjection
    <3>. HIDE DEF f
    <3>3. IsFiniteSet(running') /\ Cardinality(running') <= Cardinality(running)
      BY <1>2, <3>2, FS_Surjection
    <3>. QED BY <1>2, <3>3, FS_CardinalityType, SizesAssumption
  <2>. HIDE DEF Fits
  <2>6. Fits(running')
    <3>1. Fits(running)
      BY <1>2 DEF Fits
    <3>. QED BY <2>2, <2>3, <2>4, <2>5, <3>1, StepTakes
  <2>. QED BY <2>6 DEF Fits
<1>. QED BY <1>1, <1>3 DEF Counted

\* A load that waits has one live request, any other none.
LEMMA ShapeHolds ==
  ASSUME IInv, Asking, Counted
  PROVE  TypeOK
<1>1. TypeShape
  <2>1. MaxEdits \in Nat /\ Made \subseteq Edits
    BY SizesAssumption, LenProperties DEF IInv, Table, EditsOk, Made, Edits
  <2>2. rows \in [Ids -> Row] /\ minted \in 0 .. LastId /\ edits \in Seq(Mutation)
    BY SizesAssumption DEF IInv, Table, EditsOk, RowsOk, Board, Counted
  <2>3. items \in [Browsers -> [Ids -> Row]] /\ held \in [Browsers -> Seq(Edits)]
    <3>1. \A s \in Seq(Made) : s \in Seq(Edits)
      BY <2>1
    <3>. QED BY <3>1 DEF IInv, Desk, ItemsOk, HeldOk, Board
  <2>4. /\ wire \in SUBSET Request /\ running \in SUBSET Handler
        /\ \A q \in replies : q.req \in Request /\ q.code \in Codes /\ q.row \in Row
    BY DEF IInv, Gateway, WireOk, RunningOk, RepliesOk, ReplyOk, Reply
  <2>. QED BY <2>2, <2>3, <2>4 DEF TypeShape, Counted
<1>2. ASSUME NEW b \in Browsers, NEW l \in Loaders
      PROVE  Cardinality({r \in Waiting : r.from = l /\ Mine(r).by = b})
               = IF load[b][l].pc = "waiting" THEN 1 ELSE 0
  <2>. DEFINE S == {r \in Waiting : r.from = l /\ Mine(r).by = b}
  <2>1. Waiting = {t.req : t \in {s \in Tokens : s.req.live}}
    <3>1. \A r \in Waiting : \E t \in Tokens : t.req = r /\ r.live
      BY TokensApart DEF Waiting, Tokens
    <3>2. \A t \in Tokens : t.req.live => t.req \in Waiting
      BY TokensApart DEF Waiting, Tokens
    <3>. QED BY <3>1, <3>2
  <2>2. load[b][l].pc = "waiting" <=> S # {}
    BY <2>1 DEF Asking, Waits, Asked
  <2>3. \A r, s \in S : r = s
    <3>. SUFFICES ASSUME NEW r \in S, NEW s \in S PROVE r = s
      OBVIOUS
    <3>1. PICK x \in Tokens, y \in Tokens : x.req = r /\ y.req = s
      BY <2>1
    <3>2. r.live /\ s.live /\ r.from = s.from /\ r.from # "mutate" /\ Mine(r).by = Mine(s).by
      BY SizesAssumption DEF Waiting
    <3>3. SameSender(x.req, y.req)
      BY <3>1, <3>2 DEF SameSender
    <3>. QED BY <3>1, <3>3 DEF Asking, OneAsk
  <2>. HIDE DEF S
  <2>4. CASE S = {}
    BY <2>2, <2>4, FS_EmptySet DEF S
  <2>5. CASE S # {}
    <3>1. PICK r : S = {r}
      BY <2>3, <2>5
    <3>2. Cardinality(S) = 1
      BY <3>1, FS_Singleton
    <3>. QED BY <2>2, <2>5, <3>2 DEF S
  <2>. QED BY <2>4, <2>5
<1>. QED BY <1>1, <1>2 DEF TypeOK

-----------------------------------------------------------------------------
(* A good answer, read or not, is only given for an edit the table took.       *)

Taken(e) == \E a \in applied : a.edit = e

GoodNews ==
  /\ \A h \in running : h.pc = "reread" => Taken(h.req.edit)
  /\ \A q \in replies : q.code \in {"ok", "unread"} => Taken(q.req.edit)
  /\ \A e \in misread : Taken(e)

\* Where writes only grow, it is enough to look at what is new.
LEMMA NewsStands ==
  ASSUME GoodNews, applied \subseteq applied',
         \A h \in running' : h \in running \/ (h.pc = "reread" => Taken(h.req.edit)'),
         \A q \in replies' : q \in replies \/ (q.code \in {"ok", "unread"} => Taken(q.req.edit)'),
         \A e \in misread' : e \in misread \/ Taken(e)'
  PROVE  GoodNews'
<1>1. \A e : Taken(e) => Taken(e)'
  BY DEF Taken
<1>. QED BY <1>1 DEF GoodNews

\* A handler that writes, goes on or answers.
LEMMA HandlerNews ==
  ASSUME IInv, GoodNews, NEW h \in running, Serve(h) \/ StoreFails(h)
  PROVE  GoodNews'
<1>1. h \in Handler
  BY HandlerFacts
<1>2. misread' = misread
  BY DEF Serve, Add, Swap, Reread, Delete, StoreFails, browser
<1>3. \/ GoesOn(h) /\ Taken(h.req.edit)'
      \/ \E code, row : Leave(h, code, row) /\ (code \in {"ok", "unread"} => Taken(h.req.edit)')
  <2>1. ASSUME NEW id, NEW row, NEW ver, NEW born,
               Write(id, row, [edit |-> h.req.edit, id |-> id, ver |-> ver, born |-> born])
        PROVE  Taken(h.req.edit)'
    <3>1. [edit |-> h.req.edit, id |-> id, ver |-> ver, born |-> born] \in applied'
      BY <2>1 DEF Write
    <3>. QED BY <3>1 DEF Taken
  <2>2. CASE Add(h)
    BY <2>1, <2>2 DEF Add, Entry
  <2>3. CASE Swap(h)
    <3>1. CASE rows[h.id] # Absent /\ SwapMatches(h.req, rows[h.id])
      BY <2>1, <2>3, <3>1 DEF Swap, Entry
    <3>2. CASE ~(rows[h.id] # Absent /\ SwapMatches(h.req, rows[h.id]))
      <4>1. Leave(h, IF rows[h.id] = Absent THEN "missing" ELSE "conflict", rows[h.id])
        BY <2>3, <3>2 DEF Swap
      <4>. QED BY <4>1
    <3>. QED BY <3>1, <3>2
  <2>4. CASE Delete(h)
    <3>1. CASE rows[h.id] = Absent
      <4>1. Leave(h, "missing", Absent)
        BY <2>4, <3>1 DEF Delete
      <4>. QED BY <4>1
    <3>2. CASE rows[h.id] # Absent
      <4>1. Leave(h, "ok", rows[h.id]) /\ Taken(h.req.edit)'
        BY <2>1, <2>4, <3>2 DEF Delete, Entry
      <4>. QED BY <4>1
    <3>. QED BY <3>1, <3>2
  <2>5. CASE Reread(h)
    <3>1. Taken(h.req.edit) /\ applied' = applied
      BY <2>5 DEF Reread, GoodNews, table
    <3>2. Leave(h, IF rows[h.id] = Absent THEN "unreachable" ELSE "ok", rows[h.id])
      BY <2>5 DEF Reread
    <3>. QED BY <3>1, <3>2 DEF Taken
  <2>6. CASE StoreFails(h)
    <3>1. Leave(h, "unreachable", Absent)
      BY <2>6 DEF StoreFails
    <3>. QED BY <3>1
  <2>. QED BY <2>2, <2>3, <2>4, <2>5, <2>6 DEF Serve
<1>4. applied \subseteq applied'
  BY DEF Serve, Add, Swap, Reread, Delete, StoreFails, Write, table
<1>5. CASE GoesOn(h) /\ Taken(h.req.edit)'
  BY <1>1, <1>2, <1>4, <1>5, NewsStands DEF GoesOn, Handler
<1>6. ASSUME NEW code, NEW row, Leave(h, code, row), code \in {"ok", "unread"} => Taken(h.req.edit)'
      PROVE  GoodNews'
  <2>. DEFINE q == [req |-> h.req, code |-> code, id |-> h.id, row |-> row]
  <2>1. q.req = h.req /\ q.code = code /\ running' \subseteq running /\ \A x \in replies' : x \in replies \/ x = q
    BY <1>6 DEF Leave, Answer
  <2>. HIDE DEF q
  <2>. QED BY <1>2, <1>4, <1>6, <2>1, NewsStands
<1>. QED BY <1>3, <1>5, <1>6

\* A request taken from the wire begins before its write; what is answered
\* there, or for a sender that gave up, is no good news.
LEMMA WireNews ==
  ASSUME IInv, GoodNews, NEW r \in wire, Take(r) \/ Lost(r) \/ Refuse(r)
  PROVE  GoodNews'
<1>1. UNCHANGED <<applied, misread>>
  BY DEF Take, TakeCreate, TakeOther, Lost, Refuse, browser, table
<1>2. /\ \A h \in running' : h \in running \/ h.pc # "reread"
      /\ \A q \in replies' : q \in replies \/ q.code \notin {"ok", "unread"}
  BY DEF Take, TakeCreate, TakeOther, Starts, Lost, Refuse, Answer
<1>. QED BY <1>1, <1>2, NewsStands

LEMMA TimeOutNews ==
  ASSUME IInv, GoodNews, NEW req \in Waiting, TimeOut(req)
  PROVE  GoodNews'
<1>1. UNCHANGED <<applied, misread>>
  BY DEF TimeOut, browser, table
<1>2. req \in Request
  BY DEF Waiting, IInv, Gateway, WireOk, RunningOk, Handler, RepliesOk, ReplyOk, Reply
<1>3. ASSUME NEW h \in running' PROVE h.pc = "reread" => Taken(h.req.edit)
  <2>1. PICK g \in running : h = [g EXCEPT !.req = OrphanIf(g.req, req)]
    BY DEF TimeOut
  <2>2. g \in Handler /\ g.req \in Request
    BY HandlerFacts
  <2>3. h.pc = g.pc /\ h.req.edit = g.req.edit
    BY <2>1, <2>2, OrphanFacts DEF Handler
  <2>. QED BY <2>3 DEF GoodNews
<1>4. \A q \in replies' : q \in replies \/ q.code \notin {"ok", "unread"}
  BY DEF TimeOut, Answer
<1>. QED BY <1>1, <1>3, <1>4 DEF GoodNews, Taken

LEMMA AnswerNews ==
  ASSUME IInv, GoodNews, NEW q \in replies, BodyBreaks(q) \/ MutateAnswered(q)
  PROVE  GoodNews'
<1>1. q \in Reply
  BY DEF IInv, Gateway, RepliesOk, ReplyOk
<1>2. CASE BodyBreaks(q)
  <2>. DEFINE p == [q EXCEPT !.code = IF q.code = "ok" THEN "unread" ELSE q.code, !.row = Absent]
  <2>1. UNCHANGED <<applied, running, misread>> /\ replies' = (replies \ {q}) \cup {p}
    BY <1>2 DEF BodyBreaks, browser, table
  <2>2. p.req = q.req /\ (p.code \in {"ok", "unread"} => q.code \in {"ok", "unread"})
    BY <1>1 DEF Reply
  <2>. HIDE DEF p
  <2>. QED BY <2>1, <2>2 DEF GoodNews, Taken
<1>3. CASE MutateAnswered(q)
  <2>1. /\ UNCHANGED <<applied, running>> /\ replies' = replies \ {q}
        /\ misread' = IF q.code = "unread" THEN misread \cup {q.req.edit} ELSE misread
    BY <1>3 DEF MutateAnswered, table
  <2>. QED BY <2>1 DEF GoodNews, Taken
<1>. QED BY <1>2, <1>3

LEMMA StepNews ==
  ASSUME IInv, GoodNews, [Next]_vars
  PROVE  GoodNews'
<1>1. CASE Working \/ Faulty
  BY <1>1, HandlerNews, WireNews, TimeOutNews, AnswerNews DEF Working, Faulty
<1>2. ASSUME NEW b, NEW l, LoadRead(b, l) \/ Loading(b, l) PROVE GoodNews'
  <2>1. UNCHANGED <<applied, running, misread>> /\ replies' \subseteq replies
    BY <1>2 DEF Loading, LoadRead, LoadArrives, ReplaySend, ReplayAnswered, Show, table
  <2>. QED BY <2>1 DEF GoodNews, Taken
<1>3. CASE EditElsewhere \/ \E b \in Browsers : Edit(b)
  <2>1. UNCHANGED <<applied, running, misread, replies>>
    BY <1>3 DEF Edit, SubmitNewItem, Move, Remove, Gesture, EditElsewhere, SendElsewhere, table
  <2>. QED BY <2>1 DEF GoodNews, Taken
<1>4. CASE UNCHANGED vars
  BY <1>4 DEF vars, GoodNews, Taken
<1>. QED BY <1>1, <1>2, <1>3, <1>4 DEF Next

\* Every variable keeps its shape, a load that waits has exactly one live
\* request, an edit the reader was told was not saved is not in the table, and
\* one told so because a good answer could not be read is, for any number of
\* readers, loads, processes and faults (use-data-work-queue.ts:163-217,
\* data-work-queue.ts:161-166).
THEOREM RefusedIsUnsaved == Spec => []RefusedMeansUnsaved
<1>1. Init => IInv /\ Asking /\ Counted /\ GoodNews
  <2>1. ASSUME Init PROVE Counted /\ GoodNews
    BY <2>1, FS_EmptySet, SizesAssumption DEF Init, Counted, GoodNews
  <2>. QED BY <2>1, InitIsGood, InitAsks
<1>2. /\ IInv /\ Asking /\ Counted /\ GoodNews
      /\ [Next]_vars
      => (IInv /\ Asking /\ Counted /\ GoodNews)'
  BY StepIsGood, StepAsks, StepCounts, StepNews
<1>3. IInv /\ Asking /\ Counted /\ GoodNews => RefusedMeansUnsaved
  BY ShapeHolds DEF RefusedMeansUnsaved, Asking, Ended, Unwritten, GoodNews, Taken
<1>. QED BY <1>1, <1>2, <1>3, PTL DEF Spec

-----------------------------------------------------------------------------
(* The versioned table.  Only Add, Swap and Delete write; an edit whose       *)
(* token is at a handler was not refused, since a refused edit has none.      *)

\* The claim of one write.
Claim(a) == [edit |-> a.edit, id |-> a.id, quoted |-> IF edits[a.edit].kind = "move" THEN a.ver ELSE 0]

\* The claims are those of the writes.
LEMMA ClaimsAre == Claims = {Claim(a) : a \in applied}
BY DEF Claims, Claim

\* What was written stays as it was quoted, whatever is asked next.
LEMMA ClaimsStand ==
  ASSUME IInv, UNCHANGED applied, \A e \in Made : edits'[e] = edits[e]
  PROVE  Claims' = Claims
<1>1. \A a \in applied : edits'[a.edit] = edits[a.edit]
  BY DEF IInv, Table, AppliedOk
<1>. QED BY <1>1 DEF Claims

\* A write adds its claim and gives its number.
LEMMA ClaimsGrow ==
  ASSUME IInv, NEW a, applied' = applied \cup {a}, UNCHANGED edits
  PROVE  /\ Claims' = Claims \cup {Claim(a)}
         /\ {1, 2} \cup {c.id : c \in applied'} = ({1, 2} \cup {c.id : c \in applied}) \cup {a.id}
BY DEF Claims, Claim

\* A row that is there has a number that was given.
LEMMA RowsAreGiven ==
  ASSUME IInv, NEW id \in Ids, rows[id] # Absent
  PROVE  id \in {1, 2} \cup {a.id : a \in applied}
<1>1. <<id, rows[id].born>> \in Origins
  BY DEF IInv, Table, RowsOk, Known
<1>. QED BY <1>1 DEF Origins, Created

\* What a handler runs is asked for, and nobody was told that it failed.
LEMMA HandlersMayWrite ==
  ASSUME IInv, Asking, NEW h \in running
  PROVE  h.req.edit \in 1 .. Len(edits) /\ h.req.edit \notin told
<1>1. AtHandler(h) \in Tokens /\ AtHandler(h).req = h.req
  BY DEF Tokens, AtHandler
<1>. QED BY <1>1, HandlerFacts DEF Asking, Ended, Made

\* A create that is written is a new cell, under a number never given.
LEMMA AddCreates ==
  ASSUME IInv, Asking, NEW h \in running, Add(h)
  PROVE  Cells!Create(h.req.edit, h.id)
<1>. DEFINE a == Entry(h.req, h.id, h.req.edit)
            row == [ver |-> 1, val |-> h.req.edit, born |-> h.req.edit]
<1>1. /\ h.pc = "add" /\ rows' = [rows EXCEPT ![h.id] = row] /\ applied' = applied \cup {a}
      /\ UNCHANGED <<edits, told>>
  BY DEF Add, Write, browser
<1>2. a.edit = h.req.edit /\ a.id = h.id
  BY DEF Entry
<1>. HIDE DEF a
<1>3. /\ edits[h.req.edit].kind = "create" /\ 2 < h.id
      /\ \A c \in applied : c.id # h.id
  BY <1>1 DEF IInv, Gateway, RunningOk, Mine
<1>4. Claim(a) = [edit |-> h.req.edit, id |-> h.id, quoted |-> 0]
  BY <1>2, <1>3 DEF Claim
<1>5. h.id \notin {1, 2} \cup {c.id : c \in applied}
  BY <1>3
<1>6. Cells!Writes(h.req.edit, h.id, row, 0)
  BY <1>1, <1>4, ClaimsGrow, HandlersMayWrite DEF Cells!Writes
<1>. QED BY <1>1, <1>2, <1>5, <1>6, ClaimsGrow DEF Cells!Create

\* A swap that matches replaces the version its move quoted.
LEMMA SwapUpdates ==
  ASSUME IInv, Asking, NEW h \in running, Swap(h), ~UNCHANGED <<rows, applied>>
  PROVE  h.id \in Ids /\ Cells!Update(h.req.edit, h.id)
<1>. DEFINE was == rows[h.id]
            a == Entry(h.req, h.id, was.born)
            row == [was EXCEPT !.ver = h.req.ver + 1, !.val = h.req.edit]
<1>1. /\ h.pc = "swap" /\ was # Absent /\ was.ver = h.req.ver
      /\ rows' = [rows EXCEPT ![h.id] = row] /\ applied' = applied \cup {a}
      /\ UNCHANGED <<edits, told>>
  BY DEF Swap, SwapMatches, Write, browser
<1>2. a.edit = h.req.edit /\ a.id = h.id /\ a.ver = was.ver
  BY <1>1 DEF Entry
<1>. HIDE DEF a
<1>3. h.id \in Ids /\ edits[h.req.edit].kind = "move"
  BY <1>1, HandlerFacts DEF IInv, Gateway, RunningOk, Mine
<1>4. Claim(a) = [edit |-> h.req.edit, id |-> h.id, quoted |-> was.ver]
  BY <1>2, <1>3 DEF Claim
<1>5. row = [was EXCEPT !.ver = was.ver + 1, !.val = h.req.edit]
  BY <1>1
<1>6. Cells!Writes(h.req.edit, h.id, [was EXCEPT !.ver = was.ver + 1, !.val = h.req.edit], was.ver)
  BY <1>1, <1>4, <1>5, ClaimsGrow, HandlersMayWrite DEF Cells!Writes
<1>7. {1, 2} \cup {c.id : c \in applied'} = {1, 2} \cup {c.id : c \in applied}
  BY <1>1, <1>2, <1>3, RowsAreGiven, ClaimsGrow
<1>. QED BY <1>1, <1>3, <1>6, <1>7 DEF Cells!Update

\* A delete that finds its row leaves the cell vacant.
LEMMA DeleteDeletes ==
  ASSUME IInv, Asking, NEW h \in running, Delete(h), ~UNCHANGED <<rows, applied>>
  PROVE  h.id \in Ids /\ Cells!Delete(h.req.edit, h.id)
<1>. DEFINE a == Entry(h.req, h.id, rows[h.id].born)
<1>1. /\ h.pc = "remove" /\ rows[h.id] # Absent
      /\ rows' = [rows EXCEPT ![h.id] = Absent] /\ applied' = applied \cup {a}
      /\ UNCHANGED <<edits, told>>
  BY DEF Delete, Write, browser
<1>2. a.edit = h.req.edit /\ a.id = h.id
  BY DEF Entry
<1>. HIDE DEF a
<1>3. h.id \in Ids /\ edits[h.req.edit].kind = "delete"
  BY <1>1, HandlerFacts DEF IInv, Gateway, RunningOk, Mine
<1>4. Claim(a) = [edit |-> h.req.edit, id |-> h.id, quoted |-> 0]
  BY <1>2, <1>3 DEF Claim
<1>6. Cells!Writes(h.req.edit, h.id, Absent, 0)
  BY <1>1, <1>4, ClaimsGrow, HandlersMayWrite DEF Cells!Writes
<1>7. {1, 2} \cup {c.id : c \in applied'} = {1, 2} \cup {c.id : c \in applied}
  BY <1>1, <1>2, <1>3, RowsAreGiven, ClaimsGrow
<1>. QED BY <1>1, <1>3, <1>6, <1>7 DEF Cells!Delete

\* What a step is to the table: a write by a handler, a new edit, a refusal or nothing.
LEMMA StepWrites ==
  ASSUME [Next]_vars
  PROVE  \/ \E h \in running : Add(h) \/ Swap(h) \/ Delete(h)
         \/ UNCHANGED <<rows, applied, told>> /\ \E m : edits' = Append(edits, m)
         \/ UNCHANGED <<rows, applied, edits>> /\ \E e : told' = told \cup {e}
         \/ UNCHANGED <<rows, applied, edits, told>>
<1>1. ASSUME NEW h \in running, Reread(h) \/ StoreFails(h) PROVE UNCHANGED <<rows, applied, edits, told>>
  BY <1>1 DEF Reread, StoreFails, table, browser
<1>2. ASSUME NEW req, Take(req) \/ Lost(req) \/ Refuse(req) \/ TimeOut(req)
      PROVE  UNCHANGED <<rows, applied, edits, told>>
  BY <1>2 DEF Take, TakeCreate, TakeOther, Lost, Refuse, TimeOut, table, browser
<1>7. ASSUME NEW q, BodyBreaks(q) PROVE UNCHANGED <<rows, applied, edits, told>>
  BY <1>7 DEF BodyBreaks, table, browser
<1>3. ASSUME NEW q, MutateAnswered(q)
      PROVE  \/ UNCHANGED <<rows, applied, edits, told>>
             \/ UNCHANGED <<rows, applied, edits>> /\ \E e : told' = told \cup {e}
  BY <1>3 DEF MutateAnswered, table
<1>4. ASSUME NEW b, NEW l, LoadRead(b, l) \/ Loading(b, l) PROVE UNCHANGED <<rows, applied, edits, told>>
  BY <1>4 DEF Loading, LoadRead, LoadArrives, ReplaySend, ReplayAnswered, Show, table
<1>5. ASSUME EditElsewhere \/ \E b \in Browsers : Edit(b)
      PROVE  UNCHANGED <<rows, applied, told>> /\ \E m : edits' = Append(edits, m)
  BY <1>5 DEF Edit, SubmitNewItem, Move, Remove, Gesture, EditElsewhere, SendElsewhere, table
<1>6. CASE UNCHANGED vars
  BY <1>6 DEF vars
<1>. QED BY <1>1, <1>2, <1>3, <1>4, <1>5, <1>6, <1>7 DEF Next, Working, Serve, Faulty

\* Every step of the queue is a step of the versioned table or leaves it alone.
LEMMA StepIsOfTable ==
  ASSUME IInv, Asking, Asking', [Next]_vars
  PROVE  [Cells!TableNext]_(Cells!tableVars)
<1>1. ASSUME UNCHANGED <<rows, applied>>, \A e \in Made : edits'[e] = edits[e]
      PROVE  /\ Claims' = Claims /\ rows' = rows
             /\ {1, 2} \cup {a.id : a \in applied'} = {1, 2} \cup {a.id : a \in applied}
  BY <1>1, ClaimsStand
<1>2. ASSUME NEW h \in running, Add(h) PROVE Cells!TableNext
  <2>1. h.id \in Ids /\ h.req.edit \in 1 .. Len(edits)
    BY HandlerFacts, HandlersMayWrite
  <2>. QED BY <1>2, <2>1, AddCreates DEF Cells!TableNext
<1>3. ASSUME NEW h \in running, Swap(h) \/ Delete(h), ~UNCHANGED <<rows, applied>> PROVE Cells!TableNext
  <2>1. h.req.edit \in 1 .. Len(edits)
    BY HandlersMayWrite
  <2>. QED BY <1>3, <2>1, SwapUpdates, DeleteDeletes DEF Cells!TableNext
<1>4. ASSUME UNCHANGED <<rows, applied, edits, told>> PROVE UNCHANGED Cells!tableVars
  BY <1>1, <1>4 DEF Cells!tableVars
<1>5. ASSUME UNCHANGED <<rows, applied, told>>, NEW m, edits' = Append(edits, m) PROVE Cells!Ask
  <2>1. edits \in Seq(Mutation) /\ Len(edits) \in Nat
    BY LenProperties DEF IInv, Table, EditsOk
  <2>2. Len(edits') = Len(edits) + 1 /\ \A e \in Made : edits'[e] = edits[e]
    BY <1>5, <2>1, AppendProperties DEF Made
  <2>. QED BY <1>1, <1>5, <2>2 DEF Cells!Ask
<1>6. ASSUME UNCHANGED <<rows, applied, edits>>, NEW e, told' = told \cup {e}
      PROVE  Cells!Refuse(e) /\ e \in 1 .. Len(edits)
  <2>1. e \in Made /\ \A a \in applied : a.edit # e
    BY <1>6 DEF Asking, Ended, Unwritten, Made
  <2>2. \A w \in Claims : w.edit # e
    BY <2>1 DEF Claims
  <2>. QED BY <1>1, <1>6, <2>1, <2>2 DEF Cells!Refuse, Made
<1>7. ASSUME NEW h \in running, Swap(h) \/ Delete(h), UNCHANGED <<rows, applied>>
      PROVE  UNCHANGED <<rows, applied, edits, told>>
  BY <1>7 DEF Swap, Delete, browser
<1>. QED BY <1>2, <1>3, <1>4, <1>5, <1>6, <1>7, StepWrites DEF Cells!TableNext

\* The two rows the desk made first have their numbers.
LEMMA TableStarts ==
  ASSUME Init
  PROVE  Cells!TableInit
<1>1. rows = Seeded({1}) /\ edits = << >> /\ applied = {} /\ told = {}
  BY DEF Init
<1>2. \A id \in Ids : rows[id] # Absent => id \in {1, 2}
  BY <1>1 DEF Seeded
<1>. QED BY <1>1, <1>2 DEF Cells!TableInit, Claims

\* The queue implements the versioned table, for any number of readers, loads, processes,
\* edits and faults: every write is one compare-and-swap, and a refusal that could be
\* read is final (work_items.py:189-281, use-data-work-queue.ts:163-217).
THEOREM QueueImplementsTable == Spec => RefinesTable
<1>1. Init => Cells!TableInit
  BY TableStarts
<1>2. Init => IInv /\ Asking
  BY InitIsGood, InitAsks
<1>3. (IInv /\ Asking) /\ [Next]_vars => (IInv /\ Asking)'
  BY StepIsGood, StepAsks
<1>4. IInv /\ Asking /\ (IInv /\ Asking)' /\ [Next]_vars => [Cells!TableNext]_(Cells!tableVars)
  BY StepIsOfTable
<1>. QED BY <1>1, <1>2, <1>3, <1>4, PTL DEF Spec, RefinesTable, Cells!TableSpec
=============================================================================
