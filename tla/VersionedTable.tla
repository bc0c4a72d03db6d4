--------------------------- MODULE VersionedTable ---------------------------
(***************************************************************************)
(* What the work queue promises of its table, with no browsers, processes  *)
(* or calls: numbered cells whose content changes in one step, from the     *)
(* version the edit quotes to the next; numbers that are given once; and    *)
(* edits that are written or refused, never both in either order.  An edit  *)
(* nobody answered may be written again: it then quotes a later version, or *)
(* creates another cell.                                                   *)
(***************************************************************************)
EXTENDS Integers

CONSTANTS
  Ids,
  Vacant    \* the content of a cell with no row

VARIABLES
  asked,    \* how many edits have been asked for
  cells,    \* per number: its row
  given,    \* the numbers that have ever had a row
  written,  \* what has been written: the edit, its number and the version it quoted
  refused   \* edits whose author knows they did not happen

tableVars == <<asked, cells, given, written, refused>>

TableInit ==
  /\ asked = 0 /\ written = {} /\ refused = {}
  /\ \A id \in Ids : cells[id] # Vacant => id \in given

Ask ==
  /\ asked' = asked + 1
  /\ UNCHANGED <<cells, given, written, refused>>

\* One cell changes, for an edit somebody asked for and nobody was refused.
Writes(edit, id, cell, quoted) ==
  /\ edit \in 1 .. asked /\ edit \notin refused
  /\ cells' = [cells EXCEPT ![id] = cell]
  /\ written' = written \cup {[edit |-> edit, id |-> id, quoted |-> quoted]}
  /\ UNCHANGED <<asked, refused>>

\* A new row has a number no row ever had.
Create(edit, id) ==
  /\ id \notin given
  /\ given' = given \cup {id}
  /\ Writes(edit, id, [ver |-> 1, val |-> edit, born |-> edit], 0)

\* The version an update quotes is the one it replaces.
Update(edit, id) ==
  /\ cells[id] # Vacant
  /\ Writes(edit, id, [cells[id] EXCEPT !.ver = @ + 1, !.val = edit], cells[id].ver)
  /\ UNCHANGED given

Delete(edit, id) ==
  /\ cells[id] # Vacant
  /\ Writes(edit, id, Vacant, 0)
  /\ UNCHANGED given

\* Only an edit that was never written is refused, and then it never is.
Refuse(edit) ==
  /\ edit \in 1 .. asked
  /\ \A w \in written : w.edit # edit
  /\ refused' = refused \cup {edit}
  /\ UNCHANGED <<asked, cells, given, written>>

TableNext ==
  \/ Ask
  \/ \E edit \in 1 .. asked : Refuse(edit)
  \/ \E edit \in 1 .. asked, id \in Ids : Create(edit, id) \/ Update(edit, id) \/ Delete(edit, id)

TableSpec == TableInit /\ [][TableNext]_tableVars

=============================================================================
