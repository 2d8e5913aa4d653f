---------------------------- MODULE OverlayDoors ----------------------------
(***************************************************************************)
(* The other doors to a scenario's overlay: the MCP tools of               *)
(* mcp/tools/paint.py and the merge of another scenario's paint            *)
(* (views/merge.py) write the same PaintedCanvas rows as the page does,    *)
(* beside its event log.                                                   *)
(*                                                                         *)
(*   notes  the PaintEvents of MCP paints that came with a note: an event  *)
(*          of no cell, its features and column kept as JSON in batch_id   *)
(***************************************************************************)
EXTENDS PaintHistory

CONSTANT MaxNotes   \* bound on the notes

VARIABLE notes

doorVars == <<rows, log, notes>>

DoorsInit == Init /\ notes = <<>>

(* Everything the page does, through views/paint.py.                       *)
Page == Next /\ UNCHANGED notes

(* paint_features: one row after the other, a feature that fails is passed *)
(* over; then no event, or one that tells of no cell.  A note that does    *)
(* not fit batch_id raises, and the rows stay.                             *)
McpPaint(F, col, v, noted) ==
  /\ \E painted \in SUBSET F :
        rows' = [c \in Cell |-> IF c \in painted \X {col} THEN v ELSE rows[c]]
  /\ \/ notes' = notes
     \/ /\ noted /\ Len(notes) < MaxNotes
        /\ notes' = Append(notes, [features |-> F, column |-> col])
  /\ UNCHANGED log

(* clear_paint of some features, or of all when none is named.  Naming a   *)
(* column fails: it is looked up as a field of PaintedCanvas.              *)
McpClear(F) ==
  /\ rows' = [c \in Cell |-> IF c[1] \in F THEN NoRow ELSE rows[c]]
  /\ UNCHANGED <<log, notes>>

(* undo_paint of the notes among the latest events, from note i on: every  *)
(* row of their features goes, whatever its column and whoever wrote it,   *)
(* and the notes stay to be undone again.  Events of the page are passed   *)
(* over, their batch ids being no JSON.                                    *)
McpUndo(i) ==
  LET features == UNION {notes[k].features : k \in i .. Len(notes)}
  IN  McpClear(features)

(* merge_paint_edits: the approved rows of another scenario are copied to  *)
(* the cells that have none.                                               *)
Merge(source) ==
  /\ rows' = [c \in Cell |-> IF rows[c] = NoRow THEN source[c] ELSE rows[c]]
  /\ UNCHANGED <<log, notes>>

DoorsNext ==
  \/ Page
  \/ \E F \in (SUBSET Feature) \ {{}}, col \in Column, v \in Value, noted \in BOOLEAN :
        McpPaint(F, col, v, noted)
  \/ \E F \in (SUBSET Feature) \ {{}} : McpClear(F)
  \/ \E i \in DOMAIN notes : McpUndo(i)
  \/ \E source \in [Cell -> Logged \cup {NoRow}] : Merge(source)

DoorsSpec == DoorsInit /\ [][DoorsNext]_doorVars
=============================================================================
