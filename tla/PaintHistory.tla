---------------------------- MODULE PaintHistory ----------------------------
(***************************************************************************)
(* The paint overlay of one scenario and the event log that makes it       *)
(* undoable, with every operation of views/paint.py as one atomic step.    *)
(*                                                                         *)
(*   rows  PaintedCanvas: the override, if any, of each (feature, column)  *)
(*   log   PaintEvent: one entry per batch_id, oldest first.  A batch      *)
(*         never holds two events of a cell, so the event of cell c in     *)
(*         batch i is identified by the pair (i, c).                       *)
(*                                                                         *)
(* This is what the paint API promises its users; PaintTxn shows when the  *)
(* transactions that implement it keep the promise.                        *)
(***************************************************************************)
EXTENDS Integers, Sequences

CONSTANTS
  Feature,    \* parcel ids of the scenario's canvas
  Column,     \* the paintable columns
  Value,      \* what a column can be painted with
  Null,       \* SQL NULL / Python None
  NoRow,      \* no PaintedCanvas row: the base value shows through
  MaxBatches  \* bound on the number of batches logged

ASSUME NullAssumption == Null \notin Value
ASSUME NoRowAssumption == NoRow \notin Value \cup {Null}

VARIABLES rows, log

vars == <<rows, log>>

Cell == Feature \X Column

Logged == Value \cup {Null}

(* "paint" stands for the four operation types undo_paint treats alike:    *)
(* paint, built_form, built_form_match and built_form_fill.                *)
Op == {"paint", "clear", "undo"}

(* `reverts` is a history field: the batch an undo was applied to (0 for   *)
(* the others).  The code keeps no such link and no action reads it.       *)
Batch == [op : Op, cells : SUBSET Cell, old : [Cell -> Logged],
          new : [Cell -> Logged], undone : SUBSET Cell, reverts : Nat]

(* What COALESCE in the canvas view, and the log, see of a row: a row that *)
(* holds NULL and no row at all are the same.                              *)
Visible(row) == IF row = NoRow THEN Null ELSE row

(* The columns of a batch's events, Null where the batch has no event.     *)
Restricted(f, S) == [c \in Cell |-> IF c \in S THEN f[c] ELSE Null]

BatchOf(op, S, old, new, i) ==
  [op |-> op, cells |-> S, old |-> Restricted(old, S),
   new |-> Restricted(new, S), undone |-> {}, reverts |-> i]

(* Mutant: what a lookup without the (None, None) default would log.       *)
RawRows == rows

VisibleRows == [c \in Cell |-> Visible(rows[c])]

TypeOK ==
  /\ rows \in [Cell -> Logged \cup {NoRow}]
  /\ log \in Seq(Batch)

Init ==
  /\ rows = [c \in Cell |-> NoRow]
  /\ log = <<>>

-----------------------------------------------------------------------------
(* Mutant: the old values are captured after the upsert.                   *)
PaintCapturesLate(S, val) ==
  /\ Len(log) < MaxBatches
  /\ rows' = [c \in Cell |-> IF c \in S THEN val[c] ELSE rows[c]]
  /\ log' = Append(log, BatchOf("paint", S, val, val, 0))

(* One paint run: upsert a row for every cell of S and log what it         *)
(* replaced.  A direct paint may paint NULL; the row then exists and masks *)
(* nothing.                                                                *)
Paint(S, val) ==
  /\ Len(log) < MaxBatches
  /\ rows' = [c \in Cell |-> IF c \in S THEN val[c] ELSE rows[c]]
  /\ log' = Append(log, BatchOf("paint", S, VisibleRows, val, 0))

(* run_direct_paint: one column, one value, several features.              *)
DirectPaint(F, col, v) == Paint(F \X {col}, [c \in Cell |-> v])

(* The cells that a built form run (one form for all, the closest match of *)
(* each, or a fill) may come to write: features without a match are left   *)
(* out, and the columns depend on the building types of the feature.       *)
Allocations == (SUBSET Cell) \ {{}}

(* _write_built_form_paint: the cells of an allocation, a value for each.  *)
BuiltFormPaint(S, val) == Paint(S, val)

(* clear_paint: drop every row of the features.  Only rows that existed    *)
(* are logged, and a clear that finds none logs nothing at all.            *)
Clear(F) ==
  LET gone == {c \in F \X Column : rows[c] # NoRow}
  IN  /\ gone # {}
      /\ Len(log) < MaxBatches
      /\ rows' = [c \in Cell |-> IF c \in gone THEN NoRow ELSE rows[c]]
      /\ log' = Append(log, BatchOf("clear", gone, VisibleRows,
                                    [c \in Cell |-> Null], 0))

(* Mutant: undo treats a clear like a geometry event and writes no row.    *)
RevertedButClear(op, old, row) ==
  IF op = "paint" THEN IF old = Null THEN NoRow ELSE old ELSE row

(* The row undo_paint leaves behind when it reverts an event of type `op`. *)
Reverted(op, old, row) ==
  CASE op = "clear" -> old
    [] op = "paint" -> IF old = Null THEN NoRow ELSE old
    [] op = "undo"  -> row

(* Mutant: the undone_at filter is dropped from the query.                 *)
UndoAgain(i, S) ==
  /\ Len(log) < MaxBatches
  /\ S # {}
  /\ S \subseteq log[i].cells
  /\ rows' = [c \in Cell |-> IF c \in S
                             THEN Reverted(log[i].op, log[i].old[c], rows[c])
                             ELSE rows[c]]
  /\ log' = Append([log EXCEPT ![i].undone = @ \cup S],
                   BatchOf("undo", S, log[i].new, log[i].old, i))

(* undo_paint of the events (i, c), c \in S, none of them undone yet: the  *)
(* old values are written back whatever was painted since, the events are  *)
(* marked, and the reversal is logged as a batch of its own.               *)
Undo(i, S) ==
  /\ Len(log) < MaxBatches
  /\ S # {}
  /\ S \subseteq log[i].cells \ log[i].undone
  /\ rows' = [c \in Cell |-> IF c \in S
                             THEN Reverted(log[i].op, log[i].old[c], rows[c])
                             ELSE rows[c]]
  /\ log' = Append([log EXCEPT ![i].undone = @ \cup S],
                   BatchOf("undo", S, log[i].new, log[i].old, i))

UndoEvent(i, c) == Undo(i, {c})

UndoBatch(i) == Undo(i, log[i].cells \ log[i].undone)

Next ==
  \/ \E F \in (SUBSET Feature) \ {{}}, col \in Column, v \in Logged :
        DirectPaint(F, col, v)
  \/ \E S \in Allocations, val \in [Cell -> Value] : BuiltFormPaint(S, val)
  \/ \E F \in (SUBSET Feature) \ {{}} : Clear(F)
  \/ \E i \in DOMAIN log, c \in Cell : UndoEvent(i, c)
  \/ \E i \in DOMAIN log : UndoBatch(i)

Spec == Init /\ [][Next]_vars

-----------------------------------------------------------------------------
(* The batches that say something of a cell.                               *)
Touches(i, c) == i \in DOMAIN log /\ c \in log[i].cells

(* A paint or a clear of c that has not been undone: what "undo" still has *)
(* to offer for the cell.                                                  *)
Live(i, c) == Touches(i, c) /\ log[i].op # "undo" /\ c \notin log[i].undone

(* Somebody asked to undo an undo of this cell, i.e. to redo.              *)
Redone(c) == \E i \in DOMAIN log : log[i].op = "undo" /\ c \in log[i].undone

(* Every undo of c reverted the newest paint or clear of c that was still  *)
(* live at the time: the discipline of the "Undo Last" button.             *)
UndoneInOrder(c) ==
  \A k \in DOMAIN log :
    (log[k].op = "undo" /\ c \in log[k].cells) =>
       LET i == log[k].reverts
       IN  /\ log[i].op # "undo"
           /\ \A j \in (i + 1) .. (k - 1) :
                (Touches(j, c) /\ log[j].op # "undo") =>
                   \E m \in (j + 1) .. (k - 1) :
                      log[m].reverts = j /\ c \in log[m].cells

(* The log tells the overlay: what a cell shows is what the newest event   *)
(* of the cell says it was changed to, and a cell without events is not    *)
(* painted.  An undo of an undo is the one thing that breaks the tie.      *)
LogExplainsRows ==
  \A c \in Cell :
    /\ (\A i \in DOMAIN log : c \notin log[i].cells) => rows[c] = NoRow
    /\ \A i \in DOMAIN log :
         (/\ Touches(i, c)
          /\ \A j \in (i + 1) .. Len(log) : c \notin log[j].cells
          /\ log[i].op # "undo" \/ ~Redone(c))
            => Visible(rows[c]) = log[i].new[c]

(* Undo walks back: as long as a cell's events are undone newest first,    *)
(* the cell shows exactly what its newest live paint or clear wrote, or    *)
(* the base value when none is left, and never a value undone before.      *)
UndoWalksBack ==
  \A c \in Cell : UndoneInOrder(c) =>
    /\ (\A i \in DOMAIN log : ~Live(i, c)) => Visible(rows[c]) = Null
    /\ \A i \in DOMAIN log :
         (Live(i, c) /\ \A j \in (i + 1) .. Len(log) : ~Live(j, c))
            => Visible(rows[c]) = log[i].new[c]

(* No event is undone twice: of all the undo batches applied to a batch,   *)
(* at most one reverted the event of a given cell, and that event carries  *)
(* the undone mark the history panel shows.                                *)
UndoneOnce ==
  \A k \in DOMAIN log : log[k].op = "undo" =>
    /\ log[k].cells \subseteq log[log[k].reverts].undone
    /\ \A m \in DOMAIN log :
         (m # k /\ log[m].op = "undo" /\ log[m].reverts = log[k].reverts)
            => log[m].cells \cap log[k].cells = {}

=============================================================================
