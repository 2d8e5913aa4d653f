------------------------------ MODULE PaintTxn ------------------------------
(***************************************************************************)
(* The paint operations of PaintHistory as they really run: web requests   *)
(* (clear, undo) and Celery workers (paint runs), each a database          *)
(* transaction at Postgres's default READ COMMITTED isolation.  Between    *)
(* two statements of a transaction the others may commit.                  *)
(*                                                                         *)
(* A statement sees what was committed when it started.  A row that a      *)
(* transaction inserted, updated or deleted stays locked until it ends: an *)
(* upsert, update or delete of that row waits.  A delete neither sees nor  *)
(* waits for a row another transaction has only inserted so far.           *)
(*                                                                         *)
(* The log is ordered by commit.  For paints of a common cell this is also *)
(* the order of their event ids, since the second one to lock the row      *)
(* inserts its events after the first one committed.                       *)
(***************************************************************************)
EXTENDS PaintHistory, FiniteSets

CONSTANTS
  Client,    \* connections that run paint operations at the same time
  Unwritten  \* a row the transaction has not written

VARIABLE txn   \* the open transaction of each client; rows and log are committed

txnVars == <<rows, log, txn>>

Row == Logged \cup {NoRow}

ASSUME UnwrittenAssumption == Unwritten \notin Row
ASSUME BoundsAssumption == MaxBatches \in Nat /\ IsFiniteSet(Client)

(*   op      what the transaction does, "none" between transactions        *)
(*   stage   "read": its SELECTs are done; "written": its rows are too     *)
(*   cells   the cells it was asked to write                               *)
(*   val     a paint's values                                              *)
(*   of      the batch an undo reverts                                     *)
(*   seen    the rows its SELECT returned                                  *)
(*   writes  its uncommitted rows                                          *)
(*   disturbed  history: one of its cells was in a commit since it began   *)
Txn == [op : Op \cup {"none"}, stage : {"idle", "read", "written"},
        cells : SUBSET Cell, val : [Cell -> Logged], of : Nat,
        seen : [Cell -> Row], writes : [Cell -> Row \cup {Unwritten}],
        disturbed : BOOLEAN]

NothingWritten == [x \in Cell |-> Unwritten]

Idle == [op |-> "none", stage |-> "idle", cells |-> {},
         val |-> [x \in Cell |-> Null], of |-> 0,
         seen |-> [x \in Cell |-> NoRow], writes |-> NothingWritten, disturbed |-> FALSE]

TxnTypeOK ==
  /\ TypeOK
  /\ txn \in [Client -> Txn]

TxnInit ==
  /\ Init
  /\ txn = [t \in Client |-> Idle]

-----------------------------------------------------------------------------
Running == {t \in Client : txn[t].op # "none"}

At(t, op, stage) == txn[t].op = op /\ txn[t].stage = stage

LockedByOther(t, x) == \E u \in Client \ {t} : txn[u].writes[x] # Unwritten

(* The SELECT a transaction opens with, of the cells of S.                 *)
Begin(t, op, S, val, i) ==
  /\ txn[t] = Idle
  /\ Len(log) + Cardinality(Running) < MaxBatches
  /\ txn' = [txn EXCEPT ![t] =
       [Idle EXCEPT !.op = op, !.stage = "read", !.cells = S, !.val = val, !.of = i,
                    !.seen = [x \in Cell |-> IF x \in S THEN rows[x] ELSE NoRow]]]
  /\ UNCHANGED <<rows, log>>

(* A transaction's INSERT ... ON CONFLICT, UPDATE and DELETE statements:   *)
(* row new[x] for every x of W, once nobody else holds one of those rows.  *)
Write(t, W, new) ==
  /\ \A x \in W : ~LockedByOther(t, x)
  /\ txn' = [txn EXCEPT ![t].stage = "written",
                        ![t].writes = [x \in Cell |-> IF x \in W THEN new[x] ELSE Unwritten]]
  /\ UNCHANGED <<rows, log>>

(* COMMIT: the transaction's rows and events become visible at once.       *)
CommitRows(t) ==
  /\ rows' = [x \in Cell |-> IF txn[t].writes[x] = Unwritten
                             THEN rows[x] ELSE txn[t].writes[x]]
  /\ txn' = [u \in Client |->
       IF u = t THEN Idle
       ELSE IF txn[u].cells \cap txn[t].cells = {} THEN txn[u]
       ELSE [txn[u] EXCEPT !.disturbed = TRUE]]

(* Mutant: what a lookup without the (None, None) default would log.       *)
ShownAsRead(seen) == seen

(* The old values as _fetch_painted_old_values returns them.               *)
Shown(seen) == [x \in Cell |-> Visible(seen[x])]

(* run_direct_paint and _write_built_form_paint: SELECT the old values,    *)
(* upsert, log.                                                            *)
BeginPaint(t, S, val) == Begin(t, "paint", S, val, 0)

PaintUpsert(t) ==
  /\ At(t, "paint", "read")
  /\ Write(t, txn[t].cells, txn[t].val)

CommitPaint(t) ==
  /\ At(t, "paint", "written")
  /\ CommitRows(t)
  /\ log' = Append(log, BatchOf("paint", txn[t].cells, Shown(txn[t].seen),
                                   txn[t].val, 0))

(* clear_paint: SELECT the rows to log, DELETE by feature, log.  The       *)
(* DELETE repeats the WHERE clause, so it removes the rows there are then, *)
(* not the rows that were read.                                            *)
BeginClear(t, F) == Begin(t, "clear", F \X Column, Idle.val, 0)

ClearDelete(t) ==
  /\ At(t, "clear", "read")
  /\ Write(t, {x \in txn[t].cells : rows[x] # NoRow}, [x \in Cell |-> NoRow])

CommitClear(t) ==
  LET read == {x \in txn[t].cells : txn[t].seen[x] # NoRow}
  IN  /\ At(t, "clear", "written")
      /\ CommitRows(t)
      /\ log' = IF read = {} THEN log
                ELSE Append(log, BatchOf("clear", read, Shown(txn[t].seen),
                                            [x \in Cell |-> Null], 0))

(* undo_paint: SELECT the events that are not undone yet; without any, 404.*)
BeginUndo(t, i, S) ==
  /\ S # {} /\ S \subseteq log[i].cells \ log[i].undone
  /\ Begin(t, "undo", S, Idle.val, i)

(* Each event's row is upserted or deleted; deleting a row that is not     *)
(* there writes nothing.  The event of an undo restores nothing at all.    *)
UndoWrite(t) ==
  LET batch == log[txn[t].of]
      new   == [x \in Cell |-> Reverted(batch.op, batch.old[x], rows[x])]
  IN  /\ At(t, "undo", "read")
      /\ Write(t, {x \in txn[t].cells : /\ batch.op # "undo"
                                        /\ new[x] = NoRow => rows[x] # NoRow}, new)

(* Mutant: the events are not marked undone.                               *)
CommitUndoUnmarked(t) ==
  LET i == txn[t].of
  IN  /\ At(t, "undo", "written")
      /\ CommitRows(t)
      /\ log' = Append(log, BatchOf("undo", txn[t].cells, log[i].new, log[i].old, i))

CommitUndo(t) ==
  LET i == txn[t].of
      S == txn[t].cells
  IN  /\ At(t, "undo", "written")
      /\ CommitRows(t)
      /\ log' = Append([log EXCEPT ![i].undone = @ \cup S],
                       BatchOf("undo", S, log[i].new, log[i].old, i))

(* ROLLBACK: an exception in the operation, the task's time limit, a       *)
(* deadlock Postgres broke, or the process died.                           *)
Abort(t) ==
  /\ txn[t] # Idle
  /\ txn' = [txn EXCEPT ![t] = Idle]
  /\ UNCHANGED <<rows, log>>

TxnNext ==
  \E t \in Client :
    \/ \E F \in (SUBSET Feature) \ {{}}, col \in Column, v \in Logged :
          BeginPaint(t, F \X {col}, [x \in Cell |-> v])
    \/ \E S \in Allocations, val \in [Cell -> Value] : BeginPaint(t, S, val)
    \/ PaintUpsert(t)
    \/ CommitPaint(t)
    \/ \E F \in (SUBSET Feature) \ {{}} : BeginClear(t, F)
    \/ ClearDelete(t)
    \/ CommitClear(t)
    \/ \E i \in DOMAIN log :
         \/ \E x \in Cell : BeginUndo(t, i, {x})
         \/ BeginUndo(t, i, log[i].cells \ log[i].undone)
    \/ UndoWrite(t)
    \/ CommitUndo(t)
    \/ Abort(t)

TxnSpec == TxnInit /\ [][TxnNext]_txnVars

-----------------------------------------------------------------------------
(* A transaction takes effect at its commit as if it were alone (one step  *)
(* of PaintHistory), or not at all, however the others interleave, fail or *)
(* roll back.  Nothing locks the cells between the SELECT and the write    *)
(* (views/paint.py:1047, 198, 725): one whose cells were in another commit *)
(* meanwhile may log or restore wrongly, but it changes no other cell.     *)
Atomic ==
  [][\/ Next
     \/ \E t \in Client :
          /\ txn[t].disturbed /\ txn'[t] = Idle
          /\ \A x \in Cell \ txn[t].cells : rows'[x] = rows[x]]_vars

=============================================================================
