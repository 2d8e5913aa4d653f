----------------------------- MODULE PaintProofs -----------------------------
(* Theorems about the overlay and its log, for every set of features,      *)
(* columns, values and clients and every bound on the number of batches.   *)
(* First those of PaintHistory, whose operations are atomic; then those of *)
(* PaintTxn: its types, and that transactions on cells of their own        *)
(* implement PaintHistory, and so inherit its theorems.                    *)
EXTENDS PaintTxn, FiniteSetTheorems, TLAPS

-----------------------------------------------------------------------------
(* PaintHistory: operations one after the other.                           *)

(* The part of a batch that no step changes once it is logged.             *)
SameBatch(b, d) ==
  /\ b.op = d.op /\ b.cells = d.cells /\ b.old = d.old /\ b.new = d.new
  /\ b.reverts = d.reverts

(* A step logs one batch b and marks the events (i, c), c \in S, undone.   *)
(* Paint and Clear mark none: S = {}.                                      *)
HistoryLogs(b, i, S) ==
  /\ log' \in Seq(Batch)
  /\ Len(log) \in Nat
  /\ DOMAIN log = 1 .. Len(log)
  /\ Len(log') = Len(log) + 1
  /\ DOMAIN log' = 1 .. (Len(log) + 1)
  /\ log'[Len(log) + 1] = b
  /\ \A k \in 1 .. Len(log) : SameBatch(log'[k], log[k])
  /\ \A k \in 1 .. Len(log) : k # i => log'[k].undone = log[k].undone
  /\ i \in 1 .. Len(log) => log'[i].undone = log[i].undone \cup S

-----------------------------------------------------------------------------
(* BatchOf builds a batch out of any columns of logged values.             *)
LEMMA BatchOfType ==
  ASSUME NEW op \in Op, NEW S \in SUBSET Cell, NEW i \in Nat,
         NEW old \in [Cell -> Logged], NEW new \in [Cell -> Logged]
  PROVE  BatchOf(op, S, old, new, i) \in Batch
<1>1. /\ Restricted(old, S) \in [Cell -> Logged]
      /\ Restricted(new, S) \in [Cell -> Logged]
  BY DEF Restricted, Logged
<1>2. QED
  BY <1>1 DEF BatchOf, Batch

(* What the view shows of a well-typed overlay is a loggable value.        *)
LEMMA VisibleType ==
  ASSUME TypeOK
  PROVE  /\ VisibleRows \in [Cell -> Logged]
         /\ \A c \in Cell : VisibleRows[c] = Visible(rows[c])
BY DEF TypeOK, VisibleRows, Visible, Logged

(* A paint and a clear write S, log what they replaced and mark nothing.   *)
LEMMA HistoryWriteStep ==
  ASSUME TypeOK, NEW op \in {"paint", "clear"}, NEW S \in SUBSET Cell,
         NEW val \in [Cell -> Logged],
         log' = Append(log, BatchOf(op, S, VisibleRows, val, 0))
  PROVE  HistoryLogs(BatchOf(op, S, VisibleRows, val, 0), 0, {})
<1> DEFINE b == BatchOf(op, S, VisibleRows, val, 0)
<1>1. b \in Batch
  BY BatchOfType, VisibleType DEF Op
<1>2. log \in Seq(Batch)
  BY DEF TypeOK
<1> HIDE DEF b
<1>3. /\ log' \in Seq(Batch) /\ Len(log') = Len(log) + 1
      /\ Len(log) \in Nat /\ DOMAIN log = 1 .. Len(log)
      /\ DOMAIN log' = 1 .. (Len(log) + 1)
      /\ log'[Len(log) + 1] = b
      /\ \A k \in 1 .. Len(log) : log'[k] = log[k]
  BY <1>1, <1>2 DEF b
<1>4. QED
  BY <1>3 DEF HistoryLogs, SameBatch, b

(* An undo marks the events it reverts and logs its own batch.             *)
LEMMA UndoStep ==
  ASSUME TypeOK, NEW i \in DOMAIN log, NEW S, Undo(i, S)
  PROVE  /\ S \in SUBSET Cell /\ S \subseteq log[i].cells \ log[i].undone
         /\ BatchOf("undo", S, log[i].new, log[i].old, i) \in Batch
         /\ HistoryLogs(BatchOf("undo", S, log[i].new, log[i].old, i), i, S)
<1> DEFINE b == BatchOf("undo", S, log[i].new, log[i].old, i)
           marked == [log EXCEPT ![i].undone = @ \cup S]
<1>1. log \in Seq(Batch) /\ log[i] \in Batch /\ i \in Nat
  BY DEF TypeOK
<1>2. S \in SUBSET Cell /\ S \subseteq log[i].cells \ log[i].undone
  BY <1>1 DEF Undo, Batch
<1>3. b \in Batch
  BY <1>1, <1>2, BatchOfType DEF Op, Batch
<1>4. /\ marked \in Seq(Batch) /\ Len(marked) = Len(log)
      /\ \A k \in DOMAIN log : /\ SameBatch(marked[k], log[k])
                               /\ marked[k].undone = IF k = i THEN log[k].undone \cup S
                                                              ELSE log[k].undone
  <2> DEFINE mb == [log[i] EXCEPT !.undone = @ \cup S]
  <2>1. mb \in Batch /\ SameBatch(mb, log[i]) /\ mb.undone = log[i].undone \cup S
    BY <1>1, <1>2 DEF Batch, SameBatch
  <2>2. marked = [log EXCEPT ![i] = mb]
    BY <1>1
  <2> HIDE DEF mb, marked
  <2>3. /\ marked \in Seq(Batch) /\ Len(marked) = Len(log)
        /\ \A k \in DOMAIN log : marked[k] = IF k = i THEN mb ELSE log[k]
    BY <1>1, <2>1, <2>2
  <2>4. QED
    BY <2>1, <2>3 DEF SameBatch
<1>5. log' = Append(marked, b)
  BY DEF Undo
<1> HIDE DEF b, marked
<1>6. /\ log' \in Seq(Batch) /\ Len(log') = Len(log) + 1
      /\ Len(log) \in Nat /\ DOMAIN log = 1 .. Len(log)
      /\ DOMAIN log' = 1 .. (Len(log) + 1)
      /\ log'[Len(log) + 1] = b
      /\ \A k \in 1 .. Len(log) : log'[k] = marked[k]
  BY <1>1, <1>3, <1>4, <1>5
<1>7. QED
  BY <1>2, <1>3, <1>4, <1>6 DEF HistoryLogs, b

-----------------------------------------------------------------------------
(* What a paint or a clear does, for the proofs: the cells of S show val   *)
(* afterwards, the others are left alone, and one batch says so.           *)
HistoryWrites(op, S, val) ==
  /\ log' = Append(log, BatchOf(op, S, VisibleRows, val, 0))
  /\ rows' \in [Cell -> Logged \cup {NoRow}]
  /\ \A c \in S : Visible(rows'[c]) = val[c]
  /\ \A c \in Cell \ S : rows'[c] = rows[c]

(* A paint shows the painted values in the cells it writes.                *)
LEMMA PaintWrites ==
  ASSUME TypeOK, NEW S \in SUBSET Cell, NEW val \in [Cell -> Logged],
         Paint(S, val)
  PROVE  HistoryWrites("paint", S, val)
BY NullAssumption, NoRowAssumption DEF TypeOK, Paint, HistoryWrites, Visible, Logged

(* A clear shows the base value, NULL, in the cells it had rows for.       *)
LEMMA ClearWrites ==
  ASSUME TypeOK, NEW F \in SUBSET Feature, Clear(F)
  PROVE  \E S \in SUBSET Cell : HistoryWrites("clear", S, [c \in Cell |-> Null])
<1> DEFINE gone == {c \in F \X Column : rows[c] # NoRow}
<1>1. gone \in SUBSET Cell
  BY DEF Cell
<1>2. HistoryWrites("clear", gone, [c \in Cell |-> Null])
  BY <1>1 DEF TypeOK, Clear, HistoryWrites, Visible
<1>3. QED
  BY <1>1, <1>2

(* Every step writes some cells, undoes some events, or changes nothing.   *)
LEMMA HistoryStepCases ==
  ASSUME TypeOK, [Next]_vars
  PROVE  \/ UNCHANGED vars
         \/ \E op \in {"paint", "clear"}, S \in SUBSET Cell,
                  val \in [Cell -> Logged] :
               HistoryWrites(op, S, val)
         \/ \E i \in DOMAIN log : \E S : Undo(i, S)
<1>1. CASE UNCHANGED vars
  BY <1>1
<1>2. ASSUME NEW F \in SUBSET Feature, NEW col \in Column, NEW v \in Logged,
             DirectPaint(F, col, v)
      PROVE  \E S \in SUBSET Cell, val \in [Cell -> Logged] :
                  HistoryWrites("paint", S, val)
  <2>1. F \X {col} \in SUBSET Cell /\ [c \in Cell |-> v] \in [Cell -> Logged]
    BY DEF Cell
  <2>2. HistoryWrites("paint", F \X {col}, [c \in Cell |-> v])
    BY <1>2, <2>1, PaintWrites DEF DirectPaint
  <2>3. QED
    BY <2>1, <2>2
<1>3. ASSUME NEW S \in Allocations, NEW val \in [Cell -> Value],
             BuiltFormPaint(S, val)
      PROVE  \E T \in SUBSET Cell, w \in [Cell -> Logged] :
                  HistoryWrites("paint", T, w)
  <2>1. S \in SUBSET Cell /\ val \in [Cell -> Logged]
    BY DEF Allocations, Logged
  <2>2. HistoryWrites("paint", S, val)
    BY <1>3, <2>1, PaintWrites DEF BuiltFormPaint
  <2>3. QED
    BY <2>1, <2>2
<1>4. ASSUME NEW F \in SUBSET Feature, Clear(F)
      PROVE  \E S \in SUBSET Cell, val \in [Cell -> Logged] :
                  HistoryWrites("clear", S, val)
  <2>1. [c \in Cell |-> Null] \in [Cell -> Logged]
    BY DEF Logged
  <2>2. QED
    BY <1>4, <2>1, ClearWrites
<1>5. CASE \E i \in DOMAIN log, c \in Cell : UndoEvent(i, c)
  BY <1>5 DEF UndoEvent
<1>6. CASE \E i \in DOMAIN log : UndoBatch(i)
  BY <1>6 DEF UndoBatch
<1>7. QED
  BY <1>1, <1>2, <1>3, <1>4, <1>5, <1>6 DEF Next

(* The rows an undo leaves: those of S hold, as far as the view can tell,  *)
(* the old value of the event; unless the event is itself an undo, which   *)
(* leaves its row as it is.                                                *)
LEMMA UndoRows ==
  ASSUME TypeOK, NEW i \in DOMAIN log, NEW S, Undo(i, S)
  PROVE  /\ rows' \in [Cell -> Logged \cup {NoRow}]
         /\ \A c \in S : log[i].op # "undo" => Visible(rows'[c]) = log[i].old[c]
         /\ \A c \in S : log[i].op = "undo" => rows'[c] = rows[c]
         /\ \A c \in Cell \ S : rows'[c] = rows[c]
<1>1. S \in SUBSET Cell
  BY UndoStep
<1>2. log[i] \in Batch
  BY DEF TypeOK
<1>3. \A c \in S : /\ Reverted(log[i].op, log[i].old[c], rows[c])
                        \in Logged \cup {NoRow}
                   /\ log[i].op = "undo" =>
                        Reverted(log[i].op, log[i].old[c], rows[c]) = rows[c]
                   /\ log[i].op # "undo" =>
                        Visible(Reverted(log[i].op, log[i].old[c], rows[c]))
                            = log[i].old[c]
  BY <1>1, <1>2, NullAssumption, NoRowAssumption
     DEF TypeOK, Batch, Op, Reverted, Visible, Logged
<1>4. QED
  BY <1>1, <1>3 DEF Undo, TypeOK

(* Every step keeps the types.                                             *)
LEMMA HistoryTypeStep ==
  ASSUME TypeOK, [Next]_vars
  PROVE  TypeOK'
<1>1. CASE UNCHANGED vars
  BY <1>1 DEF vars, TypeOK
<1>2. ASSUME NEW op \in {"paint", "clear"}, NEW S \in SUBSET Cell,
             NEW val \in [Cell -> Logged], HistoryWrites(op, S, val)
      PROVE  TypeOK'
  BY <1>2, HistoryWriteStep DEF HistoryWrites, HistoryLogs, TypeOK
<1>3. ASSUME NEW i \in DOMAIN log, NEW S, Undo(i, S)
      PROVE  TypeOK'
  BY <1>3, UndoStep, UndoRows DEF HistoryLogs, TypeOK
<1>4. QED
  BY <1>1, <1>2, <1>3, HistoryStepCases

(* The overlay and the log keep their types: every batch logs values of    *)
(* existing cells, whatever sequence of operations built it.               *)
THEOREM TypeCorrect == Spec => []TypeOK
<1>1. Init => TypeOK
  BY DEF Init, TypeOK
<1>2. TypeOK /\ [Next]_vars => TypeOK'
  BY HistoryTypeStep
<1>3. QED
  BY <1>1, <1>2, PTL DEF Spec

-----------------------------------------------------------------------------
(* Every undo batch points back at the batch it reverted, which carries    *)
(* the marks; no other batch points anywhere.                              *)
Links ==
  \A k \in DOMAIN log :
    IF log[k].op = "undo"
    THEN /\ log[k].reverts \in 1 .. (k - 1)
         /\ log[k].cells \subseteq log[log[k].reverts].undone
    ELSE log[k].reverts = 0

(* The live batches of a cell, undone in order, form a stack: each one     *)
(* replaced what the live batch below it wrote, the lowest replaced        *)
(* nothing, and the cell shows what the topmost wrote.                     *)
Chained(c) ==
  \A i \in DOMAIN log : Live(i, c) =>
    /\ (\A j \in 1 .. (i - 1) : ~Live(j, c)) => log[i].old[c] = Null
    /\ \A j \in 1 .. (i - 1) :
         (Live(j, c) /\ \A m \in (j + 1) .. (i - 1) : ~Live(m, c))
            => log[i].old[c] = log[j].new[c]

TopShows(c) ==
  /\ (\A i \in DOMAIN log : ~Live(i, c)) => Visible(rows[c]) = Null
  /\ \A i \in DOMAIN log :
       (Live(i, c) /\ \A j \in (i + 1) .. Len(log) : ~Live(j, c))
          => Visible(rows[c]) = log[i].new[c]

UndoStack == \A c \in Cell : UndoneInOrder(c) => Chained(c) /\ TopShows(c)

HistoryInv == TypeOK /\ Links /\ LogExplainsRows /\ UndoneOnce /\ UndoStack

-----------------------------------------------------------------------------
(* The batch a write logs, and the one an undo logs.                       *)
LEMMA WriteFacts ==
  ASSUME TypeOK, NEW op \in {"paint", "clear"}, NEW S \in SUBSET Cell,
         NEW val \in [Cell -> Logged], HistoryWrites(op, S, val)
  PROVE  \E b \in Batch :
           /\ HistoryLogs(b, 0, {})
           /\ b.op # "undo" /\ b.cells = S /\ b.undone = {} /\ b.reverts = 0
           /\ \A c \in S : b.old[c] = Visible(rows[c]) /\ b.new[c] = Visible(rows'[c])
<1> DEFINE b == BatchOf(op, S, VisibleRows, val, 0)
<1>0. b \in Batch
  BY BatchOfType, VisibleType DEF Op
<1>1. /\ b.op = op /\ b.cells = S /\ b.undone = {} /\ b.reverts = 0
      /\ \A c \in S : b.old[c] = VisibleRows[c] /\ b.new[c] = val[c]
  BY DEF BatchOf, Restricted
<1>2. HistoryLogs(b, 0, {})
  BY HistoryWriteStep DEF HistoryWrites
<1>3. \A c \in S : VisibleRows[c] = Visible(rows[c]) /\ val[c] = Visible(rows'[c])
  BY VisibleType DEF HistoryWrites
<1>4. QED
  BY <1>0, <1>1, <1>2, <1>3

(* ...seen through the batch each of them appends.                         *)
LEMMA UndoFacts ==
  ASSUME TypeOK, NEW i \in DOMAIN log, NEW S, Undo(i, S)
  PROVE  \E b \in Batch :
           /\ HistoryLogs(b, i, S) /\ i \in 1 .. Len(log)
           /\ S \in SUBSET Cell /\ S \subseteq log[i].cells /\ S \cap log[i].undone = {}
           /\ b.op = "undo" /\ b.cells = S /\ b.undone = {} /\ b.reverts = i
           /\ \A c \in S : b.old[c] = log[i].new[c] /\ b.new[c] = log[i].old[c]
<1> DEFINE b == BatchOf("undo", S, log[i].new, log[i].old, i)
<1>1. log[i] \in Batch /\ i \in 1 .. Len(log) /\ i \in Nat
  BY DEF TypeOK
<1>2. /\ S \in SUBSET Cell
      /\ S \subseteq log[i].cells \ log[i].undone
      /\ HistoryLogs(b, i, S)
  BY UndoStep
<1>3. /\ b.op = "undo" /\ b.cells = S /\ b.undone = {} /\ b.reverts = i
      /\ \A c \in S : b.old[c] = log[i].new[c] /\ b.new[c] = log[i].old[c]
  BY <1>2 DEF BatchOf, Restricted
<1>4. b \in Batch
  BY UndoStep
<1>5. QED
  BY <1>1, <1>2, <1>3, <1>4

(* Undo batches keep pointing back at the events they marked.              *)
LEMMA LinksStep ==
  ASSUME TypeOK, Links, [Next]_vars
  PROVE  Links'
<1>0. ASSUME NEW b \in Batch, NEW i \in Nat, NEW S, HistoryLogs(b, i, S),
             IF b.op = "undo" THEN i \in 1 .. Len(log) /\ b.reverts = i /\ b.cells = S
                              ELSE b.reverts = 0
      PROVE  Links'
  <2>1. \A k \in 1 .. Len(log) : log[k].undone \subseteq log'[k].undone
    BY <1>0 DEF HistoryLogs
  <2>2. ASSUME NEW k \in 1 .. Len(log), log[k].op = "undo"
        PROVE  /\ log'[k].reverts \in 1 .. (k - 1)
               /\ log'[k].cells \subseteq log'[log'[k].reverts].undone
    <3>1. /\ log[k].reverts \in 1 .. (k - 1)
          /\ log[k].cells \subseteq log[log[k].reverts].undone
      BY <1>0, <2>2 DEF Links, HistoryLogs
    <3>2. log[k].reverts \in 1 .. Len(log)
      BY <1>0, <3>1 DEF HistoryLogs
    <3>3. log'[k].reverts = log[k].reverts /\ log'[k].cells = log[k].cells
      BY <1>0 DEF HistoryLogs, SameBatch
    <3>4. QED
      BY <2>1, <3>1, <3>2, <3>3
  <2>3. ASSUME NEW k \in 1 .. Len(log), log[k].op # "undo"
        PROVE  log'[k].reverts = 0
    BY <1>0, <2>3 DEF Links, HistoryLogs, SameBatch
  <2>4. \A k \in 1 .. Len(log) : log'[k].op = log[k].op
    BY <1>0 DEF HistoryLogs, SameBatch
  <2>5. b.op = "undo" =>
          b.reverts \in 1 .. Len(log) /\ b.cells \subseteq log'[b.reverts].undone
    BY <1>0 DEF HistoryLogs
  <2>6. /\ Len(log) \in Nat /\ DOMAIN log' = 1 .. (Len(log) + 1)
        /\ log'[Len(log) + 1] = b
    BY <1>0 DEF HistoryLogs
  <2>7. QED
    BY <1>0, <2>2, <2>3, <2>4, <2>5, <2>6 DEF Links
<1>1. CASE UNCHANGED vars
  BY <1>1 DEF vars, Links
<1>2. ASSUME NEW op \in {"paint", "clear"}, NEW S \in SUBSET Cell,
             NEW val \in [Cell -> Logged], HistoryWrites(op, S, val)
      PROVE  Links'
  <2>1. PICK b \in Batch : HistoryLogs(b, 0, {}) /\ b.op # "undo" /\ b.reverts = 0
    BY <1>2, WriteFacts
  <2>2. QED
    BY <1>0, <2>1
<1>3. ASSUME NEW i \in DOMAIN log, NEW S, Undo(i, S)
      PROVE  Links'
  <2>1. PICK b \in Batch :
           /\ HistoryLogs(b, i, S) /\ i \in 1 .. Len(log)
           /\ b.op = "undo" /\ b.cells = S /\ b.reverts = i
    BY <1>3, UndoFacts
  <2>2. QED
    BY <1>0, <2>1
<1>4. QED
  BY <1>1, <1>2, <1>3, HistoryStepCases

(* An undo takes only events without a mark, and leaves them marked.       *)
LEMMA UndoneOnceStep ==
  ASSUME TypeOK, Links, UndoneOnce, [Next]_vars
  PROVE  UndoneOnce'
<1>0. ASSUME NEW b \in Batch, NEW i \in Nat, NEW S, HistoryLogs(b, i, S), Links',
             b.op = "undo" => /\ i \in 1 .. Len(log) /\ b.reverts = i /\ b.cells = S
                              /\ S \cap log[i].undone = {}
      PROVE  UndoneOnce'
  <2>1. /\ Len(log) \in Nat /\ DOMAIN log = 1 .. Len(log)
        /\ DOMAIN log' = 1 .. (Len(log) + 1) /\ log'[Len(log) + 1] = b
        /\ \A m \in 1 .. Len(log) :
             /\ log'[m].op = log[m].op /\ log'[m].cells = log[m].cells
             /\ log'[m].reverts = log[m].reverts
    BY <1>0 DEF HistoryLogs, SameBatch
  <2>2. ASSUME NEW k \in 1 .. Len(log), log[k].op = "undo", b.op = "undo",
               log[k].reverts = b.reverts
        PROVE  log[k].cells \cap b.cells = {}
    <3>1. log[k].cells \subseteq log[i].undone
      BY <1>0, <2>1, <2>2 DEF Links
    <3>2. QED
      BY <1>0, <2>2, <3>1
  <2>3. ASSUME NEW k \in 1 .. (Len(log) + 1), NEW m \in 1 .. (Len(log) + 1), m # k,
               log'[k].op = "undo", log'[m].op = "undo", log'[m].reverts = log'[k].reverts
        PROVE  log'[m].cells \cap log'[k].cells = {}
    <3>1. CASE k \in 1 .. Len(log) /\ m \in 1 .. Len(log)
      <4>1. /\ log[k].op = "undo" /\ log[m].op = "undo" /\ log[m].reverts = log[k].reverts
            /\ k \in DOMAIN log /\ m \in DOMAIN log
        BY <2>1, <2>3, <3>1
      <4>2. log[m].cells \cap log[k].cells = {}
        BY <2>3, <4>1 DEF UndoneOnce
      <4>3. QED
        BY <2>1, <3>1, <4>2
    <3>2. CASE k = Len(log) + 1 /\ m \in 1 .. Len(log)
      BY <2>1, <2>2, <2>3, <3>2
    <3>3. CASE m = Len(log) + 1 /\ k \in 1 .. Len(log)
      BY <2>1, <2>2, <2>3, <3>3
    <3>4. QED
      BY <2>1, <2>3, <3>1, <3>2, <3>3
  <2>4. QED
    BY <1>0, <2>1, <2>3 DEF UndoneOnce, Links
<1>1. CASE UNCHANGED vars
  BY <1>1 DEF vars, UndoneOnce
<1>2. ASSUME NEW op \in {"paint", "clear"}, NEW S \in SUBSET Cell,
             NEW val \in [Cell -> Logged], HistoryWrites(op, S, val)
      PROVE  UndoneOnce'
  <2>1. PICK b \in Batch : HistoryLogs(b, 0, {}) /\ b.op # "undo"
    BY <1>2, WriteFacts
  <2>2. QED
    BY <1>0, <2>1, LinksStep
<1>3. ASSUME NEW i \in DOMAIN log, NEW S, Undo(i, S)
      PROVE  UndoneOnce'
  <2>1. PICK b \in Batch :
           /\ HistoryLogs(b, i, S) /\ i \in 1 .. Len(log) /\ S \cap log[i].undone = {}
           /\ b.op = "undo" /\ b.cells = S /\ b.reverts = i
    BY <1>3, UndoFacts
  <2>2. QED
    BY <1>0, <2>1, LinksStep
<1>4. QED
  BY <1>1, <1>2, <1>3, HistoryStepCases

-----------------------------------------------------------------------------
(* The new batch and the old ones, seen from one cell.                     *)
LEMMA HistoryLogsFacts ==
  ASSUME NEW b, NEW i, NEW S, HistoryLogs(b, i, S)
  PROVE  /\ Len(log) \in Nat /\ DOMAIN log = 1 .. Len(log)
         /\ Len(log') = Len(log) + 1 /\ DOMAIN log' = 1 .. (Len(log) + 1)
         /\ log'[Len(log) + 1] = b
         /\ \A k \in 1 .. Len(log) :
              /\ log'[k].op = log[k].op /\ log'[k].cells = log[k].cells
              /\ log'[k].old = log[k].old /\ log'[k].new = log[k].new
              /\ log'[k].reverts = log[k].reverts
BY DEF HistoryLogs, SameBatch

(* Adding a batch never makes a redo of a cell be forgotten.               *)
LEMMA RedoneStays ==
  ASSUME NEW b, NEW i, NEW S, HistoryLogs(b, i, S), NEW c, Redone(c)
  PROVE  Redone(c)'
<1>1. PICK k \in DOMAIN log : log[k].op = "undo" /\ c \in log[k].undone
  BY DEF Redone
<1>2. k \in DOMAIN log' /\ log'[k].op = "undo"
  BY <1>1, HistoryLogsFacts
<1>3. c \in log'[k].undone
  BY <1>1 DEF HistoryLogs
<1>4. QED
  BY <1>2, <1>3 DEF Redone

(* A cell the new batch does not touch keeps its newest batch; a cell it   *)
(* touches has the new batch for its newest.                               *)
LEMMA LogExplainsRowsStep ==
  ASSUME TypeOK, LogExplainsRows, [Next]_vars
  PROVE  LogExplainsRows'
<1>0. ASSUME NEW b, NEW i, NEW M, HistoryLogs(b, i, M), NEW S, b.cells = S,
             \A c \in Cell \ S : rows'[c] = rows[c],
             \A c \in S : (b.op # "undo" \/ ~Redone(c)') =>
                  Visible(rows'[c]) = b.new[c]
      PROVE  LogExplainsRows'
  <2> SUFFICES ASSUME NEW c \in Cell
               PROVE  /\ (\A k \in DOMAIN log' : c \notin log'[k].cells) => rows'[c] = NoRow
                      /\ \A k \in DOMAIN log' :
                           (/\ Touches(k, c)'
                            /\ \A j \in (k + 1) .. Len(log') : c \notin log'[j].cells
                            /\ log'[k].op # "undo" \/ ~Redone(c)')
                             => Visible(rows'[c]) = log'[k].new[c]
    BY DEF LogExplainsRows
  <2>1. CASE c \in S
    <3>1. Len(log) + 1 \in DOMAIN log' /\ c \in log'[Len(log) + 1].cells
      BY <1>0, <2>1, HistoryLogsFacts
    <3>2. ASSUME NEW k \in DOMAIN log', k # Len(log) + 1
          PROVE  Len(log) + 1 \in (k + 1) .. Len(log')
      BY <1>0, <3>2, HistoryLogsFacts
    <3>3. QED
      BY <1>0, <2>1, <3>1, <3>2, HistoryLogsFacts
  <2>2. CASE c \notin S
    <3>1. rows'[c] = rows[c] /\ c \notin log'[Len(log) + 1].cells
      BY <1>0, <2>2, HistoryLogsFacts
    <3>2. ASSUME \A k \in DOMAIN log' : c \notin log'[k].cells
          PROVE  rows'[c] = NoRow
      <4>1. \A k \in DOMAIN log : c \notin log[k].cells
        BY <1>0, <3>2, HistoryLogsFacts
      <4>2. QED
        BY <3>1, <4>1 DEF LogExplainsRows
    <3>3. ASSUME NEW k \in DOMAIN log', Touches(k, c)',
                 \A j \in (k + 1) .. Len(log') : c \notin log'[j].cells,
                 log'[k].op # "undo" \/ ~Redone(c)'
          PROVE  Visible(rows'[c]) = log'[k].new[c]
      <4>1. k \in DOMAIN log
        BY <1>0, <3>1, <3>3, HistoryLogsFacts DEF Touches
      <4>2. /\ log'[k].op = log[k].op /\ log'[k].cells = log[k].cells
            /\ log'[k].new = log[k].new
        BY <1>0, <4>1, HistoryLogsFacts
      <4>3. Touches(k, c) /\ \A j \in (k + 1) .. Len(log) : c \notin log[j].cells
        BY <1>0, <3>3, <4>1, <4>2, HistoryLogsFacts DEF Touches
      <4>4. log[k].op # "undo" \/ ~Redone(c)
        BY <1>0, <3>3, <4>2, RedoneStays
      <4>5. Visible(rows[c]) = log[k].new[c]
        BY <4>1, <4>3, <4>4 DEF LogExplainsRows
      <4>6. QED
        BY <3>1, <4>2, <4>5
    <3>4. QED
      BY <3>2, <3>3
  <2>3. QED
    BY <2>1, <2>2
<1>1. CASE UNCHANGED vars
  BY <1>1 DEF vars, LogExplainsRows, Touches, Redone, Visible
<1>2. ASSUME NEW op \in {"paint", "clear"}, NEW S \in SUBSET Cell,
             NEW val \in [Cell -> Logged], HistoryWrites(op, S, val)
      PROVE  LogExplainsRows'
  <2>1. PICK b \in Batch :
           /\ HistoryLogs(b, 0, {})
           /\ b.op # "undo" /\ b.cells = S /\ b.undone = {} /\ b.reverts = 0
           /\ \A c \in S : b.old[c] = Visible(rows[c]) /\ b.new[c] = Visible(rows'[c])
    BY <1>2, WriteFacts
  <2>2. QED
    BY <1>0, <1>2, <2>1 DEF HistoryWrites
<1>3. ASSUME NEW i \in DOMAIN log, NEW S, Undo(i, S)
      PROVE  LogExplainsRows'
  <2>1. PICK b \in Batch :
           /\ HistoryLogs(b, i, S) /\ i \in 1 .. Len(log) /\ S \in SUBSET Cell
           /\ b.op = "undo" /\ b.cells = S
           /\ \A c \in S : b.new[c] = log[i].old[c]
    BY <1>3, UndoFacts
  <2>2. ASSUME NEW c \in S, ~Redone(c)'
        PROVE  Visible(rows'[c]) = b.new[c]
    <3>1. c \in log'[i].undone /\ i \in DOMAIN log' /\ log'[i].op = log[i].op
      BY <2>1, <2>2 DEF HistoryLogs, SameBatch
    <3>2. log[i].op # "undo"
      BY <2>2, <3>1 DEF Redone
    <3>3. QED
      BY <1>3, <2>1, <2>2, <3>2, UndoRows
  <2>3. \A c \in Cell \ S : rows'[c] = rows[c]
    BY <1>3, UndoRows
  <2>4. QED
    BY <1>0, <2>1, <2>2, <2>3
<1>4. QED
  BY <1>1, <1>2, <1>3, HistoryStepCases

-----------------------------------------------------------------------------
(* Undoing in order cannot start with an undo out of order: the discipline *)
(* after a step held before it.                                            *)
LEMMA InOrderBefore ==
  ASSUME TypeOK, Links, NEW b, NEW i, NEW S, HistoryLogs(b, i, S), NEW c,
         UndoneInOrder(c)'
  PROVE  UndoneInOrder(c)
<1> SUFFICES ASSUME NEW k \in DOMAIN log, log[k].op = "undo", c \in log[k].cells
             PROVE  /\ log[log[k].reverts].op # "undo"
                    /\ \A j \in (log[k].reverts + 1) .. (k - 1) :
                         (Touches(j, c) /\ log[j].op # "undo") =>
                            \E m \in (j + 1) .. (k - 1) :
                               log[m].reverts = j /\ c \in log[m].cells
  BY DEF UndoneInOrder
<1> DEFINE r == log[k].reverts
<1>1. k \in 1 .. Len(log) /\ r \in 1 .. (k - 1) /\ r \in 1 .. Len(log) /\ Len(log) \in Nat
  BY HistoryLogsFacts DEF Links
<1>2. k \in DOMAIN log' /\ log'[k].op = "undo" /\ c \in log'[k].cells /\ log'[k].reverts = r
  BY <1>1, HistoryLogsFacts
<1>3. /\ log'[r].op # "undo"
      /\ \A j \in (r + 1) .. (k - 1) :
           (Touches(j, c)' /\ log'[j].op # "undo") =>
              \E m \in (j + 1) .. (k - 1) : log'[m].reverts = j /\ c \in log'[m].cells
  BY <1>2 DEF UndoneInOrder
<1>4. log[r].op # "undo"
  BY <1>1, <1>3, HistoryLogsFacts
<1>5. ASSUME NEW j \in (r + 1) .. (k - 1), Touches(j, c), log[j].op # "undo"
      PROVE  \E m \in (j + 1) .. (k - 1) : log[m].reverts = j /\ c \in log[m].cells
  <2>1. j \in 1 .. Len(log) /\ Touches(j, c)' /\ log'[j].op # "undo"
    BY <1>1, <1>5, HistoryLogsFacts DEF Touches
  <2>2. PICK m \in (j + 1) .. (k - 1) : log'[m].reverts = j /\ c \in log'[m].cells
    BY <1>3, <1>5, <2>1
  <2>3. m \in 1 .. Len(log)
    BY <1>1, <2>1, <2>2
  <2>4. QED
    BY <2>2, <2>3, HistoryLogsFacts
<1>6. QED
  BY <1>4, <1>5

(* A write puts a live batch on top of the cell's stack.                   *)
LEMMA Push ==
  ASSUME TypeOK, NEW b, HistoryLogs(b, 0, {}), NEW c, Chained(c), TopShows(c),
         b.op # "undo", b.undone = {}, c \in b.cells,
         b.old[c] = Visible(rows[c]), b.new[c] = Visible(rows'[c])
  PROVE  Chained(c)' /\ TopShows(c)'
<1>0. PICK n \in Nat : n = Len(log) + 1
  BY HistoryLogsFacts
<1>1. /\ n = Len(log) + 1 /\ Len(log) \in Nat
      /\ DOMAIN log = 1 .. Len(log) /\ DOMAIN log' = 1 .. n /\ Len(log') = n /\ log'[n] = b
  BY <1>0, HistoryLogsFacts
<1>2. ASSUME NEW k \in 1 .. Len(log)
      PROVE  /\ Live(k, c)' <=> Live(k, c)
             /\ log'[k].old = log[k].old /\ log'[k].new = log[k].new
  <2>1. /\ k \in DOMAIN log /\ k \in DOMAIN log'
        /\ log'[k].op = log[k].op /\ log'[k].cells = log[k].cells
        /\ log'[k].old = log[k].old /\ log'[k].new = log[k].new
    BY <1>1, HistoryLogsFacts
  <2>2. log'[k].undone = log[k].undone
    BY <1>1 DEF HistoryLogs
  <2>3. QED
    BY <2>1, <2>2 DEF Live, Touches
<1>3. Live(n, c)'
  BY <1>1 DEF Live, Touches
<1>4. ASSUME NEW k \in DOMAIN log', Live(k, c)'
      PROVE  /\ (\A j \in 1 .. (k - 1) : ~Live(j, c)') => log'[k].old[c] = Null
             /\ \A j \in 1 .. (k - 1) :
                  (Live(j, c)' /\ \A m \in (j + 1) .. (k - 1) : ~Live(m, c)')
                     => log'[k].old[c] = log'[j].new[c]
  <2>1. CASE k \in 1 .. Len(log)
    <3>1. /\ Live(k, c) /\ k \in DOMAIN log /\ log'[k].old = log[k].old
          /\ \A j \in 1 .. (k - 1) : /\ Live(j, c)' <=> Live(j, c)
                                     /\ log'[j].new = log[j].new
      <4>1. Live(k, c) /\ k \in DOMAIN log /\ log'[k].old = log[k].old
        BY <1>1, <1>2, <1>4, <2>1
      <4>2. \A j \in 1 .. (k - 1) : j \in 1 .. Len(log)
        BY <1>1, <2>1
      <4>3. QED
        BY <1>2, <4>1, <4>2
    <3>2. /\ (\A j \in 1 .. (k - 1) : ~Live(j, c)) => log[k].old[c] = Null
          /\ \A j \in 1 .. (k - 1) :
               (Live(j, c) /\ \A m \in (j + 1) .. (k - 1) : ~Live(m, c))
                  => log[k].old[c] = log[j].new[c]
      BY <3>1 DEF Chained
    <3>3. \A j \in 1 .. (k - 1) : \A m \in (j + 1) .. (k - 1) :
            Live(m, c)' <=> Live(m, c)
      BY <1>1, <2>1, <3>1
    <3>4. QED
      BY <3>1, <3>2, <3>3
  <2>2. CASE k = n
    <3>1. log'[k].old[c] = Visible(rows[c]) /\ k - 1 = Len(log)
      BY <1>1, <2>2
    <3>2. QED
      BY <1>1, <1>2, <3>1 DEF TopShows
  <2>3. QED
    BY <1>1, <2>1, <2>2
<1>5. TopShows(c)'
  <2>1. ASSUME NEW k \in DOMAIN log', \A j \in (k + 1) .. Len(log') : ~Live(j, c)'
        PROVE  k = n
    BY <1>1, <1>3, <2>1
  <2>2. \A k \in DOMAIN log' :
          (Live(k, c)' /\ \A j \in (k + 1) .. Len(log') : ~Live(j, c)')
             => Visible(rows'[c]) = log'[k].new[c]
    BY <1>1, <2>1
  <2>3. n \in DOMAIN log'
    BY <1>1
  <2>4. ~ \A k \in DOMAIN log' : ~Live(k, c)'
    BY <1>3, <2>3
  <2>5. QED
    BY <2>2, <2>4 DEF TopShows
<1>6. QED
  BY <1>4, <1>5 DEF Chained

(* A step that neither touches nor marks a cell leaves its stack alone.    *)
LEMMA Aside ==
  ASSUME TypeOK, NEW b, NEW i, NEW S, HistoryLogs(b, i, S), NEW c,
         Chained(c), TopShows(c),
         c \notin S, c \notin b.cells, rows'[c] = rows[c]
  PROVE  Chained(c)' /\ TopShows(c)'
<1>0. PICK n \in Nat : n = Len(log) + 1
  BY HistoryLogsFacts
<1>1. /\ n = Len(log) + 1 /\ Len(log) \in Nat
      /\ DOMAIN log = 1 .. Len(log) /\ DOMAIN log' = 1 .. n /\ Len(log') = n /\ log'[n] = b
  BY <1>0, HistoryLogsFacts
<1>2. ASSUME NEW k \in 1 .. n
      PROVE  /\ Live(k, c)' <=> Live(k, c)
             /\ k \in 1 .. Len(log) => log'[k].old = log[k].old /\ log'[k].new = log[k].new
             /\ Live(k, c)' => k \in 1 .. Len(log)
  <2>1. CASE k = n
    BY <1>1, <2>1 DEF Live, Touches
  <2>2. CASE k \in 1 .. Len(log)
    <3>1. /\ k \in DOMAIN log /\ k \in DOMAIN log'
          /\ log'[k].op = log[k].op /\ log'[k].cells = log[k].cells
          /\ log'[k].old = log[k].old /\ log'[k].new = log[k].new
      BY <1>1, <2>2, HistoryLogsFacts
    <3>2. c \in log'[k].undone <=> c \in log[k].undone
      BY <1>1, <2>2 DEF HistoryLogs
    <3>3. QED
      BY <2>2, <3>1, <3>2 DEF Live, Touches
  <2>3. QED
    BY <1>1, <2>1, <2>2
<1>3. ASSUME NEW k \in DOMAIN log', Live(k, c)'
      PROVE  /\ (\A j \in 1 .. (k - 1) : ~Live(j, c)') => log'[k].old[c] = Null
             /\ \A j \in 1 .. (k - 1) :
                  (Live(j, c)' /\ \A m \in (j + 1) .. (k - 1) : ~Live(m, c)')
                     => log'[k].old[c] = log'[j].new[c]
  <2>1. k \in DOMAIN log /\ k \in 1 .. Len(log) /\ Live(k, c) /\ log'[k].old = log[k].old
    BY <1>1, <1>2, <1>3
  <2>2. \A j \in 1 .. (k - 1) : /\ Live(j, c)' <=> Live(j, c)
                                /\ log'[j].new = log[j].new
    BY <1>1, <1>2, <2>1
  <2>3. \A j \in 1 .. (k - 1) : \A m \in (j + 1) .. (k - 1) :
            Live(m, c)' <=> Live(m, c)
    BY <2>1, <2>2
  <2>4. /\ (\A j \in 1 .. (k - 1) : ~Live(j, c)) => log[k].old[c] = Null
        /\ \A j \in 1 .. (k - 1) :
             (Live(j, c) /\ \A m \in (j + 1) .. (k - 1) : ~Live(m, c))
                => log[k].old[c] = log[j].new[c]
    BY <2>1 DEF Chained
  <2>5. QED
    BY <2>1, <2>2, <2>3, <2>4
<1>4. (\A k \in DOMAIN log' : ~Live(k, c)') => Visible(rows'[c]) = Null
  BY <1>1, <1>2 DEF TopShows
<1>5. ASSUME NEW k \in DOMAIN log', Live(k, c)',
             \A j \in (k + 1) .. Len(log') : ~Live(j, c)'
      PROVE  Visible(rows'[c]) = log'[k].new[c]
  <2>1. k \in DOMAIN log /\ k \in 1 .. Len(log) /\ Live(k, c) /\ log'[k].new = log[k].new
    BY <1>1, <1>2, <1>5
  <2>2. \A j \in (k + 1) .. Len(log) : ~Live(j, c)
    BY <1>1, <1>2, <1>5, <2>1
  <2>3. QED
    BY <2>1, <2>2 DEF TopShows
<1>6. QED
  BY <1>3, <1>4, <1>5 DEF Chained, TopShows

(* An undo in order takes the topmost live batch off the cell's stack.     *)
LEMMA Pop ==
  ASSUME TypeOK, Links, NEW b, NEW i \in 1 .. Len(log), NEW S, HistoryLogs(b, i, S),
         NEW c, Chained(c), TopShows(c), UndoneInOrder(c)',
         b.op = "undo", b.cells = S, b.reverts = i, c \in S, Live(i, c),
         Visible(rows'[c]) = log[i].old[c]
  PROVE  Chained(c)' /\ TopShows(c)'
<1>0. PICK n \in Nat : n = Len(log) + 1
  BY HistoryLogsFacts
<1>1. /\ n = Len(log) + 1 /\ Len(log) \in Nat /\ i \in 1 .. Len(log)
      /\ DOMAIN log = 1 .. Len(log) /\ DOMAIN log' = 1 .. n /\ Len(log') = n /\ log'[n] = b
  BY <1>0, HistoryLogsFacts
<1>2. ASSUME NEW k \in 1 .. n
      PROVE  /\ Live(k, c)' <=> (Live(k, c) /\ k # i)
             /\ k \in 1 .. Len(log) => log'[k].old = log[k].old /\ log'[k].new = log[k].new
             /\ Live(k, c)' => k \in 1 .. Len(log)
  <2>1. CASE k = n
    BY <1>1, <2>1 DEF Live, Touches
  <2>2. CASE k \in 1 .. Len(log)
    <3>1. /\ k \in DOMAIN log /\ k \in DOMAIN log'
          /\ log'[k].op = log[k].op /\ log'[k].cells = log[k].cells
          /\ log'[k].old = log[k].old /\ log'[k].new = log[k].new
      BY <1>1, <2>2, HistoryLogsFacts
    <3>2. c \in log'[k].undone <=> (c \in log[k].undone \/ k = i)
      BY <1>1, <2>2 DEF HistoryLogs
    <3>3. QED
      BY <2>2, <3>1, <3>2 DEF Live, Touches
  <2>3. QED
    BY <1>1, <2>1, <2>2
(* Nothing live is above i: in order, whatever was has been undone.        *)
<1>3. ASSUME NEW j \in (i + 1) .. Len(log), Live(j, c)
      PROVE  FALSE
  <2>1. j \in 1 .. Len(log) /\ j \in (i + 1) .. (n - 1) /\ n \in DOMAIN log'
    BY <1>1
  <2>2. /\ log'[n].op = "undo" /\ c \in log'[n].cells /\ log'[n].reverts = i
    BY <1>1
  <2>3. Touches(j, c)' /\ log'[j].op # "undo"
    BY <1>1, <1>3, <2>1, HistoryLogsFacts DEF Live, Touches
  <2>4. PICK m \in (j + 1) .. (n - 1) : log'[m].reverts = j /\ c \in log'[m].cells
    BY <2>1, <2>2, <2>3 DEF UndoneInOrder
  <2>5. m \in 1 .. Len(log) /\ m \in DOMAIN log
    BY <1>1, <2>1, <2>4
  <2>6. log[m].reverts = j /\ c \in log[m].cells
    BY <2>4, <2>5, HistoryLogsFacts
  <2>7. c \in log[j].undone
    BY <2>1, <2>5, <2>6 DEF Links
  <2>8. QED
    BY <1>3, <2>7 DEF Live
<1>4. ASSUME NEW k \in DOMAIN log', Live(k, c)'
      PROVE  k \in 1 .. (i - 1) /\ k \in DOMAIN log /\ Live(k, c)
  BY <1>1, <1>2, <1>3, <1>4
<1>5. ASSUME NEW k \in DOMAIN log', Live(k, c)'
      PROVE  /\ (\A j \in 1 .. (k - 1) : ~Live(j, c)') => log'[k].old[c] = Null
             /\ \A j \in 1 .. (k - 1) :
                  (Live(j, c)' /\ \A m \in (j + 1) .. (k - 1) : ~Live(m, c)')
                     => log'[k].old[c] = log'[j].new[c]
  <2>1. /\ k \in 1 .. (i - 1) /\ k \in 1 .. Len(log) /\ k \in DOMAIN log /\ Live(k, c)
        /\ log'[k].old = log[k].old
    BY <1>1, <1>2, <1>4, <1>5
  <2>2. \A j \in 1 .. (k - 1) : /\ Live(j, c)' <=> Live(j, c)
                                /\ log'[j].new = log[j].new
    BY <1>1, <1>2, <2>1
  <2>3. \A j \in 1 .. (k - 1) : \A m \in (j + 1) .. (k - 1) :
            Live(m, c)' <=> Live(m, c)
    BY <2>1, <2>2
  <2>4. /\ (\A j \in 1 .. (k - 1) : ~Live(j, c)) => log[k].old[c] = Null
        /\ \A j \in 1 .. (k - 1) :
             (Live(j, c) /\ \A m \in (j + 1) .. (k - 1) : ~Live(m, c))
                => log[k].old[c] = log[j].new[c]
    BY <2>1 DEF Chained
  <2>5. QED
    BY <2>1, <2>2, <2>3, <2>4
<1>6. ASSUME \A k \in DOMAIN log' : ~Live(k, c)'
      PROVE  Visible(rows'[c]) = Null
  <2>1. \A j \in 1 .. (i - 1) : ~Live(j, c)
    BY <1>1, <1>2, <1>6
  <2>2. QED
    BY <1>1, <2>1 DEF Chained
<1>7. ASSUME NEW k \in DOMAIN log', Live(k, c)',
             \A j \in (k + 1) .. Len(log') : ~Live(j, c)'
      PROVE  Visible(rows'[c]) = log'[k].new[c]
  <2>1. k \in 1 .. (i - 1) /\ Live(k, c) /\ log'[k].new = log[k].new
    BY <1>1, <1>2, <1>4, <1>7
  <2>2. \A j \in (k + 1) .. (i - 1) : ~Live(j, c)
    BY <1>1, <1>2, <1>7, <2>1
  <2>3. log[i].old[c] = log[k].new[c]
    BY <1>1, <2>1, <2>2 DEF Chained
  <2>4. QED
    BY <2>1, <2>3
<1>8. QED
  BY <1>5, <1>6, <1>7 DEF Chained, TopShows

(* Every step pushes on a cell's stack, pops it, or leaves it alone.       *)
LEMMA UndoStackStep ==
  ASSUME TypeOK, Links, UndoStack, [Next]_vars
  PROVE  UndoStack'
<1>1. CASE UNCHANGED vars
  BY <1>1 DEF vars, UndoStack, UndoneInOrder, Chained, TopShows, Live,
              Touches, Visible
<1>2. ASSUME NEW op \in {"paint", "clear"}, NEW S \in SUBSET Cell,
             NEW val \in [Cell -> Logged], HistoryWrites(op, S, val)
      PROVE  UndoStack'
  <2>1. PICK b \in Batch :
           /\ HistoryLogs(b, 0, {})
           /\ b.op # "undo" /\ b.cells = S /\ b.undone = {} /\ b.reverts = 0
           /\ \A c \in S : b.old[c] = Visible(rows[c]) /\ b.new[c] = Visible(rows'[c])
    BY <1>2, WriteFacts
  <2>2. SUFFICES ASSUME NEW c \in Cell, UndoneInOrder(c)'
                 PROVE  Chained(c)' /\ TopShows(c)'
    BY DEF UndoStack
  <2>3. Chained(c) /\ TopShows(c)
    BY <2>1, <2>2, InOrderBefore DEF UndoStack
  <2>4. CASE c \in S
    BY <2>1, <2>3, <2>4, Push
  <2>5. CASE c \notin S
    BY <1>2, <2>1, <2>3, <2>5, Aside DEF HistoryWrites
  <2>6. QED
    BY <2>4, <2>5
<1>3. ASSUME NEW i \in DOMAIN log, NEW S, Undo(i, S)
      PROVE  UndoStack'
  <2>1. PICK b \in Batch :
           /\ HistoryLogs(b, i, S) /\ i \in 1 .. Len(log)
           /\ S \in SUBSET Cell /\ S \subseteq log[i].cells /\ S \cap log[i].undone = {}
           /\ b.op = "undo" /\ b.cells = S /\ b.undone = {} /\ b.reverts = i
           /\ \A c \in S : b.old[c] = log[i].new[c] /\ b.new[c] = log[i].old[c]
    BY <1>3, UndoFacts
  <2>2. SUFFICES ASSUME NEW c \in Cell, UndoneInOrder(c)'
                 PROVE  Chained(c)' /\ TopShows(c)'
    BY DEF UndoStack
  <2>3. Chained(c) /\ TopShows(c)
    BY <2>1, <2>2, InOrderBefore DEF UndoStack
  <2>4. CASE c \in S
    <3>1. /\ Len(log) + 1 \in DOMAIN log' /\ log'[Len(log) + 1] = b
          /\ log'[i].op = log[i].op
      BY <2>1, HistoryLogsFacts
    <3>2. log[i].op # "undo"
      BY <2>1, <2>2, <2>4, <3>1 DEF UndoneInOrder
    <3>3. Live(i, c)
      BY <2>1, <2>4, <3>2 DEF Live, Touches
    <3>4. Visible(rows'[c]) = log[i].old[c]
      BY <1>3, <2>4, <3>2, UndoRows
    <3>5. QED
      BY <2>1, <2>2, <2>3, <2>4, <3>3, <3>4, Pop
  <2>5. CASE c \notin S
    <3>1. rows'[c] = rows[c]
      BY <1>3, <2>2, <2>5, UndoRows
    <3>2. QED
      BY <2>1, <2>3, <2>5, <3>1, Aside
  <2>6. QED
    BY <2>4, <2>5
<1>4. QED
  BY <1>1, <1>2, <1>3, HistoryStepCases

-----------------------------------------------------------------------------
(* The conjunction of all of these is inductive.                           *)
LEMMA HistoryInductive == Spec => []HistoryInv
<1>1. Init => HistoryInv
  BY DEF Init, HistoryInv, TypeOK, Links, LogExplainsRows, UndoneOnce, UndoStack,
         Chained, TopShows, Touches, Live, Visible
<1>2. HistoryInv /\ [Next]_vars => HistoryInv'
  BY HistoryTypeStep, LinksStep, LogExplainsRowsStep, UndoneOnceStep, UndoStackStep
     DEF HistoryInv
<1>3. QED
  BY <1>1, <1>2, PTL DEF Spec

(* The event log and the overlay never part: whatever is painted, cleared  *)
(* or undone, and in whatever order, a cell shows what its newest event    *)
(* says, unless an undo of that cell was itself undone.                    *)
THEOREM LogExplains == Spec => []LogExplainsRows
BY HistoryInductive, PTL DEF HistoryInv

(* No event of paint, clear or undo is ever undone twice.                  *)
THEOREM NeverUndoneTwice == Spec => []UndoneOnce
BY HistoryInductive, PTL DEF HistoryInv

(* Undone newest first, a cell's events give back one by one exactly the   *)
(* values they replaced, down to the base value.                           *)
THEOREM WalksBack == Spec => []UndoWalksBack
<1>1. HistoryInv => UndoWalksBack
  BY DEF HistoryInv, UndoStack, TopShows, UndoWalksBack
<1>2. QED
  BY <1>1, HistoryInductive, PTL

-----------------------------------------------------------------------------
(* PaintTxn: operations as transactions.                                   *)

USE UnwrittenAssumption

(* A step logs one batch and marks the events of S in batch i undone.      *)
(* Nothing else of a logged batch ever changes.                            *)
Logs(i, S) ==
  /\ log' \in Seq(Batch)
  /\ Len(log') = Len(log) + 1
  /\ \A k \in DOMAIN log :
       /\ k \in DOMAIN log'
       /\ log'[k].op = log[k].op /\ log'[k].cells = log[k].cells
       /\ log'[k].old = log[k].old /\ log'[k].new = log[k].new
       /\ log'[k].undone = IF k = i THEN log[k].undone \cup S ELSE log[k].undone

(* A write records the rows of W and leaves the rest of every transaction. *)
Wrote(t, W, new) ==
  /\ txn' \in [Client -> Txn]
  /\ rows' = rows /\ log' = log
  /\ \A u \in Client \ {t} : txn'[u] = txn[u]
  /\ txn'[t].op = txn[t].op /\ txn'[t].of = txn[t].of
  /\ txn'[t].cells = txn[t].cells /\ txn'[t].val = txn[t].val
  /\ txn'[t].seen = txn[t].seen /\ txn'[t].stage = "written"
  /\ txn'[t].disturbed = txn[t].disturbed
  /\ \A x \in Cell : txn'[t].writes[x] = IF x \in W THEN new[x] ELSE Unwritten

-----------------------------------------------------------------------------
LEMMA IdleType == Idle \in Txn
BY DEF Idle, Txn, NothingWritten, Logged, Row, Op

LEMMA ShownType ==
  ASSUME NEW seen \in [Cell -> Row]
  PROVE  Shown(seen) \in [Cell -> Logged]
BY DEF Shown, Visible, Row, Logged

LEMMA RevertedType ==
  ASSUME NEW op \in Op, NEW old \in Logged, NEW row \in Row
  PROVE  Reverted(op, old, row) \in Row
BY DEF Reverted, Op, Row

LEMMA AppendKeeps ==
  ASSUME NEW s \in Seq(Batch), NEW b \in Batch
  PROVE  /\ Append(s, b) \in Seq(Batch) /\ Len(Append(s, b)) = Len(s) + 1
         /\ \A k \in DOMAIN s : k \in DOMAIN Append(s, b) /\ Append(s, b)[k] = s[k]
OBVIOUS

(* Appending a batch marks nothing.                                        *)
LEMMA AppendLogs ==
  ASSUME TxnTypeOK, NEW b \in Batch, log' = Append(log, b)
  PROVE  Logs(0, {})
<1>1. log \in Seq(Batch)
  BY DEF TxnTypeOK, TypeOK
<1>2. /\ log' \in Seq(Batch) /\ Len(log') = Len(log) + 1
      /\ \A k \in DOMAIN log : k \in DOMAIN log' /\ log'[k] = log[k]
  BY <1>1
<1>3. 0 \notin DOMAIN log
  BY <1>1
<1>4. QED
  BY <1>2, <1>3 DEF Logs

(* An undo's commit marks the events it reverts.                           *)
LEMMA MarkLogs ==
  ASSUME TxnTypeOK, NEW i \in DOMAIN log, NEW S \in SUBSET Cell, NEW b \in Batch,
         log' = Append([log EXCEPT ![i].undone = @ \cup S], b)
  PROVE  Logs(i, S)
<1> DEFINE mb == [log[i] EXCEPT !.undone = @ \cup S]
           marked == [log EXCEPT ![i] = mb]
<1>1. log \in Seq(Batch) /\ log[i] \in Batch
  BY DEF TxnTypeOK, TypeOK
<1>2. /\ mb \in Batch /\ mb.undone = log[i].undone \cup S
      /\ mb.op = log[i].op /\ mb.cells = log[i].cells
      /\ mb.old = log[i].old /\ mb.new = log[i].new
  BY <1>1 DEF Batch, Cell
<1>3. log' = Append(marked, b)
  BY <1>1
<1> HIDE DEF mb
<1>4. /\ marked \in Seq(Batch) /\ Len(marked) = Len(log)
      /\ \A k \in DOMAIN log : k \in DOMAIN marked /\
                      marked[k] = IF k = i THEN mb ELSE log[k]
  BY <1>1, <1>2
<1> HIDE DEF marked
<1>5. /\ log' \in Seq(Batch) /\ Len(log') = Len(log) + 1
      /\ \A k \in DOMAIN log : k \in DOMAIN log' /\ log'[k] = marked[k]
  BY <1>3, <1>4, AppendKeeps
<1>6. QED
  BY <1>2, <1>4, <1>5 DEF Logs

(* What a Write does.                                                      *)
LEMMA WriteStep ==
  ASSUME TxnTypeOK, NEW t \in Client, NEW W, NEW new,
         \A x \in Cell : x \in W => new[x] \in Row,
         Write(t, W, new)
  PROVE  Wrote(t, W, new)
<1> DEFINE written == [x \in Cell |-> IF x \in W THEN new[x] ELSE Unwritten]
           after == [txn[t] EXCEPT !.stage = "written", !.writes = written]
<1>1. txn \in [Client -> Txn] /\ txn[t] \in Txn
  BY DEF TxnTypeOK
<1>2. written \in [Cell -> Row \cup {Unwritten}]
  OBVIOUS
<1>3. txn' = [txn EXCEPT ![t] = after]
  BY <1>1 DEF Write
<1>4. rows' = rows /\ log' = log
  BY DEF Write
<1>5. \A x \in Cell : written[x] = IF x \in W THEN new[x] ELSE Unwritten
  OBVIOUS
<1> HIDE DEF written
<1>6. /\ after \in Txn /\ after.op = txn[t].op /\ after.of = txn[t].of
      /\ after.cells = txn[t].cells /\ after.val = txn[t].val
      /\ after.seen = txn[t].seen /\ after.stage = "written" /\ after.writes = written
      /\ after.disturbed = txn[t].disturbed
  BY <1>1, <1>2 DEF Txn
<1> HIDE DEF after
<1>7. QED
  BY <1>1, <1>3, <1>4, <1>5, <1>6 DEF Wrote

-----------------------------------------------------------------------------
(* What the operations are asked for.                                      *)
PaintAsked(S, val) ==
  \/ \E F \in (SUBSET Feature) \ {{}}, col \in Column, v \in Logged :
        S = F \X {col} /\ val = [x \in Cell |-> v]
  \/ S \in Allocations /\ val \in [Cell -> Value]

ClearAsked(S) == \E F \in (SUBSET Feature) \ {{}} : S = F \X Column

UndoAsked(i, S) ==
  /\ i \in DOMAIN log
  /\ S # {} /\ S \subseteq log[i].cells \ log[i].undone
  /\ (\E x \in Cell : S = {x}) \/ S = log[i].cells \ log[i].undone

AskedFor(op, S, val, i) ==
  /\ op \in Op
  /\ op = "paint" => PaintAsked(S, val)
  /\ op = "clear" => ClearAsked(S)
  /\ op = "undo" => UndoAsked(i, S)

(* A transaction starts: it has read its cells.                            *)
Started(t, op, S, val, i) ==
  /\ txn' \in [Client -> Txn]
  /\ rows' = rows /\ log' = log
  /\ \A u \in Client \ {t} : txn'[u] = txn[u]
  /\ txn[t] = Idle
  /\ txn'[t].op = op /\ txn'[t].cells = S /\ txn'[t].val = val /\ txn'[t].of = i
  /\ txn'[t].stage = "read"
  /\ \A x \in S : txn'[t].seen[x] = rows[x]
  /\ \A x \in Cell : txn'[t].writes[x] = Unwritten
  /\ Len(log) + Cardinality(Running) < MaxBatches

(* What the canvas would show of x if t committed, and what its operation  *)
(* is to leave there.                                                      *)
Applied(t, x) == IF txn[t].writes[x] = Unwritten THEN rows[x] ELSE txn[t].writes[x]

Due(t, x) ==
  IF txn[t].op = "paint" THEN txn[t].val[x]
  ELSE IF txn[t].op = "clear" THEN NoRow
  ELSE Reverted(log[txn[t].of].op, log[txn[t].of].old[x], rows[x])

Written(t) ==
  \A x \in Cell : IF x \in txn[t].cells THEN Applied(t, x) = Due(t, x)
                  ELSE txn[t].writes[x] = Unwritten

(* What t wrote is in its cells.                                           *)
Confined(t) == \A x \in Cell \ txn[t].cells : txn[t].writes[x] = Unwritten

(* A transaction has written what its operation is to leave.               *)
Writes(t) ==
  /\ txn' \in [Client -> Txn]
  /\ rows' = rows /\ log' = log
  /\ \A u \in Client \ {t} : txn'[u] = txn[u]
  /\ txn'[t].op = txn[t].op /\ txn'[t].of = txn[t].of
  /\ txn'[t].cells = txn[t].cells /\ txn'[t].val = txn[t].val
  /\ txn'[t].seen = txn[t].seen /\ txn[t].op # "none"
  /\ txn'[t].disturbed = txn[t].disturbed
  /\ Written(t)'

(* A transaction is over.  The others are as they were but may know that   *)
(* one of their cells was in the commit.                                   *)
Noted(u) ==
  /\ txn'[u].op = txn[u].op /\ txn'[u].of = txn[u].of /\ txn'[u].stage = txn[u].stage
  /\ txn'[u].cells = txn[u].cells /\ txn'[u].val = txn[u].val
  /\ txn'[u].seen = txn[u].seen /\ txn'[u].writes = txn[u].writes
  /\ \/ txn'[u] = txn[u]
     \/ txn'[u].disturbed /\ txn[u].cells # {}

Ends(t) ==
  /\ txn' \in [Client -> Txn]
  /\ \A u \in Client \ {t} : Noted(u)
  /\ txn'[t] = Idle /\ txn[t] # Idle

(* An undo is of a batch that was logged.                                  *)
TInv ==
  /\ TxnTypeOK
  /\ \A t \in Client : txn[t].op = "undo" => txn[t].of \in DOMAIN log

-----------------------------------------------------------------------------
LEMMA PaintAskedType ==
  ASSUME NEW S, NEW val, PaintAsked(S, val)
  PROVE  S \in SUBSET Cell /\ val \in [Cell -> Logged]
BY DEF PaintAsked, Allocations, Logged, Cell

LEMMA StartStep ==
  ASSUME TxnTypeOK, NEW t \in Client, NEW op \in Op, NEW S \in SUBSET Cell,
         NEW val \in [Cell -> Logged], NEW i \in Nat, Begin(t, op, S, val, i)
  PROVE  Started(t, op, S, val, i)
<1> DEFINE seen == [x \in Cell |-> IF x \in S THEN rows[x] ELSE NoRow]
           begun == [Idle EXCEPT !.op = op, !.stage = "read", !.cells = S, !.val = val,
                                 !.of = i, !.seen = seen]
<1>1. txn \in [Client -> Txn] /\ rows \in [Cell -> Row]
  BY DEF TxnTypeOK, TypeOK, Row, Cell
<1>2. seen \in [Cell -> Row] /\ \A x \in S : seen[x] = rows[x]
  BY <1>1 DEF Row
<1>3. txn' = [txn EXCEPT ![t] = begun]
  BY DEF Begin
<1> HIDE DEF seen
<1>4. /\ begun \in Txn /\ begun.op = op /\ begun.stage = "read" /\ begun.cells = S
      /\ begun.val = val /\ begun.of = i /\ begun.seen = seen
      /\ \A x \in Cell : begun.writes[x] = Unwritten
  BY <1>2, IdleType DEF Txn, Idle, NothingWritten
<1> HIDE DEF begun
<1>5. QED
  BY <1>1, <1>2, <1>3, <1>4 DEF Started, Begin

(* Each BEGIN of TxnNext starts an operation that was asked for.           *)
LEMMA Starting ==
  ASSUME TInv, NEW t \in Client,
         \/ \E F \in (SUBSET Feature) \ {{}}, col \in Column, v \in Logged :
               BeginPaint(t, F \X {col}, [x \in Cell |-> v])
         \/ \E S \in Allocations, val \in [Cell -> Value] : BeginPaint(t, S, val)
         \/ \E F \in (SUBSET Feature) \ {{}} : BeginClear(t, F)
         \/ \E i \in DOMAIN log :
              \/ \E x \in Cell : BeginUndo(t, i, {x})
              \/ BeginUndo(t, i, log[i].cells \ log[i].undone)
  PROVE  \E op, S, val, i : Started(t, op, S, val, i) /\ AskedFor(op, S, val, i)
<1> USE DEF TInv
<1>a. Idle.val \in [Cell -> Logged] /\ {"paint", "clear", "undo"} = Op
  BY IdleType DEF Idle, Logged, Op
<1>1. ASSUME NEW S, NEW val, PaintAsked(S, val), BeginPaint(t, S, val)
      PROVE  Started(t, "paint", S, val, 0) /\ AskedFor("paint", S, val, 0)
  BY <1>1, <1>a, PaintAskedType, StartStep DEF BeginPaint, AskedFor
<1>2. ASSUME NEW F \in (SUBSET Feature) \ {{}}, BeginClear(t, F)
      PROVE  /\ Started(t, "clear", F \X Column, Idle.val, 0)
             /\ AskedFor("clear", F \X Column, Idle.val, 0)
  <2>1. F \X Column \in SUBSET Cell /\ ClearAsked(F \X Column)
    BY DEF Cell, ClearAsked
  <2>2. QED
    BY <1>2, <2>1, <1>a, StartStep DEF BeginClear, AskedFor
<1>3. ASSUME NEW i \in DOMAIN log, NEW S, BeginUndo(t, i, S),
             (\E x \in Cell : S = {x}) \/ S = log[i].cells \ log[i].undone
      PROVE  Started(t, "undo", S, Idle.val, i) /\ AskedFor("undo", S, Idle.val, i)
  <2>1. i \in Nat /\ S \in SUBSET Cell /\ UndoAsked(i, S)
    <3>1. log \in Seq(Batch) /\ log[i] \in Batch
      BY DEF TxnTypeOK, TypeOK
    <3>2. i \in Nat /\ log[i].cells \in SUBSET Cell
      BY <3>1 DEF Batch
    <3>3. S # {} /\ S \in SUBSET Cell /\ S \subseteq log[i].cells \ log[i].undone
      BY <1>3, <3>2 DEF BeginUndo
    <3>4. QED
      BY <1>3, <3>2, <3>3 DEF UndoAsked
  <2>2. QED
    BY <1>3, <2>1, <1>a, StartStep DEF BeginUndo, AskedFor
<1>4. CASE \E F \in (SUBSET Feature) \ {{}}, col \in Column, v \in Logged :
             BeginPaint(t, F \X {col}, [x \in Cell |-> v])
  BY <1>1, <1>4 DEF PaintAsked
<1>5. CASE \E S \in Allocations, val \in [Cell -> Value] : BeginPaint(t, S, val)
  BY <1>1, <1>5 DEF PaintAsked
<1>6. CASE \E F \in (SUBSET Feature) \ {{}} : BeginClear(t, F)
  BY <1>2, <1>6
<1>7. CASE \E i \in DOMAIN log : \/ \E x \in Cell : BeginUndo(t, i, {x})
                                 \/ BeginUndo(t, i, log[i].cells \ log[i].undone)
  BY <1>3, <1>7
<1>8. QED
  BY <1>4, <1>5, <1>6, <1>7

(* A transaction that wrote new over its cells, where that is due, and     *)
(* left the rows that already were as due, has written what it is to.      *)
LEMMA WroteDue ==
  ASSUME TxnTypeOK, NEW t \in Client, NEW W, NEW new, Wrote(t, W, new), txn[t].op # "none",
         \A x \in Cell : x \in W => new[x] \in Row,
         W \subseteq txn[t].cells,
         \A x \in txn[t].cells : IF x \in W THEN new[x] = Due(t, x) ELSE rows[x] = Due(t, x)
  PROVE  Writes(t)
<1>1. txn'[t].cells \in SUBSET Cell
  BY DEF Wrote, TxnTypeOK, Txn
<1>2. \A x \in Cell : Due(t, x)' = Due(t, x)
  BY DEF Wrote, Due
<1>3. \A x \in Cell : Applied(t, x)' = IF x \in W THEN new[x] ELSE rows[x]
  BY DEF Wrote, Applied
<1>4. Written(t)'
  BY <1>1, <1>2, <1>3 DEF Wrote, Written
<1>5. QED
  BY <1>4 DEF Wrote, Writes

(* Each of the three kinds of statement writes what is due.                *)
LEMMA Writing ==
  ASSUME TInv, NEW t \in Client, PaintUpsert(t) \/ ClearDelete(t) \/ UndoWrite(t)
  PROVE  Writes(t)
<1> USE DEF TInv
<1>1. /\ txn[t] \in Txn /\ rows \in [Cell -> Row] /\ txn[t].cells \subseteq Cell
      /\ txn[t].val \in [Cell -> Logged]
  BY DEF TxnTypeOK, TypeOK, Txn, Row, Cell
<1>2. CASE PaintUpsert(t)
  <2>1. \A x \in Cell : txn[t].val[x] \in Row
    BY <1>1 DEF Row
  <2>2. Wrote(t, txn[t].cells, txn[t].val)
    BY <1>2, <2>1, WriteStep DEF PaintUpsert
  <2>3. QED
    BY <1>1, <1>2, <2>1, <2>2, WroteDue DEF PaintUpsert, At, Due
<1>3. CASE ClearDelete(t)
  <2> DEFINE W == {x \in txn[t].cells : rows[x] # NoRow}
             new == [x \in Cell |-> NoRow]
  <2>1. \A x \in Cell : new[x] = NoRow /\ new[x] \in Row
    BY DEF Row
  <2>2. W \subseteq txn[t].cells /\ \A x \in txn[t].cells : x \notin W => rows[x] = NoRow
    OBVIOUS
  <2>3. Write(t, W, new) /\ txn[t].op = "clear"
    BY <1>3 DEF ClearDelete, At
  <2> HIDE DEF W, new
  <2>4. Wrote(t, W, new)
    BY <2>1, <2>3, WriteStep
  <2>5. \A x \in txn[t].cells : Due(t, x) = NoRow
    BY <2>3 DEF Due
  <2>6. QED
    BY <1>1, <2>1, <2>2, <2>3, <2>4, <2>5, WroteDue
<1>4. CASE UndoWrite(t)
  <2> DEFINE i == txn[t].of
             new == [x \in Cell |-> Reverted(log[i].op, log[i].old[x], rows[x])]
             W == {x \in txn[t].cells : /\ log[i].op # "undo"
                                        /\ new[x] = NoRow => rows[x] # NoRow}
  <2>1. Write(t, W, new) /\ txn[t].op = "undo"
    BY <1>4 DEF UndoWrite, At
  <2>2. i \in DOMAIN log /\ log[i] \in Batch
    BY <2>1 DEF TxnTypeOK, TypeOK
  <2>3. \A x \in Cell : new[x] \in Row /\ new[x] = Due(t, x)
    <3>1. log[i].op \in Op /\ \A x \in Cell : log[i].old[x] \in Logged
      BY <2>2 DEF Batch, Cell
    <3>2. \A x \in Cell : Reverted(log[i].op, log[i].old[x], rows[x]) \in Row
      BY <1>1, <3>1, RevertedType
    <3>3. QED
      BY <2>1, <3>2 DEF Due
  <2>4. W \subseteq txn[t].cells
    OBVIOUS
  <2>5. \A x \in txn[t].cells : x \notin W => rows[x] = new[x]
    <3>1. \A x \in Cell : log[i].op = "undo" => new[x] = rows[x]
      BY DEF Reverted
    <3>2. QED
      BY <1>1, <3>1
  <2> HIDE DEF new, W
  <2>6. Wrote(t, W, new)
    BY <2>1, <2>3, WriteStep
  <2>7. QED
    BY <1>1, <2>1, <2>3, <2>4, <2>5, <2>6, WroteDue
<1>5. QED
  BY <1>2, <1>3, <1>4

(* A COMMIT, as far as the transactions and the rows go.                   *)
LEMMA CommitStep ==
  ASSUME TxnTypeOK, NEW t \in Client, txn[t].op # "none", CommitRows(t)
  PROVE  /\ Ends(t) /\ rows' = [x \in Cell |-> Applied(t, x)] /\ rows' \in [Cell -> Row]
         /\ \A u \in Client \ {t} :
              txn[u].cells \cap txn[t].cells = {} \/ txn'[u].disturbed
<1>1. /\ txn \in [Client -> Txn] /\ rows \in [Cell -> Row]
      /\ txn[t].writes \in [Cell -> Row \cup {Unwritten}]
  BY DEF TxnTypeOK, TypeOK, Txn, Row, Cell
<1> DEFINE told(u) == [txn[u] EXCEPT !.disturbed = TRUE]
<1>2. /\ txn' = [u \in Client |->
                   IF u = t THEN Idle
                   ELSE IF txn[u].cells \cap txn[t].cells = {} THEN txn[u] ELSE told(u)]
      /\ Idle.op = "none"
  BY DEF CommitRows, Idle
<1>a. \A u \in Client :
        /\ told(u) \in Txn /\ told(u).disturbed /\ told(u).op = txn[u].op
        /\ told(u).of = txn[u].of /\ told(u).stage = txn[u].stage
        /\ told(u).cells = txn[u].cells /\ told(u).val = txn[u].val
        /\ told(u).seen = txn[u].seen /\ told(u).writes = txn[u].writes
  BY <1>1 DEF Txn
<1> HIDE DEF told
<1>b. \A u \in Client \ {t} :
        txn'[u] = IF txn[u].cells \cap txn[t].cells = {} THEN txn[u] ELSE told(u)
  BY <1>2
<1>c. \A u \in Client \ {t} :
        /\ Noted(u)
        /\ txn[u].cells \cap txn[t].cells = {} \/ txn'[u].disturbed
  BY <1>a, <1>b DEF Noted
<1>3. Ends(t)
  <2>1. \A u \in Client : txn[u] \in Txn /\ told(u) \in Txn
    BY <1>1, <1>a
  <2>2. txn' \in [Client -> Txn] /\ txn'[t] = Idle
    BY <1>2, <2>1, IdleType
  <2>3. QED
    BY <1>2, <2>2, <1>c DEF Ends
<1>4. rows' = [x \in Cell |-> Applied(t, x)] /\ \A x \in Cell : Applied(t, x) \in Row
  BY <1>1 DEF CommitRows, Applied
<1>5. QED
  BY <1>c, <1>3, <1>4

LEMMA AbortStep ==
  ASSUME TxnTypeOK, NEW t \in Client, Abort(t)
  PROVE  Ends(t)
<1>1. /\ txn' \in [Client -> Txn] /\ txn'[t] = Idle /\ txn[t] # Idle
      /\ \A u \in Client \ {t} : txn'[u] = txn[u]
  BY IdleType DEF TxnTypeOK, Abort
<1>2. QED
  BY <1>1 DEF Ends, Noted

Commit(t) == CommitPaint(t) \/ CommitClear(t) \/ CommitUndo(t)

(* What a COMMIT logs.                                                     *)
LEMMA CommitLogs ==
  ASSUME TInv, NEW t \in Client, Commit(t)
  PROVE  /\ txn[t].op # "none" /\ txn[t].stage = "written" /\ CommitRows(t)
         /\ \/ log' = log /\ txn[t].op # "undo"
            \/ Logs(0, {}) /\ txn[t].op # "undo"
            \/ Logs(txn[t].of, txn[t].cells) /\ txn[t].op = "undo"
<1> USE DEF TInv
<1>1. /\ txn[t].cells \in SUBSET Cell /\ txn[t].val \in [Cell -> Logged]
      /\ txn[t].seen \in [Cell -> Row]
  BY DEF TxnTypeOK, Txn
<1>2. Shown(txn[t].seen) \in [Cell -> Logged]
  BY <1>1, ShownType
<1>3. CASE CommitPaint(t)
  <2>1. BatchOf("paint", txn[t].cells, Shown(txn[t].seen), txn[t].val, 0) \in Batch
    BY <1>1, <1>2, BatchOfType DEF Op
  <2>2. QED
    BY <1>3, <2>1, AppendLogs DEF CommitPaint, At
<1>4. CASE CommitClear(t)
  <2> DEFINE read == {x \in txn[t].cells : txn[t].seen[x] # NoRow}
             b == BatchOf("clear", read, Shown(txn[t].seen), [x \in Cell |-> Null], 0)
  <2>1. read \in SUBSET Cell /\ [x \in Cell |-> Null] \in [Cell -> Logged]
    BY <1>1 DEF Logged
  <2>2. b \in Batch
    BY <1>2, <2>1, BatchOfType DEF Op
  <2>3. log' = log \/ log' = Append(log, b)
    BY <1>4 DEF CommitClear
  <2> HIDE DEF b
  <2>4. QED
    BY <1>4, <2>2, <2>3, AppendLogs DEF CommitClear, At
<1>5. CASE CommitUndo(t)
  <2> DEFINE i == txn[t].of
             S == txn[t].cells
             b == BatchOf("undo", S, log[i].new, log[i].old, i)
  <2>1. i \in DOMAIN log /\ i \in Nat /\ log[i] \in Batch
    BY <1>5 DEF CommitUndo, At, TxnTypeOK, TypeOK
  <2>2. log[i].new \in [Cell -> Logged] /\ log[i].old \in [Cell -> Logged]
    BY <2>1 DEF Batch, Cell
  <2>3. b \in Batch
    BY <1>1, <2>1, <2>2, BatchOfType DEF Op
  <2>4. log' = Append([log EXCEPT ![i].undone = @ \cup S], b)
    BY <1>5 DEF CommitUndo
  <2> HIDE DEF b, i, S
  <2>5. Logs(i, S)
    BY <1>1, <2>1, <2>3, <2>4, MarkLogs DEF S
  <2>6. QED
    BY <1>5, <2>5 DEF CommitUndo, At, i, S
<1>6. QED
  BY <1>3, <1>4, <1>5 DEF Commit

(* The steps there are.                                                    *)
LEMMA StepCases ==
  ASSUME TInv, [TxnNext]_txnVars
  PROVE  \/ UNCHANGED txnVars
         \/ \E t \in Client :
              \/ \E op, S, val, i : Started(t, op, S, val, i) /\ AskedFor(op, S, val, i)
              \/ Writes(t)
              \/ Commit(t)
              \/ Abort(t)
<1>1. CASE UNCHANGED txnVars
  BY <1>1
<1>2. CASE TxnNext
  <2>1. PICK t \in Client :
          \/ \/ \E F \in (SUBSET Feature) \ {{}}, col \in Column, v \in Logged :
                   BeginPaint(t, F \X {col}, [x \in Cell |-> v])
             \/ \E S \in Allocations, val \in [Cell -> Value] : BeginPaint(t, S, val)
             \/ \E F \in (SUBSET Feature) \ {{}} : BeginClear(t, F)
             \/ \E i \in DOMAIN log :
                  \/ \E x \in Cell : BeginUndo(t, i, {x})
                  \/ BeginUndo(t, i, log[i].cells \ log[i].undone)
          \/ PaintUpsert(t) \/ ClearDelete(t) \/ UndoWrite(t)
          \/ Commit(t)
          \/ Abort(t)
    BY <1>2 DEF TxnNext, Commit
  <2>2. QED
    BY <2>1, Starting, Writing
<1>3. QED
  BY <1>1, <1>2

(* The types are kept, by every step.                                      *)
LEMMA TypeStep ==
  ASSUME TInv, [TxnNext]_txnVars
  PROVE  TInv'
<1>1. CASE UNCHANGED txnVars
  BY <1>1 DEF txnVars, TInv, TxnTypeOK, TypeOK
<1>2. ASSUME NEW t \in Client, NEW op, NEW S, NEW val, NEW i,
             Started(t, op, S, val, i), AskedFor(op, S, val, i)
      PROVE  TInv'
  BY <1>2 DEF TInv, TxnTypeOK, TypeOK, Started, AskedFor, UndoAsked
<1>3. ASSUME NEW t \in Client, Writes(t)
      PROVE  TInv'
  BY <1>3 DEF TInv, TxnTypeOK, TypeOK, Writes
<1>4. ASSUME NEW t \in Client, Commit(t)
      PROVE  TInv'
  <2>1. Ends(t) /\ rows' \in [Cell -> Row]
    BY <1>4, CommitLogs, CommitStep DEF TInv
  <2>2. log' \in Seq(Batch) /\ DOMAIN log \subseteq DOMAIN log'
    BY <1>4, CommitLogs DEF TInv, TxnTypeOK, TypeOK, Logs
  <2>3. TxnTypeOK'
    BY <2>1, <2>2 DEF TxnTypeOK, TypeOK, Row, Ends, Cell
  <2>4. QED
    BY <2>1, <2>2, <2>3 DEF TInv, Ends, Noted, Idle
<1>5. ASSUME NEW t \in Client, Abort(t)
      PROVE  TInv'
  BY <1>5, AbortStep DEF TInv, TxnTypeOK, TypeOK, Abort, Ends, Noted, Idle
<1>6. QED
  BY <1>1, <1>2, <1>3, <1>4, <1>5, StepCases

LEMMA TypeInvariant == TxnSpec => []TInv
<1>1. TxnInit => TInv
  <2>1. ASSUME TxnInit PROVE TxnTypeOK /\ \A t \in Client : txn[t].op = "none"
    BY <2>1, IdleType DEF TxnInit, Init, TxnTypeOK, TypeOK, Idle
  <2>2. QED
    BY <2>1 DEF TInv
<1>2. TInv /\ [TxnNext]_txnVars => TInv'
  BY TypeStep
<1>3. QED
  BY <1>1, <1>2, PTL DEF TxnSpec

-----------------------------------------------------------------------------
(* Tables and transactions keep their types, on common cells too.          *)
THEOREM TxnTypeCorrect == TxnSpec => []TxnTypeOK
<1>1. TInv => TxnTypeOK
  BY DEF TInv
<1>2. QED
  BY TypeInvariant, <1>1, PTL

-----------------------------------------------------------------------------
(* A running transaction writes in its own cells only.  One whose cells    *)
(* were in no other commit was asked for what it does and, for an undo,    *)
(* still can do it; what it read of its cells is still there; what it      *)
(* wrote is what is due.                                                   *)
Kept(t) ==
  /\ txn[t].op # "none" => AskedFor(txn[t].op, txn[t].cells, txn[t].val, txn[t].of)
  /\ \A x \in txn[t].cells : txn[t].seen[x] = rows[x]
  /\ txn[t].stage = "written" => Written(t)

Promised(t) ==
  /\ txn[t].op = "none" => txn[t] = Idle
  /\ Confined(t)
  /\ ~txn[t].disturbed => Kept(t)

(* The batches that the running transactions may still log have room.      *)
Room == Len(log) + Cardinality(Running) <= MaxBatches

SInv ==
  /\ TInv
  /\ \A t \in Client : Promised(t)
  /\ Room

-----------------------------------------------------------------------------
LEMMA RunningFinite == IsFiniteSet(Running) /\ Cardinality(Running) \in Nat
BY BoundsAssumption, FS_Subset, FS_CardinalityType DEF Running

LEMMA LogLength ==
  ASSUME TxnTypeOK
  PROVE  Len(log) \in Nat
BY DEF TxnTypeOK, TypeOK

(* A transaction that ends leaves room for the batch it may have logged.   *)
LEMMA RoomAfterEnd ==
  ASSUME SInv, NEW t \in Client, Ends(t), Len(log') \in Nat, Len(log') <= Len(log) + 1
  PROVE  Room'
<1>1. t \in Running
  BY DEF SInv, Promised, Ends, Running
<1>2. Running' = Running \ {t}
  BY DEF Ends, Noted, Running, Idle
<1>3. Cardinality(Running \ {t}) = Cardinality(Running) - 1
  BY <1>1, RunningFinite, FS_RemoveElement
<1>4. QED
  BY <1>2, <1>3, RunningFinite, LogLength, BoundsAssumption DEF SInv, TInv, Room

LEMMA RoomAfterStart ==
  ASSUME SInv, NEW t \in Client, NEW op \in Op, NEW S, NEW val, NEW i,
         Started(t, op, S, val, i)
  PROVE  Room'
<1>1. t \notin Running /\ Running' = Running \cup {t}
  BY DEF Started, Running, Idle, Op
<1>2. Cardinality(Running \cup {t}) = Cardinality(Running) + 1
  BY <1>1, RunningFinite, FS_AddElement
<1>3. QED
  BY <1>1, <1>2, RunningFinite, LogLength, BoundsAssumption DEF SInv, TInv, Room, Started

(* What an operation was asked for stands while rows and log do not change.*)
LEMMA AskedStands ==
  ASSUME log' = log, NEW op, NEW S, NEW val, NEW i, AskedFor(op, S, val, i)
  PROVE  AskedFor(op, S, val, i)'
BY DEF AskedFor, UndoAsked, PaintAsked, ClearAsked

(* A transaction that a step leaves alone keeps what it promised, if the   *)
(* step changes no row and logs nothing.                                   *)
LEMMA LeftAlone ==
  ASSUME SInv, NEW u \in Client, txn'[u] = txn[u], rows' = rows, log' = log
  PROVE  Promised(u)'
<1>1. Promised(u)
  BY DEF SInv
<1>2. Written(u) => Written(u)'
  BY DEF Written, Applied, Due
<1>3. QED
  BY <1>1, <1>2, AskedStands DEF Promised, Kept, Confined

-----------------------------------------------------------------------------
LEMMA StartKeeps ==
  ASSUME SInv, NEW t \in Client, NEW op, NEW S, NEW val, NEW i,
         Started(t, op, S, val, i), AskedFor(op, S, val, i), TInv'
  PROVE  SInv'
<1>1. op \in Op /\ op # "none"
  BY DEF AskedFor, Op
<1>2. Room'
  BY <1>1, RoomAfterStart
<1>3. Promised(t)'
  <2>1. AskedFor(op, S, val, i)'
    BY AskedStands DEF Started
  <2>2. Confined(t)'
    BY DEF Started, Confined
  <2>3. QED
    BY <1>1, <2>1, <2>2 DEF Promised, Kept, Started
<1>4. \A u \in Client : Promised(u)'
  BY <1>3, LeftAlone DEF Started
<1>5. QED
  BY <1>2, <1>4 DEF SInv

LEMMA WritesKeep ==
  ASSUME SInv, NEW t \in Client, Writes(t), TInv'
  PROVE  SInv'
<1>1. Room'
  <2>1. Running' = Running
    BY DEF Writes, Running
  <2>2. QED
    BY <2>1 DEF SInv, Room, Writes
<1>2. Promised(t)'
  <2>1. Promised(t) /\ txn[t].op # "none"
    BY DEF SInv, Writes
  <2>2. ~txn[t].disturbed => AskedFor(txn[t].op, txn[t].cells, txn[t].val, txn[t].of)'
    BY <2>1, AskedStands DEF Promised, Kept, Writes
  <2>3. Confined(t)'
    BY DEF Writes, Written, Confined
  <2>4. QED
    BY <2>1, <2>2, <2>3 DEF Promised, Kept, Writes
<1>3. \A u \in Client : Promised(u)'
  BY <1>2, LeftAlone DEF Writes
<1>4. QED
  BY <1>1, <1>3 DEF SInv

LEMMA IdlePromises ==
  ASSUME NEW t \in Client, Ends(t)
  PROVE  Promised(t)'
BY DEF Ends, Promised, Kept, Confined, Idle, NothingWritten

LEMMA AbortKeeps ==
  ASSUME SInv, NEW t \in Client, Abort(t), TInv'
  PROVE  SInv'
<1>1. /\ Ends(t) /\ rows' = rows /\ log' = log
      /\ \A u \in Client \ {t} : txn'[u] = txn[u]
  BY AbortStep DEF SInv, TInv, TxnTypeOK, Abort
<1>2. Room'
  BY <1>1, RoomAfterEnd, LogLength DEF SInv, TInv
<1>3. \A u \in Client : Promised(u)'
  BY <1>1, IdlePromises, LeftAlone
<1>4. QED
  BY <1>1, <1>2, <1>3 DEF SInv

-----------------------------------------------------------------------------
(* A COMMIT leaves the rest of the canvas as it was and, undisturbed, what *)
(* is due in the transaction's cells.                                      *)
LEMMA CommitApplies ==
  ASSUME SInv, NEW t \in Client, Commit(t)
  PROVE  /\ Ends(t) /\ rows' \in [Cell -> Row] /\ txn[t].cells \in SUBSET Cell
         /\ \A x \in Cell \ txn[t].cells : rows'[x] = rows[x]
         /\ ~txn[t].disturbed =>
              rows' = [x \in Cell |-> IF x \in txn[t].cells THEN Due(t, x) ELSE rows[x]]
<1>1. /\ txn[t].op # "none" /\ txn[t].stage = "written" /\ CommitRows(t)
      /\ txn[t].cells \in SUBSET Cell
  BY CommitLogs DEF SInv, TInv, TxnTypeOK, Txn
<1>2. Ends(t) /\ rows' = [x \in Cell |-> Applied(t, x)] /\ rows' \in [Cell -> Row]
  BY <1>1, CommitStep DEF SInv, TInv
<1>3. \A x \in Cell \ txn[t].cells : Applied(t, x) = rows[x]
  BY DEF SInv, Promised, Confined, Applied
<1>4. \A x \in Cell : x \in txn[t].cells /\ ~txn[t].disturbed => Applied(t, x) = Due(t, x)
  BY <1>1 DEF SInv, Promised, Kept, Written
<1>5. \A x \in Cell : ~txn[t].disturbed =>
        Applied(t, x) = IF x \in txn[t].cells THEN Due(t, x) ELSE rows[x]
  BY <1>3, <1>4
<1>6. QED
  BY <1>1, <1>2, <1>3, <1>5

(* An undo of other events of the same batch leaves these to be undone,    *)
(* and all of the rest if they were all of it.                             *)
LEMMA UndoStands ==
  ASSUME SInv, NEW t \in Client, NEW u \in Client \ {t}, Commit(t),
         NEW i, NEW S, UndoAsked(i, S), S \cap txn[t].cells = {}
  PROVE  UndoAsked(i, S)'
<1>1. \/ log' = log
      \/ Logs(0, {})
      \/ Logs(txn[t].of, txn[t].cells) /\ txn[t].op = "undo"
  BY CommitLogs DEF SInv
<1>2. CASE log' = log
  BY <1>2 DEF UndoAsked
<1>3. CASE Logs(0, {})
  <2>1. i \in DOMAIN log /\ i # 0
    BY DEF UndoAsked, SInv, TInv, TxnTypeOK, TypeOK
  <2>2. QED
    BY <1>3, <2>1 DEF Logs, UndoAsked
<1>4. CASE Logs(txn[t].of, txn[t].cells) /\ txn[t].op = "undo"
  <2>1. CASE i # txn[t].of
    BY <1>4, <2>1 DEF Logs, UndoAsked
  <2>2. CASE i = txn[t].of
    <3>1. /\ i \in DOMAIN log' /\ log'[i].cells = log[i].cells
          /\ log'[i].undone = log[i].undone \cup txn[t].cells
      BY <1>4, <2>2 DEF Logs, UndoAsked
    <3>2. QED
      BY <3>1 DEF UndoAsked
  <2>3. QED
    BY <2>1, <2>2
<1>5. QED
  BY <1>1, <1>2, <1>3, <1>4

(* A transaction without a cell in a COMMIT keeps what it promised.        *)
LEMMA CommitKeepsOthers ==
  ASSUME SInv, NEW t \in Client, NEW u \in Client \ {t}, Commit(t),
         ~txn'[u].disturbed
  PROVE  Kept(u)'
<1>1. /\ Kept(u) /\ txn'[u] = txn[u] /\ txn[u].cells \cap txn[t].cells = {}
      /\ txn[u].cells \in SUBSET Cell
  <2>1. txn'[u] = txn[u]
    BY CommitApplies DEF Ends, Noted
  <2>2. txn[u].cells \cap txn[t].cells = {}
    BY CommitLogs, CommitStep DEF SInv, TInv
  <2>3. QED
    BY <2>1, <2>2 DEF SInv, Promised, TInv, TxnTypeOK, Txn
<1>2. \A x \in txn[u].cells : rows'[x] = rows[x]
  BY <1>1, CommitApplies
<1>3. \A x \in txn[u].cells : txn[u].op \in Op => Due(u, x)' = Due(u, x)
  <2>1. txn[u].op = "undo" => /\ txn[u].of \in DOMAIN log
                              /\ log'[txn[u].of].op = log[txn[u].of].op
                              /\ log'[txn[u].of].old = log[txn[u].of].old
    BY CommitLogs DEF SInv, TInv, Logs
  <2>2. QED
    BY <1>1, <1>2, <2>1 DEF Due, Op
<1>4. txn[u].op # "none" => AskedFor(txn[u].op, txn[u].cells, txn[u].val, txn[u].of)'
  <2>1. ASSUME NEW op, NEW S, NEW val, NEW i, AskedFor(op, S, val, i),
               S \cap txn[t].cells = {}
        PROVE  AskedFor(op, S, val, i)'
    <3>1. UndoAsked(i, S) => UndoAsked(i, S)'
      BY <2>1, UndoStands
    <3>2. QED
      BY <2>1, <3>1 DEF AskedFor, PaintAsked, ClearAsked
  <2>2. QED
    BY <1>1, <2>1 DEF Kept
<1>5. txn[u].stage = "written" => Written(u)'
  <2>1. ASSUME txn[u].stage = "written" PROVE txn[u].op \in Op /\ Written(u)
    BY <1>1, <2>1 DEF SInv, Promised, Kept, AskedFor, Idle
  <2>2. QED
    BY <1>1, <1>2, <1>3, <2>1 DEF Written, Applied
<1>6. QED
  BY <1>1, <1>2, <1>4, <1>5 DEF Kept

LEMMA CommitKeeps ==
  ASSUME SInv, NEW t \in Client, Commit(t), TInv'
  PROVE  SInv'
<1>1. Ends(t)
  BY CommitApplies
<1>2. Len(log') \in Nat /\ Len(log') <= Len(log) + 1
  BY CommitLogs, LogLength DEF SInv, TInv, Logs
<1>3. Room'
  BY <1>1, <1>2, RoomAfterEnd
<1>4. \A u \in Client \ {t} : Promised(u)'
  <2> SUFFICES ASSUME NEW u \in Client \ {t} PROVE Promised(u)'
    OBVIOUS
  <2>1. Promised(u) /\ Noted(u)
    BY <1>1 DEF SInv, Ends
  <2>2. txn[u].op = "none" => txn'[u] = Idle
    BY <2>1 DEF Promised, Noted, Idle
  <2>3. QED
    BY <2>1, <2>2, CommitKeepsOthers DEF Promised, Confined, Noted
<1>5. \A u \in Client : Promised(u)'
  BY <1>1, <1>4, IdlePromises
<1>6. QED
  BY <1>3, <1>5 DEF SInv

LEMMA KeptStep ==
  ASSUME SInv, [TxnNext]_txnVars
  PROVE  SInv'
<1>1. TInv'
  BY TypeStep DEF SInv
<1>2. CASE UNCHANGED txnVars
  <2>1. rows' = rows /\ log' = log /\ txn' = txn
    BY <1>2 DEF txnVars
  <2>2. Running' = Running
    BY <2>1 DEF Running
  <2>3. \A u \in Client : Promised(u)'
    BY <2>1, LeftAlone
  <2>4. QED
    BY <1>1, <2>1, <2>2, <2>3 DEF SInv, Room
<1>3. QED
  BY <1>1, <1>2, StepCases, StartKeeps, WritesKeep, CommitKeeps, AbortKeeps DEF SInv

-----------------------------------------------------------------------------
LEMMA RoomForOne ==
  ASSUME SInv, NEW t \in Client, txn[t].op # "none"
  PROVE  Len(log) < MaxBatches
<1>1. t \in Running
  BY DEF Running
<1>2. Cardinality(Running) # 0
  BY <1>1, RunningFinite, FS_EmptySet
<1>3. QED
  BY <1>2, RunningFinite, LogLength, BoundsAssumption DEF SInv, TInv, Room

(* The old values a transaction logs are what its cells show when it       *)
(* commits.                                                                *)
LEMMA OldValues ==
  ASSUME SInv, NEW t \in Client, ~txn[t].disturbed, NEW op, NEW S, NEW new, S \subseteq txn[t].cells
  PROVE  BatchOf(op, S, Shown(txn[t].seen), new, 0) =
           BatchOf(op, S, VisibleRows, new, 0)
<1>1. \A x \in S : x \in Cell => Shown(txn[t].seen)[x] = VisibleRows[x]
  BY DEF SInv, Promised, Kept, Shown, VisibleRows, Cell
<1>2. Restricted(Shown(txn[t].seen), S) = Restricted(VisibleRows, S)
  BY <1>1 DEF Restricted, Cell
<1>3. QED
  BY <1>2 DEF BatchOf

(* An undisturbed COMMIT is a step of PaintHistory, or of nothing.         *)
LEMMA CommitRefines ==
  ASSUME SInv, NEW t \in Client, ~txn[t].disturbed, Commit(t)
  PROVE  Next \/ UNCHANGED <<rows, log>>
<1> DEFINE S == txn[t].cells
           val == txn[t].val
           i == txn[t].of
<1>1. /\ S \in SUBSET Cell
      /\ rows' = [x \in Cell |-> IF x \in S THEN Due(t, x) ELSE rows[x]]
  BY CommitApplies
<1>2. Len(log) < MaxBatches /\ AskedFor(txn[t].op, S, val, i)
  BY RoomForOne, CommitLogs DEF SInv, Promised, Kept
<1>3. rows \in [Cell -> Row]
  BY DEF SInv, TInv, TxnTypeOK, TypeOK, Row, Cell
<1>4. CASE CommitPaint(t)
  <2>1. txn[t].op = "paint" /\ PaintAsked(S, val)
    BY <1>2, <1>4 DEF CommitPaint, At, AskedFor
  <2>2. log' = Append(log, BatchOf("paint", S, VisibleRows, val, 0))
    BY <1>4, OldValues DEF CommitPaint
  <2>3. \A x \in Cell : Due(t, x) = val[x]
    BY <2>1 DEF Due
  <2>4. Paint(S, val)
    BY <1>1, <1>2, <2>2, <2>3 DEF Paint, Cell
  <2> HIDE DEF S, val
  <2>5. CASE \E F \in (SUBSET Feature) \ {{}}, col \in Column, v \in Logged :
               S = F \X {col} /\ val = [x \in Cell |-> v]
    <3>1. PICK F \in (SUBSET Feature) \ {{}}, col \in Column, v \in Logged :
            S = F \X {col} /\ val = [x \in Cell |-> v]
      BY <2>5
    <3>2. DirectPaint(F, col, v)
      BY <2>4, <3>1 DEF DirectPaint, Cell
    <3>3. QED
      BY <3>2 DEF Next
  <2>6. CASE S \in Allocations /\ val \in [Cell -> Value]
    <3>1. BuiltFormPaint(S, val)
      BY <2>4 DEF BuiltFormPaint
    <3>2. QED
      BY <2>6, <3>1 DEF Next, Cell
  <2>7. QED
    BY <2>1, <2>5, <2>6 DEF PaintAsked
<1>5. CASE CommitClear(t)
  <2> DEFINE read == {x \in S : txn[t].seen[x] # NoRow}
             null == [x \in Cell |-> Null]
  <2>1. txn[t].op = "clear" /\ ClearAsked(S)
    BY <1>2, <1>5 DEF CommitClear, At, AskedFor
  <2>2. read = {x \in S : rows[x] # NoRow}
    BY DEF SInv, Promised, Kept
  <2>3. rows' = [x \in Cell |-> IF x \in read THEN NoRow ELSE rows[x]]
    BY <1>1, <2>1, <2>2 DEF Due
  <2>4. IF read = {} THEN log' = log
        ELSE log' = Append(log, BatchOf("clear", read, Shown(txn[t].seen), null, 0))
    BY <1>5 DEF CommitClear
  <2>5. BatchOf("clear", read, Shown(txn[t].seen), null, 0) =
          BatchOf("clear", read, VisibleRows, null, 0)
    BY OldValues
  <2>6. CASE read = {}
    BY <1>3, <2>3, <2>4, <2>6
  <2>7. CASE read # {}
    <3>1. PICK F \in (SUBSET Feature) \ {{}} : S = F \X Column
      BY <2>1 DEF ClearAsked
    <3>2. log' = Append(log, BatchOf("clear", read, VisibleRows, null, 0))
      BY <2>4, <2>5, <2>7
    <3>3. read = {c \in F \X Column : rows[c] # NoRow}
      BY <2>2, <3>1
    <3> HIDE DEF read
    <3>4. Clear(F)
      BY <1>2, <2>3, <2>7, <3>2, <3>3 DEF Clear, Cell
    <3>5. QED
      BY <3>4 DEF Next
  <2>8. QED
    BY <2>6, <2>7
<1>6. CASE CommitUndo(t)
  <2>1. txn[t].op = "undo" /\ UndoAsked(i, S)
    BY <1>2, <1>6 DEF CommitUndo, At, AskedFor
  <2>2. log' = Append([log EXCEPT ![i].undone = @ \cup S],
                      BatchOf("undo", S, log[i].new, log[i].old, i))
    BY <1>6 DEF CommitUndo
  <2>3. \A x \in Cell : Due(t, x) = Reverted(log[i].op, log[i].old[x], rows[x])
    BY <2>1 DEF Due
  <2> HIDE DEF S, i
  <2>4. Undo(i, S)
    BY <1>1, <1>2, <2>1, <2>2, <2>3 DEF Undo, UndoAsked, Cell
  <2>5. QED
    BY <2>1, <2>4 DEF UndoAsked, Next, UndoEvent, UndoBatch, Cell
<1>7. QED
  BY <1>4, <1>5, <1>6 DEF Commit

(* What a step is of the tables.                                           *)
Effect ==
  \/ Next
  \/ \E t \in Client :
       /\ txn[t].disturbed /\ txn'[t] = Idle
       /\ \A x \in Cell \ txn[t].cells : rows'[x] = rows[x]

LEMMA StepRefines ==
  ASSUME SInv, [TxnNext]_txnVars
  PROVE  [Effect]_<<rows, log>>
<1>1. CASE UNCHANGED txnVars
  BY <1>1 DEF txnVars
<1>2. ASSUME NEW t \in Client, Commit(t)
      PROVE  Effect \/ UNCHANGED <<rows, log>>
  <2>1. CASE txn[t].disturbed
    BY <1>2, <2>1, CommitApplies DEF Ends, Effect
  <2>2. CASE ~txn[t].disturbed
    BY <1>2, <2>2, CommitRefines DEF Effect
  <2>3. QED
    BY <2>1, <2>2
<1>3. QED
  BY <1>1, <1>2, StepCases DEF SInv, Started, Writes, Abort

-----------------------------------------------------------------------------
(* Any transactions, on common cells too: each takes effect at its commit  *)
(* as one operation of PaintHistory, or not at all, unless another commit  *)
(* had one of its cells since it began; and then it still leaves all other *)
(* cells alone.                                                            *)
THEOREM Implements == TxnSpec => Init /\ Atomic
<1>1. TxnInit => SInv
  <2> SUFFICES ASSUME TxnInit PROVE SInv
    OBVIOUS
  <2>1. /\ TInv /\ log = <<>> /\ Running = {}
        /\ \A t \in Client : txn[t] = Idle
    BY IdleType DEF TxnInit, Init, TInv, TxnTypeOK, TypeOK, Idle, Running
  <2>2. Cardinality(Running) = 0 /\ Len(log) = 0
    BY <2>1, FS_EmptySet
  <2>3. Room
    BY <2>2, BoundsAssumption DEF Room
  <2>4. \A t \in Client : Promised(t)
    <3>1. \A t \in Client : /\ txn[t].op = "none" /\ txn[t].cells = {}
                            /\ txn[t].stage # "written"
                            /\ \A x \in Cell : txn[t].writes[x] = Unwritten
      BY <2>1 DEF Idle, NothingWritten
    <3>2. QED
      BY <2>1, <3>1 DEF Promised, Kept, Confined
  <2>5. QED
    BY <2>1, <2>3, <2>4 DEF SInv
<1>2. SInv /\ [TxnNext]_txnVars => SInv'
  BY KeptStep
<1>3. SInv /\ [TxnNext]_txnVars => [Effect]_<<rows, log>>
  BY StepRefines
<1>4. TxnInit => Init
  BY DEF TxnInit
<1>5. QED
  BY <1>1, <1>2, <1>3, <1>4, PTL DEF TxnSpec, Atomic, Effect, vars
=============================================================================
