---------------------------- MODULE GeometryEdits ----------------------------
(***************************************************************************)
(* Grid (split) and merge: edits of the parcels themselves, laid over the  *)
(* base canvas as ParcelGeometryEdit rows, together with the paint on the  *)
(* parcels and the event log that undoes both.                             *)
(*                                                                         *)
(*   edits   ParcelGeometryEdit: one row per result parcel                 *)
(*   paint   PaintedCanvas, of one column                                  *)
(*   log     PaintEvent, one entry per batch_id, oldest first              *)
(*   cells   the sequence that numbers grid cells                          *)
(*   plan    what each worker's grid or merge has read and not yet written *)
(*                                                                         *)
(* The canvas view decides which base parcels and which edits are visible. *)
(* A parcel is a set of pairs <<unit of ground, tag>>: its geometry is the *)
(* units, its values are the tags, "base" or what the unit was painted.    *)
(*                                                                         *)
(* Base parcels are 1, 2, ..., grid cells -1, -2, ...: the strings the     *)
(* code uses, of one digit.                                                *)
(***************************************************************************)
EXTENDS Integers, Sequences, FiniteSets

CONSTANTS
  Unit,        \* units of ground
  BaseGround,  \* the ground of each base parcel
  Speck,       \* units so small that a cell of nothing else has at most 1 m2
  Value,       \* what a parcel can be painted with
  NoRow,       \* no PaintedCanvas row
  Worker,      \* Celery workers that run grids and merges
  NoPlan,      \* the worker runs neither
  MaxBatches,  \* bound on the batches logged
  MaxCells     \* bound on the cells ever made

ASSUME BaseAssumption ==
  /\ IsFiniteSet(Unit)
  /\ DOMAIN BaseGround \subseteq Nat \ {0}
  /\ BaseGround \in [DOMAIN BaseGround -> (SUBSET Unit) \ {{}}]
  /\ \A u \in Unit : \E f \in DOMAIN BaseGround :
        /\ u \in BaseGround[f]
        /\ \A g \in DOMAIN BaseGround \ {f} : u \notin BaseGround[g]
ASSUME SpeckAssumption == Speck \subseteq Unit
ASSUME BoundsAssumption == MaxCells \in Nat
ASSUME ValueAssumption == NoRow \notin Value /\ "base" \notin Value

VARIABLES edits, paint, log, cells, plan

vars == <<edits, paint, log, cells, plan>>

BaseParcel == DOMAIN BaseGround
Parcel == BaseParcel \cup {-n : n \in 1 .. MaxCells}

Content == SUBSET (Unit \X (Value \cup {"base"}))

(* The key of the one event a grid or merge logs for the geometry itself;  *)
(* every other event is keyed by the parcel whose paint it changed.        *)
Geometry == 0

(* `batch` orders the rows of two edits as their primary keys do.  History *)
(* fields: `basis`, the batches of the edits this one was made from, and   *)
(* `stale`, that its sources were other parcels by the time it was written.*)
Edit == [parcel : Parcel, sources : SUBSET Parcel, content : Content,
         batch : Nat, basis : SUBSET Nat, stale : BOOLEAN]

(* `before` and `reverts` are history fields: the canvas the batch was     *)
(* applied to, and the batch an undo was applied to.                       *)
Row == Value \cup {NoRow}
Batch == [op : {"paint", "clear", "grid", "merge", "undo"},
          events : SUBSET (Parcel \cup {Geometry}), old : [Parcel -> Row],
          undone : SUBSET (Parcel \cup {Geometry}), reverts : Nat,
          before : [Parcel -> [paint : Row, content : Content]]]

-----------------------------------------------------------------------------
(* build_canvas_view_select.                                               *)

(* The newest edit that claims a parcel id, 0 when there is none.          *)
Claimant(f) ==
  LET claims == {e.batch : e \in {d \in edits : f \in d.sources}}
  IN  IF claims = {} THEN 0 ELSE CHOOSE b \in claims : \A d \in claims : d <= b

(* Mutant: every claimed id is dropped, edits and base rows alike.         *)
NoClaimedEdits == {e \in edits : Claimant(e.parcel) = 0}

VisibleEdits == {e \in edits : Claimant(e.parcel) <= e.batch}

VisibleBase == {f \in BaseParcel : Claimant(f) = 0}

Visible == VisibleBase \cup {e.parcel : e \in VisibleEdits}

EditOf(f) == CHOOSE e \in VisibleEdits : e.parcel = f

(* The row of a visible parcel, without its paint.                         *)
OwnContent(f) ==
  IF f \in VisibleBase THEN BaseGround[f] \X {"base"} ELSE EditOf(f).content

UnitsOf(content) == {p[1] : p \in content}

(* COALESCE of the paint over the row's own values.                        *)
Shown(f) ==
  IF paint[f] = NoRow THEN OwnContent(f) ELSE UnitsOf(OwnContent(f)) \X {paint[f]}

Absent == [paint |-> NoRow, content |-> {}]

Canvas ==
  LET visible == Visible
  IN  [f \in Parcel |-> IF f \in visible
                        THEN [paint |-> paint[f], content |-> Shown(f)] ELSE Absent]

(* What the canvas shows of the ground, whatever parcels it is cut into.   *)
ShownGround == UNION {Shown(f) : f \in Visible}

-----------------------------------------------------------------------------
Plan == [op : {"grid", "merge"}, sources : SUBSET Parcel,
         shapes : SUBSET (SUBSET Unit), content : Content, basis : SUBSET Nat]

TypeOK ==
  /\ edits \in SUBSET Edit
  /\ paint \in [Parcel -> Row]
  /\ log \in Seq(Batch)
  /\ cells \in 0 .. MaxCells
  /\ plan \in [Worker -> Plan \cup {NoPlan}]

Init ==
  /\ edits = {}
  /\ paint = [f \in Parcel |-> NoRow]
  /\ log = <<>>
  /\ cells = 0
  /\ plan = [w \in Worker |-> NoPlan]

-----------------------------------------------------------------------------
Room == Len(log) < MaxBatches

BatchOf(op, events, i) ==
  [op |-> op, events |-> events, undone |-> {}, reverts |-> i, before |-> Canvas,
   old |-> [f \in Parcel |-> IF f \in events THEN paint[f] ELSE NoRow]]

Made == BaseParcel \cup {-n : n \in 1 .. cells}

(* run_direct_paint of one parcel.  It may have been replaced since it was *)
(* selected: nothing checks that it is still on the canvas.                *)
Paint(f, v) ==
  /\ Room
  /\ paint' = [paint EXCEPT ![f] = v]
  /\ log' = Append(log, BatchOf("paint", {f}, 0))
  /\ UNCHANGED <<edits, cells, plan>>

(* clear_paint of one parcel.                                              *)
Clear(f) ==
  /\ Room
  /\ paint[f] # NoRow
  /\ paint' = [paint EXCEPT ![f] = NoRow]
  /\ log' = Append(log, BatchOf("clear", {f}, 0))
  /\ UNCHANGED <<edits, cells, plan>>

Cut(F) == UNION {UnitsOf(OwnContent(f)) : f \in F}

ShownBy(F) == UNION {Shown(f) : f \in F}

Basis(F) == {EditOf(f).batch : f \in F \ VisibleBase}

(* Before their transactions run_grid_parcels and run_merge_parcels read   *)
(* the canvas rows and the geometry of the selected parcels.               *)
Read(w, op, F, shapes) ==
  /\ Room /\ plan[w] = NoPlan
  /\ F # {} /\ F \subseteq Visible
  /\ plan' = [plan EXCEPT ![w] =
       [op |-> op, sources |-> F, shapes |-> shapes,
        content |-> ShownBy(F), basis |-> Basis(F)]]
  /\ UNCHANGED <<edits, paint, log, cells>>

Partitions ==
  [G \in SUBSET Unit |->
     {P \in SUBSET ((SUBSET G) \ {{}}) :
        UNION P = G /\ \A s, t \in P : s # t => s \cap t = {}}]

(* _grid_cells: the lattice partitions the selection; cells of at most 1   *)
(* m2 (_MIN_CELL_AREA_M2) are left out of the answer.                      *)
GridCells(G) == {{s \in P : ~(s \subseteq Speck)} : P \in Partitions[G]}

(* _compute_grid_cells: an error when no cell is left.                     *)
ReadGrid(w, F, shapes) ==
  /\ shapes \in GridCells(Cut(F)) \ {{}}
  /\ cells + Cardinality(shapes) <= MaxCells
  /\ Read(w, "grid", F, shapes)

(* _merge_union_geojson: at least two parcels, dissolved into one.         *)
ReadMerge(w, F) == Cardinality(F) > 1 /\ Read(w, "merge", F, {Cut(F)})

(* The parcels a plan read are still on the canvas.                        *)
StillThere(p) ==
  /\ p.sources \subseteq Visible
  /\ Basis(p.sources) = p.basis
  /\ Cut(p.sources) = UnitsOf(p.content)

EditFor(p, f, shape) ==
  [parcel |-> f, sources |-> p.sources,
   content |-> {x \in p.content : x[1] \in shape},
   batch |-> Len(log) + 1, basis |-> p.basis, stale |-> ~StillThere(p)]

(* Mutant: cells are numbered from the rows there are, not by a sequence.  *)
NextIdsFromRows(n) ==
  LET used == {0} \cup {-e.parcel : e \in {d \in edits : d.parcel < 0}}
      top  == CHOOSE m \in used : \A k \in used : k <= m
  IN  {-k : k \in (top + 1) .. (top + n)}

(* Mutant: the numbers are not negated.                                    *)
NextIdsPositive(n) == (cells + 1) .. (cells + n)

(* _next_geometry_edit_ids.                                                *)
NextIds(n) == {-k : k \in (cells + 1) .. (cells + n)}

(* The transaction of run_grid_parcels: a row per cell, one event in all.  *)
WriteGrid(w) ==
  LET p    == plan[w]
      n    == Cardinality(p.shapes)
      cell == CHOOSE c \in [p.shapes -> NextIds(n)] :
                 \A s, t \in p.shapes : s # t => c[s] # c[t]
  IN  /\ p # NoPlan
      /\ p.op = "grid"
      /\ Len(log) < MaxBatches /\ cells + n <= MaxCells
      /\ edits' = edits \cup {EditFor(p, cell[s], s) : s \in p.shapes}
      /\ cells' = cells + n
      /\ log' = Append(log, BatchOf("grid", {Geometry}, 0))
      /\ plan' = [plan EXCEPT ![w] = NoPlan]
      /\ UNCHANGED paint

(* sorted(unique_features)[0], by string: "-" sorts before the digits.     *)
Survivor(F) ==
  LET key(f) == IF f < 0 THEN -f ELSE MaxCells + f
  IN  CHOOSE f \in F : \A g \in F : key(f) <= key(g)

(* Mutant: the survivor's overrides are left on the merged parcel.         *)
WriteMergeKeepingPaint(w) ==
  LET p        == plan[w]
      survivor == Survivor(p.sources)
  IN  /\ p # NoPlan
      /\ p.op = "merge"
      /\ Len(log) < MaxBatches
      /\ edits' = edits \cup {EditFor(p, survivor, s) : s \in p.shapes}
      /\ log' = Append(log, BatchOf("merge", {Geometry}, 0))
      /\ plan' = [plan EXCEPT ![w] = NoPlan]
      /\ UNCHANGED <<paint, cells>>

(* The transaction of run_merge_parcels: the survivor's row, its overrides *)
(* dropped and logged as clears of the same batch, and the merge's event.  *)
WriteMerge(w) ==
  LET p        == plan[w]
      survivor == Survivor(p.sources)
      dropped  == {f \in {survivor} : paint[f] # NoRow}
  IN  /\ p # NoPlan
      /\ p.op = "merge"
      /\ Len(log) < MaxBatches
      /\ edits' = edits \cup {EditFor(p, survivor, s) : s \in p.shapes}
      /\ paint' = [paint EXCEPT ![survivor] = NoRow]
      /\ log' = Append(log, BatchOf("merge", dropped \cup {Geometry}, 0))
      /\ plan' = [plan EXCEPT ![w] = NoPlan]
      /\ UNCHANGED cells

(* Mutant: the result id is taken to vanish even when it is a source.      *)
AllResults(gone) == {e.parcel : e \in gone}

(* The parcels that disappear with the edits.                              *)
Vanishing(gone) == {e.parcel : e \in {d \in gone : d.parcel \notin d.sources}}

(* undo_paint of events S of batch i: paint events get their old value     *)
(* back, then every edit of the batch is deleted, whichever of its events  *)
(* were asked for, with the paint on the parcels that disappear.           *)
Undo(i, S) ==
  LET gone     == {e \in edits : e.batch = i}
      restored == IF log[i].op = "undo" THEN {} ELSE S \ {Geometry}
  IN  /\ Room
      /\ S # {} /\ S \subseteq log[i].events \ log[i].undone
      /\ edits' = edits \ gone
      /\ paint' = [f \in Parcel |-> IF f \in Vanishing(gone) THEN NoRow
                                    ELSE IF f \in restored THEN log[i].old[f]
                                    ELSE paint[f]]
      /\ log' = Append([log EXCEPT ![i].undone = @ \cup S], BatchOf("undo", S, i))
      /\ UNCHANGED <<cells, plan>>

(* The history panel and "Undo Last" name one event, the API also a batch. *)
UndoEvent(i, x) == Undo(i, {x})
UndoBatch(i) == Undo(i, log[i].events \ log[i].undone)

(* The run failed before its transaction, or the transaction rolled back   *)
(* (a cell number drawn in vain is skipped).                               *)
Abandon(w) ==
  /\ plan[w] # NoPlan
  /\ plan' = [plan EXCEPT ![w] = NoPlan]
  /\ \/ UNCHANGED cells
     \/ /\ plan[w].op = "grid"
        /\ cells' = cells + Cardinality(plan[w].shapes)
        /\ cells' <= MaxCells
  /\ UNCHANGED <<edits, paint, log>>

Next ==
  \/ \E f \in Made, v \in Value : Paint(f, v)
  \/ \E f \in Made : Clear(f)
  \/ \E w \in Worker :
       \/ /\ plan[w] = NoPlan
          /\ \E F \in SUBSET Visible :
               \/ \E shapes \in GridCells(Cut(F)) : ReadGrid(w, F, shapes)
               \/ ReadMerge(w, F)
       \/ WriteGrid(w)
       \/ WriteMerge(w)
       \/ Abandon(w)
  \/ \E i \in DOMAIN log : \E x \in log[i].events : UndoEvent(i, x)
  \/ \E i \in DOMAIN log : UndoBatch(i)

Spec == Init /\ [][Next]_vars

-----------------------------------------------------------------------------
Undoing(k) == log[k].op = "undo"

(* Every undo took back a whole batch, the newest not yet taken back.      *)
UndoneInOrder ==
  \A k \in DOMAIN log : Undoing(k) =>
    /\ ~Undoing(log[k].reverts)
    /\ log[k].events = log[log[k].reverts].events
    /\ \A j \in (log[k].reverts + 1) .. (k - 1) :
         Undoing(j) \/ \E m \in (j + 1) .. (k - 1) : log[m].reverts = j

(* Every edit's sources are still what it was made from.                   *)
Grounded == \A e \in edits : \A b \in e.basis : \E d \in edits : d.batch = b

(* Edits compose: grid a cell, merge a merge, undo the last of them: the   *)
(* visible parcels partition the ground, but for specks that a grid left   *)
(* out, as long as every edit was written over the parcels it had read     *)
(* (nothing locks them: views/paint.py:1904) and no edit's own sources     *)
(* were undone from under it.  Of the canvas view: a newer claim dropping  *)
(* an edit's row "is what makes edits compose".                            *)
EditsCompose ==
  (Grounded /\ \A e \in edits : ~e.stale) => \A u \in Unit :
    LET shownBy == {f \in Visible : u \in UnitsOf(OwnContent(f))}
    IN  /\ Cardinality(shownBy) <= 1
        /\ u \notin Speck => Cardinality(shownBy) = 1

(* The task of w writes over parcels that still show what it read of them. *)
WritesAsRead(w) ==
  /\ plan[w] # NoPlan /\ plan'[w] = NoPlan /\ edits' # edits
  /\ plan[w].sources \subseteq Visible
  /\ ShownBy(plan[w].sources) = plan[w].content

(* A grid or merge redraws parcels and conserves what they hold, unless    *)
(* they were painted or edited since the task read them: each unit of      *)
(* ground shows after it what it showed before.  A merge loses nothing; a  *)
(* grid loses the specks it drops (views/paint.py:1782), although some     *)
(* docstrings have its cells partition their sources (1554, 1724).  Of a   *)
(* fractional column: whole numbers are rounded cell by cell (1531).       *)
EditsConserveValues ==
  [][\A w \in Worker : WritesAsRead(w) =>
       /\ ShownGround' \subseteq ShownGround
       /\ UnitsOf(ShownGround \ ShownGround')
            \subseteq IF plan[w].op = "grid" THEN Speck ELSE {}]_vars

(* Undo of the newest batch brings back the canvas the batch was applied   *)
(* to: parcels, geometry, values and paint.                                *)
UndoRestoresCanvas ==
  [][\A k \in DOMAIN log' :
       (k \notin DOMAIN log /\ UndoneInOrder' /\ log'[k].op = "undo")
         => Canvas' = log'[log'[k].reverts].before]_vars

(* A cell's number names that cell for ever: nothing was logged for it     *)
(* before the grid that made it, so no old event and no leftover override  *)
(* can change what it shows.                                               *)
CellsAreNew ==
  \A e \in edits : e.parcel \notin e.sources =>
    \A i \in 1 .. (e.batch - 1) : e.parcel \notin log[i].events

=============================================================================
