------------------------- MODULE GeometryEditsProofs ------------------------
(***************************************************************************)
(* What holds of GeometryEdits for every base canvas, every number of      *)
(* cells, workers and batches, whichever parcels they run on at once: its  *)
(* types, that a cell's number is new to the log and to the paint, that    *)
(* edits written over what they had read compose and conserve the values   *)
(* but for the specks a grid drops, and that undo brings the canvas back.  *)
(***************************************************************************)
EXTENDS GeometryEdits, FiniteSetTheorems, WellFoundedInduction, TLAPS

-----------------------------------------------------------------------------
\* Only parcels that were made are edited, logged, or about to be replaced.
Known ==
  /\ \A e \in edits : e.parcel \in Made /\ e.batch <= Len(log)
  /\ \A i \in DOMAIN log : log[i].events \subseteq Made \cup {Geometry}
  /\ \A w \in Worker : plan[w] # NoPlan => plan[w].sources \subseteq Made /\ plan[w].sources # {}

IInv == TypeOK /\ Known /\ CellsAreNew

-----------------------------------------------------------------------------
(* Numbers and their order.                                                *)

(* Parcels are integers, and 0 is none of them.                            *)
LEMMA ParcelIsInt == Parcel \subseteq Int /\ Geometry \notin Parcel /\ BaseParcel \subseteq Nat \ {0}
BY BaseAssumption, BoundsAssumption DEF Parcel, BaseParcel, Geometry

(* A set of numbers that is not empty has a least one.                     *)
LEMMA LeastNumber ==
  ASSUME NEW T \in SUBSET Nat, T # {}
  PROVE  \E x \in T : \A y \in T : x <= y
<1> DEFINE less == OpToRel(<, Nat)
<1>1. IsWellFoundedOn(less, Nat)
    BY NatLessThanWellFounded
<1>2. \A x, y \in Nat : y < x => <<y, x>> \in less
    BY DEF OpToRel
<1> HIDE DEF less
<1>3. PICK x \in T : \A y \in T : ~(<<y, x>> \in less)
    BY <1>1, WFMin
<1>4. ASSUME NEW y \in T PROVE x <= y
    <2>1. x \in Nat /\ y \in Nat
        OBVIOUS
    <2>2. ~(y < x)
        BY <1>2, <1>3, <2>1, Zenon
    <2> QED BY <2>1, <2>2
<1> QED BY <1>4

(* The survivor of a merge is one of its sources.                          *)
LEMMA SurvivorIsSource ==
  ASSUME NEW F \in SUBSET Parcel, F # {}
  PROVE  Survivor(F) \in F
<1> DEFINE key(f) == IF f < 0 THEN -f ELSE MaxCells + f
           keys == {key(f) : f \in F}
<1>1. \A f \in F : key(f) \in Nat
    BY ParcelIsInt, BoundsAssumption
<1>2. keys \in SUBSET Nat /\ keys # {}
    BY <1>1
<1>3. PICK x \in keys : \A y \in keys : x <= y
    BY <1>2, LeastNumber
<1>4. \E f \in F : \A g \in F : key(f) <= key(g)
    BY <1>3
<1> QED BY <1>4 DEF Survivor

(* The numbers a grid draws are new ones, as many as it has cells.         *)
LEMMA CellNumbers ==
  ASSUME TypeOK, NEW P \in SUBSET (SUBSET Unit), NEW n, n = Cardinality(P)
  PROVE  /\ n \in Nat
         /\ \E c \in [P -> NextIds(n)] : \A s, t \in P : s # t => c[s] # c[t]
<1>1. IsFiniteSet(P)
    BY BaseAssumption, FS_SUBSET, FS_Subset
<1>2. n \in Nat /\ ExistsBijection(1 .. n, P)
    BY <1>1, FS_CardinalityType
<1>3. PICK f \in [1 .. n -> P] : \A s \in P : \E k \in 1 .. n : f[k] = s
    BY <1>2 DEF ExistsBijection, Bijection, Surjection
<1> DEFINE number(s) == CHOOSE k \in 1 .. n : f[k] = s
           c == [s \in P |-> -(cells + number(s))]
<1>4. \A s \in P : number(s) \in 1 .. n /\ f[number(s)] = s
    BY <1>3
<1>5. cells \in Nat
    BY BoundsAssumption DEF TypeOK
<1> HIDE DEF number
<1>6. c \in [P -> NextIds(n)]
    BY <1>2, <1>4, <1>5 DEF NextIds
<1>7. \A s, t \in P : s # t => c[s] # c[t]
    BY <1>2, <1>4, <1>5
<1> QED BY <1>2, <1>6, <1>7

-----------------------------------------------------------------------------
(* What the canvas shows.                                                  *)

(* The row of a visible parcel is a content.                               *)
LEMMA OwnContentType ==
  ASSUME TypeOK, NEW f \in Visible
  PROVE  OwnContent(f) \in Content
<1>1. CASE f \in VisibleBase
    BY <1>1, BaseAssumption DEF OwnContent, VisibleBase, BaseParcel, Content
<1>2. CASE f \notin VisibleBase
    <2>1. \E e \in VisibleEdits : e.parcel = f
        BY <1>2 DEF Visible
    <2>2. EditOf(f) \in edits
        BY <2>1 DEF EditOf, VisibleEdits
    <2> QED BY <1>2, <2>2 DEF OwnContent, TypeOK, Edit
<1> QED BY <1>1, <1>2

(* ... and so is what is shown of it.                                      *)
LEMMA ShownType ==
  ASSUME TypeOK, NEW f \in Visible, f \in Parcel
  PROVE  Shown(f) \in Content
<1>1. OwnContent(f) \in Content
    BY OwnContentType
<1>2. UnitsOf(OwnContent(f)) \subseteq Unit
    BY <1>1 DEF UnitsOf, Content
<1>3. paint[f] \in Value \cup {NoRow}
    BY DEF TypeOK, Row
<1> QED BY <1>1, <1>2, <1>3 DEF Shown, Content

(* Visible parcels were made.                                              *)
LEMMA VisibleIsMade == ASSUME TypeOK, Known PROVE Visible \subseteq Made /\ Made \subseteq Parcel
<1>1. Visible \subseteq Made
    BY DEF Known, Visible, VisibleBase, VisibleEdits, Made
<1>2. Made \subseteq Parcel
    BY BoundsAssumption DEF TypeOK, Made, Parcel
<1> QED BY <1>1, <1>2

(* What a batch logs of the canvas and of its parcels' paint is typed.     *)
LEMMA BatchType ==
  ASSUME TypeOK, Known, NEW op \in {"paint", "clear", "grid", "merge", "undo"},
         NEW events \in SUBSET (Parcel \cup {Geometry}), NEW i \in Nat
  PROVE  /\ BatchOf(op, events, i) \in Batch
         /\ BatchOf(op, events, i).events = events
<1>1. Canvas \in [Parcel -> [paint : Row, content : Content]]
    <2>1. ASSUME NEW f \in Parcel, f \in Visible
          PROVE  [paint |-> paint[f], content |-> Shown(f)] \in [paint : Row, content : Content]
        BY <2>1, ShownType DEF TypeOK
    <2>2. Absent \in [paint : Row, content : Content]
        BY DEF Absent, Row, Content
    <2> QED BY <2>1, <2>2 DEF Canvas
<1>2. [f \in Parcel |-> IF f \in events THEN paint[f] ELSE NoRow] \in [Parcel -> Row]
    BY DEF TypeOK, Row
<1> QED BY <1>1, <1>2 DEF BatchOf, Batch

-----------------------------------------------------------------------------
(* Steps.                                                                  *)

\* Made only grows, plans that stay are about made parcels, edits are of
\* parcels that are made, and a batch is logged behind the old ones.
Logs(B) ==
  \E L \in Seq(Batch) :
    /\ log' = Append(L, B)
    /\ Len(L) = Len(log)
    /\ \A i \in DOMAIN log : L[i].events = log[i].events

(* What a step that logs a batch has to keep for the invariant.            *)
LEMMA LoggedStep ==
  ASSUME IInv, NEW B \in Batch, Logs(B),
         paint' \in [Parcel -> Row],
         cells' \in cells .. MaxCells,
         plan' \in [Worker -> Plan \cup {NoPlan}],
         \A w \in Worker : plan'[w] \in {plan[w], NoPlan},
         B.events \subseteq Made' \cup {Geometry},
         \A e \in edits' \ edits :
            /\ e \in Edit /\ e.parcel \in Made' /\ e.batch <= Len(log) + 1
            /\ e.parcel \notin e.sources =>
                 \A i \in DOMAIN log : e.parcel \notin log[i].events
  PROVE  IInv'
<1>t. TypeOK /\ Known /\ CellsAreNew
    BY DEF IInv
<1>1. PICK L \in Seq(Batch) : /\ log' = Append(L, B) /\ Len(L) = Len(log)
                              /\ \A i \in DOMAIN log : L[i].events = log[i].events
    BY DEF Logs
<1>2. /\ log' \in Seq(Batch) /\ Len(log') = Len(log) + 1 /\ Len(log) \in Nat
      /\ log \in Seq(Batch) /\ DOMAIN log = 1 .. Len(log) /\ DOMAIN log' = 1 .. Len(log) + 1
      /\ \A i \in DOMAIN log : log'[i].events = log[i].events
      /\ log'[Len(log) + 1] = B
    BY <1>t, <1>1 DEF TypeOK
<1>3. cells \in Nat /\ cells' \in 0 .. MaxCells
    BY <1>t, BoundsAssumption DEF TypeOK
<1>4. Made \subseteq Made'
    BY <1>3, BoundsAssumption DEF Made
<1>5. edits' \in SUBSET Edit
    BY <1>t DEF TypeOK
<1>6. TypeOK'
    BY <1>2, <1>3, <1>5 DEF TypeOK, Edit, Content, Plan, Batch, Row
<1>7. ASSUME NEW e \in edits' PROVE e.parcel \in Made' /\ e.batch <= Len(log')
    <2>1. CASE e \in edits
        BY <1>t, <1>2, <1>4, <2>1 DEF Known, TypeOK, Edit
    <2> QED BY <1>2, <2>1
<1>8. ASSUME NEW i \in DOMAIN log' PROVE log'[i].events \subseteq Made' \cup {Geometry}
    <2>1. CASE i \in DOMAIN log
        BY <1>t, <1>2, <1>4, <2>1 DEF Known
    <2>2. CASE i \notin DOMAIN log
        BY <1>2, <2>2
    <2> QED BY <2>1, <2>2
<1>9. Known'
    BY <1>t, <1>4, <1>7, <1>8 DEF Known
<1>10. ASSUME NEW e \in edits', e.parcel \notin e.sources, NEW i \in 1 .. (e.batch - 1)
       PROVE  e.parcel \notin log'[i].events
    <2>1. e.batch \in Nat /\ e.batch <= Len(log) + 1
        BY <1>2, <1>5, <1>7 DEF Edit
    <2>2. i \in DOMAIN log
        BY <1>2, <2>1
    <2>3. CASE e \in edits
        BY <1>t, <1>2, <1>10, <2>2, <2>3 DEF CellsAreNew
    <2>4. CASE e \notin edits
        BY <1>2, <1>10, <2>2, <2>4
    <2> QED BY <2>3, <2>4
<1>11. CellsAreNew'
    BY <1>10 DEF CellsAreNew
<1> QED BY <1>6, <1>9, <1>11 DEF IInv

(* A batch that is appended is logged.                                     *)
LEMMA AppendLogs ==
  ASSUME TypeOK, NEW B \in Batch, log' = Append(log, B)
  PROVE  Logs(B)
BY DEF TypeOK, Logs

(* A grid or merge writes edits of its plan's parcels, values and ground.  *)
LEMMA EditForType ==
  ASSUME TypeOK, NEW p \in Plan, NEW f \in Parcel, NEW shape
  PROVE  /\ EditFor(p, f, shape) \in Edit
         /\ EditFor(p, f, shape).parcel = f /\ EditFor(p, f, shape).sources = p.sources
         /\ EditFor(p, f, shape).batch = Len(log) + 1
<1>1. StillThere(p) \in BOOLEAN
    BY DEF StillThere
<1> QED BY <1>1 DEF TypeOK, EditFor, Edit, Plan, Content

(* Painting and clearing.                                                  *)
LEMMA PaintStep ==
  ASSUME IInv, NEW f \in Made, (\E v \in Value : Paint(f, v)) \/ Clear(f)
  PROVE  IInv'
<1>t. TypeOK /\ Known /\ f \in Parcel
    BY VisibleIsMade DEF IInv
<1>1. PICK op \in {"paint", "clear"} : log' = Append(log, BatchOf(op, {f}, 0))
    BY DEF Paint, Clear
<1>2. BatchOf(op, {f}, 0) \in Batch /\ BatchOf(op, {f}, 0).events = {f}
    BY <1>t, BatchType
<1>3. UNCHANGED <<edits, cells, plan>> /\ paint' \in [Parcel -> Row]
    BY <1>t DEF TypeOK, Paint, Clear, Row
<1>4. Made' = Made /\ cells' \in cells .. MaxCells
    BY <1>t, <1>3, BoundsAssumption DEF Made, TypeOK
<1>5. Logs(BatchOf(op, {f}, 0))
    BY <1>t, <1>1, <1>2, AppendLogs
<1> HIDE DEF IInv
<1> QED BY <1>t, <1>2, <1>3, <1>4, <1>5, LoggedStep DEF TypeOK

(* A grid's cells are new.                                                 *)
LEMMA GridStep == ASSUME IInv, NEW w \in Worker, WriteGrid(w) PROVE IInv'
<1>t. TypeOK /\ Known
    BY DEF IInv
<1> DEFINE p == plan[w]
           n == Cardinality(p.shapes)
           cell == CHOOSE c \in [p.shapes -> NextIds(n)] :
                     \A s, t \in p.shapes : s # t => c[s] # c[t]
           B == BatchOf("grid", {Geometry}, 0)
<1>1. /\ p # NoPlan /\ cells + n <= MaxCells
      /\ edits' = edits \cup {EditFor(p, cell[s], s) : s \in p.shapes}
      /\ cells' = cells + n /\ log' = Append(log, B)
      /\ plan' = [plan EXCEPT ![w] = NoPlan] /\ UNCHANGED paint
    BY DEF WriteGrid
<1>2. p \in Plan
    BY <1>t, <1>1 DEF TypeOK
<1>3. n \in Nat /\ cell \in [p.shapes -> NextIds(n)]
    <2>1. p.shapes \in SUBSET (SUBSET Unit)
        BY <1>2 DEF Plan
    <2>2. n \in Nat /\ \E c \in [p.shapes -> NextIds(n)] : \A s, t \in p.shapes : s # t => c[s] # c[t]
        BY <1>t, <2>1, CellNumbers
    <2> QED BY <2>2
<1>4. B \in Batch /\ B.events = {Geometry}
    BY <1>t, BatchType
<1> HIDE DEF p, n, cell, B
<1>5. cells \in Nat /\ cells' \in cells .. MaxCells /\ MaxCells \in Nat
    BY <1>t, <1>1, <1>3, BoundsAssumption DEF TypeOK
<1>6. ASSUME NEW f \in NextIds(n)
      PROVE  /\ f \in Parcel /\ f \in Made' /\ f \notin Made /\ f # Geometry
    <2>1. PICK k \in (cells + 1) .. (cells + n) : f = -k
        BY DEF NextIds
    <2>2. k \in 1 .. cells' /\ k \in 1 .. MaxCells /\ k \notin 1 .. cells /\ k \in Nat \ {0}
        BY <1>1, <1>3, <1>5
    <2>3. f \in Parcel /\ f \in Made'
        BY <2>1, <2>2 DEF Parcel, Made
    <2>4. f \notin BaseParcel
        BY <2>1, <2>2, ParcelIsInt
    <2>5. \A m \in 1 .. cells : -m # f
        BY <1>5, <2>1, <2>2
    <2> QED BY <2>1, <2>2, <2>3, <2>4, <2>5 DEF Made, Geometry
<1>7. ASSUME NEW e \in edits' \ edits
      PROVE  /\ e \in Edit /\ e.parcel \in Made' /\ e.batch <= Len(log) + 1
             /\ \A i \in DOMAIN log : e.parcel \notin log[i].events
    <2>1. PICK s \in p.shapes : e = EditFor(p, cell[s], s)
        BY <1>1
    <2>2. cell[s] \in NextIds(n)
        BY <1>3
    <2>3. e \in Edit /\ e.parcel = cell[s] /\ e.batch = Len(log) + 1
        BY <1>t, <1>2, <1>6, <2>1, <2>2, EditForType
    <2>4. e.batch <= Len(log) + 1
        BY <1>t, <2>3 DEF TypeOK
    <2> QED BY <1>t, <1>6, <2>2, <2>3, <2>4 DEF Known
<1>8. plan' \in [Worker -> Plan \cup {NoPlan}] /\ \A v \in Worker : plan'[v] \in {plan[v], NoPlan}
    BY <1>t, <1>1 DEF TypeOK
<1>9. Logs(B) /\ paint' \in [Parcel -> Row]
    BY <1>t, <1>1, <1>4, AppendLogs DEF TypeOK
<1> HIDE DEF IInv
<1> QED BY <1>4, <1>5, <1>7, <1>8, <1>9, LoggedStep

(* A merge's result is one of its sources.                                 *)
LEMMA MergeStep == ASSUME IInv, NEW w \in Worker, WriteMerge(w) PROVE IInv'
<1>t. TypeOK /\ Known
    BY DEF IInv
<1> DEFINE p == plan[w]
           survivor == Survivor(p.sources)
           dropped == {f \in {survivor} : paint[f] # NoRow}
           B == BatchOf("merge", dropped \cup {Geometry}, 0)
<1>1. /\ p # NoPlan
      /\ edits' = edits \cup {EditFor(p, survivor, s) : s \in p.shapes}
      /\ paint' = [paint EXCEPT ![survivor] = NoRow]
      /\ log' = Append(log, B) /\ plan' = [plan EXCEPT ![w] = NoPlan] /\ UNCHANGED cells
    BY DEF WriteMerge
<1>2. p \in Plan /\ p.sources \subseteq Made /\ p.sources # {} /\ p.sources \in SUBSET Parcel
    BY <1>t, <1>1 DEF TypeOK, Known, Plan
<1>3. survivor \in p.sources /\ survivor \in Parcel /\ survivor \in Made
    BY <1>2, SurvivorIsSource
<1>4. B \in Batch /\ B.events \subseteq {survivor, Geometry}
    BY <1>t, <1>3, BatchType
<1> HIDE DEF p, survivor, B
<1>5. cells' \in cells .. MaxCells /\ Made' = Made
    BY <1>t, <1>1, BoundsAssumption DEF TypeOK, Made
<1>6. ASSUME NEW e \in edits' \ edits
      PROVE  e \in Edit /\ e.parcel \in Made' /\ e.batch <= Len(log) + 1 /\ e.parcel \in e.sources
    <2>1. PICK s \in p.shapes : e = EditFor(p, survivor, s)
        BY <1>1
    <2>2. e \in Edit /\ e.parcel = survivor /\ e.sources = p.sources /\ e.batch = Len(log) + 1
        BY <1>t, <1>2, <1>3, <2>1, EditForType
    <2> QED BY <1>t, <1>3, <1>5, <2>2 DEF TypeOK
<1>7. plan' \in [Worker -> Plan \cup {NoPlan}] /\ \A v \in Worker : plan'[v] \in {plan[v], NoPlan}
    BY <1>t, <1>1 DEF TypeOK
<1>8. Logs(B) /\ paint' \in [Parcel -> Row]
    BY <1>t, <1>1, <1>4, AppendLogs DEF TypeOK, Row
<1> HIDE DEF IInv
<1> QED BY <1>3, <1>4, <1>5, <1>6, <1>7, <1>8, LoggedStep

(* Undo takes edits and paint away; its batch is about events there were.  *)
LEMMA UndoStep == ASSUME IInv, NEW i \in DOMAIN log, NEW S, Undo(i, S) PROVE IInv'
<1>t. TypeOK /\ Known
    BY DEF IInv
<1> DEFINE gone == {e \in edits : e.batch = i}
           restored == IF log[i].op = "undo" THEN {} ELSE S \ {Geometry}
           L == [log EXCEPT ![i].undone = @ \cup S]
           B == BatchOf("undo", S, i)
<1>1. /\ S \subseteq log[i].events
      /\ edits' = edits \ gone
      /\ paint' = [f \in Parcel |-> IF f \in Vanishing(gone) THEN NoRow
                                     ELSE IF f \in restored THEN log[i].old[f] ELSE paint[f]]
      /\ log' = Append(L, B) /\ UNCHANGED <<cells, plan>>
    BY DEF Undo
<1>2. /\ log \in Seq(Batch) /\ i \in 1 .. Len(log) /\ log[i] \in Batch
      /\ S \in SUBSET (Parcel \cup {Geometry}) /\ S \subseteq Made \cup {Geometry}
    <2>1. log \in Seq(Batch) /\ i \in 1 .. Len(log) /\ log[i] \in Batch
        BY <1>t DEF TypeOK
    <2>2. S \subseteq Made \cup {Geometry}
        BY <1>t, <1>1 DEF Known
    <2>3. Made \subseteq Parcel
        BY <1>t, VisibleIsMade
    <2> QED BY <2>1, <2>2, <2>3
<1>3. B \in Batch /\ B.events = S
    BY <1>t, <1>2, BatchType
<1>4. /\ L \in Seq(Batch) /\ Len(L) = Len(log)
      /\ \A k \in DOMAIN log : L[k].events = log[k].events
    <2>1. [log[i] EXCEPT !.undone = @ \cup S] \in Batch
        BY <1>2 DEF Batch
    <2>2. L = [log EXCEPT ![i] = [log[i] EXCEPT !.undone = @ \cup S]]
        OBVIOUS
    <2>3. [log[i] EXCEPT !.undone = @ \cup S].events = log[i].events
        BY <1>2 DEF Batch
    <2> DEFINE b == [log[i] EXCEPT !.undone = @ \cup S]
    <2> HIDE DEF b
    <2> QED BY <1>2, <2>1, <2>2, <2>3 DEF b
<1> HIDE DEF B, L
<1>5. Logs(B)
    BY <1>1, <1>4 DEF Logs
<1>6. log[i].old \in [Parcel -> Row] /\ paint \in [Parcel -> Row] /\ NoRow \in Row
    BY <1>t, <1>2 DEF TypeOK, Batch, Row
<1> HIDE DEF gone, restored
<1>7. paint' \in [Parcel -> Row]
    BY <1>1, <1>6
<1>8. Made' = Made /\ cells' \in cells .. MaxCells
    BY <1>t, <1>1, BoundsAssumption DEF Made, TypeOK
<1> HIDE DEF IInv
<1> QED BY <1>t, <1>1, <1>2, <1>3, <1>5, <1>7, <1>8, LoggedStep DEF TypeOK

(* A grid or merge that reads plans for parcels on the canvas.             *)
LEMMA ReadStep ==
  ASSUME IInv, NEW w \in Worker, NEW op \in {"grid", "merge"}, NEW F, NEW shapes \in SUBSET (SUBSET Unit),
         Read(w, op, F, shapes)
  PROVE  IInv'
<1>t. TypeOK /\ Known /\ CellsAreNew
    BY DEF IInv
<1> DEFINE p == [op |-> op, sources |-> F, shapes |-> shapes,
                 content |-> UNION {Shown(f) : f \in F},
                 basis |-> {EditOf(f).batch : f \in F \ VisibleBase}]
<1>1. /\ F # {} /\ F \subseteq Visible /\ plan' = [plan EXCEPT ![w] = p]
      /\ UNCHANGED <<edits, paint, log, cells>>
    BY DEF Read, ShownBy, Basis
<1>2. F \subseteq Made /\ F \in SUBSET Parcel
    BY <1>t, <1>1, VisibleIsMade
<1>3. UNION {Shown(f) : f \in F} \in Content
    <2>1. \A f \in F : Shown(f) \in Content
        BY <1>t, <1>1, <1>2, ShownType
    <2> QED BY <2>1 DEF Content
<1>4. {EditOf(f).batch : f \in F \ VisibleBase} \in SUBSET Nat
    <2>1. ASSUME NEW f \in F \ VisibleBase PROVE EditOf(f).batch \in Nat
        <3>1. \E e \in VisibleEdits : e.parcel = f
            BY <1>1 DEF Visible
        <3>2. EditOf(f) \in edits
            BY <3>1 DEF EditOf, VisibleEdits
        <3> QED BY <1>t, <3>2 DEF TypeOK, Edit
    <2> QED BY <2>1
<1>5. p \in Plan /\ p.sources = F
    BY <1>2, <1>3, <1>4 DEF Plan
<1> HIDE DEF p
<1>6. TypeOK'
    BY <1>t, <1>1, <1>5 DEF TypeOK, Edit, Content, Plan, Batch, Row
<1>7. Known'
    BY <1>t, <1>1, <1>2, <1>5 DEF TypeOK, Known, Made
<1>8. CellsAreNew'
    BY <1>t, <1>1 DEF CellsAreNew
<1> QED BY <1>6, <1>7, <1>8 DEF IInv

(* A run that gives up forgets its plan; its cell numbers may be skipped.  *)
LEMMA AbandonStep == ASSUME IInv, NEW w \in Worker, Abandon(w) PROVE IInv'
<1>t. TypeOK /\ Known /\ CellsAreNew
    BY DEF IInv
<1>1. plan[w] \in Plan /\ plan' = [plan EXCEPT ![w] = NoPlan] /\ UNCHANGED <<edits, paint, log>>
    BY <1>t DEF TypeOK, Abandon
<1>2. plan[w].shapes \in SUBSET (SUBSET Unit)
    BY <1>1 DEF Plan
<1>3. Cardinality(plan[w].shapes) \in Nat
    BY <1>t, <1>2, CellNumbers
<1>4. cells \in Nat /\ cells' \in cells .. MaxCells /\ cells' \in 0 .. MaxCells
    BY <1>t, <1>3, BoundsAssumption DEF TypeOK, Abandon
<1>5. Made \subseteq Made'
    BY <1>4, BoundsAssumption DEF Made
<1>6. TypeOK'
    BY <1>t, <1>1, <1>4 DEF TypeOK, Edit, Content, Plan, Batch, Row
<1>7. Known'
    BY <1>t, <1>1, <1>5 DEF TypeOK, Known
<1>8. CellsAreNew'
    BY <1>t, <1>1 DEF CellsAreNew
<1> QED BY <1>6, <1>7, <1>8 DEF IInv

-----------------------------------------------------------------------------
(* The initial state satisfies the invariant.                              *)
LEMMA InitInv == Init => IInv
BY BoundsAssumption DEF Init, IInv, TypeOK, Known, CellsAreNew, Row

(* The ground a plan cuts consists of units.                               *)
LEMMA ShapesType ==
  ASSUME IInv, NEW F \in SUBSET Visible
  PROVE  /\ {Cut(F)} \in SUBSET (SUBSET Unit)
         /\ \A shapes \in GridCells(Cut(F)) : shapes \in SUBSET (SUBSET Unit)
<1>1. \A f \in F : OwnContent(f) \in Content
    BY OwnContentType DEF IInv
<1>2. Cut(F) \in SUBSET Unit
    BY <1>1 DEF Cut, UnitsOf, Content
<1> QED BY <1>2 DEF Partitions, GridCells

(* The invariant is inductive.                                             *)
LEMMA StepInv == IInv /\ [Next]_vars => IInv'
<1> SUFFICES ASSUME IInv, [Next]_vars PROVE IInv'
    OBVIOUS
<1>1. ASSUME NEW f \in Made, (\E v \in Value : Paint(f, v)) \/ Clear(f) PROVE IInv'
    BY <1>1, PaintStep
<1>2. ASSUME NEW w \in Worker, NEW F \in SUBSET Visible,
             (\E shapes \in GridCells(Cut(F)) : ReadGrid(w, F, shapes)) \/ ReadMerge(w, F)
      PROVE  IInv'
    BY <1>2, ShapesType, ReadStep DEF ReadGrid, ReadMerge
<1>3. ASSUME NEW w \in Worker, WriteGrid(w) \/ WriteMerge(w) \/ Abandon(w) PROVE IInv'
    BY <1>3, GridStep, MergeStep, AbandonStep
<1>4. ASSUME NEW i \in DOMAIN log, (\E x \in log[i].events : UndoEvent(i, x)) \/ UndoBatch(i)
      PROVE  IInv'
    BY <1>4, UndoStep DEF UndoEvent, UndoBatch
<1>5. CASE UNCHANGED vars
    BY <1>5 DEF vars, IInv, TypeOK, Known, CellsAreNew, Edit, Content, Plan, Batch, Row, Made
<1> QED BY <1>1, <1>2, <1>3, <1>4, <1>5 DEF Next

(* It holds in every reachable state.                                      *)
LEMMA Invariant == Spec => []IInv
BY InitInv, StepInv, PTL DEF Spec

-----------------------------------------------------------------------------
(* Edits, paint, log and plans keep their types, for every base canvas.    *)
THEOREM TypeCorrect == Spec => []TypeOK
<1>1. IInv => TypeOK
    BY DEF IInv
<1> QED BY Invariant, <1>1, PTL

(* A cell's number is never one that was painted, cleared or undone before *)
(* the grid that made it (views/paint.py _next_geometry_edit_ids), whether *)
(* edits run at once on the same parcels, fail, or are undone.             *)
THEOREM CellsStayNew == Spec => []CellsAreNew
<1>1. IInv => CellsAreNew
    BY DEF IInv
<1> QED BY Invariant, <1>1, PTL

-----------------------------------------------------------------------------
(* The edits and the ground they redraw.                                   *)

\* The edits of one batch have one set of sources, parcels of their own and
\* pieces of ground that do not overlap.
OneBatch(d, e) ==
  /\ d.sources = e.sources
  /\ d.parcel # e.parcel
  /\ UnitsOf(d.content) \cap UnitsOf(e.content) = {}

\* A cell's number is new: whatever else has or claims the cell came later.
NewCell(e) ==
  /\ e.parcel \notin BaseParcel
  /\ \A d \in edits : e.parcel \in d.sources \cup {d.parcel} => d = e \/ d.batch > e.batch

Present(b) == \E d \in edits : d.batch = b

\* Edit e took over ground G with its source f: that of the base parcel, which
\* nothing claimed before e, or that of the edit whose batch b is in e's basis
\* and after which nothing claimed f before e.
Took(e, f, G) ==
  \/ /\ f \in BaseParcel /\ G = BaseGround[f]
     /\ \A c \in edits : f \in c.sources => c.batch >= e.batch
  \/ \E b \in e.basis :
       /\ b < e.batch
       /\ \A c \in edits : f \in c.sources => c.batch <= b \/ c.batch >= e.batch
       /\ Present(b) => \E d \in edits : d.batch = b /\ d.parcel = f
       /\ \A d \in edits : d.batch = b /\ d.parcel = f => G = UnitsOf(d.content)

\* Unit u is in the ground g that edits took over from sources F.
Taken(u, F, g) == \E f \in F : u \in g[f]

\* An edit of batch b holds unit u.
Drawn(b, u) == \E d \in edits : d.batch = b /\ u \in UnitsOf(d.content)

\* What the edits of e's batch hold they took over, and all but specks of it.
Redrawn(e) ==
  \E g \in [e.sources -> SUBSET Unit] :
    /\ \A f \in e.sources : Took(e, f, g[f])
    /\ \A u \in Unit : Drawn(e.batch, u) => Taken(u, e.sources, g)
    /\ \A u \in Unit \ Speck : Taken(u, e.sources, g) => Drawn(e.batch, u)

\* An edit redraws its sources if they were what it was made from.
AllRedrawn == \A e \in edits : ~e.stale => Redrawn(e)

\* No edit was written over other parcels than it had read.
Fresh == \A e \in edits : ~e.stale

EditsOk ==
  /\ \A e \in edits : e.batch \in 1 .. Len(log) /\ e.sources \subseteq Made
  /\ \A d, e \in edits : d.batch = e.batch /\ d # e => OneBatch(d, e)
  /\ \A e \in edits : e.parcel \notin e.sources => NewCell(e)

\* What the view shows: base parcels nobody claims, and edits whose parcel
\* nobody claims later.
VisibleRows ==
  /\ VisibleBase = {f \in BaseParcel : \A d \in edits : f \notin d.sources}
  /\ VisibleEdits = {e \in edits : \A d \in edits : e.parcel \in d.sources => d.batch <= e.batch}

(* The claimant of a parcel is the newest batch with the parcel among its  *)
(* sources.                                                                *)
LEMMA Claimants ==
  ASSUME TypeOK, EditsOk, NEW f
  PROVE  /\ Claimant(f) \in Nat
         /\ \A d \in edits : f \in d.sources => d.batch <= Claimant(f)
         /\ Claimant(f) # 0 => \E d \in edits : f \in d.sources /\ d.batch = Claimant(f)
<1> DEFINE claims == {e.batch : e \in {d \in edits : f \in d.sources}}
<1>1. claims \subseteq 1 .. Len(log) /\ Len(log) \in Nat
  BY DEF EditsOk, TypeOK
<1>2. CASE claims = {}
  BY <1>2 DEF Claimant
<1>3. CASE claims # {}
  <2> DEFINE left == {Len(log) - b : b \in claims}
  <2>1. left \in SUBSET Nat /\ left # {}
    <3> HIDE DEF claims
    <3>1. \A b \in claims : b \in Nat /\ b <= Len(log)
      BY <1>1
    <3>2. \A b \in claims : Len(log) - b \in Nat
      BY <1>1, <3>1
    <3> QED BY <1>3, <3>2
  <2>2. PICK x \in left : \A y \in left : x <= y
    BY <2>1, LeastNumber
  <2>3. PICK b \in claims : x = Len(log) - b
    OBVIOUS
  <2>4. \A d \in claims : d <= b
    <3> SUFFICES ASSUME NEW d \in claims PROVE d <= b
      OBVIOUS
    <3>1. x <= Len(log) - d
      BY <2>2
    <3> HIDE DEF claims
    <3> QED BY <1>1, <2>3, <3>1
  <2>5. Claimant(f) \in claims /\ \A d \in claims : d <= Claimant(f)
    <3>1. Claimant(f) = CHOOSE c \in claims : \A d \in claims : d <= c
      BY <1>3 DEF Claimant
    <3> HIDE DEF claims
    <3> QED BY <2>4, <3>1
  <2> QED BY <1>1, <2>5
<1> QED BY <1>2, <1>3

(* So these are the rows the view shows,                                   *)
LEMMA WhatShows == TypeOK /\ EditsOk => VisibleRows
<1> SUFFICES ASSUME TypeOK, EditsOk PROVE VisibleRows
  OBVIOUS
<1>1. \A e \in edits : e.batch \in Nat \ {0}
  BY DEF EditsOk, TypeOK
<1>2. ASSUME NEW f PROVE Claimant(f) = 0 <=> \A d \in edits : f \notin d.sources
  BY <1>1, Claimants
<1>3. ASSUME NEW e \in edits
      PROVE  Claimant(e.parcel) <= e.batch
               <=> \A d \in edits : e.parcel \in d.sources => d.batch <= e.batch
  <2> DEFINE c == Claimant(e.parcel)
  <2>1. /\ c \in Nat /\ \A d \in edits : e.parcel \in d.sources => d.batch <= c
        /\ c # 0 => \E d \in edits : e.parcel \in d.sources /\ d.batch = c
    BY Claimants
  <2> HIDE DEF c
  <2>2. c <= e.batch <=> \A d \in edits : e.parcel \in d.sources => d.batch <= e.batch
    BY <1>1, <2>1
  <2> QED BY <2>2 DEF c
<1> QED BY <1>2, <1>3 DEF VisibleRows, VisibleBase, VisibleEdits

(* ... also after a step.                                                  *)
LEMMA WhatShowsNext == TypeOK' /\ EditsOk' => VisibleRows'
BY WhatShows, PTL

-----------------------------------------------------------------------------
(* Units and their owners, as long as every edit is grounded.              *)

Holds(e, u) == u \in UnitsOf(e.content)

\* Base parcel f owned the unit; nobody claimed it before edit e.
BaseUntil(f, e) == f \in BaseParcel /\ \A c \in edits : f \in c.sources => c.batch >= e.batch

\* Edit d had parcel f, and nobody claimed it between d and e.
EditUntil(d, f, e) ==
  /\ d.parcel = f /\ d.batch < e.batch
  /\ \A c \in edits : f \in c.sources => c.batch <= d.batch \/ c.batch >= e.batch

GInv == TypeOK /\ EditsOk /\ AllRedrawn

(* Numbers of batches.                                                     *)
LEMMA BatchNumbers ==
  ASSUME GInv
  PROVE  /\ \A e \in edits : /\ e.batch \in Nat /\ e.sources \subseteq Parcel /\ e.parcel \in Parcel
                             /\ UnitsOf(e.content) \subseteq Unit
         /\ edits \subseteq Edit
BY DEF GInv, TypeOK, Edit, Content, UnitsOf

(* An edit of a base parcel claims it; so does every later edit of a cell. *)
LEMMA Claims ==
  ASSUME GInv, NEW d \in edits
  PROVE  /\ d.parcel \in BaseParcel => d.parcel \in d.sources
         /\ \A e \in edits : d.parcel = e.parcel /\ d.batch < e.batch => e.parcel \in e.sources
BY BatchNumbers DEF GInv, EditsOk, NewCell

(* What an edit holds it took over from one of its sources.                *)
LEMMA TookFrom ==
  ASSUME GInv, Grounded, Fresh, NEW e \in edits, NEW u, Holds(e, u)
  PROVE  \E f \in e.sources :
           \/ BaseUntil(f, e) /\ u \in BaseGround[f]
           \/ \E d \in edits : EditUntil(d, f, e) /\ Holds(d, u)
<1>1. u \in Unit
  BY BatchNumbers DEF Holds
<1>2. PICK g \in [e.sources -> SUBSET Unit] :
        /\ \A f \in e.sources : Took(e, f, g[f])
        /\ \A v \in Unit : Drawn(e.batch, v) => Taken(v, e.sources, g)
  BY DEF GInv, AllRedrawn, Fresh, Redrawn
<1>3. PICK f \in e.sources : u \in g[f]
  BY <1>1, <1>2 DEF Holds, Drawn, Taken
<1>4. Took(e, f, g[f])
  BY <1>2
<1>5. ASSUME NEW b \in e.basis, b < e.batch,
             \A c \in edits : f \in c.sources => c.batch <= b \/ c.batch >= e.batch,
             Present(b) => \E d \in edits : d.batch = b /\ d.parcel = f,
             \A d \in edits : d.batch = b /\ d.parcel = f => g[f] = UnitsOf(d.content)
      PROVE  \E d \in edits : EditUntil(d, f, e) /\ Holds(d, u)
  <2>1. Present(b)
    BY DEF Grounded, Present
  <2> QED BY <1>3, <1>5, <2>1 DEF EditUntil, Holds
<1> QED BY <1>3, <1>4, <1>5 DEF Took, BaseUntil

(* What an edit took over from a base parcel, its batch holds.             *)
LEMMA BaseGoesOn ==
  ASSUME GInv, Grounded, Fresh, NEW e \in edits, NEW f \in e.sources,
         BaseUntil(f, e), NEW u \in BaseGround[f], u \notin Speck
  PROVE  \E d \in edits : d.batch = e.batch /\ Holds(d, u)
<1>1. PICK g \in [e.sources -> SUBSET Unit] :
        /\ \A h \in e.sources : Took(e, h, g[h])
        /\ \A v \in Unit \ Speck : Taken(v, e.sources, g) => Drawn(e.batch, v)
  BY DEF GInv, AllRedrawn, Fresh, Redrawn
<1>2. Took(e, f, g[f])
  BY <1>1
<1>3. ASSUME NEW b \in e.basis, b < e.batch,
             Present(b) => \E d \in edits : d.batch = b /\ d.parcel = f
      PROVE  FALSE
  <2>1. Present(b)
    BY DEF Grounded, Present
  <2>2. PICK d \in edits : d.batch = b /\ d.parcel = f
    BY <1>3, <2>1
  <2>3. f \in d.sources
    BY <2>2, Claims DEF BaseUntil
  <2> QED BY <1>3, <2>2, <2>3, BatchNumbers DEF BaseUntil
<1>4. g[f] = BaseGround[f] /\ u \in Unit
  BY <1>2, <1>3, BaseAssumption DEF Took, BaseUntil, BaseParcel
<1> QED BY <1>1, <1>4 DEF Holds, Drawn, Taken

(* ... and what it took over from another edit.                            *)
LEMMA EditGoesOn ==
  ASSUME GInv, Grounded, Fresh, NEW e \in edits, NEW f \in e.sources,
         NEW d0 \in edits, EditUntil(d0, f, e), NEW u, Holds(d0, u), u \notin Speck
  PROVE  \E d \in edits : d.batch = e.batch /\ Holds(d, u)
<1>1. PICK g \in [e.sources -> SUBSET Unit] :
        /\ \A h \in e.sources : Took(e, h, g[h])
        /\ \A v \in Unit \ Speck : Taken(v, e.sources, g) => Drawn(e.batch, v)
  BY DEF GInv, AllRedrawn, Fresh, Redrawn
<1>2. Took(e, f, g[f])
  BY <1>1
<1>n. /\ \A c \in edits : c.batch \in Nat
      /\ d0.parcel = f /\ d0.batch < e.batch
      /\ \A c \in edits : f \in c.sources => c.batch <= d0.batch \/ c.batch >= e.batch
  BY BatchNumbers DEF EditUntil
<1>3. ~BaseUntil(f, e)
  BY <1>n, Claims DEF BaseUntil
<1>4. ASSUME NEW b \in e.basis, b < e.batch,
             \A c \in edits : f \in c.sources => c.batch <= b \/ c.batch >= e.batch,
             Present(b) => \E d \in edits : d.batch = b /\ d.parcel = f,
             \A d \in edits : d.batch = b /\ d.parcel = f => g[f] = UnitsOf(d.content)
      PROVE  g[f] = UnitsOf(d0.content)
  <2>1. PICK d \in edits : d.batch = b /\ d.parcel = f
    BY <1>4 DEF Grounded, Present
  <2>2. d.batch = d0.batch
    <3>1. CASE d.batch < d0.batch
      <4>1. f \in d0.sources
        BY <1>n, <2>1, <3>1, Claims
      <4> QED BY <1>n, <1>4, <2>1, <3>1, <4>1
    <3>2. CASE d0.batch < d.batch
      <4>1. f \in d.sources
        BY <1>n, <2>1, <3>2, Claims
      <4> QED BY <1>n, <1>4, <2>1, <3>2, <4>1
    <3> QED BY <1>n, <3>1, <3>2
  <2>3. d = d0
    BY <1>n, <2>1, <2>2 DEF GInv, EditsOk, OneBatch
  <2> QED BY <1>4, <2>1, <2>3
<1>5. g[f] = UnitsOf(d0.content) /\ u \in Unit
  BY <1>2, <1>3, <1>4, BatchNumbers DEF Took, BaseUntil, Holds
<1> QED BY <1>1, <1>5 DEF Holds, Drawn, Taken

(* Of some edits one is the oldest, and one the newest.                    *)
LEMMA OldestNewest ==
  ASSUME GInv, NEW S \in SUBSET edits, S # {}
  PROVE  /\ \E e \in S : \A d \in S : e.batch <= d.batch
         /\ \E e \in S : \A d \in S : d.batch <= e.batch
<1>1. Len(log) \in Nat /\ \A e \in S : e.batch \in Nat /\ e.batch <= Len(log)
  BY DEF GInv, TypeOK, EditsOk
<1>2. \E e \in S : \A d \in S : e.batch <= d.batch
  <2> DEFINE T == {e.batch : e \in S}
  <2>1. T \in SUBSET Nat /\ T # {}
    BY <1>1
  <2>2. PICK x \in T : \A y \in T : x <= y
    <3> HIDE DEF T
    <3> QED BY <2>1, LeastNumber
  <2> QED BY <2>2
<1>3. \E e \in S : \A d \in S : d.batch <= e.batch
  <2> DEFINE T == {Len(log) - e.batch : e \in S}
  <2>1. T \in SUBSET Nat /\ T # {}
    BY <1>1
  <2>2. PICK x \in T : \A y \in T : x <= y
    <3> HIDE DEF T
    <3> QED BY <2>1, LeastNumber
  <2>3. PICK e \in S : x = Len(log) - e.batch
    OBVIOUS
  <2>4. ASSUME NEW d \in S PROVE d.batch <= e.batch
    <3>1. x <= Len(log) - d.batch
      BY <2>2
    <3> QED BY <1>1, <2>3, <3>1
  <2> QED BY <2>4
<1> QED BY <1>2, <1>3

\* The unit's base parcel, and every older edit that holds it, was claimed.
Followed(e, u) ==
  /\ \A f \in BaseParcel : u \in BaseGround[f] =>
        \E c \in edits : f \in c.sources /\ c.batch <= e.batch
  /\ \A d \in edits : d.batch < e.batch /\ Holds(d, u) =>
        \E c \in edits : d.parcel \in c.sources /\ d.batch < c.batch /\ c.batch <= e.batch

(* Two edits that hold a unit are not of one batch.                        *)
LEMMA OneHolder ==
  ASSUME GInv, NEW d \in edits, NEW e \in edits, d.batch = e.batch, NEW u, Holds(d, u), Holds(e, u)
  PROVE  d = e
BY DEF GInv, EditsOk, OneBatch, Holds

(* A unit has one base parcel.                                             *)
LEMMA BaseOwner ==
  ASSUME NEW u \in Unit
  PROVE  \E f \in BaseParcel : u \in BaseGround[f] /\ \A g \in BaseParcel : u \in BaseGround[g] => g = f
BY BaseAssumption DEF BaseParcel

(* An edit that holds a unit claimed it, directly or through older ones.   *)
LEMMA EditsFollow ==
  ASSUME GInv, Grounded, Fresh, NEW u
  PROVE  \A e \in edits : Holds(e, u) => Followed(e, u)
<1> DEFINE bad == {e \in edits : Holds(e, u) /\ ~Followed(e, u)}
<1> SUFFICES ASSUME bad # {} PROVE FALSE
  OBVIOUS
<1>1. PICK e \in bad : \A d \in bad : e.batch <= d.batch
  BY OldestNewest
<1>2. /\ e \in edits /\ Holds(e, u) /\ ~Followed(e, u) /\ u \in Unit
      /\ \A d \in edits : d.batch < e.batch /\ Holds(d, u) => Followed(d, u)
  BY <1>1, BatchNumbers DEF Holds
<1> HIDE DEF bad
<1>n. \A d \in edits : d.batch \in Nat
  BY BatchNumbers
<1>3. PICK f \in e.sources :
        \/ BaseUntil(f, e) /\ u \in BaseGround[f]
        \/ \E d \in edits : EditUntil(d, f, e) /\ Holds(d, u)
  BY <1>2, TookFrom
<1>4. CASE BaseUntil(f, e) /\ u \in BaseGround[f]
  <2>1. ASSUME NEW g \in BaseParcel, u \in BaseGround[g]
        PROVE  \E c \in edits : g \in c.sources /\ c.batch <= e.batch
    <3>1. g = f
      BY <1>2, <1>4, <2>1, BaseOwner DEF BaseUntil
    <3> QED BY <1>2, <1>n, <3>1
  <2>2. ASSUME NEW d \in edits, d.batch < e.batch, Holds(d, u) PROVE FALSE
    <3>1. \E c \in edits : f \in c.sources /\ c.batch <= d.batch
      BY <1>2, <1>4, <2>2 DEF BaseUntil, Followed
    <3> QED BY <1>2, <1>4, <1>n, <2>2, <3>1 DEF BaseUntil
  <2> QED BY <1>2, <2>1, <2>2 DEF Followed
<1>5. ASSUME NEW d \in edits, EditUntil(d, f, e), Holds(d, u) PROVE FALSE
  <2>1. d.parcel = f /\ d.batch < e.batch /\ Followed(d, u)
    BY <1>2, <1>5 DEF EditUntil
  <2>2. ASSUME NEW g \in BaseParcel, u \in BaseGround[g]
        PROVE  \E c \in edits : g \in c.sources /\ c.batch <= e.batch
    <3>1. PICK c \in edits : g \in c.sources /\ c.batch <= d.batch
      BY <2>1, <2>2 DEF Followed
    <3> QED BY <1>2, <1>n, <2>1, <3>1
  <2>3. ASSUME NEW a \in edits, a.batch < e.batch, Holds(a, u)
        PROVE  \E c \in edits : a.parcel \in c.sources /\ a.batch < c.batch /\ c.batch <= e.batch
    <3>1. CASE a.batch = d.batch
      BY <1>2, <1>5, <1>n, <2>1, <2>3, <3>1, OneHolder
    <3>2. CASE a.batch < d.batch
      <4>1. PICK c \in edits : a.parcel \in c.sources /\ a.batch < c.batch /\ c.batch <= d.batch
        BY <2>1, <2>3, <3>2 DEF Followed
      <4> QED BY <1>2, <1>n, <2>1, <4>1
    <3>3. CASE d.batch < a.batch
      <4>1. Followed(a, u)
        BY <1>2, <2>3
      <4>2. PICK c \in edits : f \in c.sources /\ d.batch < c.batch /\ c.batch <= a.batch
        BY <1>5, <2>1, <3>3, <4>1 DEF Followed
      <4> QED BY <1>2, <1>5, <1>n, <2>3, <4>2 DEF EditUntil
    <3> QED BY <1>n, <3>1, <3>2, <3>3
  <2> QED BY <1>2, <2>2, <2>3 DEF Followed
<1> QED BY <1>3, <1>4, <1>5

-----------------------------------------------------------------------------
(* Whose ground a unit is on the canvas.                                   *)

(* Ground that is painted over is the same ground.                         *)
LEMMA UnitsOfPainted == ASSUME NEW G, NEW v PROVE UnitsOf(G \X {v}) = G
<1>1. ASSUME NEW u \in G PROVE u \in UnitsOf(G \X {v})
  <2>1. <<u, v>> \in G \X {v} /\ <<u, v>>[1] = u
    OBVIOUS
  <2> QED BY <2>1 DEF UnitsOf
<1>2. ASSUME NEW u \in UnitsOf(G \X {v}) PROVE u \in G
  BY DEF UnitsOf
<1> QED BY <1>1, <1>2

\* Which row a visible parcel is.
RowFacts ==
  /\ \A e \in VisibleEdits : /\ e \in edits /\ e.parcel \notin VisibleBase
                             /\ e.parcel \in Visible /\ EditOf(e.parcel) = e
                             /\ OwnContent(e.parcel) = e.content
  /\ \A f \in VisibleBase : /\ f \in Visible /\ OwnContent(f) = BaseGround[f] \X {"base"}
                            /\ UnitsOf(OwnContent(f)) = BaseGround[f]
  /\ \A f \in Visible \ VisibleBase :
       /\ EditOf(f) \in VisibleEdits /\ EditOf(f).parcel = f
       /\ OwnContent(f) = EditOf(f).content

(* The row of a visible edit is that edit; of a base parcel, the parcel.   *)
LEMMA RowsOf == TypeOK /\ EditsOk => RowFacts
<1> SUFFICES ASSUME TypeOK, EditsOk PROVE RowFacts
  OBVIOUS
<1>v. VisibleRows
  BY WhatShows
<1>n. \A e \in edits : e.batch \in Nat
  BY DEF EditsOk, TypeOK, Edit
<1>1. ASSUME NEW e \in VisibleEdits, NEW d \in VisibleEdits, d.parcel = e.parcel
      PROVE  d = e
  <2>0. e \in edits /\ d \in edits
    BY DEF VisibleEdits
  <2>1. CASE d.batch = e.batch
    BY <1>1, <2>0, <2>1 DEF EditsOk, OneBatch
  <2>2. ASSUME NEW a \in VisibleEdits, NEW b \in VisibleEdits, a \in edits, b \in edits,
               a.parcel = b.parcel, a.batch < b.batch
        PROVE  FALSE
    <3>1. b.parcel \in b.sources
      BY <1>n, <2>2 DEF EditsOk, NewCell
    <3> QED BY <1>n, <1>v, <2>2, <3>1 DEF VisibleRows
  <2> QED BY <1>n, <1>1, <2>0, <2>1, <2>2
<1>2. ASSUME NEW e \in VisibleEdits
      PROVE  /\ e \in edits /\ e.parcel \notin VisibleBase
             /\ e.parcel \in Visible /\ EditOf(e.parcel) = e
             /\ OwnContent(e.parcel) = e.content
  <2>1. e \in edits
    BY DEF VisibleEdits
  <2>2. e.parcel \notin VisibleBase
    BY <1>v, <2>1 DEF VisibleRows, EditsOk, NewCell
  <2>3. EditOf(e.parcel) = e
    BY <1>1 DEF EditOf
  <2> QED BY <2>1, <2>2, <2>3 DEF Visible, OwnContent
<1>3. ASSUME NEW f \in VisibleBase
      PROVE  /\ f \in Visible /\ OwnContent(f) = BaseGround[f] \X {"base"}
             /\ UnitsOf(OwnContent(f)) = BaseGround[f]
  <2>1. OwnContent(f) = BaseGround[f] \X {"base"}
    BY DEF OwnContent
  <2>3. UnitsOf(BaseGround[f] \X {"base"}) = BaseGround[f]
    BY UnitsOfPainted
  <2> QED BY <2>1, <2>3 DEF Visible
<1>4. ASSUME NEW f \in Visible \ VisibleBase
      PROVE  /\ EditOf(f) \in VisibleEdits /\ EditOf(f).parcel = f
             /\ OwnContent(f) = EditOf(f).content
  BY DEF Visible, EditOf, OwnContent
<1> QED BY <1>2, <1>3, <1>4 DEF RowFacts

(* ... also after a step.                                                  *)
LEMMA RowsOfNext == TypeOK' /\ EditsOk' => RowFacts'
BY RowsOf, PTL

(* A unit that is no speck is somebody's.                                  *)
LEMMA SomeOwner ==
  ASSUME GInv, Grounded, Fresh, NEW u \in Unit \ Speck
  PROVE  \E f \in Visible : u \in UnitsOf(OwnContent(f))
<1>v. VisibleRows /\ TypeOK /\ EditsOk
  BY WhatShows DEF GInv
<1>n. \A e \in edits : e.batch \in Nat
  BY BatchNumbers
<1>1. CASE \E e \in edits : Holds(e, u)
  <2>1. PICK e \in edits : Holds(e, u) /\ \A d \in edits : Holds(d, u) => d.batch <= e.batch
    <3> DEFINE S == {d \in edits : Holds(d, u)}
    <3>1. S \in SUBSET edits /\ S # {}
      BY <1>1
    <3> QED BY <3>1, OldestNewest
  <2>2. ASSUME e \notin VisibleEdits PROVE FALSE
    <3> DEFINE later == {c \in edits : e.parcel \in c.sources /\ e.batch < c.batch}
    <3>1. later \in SUBSET edits /\ later # {}
      BY <1>n, <1>v, <2>2 DEF VisibleRows
    <3>2. PICK c \in later : \A d \in later : c.batch <= d.batch
      BY <3>1, OldestNewest
    <3>3. EditUntil(e, e.parcel, c)
      BY <1>n, <3>2 DEF EditUntil
    <3>4. \E d \in edits : d.batch = c.batch /\ Holds(d, u)
      BY <2>1, <3>2, <3>3, EditGoesOn
    <3> QED BY <1>n, <2>1, <3>2, <3>4
  <2> QED BY <1>v, <2>1, <2>2, RowsOf DEF RowFacts, Holds
<1>2. CASE \A e \in edits : ~Holds(e, u)
  <2>1. PICK f \in BaseParcel : u \in BaseGround[f]
    BY BaseOwner
  <2>2. ASSUME f \notin VisibleBase PROVE FALSE
    <3> DEFINE later == {c \in edits : f \in c.sources}
    <3>1. later \in SUBSET edits /\ later # {}
      BY <1>v, <2>2 DEF VisibleRows
    <3>2. PICK c \in later : \A d \in later : c.batch <= d.batch
      BY <3>1, OldestNewest
    <3>3. BaseUntil(f, c)
      BY <1>n, <3>2 DEF BaseUntil
    <3> QED BY <1>2, <2>1, <3>2, <3>3, BaseGoesOn
  <2> QED BY <1>v, <2>1, <2>2, RowsOf DEF RowFacts
<1> QED BY <1>1, <1>2

(* No unit is that of two parcels.                                         *)
LEMMA OneOwner ==
  ASSUME GInv, Grounded, Fresh, NEW u \in Unit,
         NEW f \in Visible, u \in UnitsOf(OwnContent(f)),
         NEW g \in Visible, u \in UnitsOf(OwnContent(g))
  PROVE  f = g
<1>v. VisibleRows /\ TypeOK /\ EditsOk
  BY WhatShows DEF GInv
<1>n. \A e \in edits : e.batch \in Nat
  BY BatchNumbers
<1> DEFINE At(h) == \/ h \in VisibleBase /\ u \in BaseGround[h]
                    \/ \E e \in VisibleEdits : e.parcel = h /\ Holds(e, u)
<1>1. ASSUME NEW h \in Visible, u \in UnitsOf(OwnContent(h)) PROVE At(h)
  <2>1. CASE h \in VisibleBase
    BY <1>v, <1>1, <2>1, RowsOf DEF RowFacts
  <2>2. CASE h \notin VisibleBase
    <3>1. EditOf(h) \in VisibleEdits /\ EditOf(h).parcel = h
      BY <1>v, <2>2, RowsOf DEF RowFacts
    <3>2. OwnContent(h) = EditOf(h).content
      BY <2>2 DEF OwnContent
    <3> QED BY <1>1, <3>1, <3>2 DEF Holds
  <2> QED BY <2>1, <2>2
<1>2. ASSUME NEW d \in VisibleEdits, NEW e \in VisibleEdits, Holds(d, u), Holds(e, u)
      PROVE  d = e
  <2>0. d \in edits /\ e \in edits
    BY DEF VisibleEdits
  <2>1. ASSUME NEW a \in VisibleEdits, NEW b \in VisibleEdits, a \in edits, b \in edits,
               Holds(a, u), Holds(b, u), a.batch < b.batch
        PROVE  FALSE
    <3>1. \E c \in edits : a.parcel \in c.sources /\ a.batch < c.batch
      BY <2>1, EditsFollow DEF Followed
    <3> QED BY <1>n, <1>v, <2>1, <3>1 DEF VisibleRows
  <2> QED BY <1>n, <1>2, <2>0, <2>1, OneHolder
<1>3. ASSUME NEW h \in VisibleBase, u \in BaseGround[h], NEW e \in VisibleEdits, Holds(e, u)
      PROVE  FALSE
  <2>1. e \in edits /\ h \in BaseParcel
    BY DEF VisibleEdits, VisibleBase
  <2>2. \E c \in edits : h \in c.sources
    BY <1>3, <2>1, EditsFollow DEF Followed
  <2> QED BY <1>v, <2>2 DEF VisibleRows
<1>4. ASSUME NEW h \in VisibleBase, u \in BaseGround[h], NEW k \in VisibleBase, u \in BaseGround[k]
      PROVE  h = k
  BY <1>4, BaseOwner DEF VisibleBase
<1>5. At(f) /\ At(g)
  BY <1>1
<1> QED BY <1>2, <1>3, <1>4, <1>5

(* The visible parcels partition the ground, but for specks.               *)
LEMMA Composes == ASSUME GInv PROVE EditsCompose
<1> SUFFICES ASSUME Grounded, Fresh, NEW u \in Unit
             PROVE  LET shownBy == {f \in Visible : u \in UnitsOf(OwnContent(f))}
                    IN  /\ Cardinality(shownBy) <= 1
                        /\ u \notin Speck => Cardinality(shownBy) = 1
  BY DEF EditsCompose, Fresh
<1> DEFINE owners == {f \in Visible : u \in UnitsOf(OwnContent(f))}
<1>1. \A f, g \in owners : f = g
  BY OneOwner
<1>2. u \notin Speck => owners # {}
  BY SomeOwner
<1> HIDE DEF owners
<1>3. ASSUME owners = {} PROVE u \in Speck /\ Cardinality(owners) = 0
  BY <1>2, <1>3, FS_EmptySet
<1>4. ASSUME owners # {} PROVE Cardinality(owners) = 1
  <2>1. PICK f \in owners : owners = {f}
    BY <1>1, <1>4
  <2>2. Cardinality(owners) = 1
    BY <2>1, FS_Singleton
  <2> QED BY <2>2
<1>5. Cardinality(owners) <= 1 /\ (u \notin Speck => Cardinality(owners) = 1)
  BY <1>3, <1>4
<1> QED BY <1>5 DEF owners

-----------------------------------------------------------------------------
(* Plans.                                                                  *)

Running == {w \in Worker : plan[w] # NoPlan}

\* What a plan of kind op may leave out.
Dropped(op) == IF op = "grid" THEN Speck ELSE {}

\* The pieces of a plan cut what it has read; only a grid leaves out specks.
PlanOk(w) ==
  LET p == plan[w]
  IN  /\ p.shapes # {}
      /\ UNION p.shapes \subseteq UnitsOf(p.content)
      /\ UnitsOf(p.content) \ UNION p.shapes \subseteq Dropped(p.op)
      /\ \A s, t \in p.shapes : s # t => s \cap t = {}
      /\ p.op = "merge" => \A s, t \in p.shapes : s = t

Plans == \A w \in Running : PlanOk(w)

\* Nothing is painted that was not made yet.
Unpainted == \A f \in Parcel \ Made : paint[f] = NoRow

SInv == IInv /\ EditsOk /\ AllRedrawn /\ Plans /\ Unpainted

\* A step leaves parcel f's rows and claims alone, but for claims it drops.
LeftAlone(f) ==
  /\ \A e \in edits : e.parcel = f => e \in edits'
  /\ \A e \in edits' \ edits : f # e.parcel /\ f \notin e.sources

(* A visible parcel that is left alone stays what it is.                   *)
LEMMA Stays ==
  ASSUME TypeOK, EditsOk, TypeOK', EditsOk', NEW f, f \in Visible, LeftAlone(f)
  PROVE  /\ f \in Visible' /\ OwnContent(f)' = OwnContent(f)
         /\ f \in VisibleBase' <=> f \in VisibleBase
         /\ f \notin VisibleBase => EditOf(f)' = EditOf(f)
<1>1. RowFacts /\ RowFacts' /\ VisibleRows /\ VisibleRows'
  BY RowsOf, RowsOfNext, WhatShows, WhatShowsNext
<1>2. CASE f \in VisibleBase
  <2>1. f \in VisibleBase'
    BY <1>1, <1>2 DEF VisibleRows, LeftAlone
  <2> QED BY <1>1, <1>2, <2>1 DEF RowFacts
<1>3. CASE f \notin VisibleBase
  <2> DEFINE e == EditOf(f)
  <2>1. e \in VisibleEdits /\ e.parcel = f /\ OwnContent(f) = e.content
    BY <1>1, <1>3 DEF RowFacts
  <2>2. e \in edits /\ \A d \in edits : f \in d.sources => d.batch <= e.batch
    BY <1>1, <2>1 DEF VisibleRows
  <2> HIDE DEF e
  <2>3. e \in VisibleEdits'
    BY <1>1, <2>1, <2>2 DEF VisibleRows, LeftAlone
  <2> QED BY <1>1, <1>3, <2>1, <2>3 DEF RowFacts, e
<1> QED BY <1>2, <1>3

(* What is shown of a parcel is shown of its ground.                       *)
LEMMA ShownUnits == ASSUME NEW f PROVE UnitsOf(Shown(f)) = UnitsOf(OwnContent(f))
BY UnitsOfPainted DEF Shown

(* The ground of what is shown of some parcels is their ground.            *)
LEMMA ShownByUnits == ASSUME NEW F PROVE UnitsOf(ShownBy(F)) = Cut(F)
<1>1. UnitsOf(UNION {Shown(h) : h \in F}) = UNION {UnitsOf(Shown(h)) : h \in F}
  BY DEF UnitsOf
<1>2. \A h \in F : UnitsOf(Shown(h)) = UnitsOf(OwnContent(h))
  BY ShownUnits
<1> QED BY <1>1, <1>2 DEF Cut, ShownBy

-----------------------------------------------------------------------------
(* Writing and undoing edits.                                              *)

(* Without the edits of one batch (or of none: no edit is of batch 0) the  *)
(* others are as they were.                                                *)
LEMMA DropOk ==
  ASSUME TypeOK, EditsOk, AllRedrawn, NEW i,
         edits' = {e \in edits : e.batch # i}, Len(log') \in Nat, Len(log) <= Len(log'), Made \subseteq Made'
  PROVE  EditsOk' /\ AllRedrawn'
<1>n. Len(log) \in Nat /\ \A e \in edits : e.batch \in Nat /\ e.batch <= Len(log)
  BY DEF TypeOK, EditsOk
<1>1. EditsOk'
  <2>1. \A e \in edits' : e.batch \in 1 .. Len(log') /\ e.sources \subseteq Made'
    BY <1>n DEF EditsOk
  <2>2. \A d, e \in edits' : d.batch = e.batch /\ d # e => OneBatch(d, e)
    BY DEF EditsOk
  <2>3. \A e \in edits' : e.parcel \notin e.sources => NewCell(e)'
    BY DEF EditsOk, NewCell
  <2> QED BY <2>1, <2>2, <2>3 DEF EditsOk, OneBatch
<1>2. ASSUME NEW e \in edits', ~e.stale PROVE Redrawn(e)'
  <2>1. PICK g \in [e.sources -> SUBSET Unit] :
          /\ \A f \in e.sources : Took(e, f, g[f])
          /\ \A u \in Unit : Drawn(e.batch, u) => Taken(u, e.sources, g)
          /\ \A u \in Unit \ Speck : Taken(u, e.sources, g) => Drawn(e.batch, u)
    BY <1>2 DEF AllRedrawn, Redrawn
  <2>2. ASSUME NEW f \in e.sources PROVE Took(e, f, g[f])'
    <3>1. Took(e, f, g[f])
      BY <2>1
    <3>2. CASE /\ f \in BaseParcel /\ g[f] = BaseGround[f]
               /\ \A c \in edits : f \in c.sources => c.batch >= e.batch
      BY <3>2 DEF Took
    <3>3. ASSUME NEW b \in e.basis, b < e.batch,
                 \A c \in edits : f \in c.sources => c.batch <= b \/ c.batch >= e.batch,
                 Present(b) => \E d \in edits : d.batch = b /\ d.parcel = f,
                 \A d \in edits : d.batch = b /\ d.parcel = f => g[f] = UnitsOf(d.content)
          PROVE  Took(e, f, g[f])'
      <4>1. Present(b)' => \E d \in edits' : d.batch = b /\ d.parcel = f
        BY <3>3 DEF Present
      <4> QED BY <3>3, <4>1 DEF Took
    <3> QED BY <3>1, <3>2, <3>3 DEF Took
  <2>3. \A u \in Unit : Drawn(e.batch, u)' <=> Drawn(e.batch, u)
    BY DEF Drawn
  <2>4. \A u \in Unit : Drawn(e.batch, u)' => Taken(u, e.sources, g)
    BY <2>1, <2>3
  <2>5. \A u \in Unit \ Speck : Taken(u, e.sources, g) => Drawn(e.batch, u)'
    BY <2>1, <2>3
  <2> QED BY <2>1, <2>2, <2>4, <2>5 DEF Redrawn, Taken, Drawn
<1> QED BY <1>1, <1>2 DEF AllRedrawn

\* Every piece of plan p gets an edit named by `name`.
Pieces(p, name) == {EditFor(p, name[s], s) : s \in p.shapes}

(* The piece of an edit is its ground.                                     *)
LEMMA PieceUnits ==
  ASSUME NEW w \in Running, PlanOk(w), NEW s \in plan[w].shapes, NEW f
  PROVE  UnitsOf(EditFor(plan[w], f, s).content) = s
<1>1. s \subseteq UnitsOf(plan[w].content)
  BY DEF PlanOk
<1>2. EditFor(plan[w], f, s).content = {x \in plan[w].content : x[1] \in s}
  BY DEF EditFor
<1> QED BY <1>1, <1>2 DEF UnitsOf

(* Edits written under names that are the survivor's or new redraw what    *)
(* the plan's parcels held, unless they are stale.                         *)
LEMMA WriteOk ==
  ASSUME TypeOK, EditsOk, Known, AllRedrawn,
         NEW w \in Running, PlanOk(w), plan[w] \in Plan,
         NEW name \in [plan[w].shapes -> Parcel],
         \A s, t \in plan[w].shapes : s # t => name[s] # name[t],
         \A s \in plan[w].shapes : name[s] \in plan[w].sources \/ name[s] \notin Made,
         edits' = edits \cup Pieces(plan[w], name),
         Len(log') = Len(log) + 1, Made \subseteq Made'
  PROVE  EditsOk' /\ AllRedrawn'
<1> DEFINE p == plan[w]
           nb == Len(log) + 1
           New == Pieces(p, name)
<1>n. /\ Len(log) \in Nat /\ \A e \in edits : e.batch \in Nat /\ e.batch <= Len(log)
      /\ edits \subseteq Edit /\ BaseParcel \subseteq Made
  BY DEF TypeOK, EditsOk, Made
<1>1. ASSUME NEW e \in New
      PROVE  \E s \in p.shapes : /\ e = EditFor(p, name[s], s) /\ e.parcel = name[s]
                                 /\ UnitsOf(e.content) = s
                                 /\ e.batch = nb /\ e.sources = p.sources /\ e.basis = p.basis
                                 /\ e.stale = ~StillThere(p)
  <2>1. PICK s \in p.shapes : e = EditFor(p, name[s], s)
    BY DEF Pieces
  <2>2. UnitsOf(e.content) = s
    BY <2>1, PieceUnits
  <2>3. /\ e.parcel = name[s] /\ e.batch = nb /\ e.sources = p.sources /\ e.basis = p.basis
        /\ e.stale = ~StillThere(p)
    BY <2>1 DEF EditFor
  <2> QED BY <2>1, <2>2, <2>3
<1>2. \A s \in p.shapes : EditFor(p, name[s], s) \in New
  BY DEF Pieces
<1>3. edits' = edits \cup New /\ p.sources \subseteq Made
  BY DEF Known, Running
<1> HIDE DEF p, nb, New
<1>4. nb = Len(log') /\ nb = Len(log) + 1
  BY DEF nb
<1>5. \A s, t \in p.shapes : s # t => s \cap t = {} /\ name[s] # name[t]
  BY DEF PlanOk, p
<1>6. EditsOk'
  <2>1. \A e \in edits' : e.batch \in 1 .. Len(log') /\ e.sources \subseteq Made'
    BY <1>1, <1>3, <1>4, <1>n DEF EditsOk
  <2>2. ASSUME NEW d \in edits', NEW e \in edits', d.batch = e.batch, d # e PROVE OneBatch(d, e)
    <3>1. CASE d \in edits /\ e \in edits
      BY <2>2, <3>1 DEF EditsOk
    <3>2. CASE d \in New /\ e \in New
      BY <1>1, <1>5, <2>2, <3>2 DEF OneBatch
    <3> QED BY <1>1, <1>3, <1>4, <1>n, <2>2, <3>1, <3>2
  <2>3. ASSUME NEW e \in edits', e.parcel \notin e.sources PROVE NewCell(e)'
    <3>1. CASE e \in edits
      BY <1>1, <1>3, <1>4, <1>n, <2>3, <3>1 DEF EditsOk, NewCell
    <3>2. CASE e \in New
      <4>1. PICK s \in p.shapes : /\ e = EditFor(p, name[s], s) /\ e.parcel = name[s]
                                  /\ e.sources = p.sources
        BY <1>1, <3>2
      <4>2. e.parcel \notin Made
        BY <2>3, <4>1 DEF p
      <4>3. ASSUME NEW d \in edits', e.parcel \in d.sources \cup {d.parcel} PROVE d = e
        <5>1. d \notin edits
          BY <4>2, <4>3 DEF EditsOk, Known
        <5>2. PICK t \in p.shapes : /\ d = EditFor(p, name[t], t) /\ d.parcel = name[t]
                                    /\ d.sources = p.sources
          BY <1>1, <1>3, <5>1
        <5> QED BY <1>5, <2>3, <4>1, <4>3, <5>2
      <4> QED BY <1>n, <4>2, <4>3 DEF NewCell
    <3> QED BY <1>3, <3>1, <3>2
  <2> QED BY <2>1, <2>2, <2>3 DEF EditsOk, OneBatch
<1>7. ASSUME NEW e \in edits, ~e.stale PROVE Redrawn(e)'
  <2>1. PICK g \in [e.sources -> SUBSET Unit] :
          /\ \A f \in e.sources : Took(e, f, g[f])
          /\ \A u \in Unit : Drawn(e.batch, u) => Taken(u, e.sources, g)
          /\ \A u \in Unit \ Speck : Taken(u, e.sources, g) => Drawn(e.batch, u)
    BY <1>7 DEF AllRedrawn, Redrawn
  <2>2. \A d \in New : d.batch > e.batch
    BY <1>1, <1>4, <1>n
  <2>3. ASSUME NEW f \in e.sources PROVE Took(e, f, g[f])'
    <3>1. Took(e, f, g[f])
      BY <2>1
    <3>2. CASE /\ f \in BaseParcel /\ g[f] = BaseGround[f]
               /\ \A c \in edits : f \in c.sources => c.batch >= e.batch
      BY <1>3, <1>n, <1>4, <1>1, <2>2, <3>2 DEF Took
    <3>3. ASSUME NEW b \in e.basis, b < e.batch,
                 \A c \in edits : f \in c.sources => c.batch <= b \/ c.batch >= e.batch,
                 Present(b) => \E d \in edits : d.batch = b /\ d.parcel = f,
                 \A d \in edits : d.batch = b /\ d.parcel = f => g[f] = UnitsOf(d.content)
          PROVE  Took(e, f, g[f])'
      <4>0. b \in Nat /\ e.batch \in Nat /\ \A c \in New : c.batch \in Nat
        BY <1>1, <1>4, <1>n DEF Edit
      <4>1. \A d \in New : d.batch # b /\ d.batch >= e.batch
        BY <2>2, <3>3, <4>0
      <4>2. Present(b)' => \E d \in edits' : d.batch = b /\ d.parcel = f
        BY <1>3, <3>3, <4>1 DEF Present
      <4> QED BY <1>3, <3>3, <4>1, <4>2 DEF Took
    <3> QED BY <3>1, <3>2, <3>3 DEF Took
  <2>4. \A u \in Unit : Drawn(e.batch, u)' <=> Drawn(e.batch, u)
    <3>1. \A d \in New : d.batch # e.batch
      BY <1>1, <1>4, <1>n
    <3> QED BY <1>3, <3>1 DEF Drawn
  <2>5. \A u \in Unit : Drawn(e.batch, u)' => Taken(u, e.sources, g)
    BY <2>1, <2>4
  <2>6. \A u \in Unit \ Speck : Taken(u, e.sources, g) => Drawn(e.batch, u)'
    BY <2>1, <2>4
  <2> QED BY <2>1, <2>3, <2>5, <2>6 DEF Redrawn, Taken, Drawn
<1>8. ASSUME NEW e \in New, ~e.stale PROVE Redrawn(e)'
  <2> DEFINE F == e.sources
  <2>1. F = p.sources /\ e.basis = p.basis /\ e.batch = nb /\ StillThere(p)
    BY <1>1, <1>8
  <2>2. /\ F \subseteq Visible /\ p.basis = {EditOf(f).batch : f \in F \ VisibleBase}
        /\ UnitsOf(p.content) = Cut(F)
    BY <2>1 DEF StillThere, Basis
  <2>3. RowFacts /\ VisibleRows
    BY RowsOf, WhatShows
  <2>4. PICK g \in [F -> SUBSET Unit] : \A f \in F : g[f] = UnitsOf(OwnContent(f))
    <3> DEFINE h == [f \in F |-> UnitsOf(OwnContent(f))]
    <3>1. h \in [F -> SUBSET Unit]
      BY <2>2, OwnContentType DEF Content, UnitsOf
    <3>2. \A f \in F : h[f] = UnitsOf(OwnContent(f))
      OBVIOUS
    <3> HIDE DEF h
    <3> QED BY <3>1, <3>2
  <2>5. ASSUME NEW f \in F PROVE Took(e, f, g[f])'
    <3>1. CASE f \in VisibleBase
      <4>1. g[f] = BaseGround[f] /\ f \in BaseParcel /\ \A c \in edits : f \notin c.sources
        BY <2>3, <2>4, <3>1 DEF RowFacts, VisibleRows
      <4>2. \A c \in edits' : f \in c.sources => c.batch >= e.batch
        BY <1>1, <1>3, <1>4, <1>n, <2>1, <4>1
      <4> QED BY <4>1, <4>2 DEF Took
    <3>2. CASE f \notin VisibleBase
      <4> DEFINE o == EditOf(f)
      <4>1. o \in VisibleEdits /\ o.parcel = f /\ g[f] = UnitsOf(o.content)
        BY <2>2, <2>3, <2>4, <3>2 DEF RowFacts
      <4>2. o \in edits /\ \A c \in edits : f \in c.sources => c.batch <= o.batch
        BY <2>3, <4>1 DEF VisibleRows
      <4>3. o.batch \in e.basis
        BY <2>1, <2>2, <3>2
      <4> HIDE DEF o
      <4>4. /\ o.batch < e.batch
            /\ \A c \in edits' : f \in c.sources => c.batch <= o.batch \/ c.batch >= e.batch
            /\ \A d \in New : d.batch # o.batch
        BY <1>1, <1>3, <1>4, <1>n, <2>1, <4>2
      <4>5. \A d \in edits' : d.batch = o.batch /\ d.parcel = f => d = o
        BY <1>3, <4>1, <4>2, <4>4 DEF EditsOk, OneBatch
      <4>6. \E d \in edits' : d.batch = o.batch /\ d.parcel = f
        BY <1>3, <4>1, <4>2
      <4>7. \A d \in edits' : d.batch = o.batch /\ d.parcel = f => g[f] = UnitsOf(d.content)
        BY <4>1, <4>5
      <4>8. PICK b \in e.basis : b = o.batch
        BY <4>3
      <4> QED BY <4>4, <4>6, <4>7, <4>8 DEF Took
    <3> QED BY <3>1, <3>2
  <2>6. ASSUME NEW u \in Unit
        PROVE  /\ Drawn(e.batch, u)' <=> \E s \in p.shapes : u \in s
               /\ Taken(u, F, g) <=> u \in UnitsOf(p.content)
    <3>1. \A d \in edits : d.batch # e.batch
      BY <1>4, <1>n, <2>1
    <3>2. \A d \in New : \E s \in p.shapes : UnitsOf(d.content) = s
      BY <1>1
    <3>3. \A s \in p.shapes : \E d \in New : UnitsOf(d.content) = s /\ d.batch = e.batch
      BY <1>1, <1>2, <2>1, PieceUnits DEF p
    <3>4. Drawn(e.batch, u)' <=> \E s \in p.shapes : u \in s
      BY <1>3, <3>1, <3>2, <3>3 DEF Drawn
    <3>5. Taken(u, F, g) <=> u \in UNION {UnitsOf(OwnContent(f)) : f \in F}
      BY <2>4 DEF Taken
    <3> QED BY <2>2, <3>4, <3>5 DEF Cut
  <2>7. \A u \in Unit : Drawn(e.batch, u)' => Taken(u, F, g)
    <3>1. UNION p.shapes \subseteq UnitsOf(p.content)
      BY DEF PlanOk, p
    <3> QED BY <2>6, <3>1
  <2>8. \A u \in Unit \ Speck : Taken(u, F, g) => Drawn(e.batch, u)'
    <3>1. UnitsOf(p.content) \ UNION p.shapes \subseteq Speck
      BY DEF PlanOk, p, Dropped
    <3> QED BY <2>6, <3>1
  <2> QED BY <2>4, <2>5, <2>7, <2>8 DEF Redrawn, Taken, Drawn
<1> QED BY <1>3, <1>6, <1>7, <1>8 DEF AllRedrawn

-----------------------------------------------------------------------------
(* Steps.                                                                  *)

(* A step that changes no edit leaves them as they were.                   *)
LEMMA SameEdits ==
  ASSUME SInv, IInv', edits' = edits, Len(log) <= Len(log'), cells <= cells'
  PROVE  EditsOk' /\ AllRedrawn'
<1>1. TypeOK /\ EditsOk /\ AllRedrawn /\ TypeOK'
  BY DEF SInv, IInv
<1>2. \A e \in edits : e.batch # 0
  BY <1>1 DEF EditsOk, TypeOK
<1>3. edits' = {e \in edits : e.batch # 0}
  BY <1>2
<1>4. Len(log') \in Nat /\ cells \in Nat /\ cells' \in Nat
  BY <1>1, BoundsAssumption DEF TypeOK
<1>5. Made \subseteq Made'
  BY <1>4 DEF Made
<1> HIDE DEF SInv
<1> QED BY <1>1, <1>3, <1>4, <1>5, DropOk

(* Plans that go on are the plans they were.                               *)
LEMMA PlansKept ==
  ASSUME SInv, \A v \in Worker : plan'[v] \in {plan[v], NoPlan}
  PROVE  Plans'
<1>1. \A v \in Running' : v \in Running /\ plan'[v] = plan[v]
  BY DEF Running
<1>2. ASSUME NEW v \in Running' PROVE PlanOk(v)'
  <2>1. plan'[v] = plan[v] /\ PlanOk(v)
    BY <1>1 DEF SInv, Plans
  <2> QED BY <2>1 DEF PlanOk, UnitsOf
<1> QED BY <1>2 DEF Plans

(* Parcels not yet made stay unpainted if a step paints only made ones.    *)
LEMMA UnpaintedKept ==
  ASSUME SInv, TypeOK', cells <= cells',
         \A f \in Parcel \ Made : paint'[f] \in {paint[f], NoRow}
  PROVE  Unpainted'
<1>1. cells \in Nat /\ cells' \in Nat /\ Unpainted
  BY BoundsAssumption DEF SInv, IInv, TypeOK
<1>2. Made \subseteq Made'
  BY <1>1 DEF Made
<1> QED BY <1>1, <1>2 DEF Unpainted

(* Painting and clearing.                                                  *)
LEMMA PaintSafe ==
  ASSUME SInv, NEW f \in Made, (\E v \in Value : Paint(f, v)) \/ Clear(f)
  PROVE  SInv'
<1>1. IInv /\ IInv' /\ TypeOK /\ TypeOK' /\ Known
  BY PaintStep DEF SInv, IInv
<1>2. /\ edits' = edits /\ cells' = cells /\ plan' = plan
      /\ \E v \in Row : paint' = [paint EXCEPT ![f] = v]
      /\ \E B : log' = Append(log, B)
  BY DEF Paint, Clear, Row
<1>3. Len(log) <= Len(log') /\ cells <= cells'
  BY <1>1, <1>2, BoundsAssumption DEF TypeOK
<1>4. EditsOk' /\ AllRedrawn'
  BY <1>1, <1>2, <1>3, SameEdits
<1>5. \A g \in Parcel : g # f => paint'[g] = paint[g]
  BY <1>1, <1>2 DEF TypeOK
<1>6. Plans'
  BY <1>2, PlansKept
<1>7. Unpainted'
  BY <1>1, <1>3, <1>5, UnpaintedKept
<1> QED BY <1>1, <1>4, <1>6, <1>7 DEF SInv

(* A plan cuts what it reads.                                              *)
LEMMA ReadSafe ==
  ASSUME SInv, IInv', NEW w \in Worker, NEW op \in {"grid", "merge"}, NEW F, NEW shapes,
         Read(w, op, F, shapes), shapes # {},
         UNION shapes \subseteq Cut(F), Cut(F) \ UNION shapes \subseteq Dropped(op),
         \A s, t \in shapes : s # t => s \cap t = {},
         op = "merge" => \A s, t \in shapes : s = t
  PROVE  SInv'
<1>1. TypeOK /\ TypeOK' /\ Plans /\ Unpainted /\ Len(log) \in Nat /\ cells \in Nat
  BY BoundsAssumption DEF SInv, IInv, TypeOK
<1> DEFINE p == [op |-> op, sources |-> F, shapes |-> shapes,
                 content |-> ShownBy(F), basis |-> Basis(F)]
<1>2. /\ UNCHANGED <<edits, paint, log, cells>>
      /\ plan[w] = NoPlan /\ plan' = [plan EXCEPT ![w] = p]
  BY DEF Read
<1>3. EditsOk' /\ AllRedrawn'
  BY <1>1, <1>2, SameEdits
<1>4. p.op = op /\ p.shapes = shapes /\ p.content = ShownBy(F)
  OBVIOUS
<1>5. plan'[w] = p /\ \A v \in Worker : v # w => plan'[v] = plan[v]
  BY <1>1, <1>2 DEF TypeOK
<1>6. PlanOk(w)'
  <2>1. PICK q : q = plan'[w]
    OBVIOUS
  <2>2. q.op = op /\ q.shapes = shapes /\ q.content = ShownBy(F)
    BY <1>4, <1>5, <2>1
  <2>3. UnitsOf(q.content) = Cut(F)
    BY <2>2, ShownByUnits
  <2> HIDE DEF p
  <2> QED BY <2>1, <2>2, <2>3 DEF PlanOk, UnitsOf, Dropped
<1>7. ASSUME NEW v \in Running', v # w PROVE PlanOk(v)'
  <2>1. v \in Running /\ plan'[v] = plan[v]
    BY <1>5, <1>7 DEF Running
  <2>2. PlanOk(v)
    BY <1>1, <2>1 DEF Plans
  <2> QED BY <2>1, <2>2 DEF PlanOk, UnitsOf
<1>8. Plans'
  BY <1>6, <1>7 DEF Plans
<1>9. Unpainted'
  BY <1>1, <1>2 DEF Unpainted, Made
<1> QED BY <1>3, <1>8, <1>9 DEF SInv

(* Giving up.                                                              *)
LEMMA AbandonSafe ==
  ASSUME SInv, NEW w \in Worker, Abandon(w)
  PROVE  SInv'
<1>1. IInv /\ IInv' /\ TypeOK /\ TypeOK'
  BY AbandonStep DEF SInv, IInv
<1>2. UNCHANGED <<edits, paint, log>> /\ plan' = [plan EXCEPT ![w] = NoPlan]
  BY DEF Abandon
<1>3. cells <= cells' /\ Len(log) \in Nat
  <2>1. plan[w].shapes \in SUBSET (SUBSET Unit)
    BY <1>1 DEF Abandon, TypeOK, Plan
  <2>2. Cardinality(plan[w].shapes) \in Nat /\ cells \in Nat
    BY <1>1, <2>1, CellNumbers, BoundsAssumption DEF TypeOK
  <2> QED BY <1>1, <2>2 DEF Abandon, TypeOK
<1>4. EditsOk' /\ AllRedrawn'
  BY <1>1, <1>2, <1>3, SameEdits
<1>5. \A v \in Worker : plan'[v] \in {plan[v], NoPlan}
  BY <1>1, <1>2 DEF TypeOK
<1>6. Plans'
  BY <1>5, PlansKept
<1>7. Unpainted'
  BY <1>1, <1>2, <1>3, UnpaintedKept
<1> QED BY <1>1, <1>4, <1>6, <1>7 DEF SInv

(* Writing a plan's pieces: what a grid and a merge have in common.        *)
LEMMA WriteSafe ==
  ASSUME SInv, IInv', NEW w \in Running,
         NEW name \in [plan[w].shapes -> Parcel],
         \A s, t \in plan[w].shapes : s # t => name[s] # name[t],
         \A s \in plan[w].shapes : name[s] \in plan[w].sources \/ name[s] \notin Made,
         edits' = edits \cup Pieces(plan[w], name), plan' = [plan EXCEPT ![w] = NoPlan],
         Len(log') = Len(log) + 1, cells <= cells',
         \A f \in Parcel \ plan[w].sources : paint'[f] = paint[f]
  PROVE  SInv'
<1>1. TypeOK /\ TypeOK' /\ EditsOk /\ Known /\ PlanOk(w) /\ Plans /\ plan[w] \in Plan
  BY DEF SInv, IInv, Plans, TypeOK, Running
<1>2. Made \subseteq Made'
  <2>1. cells \in Nat /\ cells' \in Nat
    BY <1>1, BoundsAssumption DEF TypeOK
  <2> QED BY <2>1 DEF Made
<1>3. EditsOk' /\ AllRedrawn'
  BY <1>1, <1>2, WriteOk DEF SInv
<1>4. \A v \in Worker : plan'[v] \in {plan[v], NoPlan}
  BY <1>1 DEF TypeOK
<1>5. Plans'
  BY <1>4, PlansKept
<1>6. \A f \in Parcel \ Made : paint'[f] = paint[f]
  BY <1>1 DEF Known, Running
<1>7. Unpainted'
  BY <1>1, <1>6, UnpaintedKept
<1> QED BY <1>3, <1>5, <1>7 DEF SInv

(* A grid writes its plan's pieces as new cells.                           *)
LEMMA GridWrites ==
  ASSUME IInv, NEW w \in Worker, WriteGrid(w)
  PROVE  /\ w \in Running /\ Len(log') = Len(log) + 1 /\ cells <= cells' /\ UNCHANGED paint
         /\ plan' = [plan EXCEPT ![w] = NoPlan]
         /\ \E name \in [plan[w].shapes -> Parcel] :
              /\ \A s, t \in plan[w].shapes : s # t => name[s] # name[t]
              /\ \A s \in plan[w].shapes : name[s] \notin Made
              /\ edits' = edits \cup Pieces(plan[w], name)
<1>t. TypeOK /\ w \in Running /\ plan[w] \in Plan
  BY DEF IInv, WriteGrid, Running, TypeOK
<1> DEFINE P == plan[w].shapes
           n == Cardinality(P)
           cell == CHOOSE c \in [P -> NextIds(n)] : \A s, t \in P : s # t => c[s] # c[t]
<1>1. /\ cells + n <= MaxCells /\ cells' = cells + n /\ UNCHANGED paint
      /\ edits' = edits \cup {EditFor(plan[w], cell[s], s) : s \in P}
      /\ plan' = [plan EXCEPT ![w] = NoPlan]
      /\ \E B : log' = Append(log, B)
  BY DEF WriteGrid
<1>2. /\ n \in Nat /\ \E c \in [P -> NextIds(n)] : \A s, t \in P : s # t => c[s] # c[t]
  BY <1>t, CellNumbers DEF Plan
<1>3. cell \in [P -> NextIds(n)] /\ \A s, t \in P : s # t => cell[s] # cell[t]
  BY <1>2
<1>4. PICK name : name = cell
  OBVIOUS
<1>5. edits' = edits \cup Pieces(plan[w], name)
  BY <1>1, <1>4 DEF Pieces
<1> HIDE DEF cell, n
<1>6. cells \in Nat /\ MaxCells \in Nat
  BY <1>t, BoundsAssumption DEF TypeOK
<1>7. ASSUME NEW f \in NextIds(n) PROVE f \in Parcel /\ f \notin Made
  <2>1. PICK k \in (cells + 1) .. (cells + n) : f = -k
    BY DEF NextIds
  <2>2. k \in 1 .. MaxCells /\ k \notin 1 .. cells /\ k \in Nat \ {0}
    BY <1>1, <1>2, <1>6
  <2>3. f \notin BaseParcel
    BY <2>1, <2>2, ParcelIsInt
  <2>4. \A m \in 1 .. cells : -m # f
    BY <1>6, <2>1, <2>2
  <2> QED BY <2>1, <2>2, <2>3, <2>4 DEF Made, Parcel
<1>8. name \in [P -> Parcel] /\ \A s \in P : name[s] \notin Made
  BY <1>3, <1>4, <1>7
<1>9. Len(log') = Len(log) + 1 /\ cells <= cells'
  BY <1>t, <1>1, <1>2, <1>6 DEF TypeOK
<1> QED BY <1>t, <1>1, <1>3, <1>4, <1>5, <1>8, <1>9

(* A merge writes its plan's one piece as the survivor.                    *)
LEMMA MergeWrites ==
  ASSUME SInv, NEW w \in Worker, WriteMerge(w)
  PROVE  /\ w \in Running /\ Len(log') = Len(log) + 1 /\ cells' = cells
         /\ plan' = [plan EXCEPT ![w] = NoPlan]
         /\ \E survivor \in plan[w].sources :
              /\ survivor \in Parcel
              /\ paint' = [paint EXCEPT ![survivor] = NoRow]
              /\ \E name \in [plan[w].shapes -> Parcel] :
                   /\ \A s \in plan[w].shapes : name[s] = survivor
                   /\ \A s, t \in plan[w].shapes : s # t => name[s] # name[t]
                   /\ edits' = edits \cup Pieces(plan[w], name)
<1>t. /\ TypeOK /\ Known /\ w \in Running /\ plan[w] \in Plan /\ PlanOk(w) /\ plan[w].op = "merge"
  BY DEF SInv, IInv, WriteMerge, Running, TypeOK, Plans
<1> DEFINE survivor == Survivor(plan[w].sources)
<1>1. /\ edits' = edits \cup {EditFor(plan[w], survivor, s) : s \in plan[w].shapes}
      /\ paint' = [paint EXCEPT ![survivor] = NoRow]
      /\ plan' = [plan EXCEPT ![w] = NoPlan] /\ UNCHANGED cells
      /\ \E B : log' = Append(log, B)
  BY DEF WriteMerge
<1>2. survivor \in plan[w].sources /\ survivor \in Parcel
  BY <1>t, SurvivorIsSource DEF Known, Running, Plan
<1>3. PICK name : name = [s \in plan[w].shapes |-> survivor]
  OBVIOUS
<1> HIDE DEF survivor
<1>4. /\ name \in [plan[w].shapes -> Parcel] /\ \A s \in plan[w].shapes : name[s] = survivor
      /\ \A s, t \in plan[w].shapes : s # t => name[s] # name[t]
  BY <1>t, <1>2, <1>3 DEF PlanOk
<1>5. edits' = edits \cup Pieces(plan[w], name)
  BY <1>1, <1>4 DEF Pieces
<1>6. Len(log') = Len(log) + 1
  BY <1>t, <1>1 DEF TypeOK
<1> QED BY <1>t, <1>1, <1>2, <1>4, <1>5, <1>6

(* Grids and merges write what redraws their parcels, or is stale.         *)
LEMMA WritesSafe ==
  ASSUME SInv, NEW w \in Worker, WriteGrid(w) \/ WriteMerge(w)
  PROVE  SInv'
<1>1. IInv' /\ TypeOK /\ Known
  BY GridStep, MergeStep DEF SInv, IInv
<1>2. CASE WriteGrid(w)
  BY <1>1, <1>2, GridWrites, WriteSafe DEF SInv
<1>3. CASE WriteMerge(w)
  <2>1. /\ w \in Running /\ Len(log') = Len(log) + 1 /\ cells' = cells
        /\ plan' = [plan EXCEPT ![w] = NoPlan]
    BY <1>3, MergeWrites
  <2>2. PICK survivor \in plan[w].sources :
              /\ survivor \in Parcel
              /\ paint' = [paint EXCEPT ![survivor] = NoRow]
              /\ \E name \in [plan[w].shapes -> Parcel] :
                   /\ \A s \in plan[w].shapes : name[s] = survivor
                   /\ \A s, t \in plan[w].shapes : s # t => name[s] # name[t]
                   /\ edits' = edits \cup Pieces(plan[w], name)
    BY <1>3, MergeWrites
  <2>3. cells <= cells'
    BY <1>1, <2>1, BoundsAssumption DEF TypeOK
  <2>4. \A f \in Parcel \ plan[w].sources : paint'[f] = paint[f]
    BY <1>1, <2>2 DEF TypeOK
  <2>5. PICK name \in [plan[w].shapes -> Parcel] :
          /\ \A s \in plan[w].shapes : name[s] = survivor
          /\ \A s, t \in plan[w].shapes : s # t => name[s] # name[t]
          /\ edits' = edits \cup Pieces(plan[w], name)
    BY <2>2
  <2>6. \A s \in plan[w].shapes : name[s] \in plan[w].sources \/ name[s] \notin Made
    BY <2>5
  <2> HIDE DEF SInv
  <2> QED BY <1>1, <2>1, <2>3, <2>4, <2>5, <2>6, WriteSafe
<1> QED BY <1>2, <1>3

\* The log with events S of batch i marked as undone.
Marked(i, S) == [log EXCEPT ![i].undone = @ \cup S]

(* An undo marks its batch and changes nothing else of the log.            *)
LEMMA MarkedLog ==
  ASSUME TypeOK, NEW i \in DOMAIN log, NEW S \in SUBSET (Parcel \cup {Geometry})
  PROVE  /\ Marked(i, S) \in Seq(Batch) /\ Len(Marked(i, S)) = Len(log)
         /\ \A k \in DOMAIN log :
              LET r == Marked(i, S)[k]
              IN  /\ r.op = log[k].op /\ r.events = log[k].events /\ r.old = log[k].old
                  /\ r.reverts = log[k].reverts /\ r.before = log[k].before
                  /\ log[k].undone \subseteq r.undone /\ (k = i => S \subseteq r.undone)
<1> DEFINE b == [log[i] EXCEPT !.undone = @ \cup S]
<1>1. log \in Seq(Batch) /\ i \in 1 .. Len(log) /\ log[i] \in Batch
  BY DEF TypeOK
<1>2. b \in Batch
  BY <1>1 DEF Batch
<1>3. /\ b.op = log[i].op /\ b.events = log[i].events /\ b.old = log[i].old
      /\ b.reverts = log[i].reverts /\ b.before = log[i].before
      /\ b.undone = log[i].undone \cup S
  BY <1>1 DEF Batch
<1>4. Marked(i, S) = [log EXCEPT ![i] = b]
  BY DEF Marked
<1> HIDE DEF b
<1>5. Marked(i, S) \in Seq(Batch) /\ Len(Marked(i, S)) = Len(log)
  <2>1. [log EXCEPT ![i] = b] \in Seq(Batch)
    BY <1>1, <1>2
  <2>2. Len([log EXCEPT ![i] = b]) = Len(log)
    BY <1>1, <1>2
  <2> QED BY <1>4, <2>1, <2>2, Zenon
<1>6. \A k \in DOMAIN log : Marked(i, S)[k] = IF k = i THEN b ELSE log[k]
  BY <1>1, <1>4
<1>7. ASSUME NEW k \in DOMAIN log, NEW r, r = Marked(i, S)[k]
      PROVE  /\ r.op = log[k].op /\ r.events = log[k].events /\ r.old = log[k].old
             /\ r.reverts = log[k].reverts /\ r.before = log[k].before
             /\ log[k].undone \subseteq r.undone /\ (k = i => S \subseteq r.undone)
  BY <1>3, <1>6, <1>7
<1> QED BY <1>5, <1>7

(* Undoing.                                                                *)
LEMMA UndoSafe ==
  ASSUME SInv, NEW i \in DOMAIN log, NEW S, Undo(i, S)
  PROVE  SInv'
<1>1. IInv /\ IInv' /\ TypeOK /\ TypeOK' /\ Known /\ EditsOk /\ AllRedrawn
  BY UndoStep DEF SInv, IInv
<1> DEFINE gone == {e \in edits : e.batch = i}
           restored == IF log[i].op = "undo" THEN {} ELSE S \ {Geometry}
<1>2. /\ S \subseteq log[i].events
      /\ edits' = edits \ gone
      /\ paint' = [f \in Parcel |-> IF f \in Vanishing(gone) THEN NoRow
                                     ELSE IF f \in restored THEN log[i].old[f] ELSE paint[f]]
      /\ log' = Append(Marked(i, S), BatchOf("undo", S, i)) /\ UNCHANGED <<cells, plan>>
  BY DEF Undo, Marked
<1>3. Len(log') = Len(log) + 1 /\ Len(log) \in Nat
  <2>0. log[i] \in Batch
    BY <1>1 DEF TypeOK
  <2>1. S \in SUBSET (Parcel \cup {Geometry})
    BY <1>2, <2>0 DEF Batch
  <2>2. Marked(i, S) \in Seq(Batch) /\ Len(Marked(i, S)) = Len(log)
    BY <1>1, <2>1, MarkedLog
  <2> QED BY <1>1, <1>2, <2>2, SMTT(20) DEF TypeOK
<1>4. restored \subseteq Made
  BY <1>1, <1>2 DEF Known
<1>5. edits' = {e \in edits : e.batch # i}
  BY <1>2
<1> HIDE DEF restored, gone
<1>6. EditsOk' /\ AllRedrawn'
  <2>1. Made \subseteq Made'
    BY <1>2 DEF Made
  <2>2. Len(log') \in Nat /\ Len(log) <= Len(log')
    BY <1>3
  <2> QED BY <1>1, <1>5, <2>1, <2>2, DropOk
<1>7. Plans'
  BY <1>2, PlansKept
<1>8. \A f \in Parcel \ Made : paint'[f] \in {paint[f], NoRow}
  BY <1>2, <1>4
<1>9. cells <= cells'
  BY <1>1, <1>2, BoundsAssumption DEF TypeOK
<1>10. Unpainted'
  BY <1>1, <1>8, <1>9, UnpaintedKept
<1> QED BY <1>1, <1>6, <1>7, <1>10 DEF SInv

(* The cells of a grid cut its ground, but for specks.                     *)
LEMMA CellsCut ==
  ASSUME NEW G \in SUBSET Unit, NEW shapes \in GridCells(G)
  PROVE  /\ shapes \in SUBSET (SUBSET Unit)
         /\ UNION shapes \subseteq G /\ G \ UNION shapes \subseteq Speck
         /\ \A s, t \in shapes : s # t => s \cap t = {}
<1>1. PICK P \in Partitions[G] : shapes = {s \in P : ~(s \subseteq Speck)}
  BY DEF GridCells
<1>2. /\ P \in SUBSET (SUBSET G) /\ UNION P = G
      /\ \A s, t \in P : s # t => s \cap t = {}
  BY <1>1 DEF Partitions
<1>3. ASSUME NEW u \in G \ UNION shapes PROVE u \in Speck
  <2>1. PICK s \in P : u \in s
    BY <1>2
  <2> QED BY <1>1, <1>3, <2>1
<1> QED BY <1>1, <1>2, <1>3

(* A grid and a merge read shapes that cut the selection.                  *)
LEMMA ReadsSafe ==
  ASSUME SInv, NEW w \in Worker, NEW F \in SUBSET Visible,
         (\E shapes \in GridCells(Cut(F)) : ReadGrid(w, F, shapes)) \/ ReadMerge(w, F)
  PROVE  SInv'
<1>1. IInv /\ TypeOK
  BY DEF SInv, IInv
<1>2. Cut(F) \in SUBSET Unit
  BY <1>1, ShapesType
<1>3. ASSUME NEW shapes \in GridCells(Cut(F)), ReadGrid(w, F, shapes) PROVE SInv'
  <2>1. /\ shapes \in SUBSET (SUBSET Unit) /\ UNION shapes \subseteq Cut(F)
        /\ Cut(F) \ UNION shapes \subseteq Dropped("grid")
        /\ \A s, t \in shapes : s # t => s \cap t = {}
    BY <1>2, CellsCut DEF Dropped
  <2>2. Read(w, "grid", F, shapes) /\ shapes # {}
    BY <1>3 DEF ReadGrid
  <2>3. IInv'
    BY <1>1, <2>1, <2>2, ReadStep
  <2> HIDE DEF SInv, IInv
  <2> QED BY <2>1, <2>2, <2>3, ReadSafe
<1>4. ASSUME ReadMerge(w, F) PROVE SInv'
  <2>1. {Cut(F)} \in SUBSET (SUBSET Unit) /\ UNION {Cut(F)} = Cut(F) /\ {Cut(F)} # {}
    BY <1>2
  <2>2. Read(w, "merge", F, {Cut(F)})
    BY <1>4 DEF ReadMerge
  <2>3. IInv'
    BY <1>1, <2>1, <2>2, ReadStep
  <2>4. \A s, t \in {Cut(F)} : s = t
    OBVIOUS
  <2>5. Cut(F) \ UNION {Cut(F)} \subseteq Dropped("merge")
    BY <2>1
  <2> HIDE DEF SInv, IInv
  <2> QED BY <2>1, <2>2, <2>3, <2>4, <2>5, ReadSafe
<1> QED BY <1>3, <1>4

(* Nothing is edited, planned or painted in the beginning.                 *)
LEMMA InitSafe == Init => SInv
<1> SUFFICES ASSUME Init PROVE SInv
  OBVIOUS
<1>1. edits = {} /\ Running = {} /\ \A f \in Parcel : paint[f] = NoRow
  BY DEF Init, Running
<1> QED BY <1>1, InitInv DEF SInv, EditsOk, AllRedrawn, Plans, Unpainted

(* Every step keeps edits redrawn.                                         *)
LEMMA StepSafe == SInv /\ [Next]_vars => SInv'
<1> SUFFICES ASSUME SInv, [Next]_vars PROVE SInv'
  OBVIOUS
<1>1. ASSUME NEW f \in Made, (\E v \in Value : Paint(f, v)) \/ Clear(f) PROVE SInv'
  BY <1>1, PaintSafe
<1>2. ASSUME NEW w \in Worker, NEW F \in SUBSET Visible,
             (\E shapes \in GridCells(Cut(F)) : ReadGrid(w, F, shapes)) \/ ReadMerge(w, F)
      PROVE  SInv'
  BY <1>2, ReadsSafe
<1>3. ASSUME NEW w \in Worker, WriteGrid(w) \/ WriteMerge(w) \/ Abandon(w) PROVE SInv'
  BY <1>3, WritesSafe, AbandonSafe
<1>4. ASSUME NEW i \in DOMAIN log, (\E x \in log[i].events : UndoEvent(i, x)) \/ UndoBatch(i)
      PROVE  SInv'
  BY <1>4, UndoSafe DEF UndoEvent, UndoBatch
<1>5. CASE UNCHANGED vars
  <2>1. IInv' /\ TypeOK /\ TypeOK' /\ EditsOk
    BY <1>5, StepInv DEF SInv, IInv
  <2>2. UNCHANGED <<edits, paint, log, cells, plan>> /\ Len(log) \in Nat /\ cells \in Nat
    BY <1>5, <2>1, BoundsAssumption DEF vars, TypeOK
  <2>3. EditsOk' /\ AllRedrawn'
    BY <2>1, <2>2, SameEdits
  <2>4. Plans'
    BY <2>2, PlansKept
  <2>5. Unpainted'
    BY <2>2 DEF SInv, Unpainted, Made
  <2> QED BY <2>1, <2>3, <2>4, <2>5 DEF SInv
<1> QED BY <1>1, <1>2, <1>3, <1>4, <1>5 DEF Next

(* They are in every reachable state.                                      *)
LEMMA SafeInvariant == Spec => []SInv
BY InitSafe, StepSafe, PTL DEF Spec

-----------------------------------------------------------------------------
(* What grids and merges show.                                             *)

(* The pieces of a plan hold what it has read, but for what it drops.      *)
LEMMA PiecesHold ==
  ASSUME NEW w \in Running, PlanOk(w), NEW name
  PROVE  LET held == UNION {e.content : e \in Pieces(plan[w], name)}
         IN  /\ held \subseteq plan[w].content
             /\ UnitsOf(plan[w].content \ held) \subseteq Dropped(plan[w].op)
<1> DEFINE p == plan[w]
           held == UNION {e.content : e \in Pieces(p, name)}
<1>1. UnitsOf(p.content) \ UNION p.shapes \subseteq Dropped(p.op)
  BY DEF PlanOk
<1>2. {e.content : e \in Pieces(p, name)} = {{x \in p.content : x[1] \in s} : s \in p.shapes}
  <2>1. \A s \in p.shapes : EditFor(p, name[s], s).content = {x \in p.content : x[1] \in s}
    BY DEF EditFor
  <2> HIDE DEF p
  <2> QED BY <2>1 DEF Pieces
<1>3. held = {x \in p.content : x[1] \in UNION p.shapes}
  <2>1. PICK parts : parts = {{x \in p.content : x[1] \in s} : s \in p.shapes}
    OBVIOUS
  <2>2. held = UNION parts
    BY <1>2, <2>1
  <2> HIDE DEF held, p
  <2> QED BY <2>1, <2>2
<1> HIDE DEF held, p
<1>4. held \subseteq p.content /\ UnitsOf(p.content \ held) \subseteq Dropped(p.op)
  BY <1>1, <1>3 DEF UnitsOf
<1> QED BY <1>4 DEF p, held

(* Writing a plan's pieces shows what its parcels showed, but for what the *)
(* plan drops, if they still show what it read.                            *)
LEMMA WriteConserves ==
  ASSUME SInv, SInv', NEW w \in Running,
         plan[w].sources \subseteq Visible, ShownBy(plan[w].sources) = plan[w].content,
         NEW name \in [plan[w].shapes -> Parcel],
         \A s \in plan[w].shapes : name[s] \in plan[w].sources \/ name[s] \notin Made,
         edits' = edits \cup Pieces(plan[w], name),
         \A f \in Parcel \ plan[w].sources : paint'[f] = paint[f],
         \A s \in plan[w].shapes : paint'[name[s]] = NoRow
  PROVE  /\ ShownGround' \subseteq ShownGround
         /\ UnitsOf(ShownGround \ ShownGround') \subseteq Dropped(plan[w].op)
<1> DEFINE F == plan[w].sources
           New == Pieces(plan[w], name)
<1>1. /\ TypeOK /\ TypeOK' /\ EditsOk /\ EditsOk' /\ Known /\ PlanOk(w) /\ plan[w] \in Plan
      /\ VisibleRows /\ VisibleRows' /\ RowFacts /\ RowFacts'
  BY RowsOf, RowsOfNext, WhatShows, WhatShowsNext DEF SInv, IInv, Plans, TypeOK, Running
<1>2. Visible \subseteq Made /\ Made \subseteq Parcel /\ F \subseteq Visible
  BY <1>1, VisibleIsMade
<1>3. /\ \A e \in New : \E s \in plan[w].shapes : /\ e.parcel = name[s] /\ e.sources = F
                                                  /\ e.batch = Len(log) + 1
      /\ \A s \in plan[w].shapes : \E e \in New : e.parcel = name[s]
  <2>1. \A s \in plan[w].shapes :
          /\ EditFor(plan[w], name[s], s).parcel = name[s]
          /\ EditFor(plan[w], name[s], s).sources = F
          /\ EditFor(plan[w], name[s], s).batch = Len(log) + 1
    BY DEF EditFor
  <2> QED BY <2>1 DEF Pieces
<1>n. /\ Len(log) \in Nat /\ \A e \in edits : e.batch \in Nat /\ e.batch <= Len(log)
      /\ \A e \in edits' : e \in edits \/ e \in New
      /\ New \subseteq edits' /\ edits \subseteq edits' /\ New # {}
  <2>1. plan[w].shapes # {}
    BY <1>1 DEF PlanOk
  <2> QED BY <1>1, <1>3, <2>1 DEF TypeOK, EditsOk
<1> HIDE DEF New
<1>4. ASSUME NEW f \in Visible \ F PROVE f \in Visible' /\ Shown(f)' = Shown(f)
  <2>1. LeftAlone(f)
    BY <1>2, <1>3, <1>n DEF LeftAlone
  <2>2. f \in Visible' /\ OwnContent(f)' = OwnContent(f)
    BY <1>1, <2>1, Stays
  <2>3. paint'[f] = paint[f]
    BY <1>2
  <2> QED BY <2>2, <2>3 DEF Shown
<1>5. ASSUME NEW e \in New PROVE e.parcel \in Visible' /\ Shown(e.parcel)' = e.content
  <2>1. e \in VisibleEdits'
    BY <1>1, <1>3, <1>n DEF VisibleRows
  <2>2. e.parcel \in Visible' /\ OwnContent(e.parcel)' = e.content
    BY <1>1, <2>1 DEF RowFacts
  <2>3. paint'[e.parcel] = NoRow
    BY <1>3
  <2> QED BY <2>2, <2>3 DEF Shown
<1>6. ASSUME NEW f \in Visible', \A e \in New : e.parcel # f PROVE f \in Visible \ F
  <2>1. CASE f \in VisibleBase'
    <3>1. f \in VisibleBase /\ f \notin F
      BY <1>1, <1>3, <1>n, <2>1 DEF VisibleRows
    <3> QED BY <3>1 DEF Visible
  <2>2. CASE f \notin VisibleBase'
    <3>1. PICK e \in VisibleEdits' : e.parcel = f
      BY <2>2 DEF Visible
    <3>2. e \in edits /\ \A d \in edits' : f \in d.sources => d.batch <= e.batch
      BY <1>1, <1>6, <1>n, <3>1 DEF VisibleRows
    <3>3. f \notin F
      BY <1>3, <1>n, <3>2
    <3>4. e \in VisibleEdits
      BY <1>1, <1>n, <3>1, <3>2 DEF VisibleRows
    <3> QED BY <3>1, <3>3, <3>4 DEF Visible
  <2> QED BY <2>1, <2>2
<1> DEFINE held == UNION {e.content : e \in New}
<1>7. /\ held \subseteq UNION {Shown(f) : f \in F}
      /\ UnitsOf((UNION {Shown(f) : f \in F}) \ held) \subseteq Dropped(plan[w].op)
  BY <1>1, PiecesHold DEF New, ShownBy
<1>8. ShownGround = UNION {Shown(f) : f \in Visible} /\ ShownGround' = UNION {Shown(f)' : f \in Visible'}
  BY DEF ShownGround
<1>9. ASSUME NEW x \in ShownGround, x \notin ShownGround'
      PROVE  x \in (UNION {Shown(f) : f \in F}) \ held
  <2>1. PICK f \in Visible : x \in Shown(f)
    BY <1>8
  <2>2. f \in F
    BY <1>4, <1>8, <1>9, <2>1
  <2>3. \A e \in New : x \notin e.content
    BY <1>5, <1>8, <1>9
  <2> QED BY <2>1, <2>2, <2>3
<1>10. ASSUME NEW x \in ShownGround' PROVE x \in ShownGround
  <2>1. PICK f \in Visible' : x \in Shown(f)'
    BY <1>8
  <2>2. CASE \A e \in New : e.parcel # f
    BY <1>4, <1>6, <1>8, <2>1, <2>2
  <2>3. CASE \E e \in New : e.parcel = f
    <3>1. PICK e \in New : x \in e.content
      BY <1>5, <2>1, <2>3
    <3>2. PICK g \in F : x \in Shown(g)
      BY <1>7, <3>1
    <3> QED BY <1>2, <1>8, <3>2
  <2> QED BY <2>2, <2>3
<1> HIDE DEF held
<1>11. UnitsOf(ShownGround \ ShownGround') \subseteq Dropped(plan[w].op)
  BY <1>7, <1>9 DEF UnitsOf
<1> QED BY <1>10, <1>11

(* A task that writes over what it read shows the same of the ground, but  *)
(* for what its plan drops.                                                *)
LEMMA StepConserves ==
  ASSUME SInv, SInv', [Next]_vars, NEW w \in Worker, WritesAsRead(w)
  PROVE  /\ ShownGround' \subseteq ShownGround
         /\ UnitsOf(ShownGround \ ShownGround') \subseteq Dropped(plan[w].op)
<1>1. TypeOK /\ TypeOK' /\ Known /\ Unpainted
  BY DEF SInv, IInv
<1>2. /\ plan[w] # NoPlan /\ plan'[w] = NoPlan /\ edits' # edits
      /\ plan[w].sources \subseteq Visible /\ ShownBy(plan[w].sources) = plan[w].content
  BY DEF WritesAsRead
<1>5. WriteGrid(w) \/ WriteMerge(w)
  <2>1. ASSUME NEW i, NEW S, Undo(i, S) PROVE FALSE
    BY <1>2, <2>1 DEF Undo
  <2>2. ASSUME NEW v \in Worker, WriteGrid(v) \/ WriteMerge(v) PROVE v = w
    <3>1. plan' = [plan EXCEPT ![v] = NoPlan]
      BY <2>2 DEF WriteGrid, WriteMerge
    <3> QED BY <1>1, <1>2, <3>1 DEF TypeOK
  <2>3. ~UNCHANGED vars
    BY <1>2 DEF vars
  <2>4. /\ \A f, v : ~Paint(f, v)
        /\ \A f : ~Clear(f)
        /\ \A v : ~Abandon(v)
        /\ \A v, F : ~ReadMerge(v, F)
        /\ \A v, F, shapes : ~ReadGrid(v, F, shapes)
    BY <1>2 DEF Paint, Clear, ReadGrid, ReadMerge, Read, Abandon
  <2> QED BY <2>1, <2>2, <2>3, <2>4 DEF Next, UndoEvent, UndoBatch
<1>3. CASE WriteGrid(w)
  <2>1. w \in Running /\ paint' = paint
    BY <1>3, GridWrites DEF SInv
  <2>2. PICK name \in [plan[w].shapes -> Parcel] :
              /\ \A s \in plan[w].shapes : name[s] \notin Made
              /\ edits' = edits \cup Pieces(plan[w], name)
    BY <1>3, GridWrites DEF SInv
  <2>3. \A s \in plan[w].shapes : paint'[name[s]] = NoRow
    BY <1>1, <2>1, <2>2 DEF Unpainted
  <2> HIDE DEF SInv
  <2> QED BY <1>2, <2>1, <2>2, <2>3, WriteConserves
<1>4. CASE WriteMerge(w)
  <2>1. /\ w \in Running
        /\ \E survivor \in plan[w].sources :
              /\ survivor \in Parcel
              /\ paint' = [paint EXCEPT ![survivor] = NoRow]
              /\ \E name \in [plan[w].shapes -> Parcel] :
                   /\ \A s \in plan[w].shapes : name[s] = survivor
                   /\ \A s, t \in plan[w].shapes : s # t => name[s] # name[t]
                   /\ edits' = edits \cup Pieces(plan[w], name)
    BY <1>4, MergeWrites
  <2>2. PICK survivor \in plan[w].sources :
              /\ survivor \in Parcel
              /\ paint' = [paint EXCEPT ![survivor] = NoRow]
              /\ \E name \in [plan[w].shapes -> Parcel] :
                   /\ \A s \in plan[w].shapes : name[s] = survivor
                   /\ edits' = edits \cup Pieces(plan[w], name)
    BY <2>1
  <2>3. PICK name \in [plan[w].shapes -> Parcel] :
              /\ \A s \in plan[w].shapes : name[s] = survivor
              /\ edits' = edits \cup Pieces(plan[w], name)
    BY <2>2
  <2>5. \A f \in Parcel : paint'[f] = IF f = survivor THEN NoRow ELSE paint[f]
    BY <1>1, <2>2 DEF TypeOK
  <2>6. /\ \A s \in plan[w].shapes : paint'[name[s]] = NoRow
        /\ \A f \in Parcel \ plan[w].sources : paint'[f] = paint[f]
        /\ \A s \in plan[w].shapes : name[s] \in plan[w].sources
    BY <2>2, <2>3, <2>5
  <2> HIDE DEF SInv
  <2> QED BY <1>2, <2>1, <2>3, <2>6, WriteConserves
<1> QED BY <1>3, <1>4, <1>5

-----------------------------------------------------------------------------
(* The canvas of other edits and other paint, as the view would show it.   *)

ClaimantIn(E, f) ==
  LET claims == {e.batch : e \in {d \in E : f \in d.sources}}
  IN  IF claims = {} THEN 0 ELSE CHOOSE b \in claims : \A d \in claims : d <= b

EditsIn(E) == {e \in E : ClaimantIn(E, e.parcel) <= e.batch}

BaseIn(E) == {f \in BaseParcel : ClaimantIn(E, f) = 0}

VisibleIn(E) == BaseIn(E) \cup {e.parcel : e \in EditsIn(E)}

EditIn(E, f) == CHOOSE e \in EditsIn(E) : e.parcel = f

ContentIn(E, f) ==
  IF f \in BaseIn(E) THEN BaseGround[f] \X {"base"} ELSE EditIn(E, f).content

ShownIn(E, P, f) ==
  IF P[f] = NoRow THEN ContentIn(E, f) ELSE UnitsOf(ContentIn(E, f)) \X {P[f]}

CanvasIn(E, P) ==
  [f \in Parcel |-> IF f \in VisibleIn(E)
                    THEN [paint |-> P[f], content |-> ShownIn(E, P, f)] ELSE Absent]

(* The canvas is that of the edits and the paint there are.                *)
LEMMA CanvasIsIn == Canvas = CanvasIn(edits, paint)
<1>1. \A f : Claimant(f) = ClaimantIn(edits, f)
  BY DEF Claimant, ClaimantIn
<1>2. VisibleEdits = EditsIn(edits) /\ VisibleBase = BaseIn(edits)
  BY <1>1 DEF VisibleEdits, EditsIn, VisibleBase, BaseIn
<1>3. Visible = VisibleIn(edits)
  BY <1>2 DEF Visible, VisibleIn
<1>4. \A f : EditOf(f) = EditIn(edits, f)
  BY <1>2 DEF EditOf, EditIn
<1>5. \A f : OwnContent(f) = ContentIn(edits, f)
  BY <1>2, <1>4 DEF OwnContent, ContentIn
<1>6. \A f : Shown(f) = ShownIn(edits, paint, f)
  BY <1>5 DEF Shown, ShownIn
<1> QED BY <1>3, <1>6 DEF Canvas, CanvasIn

(* ... also after a step.                                                  *)
LEMMA CanvasIsInNext == Canvas' = CanvasIn(edits', paint')
<1>1. (Canvas = CanvasIn(edits, paint))'
  BY CanvasIsIn, PTL
<1> QED BY <1>1

(* Only the paint of parcels that are on the canvas matters.               *)
LEMMA SamePaint ==
  ASSUME NEW E, NEW P, NEW Q, \A f \in VisibleIn(E) \cap Parcel : P[f] = Q[f]
  PROVE  CanvasIn(E, P) = CanvasIn(E, Q)
<1>1. \A f \in VisibleIn(E) \cap Parcel : ShownIn(E, P, f) = ShownIn(E, Q, f)
  BY DEF ShownIn
<1> QED BY <1>1 DEF CanvasIn

-----------------------------------------------------------------------------
(* Batches that stand, and the canvas before them.                         *)

\* Batches that are no undo and that none has taken back.
Standing == {k \in DOMAIN log : ~Undoing(k) /\ \A m \in DOMAIN log : log[m].reverts # k}

Since(k, f) == {j \in Standing : j >= k /\ f \in log[j].events}

\* The paint before batch k: what the first batch since then logged as old.
PaintAt(k) ==
  [f \in Parcel |-> IF Since(k, f) = {} THEN paint[f]
                    ELSE log[CHOOSE j \in Since(k, f) : \A i \in Since(k, f) : j <= i].old[f]]

EditsBefore(k) == {e \in edits : e.batch < k}

\* What each batch was applied to is what is left without it and all later
\* ones.
Remembered == \A k \in Standing : log[k].before = CanvasIn(EditsBefore(k), PaintAt(k))

\* An undo is of an earlier batch, whose events it marked.
UndosOk ==
  \A m \in DOMAIN log :
    /\ ~Undoing(m) => log[m].reverts = 0
    /\ Undoing(m) => /\ log[m].reverts \in 1 .. (m - 1) /\ log[m].events # {}
                     /\ log[m].events \subseteq log[log[m].reverts].undone

EditsStand == \A e \in edits : e.batch \in Standing

NewCells ==
  \A e \in edits : e.parcel \notin e.sources =>
    /\ e.parcel \notin BaseParcel
    /\ \A d \in edits : d.parcel = e.parcel => d.batch >= e.batch

UInv == IInv /\ UndosOk /\ EditsStand /\ NewCells /\ (UndoneInOrder => Remembered)

(* The log and its entries.                                                *)
LEMMA LogIs ==
  ASSUME TypeOK
  PROVE  /\ log \in Seq(Batch) /\ Len(log) \in Nat /\ DOMAIN log = 1 .. Len(log)
         /\ \A m \in 1 .. Len(log) : log[m].reverts \in Nat
<1>1. log \in Seq(Batch)
  BY DEF TypeOK
<1>2. Len(log) \in Nat /\ DOMAIN log = 1 .. Len(log)
  BY <1>1
<1>3. ASSUME NEW m \in 1 .. Len(log) PROVE log[m].reverts \in Nat
  <2>1. log[m] \in Batch
    BY <1>1
  <2> QED BY <2>1 DEF Batch
<1> QED BY <1>1, <1>2, <1>3

(* Standing batches are numbered like the log.                             *)
LEMMA StandingIs ==
  ASSUME TypeOK PROVE Standing \subseteq 1 .. Len(log) /\ Standing \subseteq Nat /\ Len(log) \in Nat
BY DEF TypeOK, Standing

(* The paint before a batch, by the first batch that touched the parcel.   *)
LEMMA PaintAtIs ==
  TypeOK => \A k \in Nat, f \in Parcel :
    /\ (\A j \in Standing : j >= k => f \notin log[j].events) => PaintAt(k)[f] = paint[f]
    /\ \A j \in Standing :
         j >= k /\ f \in log[j].events /\ (\A i \in Standing : i >= k /\ i < j => f \notin log[i].events)
           => PaintAt(k)[f] = log[j].old[f]
<1> SUFFICES ASSUME TypeOK, NEW k \in Nat, NEW f \in Parcel
             PROVE  /\ (\A j \in Standing : j >= k => f \notin log[j].events) => PaintAt(k)[f] = paint[f]
                    /\ \A j \in Standing :
                         j >= k /\ f \in log[j].events
                              /\ (\A i \in Standing : i >= k /\ i < j => f \notin log[i].events)
                           => PaintAt(k)[f] = log[j].old[f]
  OBVIOUS
<1>1. ASSUME \A j \in Standing : j >= k => f \notin log[j].events
      PROVE  PaintAt(k)[f] = paint[f]
  <2>1. Since(k, f) = {}
    BY <1>1 DEF Since
  <2> QED BY <2>1 DEF PaintAt
<1>2. ASSUME NEW j \in Standing, j >= k, f \in log[j].events,
             \A i \in Standing : i >= k /\ i < j => f \notin log[i].events
      PROVE  PaintAt(k)[f] = log[j].old[f]
  <2>1. j \in Since(k, f) /\ \A i \in Since(k, f) : j <= i /\ i \in Nat /\ j \in Nat
    BY <1>2, StandingIs DEF Since
  <2>2. (CHOOSE x \in Since(k, f) : \A i \in Since(k, f) : x <= i) = j
    BY <2>1
  <2> QED BY <2>1, <2>2 DEF PaintAt
<1> QED BY <1>1, <1>2

(* ... also after a step.                                                  *)
LEMMA PaintAtNext ==
  TypeOK' => \A k \in Nat, f \in Parcel :
    /\ (\A j \in Standing' : j >= k => f \notin log'[j].events) => PaintAt(k)'[f] = paint'[f]
    /\ \A j \in Standing' :
         j >= k /\ f \in log'[j].events /\ (\A i \in Standing' : i >= k /\ i < j => f \notin log'[i].events)
           => PaintAt(k)'[f] = log'[j].old[f]
<1>1. TypeOK' => (\A k \in Nat, f \in Parcel :
    /\ (\A j \in Standing : j >= k => f \notin log[j].events) => PaintAt(k)[f] = paint[f]
    /\ \A j \in Standing :
         j >= k /\ f \in log[j].events /\ (\A i \in Standing : i >= k /\ i < j => f \notin log[i].events)
           => PaintAt(k)[f] = log[j].old[f])'
  BY PaintAtIs, PTL
<1> QED BY <1>1

(* Either some batch since k touched the parcel, and one did so first, or  *)
(* none did.                                                               *)
LEMMA FirstSince ==
  ASSUME TypeOK, NEW k \in Nat, NEW f
  PROVE  \/ \A j \in Standing : j >= k => f \notin log[j].events
         \/ \E j \in Standing : /\ j >= k /\ f \in log[j].events
                                /\ \A i \in Standing : i >= k /\ i < j => f \notin log[i].events
<1> SUFFICES ASSUME Since(k, f) # {}
             PROVE  \E j \in Standing : /\ j >= k /\ f \in log[j].events
                                        /\ \A i \in Standing : i >= k /\ i < j => f \notin log[i].events
  BY DEF Since
<1>1. Since(k, f) \in SUBSET Nat
  BY StandingIs DEF Since
<1>2. PICK j \in Since(k, f) : \A i \in Since(k, f) : j <= i
  BY <1>1, LeastNumber
<1> QED BY <1>1, <1>2, StandingIs DEF Since

-----------------------------------------------------------------------------
(* Steps.                                                                  *)

\* Batch B is logged; of the batches before it at most the marks change.
Adds(B) ==
  /\ Len(log') = Len(log) + 1 /\ DOMAIN log' = 1 .. (Len(log) + 1) /\ log'[Len(log) + 1] = B
  /\ \A k \in 1 .. Len(log) :
       /\ log'[k].op = log[k].op /\ log'[k].events = log[k].events /\ log'[k].old = log[k].old
       /\ log'[k].reverts = log[k].reverts /\ log'[k].before = log[k].before
       /\ log[k].undone \subseteq log'[k].undone

(* Undone in order, also without the last batch.                           *)
LEMMA OrderBefore ==
  ASSUME TypeOK, UndosOk, NEW B, Adds(B), UndoneInOrder'
  PROVE  UndoneInOrder
<1>1. Len(log) \in Nat /\ DOMAIN log = 1 .. Len(log) /\ \A k \in 1 .. Len(log) : log[k].reverts \in Nat
  BY LogIs
<1>2. ASSUME NEW k \in DOMAIN log, Undoing(k)
      PROVE  /\ ~Undoing(log[k].reverts)
             /\ log[k].events = log[log[k].reverts].events
             /\ \A j \in (log[k].reverts + 1) .. (k - 1) :
                  Undoing(j) \/ \E m \in (j + 1) .. (k - 1) : log[m].reverts = j
  <2> DEFINE r == log[k].reverts
  <2>1. /\ k \in 1 .. Len(log) /\ k \in DOMAIN log' /\ log'[k].reverts = r /\ log'[k].op = "undo"
        /\ r \in 1 .. (k - 1) /\ r \in 1 .. Len(log)
    BY <1>1, <1>2 DEF Adds, Undoing, UndosOk
  <2> HIDE DEF r
  <2>2. /\ log'[r].op # "undo" /\ log'[k].events = log'[r].events
        /\ \A j \in (r + 1) .. (k - 1) :
             log'[j].op = "undo" \/ \E m \in (j + 1) .. (k - 1) : log'[m].reverts = j
    BY <2>1 DEF UndoneInOrder, Undoing
  <2>3. \A j \in (r + 1) .. (k - 1) : j \in 1 .. Len(log) /\ \A m \in (j + 1) .. (k - 1) : m \in 1 .. Len(log)
    BY <1>1, <2>1
  <2>4. ASSUME NEW j \in (r + 1) .. (k - 1)
        PROVE  log[j].op = "undo" \/ \E m \in (j + 1) .. (k - 1) : log[m].reverts = j
    <3>1. j \in 1 .. Len(log) /\ \A m \in (j + 1) .. (k - 1) : m \in 1 .. Len(log)
      BY <2>3
    <3>2. log'[j].op = log[j].op
      BY <3>1 DEF Adds
    <3>3. \A m \in (j + 1) .. (k - 1) : log'[m].reverts = log[m].reverts
      BY <3>1 DEF Adds
    <3> QED BY <2>2, <3>2, <3>3
  <2> QED BY <2>1, <2>2, <2>4 DEF Adds, Undoing, r
<1> QED BY <1>2 DEF UndoneInOrder

(* A batch that is no undo stands, and so do those that stood.             *)
LEMMA StandingGrows ==
  ASSUME TypeOK, UndosOk, NEW B, Adds(B), B.op # "undo", B.reverts = 0
  PROVE  Standing' = Standing \cup {Len(log) + 1}
<1>1. /\ Len(log) \in Nat /\ DOMAIN log = 1 .. Len(log)
      /\ \A m \in 1 .. Len(log) : log[m].reverts \in Nat /\ log[m].reverts <= Len(log)
  <2>1. Len(log) \in Nat /\ DOMAIN log = 1 .. Len(log) /\ \A m \in 1 .. Len(log) : log[m].reverts \in Nat
    BY LogIs
  <2>2. \A m \in 1 .. Len(log) : log[m].reverts = 0 \/ log[m].reverts \in 1 .. (m - 1)
    BY <2>1 DEF UndosOk
  <2> QED BY <2>1, <2>2
<1>2. \A k \in 1 .. Len(log) : Undoing(k)' <=> Undoing(k)
  BY DEF Adds, Undoing
<1>3. PICK n : n = Len(log) + 1
  OBVIOUS
<1>4. ~Undoing(n)' /\ log'[n].reverts = 0
  BY <1>3 DEF Adds, Undoing
<1>5. \A m \in DOMAIN log' : m = n \/ m \in 1 .. Len(log)
  BY <1>1, <1>3 DEF Adds
<1>6. \A k \in 1 .. n : (\A m \in DOMAIN log' : log'[m].reverts # k)
                           <=> \A m \in DOMAIN log : log[m].reverts # k
  BY <1>1, <1>3, <1>4, <1>5 DEF Adds
<1>7. \A m \in DOMAIN log : log[m].reverts # n
  BY <1>1, <1>3
<1> QED BY <1>1, <1>2, <1>3, <1>4, <1>5, <1>6, <1>7, SMTT(20) DEF Standing, Adds

(* A batch that is no undo: all that was before it is what is there now.   *)
LEMMA BatchLogged ==
  ASSUME UInv, IInv', NEW op \in {"paint", "clear", "grid", "merge"},
         NEW events \in SUBSET (Parcel \cup {Geometry}),
         log' = Append(log, BatchOf(op, events, 0)),
         \A f \in Parcel \ events : paint'[f] = paint[f],
         edits \subseteq edits',
         \A e \in edits' \ edits :
            /\ e.batch = Len(log) + 1
            /\ e.parcel \notin e.sources => e.parcel \notin Made
  PROVE  UInv'
<1> DEFINE B == BatchOf(op, events, 0)
<1>n. PICK n : n = Len(log) + 1
  OBVIOUS
<1> USE <1>n
<1>1. TypeOK /\ TypeOK' /\ Known /\ UndosOk /\ EditsStand /\ NewCells /\ B \in Batch
  BY BatchType DEF UInv, IInv
<1>2. /\ B.op = op /\ B.events = events /\ B.reverts = 0 /\ B.before = Canvas
      /\ \A f \in Parcel : f \in events => B.old[f] = paint[f]
  BY DEF BatchOf
<1> HIDE DEF B
<1>3. /\ log \in Seq(Batch) /\ Len(log) \in Nat /\ DOMAIN log = 1 .. Len(log)
      /\ \A m \in 1 .. Len(log) : log[m].reverts \in Nat
  BY <1>1, LogIs
<1>4. Adds(B)
  BY <1>1, <1>3 DEF Adds, B
<1>5. Standing' = Standing \cup {n}
  BY <1>1, <1>2, <1>4, StandingGrows
<1>6. UndosOk'
  <2>1. ASSUME NEW m \in 1 .. Len(log)
        PROVE  /\ log'[m].op # "undo" => log'[m].reverts = 0
               /\ log'[m].op = "undo" =>
                    /\ log'[m].reverts \in 1 .. (m - 1) /\ log'[m].events # {}
                    /\ log'[m].events \subseteq log'[log'[m].reverts].undone
    <3>1. /\ log[m].op # "undo" => log[m].reverts = 0
          /\ log[m].op = "undo" => /\ log[m].reverts \in 1 .. (m - 1) /\ log[m].events # {}
                                   /\ log[m].events \subseteq log[log[m].reverts].undone
      BY <1>1, <1>3 DEF UndosOk, Undoing
    <3>2. log[m].op = "undo" => log[m].reverts \in 1 .. Len(log)
      BY <1>3, <3>1
    <3> QED BY <1>4, <3>1, <3>2 DEF Adds
  <2>2. log'[n].op # "undo" /\ log'[n].reverts = 0
    BY <1>2, <1>4 DEF Adds
  <2>3. DOMAIN log' = 1 .. n /\ \A m \in 1 .. n : m = n \/ m \in 1 .. Len(log)
    BY <1>3, <1>4 DEF Adds
  <2> QED BY <2>1, <2>2, <2>3 DEF UndosOk, Undoing
<1>7. EditsStand'
  BY <1>1, <1>5 DEF EditsStand
<1>8. \A e \in edits : e.batch \in Standing /\ e.batch \in Nat /\ e.batch <= Len(log) /\ e.parcel \in Made
  BY <1>1, StandingIs DEF EditsStand, Known
<1>9. NewCells'
  <2>1. ASSUME NEW e \in edits', e.parcel \notin e.sources
        PROVE  e.parcel \notin BaseParcel /\ \A d \in edits' : d.parcel = e.parcel => d.batch >= e.batch
    <3>1. CASE e \in edits
      BY <1>1, <1>3, <1>8, <2>1, <3>1 DEF NewCells
    <3>2. CASE e \notin edits
      BY <1>3, <1>8, <2>1, <3>2 DEF Made
    <3> QED BY <3>1, <3>2
  <2> QED BY <2>1 DEF NewCells
<1>10. ASSUME UndoneInOrder' PROVE Remembered'
  <2>1. UndoneInOrder
    BY <1>1, <1>4, <1>10, OrderBefore
  <2>2. Remembered
    BY <2>1 DEF UInv
  <2>3. Standing \subseteq 1 .. Len(log)
    BY <1>1, StandingIs
  <2>4. ASSUME NEW k \in Nat, k <= n PROVE EditsBefore(k)' = EditsBefore(k)
    BY <1>3, <1>8, <2>4 DEF EditsBefore
  <2>5. ASSUME NEW k \in Nat, k <= n, NEW f \in Parcel PROVE PaintAt(k)'[f] = PaintAt(k)[f]
    <3>1. CASE \A j \in Standing : j >= k => f \notin log[j].events
      <4>1. PaintAt(k)[f] = paint[f]
        BY <1>1, <3>1, PaintAtIs
      <4>2. CASE f \in events
        <5>1. /\ n \in Standing' /\ n >= k /\ f \in log'[n].events /\ log'[n].old[f] = paint[f]
              /\ \A i \in Standing' : i >= k /\ i < n => f \notin log'[i].events
          BY <1>2, <1>3, <1>4, <1>5, <2>3, <2>5, <3>1, <4>2 DEF Adds
        <5> QED BY <1>1, <4>1, <5>1, PaintAtNext
      <4>3. CASE f \notin events
        <5>1. \A j \in Standing' : j >= k => f \notin log'[j].events
          BY <1>2, <1>3, <1>4, <1>5, <2>3, <3>1, <4>3 DEF Adds
        <5> QED BY <1>1, <4>1, <4>3, <5>1, PaintAtNext
      <4> QED BY <4>2, <4>3
    <3>2. ASSUME NEW j \in Standing, j >= k, f \in log[j].events,
                 \A i \in Standing : i >= k /\ i < j => f \notin log[i].events
          PROVE  PaintAt(k)'[f] = PaintAt(k)[f]
      <4>1. PaintAt(k)[f] = log[j].old[f]
        BY <1>1, <3>2, PaintAtIs
      <4>2. j \in Standing' /\ f \in log'[j].events /\ log'[j].old = log[j].old
        BY <1>4, <1>5, <2>3, <3>2 DEF Adds
      <4>3. \A i \in Standing' : i >= k /\ i < j => f \notin log'[i].events
        BY <1>3, <1>4, <1>5, <2>3, <3>2 DEF Adds
      <4>4. PaintAt(k)'[f] = log'[j].old[f]
        BY <1>1, <3>2, <4>2, <4>3, PaintAtNext
      <4> QED BY <4>1, <4>2, <4>4
    <3> QED BY <1>1, <2>5, <3>1, <3>2, FirstSince
  <2>6. ASSUME NEW k \in Nat, k <= n PROVE CanvasIn(EditsBefore(k)', PaintAt(k)') = CanvasIn(EditsBefore(k), PaintAt(k))
    BY <2>4, <2>5, <2>6, SamePaint
  <2>7. ASSUME NEW k \in Standing PROVE log'[k].before = CanvasIn(EditsBefore(k)', PaintAt(k)')
    BY <1>3, <1>4, <2>2, <2>3, <2>6 DEF Adds, Remembered
  <2>8. log'[n].before = CanvasIn(EditsBefore(n)', PaintAt(n)')
    <3>1. EditsBefore(n) = edits
      BY <1>3, <1>8 DEF EditsBefore
    <3>2. \A f \in Parcel : PaintAt(n)[f] = paint[f]
      BY <1>1, <1>3, <2>3, PaintAtIs
    <3>3. CanvasIn(edits, PaintAt(n)) = CanvasIn(edits, paint)
      BY <3>2, SamePaint
    <3>4. CanvasIn(EditsBefore(n)', PaintAt(n)') = CanvasIn(EditsBefore(n), PaintAt(n))
      BY <1>3, <2>6
    <3>5. log'[n].before = Canvas
      BY <1>2, <1>4 DEF Adds
    <3> QED BY <3>1, <3>3, <3>4, <3>5, CanvasIsIn
  <2> QED BY <1>5, <2>7, <2>8 DEF Remembered
<1> QED BY <1>6, <1>7, <1>9, <1>10 DEF UInv

(* An undo adds itself and ends the standing of its batch.                 *)
LEMMA StandingShrinks ==
  ASSUME TypeOK, UndosOk, NEW i \in 1 .. Len(log), NEW B, Adds(B), B.op = "undo", B.reverts = i
  PROVE  Standing' = Standing \ {i}
<1>1. Len(log) \in Nat /\ DOMAIN log = 1 .. Len(log)
  BY LogIs
<1>2. \A k \in 1 .. Len(log) : Undoing(k)' <=> Undoing(k)
  BY DEF Adds, Undoing
<1>3. PICK n : n = Len(log) + 1
  OBVIOUS
<1>4. Undoing(n)' /\ log'[n].reverts = i
  BY <1>3 DEF Adds, Undoing
<1>5. DOMAIN log' = 1 .. n /\ \A m \in 1 .. n : m = n \/ m \in 1 .. Len(log)
  BY <1>1, <1>3 DEF Adds
<1>6. \A k \in 1 .. Len(log) : (\A m \in DOMAIN log' : log'[m].reverts # k)
                                 <=> k # i /\ \A m \in DOMAIN log : log[m].reverts # k
  BY <1>1, <1>3, <1>4, <1>5, SMTT(20) DEF Adds
<1> QED BY <1>1, <1>2, <1>3, <1>4, <1>5, <1>6 DEF Standing

(* The batch an undo is of was the last that stood, if batches are undone  *)
(* in order.                                                               *)
LEMMA LastStanding ==
  ASSUME UInv, NEW i \in DOMAIN log, NEW S, S # {}, S \subseteq log[i].events \ log[i].undone,
         NEW B, Adds(B), B.op = "undo", B.reverts = i, B.events = S, UndoneInOrder'
  PROVE  /\ i \in Standing /\ \A j \in Standing : j <= i
         /\ log[i].op # "undo" /\ S = log[i].events
<1>1. /\ Len(log) \in Nat /\ DOMAIN log = 1 .. Len(log) /\ TypeOK /\ UndosOk
      /\ \A m \in 1 .. Len(log) : log[m].reverts \in Nat
  BY LogIs DEF UInv, IInv
<1>2. PICK n : n = Len(log) + 1
  OBVIOUS
<1>3. /\ n \in DOMAIN log' /\ log'[n].op = "undo" /\ log'[n].reverts = i /\ log'[n].events = S
  BY <1>1, <1>2 DEF Adds
<1>4. /\ log'[i].op # "undo" /\ S = log'[i].events
      /\ \A j \in (i + 1) .. (n - 1) :
           log'[j].op = "undo" \/ \E m \in (j + 1) .. (n - 1) : log'[m].reverts = j
  BY <1>3 DEF UndoneInOrder, Undoing
<1>5. log[i].op # "undo" /\ S = log[i].events
  BY <1>1, <1>4 DEF Adds
<1>6. ASSUME NEW j \in (i + 1) .. Len(log)
      PROVE  j \notin Standing
  <2>1. j \in (i + 1) .. (n - 1) /\ j \in 1 .. Len(log) /\ \A m \in (j + 1) .. (n - 1) : m \in 1 .. Len(log)
    BY <1>1, <1>2
  <2>2. log[j].op = "undo" \/ \E m \in 1 .. Len(log) : log[m].reverts = j
    BY <1>4, <2>1, SMTT(20) DEF Adds
  <2> QED BY <1>1, <2>2 DEF Standing, Undoing
<1>7. \A j \in Standing : j <= i
  BY <1>1, <1>6, StandingIs
<1>8. ASSUME NEW m \in DOMAIN log, log[m].reverts = i PROVE FALSE
  <2>1. Undoing(m)
    BY <1>1, <1>8 DEF UndosOk
  <2>2. UndoneInOrder
    BY <1>1, OrderBefore
  <2>3. log[m].events = log[i].events
    BY <1>8, <2>1, <2>2 DEF UndoneInOrder
  <2>4. log[m].events \subseteq log[i].undone
    BY <1>1, <1>8, <2>1 DEF UndosOk
  <2> QED BY <1>5, <2>3, <2>4
<1>9. i \in Standing
  BY <1>5, <1>8 DEF Standing, Undoing
<1> QED BY <1>5, <1>7, <1>9

(* An undo keeps what is known of the standing batches, and brings back    *)
(* the canvas its batch was applied to.                                    *)
LEMMA UndoLogged ==
  ASSUME UInv, IInv', NEW i \in DOMAIN log, NEW S, Undo(i, S)
  PROVE  UInv' /\ (UndoneInOrder' => Canvas' = log[i].before)
<1> DEFINE B == BatchOf("undo", S, i)
           gone == {e \in edits : e.batch = i}
           restored == IF log[i].op = "undo" THEN {} ELSE S \ {Geometry}
<1>n. PICK n : n = Len(log) + 1
  OBVIOUS
<1>l. PICK L : L = Marked(i, S)
  OBVIOUS
<1>1. /\ TypeOK /\ TypeOK' /\ Known /\ UndosOk /\ EditsStand /\ NewCells
      /\ Len(log) \in Nat /\ DOMAIN log = 1 .. Len(log) /\ i \in 1 .. Len(log)
      /\ \A m \in 1 .. Len(log) : log[m].reverts \in Nat
  BY LogIs DEF UInv, IInv
<1>2. /\ S # {} /\ S \subseteq log[i].events \ log[i].undone
      /\ edits' = edits \ gone
      /\ paint' = [f \in Parcel |-> IF f \in Vanishing(gone) THEN NoRow
                                     ELSE IF f \in restored THEN log[i].old[f] ELSE paint[f]]
      /\ log' = Append(L, B)
  BY <1>l DEF Undo, Marked
<1>3. S \in SUBSET (Parcel \cup {Geometry})
  <2>1. log[i] \in Batch
    BY <1>1 DEF TypeOK
  <2> QED BY <1>2, <2>1 DEF Batch
<1>4. B \in Batch /\ B.op = "undo" /\ B.events = S /\ B.reverts = i
  BY <1>1, <1>3, BatchType, SMTT(20) DEF BatchOf
<1>5. /\ L \in Seq(Batch) /\ Len(L) = Len(log)
      /\ \A k \in DOMAIN log : /\ L[k].op = log[k].op /\ L[k].events = log[k].events
                               /\ L[k].old = log[k].old /\ L[k].reverts = log[k].reverts
                               /\ L[k].before = log[k].before
                               /\ log[k].undone \subseteq L[k].undone
      /\ S \subseteq L[i].undone
  BY <1>1, <1>3, <1>l, MarkedLog
<1> HIDE DEF B
<1>7. Adds(B) /\ S \subseteq log'[i].undone
  <2>1. /\ Len(log') = Len(log) + 1 /\ DOMAIN log' = 1 .. (Len(log) + 1) /\ log'[Len(log) + 1] = B
        /\ \A k \in 1 .. Len(log) : log'[k] = L[k]
    BY <1>1, <1>2, <1>4, <1>5
  <2> QED BY <1>1, <1>5, <2>1 DEF Adds
<1>8. Standing' = Standing \ {i} /\ Standing \subseteq 1 .. Len(log)
  BY <1>1, <1>4, <1>7, StandingShrinks, StandingIs
<1>9. UndosOk'
  <2>1. ASSUME NEW m \in 1 .. Len(log)
        PROVE  /\ log'[m].op # "undo" => log'[m].reverts = 0
               /\ log'[m].op = "undo" =>
                    /\ log'[m].reverts \in 1 .. (m - 1) /\ log'[m].events # {}
                    /\ log'[m].events \subseteq log'[log'[m].reverts].undone
    <3>1. /\ log[m].op # "undo" => log[m].reverts = 0
          /\ log[m].op = "undo" => /\ log[m].reverts \in 1 .. (m - 1) /\ log[m].events # {}
                                   /\ log[m].events \subseteq log[log[m].reverts].undone
      BY <1>1 DEF UndosOk, Undoing
    <3>2. log[m].op = "undo" => log[m].reverts \in 1 .. Len(log)
      BY <1>1, <3>1
    <3> QED BY <1>7, <3>1, <3>2 DEF Adds
  <2>2. /\ log'[n].op = "undo" /\ log'[n].reverts = i /\ log'[n].events = S
        /\ i \in 1 .. (n - 1)
    BY <1>n, <1>1, <1>4, <1>7 DEF Adds
  <2>3. DOMAIN log' = 1 .. n /\ \A m \in 1 .. n : m = n \/ m \in 1 .. Len(log)
    BY <1>n, <1>1, <1>7 DEF Adds
  <2> QED BY <1>2, <1>7, <2>1, <2>2, <2>3 DEF UndosOk, Undoing
<1>10. EditsStand' /\ NewCells'
  BY <1>1, <1>2, <1>8 DEF EditsStand, NewCells
<1>11. ASSUME UndoneInOrder' PROVE Remembered' /\ Canvas' = log[i].before
  <2>1. UndoneInOrder /\ Remembered
    BY <1>1, <1>7, <1>11, OrderBefore DEF UInv
  <2>2. /\ i \in Standing /\ \A j \in Standing : j <= i
        /\ log[i].op # "undo" /\ S = log[i].events
    BY <1>2, <1>4, <1>7, <1>11, LastStanding
  <2>3. /\ \A e \in edits : e.batch \in Standing /\ e.batch \in Nat
        /\ \A j \in Standing : j \in Nat
    BY <1>1, StandingIs DEF EditsStand
  <2>4. restored = log[i].events \ {Geometry}
    BY <2>2
  <2>5. \A f \in Parcel : f \in restored <=> f \in log[i].events
    BY <2>4, ParcelIsInt
  <2> HIDE DEF restored
  <2>6. ASSUME NEW f \in Vanishing(gone), NEW k \in Nat, k <= i
        PROVE  f \notin VisibleIn(EditsBefore(k))
    <3>1. PICK e \in gone : e.parcel = f /\ e.parcel \notin e.sources
      BY DEF Vanishing
    <3>2. f \notin BaseParcel /\ \A d \in edits : d.parcel = f => d.batch >= i
      BY <1>1, <3>1 DEF NewCells
    <3>3. \A d \in EditsBefore(k) : d.parcel # f
      BY <2>3, <2>6, <3>2, <1>1 DEF EditsBefore
    <3> QED BY <3>2, <3>3 DEF VisibleIn, EditsIn, BaseIn
  <2>7. ASSUME NEW k \in Nat, k <= i PROVE EditsBefore(k)' = EditsBefore(k)
    BY <1>1, <1>2, <2>3, <2>7 DEF EditsBefore
  <2>8. ASSUME NEW f \in Parcel, f \notin Vanishing(gone)
        PROVE  paint'[f] = IF f \in log[i].events THEN log[i].old[f] ELSE paint[f]
    <3> HIDE DEF gone
    <3> QED BY <1>2, <2>5, <2>8
  <2> HIDE DEF gone
  <2>9. ASSUME NEW k \in Nat, k <= i, NEW f \in Parcel, f \notin Vanishing(gone)
        PROVE  PaintAt(k)'[f] = PaintAt(k)[f]
    <3>1. CASE \A j \in Standing : j >= k => f \notin log[j].events
      <4>1. PaintAt(k)[f] = paint[f]
        BY <1>1, <3>1, PaintAtIs
      <4>2. paint'[f] = paint[f]
        BY <2>2, <2>8, <2>9, <3>1
      <4>3. \A j \in Standing' : j >= k => f \notin log'[j].events
        BY <1>7, <1>8, <3>1 DEF Adds
      <4>4. PaintAt(k)'[f] = paint'[f]
        BY <1>1, <4>3, PaintAtNext
      <4> QED BY <4>1, <4>2, <4>4
    <3>2. ASSUME NEW j \in Standing, j >= k, f \in log[j].events,
                 \A m \in Standing : m >= k /\ m < j => f \notin log[m].events
          PROVE  PaintAt(k)'[f] = PaintAt(k)[f]
      <4>1. PaintAt(k)[f] = log[j].old[f]
        BY <1>1, <3>2, PaintAtIs
      <4>2. CASE j = i
        <5>1. \A m \in Standing' : m >= k => f \notin log'[m].events
          BY <1>1, <1>7, <1>8, <2>2, <2>3, <3>2, <4>2 DEF Adds
        <5>2. PaintAt(k)'[f] = paint'[f]
          BY <1>1, <5>1, PaintAtNext
        <5> QED BY <2>8, <2>9, <3>2, <4>1, <4>2, <5>2
      <4>3. CASE j # i
        <5>1. j \in Standing' /\ f \in log'[j].events /\ log'[j].old = log[j].old
          BY <1>7, <1>8, <3>2, <4>3 DEF Adds
        <5>2. \A m \in Standing' : m >= k /\ m < j => f \notin log'[m].events
          BY <1>7, <1>8, <3>2 DEF Adds
        <5>3. PaintAt(k)'[f] = log'[j].old[f]
          BY <1>1, <3>2, <5>1, <5>2, PaintAtNext
        <5> QED BY <4>1, <5>1, <5>3
      <4> QED BY <4>2, <4>3
    <3> QED BY <1>1, <2>9, <3>1, <3>2, FirstSince
  <2>10. ASSUME NEW k \in Standing
         PROVE  CanvasIn(EditsBefore(k)', PaintAt(k)') = log[k].before
    <3>1. k \in Nat /\ k <= i
      BY <2>2, <2>3
    <3>2. \A f \in VisibleIn(EditsBefore(k)) \cap Parcel : PaintAt(k)'[f] = PaintAt(k)[f]
      BY <2>6, <2>9, <3>1
    <3>3. CanvasIn(EditsBefore(k), PaintAt(k)') = CanvasIn(EditsBefore(k), PaintAt(k))
      BY <3>2, SamePaint
    <3> QED BY <2>1, <2>7, <3>1, <3>3 DEF Remembered
  <2>11. Remembered'
    BY <1>7, <1>8, <2>10 DEF Adds, Remembered
  <2>12. Canvas' = log[i].before
    <3>1. edits' = EditsBefore(i)
      BY <1>1, <1>2, <2>2, <2>3 DEF EditsBefore, gone
    <3>2. EditsBefore(i)' = EditsBefore(i)
      BY <1>1, <2>7
    <3>3. \A f \in Parcel : PaintAt(i)'[f] = paint'[f]
      <4>1. \A j \in Standing' : ~(j >= i)
        BY <1>1, <1>8, <2>2, <2>3
      <4> QED BY <1>1, <4>1, PaintAtNext
    <3>4. CanvasIn(edits', PaintAt(i)') = CanvasIn(edits', paint')
      BY <3>3, SamePaint
    <3> QED BY <2>2, <2>10, <3>1, <3>2, <3>4, CanvasIsInNext
  <2> QED BY <2>11, <2>12
<1> QED BY <1>9, <1>10, <1>11 DEF UInv

(* What plans are read and given up changes nothing.                       *)
LEMMA NothingLogged ==
  ASSUME UInv, IInv', UNCHANGED <<edits, paint, log>>
  PROVE  UInv'
<1>1. UndosOk' /\ EditsStand' /\ NewCells'
  BY DEF UInv, UndosOk, Undoing, EditsStand, Standing, NewCells
<1>2. ASSUME UndoneInOrder' PROVE Remembered'
  <2>1. Remembered
    BY <1>2 DEF UInv, UndoneInOrder, Undoing
  <2>2. Standing' = Standing
    BY DEF Standing, Undoing
  <2>3. log' = log /\ paint' = paint /\ TypeOK /\ TypeOK'
    BY DEF UInv, IInv
  <2>4. ASSUME NEW k \in Nat, NEW f \in Parcel PROVE PaintAt(k)'[f] = PaintAt(k)[f]
    <3>1. CASE \A j \in Standing : j >= k => f \notin log[j].events
      <4>1. PaintAt(k)[f] = paint[f]
        BY <2>3, <3>1, PaintAtIs
      <4>2. PaintAt(k)'[f] = paint'[f]
        BY <2>2, <2>3, <3>1, PaintAtNext
      <4> QED BY <2>3, <4>1, <4>2
    <3>2. ASSUME NEW j \in Standing, j >= k, f \in log[j].events,
                 \A i \in Standing : i >= k /\ i < j => f \notin log[i].events
          PROVE  PaintAt(k)'[f] = PaintAt(k)[f]
      <4>1. PaintAt(k)[f] = log[j].old[f]
        BY <2>3, <3>2, PaintAtIs
      <4>2. PaintAt(k)'[f] = log'[j].old[f]
        BY <2>2, <2>3, <3>2, PaintAtNext
      <4> QED BY <2>3, <4>1, <4>2
    <3> QED BY <2>3, <3>1, <3>2, FirstSince
  <2>5. ASSUME NEW k \in Standing
        PROVE  CanvasIn(EditsBefore(k)', PaintAt(k)') = CanvasIn(EditsBefore(k), PaintAt(k))
    <3>1. k \in Nat /\ EditsBefore(k)' = EditsBefore(k)
      BY <2>3, StandingIs DEF EditsBefore
    <3> QED BY <2>4, <3>1, SamePaint
  <2> QED BY <2>1, <2>2, <2>3, <2>5 DEF Remembered
<1> QED BY <1>1, <1>2 DEF UInv

(* There is nothing to remember in the beginning.                          *)
LEMMA InitRemembers == Init => UInv
<1> SUFFICES ASSUME Init PROVE UInv
  OBVIOUS
<1>1. edits = {} /\ log = <<>> /\ DOMAIN log = {}
  BY DEF Init
<1> QED BY <1>1, InitInv DEF UInv, UndosOk, EditsStand, NewCells, Remembered, Standing

(* Grids and merges write edits of one batch, of new cells or of sources.  *)
LEMMA WritesLogged ==
  ASSUME UInv, IInv', NEW w \in Worker, WriteGrid(w) \/ WriteMerge(w)
  PROVE  UInv'
<1>1. TypeOK /\ Known /\ IInv
  BY DEF UInv, IInv
<1>2. CASE WriteGrid(w)
  <2>1. PICK name : /\ edits' = edits \cup Pieces(plan[w], name)
                    /\ \A s \in plan[w].shapes : name[s] \notin Made
    BY <1>1, <1>2, GridWrites
  <2>2. log' = Append(log, BatchOf("grid", {Geometry}, 0)) /\ paint' = paint
    BY <1>2 DEF WriteGrid
  <2>3. \A e \in edits' \ edits : e.batch = Len(log) + 1 /\ e.parcel \notin Made
    BY <2>1 DEF Pieces, EditFor
  <2>4. edits \subseteq edits'
    BY <2>1
  <2> HIDE DEF UInv
  <2> QED BY <2>2, <2>3, <2>4, BatchLogged
<1>3. CASE WriteMerge(w)
  <2> DEFINE survivor == Survivor(plan[w].sources)
             dropped == {f \in {survivor} : paint[f] # NoRow}
  <2>1. /\ plan[w] # NoPlan
        /\ edits' = edits \cup {EditFor(plan[w], survivor, s) : s \in plan[w].shapes}
        /\ paint' = [paint EXCEPT ![survivor] = NoRow]
        /\ log' = Append(log, BatchOf("merge", dropped \cup {Geometry}, 0))
    BY <1>3 DEF WriteMerge
  <2>2. plan[w].sources \in SUBSET Parcel /\ plan[w].sources # {}
    BY <1>1, <2>1 DEF TypeOK, Known, Plan
  <2>3. survivor \in plan[w].sources /\ survivor \in Parcel
    BY <2>2, SurvivorIsSource
  <2> HIDE DEF survivor
  <2>4. dropped \cup {Geometry} \in SUBSET (Parcel \cup {Geometry})
    BY <2>3
  <2>5. \A f \in Parcel \ (dropped \cup {Geometry}) : paint'[f] = paint[f]
    BY <1>1, <2>1, <2>3 DEF TypeOK
  <2>6. \A e \in edits' \ edits : e.batch = Len(log) + 1 /\ e.parcel \in e.sources
    BY <2>1, <2>3 DEF EditFor
  <2>7. edits \subseteq edits'
    BY <2>1
  <2> HIDE DEF UInv, dropped
  <2> QED BY <2>1, <2>4, <2>5, <2>6, <2>7, BatchLogged
<1> QED BY <1>2, <1>3

(* Every step keeps what is known, and an undo brings the canvas back.     *)
LEMMA StepRemembers ==
  UInv /\ [Next]_vars =>
    /\ UInv'
    /\ \A k \in DOMAIN log' :
         (k \notin DOMAIN log /\ UndoneInOrder' /\ log'[k].op = "undo")
           => Canvas' = log'[log'[k].reverts].before
<1> DEFINE Back == \A k \in DOMAIN log' :
                     (k \notin DOMAIN log /\ UndoneInOrder' /\ log'[k].op = "undo")
                       => Canvas' = log'[log'[k].reverts].before
<1> SUFFICES ASSUME UInv, [Next]_vars PROVE UInv' /\ Back
  OBVIOUS
<1>1. IInv' /\ IInv /\ TypeOK /\ Known /\ log \in Seq(Batch) /\ Len(log) \in Nat /\ DOMAIN log = 1 .. Len(log)
  BY StepInv, LogIs DEF UInv, IInv
<1>2. ASSUME NEW B, log' = Append(log, B), B.op # "undo" PROVE Back
  <2>1. \A k \in DOMAIN log' : k \in DOMAIN log \/ log'[k] = B
    BY <1>1, <1>2
  <2> QED BY <1>2, <2>1
<1>3. ASSUME NEW f \in Made, (\E v \in Value : Paint(f, v)) \/ Clear(f) PROVE UInv' /\ Back
  <2>1. PICK op \in {"paint", "clear"} : log' = Append(log, BatchOf(op, {f}, 0))
    BY <1>3 DEF Paint, Clear
  <2>2. edits' = edits /\ \E v : paint' = [paint EXCEPT ![f] = v]
    BY <1>3 DEF Paint, Clear
  <2>3. {f} \in SUBSET (Parcel \cup {Geometry}) /\ \A g \in Parcel \ {f} : paint'[g] = paint[g]
    BY <1>1, <2>2, VisibleIsMade DEF TypeOK
  <2>4. UInv'
    <3> HIDE DEF UInv
    <3> QED BY <1>1, <2>1, <2>2, <2>3, BatchLogged
  <2>5. BatchOf(op, {f}, 0).op # "undo"
    BY DEF BatchOf
  <2> HIDE DEF Back
  <2> QED BY <1>2, <2>1, <2>4, <2>5
<1>4. ASSUME UNCHANGED <<edits, paint, log>> PROVE UInv' /\ Back
  BY <1>1, <1>4, NothingLogged
<1>5. ASSUME NEW w \in Worker, WriteGrid(w) \/ WriteMerge(w) PROVE UInv' /\ Back
  <2>1. PICK op, events : /\ op \in {"grid", "merge"}
                          /\ log' = Append(log, BatchOf(op, events, 0))
    BY <1>5 DEF WriteGrid, WriteMerge
  <2>2. BatchOf(op, events, 0).op # "undo"
    BY <2>1 DEF BatchOf
  <2>3. UInv'
    BY <1>1, <1>5, WritesLogged
  <2> HIDE DEF Back
  <2> QED BY <1>2, <2>1, <2>2, <2>3
<1>6. ASSUME NEW i \in DOMAIN log, NEW S, Undo(i, S) PROVE UInv' /\ Back
  <2>1. UInv' /\ (UndoneInOrder' => Canvas' = log[i].before)
    BY <1>1, <1>6, UndoLogged
  <2>2. S \in SUBSET (Parcel \cup {Geometry})
    <3>1. log[i] \in Batch
      BY <1>1
    <3> QED BY <1>6, <3>1 DEF Undo, Batch
  <2>3. log' = Append(Marked(i, S), BatchOf("undo", S, i))
    BY <1>6 DEF Undo, Marked
  <2>4. Marked(i, S) \in Seq(Batch) /\ Len(Marked(i, S)) = Len(log) /\ Marked(i, S)[i].before = log[i].before
    BY <1>1, <2>2, MarkedLog
  <2>5. BatchOf("undo", S, i).reverts = i
    BY DEF BatchOf
  <2>6. \A k \in DOMAIN log' : k \in DOMAIN log \/ log'[k].reverts = i
    BY <1>1, <2>3, <2>4, <2>5
  <2>7. log'[i].before = log[i].before
    BY <1>1, <2>3, <2>4
  <2> QED BY <2>1, <2>6, <2>7
<1>7. CASE UNCHANGED vars
  BY <1>4, <1>7 DEF vars
<1>8. CASE Next
  <2>1. ASSUME NEW w \in Worker, NEW F,
               (\E shapes \in GridCells(Cut(F)) : ReadGrid(w, F, shapes)) \/ ReadMerge(w, F) \/ Abandon(w)
        PROVE  UNCHANGED <<edits, paint, log>>
    BY <2>1 DEF ReadGrid, ReadMerge, Read, Abandon
  <2> HIDE DEF Back, UInv
  <2> QED BY <1>3, <1>4, <1>5, <1>6, <1>8, <2>1 DEF Next, UndoEvent, UndoBatch
<1> QED BY <1>7, <1>8

-----------------------------------------------------------------------------
(* Edits compose: whatever is gridded, merged, painted, failed and undone  *)
(* on whatever base canvas, by however many tasks at once, each unit of    *)
(* ground is shown by at most one parcel of build_canvas_view_select, and  *)
(* by one unless it is a speck: whenever the edits there are were written  *)
(* over the parcels they had read, whose own edits are still there.        *)
THEOREM EditsAlwaysCompose == Spec => []EditsCompose
<1>1. SInv => EditsCompose
  BY Composes DEF SInv, IInv, GInv
<1> QED BY SafeInvariant, <1>1, PTL

(* run_grid_parcels and run_merge_parcels conserve values: written over    *)
(* parcels that show what the task had read, their rows show of each unit  *)
(* of ground what it showed before; only a grid loses any, and only specks.*)
THEOREM ValuesAreConserved == Spec => EditsConserveValues
<1> DEFINE Conserved ==
      \A w \in Worker : WritesAsRead(w) =>
        /\ ShownGround' \subseteq ShownGround
        /\ UnitsOf(ShownGround \ ShownGround')
             \subseteq IF plan[w].op = "grid" THEN Speck ELSE {}
<1>1. ASSUME SInv, SInv', [Next]_vars PROVE Conserved
  BY <1>1, StepConserves DEF Dropped
<1>2. SInv /\ SInv' /\ [Next]_vars => [Conserved]_vars
  BY <1>1
<1> QED BY SafeInvariant, <1>2, PTL DEF Spec, EditsConserveValues

(* undo_paint takes back what it undoes: after batches undone newest first *)
(* the canvas is the one the last undone batch was applied to, whichever   *)
(* grids and merges ran meanwhile.                                         *)
THEOREM UndoAlwaysRestores == Spec => UndoRestoresCanvas
<1>1. UInv /\ [Next]_vars => UInv'
  BY StepRemembers
<1>2. UInv /\ [Next]_vars =>
        [\A k \in DOMAIN log' :
           (k \notin DOMAIN log /\ UndoneInOrder' /\ log'[k].op = "undo")
             => Canvas' = log'[log'[k].reverts].before]_vars
  BY StepRemembers
<1> QED BY InitRemembers, <1>1, <1>2, PTL DEF Spec, UndoRestoresCanvas
=============================================================================
