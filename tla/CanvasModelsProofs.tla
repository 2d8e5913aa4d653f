-------------------------- MODULE CanvasModelsProofs -------------------------
(***************************************************************************)
(* What holds of CanvasModels for every number of scenarios, analyses,     *)
(* filters and processes: its types; that a plan or purge computed from an *)
(* old listing neither brings back nor takes away what others did; and     *)
(* that operations which neither overlap nor fail leave the environment    *)
(* and the views as the rows say.                                          *)
(***************************************************************************)
EXTENDS CanvasModels, TLAPS

-----------------------------------------------------------------------------
\* A step that may still be promoted has read what the environment lists now.
Fresh == \A p \in Proc : job[p].open /\ job[p].cur => job[p].base = listed

IInv == TypeOK /\ Fresh

-----------------------------------------------------------------------------
(* Jobs.                                                                   *)

(* An operation starts with a script of steps.                             *)
LEMMA ScriptType == \A op \in Ops : Script(op) \in Seq(Steps)
<1> SUFFICES ASSUME NEW op \in Ops PROVE Script(op) \in Seq(Steps)
    OBVIOUS
<1>1. Script(op) \in {<<"plan">>, <<"purge", "purgeRuns">>, <<"purge">>, <<"purge", "plan">>}
    BY Zenon DEF Script
<1>2. /\ <<"plan">> \in Seq(Steps) /\ <<"purge", "purgeRuns">> \in Seq(Steps)
      /\ <<"purge">> \in Seq(Steps) /\ <<"purge", "plan">> \in Seq(Steps)
    BY DEF Steps
<1> QED BY <1>1, <1>2

(* A process that does nothing has nothing to do.                          *)
LEMMA NoJobType == NoJob \in JobType /\ NoJob.op = "none" /\ NoJob.todo = <<>> /\ ~NoJob.open
BY DEF NoJob, JobType

(* The end of a step leaves the steps after it, unread.                    *)
LEMMA NextStepType ==
  ASSUME TypeOK, NEW p \in Proc, job[p].todo # <<>>
  PROVE  /\ NextStep(p) \in JobType /\ NextStep(p).op = job[p].op /\ job[p].op # "none"
         /\ ~NextStep(p).open
<1>1. job[p] \in JobType /\ job[p].op # "none"
    BY DEF TypeOK
<1>2. job[p].todo \in Seq(Steps)
    BY <1>1 DEF JobType
<1>3. Tail(job[p].todo) \in Seq(Steps)
    BY <1>2
<1> QED BY <1>1, <1>3 DEF NextStep, JobType

(* A failure ends the operation, or a delete's step.                       *)
LEMMA AfterFailureType ==
  ASSUME TypeOK, NEW p \in Proc, job[p].todo # <<>>
  PROVE  /\ AfterFailure(p) \in JobType /\ ~AfterFailure(p).open
         /\ AfterFailure(p).op = "none" => AfterFailure(p).todo = <<>>
BY NextStepType, NoJobType DEF AfterFailure

\* Process p's job becomes j, the others' keep what they are about.
Moves(p, j) ==
    /\ job' \in [Proc -> JobType]
    /\ job'[p] = j
    /\ \A q \in Proc \ {p} :
          /\ job'[q].op = job[q].op /\ job'[q].todo = job[q].todo
          /\ job'[q].open = job[q].open /\ job'[q].base = job[q].base
          /\ job'[q].cur => job[q].cur

(* The types of the jobs follow from that of the one that moved.           *)
LEMMA MovesType ==
  ASSUME TypeOK, NEW p \in Proc, NEW j, Moves(p, j),
         j.op = "none" => j.todo = <<>>, j.open => j.todo # <<>>
  PROVE  /\ job' \in [Proc -> JobType]
         /\ \A q \in Proc : job'[q].op = "none" => job'[q].todo = <<>>
         /\ \A q \in Proc : job'[q].open => job'[q].todo # <<>>
BY DEF TypeOK, Moves

(* One process changes its job.                                            *)
LEMMA ExceptMoves ==
  ASSUME TypeOK, NEW p \in Proc, NEW j \in JobType, job' = [job EXCEPT ![p] = j]
  PROVE  Moves(p, j)
BY DEF TypeOK, Moves

(* A promotion makes what the others read out of date.                     *)
LEMMA OutdatedMoves ==
  ASSUME TypeOK, NEW p \in Proc, NEW j \in JobType, job' = Outdated(j, p)
  PROVE  Moves(p, j) /\ \A q \in Proc \ {p} : ~job'[q].cur
BY DEF TypeOK, Moves, Outdated, JobType

(* An operation begins.                                                    *)
LEMMA BeginMoves ==
  ASSUME TypeOK, NEW p \in Proc, NEW op \in Ops, NEW owner \in SUBSET Owner,
         NEW auto \in BOOLEAN, Begin(p, op, owner, auto)
  PROVE  /\ \E j : Moves(p, j) /\ j.op # "none" /\ ~j.open
         /\ ~job[p].open
         /\ listed' = listed /\ calm' \subseteq Kinds
<1> DEFINE alone == \A q \in Proc : ~Active(q)
           j == [NoJob EXCEPT !.op = op, !.owner = owner, !.auto = auto,
                              !.todo = Script(op), !.alone = alone]
<1>1. j \in JobType /\ j.op = op /\ ~j.open
    <2>1. alone \in BOOLEAN
        OBVIOUS
    <2>2. Script(op) \in Seq(Steps)
        BY ScriptType
    <2> HIDE DEF alone
    <2> QED BY <2>1, <2>2 DEF NoJob, JobType
<1>2. /\ ~Active(p)
      /\ job' = [q \in Proc |-> IF q = p THEN j
                                ELSE IF Active(q) THEN [job[q] EXCEPT !.alone = FALSE]
                                ELSE job[q]]
      /\ calm' = (IF alone THEN calm ELSE {})
      /\ listed' = listed
    BY DEF Begin
<1> HIDE DEF j, alone
<1>3. ~job[p].open
    BY <1>2 DEF TypeOK, Active
<1>4. Moves(p, j)
    BY <1>1, <1>2 DEF TypeOK, Moves, JobType
<1>5. op # "none"
    BY DEF Ops
<1> QED BY <1>1, <1>2, <1>3, <1>4, <1>5 DEF TypeOK

-----------------------------------------------------------------------------
(* Steps.                                                                  *)

\* What a step of process p does to the jobs and the environment: the others
\* keep their steps, and those computed from another listing are spoilt; the
\* environment changes by the models p's step is about, which is then over.
Shape(p) ==
    /\ \E j : /\ Moves(p, j)
              /\ j.op = "none" => j.todo = <<>>
              /\ j.open => j.todo # <<>>
              /\ j.open /\ j.cur => j.base = listed'
    /\ \/ listed' = listed
       \/ /\ \A q \in Proc \ {p} : ~job'[q].cur
          /\ listed' \ listed \subseteq job[p].names
          /\ listed \ listed' \subseteq job[p].names

NoneLost ==
    \A p \in Proc : job[p].open /\ ~job'[p].open =>
        /\ listed' \ listed \subseteq job[p].names
        /\ listed \ listed' \subseteq job[p].names

(* A step of that shape keeps the jobs' types and loses nothing.           *)
LEMMA ShapeSuffices ==
  ASSUME IInv, NEW p \in Proc, Shape(p)
  PROVE  /\ job' \in [Proc -> JobType]
         /\ \A q \in Proc : job'[q].op = "none" => job'[q].todo = <<>>
         /\ \A q \in Proc : job'[q].open => job'[q].todo # <<>>
         /\ Fresh' /\ NoneLost
<1>1. PICK j : /\ Moves(p, j)
               /\ j.op = "none" => j.todo = <<>>
               /\ j.open => j.todo # <<>>
               /\ j.open /\ j.cur => j.base = listed'
    BY DEF Shape
<1>2. TypeOK /\ Fresh
    BY DEF IInv
<1>3. ASSUME NEW q \in Proc, job'[q].open, job'[q].cur PROVE job'[q].base = listed'
    <2>1. CASE q = p
        BY <1>1, <1>3, <2>1 DEF Moves
    <2>2. CASE q # p
        BY <1>1, <1>2, <1>3, <2>2 DEF Moves, Shape, Fresh
    <2> QED BY <2>1, <2>2
<1>4. ASSUME NEW q \in Proc, job[q].open, ~job'[q].open
      PROVE  listed' \ listed \subseteq job[q].names /\ listed \ listed' \subseteq job[q].names
    <2>1. q = p
        BY <1>1, <1>4 DEF Moves
    <2> QED BY <2>1 DEF Shape
<1> QED BY <1>1, <1>2, <1>3, <1>4, MovesType DEF Fresh, NoneLost

(* A process that begins has no step under way.                            *)
LEMMA BeginShape ==
  ASSUME IInv, NEW p \in Proc, NEW op \in Ops, NEW owner \in SUBSET Owner,
         NEW auto \in BOOLEAN, Begin(p, op, owner, auto)
  PROVE  Shape(p) /\ listed' = listed /\ calm' \subseteq Kinds
<1>1. TypeOK
    BY DEF IInv
<1>2. (\E j : Moves(p, j) /\ j.op # "none" /\ ~j.open) /\ listed' = listed /\ calm' \subseteq Kinds
    BY <1>1, BeginMoves
<1> QED BY <1>2 DEF Shape

\* The rest of the type invariant.
Tables == rows \subseteq Owner /\ used \subseteq Scenario /\ listed \subseteq Owner /\ view \subseteq Owner
          /\ calm \subseteq Kinds /\ wronged \subseteq Owner

(* The beginnings.                                                         *)
LEMMA BeginsShape ==
  ASSUME IInv, NEW p \in Proc, NEW auto \in BOOLEAN,
         \/ \E s \in Scenario : Create(p, s, auto) \/ Delete(p, s, auto)
         \/ \E f \in Filter : Apply(p, f, auto) \/ Unapply(p, f, auto)
         \/ \E r \in Run : Launch(p, r)
         \/ \E op \in Ops : Reconcile(p, op)
  PROVE  Shape(p) /\ Tables'
<1>t. TypeOK
    BY DEF IInv
<1>o. \A o \in Scenario \union Run \union Filter : {o} \in SUBSET Owner
    BY DEF Owner
<1>p. /\ "create" \in Ops /\ "delete" \in Ops /\ "launch" \in Ops /\ "apply" \in Ops
      /\ "unapply" \in Ops /\ "canvases" \in Ops /\ "analyses" \in Ops
    BY DEF Ops
<1>1. ASSUME NEW s \in Scenario, Create(p, s, auto) PROVE Shape(p) /\ Tables'
    <2>1. Begin(p, "create", {s}, auto) /\ UNCHANGED <<view, wronged>> /\ used' = used \union {s}
          /\ rows' = IF auto THEN rows \union {s} ELSE rows
        BY <1>1 DEF Create
    <2>2. Shape(p) /\ listed' = listed /\ calm' \subseteq Kinds
        BY <1>o, <1>p, <2>1, BeginShape
    <2> QED BY <1>t, <2>1, <2>2 DEF TypeOK, Tables, Owner
<1>2. ASSUME NEW s \in Scenario, Delete(p, s, auto) PROVE Shape(p) /\ Tables'
    <2>1. Begin(p, "delete", {s}, auto) /\ UNCHANGED <<rows, used>> /\ view' \subseteq view
          /\ wronged' \subseteq wronged \union rows
        BY <1>2 DEF Delete
    <2>2. Shape(p) /\ listed' = listed /\ calm' \subseteq Kinds
        BY <1>o, <1>p, <2>1, BeginShape
    <2> QED BY <1>t, <2>1, <2>2 DEF TypeOK, Tables
<1>3. ASSUME NEW f \in Filter, Apply(p, f, auto) PROVE Shape(p) /\ Tables'
    <2>1. Begin(p, "apply", {f}, auto) /\ UNCHANGED <<used, view, wronged>>
          /\ rows' = IF auto THEN rows \union {f} ELSE rows
        BY <1>3 DEF Apply
    <2>2. Shape(p) /\ listed' = listed /\ calm' \subseteq Kinds
        BY <1>o, <1>p, <2>1, BeginShape
    <2> QED BY <1>t, <2>1, <2>2 DEF TypeOK, Tables, Owner
<1>4. ASSUME NEW f \in Filter, Unapply(p, f, auto) PROVE Shape(p) /\ Tables'
    <2>1. Begin(p, "unapply", {f}, auto) /\ UNCHANGED <<used, view, wronged>> /\ rows' \subseteq rows
        BY <1>4 DEF Unapply
    <2>2. Shape(p) /\ listed' = listed /\ calm' \subseteq Kinds
        BY <1>o, <1>p, <2>1, BeginShape
    <2> QED BY <1>t, <2>1, <2>2 DEF TypeOK, Tables
<1>5. ASSUME NEW r \in Run, Launch(p, r) PROVE Shape(p) /\ Tables'
    <2>1. Begin(p, "launch", {r}, TRUE) /\ UNCHANGED <<used, view, wronged>> /\ rows' = rows \union {r}
        BY <1>5 DEF Launch
    <2>2. Shape(p) /\ listed' = listed /\ calm' \subseteq Kinds
        BY <1>o, <1>p, <2>1, BeginShape
    <2> QED BY <1>t, <2>1, <2>2 DEF TypeOK, Tables, Owner
<1>6. ASSUME NEW op \in Ops, Reconcile(p, op) PROVE Shape(p) /\ Tables'
    <2>1. Begin(p, op, {}, TRUE) /\ UNCHANGED <<rows, used, view, wronged>>
        BY <1>6 DEF Reconcile
    <2>2. Shape(p) /\ listed' = listed /\ calm' \subseteq Kinds
        BY <2>1, BeginShape
    <2> QED BY <1>t, <2>1, <2>2 DEF TypeOK, Tables
<1> QED BY <1>1, <1>2, <1>3, <1>4, <1>5, <1>6

(* What a plan is about are owners.                                        *)
LEMMA PlannedType == ASSUME TypeOK, NEW p \in Proc PROVE Planned(p) \subseteq Owner
<1>1. rows \subseteq Owner /\ job[p].owner \subseteq Owner /\ job[p].auto \in BOOLEAN
    BY DEF TypeOK, JobType
<1>2. Seen(p) = rows \/ Seen(p) = rows \union job[p].owner \/ Seen(p) = rows \ job[p].owner
    <2>1. CASE job[p].auto
        BY <2>1, Zenon DEF Seen
    <2>2. CASE job[p].auto = FALSE
        BY <2>2, Zenon DEF Seen
    <2> QED BY <1>1, <2>1, <2>2
<1>3. Seen(p) \subseteq Owner
    BY <1>1, <1>2
<1>4. Modelled(Seen(p)) \subseteq Owner
    BY <1>3 DEF Modelled
<1> DEFINE all == Of_(KindOf(job[p].op)) \intersect Modelled(Seen(p))
<1>5. Planned(p) = all \/ Planned(p) = {} \/ Planned(p) = job[p].owner
    BY Zenon DEF Planned
<1>6. all \subseteq Owner
    BY <1>4
<1> QED BY <1>1, <1>5, <1>6

(* A read opens the step on what the environment lists, or ends it.        *)
LEMMA ReadShape == ASSUME IInv, NEW p \in Proc, Read(p) PROVE Shape(p) /\ Tables'
<1>t. TypeOK
    BY DEF IInv
<1> DEFINE plan == Head(job[p].todo) = "plan"
           names == IF plan THEN Planned(p) ELSE Purged(p) \intersect listed
           trips == plan /\ ~listed \subseteq Modelled(Seen(p))
           read == [job[p] EXCEPT !.open = TRUE, !.names = names, !.base = listed,
                                  !.cur = TRUE, !.trips = trips]
<1>1. job[p].todo # <<>> /\ UNCHANGED <<rows, used, listed, view, wronged>>
    BY DEF Read
<1>2. \/ job' = [job EXCEPT ![p] = NextStep(p)] /\ calm' = calm
      \/ Fails(p)
      \/ job' = [job EXCEPT ![p] = read] /\ calm' = calm
    BY DEF Read
<1>3. Tables'
    BY <1>t, <1>1, <1>2 DEF TypeOK, Tables, Fails
<1>4. CASE job' = [job EXCEPT ![p] = NextStep(p)]
    <2>1. Moves(p, NextStep(p)) /\ NextStep(p).op # "none" /\ ~NextStep(p).open
        BY <1>t, <1>1, <1>4, NextStepType, ExceptMoves
    <2> QED BY <1>1, <1>3, <2>1 DEF Shape
<1>5. CASE Fails(p)
    <2>1. /\ Moves(p, AfterFailure(p)) /\ ~AfterFailure(p).open
          /\ AfterFailure(p).op = "none" => AfterFailure(p).todo = <<>>
        BY <1>t, <1>1, <1>5, AfterFailureType, ExceptMoves DEF Fails
    <2> QED BY <1>1, <1>3, <2>1 DEF Shape
<1>6. CASE job' = [job EXCEPT ![p] = read]
    <2>1. names \subseteq Owner /\ listed \subseteq Owner
        BY <1>t, PlannedType DEF TypeOK
    <2>2. trips \in BOOLEAN
        OBVIOUS
    <2> HIDE DEF names, trips
    <2>3. job[p] \in JobType
        BY <1>t DEF TypeOK
    <2>5. /\ read \in JobType /\ read.op = job[p].op /\ read.todo = job[p].todo
          /\ read.base = listed
        BY <2>1, <2>2, <2>3 DEF JobType
    <2> HIDE DEF read
    <2>6. Moves(p, read)
        BY <1>t, <1>6, <2>5, ExceptMoves
    <2>7. job[p].op # "none"
        BY <1>t, <1>1 DEF TypeOK
    <2> QED BY <1>1, <1>3, <2>5, <2>6, <2>7 DEF Shape
<1> QED BY <1>2, <1>4, <1>5, <1>6

(* A promotion changes the environment by what its step is about.          *)
LEMMA PromoteShape ==
  ASSUME IInv, NEW p \in Proc, PromotePurge(p) \/ PromotePlan(p) \/ TripOver(p)
  PROVE  Shape(p) /\ Tables'
<1>t. TypeOK /\ Fresh
    BY DEF IInv
<1>1. job[p].open /\ job[p].cur /\ job[p].todo # <<>> /\ job[p].base = listed
    BY <1>t DEF TypeOK, Fresh, PromotePurge, PromotePlan, TripOver
<1>2. job[p].names \subseteq Owner
    BY <1>t DEF TypeOK, JobType
<1>3. listed' = listed \ job[p].names \/ listed' = listed \union job[p].names
    BY <1>1 DEF PromotePurge, PromotePlan, TripOver
<1>4. Tables'
    <2>1. /\ UNCHANGED <<rows, used>> /\ view' \subseteq view \union job[p].names
          /\ (calm' = calm \/ calm' = {}) /\ wronged' \subseteq wronged
        BY DEF PromotePurge, PromotePlan, TripOver
    <2> QED BY <1>t, <1>2, <1>3, <2>1 DEF TypeOK, Tables
<1>5. \E j \in {NextStep(p), AfterFailure(p)} : job' = Outdated(j, p)
    BY DEF PromotePurge, PromotePlan, TripOver
<1>6. ASSUME NEW j \in {NextStep(p), AfterFailure(p)}
      PROVE  j \in JobType /\ ~j.open /\ (j.op = "none" => j.todo = <<>>)
    BY <1>t, <1>1, <1>6, NextStepType, AfterFailureType
<1>7. \E j : Moves(p, j) /\ ~j.open /\ (j.op = "none" => j.todo = <<>>)
             /\ \A q \in Proc \ {p} : ~job'[q].cur
    BY <1>t, <1>5, <1>6, OutdatedMoves
<1> QED BY <1>3, <1>4, <1>7 DEF Shape

(* A refusal, a failure and the end of an operation leave the environment. *)
LEMMA EndShape ==
  ASSUME IInv, NEW p \in Proc, Refused(p) \/ BreakDown(p) \/ Finish(p)
  PROVE  Shape(p) /\ Tables'
<1>t. TypeOK
    BY DEF IInv
<1>1. CASE Refused(p)
    <2>1. job[p].todo # <<>> /\ Fails(p) /\ UNCHANGED <<rows, used, listed, view, wronged>>
        BY <1>t, <1>1 DEF TypeOK, Refused
    <2>2. /\ Moves(p, AfterFailure(p)) /\ ~AfterFailure(p).open
          /\ AfterFailure(p).op = "none" => AfterFailure(p).todo = <<>>
        BY <1>t, <2>1, AfterFailureType, ExceptMoves DEF Fails
    <2> QED BY <1>t, <2>1, <2>2 DEF Shape, Tables, TypeOK, Fails
<1>2. CASE BreakDown(p)
    <2>1. Moves(p, NoJob) /\ listed' = listed
        BY <1>t, <1>2, NoJobType, ExceptMoves DEF BreakDown
    <2>2. Tables'
        BY <1>t, <1>2 DEF Tables, TypeOK, BreakDown
    <2> QED BY <2>1, <2>2, NoJobType DEF Shape
<1>3. CASE Finish(p)
    <2> DEFINE s == job[p].owner \intersect Scenario
               new == {o \in job[p].owner : o \in Scenario \/ Of[o] \in rows}
    <2>1. Moves(p, NoJob) /\ listed' = listed /\ used' = used /\ wronged' \subseteq wronged
        BY <1>t, <1>3, NoJobType, ExceptMoves DEF Finish
    <2>2. \/ rows' = rows \ (job[p].owner \union Belonging(s)) \/ rows' = rows \ job[p].owner
          \/ rows' = rows \union new \/ rows' = rows
        BY <1>3, Zenon DEF Finish
    <2>3. job[p].owner \subseteq Owner
        BY <1>t DEF TypeOK, JobType
    <2>4. rows' \subseteq Owner
        BY <1>t, <2>2, <2>3 DEF TypeOK
    <2>5. view' \subseteq view
        BY <1>3 DEF Finish
    <2>6. Repaired(p) = {} \/ Repaired(p) = {"canvas"} \/ Repaired(p) = {"run"}
        BY Zenon DEF Repaired
    <2>7. calm' \subseteq calm \union Repaired(p)
        BY <1>3 DEF Finish
    <2>8. calm' \subseteq Kinds
        BY <1>t, <2>6, <2>7 DEF TypeOK, Kinds
    <2>9. Tables'
        BY <1>t, <2>1, <2>4, <2>5, <2>8 DEF TypeOK, Tables
    <2> QED BY <2>1, <2>9, NoJobType DEF Shape
<1> QED BY <1>1, <1>2, <1>3

-----------------------------------------------------------------------------
(* The initial state satisfies the invariant.                              *)
LEMMA InitInv == Init => IInv
BY NoJobType DEF Init, IInv, TypeOK, Fresh, Kinds

(* A plan of a base canvas spoils what the others read and changes no job  *)
(* otherwise.                                                              *)
LEMMA BasePlanInv == ASSUME IInv, BasePlan PROVE IInv' /\ NoneLost
<1>t. TypeOK /\ Fresh
    BY DEF IInv
<1>1. /\ UNCHANGED <<rows, used, listed, wronged>> /\ view' \subseteq view /\ calm' \subseteq calm
      /\ job' = [q \in Proc |-> [job[q] EXCEPT !.cur = FALSE, !.alone = FALSE]]
    BY DEF BasePlan
<1>2. \A q \in Proc : job[q] \in JobType
    BY <1>t DEF TypeOK
<1>3. \A q \in Proc : /\ job'[q] \in JobType /\ ~job'[q].cur /\ job'[q].op = job[q].op
                       /\ job'[q].todo = job[q].todo /\ job'[q].open = job[q].open
    BY <1>1, <1>2 DEF JobType
<1>4. job' \in [Proc -> JobType]
    BY <1>1, <1>3
<1> QED BY <1>t, <1>1, <1>3, <1>4 DEF IInv, TypeOK, Fresh, NoneLost

(* The invariant is inductive, and no step loses another's work.           *)
LEMMA StepInv == IInv /\ [Next]_vars => IInv' /\ NoneLost
<1> SUFFICES ASSUME IInv, [Next]_vars PROVE IInv' /\ NoneLost
    OBVIOUS
<1>1. ASSUME NEW p \in Proc, Shape(p), Tables' PROVE IInv' /\ NoneLost
    BY <1>1, ShapeSuffices DEF IInv, TypeOK, Tables
<1>2. ASSUME NEW p \in Proc, NEW auto \in BOOLEAN,
             \/ \E s \in Scenario : Create(p, s, auto) \/ Delete(p, s, auto)
             \/ \E f \in Filter : Apply(p, f, auto) \/ Unapply(p, f, auto)
             \/ \E r \in Run : Launch(p, r)
             \/ \E op \in Ops : Reconcile(p, op)
      PROVE  IInv' /\ NoneLost
    BY <1>1, <1>2, BeginsShape
<1>3. ASSUME NEW p \in Proc, \/ Read(p) \/ Refused(p) \/ PromotePurge(p) \/ PromotePlan(p)
                             \/ TripOver(p) \/ BreakDown(p) \/ Finish(p)
      PROVE  IInv' /\ NoneLost
    BY <1>1, <1>3, ReadShape, PromoteShape, EndShape
<1>4. CASE BasePlan
    BY <1>4, BasePlanInv
<1>5. CASE UNCHANGED vars
    BY <1>5 DEF vars, IInv, TypeOK, Fresh, NoneLost
<1> QED BY <1>2, <1>3, <1>4, <1>5 DEF Next

(* It holds in every reachable state.                                      *)
LEMMA Invariant == Spec => []IInv
BY InitInv, StepInv, PTL DEF Spec

(* Rows, models, views and the jobs of processes keep their types, for any *)
(* scenarios, analyses, filters and processes.                             *)
THEOREM TypeCorrect == Spec => []TypeOK
<1>1. IInv => TypeOK
    BY DEF IInv
<1> QED BY Invariant, <1>1, PTL

(* A plan or a purge changes the environment by the models it is about and *)
(* no others, whatever was promoted while it was computed                  *)
(* (sqlmesh_runner.py:175): what another one added or removed stays so.    *)
THEOREM NothingIsLost == Spec => NothingLost
<1>1. IInv /\ [Next]_vars => [NoneLost]_vars
    BY StepInv
<1>2. [NoneLost]_vars =>
        [\A p \in Proc : job[p].open /\ ~job'[p].open =>
            /\ listed' \ listed \subseteq job[p].names
            /\ listed \ listed' \subseteq job[p].names]_vars
    BY DEF NoneLost
<1> QED BY Invariant, <1>1, <1>2, PTL DEF Spec, NothingLost

-----------------------------------------------------------------------------
(* What nothing went wrong with.                                           *)

\* The rows that have a model: of two scenarios that claim one view only the
\* one with the lowest id does.
Mine == Modelled(rows)

\* What the deletion of scenario s takes along.
Doomed(s) == (SharedView(s) \ {s}) \union (Belonging({s}) \intersect Filter)

\* No scenario there is was created after s.
Latest(s) == \A t \in rows \intersect Scenario : ~(s < t)

\* What an operation is about: its row and, of a delete, the analyses of it.
About(p) == job[p].owner \union (IF job[p].op = "delete" THEN RunsOf(job[p].owner) ELSE {})

\* Process p is at work and nobody else interferes with it.
Lone(p) == Active(p) /\ (calm # {} \/ job[p].alone)

\* What a job may be about, and what it may have left to do.
TaskOk(j) ==
    \/ j.op = "none" /\ j.owner = {} /\ j.todo = <<>>
    \/ /\ j.op = "create" /\ \E s \in Scenario : j.owner = {s}
       /\ j.todo \in {<<"plan">>, <<>>}
    \/ /\ j.op = "delete" /\ \E s \in Scenario : j.owner = {s}
       /\ j.todo \in {<<"purge", "purgeRuns">>, <<"purgeRuns">>, <<>>}
    \/ /\ j.op = "launch" /\ \E r \in Run : j.owner = {r}
       /\ j.todo \in {<<"plan">>, <<>>}
    \/ /\ j.op = "apply" /\ \E f \in Filter : j.owner = {f}
       /\ j.todo \in {<<"purge", "plan">>, <<"plan">>, <<>>}
    \/ /\ j.op = "unapply" /\ \E f \in Filter : j.owner = {f}
       /\ j.todo \in {<<"purge">>, <<>>}
    \/ /\ j.op \in {"canvases", "analyses"} /\ j.owner = {}
       /\ j.todo \in {<<"purge", "plan">>, <<"plan">>, <<>>}

\* The models the step that p is at is about.
Names(p) == IF Head(job[p].todo) = "plan" THEN Planned(p) ELSE Purged(p) \intersect listed

\* A plan selects models the project has.
MayPlan(p) == Head(job[p].todo) = "plan" => Names(p) \subseteq Modelled(Seen(p))

\* The rows a lone operation counts on, and what its step has read.
Promised(p) ==
    Lone(p) =>
        /\ job[p].op = "launch" \/ (job[p].op \in {"create", "apply"} /\ job[p].auto) =>
              job[p].owner \subseteq rows
        /\ job[p].op = "create" => \A s \in job[p].owner : Latest(s)
        /\ job[p].op = "delete" /\ calm # {} =>
              \A s \in job[p].owner : Doomed(s) \intersect rows \subseteq wronged
        /\ job[p].op = "apply" => \A f \in job[p].owner : Of[f] \in rows
        /\ job[p].op = "unapply" /\ job[p].auto => job[p].owner \intersect rows = {}
        /\ job[p].open /\ job[p].cur => job[p].names = Names(p) /\ MayPlan(p)

\* What an operation has done once its steps are over.
Made(p) ==
    job[p].op \in {"create", "launch", "apply"} /\ job[p].todo = <<>> /\ KindOf(job[p].op) \in calm =>
        /\ job[p].owner \subseteq listed /\ job[p].owner \subseteq view
        /\ job[p].owner \subseteq Modelled(rows \union job[p].owner)

Removed(p) ==
    calm # {} =>
        /\ job[p].op = "unapply" /\ job[p].todo = <<>> => job[p].owner \intersect listed = {}
        /\ job[p].op = "delete" /\ job[p].todo # <<"purge", "purgeRuns">> =>
              job[p].owner \intersect listed = {}
        /\ job[p].op = "delete" /\ job[p].todo = <<>> => RunsOf(job[p].owner) \intersect listed = {}

Repairing(p) ==
    job[p].alone /\ job[p].op \in {"canvases", "analyses"} =>
        LET K == Of_(KindOf(job[p].op)) IN
        /\ job[p].todo # <<"purge", "plan">> => listed \intersect K \subseteq Mine
        /\ job[p].todo = <<>> /\ (job[p].op = "analyses" => rows \intersect K \subseteq listed) =>
              Mine \intersect K \subseteq listed /\ Mine \intersect K \subseteq view

Progress(p) == Promised(p) /\ Made(p) /\ Removed(p) /\ Repairing(p)

\* What an operation is not about is as it should be.
KeptBut(A) ==
    \A kind \in calm :
        /\ (listed \intersect Of_(kind)) \ (A \union wronged) = (Mine \intersect Of_(kind)) \ (A \union wronged)
        /\ (Mine \intersect Of_(kind)) \ (A \union wronged) \subseteq view

InHand == UNION {About(p) : p \in Proc}

OneAtATime == \A p, q \in Proc : p # q /\ Lone(p) => ~Active(q)

\* Scenarios come in the order of their ids, and those that are, or are being
\* created, have come.
Counted ==
    /\ rows \intersect Scenario \subseteq used
    /\ \A p \in Proc : job[p].owner \intersect Scenario \subseteq used
    /\ \A s \in used, t \in Scenario : t < s => t \in used

CInv ==
    /\ OneAtATime
    /\ \A p \in Proc : TaskOk(job[p]) /\ Progress(p)
    /\ KeptBut(InHand)

-----------------------------------------------------------------------------
(* Which operation works on which kind.                                    *)
LEMMA KindsOf ==
  /\ KindOf("create") = "canvas" /\ KindOf("delete") = "canvas" /\ KindOf("canvases") = "canvas"
  /\ KindOf("launch") = "run" /\ KindOf("analyses") = "run"
  /\ KindOf("apply") = "filter" /\ KindOf("unapply") = "filter"
  /\ Of_("canvas") = Scenario /\ Of_("run") = Run /\ Of_("filter") = Filter
BY DEF KindOf, Of_

(* The steps of a script, one after the other.                             *)
LEMMA ScriptSteps ==
  /\ Head(<<"purge", "purgeRuns">>) = "purge" /\ Tail(<<"purge", "purgeRuns">>) = <<"purgeRuns">>
  /\ Head(<<"purge", "plan">>) = "purge" /\ Tail(<<"purge", "plan">>) = <<"plan">>
  /\ Head(<<"plan">>) = "plan" /\ Tail(<<"plan">>) = <<>>
  /\ Head(<<"purge">>) = "purge" /\ Tail(<<"purge">>) = <<>>
  /\ Head(<<"purgeRuns">>) = "purgeRuns" /\ Tail(<<"purgeRuns">>) = <<>>
  /\ <<"plan">> # <<>> /\ <<"purge">> # <<>> /\ <<"purgeRuns">> # <<>>
  /\ <<"purge", "plan">> # <<>> /\ <<"purge", "purgeRuns">> # <<>>
  /\ <<"plan">> # <<"purge", "plan">> /\ <<"purgeRuns">> # <<"purge", "purgeRuns">>
OBVIOUS

(* Analyses and filters that are there have models, scenarios at most.     *)
LEMMA ModelledOf ==
  ASSUME NEW R
  PROVE  /\ Modelled(R) \subseteq R
         /\ Modelled(R) \intersect Run = R \intersect Run
         /\ Modelled(R) \intersect Filter = R \intersect Filter
BY KindsAssumption DEF Modelled

\* R and Q differ in D, and no scenario of D comes before another, outside A,
\* of the same view.
Apart(R, Q, D, A) ==
    /\ D \subseteq A /\ R \ D = Q \ D
    /\ \A o \in ((R \union Q) \intersect Scenario) \ A : \A s \in D \intersect Scenario :
          ~(s < o /\ ViewName[s] = ViewName[o])

(* Rows that come or go leave the models of the others alone, but for      *)
(* those of later scenarios of the same view.                              *)
LEMMA ModelledBut ==
  ASSUME NEW R, NEW Q, NEW D, NEW A, Apart(R, Q, D, A)
  PROVE  Modelled(R) \ A = Modelled(Q) \ A
<1> USE DEF Apart
<1>1. ASSUME NEW o, o \notin A
      PROVE  o \in Modelled(R) <=> o \in Modelled(Q)
    <2>1. o \in R <=> o \in Q
        BY <1>1
    <2>2. CASE o \notin R
        BY <2>1, <2>2, ModelledOf
    <2>3. CASE o \in R /\ o \notin Scenario
        BY <2>1, <2>3 DEF Modelled
    <2>4. CASE o \in R /\ o \in Scenario
        <3>1. \A s \in Scenario : s < o /\ ViewName[s] = ViewName[o] => (s \in R <=> s \in Q)
            BY <1>1, <2>4
        <3> QED BY <2>1, <2>4, <3>1 DEF Modelled
    <2> QED BY <2>2, <2>3, <2>4
<1> QED BY <1>1

(* The models of the next state are those of its rows.                     *)
LEMMA MineNext == Mine' = Modelled(rows') /\ (rows' = rows => Mine' = Mine)
BY DEF Mine, Modelled

(* The rows a process sees.                                                *)
LEMMA SeenIs ==
  ASSUME TypeOK, NEW p \in Proc
  PROVE  /\ Seen(p) \in SUBSET Owner
         /\ job[p].auto => Seen(p) = rows
         /\ ~job[p].auto /\ job[p].op \in {"create", "apply"} => Seen(p) = rows \union job[p].owner
         /\ ~job[p].auto /\ job[p].op = "unapply" => Seen(p) = rows \ job[p].owner
         /\ job[p].op \notin {"create", "apply", "unapply"} => Seen(p) = rows
<1>1. rows \subseteq Owner /\ job[p].owner \subseteq Owner /\ job[p].auto \in BOOLEAN
    BY DEF TypeOK, JobType
<1>2. job[p].auto => Seen(p) = rows
    BY DEF Seen
<1>3. ~job[p].auto /\ job[p].op \in {"create", "apply"} => Seen(p) = rows \union job[p].owner
    BY DEF Seen
<1>4. ~job[p].auto /\ job[p].op = "unapply" => Seen(p) = rows \ job[p].owner
    BY DEF Seen
<1>5. job[p].op \notin {"create", "apply", "unapply"} => Seen(p) = rows
    BY DEF Seen
<1> QED BY <1>1, <1>2, <1>3, <1>4, <1>5

(* What the step at hand is about, operation by operation.                 *)
LEMMA NamesAre ==
  ASSUME TypeOK, NEW p \in Proc, TaskOk(job[p]), job[p].todo # <<>>
  PROVE  /\ job[p].op \in {"create", "launch"} => job[p].todo = <<"plan">>
         /\ job[p].op \in {"create", "launch", "apply"} /\ Head(job[p].todo) = "plan" =>
               Names(p) = job[p].owner
         /\ job[p].op = "delete" =>
               /\ Head(job[p].todo) # "plan"
               /\ job[p].todo = <<"purge", "purgeRuns">> => Names(p) = job[p].owner \intersect listed
               /\ job[p].todo = <<"purgeRuns">> => Names(p) = RunsOf(job[p].owner) \intersect listed
         /\ job[p].op \in {"apply", "unapply"} /\ Head(job[p].todo) # "plan" =>
               Names(p) = (listed \intersect Filter) \ Seen(p)
         /\ job[p].op \in {"canvases", "analyses"} =>
               LET K == Of_(KindOf(job[p].op)) IN
               /\ Head(job[p].todo) # "plan" => Names(p) = (listed \intersect K) \ Mine
               /\ Head(job[p].todo) = "plan" =>
                     Names(p) = IF job[p].op = "analyses" /\ Mine \intersect K \intersect listed = {}
                                THEN {} ELSE Mine \intersect K
<1>1. Modelled(Seen(p)) \intersect Filter = Seen(p) \intersect Filter
    BY ModelledOf
<1>2. job[p].op \in {"create", "launch", "apply"} => Planned(p) = job[p].owner
    BY DEF Planned
<1>7. job[p].op \in {"canvases", "analyses"} => Modelled(Seen(p)) = Mine
    BY SeenIs DEF Mine
<1>3. job[p].op = "canvases" => Planned(p) = Scenario \intersect Mine
    BY <1>7, KindsOf DEF Planned
<1>4. job[p].op = "analyses" =>
        Planned(p) = IF (Run \intersect Mine) \intersect listed = {} THEN {} ELSE Run \intersect Mine
    BY <1>7, KindsOf DEF Planned
<1>5. job[p].op = "delete" => Purged(p) = IF Head(job[p].todo) = "purge" THEN job[p].owner
                                          ELSE RunsOf(job[p].owner)
    BY DEF Purged
<1>6. job[p].op # "delete" => Purged(p) = (listed \intersect Of_(KindOf(job[p].op))) \ Modelled(Seen(p))
    BY DEF Purged, Stale
<1>8. CASE job[p].op \in {"create", "launch"}
    BY <1>2, <1>8, ScriptSteps DEF TaskOk, Names
<1>9. CASE job[p].op = "delete"
    BY <1>5, <1>9, ScriptSteps DEF TaskOk, Names
<1>10. CASE job[p].op \in {"apply", "unapply"}
    BY <1>1, <1>2, <1>6, <1>10, KindsOf, ScriptSteps DEF TaskOk, Names
<1>11. CASE job[p].op \in {"canvases", "analyses"}
    BY <1>3, <1>4, <1>6, <1>7, <1>11, KindsOf, ScriptSteps DEF TaskOk, Names
<1>12. job[p].op # "none"
    BY DEF TaskOk
<1> QED BY <1>8, <1>9, <1>10, <1>11, <1>12 DEF TaskOk

\* The current step of p is done: it took away, or added and published, what
\* it was about, and nothing else changed.
StepDone(p) ==
    /\ UNCHANGED <<rows, calm>>
    /\ job'[p] = NextStep(p)
    /\ MayPlan(p)
    /\ IF Head(job[p].todo) = "plan"
       THEN /\ listed' = listed \union Names(p) /\ view' = view \union Names(p)
            /\ wronged' = wronged
       ELSE listed' = listed \ Names(p) /\ view' = view /\ wronged' = wronged \ Names(p)

(* The fields of a job whose step is over.                                 *)
LEMMA NextStepIs ==
  ASSUME TypeOK, NEW p \in Proc
  PROVE  /\ NextStep(p).op = job[p].op /\ NextStep(p).owner = job[p].owner
         /\ NextStep(p).auto = job[p].auto /\ NextStep(p).todo = Tail(job[p].todo)
         /\ NextStep(p).open = FALSE /\ NextStep(p).cur = FALSE /\ NextStep(p).alone = job[p].alone
BY DEF TypeOK, NextStep, JobType

(* After a step a job has the rest of its script before it.                *)
LEMMA NextTask ==
  ASSUME TypeOK, NEW p \in Proc, TaskOk(job[p]), job[p].todo # <<>>
  PROVE  TaskOk(NextStep(p))
BY NextStepIs, ScriptSteps DEF TaskOk

(* The three kinds share no owner.                                         *)
LEMMA KindsApart ==
  ASSUME NEW k \in Kinds, NEW l \in Kinds, k # l
  PROVE  Of_(k) \intersect Of_(l) = {}
<1>1. k \in {"canvas", "run", "filter"} /\ l \in {"canvas", "run", "filter"}
    BY DEF Kinds
<1> QED BY <1>1, KindsOf, KindsAssumption

(* What a step is about concerns nobody else's models: a purge takes none  *)
(* that a row has but what the operation is about, a plan adds that, or    *)
(* the models of rows there are.                                           *)
LEMMA NamesApart ==
  ASSUME TypeOK, NEW p \in Proc, TaskOk(job[p]), job[p].todo # <<>>
  PROVE  IF Head(job[p].todo) = "plan"
         THEN Names(p) \subseteq About(p) \union Mine
         ELSE Names(p) \subseteq listed /\ Names(p) \intersect Mine \subseteq About(p)
<1>1. job[p].owner \subseteq About(p)
    BY DEF About
<1>2. Mine \subseteq rows
    BY ModelledOf DEF Mine
<1>3. CASE job[p].op \in {"create", "launch"}
    BY <1>1, <1>3, NamesAre, ScriptSteps
<1>4. CASE job[p].op = "delete"
    <2>1. RunsOf(job[p].owner) \subseteq About(p)
        BY <1>4 DEF About
    <2> QED BY <1>1, <1>4, <2>1, NamesAre DEF TaskOk
<1>5. CASE job[p].op \in {"apply", "unapply"}
    <2>1. CASE Head(job[p].todo) = "plan"
        BY <1>1, <1>5, <2>1, NamesAre, ScriptSteps DEF TaskOk
    <2>2. CASE Head(job[p].todo) # "plan"
        <3>1. Names(p) = (listed \intersect Filter) \ Seen(p)
            BY <1>5, <2>2, NamesAre
        <3>2. rows \ job[p].owner \subseteq Seen(p)
            BY <1>5, SeenIs
        <3> QED BY <1>1, <1>2, <2>2, <3>1, <3>2
    <2> QED BY <2>1, <2>2
<1>6. CASE job[p].op \in {"canvases", "analyses"}
    BY <1>6, NamesAre
<1> QED BY <1>3, <1>4, <1>5, <1>6 DEF TaskOk

(* A step of a lone operation keeps what the operation is not about.       *)
LEMMA StepKeeps ==
  ASSUME TypeOK, NEW p \in Proc, TaskOk(job[p]), job[p].todo # <<>>,
         calm # {} => KeptBut(About(p)), StepDone(p)
  PROVE  About(p)' = About(p) /\ KeptBut(About(p))'
<1>1. About(p)' = About(p)
    BY NextStepIs DEF About, StepDone, RunsOf
<1>2. rows' = rows /\ calm' = calm /\ Mine' = Mine
    BY MineNext DEF StepDone
<1>3. ASSUME NEW kind \in calm
      PROVE  /\ (listed' \intersect Of_(kind)) \ (About(p) \union wronged')
                   = (Mine \intersect Of_(kind)) \ (About(p) \union wronged')
             /\ (Mine \intersect Of_(kind)) \ (About(p) \union wronged') \subseteq view'
    <2>1. /\ (listed \intersect Of_(kind)) \ (About(p) \union wronged)
               = (Mine \intersect Of_(kind)) \ (About(p) \union wronged)
          /\ (Mine \intersect Of_(kind)) \ (About(p) \union wronged) \subseteq view
        BY <1>3 DEF KeptBut
    <2>2. CASE Head(job[p].todo) = "plan"
        <3>1. Names(p) \subseteq About(p) \union Mine
            BY <2>2, NamesApart
        <3>2. /\ listed' = listed \union Names(p) /\ view' = view \union Names(p)
              /\ wronged' = wronged
            BY <2>2 DEF StepDone
        <3> QED BY <2>1, <3>1, <3>2
    <2>3. CASE Head(job[p].todo) # "plan"
        <3>1. Names(p) \subseteq listed /\ Names(p) \intersect Mine \subseteq About(p)
            BY <2>3, NamesApart
        <3>2. listed' = listed \ Names(p) /\ view' = view /\ wronged' = wronged \ Names(p)
            BY <2>3 DEF StepDone
        <3> QED BY <2>1, <3>1, <3>2
    <2> QED BY <2>2, <2>3
<1> QED BY <1>1, <1>2, <1>3 DEF KeptBut, Of_

(* A step of a lone operation brings it forward.                           *)
LEMMA StepProgress ==
  ASSUME TypeOK, NEW p \in Proc, Active(p), TaskOk(job[p]), job[p].todo # <<>>,
         Progress(p), StepDone(p)
  PROVE  Progress(p)'
<1>1. /\ job'[p].op = job[p].op /\ job'[p].owner = job[p].owner /\ job'[p].auto = job[p].auto
      /\ job'[p].todo = Tail(job[p].todo) /\ job'[p].open = FALSE /\ job'[p].alone = job[p].alone
      /\ rows' = rows /\ calm' = calm
    BY NextStepIs DEF StepDone
<1>2. Promised(p)'
    <2> SUFFICES ASSUME Lone(p) PROVE Promised(p)'
        BY <1>1 DEF Promised, Lone, Active
    <2>1. job[p].op = "create" => \A s \in job[p].owner : Latest(s)'
        BY <1>1 DEF Progress, Promised, Latest
    <2>2. ASSUME job[p].op = "delete", calm # {}, NEW s \in job[p].owner
          PROVE  Doomed(s)' \intersect rows' \subseteq wronged'
        <3>1. Doomed(s)' = Doomed(s)
            BY DEF Doomed, SharedView, Belonging
        <3>2. s \in Scenario /\ job[p].owner = {s}
            BY <2>2 DEF TaskOk
        <3>3. Names(p) \subseteq {s} \union Run
            <4>1. RunsOf(job[p].owner) \subseteq Run
                BY DEF RunsOf
            <4> QED BY <2>2, <3>2, <4>1, NamesAre DEF TaskOk
        <3>4. Doomed(s) \intersect ({s} \union Run) = {}
            BY <3>2, KindsAssumption DEF Doomed, SharedView, Belonging
        <3>5. Doomed(s) \intersect rows \subseteq wronged
            BY <2>2 DEF Progress, Promised
        <3>6. wronged \ Names(p) \subseteq wronged'
            BY DEF StepDone
        <3> QED BY <1>1, <3>1, <3>3, <3>4, <3>5, <3>6
    <2> QED BY <1>1, <2>1, <2>2 DEF Progress, Promised
<1>3. Made(p)'
    <2> SUFFICES ASSUME job[p].op \in {"create", "launch", "apply"}, Tail(job[p].todo) = <<>>,
                        calm # {}
                 PROVE  /\ job[p].owner \subseteq listed' /\ job[p].owner \subseteq view'
                        /\ job[p].owner \subseteq Modelled(rows \union job[p].owner)
        <3>1. Modelled(rows \union job[p].owner)' = Modelled(rows \union job[p].owner)
            BY <1>1 DEF Modelled
        <3> QED BY <1>1, <3>1 DEF Made
    <2>1. Head(job[p].todo) = "plan" /\ Lone(p)
        BY ScriptSteps DEF TaskOk, Lone
    <2>2. Names(p) = job[p].owner /\ Names(p) \subseteq Modelled(Seen(p))
        BY <2>1, NamesAre DEF StepDone, MayPlan
    <2>3. Seen(p) = rows \union job[p].owner
        <3>1. job[p].auto => job[p].op = "launch" \/ job[p].owner \subseteq rows
            BY <2>1 DEF Progress, Promised
        <3>2. job[p].op = "launch" => job[p].owner \subseteq rows
            BY <2>1 DEF Progress, Promised
        <3> QED BY <3>1, <3>2, SeenIs
    <2> QED BY <2>1, <2>2, <2>3 DEF StepDone
<1>4. Removed(p)'
    <2> SUFFICES ASSUME calm # {}
                 PROVE  /\ job[p].op = "unapply" /\ Tail(job[p].todo) = <<>> => job[p].owner \intersect listed' = {}
                        /\ job[p].op = "delete" /\ Tail(job[p].todo) # <<"purge", "purgeRuns">> =>
                              job[p].owner \intersect listed' = {}
                        /\ job[p].op = "delete" /\ Tail(job[p].todo) = <<>> =>
                              RunsOf(job[p].owner) \intersect listed' = {}
        BY <1>1 DEF Removed, RunsOf
    <2>1. Lone(p)
        BY DEF Lone
    <2>2. CASE job[p].op = "unapply"
        <3>1. Head(job[p].todo) # "plan"
            BY <2>2, ScriptSteps DEF TaskOk
        <3>2. listed' = listed \ ((listed \intersect Filter) \ Seen(p))
            BY <2>2, <3>1, NamesAre DEF StepDone
        <3>3. job[p].owner \intersect Seen(p) = {}
            <4>1. job[p].auto => job[p].owner \intersect rows = {}
                BY <2>1, <2>2 DEF Progress, Promised
            <4> QED BY <2>2, <4>1, SeenIs
        <3>4. job[p].owner \subseteq Filter
            BY <2>2 DEF TaskOk
        <3> QED BY <2>2, <3>2, <3>3, <3>4
    <2>3. CASE job[p].op = "delete"
        <3>1. Head(job[p].todo) # "plan" /\ listed' = listed \ Names(p)
            BY <2>3, NamesAre DEF StepDone
        <3>2. job[p].todo = <<"purge", "purgeRuns">> \/ job[p].todo = <<"purgeRuns">>
            BY <2>3 DEF TaskOk
        <3>3. job[p].todo = <<"purgeRuns">> => job[p].owner \intersect listed = {}
            BY <2>3, ScriptSteps DEF Progress, Removed
        <3> QED BY <2>3, <3>1, <3>2, <3>3, NamesAre, ScriptSteps
    <2> QED BY <2>2, <2>3
<1>5. Repairing(p)'
    <2> DEFINE K == Of_(KindOf(job[p].op))
    <2> SUFFICES ASSUME job[p].alone, job[p].op \in {"canvases", "analyses"}
                 PROVE  /\ Tail(job[p].todo) # <<"purge", "plan">> => listed' \intersect K \subseteq Mine
                        /\ Tail(job[p].todo) = <<>>
                           /\ (job[p].op = "analyses" => rows \intersect K \subseteq listed') =>
                              Mine \intersect K \subseteq listed' /\ Mine \intersect K \subseteq view'
        BY <1>1, MineNext DEF Repairing, Of_, KindOf
    <2>0. job[p].op = "analyses" => Mine \intersect K = rows \intersect K
        BY KindsOf, ModelledOf DEF Mine
    <2>1. CASE job[p].todo = <<"purge", "plan">>
        BY <2>1, NamesAre, ScriptSteps DEF StepDone
    <2>2. CASE job[p].todo = <<"plan">>
        <3>1. listed \intersect K \subseteq Mine
            BY <2>2, ScriptSteps DEF Progress, Repairing
        <3>2. /\ listed' = listed \union Names(p) /\ view' = view \union Names(p)
              /\ Names(p) = IF job[p].op = "analyses" /\ Mine \intersect K \intersect listed = {}
                            THEN {} ELSE Mine \intersect K
            BY <2>2, NamesAre, ScriptSteps DEF StepDone
        <3> QED BY <2>0, <3>1, <3>2
    <2> QED BY <2>1, <2>2 DEF TaskOk
<1> QED BY <1>2, <1>3, <1>4, <1>5 DEF Progress

-----------------------------------------------------------------------------
(* One process and the others.                                             *)

\* The others keep what they are about.
Frame(p) ==
    \A q \in Proc \ {p} :
        /\ job'[q].op = job[q].op /\ job'[q].owner = job[q].owner
        /\ job'[q].todo = job[q].todo /\ job'[q].alone = job[q].alone

(* Who is not at work is about nothing.                                    *)
LEMMA Idle ==
  ASSUME NEW q \in Proc, TaskOk(job[q]), ~Active(q)
  PROVE  About(q) = {} /\ Progress(q)
<1>1. job[q].op = "none" /\ job[q].owner = {} /\ job[q].todo = <<>>
    BY DEF TaskOk, Active
<1> QED BY <1>1 DEF About, Progress, Promised, Lone, Active, Made, Removed, Repairing

(* Among idle processes what is in hand is what one is about.              *)
LEMMA InHandIs ==
  ASSUME NEW p \in Proc, \A q \in Proc : TaskOk(job[q]), \A q \in Proc \ {p} : ~Active(q)
  PROVE  InHand = About(p)
<1>1. \A q \in Proc \ {p} : About(q) = {}
    BY Idle
<1> QED BY <1>1 DEF InHand

(* Where something is vouched for, one at work is the only one.            *)
LEMMA KeptLone ==
  ASSUME CInv, NEW p \in Proc, Active(p), calm # {}
  PROVE  Lone(p) /\ (\A q \in Proc \ {p} : ~Active(q)) /\ KeptBut(About(p))
<1>1. Lone(p)
    BY DEF Lone
<1>2. \A q \in Proc \ {p} : ~Active(q)
    BY <1>1 DEF CInv, OneAtATime
<1>3. InHand = About(p)
    BY <1>2, InHandIs DEF CInv
<1> QED BY <1>1, <1>2, <1>3 DEF CInv

(* Nothing is vouched for while another one is at work.                    *)
LEMMA Crowded ==
  ASSUME CInv, NEW p \in Proc, Active(p), calm' \subseteq calm \union Repaired(p),
         NEW q \in Proc \ {p}, Active(q)
  PROVE  calm' = {} /\ ~job[p].alone /\ ~job[q].alone
<1>1. ~Lone(p) /\ ~Lone(q)
    BY DEF CInv, OneAtATime
<1>2. calm = {} /\ ~job[p].alone /\ ~job[q].alone
    BY <1>1 DEF Lone
<1>3. Repaired(p) = {}
    BY <1>2 DEF Repaired
<1> QED BY <1>2, <1>3

(* A step of one process need only be looked at from its own side.         *)
LEMMA Solo ==
  ASSUME CInv, NEW p \in Proc, Active(p), Frame(p), calm' \subseteq calm \union Repaired(p),
         job'[p].alone => job[p].alone,
         TaskOk(job'[p]), Progress(p)', KeptBut(About(p))'
  PROVE  CInv'
<1>1. \A q \in Proc : TaskOk(job'[q])
    BY DEF CInv, Frame, TaskOk
<1>2. \A q \in Proc \ {p} : Active(q)' <=> Active(q)
    BY DEF Frame, Active
<1>3. ASSUME NEW q \in Proc \ {p}, Active(q)
      PROVE  calm' = {} /\ ~job'[p].alone /\ ~job'[q].alone /\ ~Lone(q)'
    <2>1. calm' = {} /\ ~job[p].alone /\ ~job[q].alone
        BY <1>3, Crowded
    <2> QED BY <2>1 DEF Frame, Lone
<1>4. OneAtATime'
    <2> SUFFICES ASSUME NEW a \in Proc, NEW b \in Proc, a # b, Lone(a)', Active(b)' PROVE FALSE
        BY DEF OneAtATime
    <2>1. CASE a = p
        BY <1>2, <1>3, <2>1 DEF Lone
    <2>2. CASE a # p
        BY <1>2, <1>3, <2>2 DEF Lone
    <2> QED BY <2>1, <2>2
<1>5. ASSUME NEW q \in Proc PROVE Progress(q)'
    <2>1. CASE q = p
        BY <2>1
    <2>2. CASE q # p /\ Active(q)
        <3>1. calm' = {} /\ ~job'[q].alone /\ ~Lone(q)'
            BY <1>3, <2>2
        <3> QED BY <3>1 DEF Progress, Promised, Made, Removed, Repairing
    <2>3. CASE q # p /\ ~Active(q)
        <3>1. job'[q].op = "none"
            BY <2>3 DEF Frame, Active
        <3> QED BY <3>1 DEF Progress, Promised, Lone, Active, Made, Removed, Repairing
    <2> QED BY <2>1, <2>2, <2>3
<1>6. KeptBut(InHand)'
    <2>1. CASE calm' = {}
        BY <2>1 DEF KeptBut
    <2>2. CASE calm' # {}
        <3>1. \A q \in Proc \ {p} : ~Active(q)'
            BY <1>2, <1>3, <2>2
        <3>2. \A q \in Proc \ {p} : About(q)' = {}
            BY <1>1, <3>1 DEF TaskOk, Active, About
        <3>3. InHand' = About(p)'
            BY <3>2 DEF InHand
        <3> QED BY <3>3 DEF KeptBut
    <2> QED BY <2>1, <2>2
<1> QED BY <1>1, <1>4, <1>5, <1>6 DEF CInv

(* A failure vouches for nothing.                                          *)
LEMMA Failure ==
  ASSUME TypeOK, CInv, NEW p \in Proc, Active(p), Frame(p), calm' = {},
         \/ job'[p] = NoJob
         \/ job[p].todo # <<>> /\ job'[p] = AfterFailure(p)
  PROVE  CInv'
<1>1. CASE job'[p] = NoJob
    <2>1. job'[p].op = "none" /\ job'[p].owner = {} /\ job'[p].todo = <<>> /\ job'[p].alone = FALSE
        BY <1>1 DEF NoJob
    <2>2. TaskOk(job'[p])
        BY <2>1 DEF TaskOk
    <2>3. Progress(p)'
        BY <2>1 DEF Progress, Promised, Lone, Active, Made, Removed, Repairing
    <2> QED BY <2>1, <2>2, <2>3, Solo DEF KeptBut
<1>2. CASE job[p].op = "delete" /\ job[p].todo # <<>> /\ job'[p] = NextStep(p)
    <2>1. TaskOk(job'[p])
        BY <1>2, NextTask DEF CInv
    <2>2. job'[p].op = "delete" /\ job'[p].open = FALSE /\ job'[p].alone = job[p].alone
        BY <1>2, NextStepIs
    <2>3. Progress(p)'
        BY <2>2 DEF Progress, Promised, Made, Removed, Repairing
    <2> QED BY <2>1, <2>2, <2>3, Solo DEF KeptBut
<1> QED BY <1>1, <1>2 DEF AfterFailure

-----------------------------------------------------------------------------
(* Beginnings.                                                             *)

\* What a beginning does to the jobs.
Began(p, op, owner) ==
    /\ ~Active(p) /\ listed' = listed
    /\ job'[p].op = op /\ job'[p].owner = owner
    /\ job'[p].todo = Script(op) /\ job'[p].open = FALSE
    /\ \A q \in Proc \ {p} :
          /\ job'[q].op = job[q].op /\ job'[q].owner = job[q].owner /\ job'[q].todo = job[q].todo
          /\ Active(q) => job'[q].alone = FALSE
    /\ (\A q \in Proc : ~Active(q)) => calm' = calm
    /\ (\E q \in Proc : Active(q)) => calm' = {} /\ job'[p].alone = FALSE

(* It is what Begin does; the job commits as it was told to.               *)
LEMMA BeginIs ==
  ASSUME TypeOK, NEW p \in Proc, NEW op, NEW owner, NEW auto, Begin(p, op, owner, auto)
  PROVE  Began(p, op, owner) /\ job'[p].auto = auto
<1> DEFINE alone == \A q \in Proc : ~Active(q)
           new == [NoJob EXCEPT !.op = op, !.owner = owner, !.auto = auto,
                                !.todo = Script(op), !.alone = alone]
<1>1. /\ ~Active(p) /\ listed' = listed
      /\ job' = [q \in Proc |-> IF q = p THEN new
                                ELSE IF Active(q) THEN [job[q] EXCEPT !.alone = FALSE]
                                ELSE job[q]]
      /\ calm' = (IF alone THEN calm ELSE {})
    BY DEF Begin
<1>2. \A q \in Proc : job[q] \in JobType
    BY DEF TypeOK
<1>3. \A q \in Proc \ {p} :
        /\ job'[q].op = job[q].op /\ job'[q].owner = job[q].owner /\ job'[q].todo = job[q].todo
        /\ Active(q) => job'[q].alone = FALSE
    <2> HIDE DEF new
    <2> QED BY <1>1, <1>2 DEF JobType
<1>4. job'[p] = new
    BY <1>1
<1>5. alone \in BOOLEAN
    OBVIOUS
<1>6. /\ new.op = op /\ new.owner = owner /\ new.auto = auto
      /\ new.todo = Script(op) /\ new.open = FALSE /\ new.alone = alone
    <2> HIDE DEF alone
    <2> QED BY DEF NoJob
<1>7. (\A q \in Proc : ~Active(q)) => calm' = calm
    BY <1>1
<1>8. (\E q \in Proc : Active(q)) => calm' = {} /\ job'[p].alone = FALSE
    BY <1>1, <1>4, <1>5, <1>6
<1> HIDE DEF new
<1>9. job'[p].auto = auto
    BY <1>4, <1>6
<1> QED BY <1>1, <1>3, <1>4, <1>6, <1>7, <1>8, <1>9 DEF Began

(* The script of each operation.                                           *)
LEMMA ScriptIs ==
  /\ Script("create") = <<"plan">> /\ Script("launch") = <<"plan">>
  /\ Script("delete") = <<"purge", "purgeRuns">> /\ Script("unapply") = <<"purge">>
  /\ Script("apply") = <<"purge", "plan">> /\ Script("canvases") = <<"purge", "plan">>
  /\ Script("analyses") = <<"purge", "plan">>
BY DEF Script

(* An operation that begins when nobody is at work starts from what is as  *)
(* it should be; one that begins beside another vouches for nothing.       *)
LEMMA BeginKeeps ==
  ASSUME TypeOK, CInv, NEW p \in Proc, NEW op \in Ops, NEW owner, Began(p, op, owner), TaskOk(job'[p]),
         Mine' \ owner = Mine \ owner, (view \intersect Mine) \ (owner \union wronged') \subseteq view',
         wronged \subseteq wronged', Promised(p)'
  PROVE  CInv'
<1>1. \A q \in Proc : TaskOk(job'[q])
    BY DEF Began, CInv, TaskOk
<1>2. \A q \in Proc \ {p} : Active(q)' <=> Active(q)
    BY DEF Began, Active
<1>3. CASE \E q \in Proc : Active(q)
    <2>1. calm' = {} /\ \A q \in Proc : Active(q)' => job'[q].alone = FALSE
        BY <1>2, <1>3 DEF Began
    <2>2. \A q \in Proc : ~Lone(q)'
        BY <2>1 DEF Lone
    <2>3. OneAtATime'
        BY <2>2 DEF OneAtATime
    <2>4. ASSUME NEW q \in Proc PROVE Progress(q)'
        <3>1. Repairing(q)'
            BY <2>1 DEF Repairing, Active
        <3> QED BY <2>1, <2>2, <3>1 DEF Progress, Promised, Made, Removed
    <2>5. KeptBut(InHand)'
        BY <2>1 DEF KeptBut
    <2> QED BY <1>1, <2>3, <2>4, <2>5 DEF CInv
<1>4. CASE \A q \in Proc : ~Active(q)
    <2>1. \A q \in Proc \ {p} : ~Active(q)'
        BY <1>2, <1>4
    <2>2. OneAtATime'
        BY <2>1 DEF OneAtATime, Lone
    <2>3. ASSUME NEW q \in Proc PROVE Progress(q)'
        <3>1. CASE q = p
            <4>1. job'[p].op = op /\ job'[p].todo = Script(op)
                BY DEF Began
            <4>2. Made(p)'
                BY <4>1, ScriptIs, ScriptSteps DEF Made
            <4>3. Removed(p)'
                BY <4>1, ScriptIs, ScriptSteps DEF Removed
            <4>4. Repairing(p)'
                BY <4>1, ScriptIs, ScriptSteps DEF Repairing
            <4> QED BY <3>1, <4>2, <4>3, <4>4 DEF Progress
        <3>2. CASE q # p
            <4>1. job'[q].op = "none"
                BY <2>1, <3>2 DEF Active
            <4> QED BY <4>1 DEF Progress, Promised, Lone, Active, Made, Removed, Repairing
        <3> QED BY <3>1, <3>2
    <2>4. KeptBut(InHand)'
        <3>1. InHand = {}
            BY <1>4, Idle DEF InHand, CInv
        <3>2. KeptBut({})
            BY <3>1 DEF CInv
        <3>3. owner \subseteq InHand'
            BY DEF Began, InHand, About
        <3>4. listed' = listed /\ calm' = calm
            BY <1>4 DEF Began
        <3> HIDE DEF InHand
        <3>5. ASSUME NEW kind \in calm
              PROVE  /\ (listed \intersect Of_(kind)) \ (InHand' \union wronged')
                           = (Mine' \intersect Of_(kind)) \ (InHand' \union wronged')
                     /\ (Mine' \intersect Of_(kind)) \ (InHand' \union wronged') \subseteq view'
            <4>1. /\ (listed \intersect Of_(kind)) \ wronged = (Mine \intersect Of_(kind)) \ wronged
                  /\ (Mine \intersect Of_(kind)) \ wronged \subseteq view
                BY <3>2 DEF KeptBut
            <4> QED BY <3>3, <4>1
        <3> QED BY <3>4, <3>5 DEF KeptBut, Of_
    <2> QED BY <1>1, <2>2, <2>3, <2>4 DEF CInv
<1> QED BY <1>3, <1>4

(* An analysis or a filter that comes or goes leaves the others' models.   *)
LEMMA MineBut ==
  ASSUME NEW o \in Run \union Filter, rows' = rows \/ rows' = rows \union {o} \/ rows' = rows \ {o}
  PROVE  Mine' \ {o} = Mine \ {o}
<1>1. Apart(rows', rows, {o}, {o})
    BY KindsAssumption DEF Apart
<1>2. Modelled(rows') \ {o} = Modelled(rows) \ {o}
    BY <1>1, ModelledBut
<1> QED BY <1>2, MineNext DEF Mine

(* A scenario created now is the latest.                                   *)
LEMMA NewIsLatest ==
  ASSUME Counted, NEW s \in Scenario, s \notin used
  PROVE  /\ Latest(s)
         /\ \A R : R = rows \/ R = rows \union {s} =>
               Modelled(R) \ {s} = Modelled(rows) \ {s} /\ \A t \in R \intersect Scenario : ~(s < t)
<1>1. Latest(s)
    BY DEF Counted, Latest
<1>2. ~(s < s)
    BY ScenarioAssumption
<1>3. ASSUME NEW R, R = rows \/ R = rows \union {s} PROVE \A t \in R \intersect Scenario : ~(s < t)
    BY <1>1, <1>2, <1>3 DEF Latest
<1>4. ASSUME NEW R, R = rows \/ R = rows \union {s} PROVE Modelled(R) \ {s} = Modelled(rows) \ {s}
    <2>1. Apart(R, rows, {s}, {s})
        BY <1>3, <1>4 DEF Apart
    <2> QED BY <2>1, ModelledBut
<1> QED BY <1>1, <1>3, <1>4

(* Each beginning.                                                         *)
LEMMA BeginsKeep ==
  ASSUME TypeOK, Counted, CInv, NEW p \in Proc, NEW auto \in BOOLEAN,
         \/ \E s \in Scenario : Create(p, s, auto) \/ Delete(p, s, auto)
         \/ \E f \in Filter : Apply(p, f, auto) \/ Unapply(p, f, auto)
         \/ \E r \in Run : Launch(p, r)
         \/ \E op \in Ops : Reconcile(p, op)
  PROVE  CInv'
<1>p. /\ "create" \in Ops /\ "delete" \in Ops /\ "launch" \in Ops /\ "apply" \in Ops
      /\ "unapply" \in Ops /\ "canvases" \in Ops /\ "analyses" \in Ops
    BY DEF Ops
<1>1. ASSUME NEW s \in Scenario, Create(p, s, auto) PROVE CInv'
    <2>1. Begin(p, "create", {s}, auto) /\ UNCHANGED <<view, wronged>> /\ s \notin used
          /\ rows' = IF auto THEN rows \union {s} ELSE rows
        BY <1>1 DEF Create
    <2>m. Mine' \ {s} = Mine \ {s} /\ Latest(s)'
        BY <2>1, NewIsLatest, MineNext DEF Mine, Latest
    <2>b. Began(p, "create", {s}) /\ job'[p].auto = auto
        BY <2>1, BeginIs, Zenon
    <2>2. /\ job'[p].op = "create" /\ job'[p].owner = {s}
          /\ job'[p].todo = <<"plan">> /\ job'[p].open = FALSE
        BY <2>b, ScriptIs DEF Began
    <2>3. TaskOk(job'[p]) /\ Promised(p)'
        BY <2>1, <2>b, <2>2, <2>m DEF TaskOk, Promised
    <2> QED BY <1>p, <2>1, <2>b, <2>3, <2>m, BeginKeeps
<1>2. ASSUME NEW s \in Scenario, Delete(p, s, auto) PROVE CInv'
    <2>1. Begin(p, "delete", {s}, auto) /\ rows' = rows
          /\ view' = (IF auto THEN view \ SharedView(s) ELSE view)
          /\ wronged' = wronged \union (rows \intersect Doomed(s))
        BY <1>2 DEF Delete, Doomed
    <2>b. Began(p, "delete", {s}) /\ job'[p].auto = auto
        BY <2>1, BeginIs, Zenon
    <2>2. /\ job'[p].op = "delete" /\ job'[p].owner = {s}
          /\ job'[p].todo = <<"purge", "purgeRuns">> /\ job'[p].open = FALSE
        BY <2>b, ScriptIs DEF Began
    <2>d. Doomed(s)' = Doomed(s)
        BY DEF Doomed, SharedView, Belonging
    <2>3. TaskOk(job'[p]) /\ Promised(p)'
        BY <2>1, <2>b, <2>2, <2>d DEF TaskOk, Promised
    <2>m. Mine' = Mine /\ Mine \subseteq rows
        BY <2>1, MineNext, ModelledOf DEF Mine
    <2>4. (view \intersect Mine) \ ({s} \union wronged') \subseteq view' /\ wronged \subseteq wronged'
        BY <2>1, <2>m DEF Doomed
    <2> QED BY <1>p, <2>b, <2>3, <2>4, <2>m, BeginKeeps
<1>3. ASSUME NEW f \in Filter, Apply(p, f, auto) PROVE CInv'
    <2>1. Begin(p, "apply", {f}, auto) /\ UNCHANGED <<view, wronged>> /\ Of[f] \in rows
          /\ rows' = IF auto THEN rows \union {f} ELSE rows
        BY <1>3 DEF Apply
    <2>b. Began(p, "apply", {f}) /\ job'[p].auto = auto
        BY <2>1, BeginIs, Zenon
    <2>2. /\ job'[p].op = "apply" /\ job'[p].owner = {f}
          /\ job'[p].todo = <<"purge", "plan">> /\ job'[p].open = FALSE
        BY <2>b, ScriptIs DEF Began
    <2>3. TaskOk(job'[p]) /\ Promised(p)'
        BY <2>1, <2>b, <2>2 DEF TaskOk, Promised
    <2>m. Mine' \ {f} = Mine \ {f}
        BY <2>1, MineBut
    <2> QED BY <1>p, <2>1, <2>b, <2>3, <2>m, BeginKeeps
<1>4. ASSUME NEW f \in Filter, Unapply(p, f, auto) PROVE CInv'
    <2>1. Begin(p, "unapply", {f}, auto) /\ UNCHANGED <<view, wronged>> /\ rows' = IF auto THEN rows \ {f} ELSE rows
        BY <1>4 DEF Unapply
    <2>b. Began(p, "unapply", {f}) /\ job'[p].auto = auto
        BY <2>1, BeginIs, Zenon
    <2>2. /\ job'[p].op = "unapply" /\ job'[p].owner = {f}
          /\ job'[p].todo = <<"purge">> /\ job'[p].open = FALSE
        BY <2>b, ScriptIs DEF Began
    <2>3. TaskOk(job'[p]) /\ Promised(p)'
        BY <2>1, <2>b, <2>2 DEF TaskOk, Promised
    <2>m. Mine' \ {f} = Mine \ {f}
        BY <2>1, MineBut
    <2> QED BY <1>p, <2>1, <2>b, <2>3, <2>m, BeginKeeps
<1>5. ASSUME NEW r \in Run, Launch(p, r) PROVE CInv'
    <2>1. Begin(p, "launch", {r}, TRUE) /\ UNCHANGED <<view, wronged>> /\ rows' = rows \union {r}
        BY <1>5 DEF Launch
    <2>b. Began(p, "launch", {r}) /\ job'[p].auto = TRUE
        BY <2>1, BeginIs, Zenon
    <2>2. /\ job'[p].op = "launch" /\ job'[p].owner = {r}
          /\ job'[p].todo = <<"plan">> /\ job'[p].open = FALSE
        BY <2>b, ScriptIs DEF Began
    <2>3. TaskOk(job'[p]) /\ Promised(p)'
        BY <2>1, <2>b, <2>2 DEF TaskOk, Promised
    <2>m. Mine' \ {r} = Mine \ {r}
        BY <2>1, MineBut
    <2> QED BY <1>p, <2>1, <2>b, <2>3, <2>m, BeginKeeps
<1>6. ASSUME NEW op \in Ops, Reconcile(p, op) PROVE CInv'
    <2>1. op \in {"canvases", "analyses"} /\ Begin(p, op, {}, TRUE) /\ UNCHANGED <<rows, view, wronged>>
        BY <1>6 DEF Reconcile
    <2>b. Began(p, op, {}) /\ job'[p].auto = TRUE
        BY <2>1, BeginIs, Zenon
    <2>2. /\ job'[p].op = op /\ job'[p].owner = {}
          /\ job'[p].todo = <<"purge", "plan">> /\ job'[p].open = FALSE
        BY <2>1, <2>b, ScriptIs DEF Began
    <2>3. TaskOk(job'[p]) /\ Promised(p)'
        BY <2>1, <2>b, <2>2 DEF TaskOk, Promised
    <2>m. Mine' = Mine
        BY <2>1, MineNext
    <2> QED BY <2>1, <2>b, <2>3, <2>m, BeginKeeps
<1> QED BY <1>1, <1>2, <1>3, <1>4, <1>5, <1>6

-----------------------------------------------------------------------------
(* Steps, failures and endings.                                            *)

(* One job changes, and the others keep theirs.                            *)
LEMMA ExceptFrame ==
  ASSUME TypeOK, NEW p \in Proc, NEW j, job' = [job EXCEPT ![p] = j] \/ job' = Outdated(j, p)
  PROVE  job'[p] = j /\ Frame(p)
<1>1. \A q \in Proc : job[q] \in JobType
    BY DEF TypeOK
<1>2. CASE job' = [job EXCEPT ![p] = j]
    BY <1>2 DEF TypeOK, Frame
<1>3. CASE job' = Outdated(j, p)
    <2>1. job'[p] = j
        BY <1>3 DEF Outdated
    <2>2. \A q \in Proc \ {p} : job'[q] = [job[q] EXCEPT !.cur = FALSE, !.trips = FALSE]
        BY <1>3 DEF Outdated
    <2>3. ASSUME NEW q \in Proc \ {p}
          PROVE  /\ job'[q].op = job[q].op /\ job'[q].owner = job[q].owner
                 /\ job'[q].todo = job[q].todo /\ job'[q].alone = job[q].alone
        <3>1. job[q] \in JobType /\ job'[q] = [job[q] EXCEPT !.cur = FALSE, !.trips = FALSE]
            BY <1>1, <2>2
        <3> QED BY <3>1 DEF JobType
    <2> QED BY <2>1, <2>3 DEF Frame
<1> QED BY <1>2, <1>3

(* The end of a step that came off.                                        *)
LEMMA StepDoneKeeps ==
  ASSUME TypeOK, CInv, NEW p \in Proc, job[p].todo # <<>>, Frame(p), StepDone(p)
  PROVE  CInv'
<1>1. Active(p)
    BY DEF TypeOK, Active
<1>2. TaskOk(job[p]) /\ Progress(p)
    BY DEF CInv
<1>3. calm # {} => KeptBut(About(p))
    BY <1>1, KeptLone
<1>4. Progress(p)'
    BY <1>1, <1>2, StepProgress
<1>5. KeptBut(About(p))'
    BY <1>2, <1>3, StepKeeps
<1>6. TaskOk(job'[p]) /\ job'[p].alone = job[p].alone /\ calm' = calm
    BY <1>2, NextTask, NextStepIs DEF StepDone
<1> QED BY <1>1, <1>4, <1>5, <1>6, Solo

(* The end of a step somebody else was at work beside: nothing is vouched  *)
(* for, so nothing is said of what it wrote.                               *)
LEMMA CrowdedStep ==
  ASSUME TypeOK, CInv, NEW p \in Proc, job[p].todo # <<>>, ~Lone(p), Frame(p),
         job'[p] = NextStep(p), calm' = calm
  PROVE  CInv'
<1>1. Active(p)
    BY DEF TypeOK, Active
<1>2. calm = {} /\ ~job[p].alone
    BY <1>1 DEF Lone
<1>3. TaskOk(job'[p]) /\ job'[p].alone = job[p].alone
    BY NextTask, NextStepIs DEF CInv
<1>4. Progress(p)'
    BY <1>2, <1>3 DEF Progress, Promised, Lone, Made, Removed, Repairing
<1> QED BY <1>1, <1>2, <1>3, <1>4, Solo DEF KeptBut

(* What a step is about depends on its job, the rows and the environment.  *)
LEMMA NamesStay ==
  ASSUME NEW p \in Proc, UNCHANGED <<rows, listed>>,
         job'[p].op = job[p].op, job'[p].owner = job[p].owner,
         job'[p].auto = job[p].auto, job'[p].todo = job[p].todo
  PROVE  /\ Names(p)' = Names(p) /\ About(p)' = About(p)
         /\ Modelled(Seen(p))' = Modelled(Seen(p)) /\ MayPlan(p)' = MayPlan(p)
<1>1. Seen(p)' = Seen(p)
    BY Zenon DEF Seen
<1>2. Modelled(Seen(p))' = Modelled(Seen(p))
    BY <1>1 DEF Modelled
<1>3. RunsOf(job[p].owner)' = RunsOf(job[p].owner)
    BY DEF RunsOf
<1>4. Of_(KindOf(job[p].op))' = Of_(KindOf(job[p].op))
    BY Zenon DEF KindOf, Of_
<1>5. Planned(p)' = Planned(p)
    BY <1>2, <1>4, Zenon DEF Planned
<1>6. Purged(p)' = Purged(p)
    BY <1>2, <1>3, <1>4, Zenon DEF Purged, Stale
<1>7. Names(p)' = Names(p)
    BY <1>5, <1>6 DEF Names
<1> QED BY <1>2, <1>3, <1>7 DEF MayPlan, About

(* A read opens a step, or ends it when it is about nothing.               *)
LEMMA ReadKeeps == ASSUME TypeOK, CInv, NEW p \in Proc, Read(p) PROVE CInv'
<1> DEFINE plan == Head(job[p].todo) = "plan"
           trips == plan /\ ~listed \subseteq Modelled(Seen(p))
           read == [job[p] EXCEPT !.open = TRUE, !.names = Names(p), !.base = listed,
                                  !.cur = TRUE, !.trips = trips]
<1>1. job[p].todo # <<>> /\ UNCHANGED <<rows, used, listed, view, wronged>>
    BY DEF Read
<1>2. Active(p)
    BY <1>1 DEF TypeOK, Active
<1>3. \/ Names(p) = {} /\ job' = [job EXCEPT ![p] = NextStep(p)] /\ calm' = calm
      \/ Fails(p)
      \/ MayPlan(p) /\ job' = [job EXCEPT ![p] = read] /\ calm' = calm
    BY DEF Read, Names, MayPlan
<1>4. CASE Names(p) = {} /\ job' = [job EXCEPT ![p] = NextStep(p)] /\ calm' = calm
    <2>1. job'[p] = NextStep(p) /\ Frame(p)
        BY <1>4, ExceptFrame
    <2>2. StepDone(p)
        BY <1>1, <1>4, <2>1 DEF StepDone, MayPlan
    <2> QED BY <1>1, <2>1, <2>2, StepDoneKeeps
<1>5. CASE Fails(p)
    <2>1. job'[p] = AfterFailure(p) /\ Frame(p) /\ calm' = {}
        BY <1>5, ExceptFrame DEF Fails
    <2> QED BY <1>1, <1>2, <2>1, Failure
<1>6. CASE MayPlan(p) /\ job' = [job EXCEPT ![p] = read] /\ calm' = calm
    <2>1. job'[p] = read /\ Frame(p)
        BY <1>6, ExceptFrame
    <2>2. /\ read.op = job[p].op /\ read.owner = job[p].owner /\ read.auto = job[p].auto
          /\ read.todo = job[p].todo /\ read.alone = job[p].alone /\ read.names = Names(p)
        <3> HIDE DEF trips
        <3> QED BY DEF TypeOK, JobType
    <2> HIDE DEF read
    <2>3. TaskOk(job[p]) /\ Progress(p)
        BY DEF CInv
    <2>4. TaskOk(job'[p])
        BY <2>1, <2>2, <2>3 DEF TaskOk
    <2>5. Names(p)' = Names(p) /\ About(p)' = About(p) /\ MayPlan(p)'
        BY <1>1, <1>6, <2>1, <2>2, NamesStay
    <2>m. /\ Mine' = Mine /\ \A s : Latest(s)' = Latest(s) /\ Doomed(s)' = Doomed(s)
          /\ Modelled(rows \union job[p].owner)' = Modelled(rows \union job[p].owner)
        BY <1>1, <2>1, <2>2, MineNext DEF Latest, Doomed, SharedView, Belonging, Modelled
    <2>p. Promised(p)'
        BY <1>1, <1>6, <2>1, <2>2, <2>3, <2>5, <2>m DEF Progress, Promised, Lone, Active
    <2>6. Progress(p)'
        BY <1>1, <1>6, <2>1, <2>2, <2>3, <2>m, <2>p
        DEF Progress, Made, Removed, Repairing, RunsOf, KindOf, Of_
    <2>7. KeptBut(About(p))'
        <3>1. calm # {} => KeptBut(About(p))
            BY <1>2, KeptLone
        <3> QED BY <1>1, <1>6, <2>5, <2>m, <3>1 DEF KeptBut, Of_
    <2> QED BY <1>2, <1>6, <2>1, <2>2, <2>4, <2>6, <2>7, Solo
<1> QED BY <1>3, <1>4, <1>5, <1>6

(* A promotion ends a step that came off.                                  *)
LEMMA PromoteKeeps ==
  ASSUME TypeOK, Fresh, CInv, NEW p \in Proc, PromotePurge(p) \/ PromotePlan(p)
  PROVE  CInv'
<1>1. /\ job[p].open /\ job[p].cur /\ job[p].todo # <<>> /\ job[p].base = listed
      /\ job'[p] = NextStep(p) /\ Frame(p) /\ rows' = rows /\ calm' = calm
    BY ExceptFrame DEF TypeOK, Fresh, PromotePurge, PromotePlan
<1>2. CASE Lone(p)
    <2>1. job[p].names = Names(p) /\ MayPlan(p)
        BY <1>1, <1>2 DEF CInv, Progress, Promised
    <2>2. StepDone(p)
        BY <1>1, <2>1 DEF StepDone, PromotePurge, PromotePlan
    <2> QED BY <1>1, <2>2, StepDoneKeeps
<1>3. CASE ~Lone(p)
    BY <1>1, <1>3, CrowdedStep
<1> QED BY <1>2, <1>3

(* A refusal, a promotion that dies, and any other failure.                *)
LEMMA FailKeeps ==
  ASSUME TypeOK, CInv, NEW p \in Proc, Refused(p) \/ TripOver(p) \/ BreakDown(p)
  PROVE  CInv'
<1>1. CASE Refused(p)
    BY <1>1, ExceptFrame, Failure DEF Refused, Fails, TypeOK, Active
<1>2. CASE TripOver(p)
    BY <1>2, ExceptFrame, Failure DEF TripOver, TypeOK, Active
<1>3. CASE BreakDown(p)
    BY <1>3, ExceptFrame, Failure DEF BreakDown
<1> QED BY <1>1, <1>2, <1>3

(* A plan of a base canvas takes views of canvases only, and vouches for   *)
(* them no longer.                                                         *)
LEMMA BasePlanKeeps == ASSUME TypeOK, CInv, BasePlan PROVE CInv'
<1>1. /\ UNCHANGED <<rows, used, listed, wronged>> /\ view \ Scenario \subseteq view'
      /\ calm' = calm \ {"canvas"}
      /\ job' = [q \in Proc |-> [job[q] EXCEPT !.cur = FALSE, !.alone = FALSE]]
    BY DEF BasePlan
<1>2. \A q \in Proc : job[q] \in JobType
    BY DEF TypeOK
<1>3. \A q \in Proc : /\ job'[q].op = job[q].op /\ job'[q].owner = job[q].owner
                      /\ job'[q].auto = job[q].auto /\ job'[q].todo = job[q].todo
                      /\ job'[q].cur = FALSE /\ job'[q].alone = FALSE
    BY <1>1, <1>2 DEF JobType
<1>4. \A q \in Proc : Lone(q)' => Lone(q) /\ calm # {}
    BY <1>1, <1>3 DEF Lone, Active
<1>5. OneAtATime'
    BY <1>3, <1>4 DEF CInv, OneAtATime, Active
<1>6. ASSUME NEW kind \in calm'
      PROVE  kind \in calm /\ kind # "canvas" /\ Of_(kind) \intersect Scenario = {}
    BY <1>1, <1>6, KindsApart, KindsOf DEF TypeOK, Kinds
<1>m. Mine' = Mine /\ \A s : Latest(s)' = Latest(s) /\ Doomed(s)' = Doomed(s)
    BY <1>1, MineNext DEF Latest, Doomed, SharedView, Belonging
<1>7. ASSUME NEW q \in Proc PROVE TaskOk(job'[q]) /\ Progress(q)'
    <2>1. TaskOk(job[q]) /\ Progress(q)
        BY DEF CInv
    <2>2. TaskOk(job'[q])
        BY <1>3, <2>1 DEF TaskOk
    <2>3. Promised(q)'
        BY <1>1, <1>m, <1>3, <1>4, <2>1 DEF Progress, Promised
    <2>4. Made(q)'
        <3> SUFFICES ASSUME job[q].op \in {"create", "launch", "apply"}, job[q].todo = <<>>,
                            KindOf(job[q].op) \in calm'
                     PROVE  /\ job[q].owner \subseteq listed /\ job[q].owner \subseteq view'
                            /\ job[q].owner \subseteq Modelled(rows \union job[q].owner)
            <4>1. Modelled(rows \union job[q].owner)' = Modelled(rows \union job[q].owner)
                BY <1>1, <1>3 DEF Modelled
            <4> QED BY <1>1, <1>3, <4>1 DEF Made
        <3>1. KindOf(job[q].op) \in calm /\ KindOf(job[q].op) # "canvas"
            BY <1>1
        <3>2. /\ job[q].owner \subseteq listed /\ job[q].owner \subseteq view
              /\ job[q].owner \subseteq Modelled(rows \union job[q].owner)
            BY <2>1, <3>1 DEF Progress, Made
        <3>3. job[q].owner \subseteq Run \union Filter
            BY <2>1, <3>1, KindsOf DEF TaskOk
        <3> QED BY <1>1, <3>2, <3>3, KindsAssumption
    <2>5. Removed(q)'
        BY <1>1, <1>3, <2>1 DEF Progress, Removed, RunsOf
    <2>6. Repairing(q)'
        BY <1>3 DEF Repairing
    <2> QED BY <2>2, <2>3, <2>4, <2>5, <2>6 DEF Progress
<1>8. KeptBut(InHand)'
    <2>1. InHand' = InHand
        <3>1. \A q \in Proc : About(q)' = About(q)
            BY <1>3 DEF About, RunsOf
        <3> QED BY <3>1 DEF InHand
    <2> HIDE DEF InHand
    <2>2. KeptBut(InHand)
        BY DEF CInv
    <2> QED BY <1>1, <1>m, <1>6, <2>1, <2>2 DEF KeptBut, Of_
<1> QED BY <1>5, <1>7, <1>8 DEF CInv

(* What the end of an operation does, operation by operation.              *)
LEMMA FinishIs ==
  ASSUME NEW p \in Proc, TaskOk(job[p]), Finish(p)
  PROVE  /\ job[p].op \in {"launch", "canvases", "analyses"} => rows' = rows /\ view' = view
         /\ job[p].op = "unapply" => rows' = rows \ job[p].owner /\ view' = view
         /\ job[p].op \in {"create", "apply"} =>
               /\ job[p].auto => rows' = rows
               /\ ~job[p].auto =>
                     rows' = rows \union {o \in job[p].owner : o \in Scenario \/ Of[o] \in rows}
               /\ view' = view
         /\ job[p].op = "delete" => \A t \in job[p].owner :
               /\ rows' = rows \ ({t} \union Belonging({t}))
               /\ view \ (RunsOf({t}) \union SharedView(t)) \subseteq view'
         /\ job[p].op # "canvases" => wronged' = wronged
         /\ wronged \ Scenario \subseteq wronged' /\ wronged' \subseteq wronged
         /\ "canvas" \in Repaired(p) => wronged' = wronged \ Scenario
<1> DEFINE s == job[p].owner \intersect Scenario
           R == CASE job[p].op = "delete" -> rows \ (job[p].owner \union Belonging(s))
                  [] job[p].op = "unapply" -> rows \ job[p].owner
                  [] job[p].op \in {"create", "apply"} /\ ~job[p].auto ->
                       rows \union {o \in job[p].owner : o \in Scenario \/ Of[o] \in rows}
                  [] OTHER -> rows
<1>1. /\ rows' = R
      /\ view' = IF job[p].op = "delete"
                 THEN view \ (RunsOf(s) \union
                              (IF job[p].auto THEN {} ELSE UNION {SharedView(t) : t \in s}))
                 ELSE view
      /\ wronged' = IF "canvas" \in Repaired(p) THEN wronged \ Scenario ELSE wronged
    BY DEF Finish
<1>2. job[p].op \in {"launch", "canvases", "analyses"} => R = rows
    BY Zenon
<1>3. job[p].op = "unapply" => R = rows \ job[p].owner
    BY Zenon
<1>4. job[p].op \in {"create", "apply"} /\ job[p].auto => R = rows
    BY Zenon
<1>5. job[p].op \in {"create", "apply"} /\ ~job[p].auto =>
        R = rows \union {o \in job[p].owner : o \in Scenario \/ Of[o] \in rows}
    BY Zenon
<1>6. job[p].op = "delete" => R = rows \ (job[p].owner \union Belonging(s))
    BY Zenon
<1>r. job[p].op # "canvases" => "canvas" \notin Repaired(p)
    <2> SUFFICES ASSUME job[p].op # "canvases" PROVE "canvas" \notin Repaired(p)
        OBVIOUS
    <2>1. Repaired(p) \in {{}, {"run"}}
        BY Zenon DEF Repaired
    <2> QED BY <2>1
<1> HIDE DEF R
<1>7. ASSUME job[p].op = "delete", NEW t \in job[p].owner
      PROVE  /\ rows' = rows \ ({t} \union Belonging({t}))
             /\ view \ (RunsOf({t}) \union SharedView(t)) \subseteq view'
    <2>1. job[p].owner = {t} /\ s = {t}
        BY <1>7 DEF TaskOk
    <2>2. UNION {SharedView(u) : u \in {t}} = SharedView(t)
        OBVIOUS
    <2> HIDE DEF s
    <2> QED BY <1>1, <1>6, <1>7, <2>1, <2>2
<1> QED BY <1>1, <1>2, <1>3, <1>4, <1>5, <1>r, <1>7

(* The end of an operation leaves what it was about as it should be.       *)
LEMMA FinishLeaves ==
  ASSUME TypeOK, NEW p \in Proc, Active(p), TaskOk(job[p]), Progress(p), Finish(p),
         calm # {} => KeptBut(About(p))
  PROVE  KeptBut({})'
<1>1. job[p].todo = <<>> /\ listed' = listed /\ calm' \subseteq calm \union Repaired(p)
    BY DEF Finish
<1>w. /\ wronged' \subseteq wronged /\ (job[p].op # "canvases" => wronged' = wronged)
      /\ wronged \ Scenario \subseteq wronged'
    BY FinishIs
<1>2. ASSUME NEW kind \in Repaired(p)
      PROVE  listed \intersect Of_(kind) = Mine' \intersect Of_(kind) /\ Mine' \intersect Of_(kind) \subseteq view'
    <2>1. /\ job[p].alone
          /\ \/ job[p].op = "canvases" /\ kind = "canvas"
             \/ job[p].op = "analyses" /\ rows \intersect Run \subseteq listed /\ kind = "run"
        <3>1. job[p].alone
            BY <1>2 DEF Repaired
        <3> DEFINE X == CASE job[p].op = "canvases" -> {"canvas"}
                          [] job[p].op = "analyses" /\ rows \intersect Run \subseteq listed -> {"run"}
                          [] OTHER -> {}
        <3>2. kind \in X
            BY <1>2, <3>1 DEF Repaired
        <3>3. job[p].op = "canvases" => X = {"canvas"}
            BY Zenon
        <3>4. job[p].op = "analyses" /\ rows \intersect Run \subseteq listed => X = {"run"}
            BY Zenon
        <3>5. job[p].op # "canvases" /\ ~(job[p].op = "analyses" /\ rows \intersect Run \subseteq listed) => X = {}
            BY Zenon
        <3> HIDE DEF X
        <3> QED BY <3>1, <3>2, <3>3, <3>4, <3>5
    <2>2. Mine' = Mine /\ view' = view
        BY <2>1, FinishIs, MineNext
    <2>3. /\ listed \intersect Of_(kind) \subseteq Mine
          /\ Mine \intersect Of_(kind) \subseteq listed /\ Mine \intersect Of_(kind) \subseteq view
        BY <1>1, <2>1, KindsOf, ScriptSteps DEF Progress, Repairing
    <2> QED BY <2>2, <2>3
<1>3. ASSUME NEW kind \in calm, kind \notin Repaired(p)
      PROVE  /\ (listed \intersect Of_(kind)) \ wronged' = (Mine' \intersect Of_(kind)) \ wronged'
             /\ (Mine' \intersect Of_(kind)) \ wronged' \subseteq view'
    <2>1. Lone(p) /\ kind \in Kinds
        BY DEF Lone, TypeOK
    <2>2. /\ (listed \intersect Of_(kind)) \ (About(p) \union wronged)
               = (Mine \intersect Of_(kind)) \ (About(p) \union wronged)
          /\ (Mine \intersect Of_(kind)) \ (About(p) \union wronged) \subseteq view
        BY DEF KeptBut
    <2>m. Mine \subseteq rows /\ Mine' \subseteq rows'
        BY ModelledOf, MineNext DEF Mine
    <2>3. CASE job[p].op \in {"canvases", "analyses"}
        <3>1. About(p) = {} /\ Mine' = Mine /\ view' = view
            BY <2>3, FinishIs, MineNext DEF TaskOk, About
        <3>2. wronged' \intersect Of_(kind) = wronged \intersect Of_(kind)
            <4>1. kind # "canvas" => Of_(kind) \intersect Scenario = {}
                BY <2>1, KindsApart, KindsOf DEF Kinds
            <4>2. kind = "canvas" => wronged' = wronged
                BY <1>3 DEF Finish
            <4> QED BY <1>w, <4>1, <4>2
        <3> QED BY <2>2, <3>1, <3>2
    <2>4. CASE job[p].op \in {"create", "launch", "apply"}
        <3>1. About(p) = job[p].owner
            BY <2>4 DEF About
        <3>2. rows' = rows \union job[p].owner /\ view' = view /\ wronged' = wronged
            <4>1. CASE job[p].op = "create"
                <5>1. {o \in job[p].owner : o \in Scenario \/ Of[o] \in rows} = job[p].owner
                    BY <4>1 DEF TaskOk
                <5>2. job[p].auto => job[p].owner \subseteq rows
                    BY <2>1, <4>1 DEF Progress, Promised
                <5> QED BY <4>1, <5>1, <5>2, FinishIs
            <4>2. CASE job[p].op = "launch"
                <5>1. job[p].owner \subseteq rows
                    BY <2>1, <4>2 DEF Progress, Promised
                <5> QED BY <4>2, <5>1, FinishIs
            <4>3. CASE job[p].op = "apply"
                <5>1. {o \in job[p].owner : o \in Scenario \/ Of[o] \in rows} = job[p].owner
                    BY <2>1, <4>3 DEF Progress, Promised
                <5>2. job[p].auto => job[p].owner \subseteq rows
                    BY <2>1, <4>3 DEF Progress, Promised
                <5> QED BY <4>3, <5>1, <5>2, FinishIs
            <4> QED BY <1>w, <2>4, <4>1, <4>2, <4>3
        <3>m. Mine' \ job[p].owner = Mine \ job[p].owner
            <4>1. (rows \union job[p].owner) \ job[p].owner = rows \ job[p].owner
                OBVIOUS
            <4>2. ASSUME NEW o \in (((rows \union job[p].owner) \union rows) \intersect Scenario) \ job[p].owner,
                         NEW s \in job[p].owner \intersect Scenario
                  PROVE  ~(s < o /\ ViewName[s] = ViewName[o])
                <5>1. job[p].op = "create"
                    BY <2>4, KindsAssumption DEF TaskOk
                <5>2. Latest(s)
                    BY <2>1, <5>1 DEF Progress, Promised
                <5> QED BY <5>2 DEF Latest
            <4>4. Apart(rows \union job[p].owner, rows, job[p].owner, job[p].owner)
                BY <4>1, <4>2 DEF Apart
            <4>3. Modelled(rows \union job[p].owner) \ job[p].owner = Modelled(rows) \ job[p].owner
                BY <4>4, ModelledBut
            <4> QED BY <3>2, <4>3, MineNext DEF Mine
        <3>3. CASE kind = KindOf(job[p].op)
            <4>1. /\ job[p].owner \subseteq listed /\ job[p].owner \subseteq view
                  /\ job[p].owner \subseteq Mine'
                BY <1>1, <2>4, <3>2, <3>3, MineNext DEF Progress, Made
            <4> QED BY <2>2, <3>1, <3>2, <3>m, <4>1
        <3>4. CASE kind # KindOf(job[p].op)
            <4>1. job[p].owner \subseteq Of_(KindOf(job[p].op)) /\ KindOf(job[p].op) \in Kinds
                BY <2>4, KindsOf DEF TaskOk, Kinds
            <4>2. job[p].owner \intersect Of_(kind) = {}
                BY <2>1, <3>4, <4>1, KindsApart
            <4> QED BY <2>2, <3>1, <3>2, <3>m, <4>2
        <3> QED BY <3>3, <3>4
    <2>5. CASE job[p].op = "unapply"
        <3>1. About(p) = job[p].owner /\ rows' = rows \ job[p].owner /\ view' = view
            BY <2>5, FinishIs DEF About
        <3>2. job[p].owner \intersect listed = {}
            BY <1>1, <2>5 DEF Progress, Removed
        <3>3. Mine' \ job[p].owner = Mine \ job[p].owner
            <4>1. PICK f \in Filter : job[p].owner = {f}
                BY <2>5 DEF TaskOk
            <4> QED BY <3>1, <4>1, MineBut
        <3> QED BY <1>w, <2>2, <2>5, <2>m, <3>1, <3>2, <3>3
    <2>6. CASE job[p].op = "delete"
        <3>1. PICK t \in Scenario : job[p].owner = {t}
            BY <2>6 DEF TaskOk
        <3>2. /\ rows' = rows \ ({t} \union Belonging({t})) /\ wronged' = wronged
              /\ view \ (RunsOf({t}) \union SharedView(t)) \subseteq view'
            BY <1>w, <2>6, <3>1, FinishIs
        <3>3. About(p) = {t} \union RunsOf({t})
            BY <2>6, <3>1 DEF About
        <3>4. ({t} \union RunsOf({t})) \intersect listed = {}
            BY <1>1, <2>6, <3>1, ScriptSteps DEF Progress, Removed
        <3>5. ((SharedView(t) \ {t}) \union (Belonging({t}) \intersect Filter)) \intersect rows \subseteq wronged
            BY <2>1, <2>6, <3>1 DEF Progress, Promised, Doomed
        <3>6. Belonging({t}) = RunsOf({t}) \union (Belonging({t}) \intersect Filter)
            BY DEF Belonging, RunsOf
        <3>7. t \in SharedView(t) /\ Belonging({t}) \intersect Scenario = {}
            BY KindsAssumption DEF SharedView, Belonging
        <3> DEFINE D == {t} \union Belonging({t})
                   A == D \union wronged
        <3>8. Mine' \ A = Mine \ A
            <4>1. D \subseteq A /\ (rows \ D) \ D = rows \ D
                OBVIOUS
            <4>2. ASSUME NEW o \in (((rows \ D) \union rows) \intersect Scenario) \ A,
                         NEW u \in D \intersect Scenario
                  PROVE  ~(u < o /\ ViewName[u] = ViewName[o])
                <5>1. u = t /\ o \in rows /\ o \in Scenario /\ o # t /\ o \notin wronged
                    BY <3>7
                <5>2. o \notin SharedView(t)
                    BY <3>5, <5>1
                <5> QED BY <5>1, <5>2 DEF SharedView
            <4> HIDE DEF D, A
            <4>4. Apart(rows \ D, rows, D, A)
                BY <4>1, <4>2 DEF Apart
            <4>3. Modelled(rows \ D) \ A = Modelled(rows) \ A
                BY <4>4, ModelledBut
            <4> QED BY <3>2, <4>3, MineNext DEF Mine, D
        <3>9. ASSUME NEW x \in Of_(kind), x \notin wronged
              PROVE  (x \in listed <=> x \in Mine') /\ (x \in Mine' => x \in view')
            <4>1. CASE x \in {t} \union RunsOf({t})
                <5>1. x \notin rows'
                    BY <3>2, <3>6, <4>1
                <5> QED BY <2>m, <3>4, <4>1, <5>1
            <4>2. CASE x \in Belonging({t}) \intersect Filter
                <5>1. x \notin rows /\ x \notin rows'
                    BY <3>2, <3>5, <3>9, <4>2
                <5>2. x \notin About(p)
                    BY <3>3, <4>2, KindsAssumption DEF RunsOf
                <5>3. x \in listed <=> x \in Mine
                    BY <2>2, <3>9, <5>2
                <5> QED BY <2>m, <5>1, <5>3
            <4>3. CASE x \notin {t} \union RunsOf({t}) /\ x \notin Belonging({t}) \intersect Filter
                <5>1. x \notin A /\ x \notin About(p)
                    BY <3>3, <3>6, <3>9, <4>3
                <5>2. (x \in listed <=> x \in Mine) /\ (x \in Mine => x \in view)
                    BY <2>2, <3>9, <5>1
                <5>3. x \in Mine' <=> x \in Mine
                    BY <3>8, <5>1
                <5>4. x \in Mine => x \notin RunsOf({t}) \union SharedView(t)
                    BY <2>m, <3>5, <3>9, <4>3
                <5> QED BY <3>2, <5>2, <5>3, <5>4
            <4> QED BY <4>1, <4>2, <4>3
        <3> QED BY <3>2, <3>9
    <2> QED BY <2>3, <2>4, <2>5, <2>6 DEF TaskOk, Active
<1>4. \A kind \in calm' : /\ (listed \intersect Of_(kind)) \ wronged' = (Mine' \intersect Of_(kind)) \ wronged'
                          /\ (Mine' \intersect Of_(kind)) \ wronged' \subseteq view'
    BY <1>1, <1>2, <1>3
<1> QED BY <1>1, <1>4 DEF KeptBut, Of_

(* The end of an operation.                                                *)
LEMMA FinishKeeps ==
  ASSUME TypeOK, CInv, NEW p \in Proc, Finish(p)
  PROVE  CInv'
<1>1. Active(p) /\ TaskOk(job[p]) /\ Progress(p)
    BY DEF Finish, CInv
<1>2. KeptBut({})'
    BY <1>1, KeptLone, FinishLeaves
<1>3. job'[p] = NoJob /\ Frame(p) /\ calm' \subseteq calm \union Repaired(p)
    BY ExceptFrame DEF Finish
<1>4. job'[p].op = "none" /\ job'[p].owner = {} /\ job'[p].todo = <<>> /\ job'[p].alone = FALSE
    BY <1>3 DEF NoJob
<1>5. TaskOk(job'[p])
    BY <1>4 DEF TaskOk
<1>6. Progress(p)'
    BY <1>4 DEF Progress, Promised, Lone, Active, Made, Removed, Repairing
<1>7. About(p)' = {}
    BY <1>4 DEF About
<1>8. KeptBut(About(p))'
    BY <1>2, <1>7 DEF KeptBut
<1> QED BY <1>1, <1>3, <1>4, <1>5, <1>6, <1>8, Solo

-----------------------------------------------------------------------------
(* At first nothing is there and nobody is at work.                        *)
LEMMA InitCalm == Init => CInv
<1> SUFFICES ASSUME Init PROVE CInv
    OBVIOUS
<1>1. \A p \in Proc : job[p].op = "none" /\ job[p].owner = {} /\ job[p].todo = <<>>
    BY DEF Init, NoJob
<1>2. \A p \in Proc : TaskOk(job[p]) /\ ~Active(p)
    BY <1>1 DEF TaskOk, Active
<1>3. \A p \in Proc : Progress(p)
    BY <1>2, Idle
<1>4. OneAtATime
    BY <1>2 DEF OneAtATime
<1>5. KeptBut(InHand)
    BY ModelledOf DEF Init, KeptBut, Mine
<1> QED BY <1>2, <1>3, <1>4, <1>5 DEF CInv

(* Every step keeps what is said of the kinds nothing went wrong with.     *)
LEMMA StepCalm == IInv /\ Counted /\ CInv /\ [Next]_vars => CInv'
<1> SUFFICES ASSUME IInv, Counted, CInv, [Next]_vars PROVE CInv'
    OBVIOUS
<1>t. TypeOK /\ Fresh
    BY DEF IInv
<1>1. ASSUME NEW p \in Proc, NEW auto \in BOOLEAN,
             \/ \E s \in Scenario : Create(p, s, auto) \/ Delete(p, s, auto)
             \/ \E f \in Filter : Apply(p, f, auto) \/ Unapply(p, f, auto)
             \/ \E r \in Run : Launch(p, r)
             \/ \E op \in Ops : Reconcile(p, op)
      PROVE  CInv'
    BY <1>t, <1>1, BeginsKeep
<1>2. ASSUME NEW p \in Proc, \/ Read(p) \/ Refused(p) \/ PromotePurge(p) \/ PromotePlan(p)
                             \/ TripOver(p) \/ BreakDown(p) \/ Finish(p)
      PROVE  CInv'
    BY <1>t, <1>2, ReadKeeps, PromoteKeeps, FailKeeps, FinishKeeps
<1>3. CASE BasePlan
    BY <1>t, <1>3, BasePlanKeeps
<1>4. CASE UNCHANGED vars
    <2>1. UNCHANGED <<rows, listed, view, job, calm, wronged>>
        BY <1>4 DEF vars
    <2>5. \A p \in Proc : RunsOf(job[p].owner)' = RunsOf(job[p].owner)
        BY <2>1 DEF RunsOf
    <2>7. \A p \in Proc : Names(p)' = Names(p) /\ About(p)' = About(p) /\ MayPlan(p)' = MayPlan(p)
        BY <2>1, NamesStay
    <2>m. /\ Mine' = Mine /\ \A s : Latest(s)' = Latest(s) /\ Doomed(s)' = Doomed(s)
          /\ \A p \in Proc : Modelled(rows \union job[p].owner)' = Modelled(rows \union job[p].owner)
        BY <2>1, MineNext DEF Latest, Doomed, SharedView, Belonging, Modelled
    <2>8. \A p \in Proc : TaskOk(job[p])' /\ Progress(p)'
        <3>1. \A p \in Proc : (Lone(p)' <=> Lone(p)) /\ (Active(p)' <=> Active(p))
            BY <2>1 DEF Lone, Active
        <3>2. \A p \in Proc : Promised(p)'
            BY <2>1, <2>7, <2>m, <3>1 DEF CInv, Progress, Promised
        <3>3. \A p \in Proc : Made(p)'
            BY <2>1, <2>m DEF CInv, Progress, Made, KindOf
        <3>4. \A p \in Proc : Removed(p)'
            BY <2>1, <2>5 DEF CInv, Progress, Removed
        <3>5. \A p \in Proc : Repairing(p)'
            BY <2>1, <2>m DEF CInv, Progress, Repairing, KindOf, Of_
        <3>6. \A p \in Proc : TaskOk(job[p])'
            BY <2>1 DEF CInv, TaskOk
        <3> QED BY <3>2, <3>3, <3>4, <3>5, <3>6 DEF Progress
    <2>9. KeptBut(InHand)'
        <3>1. InHand' = InHand
            BY <2>7 DEF InHand
        <3> HIDE DEF InHand
        <3> QED BY <2>1, <2>m, <3>1 DEF CInv, KeptBut, Of_
    <2>10. OneAtATime'
        BY <2>1 DEF CInv, OneAtATime, Lone, Active
    <2> QED BY <2>8, <2>9, <2>10 DEF CInv
<1> QED BY <1>1, <1>2, <1>3, <1>4 DEF Next

\* Process p's job is about o, the others' about what they were.
Owns(p, o) == job'[p].owner = o /\ \A q \in Proc \ {p} : job'[q].owner = job[q].owner

(* An operation that begins is about its row.                              *)
LEMMA BeginOwns ==
  ASSUME TypeOK, NEW p \in Proc, NEW op, NEW owner, NEW auto, Begin(p, op, owner, auto)
  PROVE  Owns(p, owner)
<1>1. Began(p, op, owner)
    BY BeginIs, Zenon
<1> QED BY <1>1 DEF Began, Owns

(* A step is about its operation's row, a failure about nothing.           *)
LEMMA StepOwns ==
  ASSUME TypeOK, NEW p \in Proc,
         Read(p) \/ Refused(p) \/ PromotePurge(p) \/ PromotePlan(p) \/ TripOver(p) \/ BreakDown(p)
  PROVE  Owns(p, job[p].owner) \/ Owns(p, {})
<1> DEFINE plan == Head(job[p].todo) = "plan"
           trips == plan /\ ~listed \subseteq Modelled(Seen(p))
           read == [job[p] EXCEPT !.open = TRUE, !.names = Names(p), !.base = listed,
                                  !.cur = TRUE, !.trips = trips]
<1>1. \E j \in {NextStep(p), AfterFailure(p), NoJob, read} :
         job' = [job EXCEPT ![p] = j] \/ job' = Outdated(j, p)
    BY DEF Read, Refused, PromotePurge, PromotePlan, TripOver, BreakDown, Fails, Names
<1>2. read.owner = job[p].owner
    <2> HIDE DEF trips
    <2> QED BY DEF TypeOK, JobType
<1> HIDE DEF read
<1>3. \A j \in {NextStep(p), AfterFailure(p), NoJob, read} : j.owner = job[p].owner \/ j.owner = {}
    <2>1. NextStep(p).owner = job[p].owner
        BY NextStepIs
    <2>2. NoJob.owner = {}
        BY DEF NoJob
    <2>3. AfterFailure(p) = NextStep(p) \/ AfterFailure(p) = NoJob
        BY DEF AfterFailure
    <2> QED BY <1>2, <2>1, <2>2, <2>3
<1> QED BY <1>1, <1>3, ExceptFrame DEF Frame, Owns

(* Ids are given in order.                                                 *)
LEMMA CountedStep == IInv /\ CInv /\ Counted /\ [Next]_vars => Counted'
<1> SUFFICES ASSUME IInv, CInv, Counted, [Next]_vars PROVE Counted'
    OBVIOUS
<1>t. TypeOK
    BY DEF IInv
<1>0. ASSUME NEW p \in Proc, NEW o, Owns(p, o), o \intersect Scenario \subseteq used',
             used \subseteq used', rows' \intersect Scenario \subseteq used',
             \A s \in used', t \in Scenario : t < s => t \in used'
      PROVE  Counted'
    BY <1>0 DEF Counted, Owns
<1>1. ASSUME NEW p \in Proc, NEW auto \in BOOLEAN,
             \/ \E s \in Scenario : Create(p, s, auto) \/ Delete(p, s, auto)
             \/ \E f \in Filter : Apply(p, f, auto) \/ Unapply(p, f, auto)
             \/ \E r \in Run : Launch(p, r)
             \/ \E op \in Ops : Reconcile(p, op)
      PROVE  Counted'
    <2>1. ASSUME NEW s \in Scenario, Create(p, s, auto) PROVE Counted'
        <3>1. Begin(p, "create", {s}, auto) /\ used' = used \union {s}
              /\ (rows' = rows \/ rows' = rows \union {s}) /\ \A t \in Scenario : t < s => t \in used
            BY <2>1 DEF Create
        <3>2. Owns(p, {s})
            BY <1>t, <3>1, BeginOwns
        <3> QED BY <1>0, <3>1, <3>2 DEF Counted
    <2>2. ASSUME NEW s \in Scenario, Delete(p, s, auto) PROVE Counted'
        <3>1. Begin(p, "delete", {s}, auto) /\ used' = used /\ rows' = rows /\ s \in rows
            BY <2>2 DEF Delete
        <3>2. Owns(p, {s})
            BY <1>t, <3>1, BeginOwns
        <3> QED BY <1>0, <3>1, <3>2 DEF Counted
    <2>3. ASSUME NEW f \in Run \union Filter, NEW op \in {"apply", "unapply", "launch"}, NEW a,
                 Begin(p, op, {f}, a), used' = used, rows' \subseteq rows \union {f}
          PROVE  Counted'
        <3>1. Owns(p, {f})
            BY <1>t, <2>3, BeginOwns
        <3>2. {f} \intersect Scenario = {}
            BY KindsAssumption
        <3> QED BY <1>0, <2>3, <3>1, <3>2 DEF Counted
    <2>4. ASSUME NEW f \in Filter, Apply(p, f, auto) PROVE Counted'
        BY <2>3, <2>4 DEF Apply
    <2>5. ASSUME NEW f \in Filter, Unapply(p, f, auto) PROVE Counted'
        BY <2>3, <2>5 DEF Unapply
    <2>6. ASSUME NEW r \in Run, Launch(p, r) PROVE Counted'
        BY <2>3, <2>6 DEF Launch
    <2>7. ASSUME NEW op \in Ops, Reconcile(p, op) PROVE Counted'
        <3>1. Begin(p, op, {}, TRUE) /\ UNCHANGED <<used, rows>>
            BY <2>7 DEF Reconcile
        <3>2. Owns(p, {})
            BY <1>t, <3>1, BeginOwns
        <3> QED BY <1>0, <3>1, <3>2 DEF Counted
    <2> QED BY <1>1, <2>1, <2>2, <2>4, <2>5, <2>6, <2>7
<1>2. ASSUME NEW p \in Proc, \/ Read(p) \/ Refused(p) \/ PromotePurge(p) \/ PromotePlan(p)
                             \/ TripOver(p) \/ BreakDown(p)
      PROVE  Counted'
    <2>1. UNCHANGED <<rows, used>>
        BY <1>2 DEF Read, Refused, PromotePurge, PromotePlan, TripOver, BreakDown
    <2>2. Owns(p, job[p].owner) \/ Owns(p, {})
        BY <1>t, <1>2, StepOwns
    <2> QED BY <1>0, <2>1, <2>2 DEF Counted
<1>3. ASSUME NEW p \in Proc, Finish(p) PROVE Counted'
    <2>1. used' = used /\ Owns(p, {})
        <3>1. used' = used /\ job' = [job EXCEPT ![p] = NoJob]
            BY <1>3 DEF Finish
        <3> QED BY <1>t, <3>1 DEF TypeOK, Owns, NoJob
    <2>2. rows' \subseteq rows \union job[p].owner
        <3>1. TaskOk(job[p])
            BY DEF CInv
        <3>2. CASE job[p].op = "delete"
            <4>1. PICK t \in Scenario : job[p].owner = {t}
                BY <3>1, <3>2 DEF TaskOk
            <4>2. rows' = rows \ ({t} \union Belonging({t}))
                BY <1>3, <3>1, <3>2, <4>1, FinishIs
            <4> QED BY <4>2
        <3>3. CASE job[p].op \in {"launch", "canvases", "analyses"}
            <4>1. rows' = rows
                BY <1>3, <3>1, <3>3, FinishIs
            <4> QED BY <4>1
        <3>4. CASE job[p].op = "unapply"
            <4>1. rows' = rows \ job[p].owner
                BY <1>3, <3>1, <3>4, FinishIs
            <4> QED BY <4>1
        <3>5. CASE job[p].op \in {"create", "apply"}
            <4>1. rows' = rows \/ rows' = rows \union {o \in job[p].owner : o \in Scenario \/ Of[o] \in rows}
                BY <1>3, <3>1, <3>5, FinishIs
            <4> QED BY <4>1
        <3>6. job[p].op # "none"
            BY <1>3 DEF Finish, Active
        <3> QED BY <3>1, <3>2, <3>3, <3>4, <3>5, <3>6 DEF TaskOk
    <2> QED BY <1>0, <2>1, <2>2 DEF Counted
<1>4. CASE BasePlan
    <2>1. UNCHANGED <<rows, used>> /\ \A q \in Proc : job'[q].owner = job[q].owner
        BY <1>t, <1>4 DEF BasePlan, TypeOK, JobType
    <2> QED BY <2>1 DEF Counted
<1>5. CASE UNCHANGED vars
    BY <1>5 DEF vars, Counted
<1> QED BY <1>1, <1>2, <1>3, <1>4, <1>5 DEF Next

(* When nobody is at work, that is what Settled says.                      *)
LEMMA CalmIsSettled == CInv => Settled
<1> SUFFICES ASSUME CInv, AtRest, NEW kind \in calm
             PROVE  /\ (listed \intersect Of_(kind)) \ wronged = (Mine \intersect Of_(kind)) \ wronged
                    /\ (Mine \intersect Of_(kind)) \ wronged \subseteq view
    BY DEF Settled, Mine
<1>1. InHand = {}
    BY Idle DEF AtRest, InHand, CInv
<1>2. KeptBut({})
    BY <1>1 DEF CInv
<1> QED BY <1>2 DEF KeptBut

(* Operations that did not overlap and did not fail leave SQLMesh's        *)
(* environment listing exactly the models of the rows, with their views    *)
(* there, but for what the deletion of a scenario took along: its filters  *)
(* and the views of other scenarios of the same name                       *)
(* (services/scenario_canvas.py:239, services/scenario_analysis.py:84,     *)
(* models.py:368). Creating, deleting, analyzing, filtering and repairing  *)
(* leave no other stale entry for a later plan to trip over and no other   *)
(* canvas without a view, and a repair that runs alone makes good what     *)
(* earlier failures, or namesakes, left behind.                            *)
THEOREM EnvironmentSettles == Spec => []Settled
<1>1. Init => CInv /\ Counted
    <2>1. Init => Counted
        BY DEF Init, Counted, NoJob
    <2> QED BY <2>1, InitCalm
<1>2. IInv /\ CInv /\ Counted /\ [Next]_vars => CInv' /\ Counted'
    BY StepCalm, CountedStep
<1>3. CInv => Settled
    BY CalmIsSettled
<1> QED BY Invariant, <1>1, <1>2, <1>3, PTL DEF Spec
=============================================================================
