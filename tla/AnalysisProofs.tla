---------------------------- MODULE AnalysisProofs ----------------------------
(***************************************************************************)
(* What holds of AnalysisRun for every number of readers and every choice  *)
(* of the intervals: its types; that what the executor wrote stays; and    *)
(* that a working executor is never reported failed while fewer pings in a *)
(* row are refused than the stale window has intervals.                    *)
(*                                                                         *)
(* And of ModuleOrder, for every finite graph and all requested modules:   *)
(* the order has all that is needed, once and after what it depends on.    *)
(***************************************************************************)
EXTENDS AnalysisRun, ModuleOrder, SequenceTheorems, FiniteSetTheorems,
        WellFoundedInduction, TLAPS

-----------------------------------------------------------------------------
(* The clocks stay within the bound they saturate at.                      *)
LEMMA AdvanceType == \A t \in Clock : Advance(t) \in Clock /\ Advance(t) <= t + 1
BY RunHealthAssumption, SMT DEF Advance, Clock

(* A clock is a number of intervals.                                       *)
LEMMA ClockIsNat == Clock \subseteq Nat /\ 0 \in Clock
BY RunHealthAssumption DEF Clock

(* The count of refused pings starts at zero and stays within its bound.   *)
LEMMA MissedType ==
  /\ 0 \in 0 .. MaxMissed
  /\ \A n \in 0 .. MaxMissed : n < MaxMissed => n + 1 \in 0 .. MaxMissed
BY RunHealthAssumption

(* The heartbeat's counts are numbers, and the refusals bounded.           *)
LEMMA CountsType ==
  ASSUME TypeOK
  PROVE  quiet \in Clock /\ quiet \in Nat /\ missed \in Nat /\ missed <= MaxMissed
<1>1. quiet \in Clock /\ missed \in 0 .. MaxMissed
    BY DEF TypeOK
<1> HIDE DEF TypeOK
<1> QED BY <1>1, ClockIsNat, RunHealthAssumption

(* An abandonment is one of the three causes, or none is found.            *)
LEMMA FoundType == Found \in Abandonment \cup {"none"}
BY DEF Found, PendingAbandonment, RunningAbandonment, Abandonment

(* A reader that has something to write saw the run pending or running.    *)
LEMMA ReadingType ==
  ASSUME TypeOK, NEW r \in Reader, reading[r] # NoReading
  PROVE  reading[r].status \in Live /\ reading[r].cause \in Abandonment
BY DEF TypeOK

(* What a reader finds is something to write.                              *)
LEMMA ReadIsReading ==
  ASSUME TypeOK, NEW r \in Reader, Read(r)
  PROVE  [status |-> status, cause |-> Found] \in [status : Live, cause : Abandonment]
BY FoundType DEF Read

(* Every step of the launcher, the executor, the clock and the readers     *)
(* keeps the types.                                                        *)
LEMMA TypeStep == TypeOK /\ [Next]_vars => TypeOK'
<1> SUFFICES ASSUME TypeOK, [Next]_vars PROVE TypeOK'
    OBVIOUS
<1> USE DEF TypeOK, row, clocks, thread
<1>1. CASE Launching
    BY <1>1 DEF Launching, Dispatch, DispatchFails, Commit, Rollback, Final
<1>2. CASE Take
    BY <1>2 DEF Take
<1>3. CASE Start
    BY <1>3, ClockIsNat, MissedType DEF Start, Live
<1>4. CASE Ping
    BY <1>4, ClockIsNat, MissedType DEF Ping
<1>5. CASE MissPing
    BY <1>5, MissedType DEF MissPing
<1>6. CASE Fail \/ Succeed \/ Save
    BY <1>6 DEF Fail, Succeed, Save, Final
<1>7. CASE Crash \/ HardLimit
    BY <1>7 DEF Crash, HardLimit, Killed
<1>8. CASE Tick
    BY <1>8, AdvanceType, ZenonT(40) DEF Tick
<1>9. ASSUME NEW r \in Reader, Read(r) PROVE TypeOK'
    BY <1>9, ReadIsReading, ZenonT(40) DEF Read
<1>10. ASSUME NEW r \in Reader, Reconcile(r) PROVE TypeOK'
    <2>1. reading[r].cause \in Abandonment
        BY <1>10, ReadingType DEF Reconcile
    <2>2. status' \in Final \cup {status} /\ cause' \in Abandonment \cup {cause}
        BY <1>10, <2>1 DEF Reconcile, Final
    <2>3. reading' \in [Reader -> [status : Live, cause : Abandonment] \cup {NoReading}]
        BY <1>10 DEF Reconcile
    <2> QED BY <1>10, <2>2, <2>3, ZenonT(40) DEF Reconcile
<1>11. CASE UNCHANGED vars
    BY <1>11, ZenonT(40) DEF vars
<1> QED BY <1>1, <1>2, <1>3, <1>4, <1>5, <1>6, <1>7, <1>8, <1>9, <1>10, <1>11
        DEF Next, Executing

(* The run's row, its task and its readers have the types of the code in   *)
(* every reachable state.                                                  *)
THEOREM TypeCorrect == Spec => []TypeOK
<1>1. Init => TypeOK
    BY ClockIsNat, MissedType DEF Init, TypeOK, Live
<1> QED BY <1>1, TypeStep, PTL DEF Spec

-----------------------------------------------------------------------------
(* While the launcher has not dispatched, nobody else has touched the run. *)
NotSentIsUntouched == launch = "created" => ~message /\ exec = "none"

(* A waiting message is a task that nobody has received.                   *)
WaitingIsUntaken == message => exec = "none"

(* A run another connection cannot see was not executed.                   *)
HiddenIsIdle == ~committed => exec \in {"none", "lost"}

(* The row reads "running" only once its executor has started.             *)
RunningWasStarted == status = "running" => exec \notin {"none", "fetched"}

(* An executor that is done has written its outcome.                       *)
DoneHasOutcome == exec = "done" => outcome \in Final

Order == /\ NotSentIsUntouched /\ WaitingIsUntaken /\ HiddenIsIdle
         /\ RunningWasStarted /\ DoneHasOutcome

(* Launcher, broker and executor act on the run one after the other.       *)
LEMMA OrderStep == TypeOK /\ Order /\ [Next]_vars => Order'
<1> SUFFICES ASSUME TypeOK, Order, [Next]_vars PROVE Order'
    OBVIOUS
<1> USE DEF Order, NotSentIsUntouched, WaitingIsUntaken, HiddenIsIdle,
            RunningWasStarted, DoneHasOutcome, row, clocks, thread
<1>1. CASE Launching
    BY <1>1 DEF Launching, Dispatch, DispatchFails, Commit, Rollback
<1>2. CASE Take
    BY <1>2 DEF Take, TypeOK
<1>3. CASE Start
    BY <1>3 DEF Start
<1>4. CASE Ping \/ MissPing
    BY <1>4 DEF Ping, MissPing
<1>5. CASE Fail \/ Succeed \/ Save
    BY <1>5 DEF Fail, Succeed, Save, Final
<1>6. CASE Crash \/ HardLimit
    BY <1>6 DEF Crash, HardLimit, Killed
<1>7. CASE Tick
    BY <1>7 DEF Tick
<1>8. ASSUME NEW r \in Reader, Read(r) PROVE Order'
    BY <1>8 DEF Read
<1>9. ASSUME NEW r \in Reader, Reconcile(r) PROVE Order'
    BY <1>9 DEF Reconcile
<1>10. CASE UNCHANGED vars
    BY <1>10 DEF vars
<1> QED BY <1>1, <1>2, <1>3, <1>4, <1>5, <1>6, <1>7, <1>8, <1>9, <1>10
        DEF Next, Executing

-----------------------------------------------------------------------------
(* The executor has the last word: an UPDATE keyed on a live status never  *)
(* matches a row that holds its outcome.                                   *)
LEMMA OutcomeStep == TypeOK /\ Order /\ OutcomeStands /\ [Next]_vars => OutcomeStands'
<1> SUFFICES ASSUME TypeOK, Order, OutcomeStands, [Next]_vars PROVE OutcomeStands'
    OBVIOUS
<1> USE DEF OutcomeStands, row, clocks, thread
<1>1. CASE Launching
    BY <1>1 DEF Launching, Dispatch, DispatchFails, Commit, Rollback,
                Order, NotSentIsUntouched, HiddenIsIdle
<1>2. CASE Take \/ Start
    BY <1>2 DEF Take, Start
<1>3. CASE Ping \/ MissPing
    BY <1>3 DEF Ping, MissPing
<1>4. CASE Fail \/ Succeed \/ Save
    BY <1>4 DEF Fail, Succeed, Save
<1>5. CASE Crash \/ HardLimit
    BY <1>5 DEF Crash, HardLimit, Killed
<1>6. CASE Tick
    BY <1>6 DEF Tick
<1>7. ASSUME NEW r \in Reader, Read(r) PROVE OutcomeStands'
    BY <1>7 DEF Read
<1>8. ASSUME NEW r \in Reader, Reconcile(r) PROVE OutcomeStands'
    <2>1. reading[r].status \in Live
        BY <1>8, ReadingType DEF Reconcile
    <2>2. exec = "done" => status \in Final
        BY DEF Order, DoneHasOutcome
    <2> QED BY <1>8, <2>1, <2>2 DEF Reconcile, Live, Final
<1>9. CASE UNCHANGED vars
    BY <1>9 DEF vars
<1> QED BY <1>1, <1>2, <1>3, <1>4, <1>5, <1>6, <1>7, <1>8, <1>9 DEF Next, Executing

(* Initially nothing was sent, taken or written.                           *)
LEMMA InitOrder == Init => Order /\ OutcomeStands
BY DEF Init, Order, NotSentIsUntouched, WaitingIsUntaken, HiddenIsIdle,
       RunningWasStarted, DoneHasOutcome, OutcomeStands

(* Launcher, broker and executor act in order in every reachable state.    *)
THEOREM InOrder == Spec => []Order
BY TypeCorrect, InitOrder, OrderStep, PTL DEF Spec

(* However many readers look at the row, and however late their updates    *)
(* come, a finished run keeps the status its executor saved.               *)
THEOREM OutcomeIsKept == Spec => []OutcomeStands
BY TypeCorrect, InOrder, InitOrder, OutcomeStep, PTL DEF Spec

-----------------------------------------------------------------------------
(* A reader saw "running" only when the ping had gone quiet, and so never  *)
(* while the executor worked.                                              *)
SeenRunningIsOver ==
  \A r \in Reader :
    (reading[r] # NoReading /\ reading[r].status = "running")
      => exec \notin {"none", "fetched", "working"}

(* A working executor's last ping is no older than its refused ones.       *)
HeartbeatIsFresh ==
  exec = "working" => quiet <= missed + 1 /\ (due \/ quiet <= missed)

Watched == SeenRunningIsOver /\ HeartbeatIsFresh /\ NoFalseAlarm

(* The heartbeat keeps up with the clock.                                  *)
LEMMA HeartbeatStep ==
  TypeOK /\ HeartbeatIsFresh /\ NoFalseAlarm /\ [Next]_vars => HeartbeatIsFresh'
<1> SUFFICES ASSUME TypeOK, HeartbeatIsFresh, NoFalseAlarm, [Next]_vars
             PROVE  HeartbeatIsFresh'
    OBVIOUS
<1> USE DEF HeartbeatIsFresh, row, clocks, thread
<1>t. quiet \in Nat /\ missed \in Nat /\ quiet \in Clock
    BY CountsType
<1>1. CASE Launching
    BY <1>1 DEF Launching, Dispatch, DispatchFails, Commit, Rollback
<1>2. CASE Take
    BY <1>2 DEF Take
<1>3. CASE Start
    <2>1. quiet' = 0 /\ missed' = 0
        BY <1>3 DEF Start
    <2> QED BY <2>1
<1>4. CASE Ping
    BY <1>4 DEF Ping, NoFalseAlarm
<1>5. CASE MissPing
    BY <1>5, <1>t DEF MissPing
<1>6. CASE Fail \/ Succeed \/ Save
    BY <1>6 DEF Fail, Succeed, Save
<1>7. CASE Crash \/ HardLimit
    BY <1>7 DEF Crash, HardLimit, Killed
<1>8. CASE Tick
    <2>1. Advance(quiet) <= quiet + 1 /\ Advance(quiet) \in Nat
        BY <1>t, AdvanceType, ClockIsNat
    <2>2. quiet' = Advance(quiet) /\ missed' = missed /\ exec' = exec
        BY <1>8 DEF Tick
    <2>3. exec' = "working" => ~due /\ due'
        BY <1>8, Zenon DEF Tick
    <2>4. exec' = "working" => quiet <= missed
        BY <2>2, <2>3
    <2> QED BY <1>t, <2>1, <2>2, <2>3, <2>4
<1>9. ASSUME NEW r \in Reader, Read(r) \/ Reconcile(r) PROVE HeartbeatIsFresh'
    BY <1>9 DEF Read, Reconcile
<1>10. CASE UNCHANGED vars
    BY <1>10 DEF vars
<1> QED BY <1>1, <1>2, <1>3, <1>4, <1>5, <1>6, <1>7, <1>8, <1>9, <1>10
        DEF Next, Executing

(* With fewer refusals than the stale window has intervals, the ping of a  *)
(* working executor is never found stale.                                  *)
LEMMA NotFoundStale ==
  ASSUME MaxMissed < Stale, TypeOK, Order, HeartbeatIsFresh, NoFalseAlarm,
         NEW r \in Reader, Read(r), status = "running"
  PROVE  exec \notin {"none", "fetched", "working"}
<1>1. quiet \in Nat /\ missed \in Nat /\ missed <= MaxMissed
    BY CountsType
<1>2. exec = "working" => quiet <= Stale
    BY <1>1, RunHealthAssumption DEF HeartbeatIsFresh
<1>3. exec = "working" => Found = "none"
    BY <1>2 DEF Found, RunningAbandonment
<1> QED BY <1>3 DEF Read, Order, RunningWasStarted

(* No reader holds a stale verdict on an executor that still works.        *)
LEMMA SeenStep ==
  ASSUME MaxMissed < Stale, TypeOK, Order, HeartbeatIsFresh, NoFalseAlarm,
         SeenRunningIsOver, [Next]_vars
  PROVE  SeenRunningIsOver'
<1> USE DEF SeenRunningIsOver, row, clocks, thread
<1>1. CASE Launching
    BY <1>1 DEF Launching, Dispatch, DispatchFails, Commit, Rollback
<1>2. CASE Take
    BY <1>2 DEF Take, Order, WaitingIsUntaken
<1>3. CASE Start
    BY <1>3 DEF Start
<1>4. CASE Ping \/ MissPing
    BY <1>4 DEF Ping, MissPing
<1>5. CASE Fail \/ Succeed \/ Save
    BY <1>5 DEF Fail, Succeed, Save
<1>6. CASE Crash \/ HardLimit
    BY <1>6 DEF Crash, HardLimit, Killed
<1>7. CASE Tick
    BY <1>7 DEF Tick
<1>8. ASSUME NEW r \in Reader, Read(r) PROVE SeenRunningIsOver'
    <2>1. /\ reading' = [reading EXCEPT ![r] = [status |-> status, cause |-> Found]]
          /\ exec' = exec
        BY <1>8 DEF Read
    <2>2. status = "running" => exec \notin {"none", "fetched", "working"}
        BY <1>8, NotFoundStale
    <2> QED BY <2>1, <2>2 DEF TypeOK
<1>9. ASSUME NEW r \in Reader, Reconcile(r) PROVE SeenRunningIsOver'
    BY <1>9 DEF Reconcile, TypeOK
<1>10. CASE UNCHANGED vars
    BY <1>10 DEF vars
<1> QED BY <1>1, <1>2, <1>3, <1>4, <1>5, <1>6, <1>7, <1>8, <1>9, <1>10
        DEF Next, Executing

(* Nobody but its executor moves a working run on.                         *)
LEMMA AlarmStep ==
  TypeOK /\ Order /\ SeenRunningIsOver /\ NoFalseAlarm /\ [Next]_vars => NoFalseAlarm'
<1> SUFFICES ASSUME TypeOK, Order, SeenRunningIsOver, NoFalseAlarm, [Next]_vars
             PROVE  NoFalseAlarm'
    OBVIOUS
<1> USE DEF NoFalseAlarm, row, clocks, thread
<1>1. CASE Launching
    BY <1>1 DEF Launching, Dispatch, DispatchFails, Commit, Rollback,
                Order, NotSentIsUntouched, HiddenIsIdle
<1>2. CASE Take \/ Start
    BY <1>2 DEF Take, Start
<1>3. CASE Ping \/ MissPing
    BY <1>3 DEF Ping, MissPing
<1>4. CASE Fail \/ Succeed \/ Save
    BY <1>4 DEF Fail, Succeed, Save
<1>5. CASE Crash \/ HardLimit
    BY <1>5 DEF Crash, HardLimit, Killed
<1>6. CASE Tick
    BY <1>6 DEF Tick
<1>7. ASSUME NEW r \in Reader, Read(r) PROVE NoFalseAlarm'
    BY <1>7 DEF Read
<1>8. ASSUME NEW r \in Reader, Reconcile(r) PROVE NoFalseAlarm'
    BY <1>8 DEF Reconcile, SeenRunningIsOver
<1>9. CASE UNCHANGED vars
    BY <1>9 DEF vars
<1> QED BY <1>1, <1>2, <1>3, <1>4, <1>5, <1>6, <1>7, <1>8, <1>9 DEF Next, Executing

(* A run whose executor works is never reported failed, provided fewer     *)
(* pings in a row are refused than the stale window has intervals.         *)
THEOREM NeverAFalseAlarm ==
  ASSUME MaxMissed < Stale
  PROVE  Spec => []NoFalseAlarm
<1>1. Init => Watched
    BY DEF Init, Watched, SeenRunningIsOver, HeartbeatIsFresh, NoFalseAlarm
<1>2. TypeOK /\ Order /\ Watched /\ [Next]_vars => Watched'
    BY HeartbeatStep, SeenStep, AlarmStep DEF Watched
<1>3. Watched => NoFalseAlarm
    BY DEF Watched
<1> QED BY <1>1, <1>2, <1>3, TypeCorrect, InOrder, PTL DEF Spec

-----------------------------------------------------------------------------
(***************************************************************************)
(* The order of the modules.                                               *)
(***************************************************************************)

(* A set of numbers has a least one.                                       *)
LEMMA LeastNumber ==
  ASSUME NEW S \in SUBSET Nat, S # {}
  PROVE  \E x \in S : \A y \in S : x <= y
<1>2. PICK x \in S : \A y \in S : ~(<<y, x>> \in OpToRel(<, Nat))
  BY WFMin, NatLessThanWellFounded, Zenon
<1>3. ASSUME NEW y \in S PROVE x <= y
  <2>1. x \in Nat /\ y \in Nat
    OBVIOUS
  <2>2. ~(y < x)
    BY <1>2, <2>1 DEF OpToRel
  <2> QED BY <2>1, <2>2
<1> QED BY <1>3

-----------------------------------------------------------------------------
(* What is reached in n steps, given what is in fewer.                     *)
Step(g, S, f, n) == IF n = 0 THEN S ELSE WithDeps(g, f[n - 1])

(* The search for what S needs goes to its end: the recursive function     *)
(* that stands for it exists.                                              *)
LEMMA SearchRuns ==
  ASSUME NEW g, NEW S, IsFiniteSet(DOMAIN g)
  PROVE  Reached(g, S) =
           [n \in 0 .. Cardinality(DOMAIN g) |-> Step(g, S, Reached(g, S), n)]
<1> DEFINE K == Cardinality(DOMAIN g)
           Upto(k) == \E f : f = [n \in 0 .. k |-> Step(g, S, f, n)]
           Bad == {k \in 0 .. K : ~Upto(k)}
<1>0. K \in Nat
  BY FS_CardinalityType
<1> HIDE DEF K
<1>1. Upto(0)
  <2> DEFINE f == [n \in 0 .. 0 |-> S]
  <2>1. f = [n \in 0 .. 0 |-> Step(g, S, f, n)]
    BY DEF Step
  <2> HIDE DEF f
  <2> QED BY <2>1
<1>2. ASSUME NEW k \in Nat, Upto(k) PROVE Upto(k + 1)
  <2>1. PICK f : f = [n \in 0 .. k |-> Step(g, S, f, n)]
    BY <1>2
  <2> DEFINE h == [n \in 0 .. k + 1 |-> Step(g, S, f, n)]
  <2>2. ASSUME NEW n \in 0 .. k PROVE h[n] = f[n]
    BY <2>1
  <2>3. ASSUME NEW n \in 0 .. k + 1 PROVE Step(g, S, f, n) = Step(g, S, h, n)
    <3>1. CASE n = 0
      BY <3>1 DEF Step
    <3>2. CASE n # 0
      <4>1. n - 1 \in 0 .. k
        BY <3>2
      <4>2. h[n - 1] = f[n - 1]
        BY <2>2, <4>1
      <4> HIDE DEF h
      <4> QED BY <3>2, <4>2 DEF Step
    <3> QED BY <3>1, <3>2
  <2>4. h = [n \in 0 .. k + 1 |-> Step(g, S, h, n)]
    <3> DEFINE H == [n \in 0 .. k + 1 |-> Step(g, S, h, n)]
    <3>1. DOMAIN h = 0 .. k + 1 /\ DOMAIN H = 0 .. k + 1
      OBVIOUS
    <3>2. \A n \in 0 .. k + 1 : h[n] = H[n]
      BY <2>3
    <3> QED BY <3>1, <3>2
  <2> HIDE DEF h
  <2> QED BY <2>4
<1> HIDE DEF Upto
<1>3. Bad = {}
  <2> SUFFICES ASSUME Bad # {} PROVE FALSE
    OBVIOUS
  <2>0. Bad \in SUBSET Nat /\ \A k : k \in Bad <=> k \in 0 .. K /\ ~Upto(k)
    BY <1>0
  <2> HIDE DEF Bad
  <2>1. PICK k \in Bad : \A y \in Bad : k <= y
    BY <2>0, LeastNumber
  <2>2. k # 0 /\ k - 1 \in 0 .. K /\ k - 1 \notin Bad
    BY <1>0, <1>1, <2>0, <2>1
  <2>3. Upto(k - 1) /\ k = (k - 1) + 1
    BY <2>0, <2>2
  <2>4. Upto(k)
    BY <1>2, <2>2, <2>3
  <2> QED BY <2>0, <2>1, <2>4
<1>4. \E f : f = [n \in 0 .. K |-> Step(g, S, f, n)]
  <2>1. Upto(K)
    BY <1>0, <1>3
  <2> QED BY <2>1 DEF Upto
<1> QED BY <1>4, Zenon DEF Reached, K, Step

(* A set that has what its modules depend on.                              *)
HasDeps(g, T) == \A m \in T : ToSet(DependenciesOf(g, m)) \subseteq T

(* What is not registered depends on nothing.                              *)
LEMMA OnlyRegisteredDepend ==
  \A g, m : m \notin DOMAIN g => ToSet(DependenciesOf(g, m)) = {}
BY DEF DependenciesOf, ToSet

(* One more step of the search.                                            *)
LEMMA SearchStep ==
  ASSUME NEW g, NEW S, IsFiniteSet(DOMAIN g)
  PROVE  /\ Cardinality(DOMAIN g) \in Nat
         /\ Reached(g, S)[0] = S
         /\ \A n \in 1 .. Cardinality(DOMAIN g) :
               Reached(g, S)[n] = WithDeps(g, Reached(g, S)[n - 1])
<1>1. Cardinality(DOMAIN g) \in Nat
  BY FS_CardinalityType
<1>2. \A n \in 0 .. Cardinality(DOMAIN g) : Reached(g, S)[n] = Step(g, S, Reached(g, S), n)
  <2> DEFINE R == Reached(g, S)
  <2>1. R = [n \in 0 .. Cardinality(DOMAIN g) |-> Step(g, S, R, n)]
    BY SearchRuns
  <2> HIDE DEF R
  <2>2. \A n \in 0 .. Cardinality(DOMAIN g) : R[n] = Step(g, S, R, n)
    BY <2>1
  <2> QED BY <2>2 DEF R
<1> QED BY <1>1, <1>2 DEF Step

(* A set that has what its modules depend on gains nothing by a step.      *)
LEMMA HasDepsStays ==
  ASSUME NEW g, NEW T PROVE HasDeps(g, T) <=> WithDeps(g, T) = T
BY DEF HasDeps, WithDeps

(* After n steps nothing is left to reach, or more than n registered       *)
(* modules are reached.                                                    *)
LEMMA SearchGrows ==
  ASSUME NEW g, NEW S, IsFiniteSet(DOMAIN g), NEW n \in 0 .. Cardinality(DOMAIN g)
  PROVE  \/ HasDeps(g, Reached(g, S)[n])
         \/ Cardinality(Reached(g, S)[n] \cap DOMAIN g) > n
<1> DEFINE K == Cardinality(DOMAIN g)
           R(k) == Reached(g, S)[k]
           Good(k) == HasDeps(g, R(k)) \/ Cardinality(R(k) \cap DOMAIN g) > k
           Bad == {k \in 0 .. K : ~Good(k)}
<1>0. K \in Nat /\ R(0) = S /\ \A k \in 1 .. K : R(k) = WithDeps(g, R(k - 1))
  BY SearchStep
<1>1. ASSUME NEW T
      PROVE  /\ IsFiniteSet(T \cap DOMAIN g) /\ Cardinality(T \cap DOMAIN g) \in Nat
             /\ T \cap DOMAIN g = {} => HasDeps(g, T)
             /\ T \cap DOMAIN g # {} => Cardinality(T \cap DOMAIN g) > 0
  <2>1. IsFiniteSet(T \cap DOMAIN g)
    BY FS_Subset
  <2>2. Cardinality(T \cap DOMAIN g) \in Nat
    BY <2>1, FS_CardinalityType
  <2>3. T \cap DOMAIN g = {} => HasDeps(g, T)
    BY OnlyRegisteredDepend DEF HasDeps
  <2>4. Cardinality(T \cap DOMAIN g) = 0 <=> T \cap DOMAIN g = {}
    BY <2>1, FS_EmptySet
  <2> QED BY <2>1, <2>2, <2>3, <2>4
<1> HIDE DEF K, R
<1>2. Good(0)
  BY <1>1
<1>3. ASSUME NEW k \in 1 .. K, Good(k - 1) PROVE Good(k)
  <2> SUFFICES ASSUME ~HasDeps(g, R(k)) PROVE Cardinality(R(k) \cap DOMAIN g) > k
    OBVIOUS
  <2> DEFINE Before == R(k - 1)
  <2>1. R(k) = WithDeps(g, Before)
    BY <1>0
  <2>2. ~HasDeps(g, Before)
    BY <2>1, HasDepsStays
  <2>3. Cardinality(Before \cap DOMAIN g) > k - 1
    BY <1>3, <2>2
  <2>4. Before \subseteq R(k)
    BY <2>1 DEF WithDeps
  <2>5. R(k) \cap DOMAIN g # Before \cap DOMAIN g
    <3> SUFFICES ASSUME R(k) \cap DOMAIN g = Before \cap DOMAIN g PROVE FALSE
      OBVIOUS
    <3>1. ASSUME NEW m \in R(k) PROVE ToSet(DependenciesOf(g, m)) \subseteq R(k)
      <4>1. CASE m \in DOMAIN g
        BY <2>1, <4>1 DEF WithDeps
      <4>2. CASE m \notin DOMAIN g
        BY <4>2, OnlyRegisteredDepend
      <4> QED BY <4>1, <4>2
    <3> QED BY <3>1 DEF HasDeps
  <2>6. Cardinality(Before \cap DOMAIN g) # Cardinality(R(k) \cap DOMAIN g)
        /\ Cardinality(Before \cap DOMAIN g) <= Cardinality(R(k) \cap DOMAIN g)
    <3>1. Before \cap DOMAIN g \in SUBSET (R(k) \cap DOMAIN g)
      BY <2>4
    <3>2. IsFiniteSet(R(k) \cap DOMAIN g)
      BY <1>1
    <3> QED BY <2>5, <3>1, <3>2, FS_Subset
  <2>7. Cardinality(Before \cap DOMAIN g) \in Nat /\ Cardinality(R(k) \cap DOMAIN g) \in Nat
    BY <1>1
  <2> HIDE DEF Before
  <2> QED BY <1>0, <2>3, <2>6, <2>7
<1> HIDE DEF Good
<1>4. Bad = {}
  <2> SUFFICES ASSUME Bad # {} PROVE FALSE
    OBVIOUS
  <2>0. Bad \in SUBSET Nat /\ \A k : k \in Bad <=> k \in 0 .. K /\ ~Good(k)
    BY <1>0
  <2> HIDE DEF Bad
  <2>1. PICK k \in Bad : \A y \in Bad : k <= y
    BY <2>0, LeastNumber
  <2>2. k \in 1 .. K /\ k - 1 \in 0 .. K /\ k - 1 \notin Bad
    BY <1>0, <1>2, <2>0, <2>1
  <2>3. Good(k - 1)
    BY <2>0, <2>2
  <2> QED BY <1>3, <2>0, <2>1, <2>2, <2>3
<1>5. n \in 0 .. K
  BY DEF K
<1>6. Good(n)
  BY <1>4, <1>5
<1> QED BY <1>6 DEF Good, R

(* What is needed has what it depends on.                                  *)
LEMMA NeededHasDeps ==
  ASSUME NEW g, NEW S, IsFiniteSet(DOMAIN g) PROVE HasDeps(g, Needed(g, S))
<1> DEFINE K == Cardinality(DOMAIN g)
           N == Needed(g, S) \cap DOMAIN g
<1>1. K \in Nat /\ K \in 0 .. K
  BY FS_CardinalityType
<1>2. HasDeps(g, Needed(g, S)) \/ Cardinality(N) > K
  BY <1>1, SearchGrows DEF Needed
<1>3. Cardinality(N) <= K /\ Cardinality(N) \in Nat
  <2>1. IsFiniteSet(N) /\ Cardinality(N) <= K
    BY FS_Subset
  <2> QED BY <2>1, FS_CardinalityType
<1> HIDE DEF K, N
<1> QED BY <1>1, <1>2, <1>3

(* What is needed has what was asked for, and is in every other set that   *)
(* has it and has what it depends on.                                      *)
LEMMA NeededIsLeast ==
  ASSUME NEW g, NEW S, IsFiniteSet(DOMAIN g)
  PROVE  /\ S \subseteq Needed(g, S)
         /\ \A T : S \subseteq T /\ HasDeps(g, T) => Needed(g, S) \subseteq T
<1> DEFINE K == Cardinality(DOMAIN g)
           R(k) == Reached(g, S)[k]
           Good(k) == /\ S \subseteq R(k)
                      /\ \A T : S \subseteq T /\ HasDeps(g, T) => R(k) \subseteq T
           Bad == {k \in 0 .. K : ~Good(k)}
<1>0. K \in Nat /\ R(0) = S /\ \A k \in 1 .. K : R(k) = WithDeps(g, R(k - 1))
  BY SearchStep
<1>1. Needed(g, S) = R(K)
  BY DEF Needed
<1> HIDE DEF K, R
<1>2. Good(0)
  BY <1>0
<1>3. ASSUME NEW k \in 1 .. K, Good(k - 1) PROVE Good(k)
  <2>1. R(k) = WithDeps(g, R(k - 1))
    BY <1>0
  <2> QED BY <1>3, <2>1 DEF WithDeps, HasDeps
<1> HIDE DEF Good
<1>4. Bad = {}
  <2> SUFFICES ASSUME Bad # {} PROVE FALSE
    OBVIOUS
  <2>0. Bad \in SUBSET Nat /\ \A k : k \in Bad <=> k \in 0 .. K /\ ~Good(k)
    BY <1>0
  <2> HIDE DEF Bad
  <2>1. PICK k \in Bad : \A y \in Bad : k <= y
    BY <2>0, LeastNumber
  <2>2. k \in 1 .. K /\ k - 1 \in 0 .. K /\ k - 1 \notin Bad
    BY <1>0, <1>2, <2>0, <2>1
  <2>3. Good(k - 1)
    BY <2>0, <2>2
  <2> QED BY <1>3, <2>0, <2>1, <2>2, <2>3
<1>5. Good(K)
  BY <1>0, <1>4
<1> QED BY <1>1, <1>5 DEF Good

-----------------------------------------------------------------------------
(* The types: a frame is of a module, or of the loop over the requested.   *)
FrameType == [module : Module \cup {"resolve_module_order"}, calls : Seq(Module), made : Nat]

OrderTypeOK ==
  /\ IsFiniteSet(DOMAIN graph)
  /\ graph \in [DOMAIN graph -> Seq(Module)]
  /\ requested \in Seq(Module)
  /\ ordered \in Seq(Module)
  /\ stack \in Seq(FrameType)
  /\ resolution \in {"asked", "running", "ordered", "unknown", "circular"}

(* What the requested modules need.                                        *)
Need == Needed(graph, ToSet(requested))

(* The stack is a path of the graph, of modules that are not listed yet.   *)
IsCallStack ==
  /\ Len(stack) > 0 /\ stack[1].calls = requested
  /\ \A i \in DOMAIN stack : stack[i].made <= Len(stack[i].calls)
  /\ \A i \in DOMAIN stack : i > 1 =>
        /\ stack[i].calls = DependenciesOf(graph, stack[i].module)
        /\ stack[i].module \in ToSet(stack[i - 1].calls)
        /\ stack[i].module \notin Seen
  /\ \A i, j \in DOMAIN stack : i > 1 /\ j > 1 /\ stack[i].module = stack[j].module => i = j

(* A call that was made has returned, or is the next frame of the stack.   *)
CallsReturn ==
  \A i \in DOMAIN stack : \A k \in 1 .. stack[i].made :
    \/ stack[i].calls[k] \in Seen
    \/ i < Len(stack) /\ stack[i].calls[k] = stack[i + 1].module

(* Nothing is listed or called that is not needed.                         *)
OnlyNeeded == Seen \cup InProgress \subseteq Need

(* What is listed is listed once and after what it depends on.             *)
ListedInOrder ==
  /\ \A i, j \in DOMAIN ordered : ordered[i] = ordered[j] => i = j
  /\ \A i \in DOMAIN ordered :
        ToSet(DependenciesOf(graph, ordered[i])) \subseteq {ordered[j] : j \in 1 .. i - 1}

OrderInv ==
  /\ resolution = "asked" => ordered = <<>>
  /\ resolution \in {"running", "ordered"} =>
       Registered /\ IsCallStack /\ CallsReturn /\ OnlyNeeded /\ ListedInOrder
  /\ resolution = "unknown" => ~Registered
  /\ resolution = "circular" => Registered /\ Circular(graph, ToSet(requested))
  /\ resolution = "ordered" => Len(stack) = 1 /\ Last(stack).made = Len(Last(stack).calls)

(* A sequence of modules has modules.                                      *)
LEMMA SeqOfModules ==
  ASSUME NEW s \in Seq(Module)
  PROVE  /\ Len(s) \in Nat /\ DOMAIN s = 1 .. Len(s)
         /\ \A i \in 1 .. Len(s) : s[i] \in Module
         /\ \A m : m \in ToSet(s) <=> \E i \in 1 .. Len(s) : s[i] = m
BY DEF ToSet

(* What any module depends on is a sequence of modules.                    *)
LEMMA DepsType ==
  ASSUME OrderTypeOK, NEW m PROVE DependenciesOf(graph, m) \in Seq(Module)
BY DEF OrderTypeOK, DependenciesOf

(* The frames of the stack, and the innermost one.                         *)
LEMMA StackType ==
  ASSUME OrderTypeOK
  PROVE  /\ Len(stack) \in Nat /\ DOMAIN stack = 1 .. Len(stack)
         /\ \A i \in 1 .. Len(stack) : /\ stack[i] \in FrameType
                                       /\ stack[i].calls \in Seq(Module)
                                       /\ Len(stack[i].calls) \in Nat
                                       /\ stack[i].made \in Nat
<1>1. stack \in Seq(FrameType)
  BY DEF OrderTypeOK
<1>2. Len(stack) \in Nat /\ DOMAIN stack = 1 .. Len(stack)
      /\ \A i \in 1 .. Len(stack) : stack[i] \in FrameType
  BY <1>1
<1>3. ASSUME NEW f \in FrameType
      PROVE  f.calls \in Seq(Module) /\ Len(f.calls) \in Nat /\ f.made \in Nat
  BY DEF FrameType
<1> QED BY <1>2, <1>3

(* The module a loop calls next.                                           *)
LEMMA CalledType ==
  ASSUME OrderTypeOK, Len(stack) > 0, Calling
  PROVE  /\ Called \in Module
         /\ Called \in ToSet(stack[Len(stack)].calls)
         /\ stack[Len(stack)].made + 1 \in 1 .. Len(stack[Len(stack)].calls)
         /\ Called = stack[Len(stack)].calls[stack[Len(stack)].made + 1]
<1>1. Len(stack) \in 1 .. Len(stack)
  BY StackType
<1> DEFINE top == stack[Len(stack)]
<1>2. top.calls \in Seq(Module) /\ Len(top.calls) \in Nat /\ top.made \in Nat
  BY <1>1, StackType
<1>3. top.made < Len(top.calls) /\ Called = top.calls[top.made + 1]
  BY DEF Calling, Called, Last
<1> HIDE DEF top
<1>4. top.made + 1 \in 1 .. Len(top.calls)
  BY <1>2, <1>3
<1> QED BY <1>2, <1>3, <1>4, SeqOfModules DEF top

(* The stack after the innermost loop made a call.                         *)
LEMMA CallMadeIs ==
  ASSUME OrderTypeOK, Len(stack) > 0
  PROVE  /\ CallMade \in Seq(FrameType)
         /\ Len(CallMade) = Len(stack)
         /\ \A i \in 1 .. Len(stack) :
              /\ CallMade[i].module = stack[i].module
              /\ CallMade[i].calls = stack[i].calls
              /\ CallMade[i].made = IF i = Len(stack) THEN stack[i].made + 1 ELSE stack[i].made
<1> DEFINE n == Len(stack)
           f == [stack[n] EXCEPT !.made = @ + 1]
<1>1. n \in 1 .. n /\ stack \in Seq(FrameType) /\ stack[n] \in FrameType
  BY StackType DEF OrderTypeOK
<1>2. f \in FrameType /\ f.module = stack[n].module /\ f.calls = stack[n].calls
      /\ f.made = stack[n].made + 1
  <2>1. ASSUME NEW t \in FrameType
        PROVE  /\ [t EXCEPT !.made = @ + 1] \in FrameType
               /\ [t EXCEPT !.made = @ + 1].module = t.module
               /\ [t EXCEPT !.made = @ + 1].calls = t.calls
               /\ [t EXCEPT !.made = @ + 1].made = t.made + 1
    BY DEF FrameType
  <2> QED BY <1>1, <2>1
<1>3. CallMade = [stack EXCEPT ![n] = f]
  BY DEF CallMade
<1> HIDE DEF f, n
<1>4. /\ CallMade \in Seq(FrameType) /\ Len(CallMade) = n
      /\ \A i \in 1 .. n : CallMade[i] = IF i = n THEN f ELSE stack[i]
  <2>1. n = Len(stack)
    BY DEF n
  <2> QED BY <1>1, <1>2, <1>3, <2>1, ExceptSeq
<1> QED BY <1>2, <1>4 DEF n

(* The stack with one more frame.                                          *)
LEMMA EnterDepsIs ==
  ASSUME OrderTypeOK, Len(stack) > 0, EnterDeps
  PROVE  /\ stack' \in Seq(FrameType)
         /\ Len(stack') = Len(stack) + 1
         /\ \A i \in 1 .. Len(stack) :
              /\ stack'[i].module = stack[i].module
              /\ stack'[i].calls = stack[i].calls
              /\ stack'[i].made = IF i = Len(stack) THEN stack[i].made + 1 ELSE stack[i].made
         /\ stack'[Len(stack) + 1].module = Called
         /\ stack'[Len(stack) + 1].calls = DependenciesOf(graph, Called)
         /\ stack'[Len(stack) + 1].made = 0
<1> DEFINE f == Frame(Called, DependenciesOf(graph, Called))
<1>1. /\ f \in FrameType /\ f.module = Called /\ f.made = 0
      /\ f.calls = DependenciesOf(graph, Called)
  BY DepsType, CalledType DEF EnterDeps, Frame, FrameType
<1>2. stack' = Append(CallMade, f)
  BY DEF EnterDeps
<1>3. CallMade \in Seq(FrameType) /\ Len(CallMade) = Len(stack) /\ Len(stack) \in Nat
  BY CallMadeIs, StackType
<1> HIDE DEF f
<1>4. /\ stack' \in Seq(FrameType) /\ Len(stack') = Len(stack) + 1
      /\ \A i \in 1 .. Len(stack) : stack'[i] = CallMade[i]
      /\ stack'[Len(stack) + 1] = f
  BY <1>1, <1>2, <1>3
<1> QED BY <1>1, <1>4, CallMadeIs

(* The stack without its innermost frame.                                  *)
LEMMA FrontIs ==
  ASSUME OrderTypeOK, Len(stack) > 1
  PROVE  /\ Front(stack) \in Seq(FrameType)
         /\ Len(Front(stack)) = Len(stack) - 1
         /\ \A i \in 1 .. Len(stack) - 1 : Front(stack)[i] = stack[i]
<1>1. Len(stack) - 1 \in Int /\ \A i \in 1 .. Len(stack) - 1 : stack[i] \in FrameType
  BY StackType
<1>2. 1 <= Len(stack) - 1
  BY StackType
<1> QED BY <1>1, <1>2, SubSeqProperties DEF Front

(* What listing a module adds.                                             *)
LEMMA ListIs ==
  ASSUME OrderTypeOK, NEW m \in Module, m \notin Seen
  PROVE  /\ List(m) \in Seq(Module)
         /\ Len(List(m)) = Len(ordered) + 1
         /\ \A i \in 1 .. Len(ordered) : List(m)[i] = ordered[i]
         /\ List(m)[Len(ordered) + 1] = m
         /\ ToSet(List(m)) = Seen \cup {m}
<1>1. ordered \in Seq(Module) /\ List(m) = Append(ordered, m)
  BY DEF OrderTypeOK, List
<1>2. /\ List(m) \in Seq(Module)
      /\ Len(List(m)) = Len(ordered) + 1
      /\ \A i \in 1 .. Len(ordered) : List(m)[i] = ordered[i]
      /\ List(m)[Len(ordered) + 1] = m
  BY <1>1
<1>3. Len(ordered) \in Nat
  BY <1>1
<1>4. \A x : x \in ToSet(List(m)) <=> x \in Seen \cup {m}
  <2> DEFINE l == List(m)
             n == Len(ordered)
  <2>1. \A x : x \in ToSet(l) <=> \E i \in 1 .. n + 1 : l[i] = x
    BY <1>2, SeqOfModules
  <2>2. \A x : x \in Seen <=> \E i \in 1 .. n : ordered[i] = x
    BY <1>1, SeqOfModules DEF Seen
  <2>3. /\ \A i \in 1 .. n : l[i] = ordered[i]
        /\ l[n + 1] = m
        /\ n \in Nat
    BY <1>2, <1>3
  <2> HIDE DEF l, n
  <2> QED BY <2>1, <2>2, <2>3 DEF l
<1> QED BY <1>2, <1>4

(* Every step keeps the types.                                             *)
LEMMA OrderTypeStep ==
  ASSUME OrderTypeOK, OrderInv, [OrderNext]_orderVars PROVE OrderTypeOK'
<1>1. CASE RefuseUnknown
  BY <1>1 DEF RefuseUnknown, OrderTypeOK
<1>2. CASE StartLoop
  <2>1. Frame("resolve_module_order", requested) \in FrameType
    BY DEF OrderTypeOK, Frame, FrameType
  <2>2. stack' \in Seq(FrameType)
    BY <1>2, <2>1 DEF StartLoop
  <2> QED BY <1>2, <2>2 DEF StartLoop, OrderTypeOK
<1>3. CASE SkipSeen
  <2>1. Len(stack) > 0
    BY <1>3 DEF SkipSeen, Calling, OrderInv, IsCallStack
  <2> QED BY <1>3, <2>1, CallMadeIs DEF SkipSeen, OrderTypeOK
<1>4. CASE RefuseCircle
  BY <1>4 DEF RefuseCircle, OrderTypeOK
<1>5. CASE EnterDeps
  <2>1. Len(stack) > 0
    BY <1>5 DEF EnterDeps, Calling, OrderInv, IsCallStack
  <2>2. stack' \in Seq(FrameType)
    BY <1>5, <2>1, EnterDepsIs
  <2> QED BY <1>5, <2>2 DEF EnterDeps, OrderTypeOK
<1>6. CASE ListModule
  <2> DEFINE m == Last(stack).module
  <2>1. Len(stack) \in 1 .. Len(stack) /\ Len(stack) > 1
    BY <1>6, StackType DEF ListModule
  <2>2. m \notin Seen /\ m \in ToSet(stack[Len(stack) - 1].calls)
    BY <1>6, <2>1, StackType DEF ListModule, LoopIsOver, OrderInv, IsCallStack, Last
  <2>3. m \in Module
    <3>1. stack[Len(stack) - 1].calls \in Seq(Module)
      BY <2>1, StackType
    <3> HIDE DEF m
    <3> QED BY <2>2, <3>1, SeqOfModules
  <2> HIDE DEF m
  <2>4. ordered' \in Seq(Module)
    BY <1>6, <2>2, <2>3, ListIs DEF ListModule, m
  <2>5. stack' \in Seq(FrameType)
    BY <1>6, <2>1, FrontIs DEF ListModule
  <2> QED BY <1>6, <2>4, <2>5 DEF ListModule, OrderTypeOK
<1>7. CASE ReturnOrder
  BY <1>7 DEF ReturnOrder, OrderTypeOK
<1>8. CASE UNCHANGED orderVars
  BY <1>8 DEF orderVars, OrderTypeOK
<1> QED BY <1>1, <1>2, <1>3, <1>4, <1>5, <1>6, <1>7, <1>8 DEF OrderNext, AddWithDeps

-----------------------------------------------------------------------------
(* The needed modules have what they depend on, and the requested ones.    *)
LEMMA NeedIs ==
  ASSUME OrderTypeOK
  PROVE  /\ HasDeps(graph, Need)
         /\ ToSet(requested) \subseteq Need
BY NeededHasDeps, NeededIsLeast DEF OrderTypeOK, Need

(* What a loop calls is needed.                                            *)
LEMMA CalledIsNeeded ==
  ASSUME OrderTypeOK, IsCallStack, OnlyNeeded, Calling
  PROVE  Called \in Need
<1> DEFINE n == Len(stack)
<1>1. Len(stack) > 0 /\ n \in 1 .. n /\ DOMAIN stack = 1 .. n
  BY StackType DEF IsCallStack
<1>2. Called \in ToSet(stack[n].calls)
  BY <1>1, CalledType
<1>3. CASE n = 1
  BY <1>2, <1>3, NeedIs DEF IsCallStack
<1>4. CASE n > 1
  <2>1. stack[n].calls = DependenciesOf(graph, stack[n].module)
    BY <1>1, <1>4 DEF IsCallStack
  <2>2. stack[n].module \in Need
    BY <1>1, <1>4 DEF OnlyNeeded, InProgress
  <2> QED BY <1>2, <2>1, <2>2, NeedIs DEF HasDeps
<1> QED BY <1>1, <1>3, <1>4

(* The loop starts with nothing listed and one frame.                      *)
LEMMA StartLoopStep ==
  ASSUME OrderTypeOK, OrderInv, StartLoop
  PROVE  OrderInv'
<1>1. ordered = <<>> /\ ordered' = <<>> /\ Registered'
  BY DEF StartLoop, OrderInv, Registered
<1>2. requested \in Seq(Module)
  BY DEF OrderTypeOK
<1> DEFINE f == Frame("resolve_module_order", requested)
<1>3. f.calls = requested /\ f.made = 0 /\ Len(f.calls) \in Nat
  BY <1>2 DEF Frame
<1>4. stack' = <<f>> /\ resolution' = "running" /\ UNCHANGED <<graph, requested>>
  BY DEF StartLoop
<1> HIDE DEF f
<1>5. DOMAIN stack' = {1} /\ Len(stack') = 1 /\ stack'[1] = f
  BY <1>4
<1>6. IsCallStack'
  BY <1>3, <1>4, <1>5 DEF IsCallStack
<1>7. CallsReturn'
  BY <1>3, <1>5 DEF CallsReturn
<1>8. Seen' = {} /\ InProgress' = {}
  BY <1>1, <1>5 DEF Seen, InProgress, ToSet
<1>9. OnlyNeeded' /\ ListedInOrder'
  BY <1>1, <1>8 DEF OnlyNeeded, ListedInOrder
<1> QED BY <1>1, <1>4, <1>6, <1>7, <1>9 DEF OrderInv

(* A call that finds its module listed.                                    *)
LEMMA SkipSeenStep ==
  ASSUME OrderTypeOK, OrderInv, SkipSeen
  PROVE  OrderInv'
<1>1. /\ Registered /\ IsCallStack /\ CallsReturn /\ OnlyNeeded /\ ListedInOrder
      /\ Len(stack) > 0 /\ Calling
  BY DEF SkipSeen, Calling, OrderInv, IsCallStack
<1> DEFINE n == Len(stack)
<1>2. stack' \in Seq(FrameType) /\ Len(stack') = n /\ DOMAIN stack' = 1 .. n /\ DOMAIN stack = 1 .. n
      /\ n \in 1 .. n
  BY <1>1, CallMadeIs, StackType DEF SkipSeen
<1>3. \A i \in 1 .. n : /\ stack'[i].module = stack[i].module
                        /\ stack'[i].calls = stack[i].calls
                        /\ stack'[i].made = IF i = n THEN stack[i].made + 1 ELSE stack[i].made
  BY <1>1, CallMadeIs DEF SkipSeen
<1>4. UNCHANGED <<graph, requested, ordered, resolution>> /\ Called \in Seen
      /\ Seen' = Seen /\ Need' = Need
  BY DEF SkipSeen, Seen, Need
<1>5. /\ stack[n].made + 1 \in 1 .. Len(stack[n].calls)
      /\ Called = stack[n].calls[stack[n].made + 1]
  BY <1>1, CalledType
<1>6. \A i \in 1 .. n : stack[i].made \in Nat
  BY StackType
<1> HIDE DEF n
<1>7. IsCallStack'
  <2>1. Len(stack') > 0 /\ stack'[1].calls = requested'
    BY <1>1, <1>2, <1>3, <1>4 DEF IsCallStack
  <2>2. \A i \in 1 .. n : stack'[i].made <= Len(stack'[i].calls)
    BY <1>1, <1>2, <1>3, <1>5 DEF IsCallStack
  <2>3. \A i \in 1 .. n : i > 1 => /\ stack'[i].calls = DependenciesOf(graph', stack'[i].module)
                                   /\ stack'[i].module \in ToSet(stack'[i - 1].calls)
                                   /\ stack'[i].module \notin Seen'
    BY <1>1, <1>2, <1>3, <1>4 DEF IsCallStack
  <2>4. \A i, j \in 1 .. n : i > 1 /\ j > 1 /\ stack'[i].module = stack'[j].module => i = j
    BY <1>1, <1>2, <1>3 DEF IsCallStack
  <2> QED BY <1>2, <2>1, <2>2, <2>3, <2>4 DEF IsCallStack
<1>8. CallsReturn'
  <2> SUFFICES ASSUME NEW i \in 1 .. n, NEW k \in 1 .. stack'[i].made
               PROVE  \/ stack[i].calls[k] \in Seen
                      \/ i < n /\ stack[i].calls[k] = stack[i + 1].module
    BY <1>2, <1>3, <1>4 DEF CallsReturn
  <2>1. CASE k \in 1 .. stack[i].made
    BY <1>1, <1>2, <2>1 DEF CallsReturn, n
  <2>2. CASE k \notin 1 .. stack[i].made
    BY <1>3, <1>4, <1>5, <1>6, <2>2
  <2> QED BY <2>1, <2>2
<1>9. InProgress' = InProgress
  <2>1. InProgress = {stack[i].module : i \in 2 .. n}
    BY DEF InProgress, n
  <2>2. InProgress' = {stack'[i].module : i \in 2 .. n}
    BY <1>2 DEF InProgress
  <2>3. \A i \in 2 .. n : i \in 1 .. n
    BY <1>2
  <2> QED BY <1>3, <2>1, <2>2, <2>3
<1>10. OnlyNeeded' /\ ListedInOrder' /\ Registered'
  BY <1>1, <1>4, <1>9 DEF OnlyNeeded, ListedInOrder, Registered
<1>11. resolution' = "running"
  BY <1>4 DEF SkipSeen, Calling
<1> QED BY <1>7, <1>8, <1>10, <1>11 DEF OrderInv

(* A call that enters a module.                                            *)
LEMMA EnterDepsStep ==
  ASSUME OrderTypeOK, OrderInv, EnterDeps
  PROVE  OrderInv'
<1>1. /\ Registered /\ IsCallStack /\ CallsReturn /\ OnlyNeeded /\ ListedInOrder
      /\ Len(stack) > 0 /\ Calling
  BY DEF EnterDeps, Calling, OrderInv, IsCallStack
<1> DEFINE n == Len(stack)
<1>2. /\ stack' \in Seq(FrameType) /\ Len(stack') = n + 1
      /\ DOMAIN stack' = 1 .. n + 1 /\ DOMAIN stack = 1 .. n
      /\ n \in 1 .. n /\ n \in Nat
  <2>1. n \in Nat /\ n > 0 /\ DOMAIN stack = 1 .. n
    BY <1>1, StackType
  <2>2. stack' \in Seq(FrameType) /\ Len(stack') = n + 1
    BY <1>1, EnterDepsIs
  <2> QED BY <2>1, <2>2
<1>3. \A i \in 1 .. n : /\ stack'[i].module = stack[i].module
                        /\ stack'[i].calls = stack[i].calls
                        /\ stack'[i].made = IF i = n THEN stack[i].made + 1 ELSE stack[i].made
  BY <1>1, EnterDepsIs
<1>4. /\ stack'[n + 1].module = Called
      /\ stack'[n + 1].calls = DependenciesOf(graph, Called)
      /\ stack'[n + 1].made = 0
  BY <1>1, EnterDepsIs
<1>5. /\ UNCHANGED <<graph, requested, ordered, resolution>>
      /\ Called \notin Seen /\ Called \notin InProgress
      /\ Seen' = Seen /\ Need' = Need
  BY DEF EnterDeps, Seen, Need
<1>6. /\ Called \in ToSet(stack[n].calls)
      /\ stack[n].made + 1 \in 1 .. Len(stack[n].calls)
      /\ Called = stack[n].calls[stack[n].made + 1]
  BY <1>1, CalledType
<1>7. \A i \in 1 .. n : stack[i].made \in Nat
  BY StackType
<1>8. Called \in Need
  BY <1>1, CalledIsNeeded
<1>9. \A i \in 1 .. n : i > 1 => stack[i].module # Called
  BY <1>5 DEF InProgress, n
<1>10. Len(DependenciesOf(graph, Called)) \in Nat
  BY DepsType
<1> HIDE DEF n
<1>11. IsCallStack'
  <2>1. Len(stack') > 0 /\ stack'[1].calls = requested'
    BY <1>1, <1>2, <1>3, <1>5 DEF IsCallStack
  <2>2. \A i \in 1 .. n + 1 : stack'[i].made <= Len(stack'[i].calls)
    <3> TAKE i \in 1 .. n + 1
    <3>1. CASE i \in 1 .. n
      BY <1>1, <1>2, <1>3, <1>6, <3>1 DEF IsCallStack
    <3>2. CASE i = n + 1
      BY <1>4, <1>10, <3>2
    <3> QED BY <1>2, <3>1, <3>2
  <2>3. ASSUME NEW i \in 1 .. n + 1, i > 1
        PROVE  /\ stack'[i].calls = DependenciesOf(graph', stack'[i].module)
               /\ stack'[i].module \in ToSet(stack'[i - 1].calls)
               /\ stack'[i].module \notin Seen'
    <3>1. CASE i \in 1 .. n
      <4>1. i - 1 \in 1 .. n
        BY <1>2, <2>3, <3>1
      <4> QED BY <1>1, <1>2, <1>3, <1>5, <2>3, <3>1, <4>1 DEF IsCallStack
    <3>2. CASE i = n + 1
      BY <1>2, <1>3, <1>4, <1>5, <1>6, <3>2
    <3> QED BY <1>2, <3>1, <3>2
  <2>4. ASSUME NEW i \in 1 .. n + 1, NEW j \in 1 .. n + 1, i > 1, j > 1,
               stack'[i].module = stack'[j].module
        PROVE  i = j
    <3>1. CASE i \in 1 .. n /\ j \in 1 .. n
      BY <1>1, <1>2, <1>3, <2>4, <3>1 DEF IsCallStack
    <3>2. CASE i = n + 1 \/ j = n + 1
      BY <1>2, <1>3, <1>4, <1>9, <2>4, <3>2
    <3> QED BY <1>2, <3>1, <3>2
  <2> QED BY <1>2, <2>1, <2>2, <2>3, <2>4 DEF IsCallStack
<1>12. CallsReturn'
  <2> SUFFICES ASSUME NEW i \in 1 .. n + 1, NEW k \in 1 .. stack'[i].made
               PROVE  \/ stack'[i].calls[k] \in Seen
                      \/ i < n + 1 /\ stack'[i].calls[k] = stack'[i + 1].module
    BY <1>2, <1>5 DEF CallsReturn
  <2>1. CASE i = n + 1
    BY <1>4, <2>1
  <2>2. CASE i \in 1 .. n /\ k \in 1 .. stack[i].made
    <3>1. \/ stack[i].calls[k] \in Seen
          \/ i < n /\ stack[i].calls[k] = stack[i + 1].module
      BY <1>1, <1>2, <2>2 DEF CallsReturn, n
    <3>2. i < n => i + 1 \in 1 .. n
      BY <1>2, <2>2
    <3> QED BY <1>2, <1>3, <2>2, <3>1, <3>2
  <2>3. CASE i \in 1 .. n /\ k \notin 1 .. stack[i].made
    <3>1. i = n /\ k = stack[n].made + 1
      BY <1>3, <1>7, <2>3
    <3> QED BY <1>2, <1>3, <1>4, <1>6, <3>1
  <2> QED BY <1>2, <2>1, <2>2, <2>3
<1>13. InProgress' \subseteq InProgress \cup {Called}
  <2>1. InProgress = {stack[i].module : i \in 2 .. n}
    BY DEF InProgress, n
  <2>2. InProgress' = {stack'[i].module : i \in 2 .. n + 1}
    BY <1>2 DEF InProgress
  <2>3. \A i \in 2 .. n + 1 : i = n + 1 \/ (i \in 2 .. n /\ i \in 1 .. n)
    BY <1>2
  <2> QED BY <1>3, <1>4, <2>1, <2>2, <2>3
<1>14. OnlyNeeded' /\ ListedInOrder' /\ Registered'
  BY <1>1, <1>5, <1>8, <1>13 DEF OnlyNeeded, ListedInOrder, Registered
<1>15. resolution' = "running"
  BY <1>5 DEF EnterDeps, Calling
<1> QED BY <1>11, <1>12, <1>14, <1>15 DEF OrderInv

(* A call that ends: its module follows all that it depends on.            *)
LEMMA ListModuleStep ==
  ASSUME OrderTypeOK, OrderInv, ListModule
  PROVE  OrderInv'
<1>1. /\ Registered /\ IsCallStack /\ CallsReturn /\ OnlyNeeded /\ ListedInOrder
      /\ Len(stack) > 1
  BY DEF ListModule, LoopIsOver, OrderInv
<1> DEFINE n == Len(stack)
           m == stack[n].module
           c == Len(ordered)
<1>2. n \in Nat /\ n \in 1 .. n /\ n - 1 \in 1 .. n /\ DOMAIN stack = 1 .. n
  BY <1>1, StackType
<1>3. /\ m \notin Seen /\ m \in ToSet(stack[n - 1].calls)
      /\ stack[n].calls = DependenciesOf(graph, m)
      /\ stack[n].made = Len(stack[n].calls)
  BY <1>1, <1>2 DEF IsCallStack, ListModule, LoopIsOver, Last
<1>4. m \in Module
  <2>1. stack[n - 1].calls \in Seq(Module)
    BY <1>2, StackType
  <2> HIDE DEF m
  <2> QED BY <1>3, <2>1, SeqOfModules
<1>5. /\ Len(stack') = n - 1 /\ DOMAIN stack' = 1 .. n - 1
      /\ \A i \in 1 .. n - 1 : stack'[i] = stack[i]
  <2>1. stack' = Front(stack)
    BY DEF ListModule
  <2> QED BY <1>1, <2>1, FrontIs
<1>6. /\ UNCHANGED <<graph, requested, resolution>>
      /\ ordered' = List(m)
      /\ Need' = Need
  BY DEF ListModule, Need, Last
<1>7. c \in Nat /\ DOMAIN ordered = 1 .. c
  BY DEF OrderTypeOK
<1> HIDE DEF m
<1>8. /\ DOMAIN ordered' = 1 .. c + 1
      /\ \A i \in 1 .. c : ordered'[i] = ordered[i]
      /\ ordered'[c + 1] = m
      /\ Seen' = Seen \cup {m}
  <2>1. List(m) \in Seq(Module) /\ Len(List(m)) = c + 1
    BY <1>3, <1>4, ListIs
  <2> QED BY <1>3, <1>4, <1>6, <2>1, ListIs DEF Seen
<1>9. ToSet(DependenciesOf(graph, m)) \subseteq Seen
  <2>1. stack[n].calls \in Seq(Module)
    BY <1>2, StackType
  <2>2. ASSUME NEW x \in ToSet(stack[n].calls) PROVE x \in Seen
    <3>1. PICK k \in 1 .. Len(stack[n].calls) : stack[n].calls[k] = x
      BY <2>1, SeqOfModules
    <3>2. k \in 1 .. stack[n].made
      BY <1>3, <3>1
    <3> QED BY <1>1, <1>2, <3>1, <3>2 DEF CallsReturn, n
  <2> QED BY <1>3, <2>2
<1>10. Seen = {ordered[j] : j \in 1 .. c}
  BY <1>7 DEF Seen, ToSet
<1> HIDE DEF n, c
<1>11. IsCallStack'
  <2>1. Len(stack') > 0 /\ stack'[1].calls = requested'
    BY <1>1, <1>2, <1>5, <1>6 DEF IsCallStack, n
  <2>2. \A i \in 1 .. n - 1 : i \in 1 .. n
    BY <1>2
  <2>3. \A i \in 1 .. n - 1 : stack'[i].made <= Len(stack'[i].calls)
    BY <1>1, <1>2, <1>5, <2>2 DEF IsCallStack
  <2>4. ASSUME NEW i \in 1 .. n - 1, i > 1
        PROVE  /\ stack'[i].calls = DependenciesOf(graph', stack'[i].module)
               /\ stack'[i].module \in ToSet(stack'[i - 1].calls)
               /\ stack'[i].module \notin Seen'
    <3>1. i \in 1 .. n /\ i - 1 \in 1 .. n - 1 /\ i # n
      BY <1>2, <2>4
    <3>2. stack[i].module # m
      BY <1>1, <1>2, <2>4, <3>1 DEF IsCallStack, m
    <3> QED BY <1>1, <1>2, <1>5, <1>6, <1>8, <2>4, <3>1, <3>2 DEF IsCallStack
  <2>5. \A i, j \in 1 .. n - 1 :
           i > 1 /\ j > 1 /\ stack'[i].module = stack'[j].module => i = j
    BY <1>1, <1>2, <1>5, <2>2 DEF IsCallStack
  <2> QED BY <1>5, <2>1, <2>3, <2>4, <2>5 DEF IsCallStack
<1>12. CallsReturn'
  <2> SUFFICES ASSUME NEW i \in 1 .. n - 1, NEW k \in 1 .. stack[i].made
               PROVE  \/ stack[i].calls[k] \in Seen'
                      \/ i < n - 1 /\ stack[i].calls[k] = stack'[i + 1].module
    BY <1>5 DEF CallsReturn
  <2>1. i \in 1 .. n
    BY <1>2
  <2>2. \/ stack[i].calls[k] \in Seen
        \/ i < n /\ stack[i].calls[k] = stack[i + 1].module
    BY <1>1, <1>2, <2>1 DEF CallsReturn, n
  <2>3. i = n - 1 \/ (i < n - 1 /\ i + 1 \in 1 .. n - 1)
    BY <1>2
  <2> QED BY <1>2, <1>5, <1>8, <2>2, <2>3 DEF m
<1>13. InProgress' \subseteq InProgress /\ m \in InProgress
  <2>1. InProgress = {stack[i].module : i \in 2 .. n}
    BY DEF InProgress, n
  <2>2. InProgress' = {stack'[i].module : i \in 2 .. n - 1}
    BY <1>5 DEF InProgress
  <2>3. \A i \in 2 .. n - 1 : i \in 2 .. n /\ i \in 1 .. n - 1
    BY <1>2
  <2>4. n \in 2 .. n
    BY <1>1, <1>2 DEF n
  <2> QED BY <1>5, <2>1, <2>2, <2>3, <2>4 DEF m
<1>14. OnlyNeeded' /\ Registered'
  BY <1>1, <1>6, <1>8, <1>13 DEF OnlyNeeded, Registered
<1>15. ListedInOrder'
  <2>1. \A i \in 1 .. c : ordered[i] # m
    BY <1>3, <1>10
  <2>2. \A i, j \in 1 .. c + 1 : ordered'[i] = ordered'[j] => i = j
    BY <1>1, <1>7, <1>8, <2>1 DEF ListedInOrder
  <2>3. ASSUME NEW i \in 1 .. c + 1
        PROVE  ToSet(DependenciesOf(graph, ordered'[i])) \subseteq {ordered'[j] : j \in 1 .. i - 1}
    <3>1. \A j \in 1 .. i - 1 : j \in 1 .. c
      BY <1>7
    <3>2. {ordered'[j] : j \in 1 .. i - 1} = {ordered[j] : j \in 1 .. i - 1}
      BY <1>8, <3>1
    <3>3. CASE i \in 1 .. c
      BY <1>1, <1>7, <1>8, <3>2, <3>3 DEF ListedInOrder
    <3>4. CASE i = c + 1
      BY <1>7, <1>8, <1>9, <1>10, <3>2, <3>4
    <3> QED BY <1>7, <3>3, <3>4
  <2> QED BY <1>6, <1>8, <2>2, <2>3 DEF ListedInOrder
<1>16. resolution' = "running"
  BY <1>6 DEF ListModule, LoopIsOver
<1> QED BY <1>11, <1>12, <1>14, <1>15, <1>16 DEF OrderInv

(* A call that finds its module waiting for it: the stack from that module *)
(* on is a path back to it.                                                *)
LEMMA RefuseCircleStep ==
  ASSUME OrderTypeOK, OrderInv, RefuseCircle
  PROVE  OrderInv'
<1>1. Registered /\ IsCallStack /\ OnlyNeeded /\ Len(stack) > 0 /\ Calling
  BY DEF RefuseCircle, Calling, OrderInv, IsCallStack
<1> DEFINE n == Len(stack)
           N == Needed(graph, ToSet(DependenciesOf(graph, Called)))
<1>2. n \in Nat /\ DOMAIN stack = 1 .. n /\ n \in 1 .. n
  BY <1>1, StackType
<1>3. PICK s \in 2 .. n : stack[s].module = Called
  BY DEF RefuseCircle, InProgress
<1>4. HasDeps(graph, N) /\ ToSet(DependenciesOf(graph, Called)) \subseteq N
  BY NeededHasDeps, NeededIsLeast DEF OrderTypeOK
<1> HIDE DEF N
<1> DEFINE Bad == {i \in s .. n : ~(ToSet(stack[i].calls) \subseteq N)}
<1>5. ToSet(stack[s].calls) \subseteq N
  BY <1>1, <1>2, <1>3, <1>4 DEF IsCallStack
<1>6. ASSUME NEW i \in s + 1 .. n, ToSet(stack[i - 1].calls) \subseteq N
      PROVE  ToSet(stack[i].calls) \subseteq N
  <2>1. i \in DOMAIN stack /\ i > 1
    BY <1>2, <1>3
  <2>2. stack[i].module \in N
    BY <1>1, <1>6, <2>1 DEF IsCallStack
  <2>3. stack[i].calls = DependenciesOf(graph, stack[i].module)
    BY <1>1, <2>1 DEF IsCallStack
  <2> QED BY <1>4, <2>2, <2>3 DEF HasDeps
<1>7. Bad = {}
  <2> SUFFICES ASSUME Bad # {} PROVE FALSE
    OBVIOUS
  <2>0. Bad \in SUBSET Nat /\ \A i : i \in Bad <=> i \in s .. n /\ ~(ToSet(stack[i].calls) \subseteq N)
    BY <1>2, <1>3
  <2> HIDE DEF Bad
  <2>1. PICK i \in Bad : \A y \in Bad : i <= y
    BY <2>0, LeastNumber
  <2>2. i \in s + 1 .. n /\ i - 1 \in s .. n /\ i - 1 \notin Bad
    BY <1>2, <1>3, <1>5, <2>0, <2>1
  <2> QED BY <1>6, <2>0, <2>1, <2>2
<1>8. Called \in ToSet(stack[n].calls)
  BY <1>1, CalledType
<1>9. Called \in N
  <2>1. n \in s .. n
    BY <1>2, <1>3
  <2> HIDE DEF n
  <2> QED BY <1>7, <1>8, <2>1
<1>10. Called \in Need
  BY <1>1, CalledIsNeeded DEF RefuseCircle
<1>11. Circular(graph, ToSet(requested))
  BY <1>9, <1>10 DEF Circular, Need, N
<1>12. UNCHANGED <<graph, requested>> /\ resolution' = "circular"
  BY DEF RefuseCircle
<1> QED BY <1>1, <1>11, <1>12 DEF OrderInv, Registered

(* The loop over the requested modules ends.                               *)
LEMMA ReturnOrderStep ==
  ASSUME OrderTypeOK, OrderInv, ReturnOrder
  PROVE  OrderInv'
<1>1. UNCHANGED <<graph, requested, stack, ordered>> /\ resolution = "running"
      /\ resolution' = "ordered"
      /\ Len(stack) = 1 /\ Last(stack).made = Len(Last(stack).calls)
  BY DEF ReturnOrder, LoopIsOver
<1>2. Registered /\ IsCallStack /\ CallsReturn /\ OnlyNeeded /\ ListedInOrder
  BY <1>1 DEF OrderInv
<1>3. (Registered /\ IsCallStack /\ CallsReturn /\ OnlyNeeded /\ ListedInOrder)'
  BY <1>1, <1>2 DEF Registered, IsCallStack, CallsReturn, OnlyNeeded, ListedInOrder, Seen,
                    InProgress, Need
<1> QED BY <1>1, <1>3 DEF OrderInv, Last

(* Every step keeps the invariant.                                         *)
LEMMA OrderInvStep ==
  ASSUME OrderTypeOK, OrderInv, [OrderNext]_orderVars PROVE OrderInv'
<1>1. CASE RefuseUnknown
  BY <1>1 DEF RefuseUnknown, OrderInv, Registered
<1>2. CASE UNCHANGED orderVars
  BY <1>2 DEF orderVars, OrderInv, Registered, IsCallStack, CallsReturn, OnlyNeeded,
              ListedInOrder, Seen, InProgress, Need, Last
<1> QED BY <1>1, <1>2, StartLoopStep, SkipSeenStep, RefuseCircleStep, EnterDepsStep,
           ListModuleStep, ReturnOrderStep DEF OrderNext, AddWithDeps

-----------------------------------------------------------------------------
(* An order that has what was asked for, and of every module what it       *)
(* depends on before it, has all that is needed, and none of it is         *)
(* circular.                                                               *)
LEMMA OrderedIsDone ==
  ASSUME OrderTypeOK, OrderInv, resolution = "ordered"
  PROVE  /\ ~Circular(graph, ToSet(requested))
         /\ IsModuleOrder(graph, ToSet(requested), ordered)
<1>1. /\ Registered /\ IsCallStack /\ CallsReturn /\ OnlyNeeded /\ ListedInOrder
      /\ Len(stack) = 1 /\ stack[1].made = Len(stack[1].calls)
  BY DEF OrderInv, Last
<1> DEFINE c == Len(ordered)
           Upto(i) == {ordered[j] : j \in 1 .. i}
<1>2. c \in Nat /\ DOMAIN ordered = 1 .. c /\ DOMAIN stack = {1}
  BY <1>1, StackType DEF OrderTypeOK
<1>3. Seen = Upto(c)
  BY <1>2 DEF Seen, ToSet
<1> HIDE DEF c
<1>4. ASSUME NEW i \in 0 .. c PROVE HasDeps(graph, Upto(i))
  <2> SUFFICES ASSUME NEW k \in 1 .. i
               PROVE  ToSet(DependenciesOf(graph, ordered[k])) \subseteq Upto(i)
    BY DEF HasDeps
  <2>1. k \in 1 .. c /\ Upto(k - 1) \subseteq Upto(i)
    BY <1>2
  <2> QED BY <1>1, <1>2, <2>1 DEF ListedInOrder
<1>5. ToSet(requested) \subseteq Seen
  <2>1. requested \in Seq(Module) /\ stack[1].calls = requested
    BY <1>1 DEF OrderTypeOK, IsCallStack
  <2>2. ASSUME NEW k \in 1 .. Len(requested) PROVE requested[k] \in Seen
    BY <1>1, <1>2, <2>1 DEF CallsReturn
  <2> QED BY <2>1, <2>2, SeqOfModules
<1>6. Need \subseteq Seen
  <2>1. HasDeps(graph, Seen)
    BY <1>2, <1>3, <1>4
  <2> QED BY <1>5, <2>1, NeededIsLeast DEF Need, OrderTypeOK
<1>7. Seen = Need
  BY <1>1, <1>6 DEF OnlyNeeded
<1>8. IsModuleOrder(graph, ToSet(requested), ordered)
  BY <1>1, <1>7 DEF IsModuleOrder, ListedInOrder, Seen, Need
<1>9. ASSUME NEW m \in Need, m \in Needed(graph, ToSet(DependenciesOf(graph, m)))
      PROVE  FALSE
  <2>1. PICK i \in 1 .. c : ordered[i] = m
    BY <1>3, <1>7
  <2>2. ToSet(DependenciesOf(graph, m)) \subseteq Upto(i - 1) /\ i - 1 \in 0 .. c
    BY <1>1, <1>2, <2>1 DEF ListedInOrder
  <2>3. Needed(graph, ToSet(DependenciesOf(graph, m))) \subseteq Upto(i - 1)
    <3>1. HasDeps(graph, Upto(i - 1))
      BY <1>4, <2>2
    <3> HIDE DEF Upto
    <3> QED BY <2>2, <3>1, NeededIsLeast DEF OrderTypeOK
  <2>4. PICK j \in 1 .. i - 1 : ordered[j] = m
    BY <1>9, <2>3
  <2>5. j \in 1 .. c /\ j # i
    BY <1>2, <2>1, <2>4
  <2> QED BY <1>1, <1>2, <2>1, <2>4, <2>5 DEF ListedInOrder
<1> QED BY <1>8, <1>9 DEF Circular, Need

(* How far from the sources the modules of the registry are.               *)
Level ==
  [env_constraint |-> 0, core |-> 1, displacement_risk |-> 2, water_demand |-> 2,
   energy_demand |-> 2, land_consumption |-> 2, fiscal |-> 2, agriculture |-> 2,
   trip_generation |-> 2, trip_distribution |-> 3, mode_choice |-> 3, vmt |-> 4,
   transport_ghg |-> 5, internal_capture |-> 4, physical_activity |-> 4,
   building_water_ghg |-> 3, total_ghg |-> 6, health_impacts |-> 6,
   stormwater_runoff |-> 3, food_access |-> 2, acs_equity |-> 0,
   housing_cost_burden |-> 2, sprawl_index |-> 2, tree_canopy |-> 2, vmt_fee |-> 5,
   displacement_risk_dynamic |-> 3, scenario_summary |-> 7, sprawl_cost |-> 3]

(* A dependency of the registry is a lower module of it.                   *)
LEMMA RegistryDescends ==
  \A m \in DOMAIN ModuleDependencies : \A d \in ToSet(ModuleDependencies[m]) :
    d \in DOMAIN ModuleDependencies /\ Level[d] < Level[m]
BY SMTT(40) DEF ModuleDependencies, Level, ToSet

(* A level is a number.                                                    *)
LEMMA LevelIsNat == \A m \in DOMAIN ModuleDependencies : Level[m] \in Nat
BY DEF ModuleDependencies, Level

(* The registry has no circle.                                             *)
LEMMA RegistryIsNotCircular ==
  ASSUME IsFiniteSet(DOMAIN ModuleDependencies), NEW S
  PROVE  ~Circular(ModuleDependencies, S)
<1> DEFINE g == ModuleDependencies
<1> SUFFICES ASSUME NEW m, m \in Needed(g, ToSet(DependenciesOf(g, m))) PROVE FALSE
  BY DEF Circular
<1>1. CASE m \in DOMAIN g
  <2> DEFINE T == {x \in DOMAIN g : Level[x] < Level[m]}
  <2>1. ToSet(DependenciesOf(g, m)) \subseteq T
    BY <1>1, RegistryDescends DEF DependenciesOf
  <2>2. HasDeps(g, T)
    BY <1>1, RegistryDescends, LevelIsNat DEF DependenciesOf, HasDeps
  <2>3. m \notin T
    BY <1>1, LevelIsNat
  <2> HIDE DEF T, g
  <2> QED BY <2>1, <2>2, <2>3, NeededIsLeast DEF g
<1>2. CASE m \notin DOMAIN g
  <2>1. ToSet(DependenciesOf(g, m)) \subseteq {} /\ HasDeps(g, {})
    BY <1>2, OnlyRegisteredDepend DEF HasDeps
  <2> HIDE DEF g
  <2> QED BY <2>1, NeededIsLeast DEF g
<1> QED BY <1>1, <1>2

(* The types of the search hold, and its invariant.                        *)
THEOREM OrderIsInvariant == OrderSpec => [](OrderTypeOK /\ OrderInv)
<1>1. OrderInit => OrderTypeOK /\ OrderInv
  BY OrderAssumption DEF OrderInit, OrderTypeOK, OrderInv
<1>2. OrderTypeOK /\ OrderInv /\ [OrderNext]_orderVars => OrderTypeOK' /\ OrderInv'
  BY OrderTypeStep, OrderInvStep
<1> QED BY <1>1, <1>2, PTL DEF OrderSpec

(* For every finite graph and every sequence of requested modules: the     *)
(* search lists all that is needed, once and after what it depends on, and *)
(* is refused exactly for an unknown module or a circle.                   *)
THEOREM DependenciesAlwaysFirst == OrderSpec => []DependenciesRunFirst
<1>1. ASSUME OrderTypeOK, OrderInv PROVE DependenciesRunFirst
  <2>1. resolution = "circular" => graph # ModuleDependencies
    BY <1>1, RegistryIsNotCircular DEF OrderInv, OrderTypeOK
  <2> QED BY <1>1, <2>1, OrderedIsDone DEF OrderInv, DependenciesRunFirst
<1> QED BY <1>1, OrderIsInvariant, PTL
=============================================================================
