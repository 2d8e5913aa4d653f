---------------------------- MODULE PaintRunProofs ---------------------------
(***************************************************************************)
(* What holds of PaintRun for every number of paints and worker processes  *)
(* and whatever goes wrong: its types, that tasks find their runs, and     *)
(* that the page is told the truth.                                        *)
(***************************************************************************)
EXTENDS PaintRun, TLAPS

-----------------------------------------------------------------------------
\* A paint is posted once; its row comes with the commit, its message after.
Posted ==
  \A r \in Run :
    /\ page[r] = "none" => request[r] = "none"
    /\ request[r] \in {"none", "created"} => row[r] = "none"
    /\ request[r] \in {"none", "created", "committed"} => r \notin queue /\ worker[r] = "none"
    /\ request[r] \notin {"none", "created"} => row[r] # "none"

\* A message is taken once.
TakenOnce == \A r \in queue : worker[r] = "none"

\* What is painted is what the runner did, and the status says which.
Outcome ==
  \A r \in Run :
    /\ worker[r] = "ok" => r \in painted
    /\ worker[r] \in {"none", "fetched", "running", "error"} => r \notin painted
    /\ row[r] \in Answer => worker[r] \in {"saved", "gone"}
    /\ row[r] = "completed" => r \in painted
    /\ row[r] = "failed" => r \notin painted

\* The page repeats what the row says.
Told == \A r \in Run : page[r] \in Answer => page[r] = row[r]

IInv == TypeOK /\ Posted /\ TakenOnce /\ Outcome /\ Told

-----------------------------------------------------------------------------
(* Looks are numbers within their bound.                                   *)
LEMMA LookType ==
  /\ 0 \in 0 .. MaxLooks /\ 1 \in 0 .. MaxLooks
  /\ \A n \in 0 .. MaxLooks : Look(n) \in 0 .. MaxLooks /\ (n > 0 => n - 1 \in 0 .. MaxLooks)
BY DEF Look, MaxLooks

(* The initial state satisfies the invariant.                              *)
LEMMA InitInv == Init => IInv
BY LookType DEF Init, IInv, TypeOK, Posted, TakenOnce, Outcome, Told, Answer

(* Every step keeps it.                                                    *)
LEMMA StepInv == IInv /\ [Next]_vars => IInv'
<1> SUFFICES ASSUME IInv, [Next]_vars PROVE IInv'
    OBVIOUS
<1> USE DEF IInv, TypeOK, Posted, TakenOnce, Outcome, Told, Answer
<1>1. ASSUME NEW r \in Run, Post(r) PROVE IInv'
    BY <1>1 DEF Post
<1>2. ASSUME NEW r \in Run, Serving(r) PROVE IInv'
    <2>1. CASE Commit(r)
        BY <2>1 DEF Commit, client
    <2>2. CASE Dispatch(r)
        BY <2>2 DEF Dispatch, client
    <2>3. CASE DispatchFails(r)
        BY <2>3 DEF DispatchFails
    <2>4. CASE Respond(r)
        BY <2>4, LookType DEF Respond
    <2> QED BY <1>2, <2>1, <2>2, <2>3, <2>4 DEF Serving
<1>3. ASSUME NEW r \in Run, Take(r) PROVE IInv'
    BY <1>3 DEF Take, Step, client
<1>4. ASSUME NEW r \in Run, Executing(r) PROVE IInv'
    <2>1. CASE Start(r)
        BY <2>1 DEF Start, Step, client
    <2>2. CASE Work(r)
        BY <2>2 DEF Work, Step, client
    <2>3. CASE Refuse(r)
        BY <2>3 DEF Refuse, Step, client
    <2>4. CASE Save(r)
        BY <2>4 DEF Save, Step, client
    <2>5. CASE Publish(r)
        BY <2>5 DEF Publish, Step
    <2>6. CASE PublishFails(r)
        BY <2>6 DEF PublishFails, Step, client
    <2> QED BY <1>4, <2>1, <2>2, <2>3, <2>4, <2>5, <2>6 DEF Executing
<1>5. ASSUME NEW r \in Run, Kill(r) PROVE IInv'
    BY <1>5 DEF Kill, Busy, Step, client
<1>6. ASSUME NEW r \in Run, Looking(r) PROVE IInv'
    <2>1. CASE LookAnswered(r)
        BY <2>1, LookType DEF LookAnswered, Waiting, server
    <2>2. CASE LookFails(r)
        BY <2>2, LookType DEF LookFails, Waiting, server
    <2> QED BY <1>6, <2>1, <2>2 DEF Looking
<1>7. ASSUME NEW r \in Run, Receive(r) PROVE IInv'
    BY <1>7, LookType DEF Receive, server
<1>8. CASE Open
    BY <1>8, LookType DEF Open, server
<1>9. CASE Drop
    BY <1>9 DEF Drop, server
<1>10. CASE UNCHANGED vars
    BY <1>10 DEF vars
<1> QED BY <1>1, <1>2, <1>3, <1>4, <1>5, <1>6, <1>7, <1>8, <1>9, <1>10 DEF Next

(* It holds in every reachable state.                                      *)
LEMMA Invariant == Spec => []IInv
BY InitInv, StepInv, PTL DEF Spec

-----------------------------------------------------------------------------
(* Requests, runs, tasks and the page keep their types.                    *)
THEOREM TypeCorrect == Spec => []TypeOK
<1>1. IInv => TypeOK
    BY DEF IInv
<1> QED BY Invariant, <1>1, PTL

(* No task waits for a run that is not committed yet (_enqueue,            *)
(* views/paint.py:957): the message is only sent by the commit's hook.     *)
THEOREM TasksFindTheirRuns == Spec => []EveryTaskFindsItsRun
<1>1. IInv => EveryTaskFindsItsRun
    BY DEF IInv, TypeOK, Posted, EveryTaskFindsItsRun
<1> QED BY Invariant, <1>1, PTL

(* "completed" means painted and "failed" means nothing was painted, with  *)
(* any number of worker processes, killed or not, of refused messages,     *)
(* events and looks (tasks.py run_paint_operation).                        *)
THEOREM TheAnswerIsTrue == Spec => []AnswerIsTrue
<1>1. IInv => AnswerIsTrue
    BY DEF IInv, Outcome, Told, AnswerIsTrue, Answer
<1> QED BY Invariant, <1>1, PTL
=============================================================================
