---------------------------- MODULE ImportsProofs ---------------------------
(***************************************************************************)
(* What holds of Imports for every set of requests and workers and any     *)
(* number of runs and lost tasks: its types; that a layer without a         *)
(* symbology is its unfinished creator's; and that layers keep the rows     *)
(* they were registered for where no other request's fetch took their       *)
(* table or their models.                                                  *)
(***************************************************************************)
EXTENDS Imports, TLAPS

-----------------------------------------------------------------------------
Busy(w) == at[w] # Idle

\* The steps an import of each kind goes through.
StepsOf(q) ==
    {s \in Steps : /\ s \in {"plan", "clone"} => Kind[q] = "fetch"
                   /\ s = "extract" => Kind[q] = "raster"
                   /\ s = "change" => Kind[q] = "edit"
                   /\ s \in {"register", "style"} => Kind[q] # "edit"}

\* A run that was not asked for has no row and no task.
Asked == \A r \in Run : request[r] = Nothing => row[r] = "none" /\ r \notin queue

\* A worker executes a running run, at a step of its request's kind, ...
Executing ==
    \A w \in Worker : Busy(w) =>
        /\ row[RunOf(w)] = "running"
        /\ at[w][2] \in StepsOf(RequestOf(w))

\* ... alone, ...
Alone == \A v, w \in Worker : Busy(v) /\ Busy(w) /\ RunOf(v) = RunOf(w) => v = w

\* ... copies what a plan built, ...
Planned == \A w \in Worker : Does(w, "clone") => model[ModelOf[RequestOf(w)]] \in Request

\* ... and styles a layer that is there.
Created == \A w \in Worker : Does(w, "style") => RequestOf(w) \in layers

\* A page follows a committed run.
Followed == \A r \in Run : shown[r] # "none" => row[r] \in Live \union Final

IInv ==
    /\ TypeOK /\ Asked /\ Followed
    /\ Executing /\ Alone /\ Planned /\ Created /\ UnstyledIsUnfinished

-----------------------------------------------------------------------------
(* A step is a pair, never the idle worker's empty tuple.                  *)
LEMMA StepIsNotIdle == \A r \in Run, s \in Steps : <<r, s>> # Idle
BY DEF Idle

(* What a busy worker is at.                                               *)
LEMMA BusyType ==
  ASSUME TypeOK, Asked, Executing, NEW w \in Worker, Busy(w)
  PROVE  /\ RunOf(w) \in Run /\ at[w][2] \in Steps /\ at[w] = <<RunOf(w), at[w][2]>>
         /\ row[RunOf(w)] = "running"
         /\ RequestOf(w) \in Request
<1>1. at[w] \in Run \X Steps
    BY DEF TypeOK, Busy
<1>2. RunOf(w) \in Run /\ at[w][2] \in Steps /\ at[w] = <<RunOf(w), at[w][2]>>
    BY <1>1 DEF RunOf
<1>3. row[RunOf(w)] = "running"
    BY DEF Executing
<1>4. request[RunOf(w)] # Nothing
    BY <1>2, <1>3 DEF Asked
<1> QED BY <1>2, <1>3, <1>4 DEF TypeOK, RequestOf

(* The first step of a task is one of its kind's.                          *)
LEMMA FirstStepType ==
  ASSUME NEW q \in Request
  PROVE  /\ FirstStep(q) \in Steps /\ FirstStep(q) \in StepsOf(q)
         /\ FirstStep(q) \notin {"clone", "register", "style"}
<1>1. CASE Kind[q] = "fetch"
    <2>1. FirstStep(q) = "plan"
        BY <1>1 DEF FirstStep
    <2> QED BY <1>1, <2>1 DEF StepsOf, Steps
<1>2. CASE Kind[q] = "raster"
    <2>1. FirstStep(q) = "extract"
        BY <1>2 DEF FirstStep
    <2> QED BY <1>2, <2>1 DEF StepsOf, Steps
<1>3. CASE Kind[q] = "edit"
    <2>1. FirstStep(q) = "change"
        BY <1>3 DEF FirstStep
    <2> QED BY <1>3, <2>1 DEF StepsOf, Steps
<1> QED BY <1>1, <1>2, <1>3, ImportsAssumption

(* The initial state satisfies the invariant.                              *)
LEMMA InitInv == Init => IInv
<1> SUFFICES ASSUME Init PROVE IInv
    OBVIOUS
<1>0. MaxLost \in Nat
    BY ImportsAssumption
<1>m. 0 \in 0 .. MaxRuns
    BY ImportsAssumption
<1>1. TypeOK
    BY <1>0, <1>m DEF Init, TypeOK, Live, Final
<1>2. Asked /\ Followed /\ Executing /\ Alone /\ Planned /\ Created /\ UnstyledIsUnfinished
    BY DEF Init, Asked, Followed, Executing, Alone, Planned, Created, UnstyledIsUnfinished, Busy, Does
<1> QED BY <1>1, <1>2 DEF IInv

-----------------------------------------------------------------------------
(* Types.                                                                  *)
LEMMA TypeStep == IInv /\ [Next]_vars => TypeOK'
<1> SUFFICES ASSUME IInv, [Next]_vars PROVE TypeOK'
    OBVIOUS
<1>t. TypeOK /\ Asked /\ Followed /\ Executing /\ Planned /\ Created
    BY DEF IInv
<1> HIDE DEF IInv
<1>l. MaxLost \in Nat /\ lost \in 0 .. MaxLost
    BY <1>t, ImportsAssumption DEF TypeOK
<1>1. ASSUME NEW r \in Run, NEW q \in Request, Submit(r, q) \/ Call(r, q) PROVE TypeOK'
    BY <1>t, <1>1 DEF TypeOK, Submit, Call, data, Live
<1>2. ASSUME NEW r \in Run, Commit(r) \/ Rollback(r) \/ Poll(r) PROVE TypeOK'
    <2>1. CASE Commit(r)
        BY <1>t, <2>1 DEF TypeOK, Commit, data, Live
    <2>2. CASE Rollback(r)
        BY <1>t, <2>2 DEF TypeOK, Rollback, data
    <2>3. CASE Poll(r)
        <3>1. row[r] \in Live \union Final
            BY <1>t, <2>3 DEF Followed, Poll, Live
        <3> QED BY <1>t, <2>3, <3>1 DEF TypeOK, Poll, data
    <2> QED BY <1>2, <2>1, <2>2, <2>3
<1>3. ASSUME NEW w \in Worker, NEW r \in Run, Take(w, r) PROVE TypeOK'
    <2>1. row[r] = "pending" => request[r] \in Request
        BY <1>t DEF TypeOK, Asked
    <2>2. row[r] = "pending" => <<r, FirstStep(request[r])>> \in Run \X Steps
        BY <2>1, FirstStepType
    <2> QED BY <1>t, <1>3, <2>2 DEF TypeOK, Take, data, Live
<1>4. ASSUME NEW w \in Worker, Works(w) PROVE TypeOK'
    <2>0. Busy(w)
        BY <1>4 DEF Works, Does, Busy, Plan, Clone, Extract, Register, Style, Change,
                    Complete, RefuseEdit
    <2>1. /\ RunOf(w) \in Run /\ at[w][2] \in Steps /\ RequestOf(w) \in Request
          /\ at[w][2] \in StepsOf(RequestOf(w))
        BY <1>t, <2>0, BusyType DEF Executing
    <2>2. at[w][2] \in {"plan", "clone"} => ModelOf[RequestOf(w)] \in Model /\ RequestOf(w) \in Requests("fetch")
        BY <2>1, ImportsAssumption DEF StepsOf, Model, Requests
    <2>3. TableOf[RequestOf(w)] \in Table
        BY <2>1 DEF Table
    <2>4. \A s \in Steps : <<RunOf(w), s>> \in Run \X Steps
        BY <2>1
    <2>5. CASE Plan(w)
        <3>1. Overtakes(RequestOf(w), ModelOf[RequestOf(w)]) \subseteq Run
            BY <1>t, BusyType DEF Overtakes, Does, Busy
        <3> QED BY <1>t, <2>5, <2>2, <2>4, <3>1 DEF TypeOK, Plan, Does, Then, Steps
    <2>6. CASE Clone(w)
        <3>1. model[ModelOf[RequestOf(w)]] \in Request
            BY <1>t, <2>6 DEF Clone, Planned
        <3> QED BY <1>t, <2>6, <2>2, <2>3, <2>4, <3>1 DEF TypeOK, Clone, Does, Then, Steps, SharesTable
    <2>7. CASE Extract(w)
        BY <1>t, <2>7, <2>1, <2>3, <2>4 DEF TypeOK, Extract, Does, Then, Steps
    <2>8. CASE Register(w)
        <3>1. RunOf(w) \in 0 .. MaxRuns
            BY <2>1, ImportsAssumption DEF Run
        <3> QED BY <1>t, <2>8, <2>1, <2>4, <3>1 DEF TypeOK, Register, Does, Then, Steps
    <2>9. CASE Style(w)
        BY <1>t, <2>9, <2>1, <2>4 DEF TypeOK, Style, Does, Then, Steps, Created
    <2>10. CASE Change(w)
        BY <1>t, <2>10, <2>4 DEF TypeOK, Change, Does, Then, Steps, data
    <2>11. CASE Complete(w) \/ RefuseEdit(w)
        BY <1>t, <2>11, <2>1 DEF TypeOK, Complete, RefuseEdit, Ends, Final, data
    <2> QED BY <1>4, <2>5, <2>6, <2>7, <2>8, <2>9, <2>10, <2>11 DEF Works
<1>5. ASSUME NEW w \in Worker, Lose(w) PROVE TypeOK'
    BY <1>t, <1>l, <1>5 DEF TypeOK, Lose, data
<1>6. CASE UNCHANGED vars
    BY <1>t, <1>6 DEF TypeOK, vars, data
<1> QED BY <1>1, <1>2, <1>3, <1>4, <1>5, <1>6 DEF Next

-----------------------------------------------------------------------------
(* The shapes of steps.                                                    *)

\* A step of a form, a tool or a page.
Asking ==
    \/ \E r \in Run, q \in Request : Submit(r, q) \/ Call(r, q)
    \/ \E r \in Run : Commit(r) \/ Rollback(r) \/ Poll(r)

\* Worker w goes on to step s, or is done with its run.
Goes(w, s) == Then(w, s) /\ row' = row
Leaves(w) ==
    /\ at' = [at EXCEPT ![w] = Idle]
    /\ row' = row \/ \E status \in Final : row' = [row EXCEPT ![RunOf(w)] = status]

(* Forms, tools and pages touch no running run and no worker.              *)
LEMMA AskingShape ==
  ASSUME IInv, Asking
  PROVE  /\ at' = at /\ UNCHANGED data
         /\ \A r \in Run : row[r] = "running" => row'[r] = "running" /\ request'[r] = request[r]
         /\ \A r \in Run : row'[r] = "running" => row[r] = "running"
<1>t. TypeOK /\ Asked
    BY DEF IInv
<1>1. ASSUME NEW r \in Run, NEW q \in Request, Submit(r, q) \/ Call(r, q)
      PROVE  /\ at' = at /\ UNCHANGED data /\ row[r] = "none" /\ row'[r] # "running"
             /\ \A s \in Run \ {r} : row'[s] = row[s] /\ request'[s] = request[s]
    BY <1>t, <1>1 DEF TypeOK, Asked, Submit, Call, IsNext
<1>2. ASSUME NEW r \in Run, Commit(r) \/ Rollback(r) \/ Poll(r)
      PROVE  /\ at' = at /\ UNCHANGED data /\ request' = request
             /\ row' = row \/ (row[r] # "running" /\ row'[r] # "running"
                               /\ \A s \in Run \ {r} : row'[s] = row[s])
    BY <1>t, <1>2 DEF TypeOK, Commit, Rollback, Poll
<1>3. CASE \E r \in Run, q \in Request : Submit(r, q) \/ Call(r, q)
    BY <1>1, <1>3
<1>4. CASE \E r \in Run : Commit(r) \/ Rollback(r) \/ Poll(r)
    BY <1>2, <1>4
<1> QED BY <1>3, <1>4 DEF Asking

(* A step of a worker moves only that worker, along its request's steps.   *)
LEMMA WorkShape ==
  ASSUME IInv, NEW w \in Worker, Works(w) \/ Lose(w)
  PROVE  /\ Busy(w) /\ UNCHANGED <<request, queue, shown>>
         /\ (\E s \in StepsOf(RequestOf(w)) : Goes(w, s)) \/ Leaves(w)
<1>t. TypeOK /\ Asked /\ Executing
    BY DEF IInv
<1>1. Busy(w) /\ UNCHANGED <<request, queue, shown>>
    BY DEF Works, Does, Busy, Plan, Clone, Extract, Register, Style, Change, Complete,
           RefuseEdit, Lose, Ends
<1>2. RequestOf(w) \in Request /\ at[w][2] \in StepsOf(RequestOf(w))
    BY <1>t, <1>1, BusyType DEF Executing
<1>4. CASE Plan(w)
    <2>1. "clone" \in StepsOf(RequestOf(w)) /\ Goes(w, "clone")
        BY <1>2, <1>4 DEF Plan, Does, Goes, StepsOf, Steps
    <2> QED BY <1>1, <2>1
<1>5. CASE Clone(w)
    <2>1. "register" \in StepsOf(RequestOf(w)) /\ Goes(w, "register")
        BY <1>2, <1>5 DEF Clone, Does, Goes, StepsOf, Steps
    <2> QED BY <1>1, <2>1
<1>6. CASE Extract(w)
    <2>1. "register" \in StepsOf(RequestOf(w)) /\ Goes(w, "register")
        BY <1>2, <1>6 DEF Extract, Does, Goes, StepsOf, Steps
    <2> QED BY <1>1, <2>1
<1>7. CASE Register(w)
    <2>1. {"style", "complete"} \subseteq StepsOf(RequestOf(w))
        BY <1>2, <1>7 DEF Register, Does, StepsOf, Steps
    <2>2. Goes(w, "style") \/ Goes(w, "complete")
        BY <1>7 DEF Register, Goes
    <2> QED BY <1>1, <2>1, <2>2
<1>8. CASE Style(w) \/ Change(w)
    <2>1. "complete" \in StepsOf(RequestOf(w))
        BY <1>2, <1>8 DEF StepsOf, Steps
    <2>2. Goes(w, "complete")
        BY <1>8 DEF Style, Change, Goes
    <2> QED BY <1>1, <2>1, <2>2
<1>10. CASE Complete(w) \/ RefuseEdit(w)
    <2>1. Leaves(w)
        BY <1>10 DEF Complete, RefuseEdit, Ends, Leaves, Final
    <2> QED BY <1>1, <2>1
<1>11. CASE Lose(w)
    <2>1. Leaves(w)
        BY <1>11 DEF Lose, Leaves
    <2> QED BY <1>1, <2>1
<1> QED BY <1>4, <1>5, <1>6, <1>7, <1>8, <1>10, <1>11 DEF Works

(* Every step is one of the shapes.                                        *)
LEMMA NextShape ==
  ASSUME [Next]_vars
  PROVE  \/ Asking
         \/ \E w \in Worker, r \in Run : Take(w, r)
         \/ \E w \in Worker : Works(w) \/ Lose(w)
         \/ UNCHANGED vars
BY DEF Next, Asking

(* Runs nobody asked for stay without a row; pages follow committed runs.  *)
LEMMA AskedStep == IInv /\ [Next]_vars => Asked' /\ Followed'
<1> SUFFICES ASSUME IInv, [Next]_vars PROVE Asked' /\ Followed'
    OBVIOUS
<1>t. TypeOK /\ Asked /\ Followed /\ Executing
    BY DEF IInv
<1>1. ASSUME NEW r \in Run, NEW q \in Request, Submit(r, q) \/ Call(r, q)
      PROVE  Asked' /\ Followed'
    BY <1>t, <1>1, NothingAssumption DEF TypeOK, Asked, Followed, Submit, Call, IsNext, Live, Final
<1>2. ASSUME NEW r \in Run, Commit(r) \/ Rollback(r) \/ Poll(r) PROVE Asked' /\ Followed'
    <2>1. request[r] # Nothing \/ row[r] = "none"
        BY <1>t DEF Asked
    <2> QED BY <1>t, <1>2, <2>1 DEF TypeOK, Asked, Followed, Commit, Rollback, Poll, Live, Final
<1>3. ASSUME NEW w \in Worker, NEW r \in Run, Take(w, r) PROVE Asked' /\ Followed'
    BY <1>t, <1>3 DEF TypeOK, Asked, Followed, Take, Live
<1>4. ASSUME NEW w \in Worker, Works(w) \/ Lose(w) PROVE Asked' /\ Followed'
    <2>1. UNCHANGED <<request, queue, shown>> /\ RunOf(w) \in Run /\ row[RunOf(w)] = "running"
        BY <1>t, <1>4, WorkShape, BusyType
    <2>2. row' = row \/ \E status \in Final : row' = [row EXCEPT ![RunOf(w)] = status]
        BY <1>4, WorkShape DEF Goes, Leaves
    <2> QED BY <1>t, <2>1, <2>2 DEF TypeOK, Asked, Followed
<1>5. CASE UNCHANGED vars
    BY <1>t, <1>5 DEF vars, data, Asked, Followed
<1> QED BY <1>1, <1>2, <1>3, <1>4, <1>5, NextShape DEF Asking

-----------------------------------------------------------------------------
(* The workers.                                                            *)

(* After a step of worker w the others are where they were, on their runs. *)
LEMMA OthersStay ==
  ASSUME IInv, NEW w \in Worker, Works(w) \/ Lose(w), NEW v \in Worker \ {w}, Busy(v)
  PROVE  /\ at'[v] = at[v] /\ RunOf(v)' = RunOf(v) /\ RequestOf(v)' = RequestOf(v)
         /\ RunOf(v) # RunOf(w) /\ row'[RunOf(v)] = row[RunOf(v)]
<1>t. TypeOK /\ Asked /\ Executing /\ Alone
    BY DEF IInv
<1>1. Busy(w) /\ request' = request
    BY WorkShape
<1>2. at'[v] = at[v]
    BY <1>t, WorkShape DEF TypeOK, Goes, Then, Leaves
<1>3. RunOf(v) # RunOf(w)
    BY <1>t, <1>1 DEF Alone
<1>4. RunOf(v) \in Run /\ RunOf(w) \in Run
    BY <1>t, <1>1, BusyType
<1>5. row'[RunOf(v)] = row[RunOf(v)]
    BY <1>t, <1>3, <1>4, WorkShape DEF TypeOK, Goes, Leaves
<1> QED BY <1>1, <1>2, <1>3, <1>5 DEF RunOf, RequestOf

(* After its own step worker w is idle or on its run at a later step.      *)
LEMMA OwnStep ==
  ASSUME IInv, NEW w \in Worker, Works(w) \/ Lose(w), at'[w] # Idle
  PROVE  /\ row' = row /\ RunOf(w)' = RunOf(w) /\ RequestOf(w)' = RequestOf(w)
         /\ at'[w][2] \in StepsOf(RequestOf(w))
<1>t. TypeOK
    BY DEF IInv
<1>1. request' = request /\ ~Leaves(w)
    BY <1>t, WorkShape DEF TypeOK, Leaves
<1>2. PICK s \in StepsOf(RequestOf(w)) : Goes(w, s)
    BY <1>1, WorkShape
<1>3. at'[w] = <<RunOf(w), s>> /\ row' = row
    BY <1>t, <1>2 DEF TypeOK, Goes, Then
<1> QED BY <1>1, <1>3 DEF RunOf, RequestOf

(* A task that starts finds its run pending, or leaves everything alone.   *)
LEMMA TakeShape ==
  ASSUME IInv, NEW w \in Worker, NEW r \in Run, Take(w, r)
  PROVE  /\ UNCHANGED <<request, data>> /\ ~Busy(w)
         /\ \A v \in Worker \ {w} : at'[v] = at[v]
         /\ \A s \in Run : row[s] = "running" => s # r \/ (at' = at /\ row' = row)
         /\ \A s \in Run \ {r} : row'[s] = row[s]
         /\ \/ at' = at /\ row' = row
            \/ /\ at'[w] = <<r, FirstStep(request[r])>> /\ request[r] \in Request
               /\ row[r] = "pending" /\ row'[r] = "running"
<1>t. TypeOK /\ Asked
    BY DEF IInv
<1>1. row[r] = "pending" => request[r] \in Request
    BY <1>t DEF TypeOK, Asked
<1> QED BY <1>t, <1>1 DEF TypeOK, Take, Busy, data

(* A worker has a run of its own, at a step of its kind.                   *)
LEMMA ExecutingStep == IInv /\ [Next]_vars => Executing' /\ Alone'
<1> SUFFICES ASSUME IInv, [Next]_vars PROVE Executing' /\ Alone'
    OBVIOUS
<1>t. TypeOK /\ Asked /\ Executing /\ Alone
    BY DEF IInv
<1>0. \A v \in Worker : Busy(v) => RunOf(v) \in Run /\ row[RunOf(v)] = "running"
    BY <1>t, BusyType
<1>1. CASE Asking
    <2>1. at' = at /\ \A r \in Run : row[r] = "running" => row'[r] = "running" /\ request'[r] = request[r]
        BY <1>1, AskingShape
    <2> QED BY <1>t, <1>0, <2>1 DEF Executing, Alone, Busy, RunOf, RequestOf
<1>2. ASSUME NEW w \in Worker, NEW r \in Run, Take(w, r) PROVE Executing' /\ Alone'
    <2>1. CASE at' = at /\ row' = row
        BY <1>t, <1>2, <2>1, TakeShape DEF Executing, Alone, Busy, RunOf, RequestOf
    <2>2. CASE /\ at'[w] = <<r, FirstStep(request[r])>> /\ request[r] \in Request
               /\ row[r] = "pending" /\ row'[r] = "running"
        <3>1. request' = request /\ \A v \in Worker \ {w} : at'[v] = at[v]
            BY <1>2, TakeShape
        <3>2. \A v \in Worker : Busy(v) => RunOf(v) # r
            BY <1>0, <2>2
        <3>3. \A s \in Run \ {r} : row'[s] = row[s]
            BY <1>2, TakeShape
        <3>4. FirstStep(request[r]) \in StepsOf(request[r])
            BY <2>2, FirstStepType
        <3>5. Executing'
            <4> SUFFICES ASSUME NEW v \in Worker, at'[v] # Idle
                         PROVE  row'[at'[v][1]] = "running" /\ at'[v][2] \in StepsOf(request'[at'[v][1]])
                BY DEF Executing, Busy, RunOf, RequestOf, StepsOf
            <4>1. CASE v = w
                BY <4>1, <2>2, <3>1, <3>4
            <4>2. CASE v # w
                BY <1>t, <1>0, <4>2, <3>1, <3>2, <3>3 DEF Executing, Busy, RunOf, RequestOf
            <4> QED BY <4>1, <4>2
        <3>6. Alone'
            BY <1>t, <3>1, <3>2, <2>2 DEF Alone, Busy, RunOf
        <3> QED BY <3>5, <3>6
    <2> QED BY <1>2, <2>1, <2>2, TakeShape
<1>3. ASSUME NEW w \in Worker, Works(w) \/ Lose(w) PROVE Executing' /\ Alone'
    <2>0. Busy(w)
        BY <1>3, WorkShape
    <2>1. \A v \in Worker \ {w} : at'[v] # Idle => Busy(v)
        BY <1>t, <1>3, WorkShape DEF TypeOK, Goes, Then, Leaves, Busy
    <2>2. ASSUME NEW v \in Worker \ {w}, at'[v] # Idle
          PROVE  row'[RunOf(v)'] = "running" /\ at'[v][2] \in StepsOf(RequestOf(v)') /\ RunOf(v)' = RunOf(v)
                 /\ RunOf(v) # RunOf(w)
        BY <1>t, <1>3, <2>1, <2>2, OthersStay DEF Executing
    <2>3. ASSUME at'[w] # Idle
          PROVE  row'[RunOf(w)'] = "running" /\ at'[w][2] \in StepsOf(RequestOf(w)') /\ RunOf(w)' = RunOf(w)
        BY <1>0, <1>3, <2>0, <2>3, OwnStep
    <2>4. Executing'
        BY <2>2, <2>3 DEF Executing, Busy, StepsOf
    <2>5. Alone'
        <3> SUFFICES ASSUME NEW u \in Worker, NEW v \in Worker,
                            at'[u] # Idle, at'[v] # Idle, RunOf(u)' = RunOf(v)'
                     PROVE  u = v
            BY DEF Alone, Busy
        <3>1. CASE u # w /\ v # w
            <4>1. Busy(u) /\ Busy(v) /\ RunOf(u) = RunOf(v)
                BY <2>1, <2>2, <3>1
            <4> QED BY <1>t, <4>1 DEF Alone
        <3>2. CASE u = w \/ v = w
            BY <2>2, <2>3, <3>2
        <3> QED BY <3>1, <3>2
    <2> QED BY <2>4, <2>5
<1>4. CASE UNCHANGED vars
    BY <1>t, <1>4 DEF vars, data, Executing, Alone, Busy, RunOf, RequestOf
<1> QED BY <1>1, <1>2, <1>3, <1>4, NextShape

(* What is copied was planned, what is styled is there.                    *)
LEMMA PlannedStep == IInv /\ [Next]_vars => Planned' /\ Created'
<1> SUFFICES ASSUME IInv, [Next]_vars PROVE Planned' /\ Created'
    OBVIOUS
<1>t. TypeOK /\ Asked /\ Executing /\ Planned /\ Created
    BY DEF IInv
<1>0. \A v \in Worker : Busy(v) => RunOf(v) \in Run /\ row[RunOf(v)] = "running"
    BY <1>t, BusyType
<1>1. CASE Asking
    <2>1. at' = at /\ UNCHANGED data /\ \A r \in Run : row[r] = "running" => request'[r] = request[r]
        BY <1>1, AskingShape
    <2> QED BY <1>t, <1>0, <2>1 DEF Planned, Created, Busy, Does, RunOf, RequestOf, data
<1>2. ASSUME NEW w \in Worker, NEW r \in Run, Take(w, r) PROVE Planned' /\ Created'
    <2>1. UNCHANGED <<request, model, layers>> /\ \A v \in Worker \ {w} : at'[v] = at[v]
        BY <1>2, TakeShape DEF data
    <2>2. at'[w] = at[w] \/ at'[w][2] \notin {"clone", "style"}
        <3>1. CASE request[r] \in Request /\ at'[w] = <<r, FirstStep(request[r])>>
            BY <3>1, FirstStepType
        <3> QED BY <1>2, <3>1, TakeShape
    <2> QED BY <1>t, <2>1, <2>2 DEF Planned, Created, Does, RunOf, RequestOf
<1>3. ASSUME NEW w \in Worker, Works(w) \/ Lose(w) PROVE Planned' /\ Created'
    <2>0. Busy(w) /\ request' = request
        BY <1>3, WorkShape
    <2>1. \A v \in Worker \ {w} : at'[v] = at[v]
        BY <1>t, <1>3, WorkShape DEF TypeOK, Goes, Then, Leaves
    <2>2. RequestOf(w) \in Request /\ RunOf(w) \in Run
        BY <1>t, <2>0, BusyType
    <2>3. model' = model \/ \E m \in Model, q \in Request : model' = [model EXCEPT ![m] = q]
        <3>1. CASE Plan(w)
            <4>1. Kind[RequestOf(w)] = "fetch"
                BY <1>t, <2>0, <3>1 DEF Executing, Plan, Does, StepsOf
            <4> QED BY <2>2, <3>1, <4>1 DEF Plan, Model, Requests
        <3> QED BY <1>3, <3>1 DEF Works, Clone, Extract, Register, Style, Change, Complete,
                                  RefuseEdit, Lose, Ends, data
    <2>4. \A m \in Model : model[m] \in Request => model'[m] \in Request
        BY <1>t, <2>3 DEF TypeOK
    <2>5. layers \subseteq layers'
        BY <1>3 DEF Works, Plan, Clone, Extract, Register, Style, Change, Complete, RefuseEdit,
                    Lose, Ends, data
    <2>6. ASSUME NEW v \in Worker \ {w}, at'[v] # Idle
          PROVE  /\ at'[v][2] = "clone" => model'[ModelOf[RequestOf(v)']] \in Request
                 /\ at'[v][2] = "style" => RequestOf(v)' \in layers'
        <3>1. Busy(v) /\ RequestOf(v)' = RequestOf(v)
            BY <2>0, <2>1, <2>6 DEF Busy, RequestOf, RunOf
        <3>2. RequestOf(v) \in Request
            BY <1>t, <3>1, BusyType
        <3>3. at[v][2] = "clone" => ModelOf[RequestOf(v)] \in Model
            BY <1>t, <3>1, <3>2 DEF Executing, StepsOf, Model, Requests
        <3> QED BY <1>t, <2>1, <2>4, <2>5, <2>6, <3>1, <3>3 DEF Planned, Created, Does
    <2>7. ASSUME at'[w] # Idle
          PROVE  /\ at'[w][2] = "clone" => model'[ModelOf[RequestOf(w)']] \in Request
                 /\ at'[w][2] = "style" => RequestOf(w)' \in layers'
        <3>1. RequestOf(w)' = RequestOf(w)
            BY <1>3, <2>7, OwnStep
        <3>2. ASSUME at'[w][2] = "clone" PROVE model'[ModelOf[RequestOf(w)]] \in Request
            <4>1. Plan(w)
                BY <1>t, <1>3, <2>7, <3>2 DEF TypeOK, Works, Clone, Extract, Register, Style, Change,
                        Complete, RefuseEdit, Lose, Ends, Then
            <4>2. Kind[RequestOf(w)] = "fetch"
                BY <1>t, <2>0, <4>1 DEF Executing, Plan, Does, StepsOf
            <4> QED BY <1>t, <2>2, <4>1, <4>2 DEF TypeOK, Plan, Model, Requests
        <3>3. ASSUME at'[w][2] = "style" PROVE RequestOf(w) \in layers'
            <4>1. Register(w)
                BY <1>t, <1>3, <2>7, <3>3 DEF TypeOK, Works, Plan, Clone, Extract, Style, Change,
                        Complete, RefuseEdit, Lose, Ends, Then
            <4> QED BY <4>1 DEF Register
        <3> QED BY <3>1, <3>2, <3>3
    <2> QED BY <2>6, <2>7 DEF Planned, Created, Does
<1>4. CASE UNCHANGED vars
    BY <1>t, <1>4 DEF vars, data, Planned, Created, Does, RunOf, RequestOf
<1> QED BY <1>1, <1>2, <1>3, <1>4, NextShape

-----------------------------------------------------------------------------
(* Styling.                                                                *)

(* A step of another worker leaves a styling run styling.                  *)
LEMMA StylingStays ==
  ASSUME IInv, NEW w \in Worker, Works(w) \/ Lose(w), NEW r \in Run, Styling(r),
         RunOf(w) # r \/ Lose(w)
  PROVE  Styling(r)'
<1>t. TypeOK /\ Asked /\ Executing
    BY DEF IInv
<1>0. Busy(w) /\ RunOf(w) \in Run
    BY <1>t, BusyType, WorkShape
<1>1. \A v \in Worker \ {w} : at'[v] = at[v]
    BY <1>t, WorkShape DEF TypeOK, Goes, Then, Leaves
<1>2. CASE Lose(w)
    BY <1>t, <1>1, <1>2 DEF TypeOK, Lose, Styling, RunOf
<1>3. CASE RunOf(w) # r
    <2>1. row'[r] = row[r]
        BY <1>t, <1>0, <1>3, WorkShape DEF TypeOK, Goes, Leaves
    <2>2. at'[w] # Idle => RunOf(w)' # r
        BY <1>3, OwnStep
    <2> QED BY <1>1, <2>1, <2>2 DEF Styling, RunOf
<1> QED BY <1>2, <1>3

(* Whoever creates a layer goes on to style it; nobody else's end matters. *)
LEMMA StylingStep == IInv /\ [Next]_vars => UnstyledIsUnfinished'
<1> SUFFICES ASSUME IInv, [Next]_vars PROVE UnstyledIsUnfinished'
    OBVIOUS
<1>t. TypeOK /\ Asked /\ Executing /\ Alone /\ UnstyledIsUnfinished
    BY DEF IInv
<1>0. \A v \in Worker : Busy(v) => RunOf(v) \in Run /\ row[RunOf(v)] = "running"
    BY <1>t, BusyType
<1>1. CASE Asking
    <2>1. /\ at' = at /\ UNCHANGED data
          /\ \A r \in Run : row[r] = "running" => row'[r] = "running" /\ request'[r] = request[r]
        BY <1>1, AskingShape
    <2> QED BY <1>t, <2>1 DEF UnstyledIsUnfinished, Styling, RunOf, data
<1>2. ASSUME NEW w \in Worker, NEW r \in Run, Take(w, r) PROVE UnstyledIsUnfinished'
    <2>1. /\ UNCHANGED <<request, layers, styled, maker>> /\ \A v \in Worker \ {w} : at'[v] = at[v]
          /\ \A s \in Run \ {r} : row'[s] = row[s]
        BY <1>2, TakeShape DEF data
    <2>2. (at' = at /\ row' = row) \/ (row[r] # "running" /\ at'[w][1] = r)
        BY <1>2, TakeShape
    <2>3. \A s \in Run : Styling(s) => Styling(s)'
        BY <2>1, <2>2 DEF Styling, RunOf
    <2> QED BY <1>t, <2>1, <2>3 DEF UnstyledIsUnfinished
<1>3. ASSUME NEW w \in Worker, Works(w) \/ Lose(w) PROVE UnstyledIsUnfinished'
    <2>0. Busy(w) /\ request' = request /\ RunOf(w) \in Run
        BY <1>0, <1>3, WorkShape
    <2>1. \A v \in Worker \ {w} : at'[v] = at[v]
        BY <1>t, <1>3, WorkShape DEF TypeOK, Goes, Then, Leaves
    <2>5. CASE Lose(w)
        <3>1. UNCHANGED <<layers, styled, maker>>
            BY <2>5 DEF Lose, data
        <3>2. \A s \in Run : Styling(s) => Styling(s)'
            BY <2>5, StylingStays
        <3> QED BY <1>t, <2>0, <3>1, <3>2 DEF UnstyledIsUnfinished
    <2>4. \A s \in Run : s # RunOf(w) /\ Styling(s) => Styling(s)'
        BY <1>3, StylingStays
    <2>6. CASE Style(w)
        <3>1. layers' = layers /\ styled' = styled \union {request[RunOf(w)]} /\ maker' = maker
            BY <2>6 DEF Style, RequestOf
        <3> QED BY <1>t, <2>0, <2>4, <3>1 DEF UnstyledIsUnfinished
    <2>7. CASE Register(w)
        <3>1. at[w][2] = "register" /\ ~Styling(RunOf(w))
            BY <2>0, <2>7 DEF Register, Does, Styling, Busy
        <3>2. layers' = layers \union {request[RunOf(w)]} /\ styled' = styled
            BY <2>7 DEF Register, RequestOf
        <3>3. CASE request[RunOf(w)] \in layers
            <4>1. maker' = maker
                BY <2>7, <3>3 DEF Register, RequestOf
            <4> QED BY <1>t, <2>0, <2>4, <3>1, <3>2, <3>3, <4>1 DEF UnstyledIsUnfinished
        <3>4. CASE request[RunOf(w)] \notin layers
            <4> DEFINE Styles(r) ==
                    /\ row'[r] = "running"
                    /\ \A v \in Worker : at'[v] # Idle /\ at'[v][1] = r => at'[v][2] = "style"
            <4>0. request[RunOf(w)] \in Request
                BY <1>t, <2>0, BusyType DEF RequestOf
            <4>1. /\ at'[w] = <<RunOf(w), "style">> /\ row' = row
                  /\ maker' = [maker EXCEPT ![request[RunOf(w)]] = RunOf(w)]
                BY <1>t, <2>7, <3>4 DEF TypeOK, Register, Then, RequestOf
            <4>2. Styling(RunOf(w))'
                <5> DEFINE mine == at[w][1]
                <5>0. row'[mine] = "running" /\ at'[w] = <<mine, "style">>
                    BY <1>0, <2>0, <4>1 DEF RunOf
                <5>1. \A v \in Worker \ {w} : at'[v] # Idle => at'[v][1] # mine
                    BY <1>t, <2>0, <2>1 DEF Alone, Busy, RunOf
                <5>2. \A v \in Worker : at'[v] # Idle /\ at'[v][1] = mine => at'[v][2] = "style"
                    BY <5>0, <5>1
                <5>3. RunOf(w)' = mine
                    BY <5>0 DEF RunOf
                <5> QED BY <5>0, <5>2, <5>3 DEF Styling, RunOf
            <4>3. RunOf(w)' = RunOf(w)
                BY <4>1 DEF RunOf
            <4> SUFFICES ASSUME NEW q \in layers' \ styled'
                         PROVE  maker'[q] \in Run /\ request'[maker'[q]] = q /\ Styles(maker'[q])
                BY DEF UnstyledIsUnfinished, Styling, RunOf
            <4>6. \A r : Styling(r)' => Styles(r)
                BY DEF Styling, RunOf
            <4>4. CASE q = request[RunOf(w)]
                <5>1. maker'[q] = RunOf(w)
                    BY <1>t, <4>0, <4>1, <4>4 DEF TypeOK
                <5>2. Styles(RunOf(w))
                    BY <4>2, <4>3 DEF Styling, RunOf
                <5> QED BY <2>0, <4>4, <5>1, <5>2
            <4>5. CASE q # request[RunOf(w)]
                <5>1. q \in layers \ styled /\ maker'[q] = maker[q]
                    BY <1>t, <3>2, <4>1, <4>5 DEF TypeOK
                <5>2. maker[q] # RunOf(w)
                    BY <1>t, <4>5, <5>1 DEF UnstyledIsUnfinished
                <5>3. maker[q] \in Run /\ request[maker[q]] = q /\ Styling(maker[q])
                    BY <1>t, <5>1 DEF UnstyledIsUnfinished
                <5>4. \A s \in Run : s # RunOf(w) /\ Styling(s) => Styles(s)
                    BY <2>4, <4>6
                <5> QED BY <2>0, <5>1, <5>2, <5>3, <5>4
            <4> QED BY <4>4, <4>5
        <3> QED BY <3>3, <3>4
    <2>8. CASE Works(w) /\ ~Style(w) /\ ~Register(w)
        <3>1. layers' = layers /\ styled' = styled /\ maker' = maker
            BY <2>8 DEF Works, Plan, Clone, Extract, Change, Complete, RefuseEdit, Ends, data
        <3>2. ~Styling(RunOf(w))
            BY <2>0, <2>8 DEF Works, Plan, Clone, Extract, Change, Complete, RefuseEdit, Does, Styling, Busy
        <3> QED BY <1>t, <2>0, <2>4, <3>1, <3>2 DEF UnstyledIsUnfinished
    <2> QED BY <1>3, <2>5, <2>6, <2>7, <2>8
<1>4. CASE UNCHANGED vars
    BY <1>t, <1>4 DEF vars, data, UnstyledIsUnfinished, Styling, RunOf
<1> QED BY <1>1, <1>2, <1>3, <1>4, NextShape

-----------------------------------------------------------------------------
(* The invariant is inductive.                                             *)
LEMMA StepInv == IInv /\ [Next]_vars => IInv'
BY TypeStep, AskedStep, ExecutingStep, PlannedStep, StylingStep DEF IInv

(* It holds in every reachable state.                                      *)
LEMMA Invariant == Spec => []IInv
BY InitInv, StepInv, PTL DEF Spec

(* Runs, tasks, workers, tables and layers keep their types, for any       *)
(* requests, workers and number of runs and lost tasks.                    *)
THEOREM TypeCorrect == Spec => []TypeOK
<1>1. IInv => TypeOK
    BY DEF IInv
<1> QED BY Invariant, <1>1, PTL

(* A layer without a symbology is one whose creator is styling it or was   *)
(* lost before it could (tasks.py:114-115), however many imports of the    *)
(* layer run at once.                                                      *)
THEOREM UnfinishedLeavesUnstyled == Spec => []UnstyledIsUnfinished
<1>1. IInv => UnstyledIsUnfinished
    BY DEF IInv
<1> QED BY Invariant, <1>1, PTL

-----------------------------------------------------------------------------
(* Layers and their rows.                                                  *)

\* What is about to be copied answers the request unless the run is overtaken,
\* and what is about to be registered, or is registered, is in its table unless
\* it is displaced.
Kept ==
    /\ \A w \in Worker : Does(w, "clone") =>
           RunOf(w) \in overtaken \/ model[ModelOf[RequestOf(w)]] = RequestOf(w)
    /\ \A w \in Worker : Does(w, "register") =>
           RequestOf(w) \in displaced \/ RequestOf(w) \in table[TableOf[RequestOf(w)]]
    /\ LayersKeepTheirRows

\* Request p has its rows in its table or is known not to.
Has(p) == p \in displaced \/ p \in table[TableOf[p]]

(* A step of a worker: a request has its rows in its table, or is known    *)
(* not to, before and after it.                                            *)
LEMMA HasStays ==
  ASSUME IInv, Kept, NEW w \in Worker, Works(w) \/ Lose(w), NEW p \in Request, Has(p)
  PROVE  Has(p)'
<1>t. TypeOK
    BY DEF IInv
<1> DEFINE q == RequestOf(w)
<1>0. TableOf[p] \in Table
    BY DEF Table
<1>1. CASE Clone(w)
    <2>1. CASE TableOf[p] = TableOf[q] /\ (p # q \/ RunOf(w) \in overtaken)
        BY <1>1, <2>1 DEF Clone, SharesTable, Has
    <2>2. CASE p = q /\ RunOf(w) \notin overtaken
        <3>1. model[ModelOf[q]] = q
            BY <1>1, <2>2 DEF Kept, Clone
        <3>2. table' = [table EXCEPT ![TableOf[q]] = {q}]
            BY <1>1, <3>1 DEF Clone
        <3> QED BY <1>t, <1>0, <2>2, <3>2 DEF TypeOK, Has
    <2>3. CASE TableOf[p] # TableOf[q]
        <3>1. table'[TableOf[p]] = table[TableOf[p]]
            BY <1>t, <1>0, <1>1, <2>3 DEF TypeOK, Clone
        <3>2. p \in displaced => p \in displaced'
            BY <1>1, <2>3 DEF Clone
        <3> QED BY <3>1, <3>2 DEF Has
    <2> QED BY <2>1, <2>2, <2>3
<1>2. CASE Extract(w)
    BY <1>t, <1>0, <1>2 DEF TypeOK, Extract, Has
<1>3. CASE ~Clone(w) /\ ~Extract(w)
    BY <1>3 DEF Works, Plan, Register, Style, Change, Complete, RefuseEdit, Lose, Ends, data, Has
<1> QED BY <1>1, <1>2, <1>3

(* A step of a worker: models that answer the request of a run about to    *)
(* copy them still do, or the run is overtaken.                            *)
LEMMA AnswersStay ==
  ASSUME IInv, Kept, NEW w \in Worker, Works(w) \/ Lose(w), NEW v \in Worker \ {w},
         Does(v, "clone")
  PROVE  RunOf(v) \in overtaken' \/ model'[ModelOf[RequestOf(v)]] = RequestOf(v)
<1>t. TypeOK /\ Asked /\ Executing
    BY DEF IInv
<1>0. RunOf(v) \in overtaken \/ model[ModelOf[RequestOf(v)]] = RequestOf(v)
    BY DEF Kept
<1>1. CASE Plan(w)
    <2>1. /\ model' = [model EXCEPT ![ModelOf[RequestOf(w)]] = RequestOf(w)]
          /\ overtaken' = overtaken \union Overtakes(RequestOf(w), ModelOf[RequestOf(w)])
        BY <1>1 DEF Plan
    <2>2. RequestOf(v) \in Requests("fetch")
        BY <1>t, BusyType DEF Executing, Does, Busy, StepsOf, Requests
    <2>3. ModelOf[RequestOf(v)] \in Model
        BY <2>2 DEF Model
    <2>4. CASE ModelOf[RequestOf(v)] = ModelOf[RequestOf(w)] /\ RequestOf(v) # RequestOf(w)
        <3>1. RunOf(v) \in Overtakes(RequestOf(w), ModelOf[RequestOf(w)])
            BY <2>4 DEF Overtakes
        <3> QED BY <2>1, <3>1
    <2>5. CASE ModelOf[RequestOf(v)] # ModelOf[RequestOf(w)] \/ RequestOf(v) = RequestOf(w)
        BY <1>t, <1>0, <2>1, <2>3, <2>5 DEF TypeOK
    <2> QED BY <2>4, <2>5
<1>2. CASE ~Plan(w)
    BY <1>0, <1>2 DEF Works, Clone, Extract, Register, Style, Change, Complete, RefuseEdit,
                      Lose, Ends, data
<1> QED BY <1>1, <1>2

(* What worker w has planned it may copy, and what it has copied is in its *)
(* table.                                                                  *)
LEMMA OwnKept ==
  ASSUME IInv, Kept, NEW w \in Worker, Works(w) \/ Lose(w), at'[w] # Idle
  PROVE  /\ at'[w][2] = "clone" => model'[ModelOf[RequestOf(w)]] = RequestOf(w)
         /\ at'[w][2] = "register" => Has(RequestOf(w))'
<1>t. TypeOK /\ Asked /\ Executing
    BY DEF IInv
<1>0. Busy(w) /\ request' = request /\ RequestOf(w) \in Request /\ at[w][2] \in StepsOf(RequestOf(w))
    BY <1>t, BusyType, WorkShape DEF Executing
<1>1. ASSUME at'[w][2] = "clone" PROVE model'[ModelOf[RequestOf(w)]] = RequestOf(w)
    <2>1. Plan(w)
        BY <1>t, <1>1 DEF TypeOK, Works, Clone, Extract, Register, Style, Change,
                Complete, RefuseEdit, Lose, Ends, Then
    <2>2. ModelOf[RequestOf(w)] \in Model
        BY <1>0, <2>1 DEF Plan, Does, StepsOf, Model, Requests
    <2> QED BY <1>t, <2>1, <2>2 DEF TypeOK, Plan
<1>2. ASSUME at'[w][2] = "register" PROVE Has(RequestOf(w))'
    <2>0. RequestOf(w)' = RequestOf(w)
        BY OwnStep
    <2>1. Clone(w) \/ Extract(w)
        BY <1>t, <1>2 DEF TypeOK, Works, Plan, Register, Style, Change,
                Complete, RefuseEdit, Lose, Ends, Then
    <2>2. TableOf[RequestOf(w)] \in Table
        BY <1>0 DEF Table
    <2>3. CASE Clone(w) /\ RunOf(w) \in overtaken
        <3>1. RequestOf(w) \in displaced'
            BY <1>0, <2>3 DEF Clone, SharesTable
        <3> QED BY <2>0, <3>1 DEF Has
    <2>4. CASE Clone(w) /\ RunOf(w) \notin overtaken
        <3>1. model[ModelOf[RequestOf(w)]] = RequestOf(w)
            BY <2>4 DEF Kept, Clone
        <3>2. RequestOf(w) \in table'[TableOf[RequestOf(w)]]
            BY <1>t, <2>2, <2>4, <3>1 DEF TypeOK, Clone
        <3> QED BY <2>0, <3>2 DEF Has
    <2>5. CASE Extract(w)
        <3>1. RequestOf(w) \in table'[TableOf[RequestOf(w)]]
            BY <1>t, <2>2, <2>5 DEF TypeOK, Extract
        <3> QED BY <2>0, <3>1 DEF Has
    <2> QED BY <2>1, <2>3, <2>4, <2>5
<1> QED BY <1>1, <1>2

(* No step takes a layer's rows away and does not show it.                 *)
LEMMA KeptStep == IInv /\ Kept /\ [Next]_vars => Kept'
<1> SUFFICES ASSUME IInv, Kept, [Next]_vars PROVE Kept'
    OBVIOUS
<1>t. TypeOK /\ Asked /\ Executing
    BY DEF IInv
<1>0. \A v \in Worker : Busy(v) => /\ RunOf(v) \in Run /\ row[RunOf(v)] = "running"
                                   /\ RequestOf(v) \in Request
    BY <1>t, BusyType
<1>1. CASE Asking
    <2>1. at' = at /\ UNCHANGED data /\ \A r \in Run : row[r] = "running" => request'[r] = request[r]
        BY <1>1, AskingShape
    <2> QED BY <1>0, <2>1 DEF Kept, LayersKeepTheirRows, Busy, Does, RunOf, RequestOf, data
<1>2. ASSUME NEW w \in Worker, NEW r \in Run, Take(w, r) PROVE Kept'
    <2>1. UNCHANGED <<request, data>> /\ \A v \in Worker \ {w} : at'[v] = at[v]
        BY <1>2, TakeShape
    <2>2. at'[w] = at[w] \/ at'[w][2] \notin {"clone", "register"}
        <3>1. CASE request[r] \in Request /\ at'[w] = <<r, FirstStep(request[r])>>
            BY <3>1, FirstStepType
        <3> QED BY <1>2, <3>1, TakeShape
    <2> QED BY <2>1, <2>2 DEF Kept, LayersKeepTheirRows, Does, RunOf, RequestOf, data
<1>3. ASSUME NEW w \in Worker, Works(w) \/ Lose(w) PROVE Kept'
    <2>1. \A v \in Worker \ {w} : at'[v] # Idle =>
              at'[v] = at[v] /\ Busy(v) /\ RunOf(v)' = RunOf(v) /\ RequestOf(v)' = RequestOf(v)
        <3> SUFFICES ASSUME NEW v \in Worker \ {w}, at'[v] # Idle
                     PROVE  at'[v] = at[v] /\ Busy(v) /\ RunOf(v)' = RunOf(v) /\ RequestOf(v)' = RequestOf(v)
            OBVIOUS
        <3>1. Busy(v)
            BY <1>t, <1>3, WorkShape DEF TypeOK, Goes, Then, Leaves, Busy
        <3> QED BY <1>3, <3>1, OthersStay
    <2>2. ASSUME NEW v \in Worker \ {w}, at'[v] # Idle
          PROVE  /\ at'[v][2] = "clone" => \/ RunOf(v)' \in overtaken'
                                           \/ model'[ModelOf[RequestOf(v)']] = RequestOf(v)'
                 /\ at'[v][2] = "register" => Has(RequestOf(v))'
        <3>1. at[v][2] = "clone" => RunOf(v) \in overtaken' \/ model'[ModelOf[RequestOf(v)]] = RequestOf(v)
            BY <1>3, <2>1, <2>2, AnswersStay DEF Does, Busy
        <3>2. ASSUME at[v][2] = "register" PROVE Has(RequestOf(v))'
            <4>1. Has(RequestOf(v)) /\ RequestOf(v) \in Request
                BY <1>0, <2>1, <2>2, <3>2 DEF Kept, Does, Busy, Has
            <4>2. ASSUME NEW p \in Request, Has(p)
                  PROVE  p \in displaced' \/ p \in table'[TableOf[p]]
                BY <1>3, <4>2, HasStays DEF Has
            <4>3. RequestOf(v) \in displaced' \/ RequestOf(v) \in table'[TableOf[RequestOf(v)]]
                BY <4>1, <4>2
            <4> QED BY <2>1, <2>2, <4>3 DEF Has
        <3> QED BY <2>1, <2>2, <3>1, <3>2
    <2>3. ASSUME at'[w] # Idle
          PROVE  /\ at'[w][2] = "clone" => \/ RunOf(w)' \in overtaken'
                                           \/ model'[ModelOf[RequestOf(w)']] = RequestOf(w)'
                 /\ at'[w][2] = "register" => Has(RequestOf(w))'
        BY <1>3, <2>3, OwnKept, OwnStep
    <2>4. ASSUME NEW p \in layers' PROVE Has(p)'
        <3>1. CASE p \in layers
            <4>1. p \in Request /\ Has(p)
                BY <1>t, <3>1 DEF TypeOK, Kept, LayersKeepTheirRows, Has
            <4> QED BY <1>3, <4>1, HasStays
        <3>2. CASE p \notin layers
            <4>1. Register(w) /\ p = RequestOf(w)
                BY <1>3, <2>4, <3>2 DEF Works, Plan, Clone, Extract, Register, Style, Change, Complete,
                                  RefuseEdit, Lose, Ends, data
            <4>2. Busy(w)
                BY <4>1 DEF Register, Does, Busy
            <4>3. p \in Request /\ Has(p)
                BY <1>0, <4>1, <4>2 DEF Register, Kept, Has
            <4> QED BY <1>3, <4>3, HasStays
        <3> QED BY <3>1, <3>2
    <2>5. LayersKeepTheirRows'
        BY <2>4 DEF LayersKeepTheirRows, Has
    <2> QED BY <2>2, <2>3, <2>5 DEF Kept, Does, Has
<1>4. CASE UNCHANGED vars
    BY <1>4 DEF vars, data, Kept, LayersKeepTheirRows, Does, RunOf, RequestOf
<1> QED BY <1>1, <1>2, <1>3, <1>4, NextShape

(* "An imported layer must keep the rows it was imported with"             *)
(* (fetch_clone.py:15-16): a layer's table holds its request's rows,       *)
(* whatever is imported, edited or lost beside it, unless a fetch of       *)
(* another request wrote the same table since or took over its models      *)
(* between its plan and its copy, which the code allows (tasks.py:85-103). *)
THEOREM ImportedRowsStay == Spec => []LayersKeepTheirRows
<1>1. Init => Kept
    BY DEF Init, Kept, Does, LayersKeepTheirRows
<1>2. IInv /\ Kept /\ [Next]_vars => Kept'
    BY KeptStep
<1>3. Kept => LayersKeepTheirRows
    BY DEF Kept
<1> QED BY Invariant, <1>1, <1>2, <1>3, PTL DEF Spec
=============================================================================
