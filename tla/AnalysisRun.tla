----------------------------- MODULE AnalysisRun -----------------------------
(***************************************************************************)
(* The life of one AnalysisRun row: the launcher that creates and          *)
(* dispatches it, the Celery task that executes it, the heartbeat thread   *)
(* the task keeps beside it, and the readers that record a run as failed   *)
(* when its executor seems gone (analysis/pipeline.py, run_health.py).     *)
(*                                                                         *)
(* Time is counted in heartbeat intervals.  The row's timestamps are kept  *)
(* as the time since, which stops counting just past the longest bound     *)
(* anything compares it with.  A reader compares and reads at one moment;  *)
(* any time may pass before it writes.                                     *)
(***************************************************************************)
EXTENDS Integers

CONSTANTS
  Reader,     \* requests that read the run's status
  InRequest,  \* TRUE: launched in a view's transaction (ATOMIC_REQUESTS)
  Stale,      \* STALE_HEARTBEAT_SECONDS, in heartbeat intervals
  Budget,     \* ANALYSIS_TASK_TIME_LIMIT, in heartbeat intervals
  MaxMissed,  \* how many pings in a row the database may refuse
  Crashes,    \* TRUE: the executor may be killed at any point
  NoReading   \* the reader has nothing to write

ASSUME RunHealthAssumption ==
  /\ Stale \in Nat /\ Budget \in Nat /\ MaxMissed \in Nat
  /\ InRequest \in BOOLEAN /\ Crashes \in BOOLEAN

Live == {"pending", "running"}
Final == {"completed", "failed"}
Abandonment == {"never_started", "abandoned", "timed_out"}

ASSUME NoReadingAssumption == NoReading \notin [status : Live, cause : Abandonment]

VARIABLES
  status,     \* the row's status; "none" once its creation is rolled back
  cause,      \* the row's failure_cause
  committed,  \* other connections see the row
  launch,     \* the launcher: "created", "sent", "done"
  message,    \* the task's message waits at the broker
  exec,       \* the executor
  queued,     \* time since created_at
  ran,        \* time since started_at
  pinged,     \* heartbeat_at - started_at
  quiet,      \* time since heartbeat_at
  due,        \* the heartbeat thread is about to ping
  missed,     \* the pings refused since the last one that got through
  reading,    \* what each reader is about to write
  outcome     \* history: the last status the executor wrote for good

row == <<status, cause>>
clocks == <<queued, ran, pinged, quiet>>
thread == <<due, missed>>
vars == <<status, cause, committed, launch, message, exec, queued, ran, pinged,
          quiet, due, missed, reading, outcome>>

Clock == 0 .. (Stale + Budget + 1)

(* "ended": the plan is done, the heartbeat stopped, the result not saved. *)
(* "dead": killed.  "lost": the task found no row and raised DoesNotExist. *)
TypeOK ==
  /\ status \in Live \cup Final \cup {"none"}
  /\ cause \in Abandonment \cup {"", "error", "never_dispatched"}
  /\ committed \in BOOLEAN /\ message \in BOOLEAN /\ due \in BOOLEAN
  /\ launch \in {"created", "sent", "done"}
  /\ exec \in {"none", "fetched", "working", "ended", "done", "dead", "lost"}
  /\ queued \in Clock /\ ran \in Clock /\ pinged \in Clock /\ quiet \in Clock
  /\ missed \in 0 .. MaxMissed
  /\ reading \in [Reader -> [status : Live, cause : Abandonment] \cup {NoReading}]
  /\ outcome \in Final \cup {"none"}

(* _create_analysis_run.  The MCP server runs it in autocommit mode.       *)
Init ==
  /\ status = "pending" /\ cause = "" /\ committed = ~InRequest
  /\ launch = "created" /\ message = FALSE /\ exec = "none"
  /\ queued = 0 /\ ran = 0 /\ pinged = 0 /\ quiet = 0
  /\ due = FALSE /\ missed = 0
  /\ reading = [r \in Reader |-> NoReading]
  /\ outcome = "none"

-----------------------------------------------------------------------------
(* launch_analysis_run: run_analysis_task.delay.                           *)
Dispatch ==
  /\ launch = "created"
  /\ launch' = "sent"
  /\ message' = TRUE
  /\ UNCHANGED <<row, committed, exec, clocks, thread, reading, outcome>>

(* The same, when delay raises because the broker is not there.            *)
DispatchFails ==
  /\ launch = "created"
  /\ launch' = "sent"
  /\ status' = "failed" /\ cause' = "never_dispatched"
  /\ UNCHANGED <<committed, message, exec, clocks, thread, reading, outcome>>

(* The view returns and its transaction commits...                         *)
Commit ==
  /\ launch = "sent"
  /\ launch' = "done"
  /\ committed' = TRUE
  /\ UNCHANGED <<row, message, exec, clocks, thread, reading, outcome>>

(* ...or it fails after the dispatch, and the row was never there.         *)
Rollback ==
  /\ launch = "sent" /\ ~committed
  /\ launch' = "done"
  /\ status' = "none"
  /\ UNCHANGED <<cause, committed, message, exec, clocks, thread, reading, outcome>>

-----------------------------------------------------------------------------
(* A worker receives run_analysis_task and fetches the row.                *)
Take ==
  /\ message
  /\ message' = FALSE
  /\ exec' = IF committed THEN "fetched" ELSE "lost"
  /\ UNCHANGED <<row, committed, launch, clocks, thread, reading, outcome>>

(* _execute_analysis_run: mark it running, whatever a reader made of it,   *)
(* and start the heartbeat.                                                *)
Start ==
  /\ exec = "fetched"
  /\ exec' = "working"
  /\ status' = "running" /\ cause' = ""
  /\ ran' = 0 /\ pinged' = 0 /\ quiet' = 0
  /\ due' = FALSE /\ missed' = 0
  /\ UNCHANGED <<committed, launch, message, queued, reading, outcome>>

(* _ping: one tick of _beat, filtered on status="running".                 *)
Ping ==
  /\ exec = "working" /\ due
  /\ due' = FALSE /\ missed' = 0
  /\ IF status = "running" THEN quiet' = 0 /\ pinged' = ran
                           ELSE UNCHANGED <<quiet, pinged>>
  /\ UNCHANGED <<row, committed, launch, message, exec, queued, ran, reading, outcome>>

(* _ping, when the database refuses the update.                            *)
MissPing ==
  /\ exec = "working" /\ due
  /\ missed < MaxMissed
  /\ due' = FALSE /\ missed' = missed + 1
  /\ UNCHANGED <<row, committed, launch, message, exec, clocks, reading, outcome>>

(* run_modules_sync raised (the soft time limit included): saved under the *)
(* heartbeat.                                                              *)
Fail ==
  /\ exec = "working"
  /\ exec' = "done"
  /\ status' = "failed" /\ cause' = "error" /\ outcome' = "failed"
  /\ due' = FALSE
  /\ UNCHANGED <<committed, launch, message, clocks, missed, reading>>

(* run_modules_sync returned; leaving the block stops the heartbeat.       *)
Succeed ==
  /\ exec = "working"
  /\ exec' = "ended"
  /\ due' = FALSE
  /\ UNCHANGED <<row, committed, launch, message, clocks, missed, reading, outcome>>

(* run.save(update_fields=["status", "completed_at", "log_output"]).       *)
Save ==
  /\ exec = "ended"
  /\ exec' = "done"
  /\ status' = "completed" /\ outcome' = "completed"
  /\ UNCHANGED <<cause, committed, launch, message, clocks, thread, reading>>

Killed ==
  /\ exec' = "dead"
  /\ due' = FALSE
  /\ UNCHANGED <<row, committed, launch, message, clocks, missed, reading, outcome>>

(* A container restart, an OOM kill.                                       *)
Crash == Crashes /\ exec \in {"fetched", "working", "ended"} /\ Killed

(* Celery's hard time limit kills the worker.                              *)
HardLimit == exec \in {"working", "ended"} /\ ran >= Budget /\ Killed

-----------------------------------------------------------------------------
Advance(t) == IF t > Stale + Budget THEN t ELSE t + 1

(* A heartbeat interval passes.  The thread had its turn in the last one,  *)
(* a task that fetched its run marks it at once, and nothing outlives the  *)
(* hard limit.                                                             *)
Tick ==
  /\ ~due /\ exec # "fetched"
  /\ exec \in {"working", "ended"} => ran < Budget
  /\ queued' = Advance(queued) /\ ran' = Advance(ran) /\ quiet' = Advance(quiet)
  /\ due' = (exec = "working")
  /\ UNCHANGED <<row, committed, launch, message, exec, pinged, missed, reading, outcome>>

(* Mutant: _pending_abandonment leaves a queued run alone for ever.        *)
PendingIsPatient == "none"

(* _pending_abandonment: why a pending run was lost, "none" if it was not. *)
PendingAbandonment == IF queued > Budget THEN "never_started" ELSE "none"

(* Mutant: one interval without a ping is enough.                          *)
RunningIsImpatient ==
  IF quiet <= 1 THEN "none" ELSE "abandoned"

(* _running_abandonment.                                                   *)
RunningAbandonment ==
  IF quiet <= Stale THEN "none"
  ELSE IF pinged > Budget THEN "timed_out" ELSE "abandoned"

Found == IF status = "pending" THEN PendingAbandonment ELSE RunningAbandonment

(* Mutant: final runs are judged like running ones.                        *)
ReadAny(r) ==
  /\ reading[r] = NoReading
  /\ committed
  /\ Found # "none"
  /\ reading' = [reading EXCEPT ![r] = [status |-> status, cause |-> Found]]
  /\ UNCHANGED <<row, committed, launch, message, exec, clocks, thread, outcome>>

(* A reader fetches the run and asks `abandonment` why it has no executor. *)
Read(r) ==
  /\ reading[r] = NoReading
  /\ committed /\ status \in Live
  /\ Found # "none"
  /\ reading' = [reading EXCEPT ![r] = [status |-> status, cause |-> Found]]
  /\ UNCHANGED <<row, committed, launch, message, exec, clocks, thread, outcome>>

(* Mutant: the UPDATE is keyed on the run alone.                           *)
ReconcileAlways(r) ==
  /\ reading[r] # NoReading
  /\ status' = "failed" /\ cause' = reading[r].cause
  /\ reading' = [reading EXCEPT ![r] = NoReading]
  /\ UNCHANGED <<committed, launch, message, exec, clocks, thread, outcome>>

(* reconcile_abandoned_run: an UPDATE keyed on the status it read.         *)
Reconcile(r) ==
  /\ reading[r] # NoReading
  /\ IF status = reading[r].status
     THEN status' = "failed" /\ cause' = reading[r].cause
     ELSE UNCHANGED row
  /\ reading' = [reading EXCEPT ![r] = NoReading]
  /\ UNCHANGED <<committed, launch, message, exec, clocks, thread, outcome>>

-----------------------------------------------------------------------------
Launching == Dispatch \/ DispatchFails \/ Commit \/ Rollback
Executing == Take \/ Start \/ Ping \/ MissPing \/ Fail \/ Succeed \/ Save \/ Crash \/ HardLimit

Next == Launching \/ Executing \/ Tick \/ \E r \in Reader : Read(r) \/ Reconcile(r)

Spec == Init /\ [][Next]_vars

(* Time passes, the heartbeat thread gets its turn, a task that fetched    *)
(* its run goes on, Celery enforces its limit, and somebody's page is      *)
(* open.  Of the broker and of the plan nothing is assumed.                *)
Fairness ==
  /\ WF_vars(Launching)
  /\ WF_vars(Tick) /\ WF_vars(Ping \/ MissPing) /\ WF_vars(Start) /\ WF_vars(HardLimit)
  /\ \A r \in Reader : WF_vars(Read(r)) /\ WF_vars(Reconcile(r))

FairSpec == Spec /\ Fairness

-----------------------------------------------------------------------------
(* While the executor works and fewer pings in a row fail than the stale   *)
(* window has room for, no reader ever reports its run as failed: "one     *)
(* missed tick can't declare a live run abandoned" (run_health.py:59).     *)
NoFalseAlarm == exec = "working" => status = "running"

(* What the executor wrote stays, whatever a reader concluded from an      *)
(* older look at the row: "the reconciler only ever replaces pending/      *)
(* running, never a status a run has already reached" (run_health.py:20).  *)
OutcomeStands == exec = "done" => status = outcome

(* A run does not read as pending or running for ever, whoever of its      *)
(* launcher, broker, worker and plan was lost, as long as somebody looks.  *)
EveryRunEnds == committed ~> [](status \in Final)

(* The cause "Never started: no worker picked this run up ... its dispatch *)
(* was lost or no worker is running" (run_health.py:171) is not given to a *)
(* run that a worker picked up and could not find.                         *)
NeverStartedIsTrue == cause = "never_started" => exec # "lost"

=============================================================================
