------------------------------ MODULE PaintRun ------------------------------
(***************************************************************************)
(* How a paint gets from the map page to a worker and its answer back.     *)
(*                                                                         *)
(* The page posts the paint; the view creates a PaintRun row and hands it  *)
(* to Celery once its transaction commits (views/paint.py _enqueue); a     *)
(* worker executes it, saves its status (tasks.py run_paint_operation) and *)
(* so publishes a paint.run event (signals.py, map_events.py) to the       *)
(* page's websocket (map-socket.ts); the page looks at the run when the    *)
(* event comes (workspace_map.html waitForPaintRun).                       *)
(***************************************************************************)
EXTENDS Integers, FiniteSets

CONSTANTS
  Run,     \* the paints posted from one page
  Slots,   \* worker processes: celery worker -c
  Faults   \* what may go wrong, of AllFaults

AllFaults == {"broker",   \* the broker refuses a task
              "worker",   \* a worker process is killed
              "publish",  \* the channel layer refuses an event
              "request"}  \* a look at the run gets no answer

ASSUME FaultsAssumption == Faults \subseteq AllFaults
ASSUME SlotsAssumption == Slots \in Nat

VARIABLES
  request,  \* the view of each paint
  row,      \* the committed status of each run, "none" before
  queue,    \* the runs whose message waits at the broker
  worker,   \* where the task of each run is
  painted,  \* the runs whose overlay rows and events are committed
  page,     \* what the page knows of each paint
  looks,    \* looks of the page in flight, per run
  events,   \* the runs whose end was sent to the page and not received
  socket,   \* the page's websocket
  opened,   \* it has been open before
  struck    \* history: the runs whose worker was killed, whose event was
            \* refused, or came before the page's socket first opened

server == <<request, row, queue, worker, painted>>
client == <<page, looks, events, socket, opened>>
vars == <<request, row, queue, worker, painted, page, looks, events, socket, opened,
          struck>>

Answer == {"completed", "failed"}

(* A page asks at most once at first, once for the event, and once more    *)
(* for each reconnect; looks are counted to this bound, which a further    *)
(* look while so many are unanswered would not exceed in effect.           *)
MaxLooks == 2

(* request: "created": the row is in the open transaction; "failed":       *)
(* answered with an error.                                                 *)
(* worker: "ok" and "error": the runner returned or raised; "saved": the   *)
(* status is; "gone": the task ended, or its process did.                  *)
TypeOK ==
  /\ request \in [Run -> {"none", "created", "committed", "dispatched", "done", "failed"}]
  /\ row \in [Run -> {"none", "pending", "running"} \cup Answer]
  /\ queue \in SUBSET Run
  /\ worker \in [Run -> {"none", "fetched", "running", "ok", "error", "saved", "gone"}]
  /\ painted \in SUBSET Run
  /\ page \in [Run -> {"none", "posted", "waiting", "error"} \cup Answer]
  /\ looks \in [Run -> 0 .. MaxLooks]
  /\ events \in SUBSET Run
  /\ socket \in {"open", "down"}
  /\ opened \in BOOLEAN
  /\ struck \in SUBSET Run

(* The page is loaded and its socket is on its way: a paint may be posted, *)
(* and end, before the socket first opens.                                 *)
Init ==
  /\ request = [r \in Run |-> "none"] /\ row = [r \in Run |-> "none"]
  /\ queue = {} /\ worker = [r \in Run |-> "none"] /\ painted = {}
  /\ page = [r \in Run |-> "none"] /\ looks = [r \in Run |-> 0]
  /\ events = {} /\ socket = "down" /\ opened = FALSE
  /\ struck = {}

-----------------------------------------------------------------------------
(* postPaintAction; the view validates and _enqueue creates the row, in    *)
(* the transaction of the request.                                         *)
Post(r) ==
  /\ page[r] = "none"
  /\ page' = [page EXCEPT ![r] = "posted"]
  /\ request' = [request EXCEPT ![r] = "created"]
  /\ UNCHANGED <<row, queue, worker, painted, looks, events, socket, opened, struck>>

(* Mutant: _enqueue calls delay without waiting for the commit.            *)
CommitAfterDispatch(r) ==
  /\ request[r] \in {"created", "committed"}
  /\ IF r \notin queue /\ worker[r] = "none"
     THEN queue' = queue \cup {r} /\ UNCHANGED <<request, row>>
     ELSE /\ request' = [request EXCEPT ![r] = "committed"]
          /\ row' = [row EXCEPT ![r] = "pending"]
          /\ UNCHANGED queue
  /\ UNCHANGED <<worker, painted, client, struck>>

Commit(r) ==
  /\ request[r] = "created"
  /\ request' = [request EXCEPT ![r] = "committed"]
  /\ row' = [row EXCEPT ![r] = "pending"]
  /\ UNCHANGED <<queue, worker, painted, client, struck>>

(* The on_commit hook.                                                     *)
Dispatch(r) ==
  /\ request[r] = "committed"
  /\ request' = [request EXCEPT ![r] = "dispatched"]
  /\ queue' = queue \cup {r}
  /\ UNCHANGED <<row, worker, painted, client, struck>>

(* The 202 with the poll URL reaches the page, however long after.         *)
(* waitForPaintRun listens for events, then looks for the first time.      *)
Respond(r) ==
  /\ request[r] = "dispatched"
  /\ request' = [request EXCEPT ![r] = "done"]
  /\ page' = [page EXCEPT ![r] = "waiting"]
  /\ looks' = [looks EXCEPT ![r] = 1]
  /\ UNCHANGED <<row, queue, worker, painted, events, socket, opened, struck>>

(* The hook's exception fails the request; the run stays pending.          *)
DispatchFails(r) ==
  /\ "broker" \in Faults
  /\ request[r] = "committed"
  /\ request' = [request EXCEPT ![r] = "failed"]
  /\ page' = [page EXCEPT ![r] = "error"]
  /\ UNCHANGED <<row, queue, worker, painted, looks, events, socket, opened, struck>>

-----------------------------------------------------------------------------
Busy == {r \in Run : worker[r] \in {"fetched", "running", "ok", "error", "saved"}}

Step(r, to) == worker' = [worker EXCEPT ![r] = to]

(* A free worker process takes the message and fetches the run; without a  *)
(* row the task raises DoesNotExist.                                       *)
Take(r) ==
  /\ r \in queue /\ Cardinality(Busy) < Slots
  /\ queue' = queue \ {r}
  /\ Step(r, IF row[r] = "none" THEN "gone" ELSE "fetched")
  /\ UNCHANGED <<request, row, painted, client, struck>>

Start(r) ==
  /\ worker[r] = "fetched"
  /\ Step(r, "running")
  /\ row' = [row EXCEPT ![r] = "running"]
  /\ UNCHANGED <<request, queue, painted, client, struck>>

(* The runner's transaction commits the paint and the runner returns.      *)
Work(r) ==
  /\ worker[r] = "running"
  /\ Step(r, "ok")
  /\ painted' = painted \cup {r}
  /\ UNCHANGED <<request, row, queue, client, struck>>

(* The runner returns an error (a constraint, a missing parcel) or raises: *)
(* nothing was written.                                                    *)
Refuse(r) ==
  /\ worker[r] = "running"
  /\ Step(r, "error")
  /\ UNCHANGED <<request, row, queue, painted, client, struck>>

(* Mutant: the result's own "status" is saved as the run's.                *)
SaveResultStatus(r) ==
  /\ worker[r] \in {"ok", "error"}
  /\ Step(r, "saved")
  /\ row' = [row EXCEPT ![r] = worker[r]]
  /\ UNCHANGED <<request, queue, painted, client, struck>>

(* Mutant: an error result is saved like any other.                        *)
SaveAsCompleted(r) ==
  /\ worker[r] \in {"ok", "error"}
  /\ Step(r, "saved")
  /\ row' = [row EXCEPT ![r] = "completed"]
  /\ UNCHANGED <<request, queue, painted, client, struck>>

Save(r) ==
  /\ worker[r] \in {"ok", "error"}
  /\ Step(r, "saved")
  /\ row' = [row EXCEPT ![r] = IF worker[r] = "ok" THEN "completed" ELSE "failed"]
  /\ UNCHANGED <<request, queue, painted, client, struck>>

(* post_save's notify_map: only sockets that are open get the event. One   *)
(* that was never open gets it neither now nor at its first opening.       *)
Publish(r) ==
  /\ worker[r] = "saved"
  /\ Step(r, "gone")
  /\ events' = IF socket = "open" THEN events \cup {r} ELSE events
  /\ struck' = IF opened THEN struck ELSE struck \cup {r}
  /\ UNCHANGED <<request, row, queue, painted, page, looks, socket, opened>>

(* on_commit(robust=True): a channel layer that fails costs the event.     *)
PublishFails(r) ==
  /\ "publish" \in Faults
  /\ worker[r] = "saved"
  /\ Step(r, "gone")
  /\ struck' = struck \cup {r}
  /\ UNCHANGED <<request, row, queue, painted, client>>

(* The process is killed: the hard time limit, a restart, out of memory.   *)
(* Its open transaction rolls back; its message was acknowledged early.    *)
Kill(r) ==
  /\ "worker" \in Faults
  /\ r \in Busy
  /\ Step(r, "gone")
  /\ struck' = struck \cup {r}
  /\ UNCHANGED <<request, row, queue, painted, client>>

-----------------------------------------------------------------------------
Look(n) == IF n < MaxLooks THEN n + 1 ELSE n

Waiting(r) == page[r] = "waiting"

(* check(): paint_status, _respond_for_run and the page's `then`.          *)
LookAnswered(r) ==
  /\ looks[r] > 0
  /\ looks' = [looks EXCEPT ![r] = @ - 1]
  /\ page' = IF Waiting(r) /\ row[r] \in Answer THEN [page EXCEPT ![r] = row[r]] ELSE page
  /\ UNCHANGED <<server, events, socket, opened, struck>>

(* check()'s `catch`.                                                      *)
LookFails(r) ==
  /\ "request" \in Faults
  /\ looks[r] > 0
  /\ looks' = [looks EXCEPT ![r] = @ - 1]
  /\ page' = IF Waiting(r) THEN [page EXCEPT ![r] = "error"] ELSE page
  /\ UNCHANGED <<server, events, socket, opened, struck>>

(* onMapEvent, for the run it waits for.                                   *)
Receive(r) ==
  /\ socket = "open" /\ r \in events
  /\ events' = events \ {r}
  /\ looks' = IF Waiting(r) THEN [looks EXCEPT ![r] = Look(@)] ELSE looks
  /\ UNCHANGED <<server, page, socket, opened, struck>>

(* Mutant: a reconnect tells nobody.                                       *)
OpenQuietly ==
  /\ socket = "down"
  /\ socket' = "open" /\ opened' = TRUE
  /\ UNCHANGED <<server, page, looks, events, struck>>

(* MapSocket's "open": every one but the first is a reconnect, at which    *)
(* the page looks at every run it waits for.                               *)
Open ==
  /\ socket = "down"
  /\ socket' = "open" /\ opened' = TRUE
  /\ looks' = [r \in Run |-> IF opened /\ Waiting(r) THEN Look(looks[r]) ELSE looks[r]]
  /\ UNCHANGED <<server, page, events, struck>>

(* The connection drops; what was on its way is lost.                      *)
Drop ==
  /\ socket = "open"
  /\ socket' = "down" /\ events' = {}
  /\ UNCHANGED <<server, page, looks, opened, struck>>

-----------------------------------------------------------------------------
Serving(r) == Commit(r) \/ Dispatch(r) \/ DispatchFails(r) \/ Respond(r)
Executing(r) == Start(r) \/ Work(r) \/ Refuse(r) \/ Save(r) \/ Publish(r) \/ PublishFails(r)
Looking(r) == LookAnswered(r) \/ LookFails(r)

Next ==
  \/ \E r \in Run : \/ Post(r) \/ Serving(r) \/ Take(r) \/ Executing(r) \/ Kill(r)
                    \/ Looking(r) \/ Receive(r)
  \/ Open \/ Drop

(* Requests are served, workers take messages and run, what the socket     *)
(* carries arrives, and a socket that is down is opened again.             *)
Fairness ==
  /\ \A r \in Run : /\ WF_vars(Serving(r)) /\ SF_vars(Take(r)) /\ WF_vars(Executing(r))
                    /\ WF_vars(Looking(r)) /\ WF_vars(Receive(r))
  /\ WF_vars(Open)

Spec == Init /\ [][Next]_vars /\ Fairness

-----------------------------------------------------------------------------
(* The task never runs before the row it is about is committed: deferring  *)
(* the dispatch "closes that race" (_enqueue's docstring).                 *)
EveryTaskFindsItsRun == \A r \in queue : row[r] # "none"

(* The page is told the truth: "completed" when the paint is on the map,   *)
(* "failed" when nothing was painted.                                      *)
AnswerIsTrue ==
  \A r \in Run : /\ page[r] = "completed" => r \in painted
                 /\ page[r] = "failed" => r \notin painted

(* No page waits for ever for a run that ended, but for three cases:       *)
(* through the event, the look that follows the listening, or the look     *)
(* that follows a reconnect. A page is left waiting by a worker killed in  *)
(* the middle, whose run says "running" for ever; by an event the channel  *)
(* layer refused; and by a run that ends before the page's socket opens    *)
(* for the first time, which is no reconnect (map-socket.ts:86), after the *)
(* page had looked. The last is against the page's own comment: "a run     *)
(* that already ended (or ends in between) is caught either way"           *)
(* (workspace_map.html:754).                                               *)
PageLearns ==
  \A r \in Run : page[r] = "posted" ~> page[r] \in Answer \cup {"error"} \/ r \in struck

=============================================================================
