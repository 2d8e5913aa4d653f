------------------------------- MODULE Imports ------------------------------
(***************************************************************************)
(* Data imports: the run a form or an MCP tool creates and dispatches, the *)
(* task that plans the fetch models, copies their rows into a table of the *)
(* workspace and registers a layer over it, and the page that polls the    *)
(* run.  One workspace.                                                    *)
(*                                                                         *)
(* A table's rows are the requests they answer: a fetch replaces its       *)
(* table, a raster import appends to one, an edit (allocation, stitching)  *)
(* leaves the requests behind the rows as they were.                       *)
(***************************************************************************)
EXTENDS Integers

CONSTANTS
    MaxRuns,    \* bound on the import runs
    Request,    \* what may be asked for: a county, a box, a file, an edit
    Kind,       \* Kind[q] \in {"fetch", "raster", "edit"}
    ModelOf,    \* ModelOf[q]: the models that answer fetch q
    TableOf,    \* TableOf[q]: the table q writes
    Worker,     \* worker processes
    MaxLost     \* bound on tasks that raise or are killed

Run == 1..MaxRuns    \* primary keys

Requests(kind) == {q \in Request : Kind[q] = kind}
Model == {ModelOf[q] : q \in Requests("fetch")}
Table == {TableOf[q] : q \in Request}

ASSUME ImportsAssumption ==
    /\ MaxRuns \in Nat /\ MaxLost \in Nat
    /\ Kind \in [Request -> {"fetch", "raster", "edit"}]
    /\ DOMAIN ModelOf = Requests("fetch")
    /\ DOMAIN TableOf = Request

Nothing == "nothing"
ASSUME NothingAssumption == Nothing \notin Request

VARIABLES
    request,    \* request[r]: what run r asks for, or Nothing
    row,        \* row[r]: DataImportRun.status, and whether it is committed
    queue,      \* runs whose task the broker holds
    at,         \* at[w]: the run worker w executes and its next step, or Idle
    model,      \* model[m]: the request the models m were last planned for
    table,      \* table[t]: the requests whose rows table t holds
    layers,     \* requests that have a layer
    styled,     \* requests whose layer has a symbology
    shown,      \* shown[r]: the status run r's page shows, or "none"
    lost,       \* tasks that raised or were killed so far
    maker,      \* history: maker[q] is the run that created q's layer, or 0
    overtaken,  \* history: runs whose models were planned for another request
                \* after they had planned them and before they copied
    displaced   \* history: requests whose table another request's fetch wrote
                \* since, or an overtaken fetch of their own

data == <<model, table, layers, styled, maker, overtaken, displaced>>
vars == <<request, row, queue, at, data, shown, lost>>

Live == {"pending", "running"}
Final == {"completed", "failed"}
Steps == {"plan", "clone", "extract", "change", "register", "style", "complete"}
Idle == <<>>

TypeOK ==
    /\ request \in [Run -> Request \union {Nothing}]
    /\ row \in [Run -> {"none", "uncommitted"} \union Live \union Final]
    /\ queue \subseteq Run
    /\ at \in [Worker -> {Idle} \union (Run \X Steps)]
    /\ model \in [Model -> Requests("fetch") \union {Nothing}]
    /\ table \in [Table -> SUBSET Request]
    /\ layers \subseteq Request /\ styled \subseteq layers
    /\ shown \in [Run -> {"none"} \union Live \union Final]
    /\ lost \in 0..MaxLost
    /\ maker \in [Request -> 0..MaxRuns]
    /\ overtaken \subseteq Run /\ displaced \subseteq Request

Init ==
    /\ request = [r \in Run |-> Nothing]
    /\ row = [r \in Run |-> "none"]
    /\ queue = {}
    /\ at = [w \in Worker |-> Idle]
    /\ model = [m \in Model |-> Nothing]
    /\ table = [t \in Table |-> {}]
    /\ layers = {} /\ styled = {}
    /\ shown = [r \in Run |-> "none"]
    /\ lost = 0
    /\ maker = [q \in Request |-> 0]
    /\ overtaken = {} /\ displaced = {}

---------------------------------------------------------------------------
(* Launching. *)

IsNext(r) == request[r] = Nothing /\ \A s \in 1..r-1 : request[s] # Nothing

\* form_valid: the row, then .delay(), inside the request's transaction.
Submit(r, q) ==
    /\ IsNext(r)
    /\ request' = [request EXCEPT ![r] = q]
    /\ row' = [row EXCEPT ![r] = "uncommitted"]
    /\ queue' = queue \union {r}
    /\ UNCHANGED <<at, data, shown, lost>>

\* The request commits and its page shows the pending run.
Commit(r) ==
    /\ row[r] = "uncommitted"
    /\ row' = [row EXCEPT ![r] = "pending"]
    /\ shown' = [shown EXCEPT ![r] = "pending"]
    /\ UNCHANGED <<request, queue, at, data, lost>>

\* The request fails after the dispatch.
Rollback(r) ==
    /\ row[r] = "uncommitted"
    /\ row' = [row EXCEPT ![r] = "none"]
    /\ UNCHANGED <<request, queue, at, data, shown, lost>>

\* An MCP tool: the row is committed before the dispatch, which the broker
\* may refuse; no page follows the run.
Call(r, q) ==
    /\ IsNext(r)
    /\ request' = [request EXCEPT ![r] = q]
    /\ row' = [row EXCEPT ![r] = "pending"]
    /\ queue' \in {queue, queue \union {r}}
    /\ UNCHANGED <<at, data, shown, lost>>

---------------------------------------------------------------------------
(* The task. *)

FirstStep(q) ==
    CASE Kind[q] = "fetch" -> "plan" [] Kind[q] = "raster" -> "extract"
      [] Kind[q] = "edit" -> "change"

\* The task starts; a row that is not there is DoesNotExist and the end of it.
Take(w, r) ==
    /\ at[w] = Idle /\ r \in queue
    /\ queue' = queue \ {r}
    /\ IF row[r] = "pending"
       THEN /\ row' = [row EXCEPT ![r] = "running"]
            /\ at' = [at EXCEPT ![w] = <<r, FirstStep(request[r])>>]
       ELSE UNCHANGED <<row, at>>
    /\ UNCHANGED <<request, data, shown, lost>>

Does(w, step) == at[w] # Idle /\ at[w][2] = step
RunOf(w) == at[w][1]
RequestOf(w) == request[RunOf(w)]
Then(w, step) == at' = [at EXCEPT ![w] = <<RunOf(w), step>>]

\* The runs about to copy models m that another request than q planned.
Overtakes(q, m) ==
    {RunOf(v) : v \in {u \in Worker : /\ Does(u, "clone") /\ RequestOf(u) # q
                                     /\ ModelOf[RequestOf(u)] = m}}

\* Mutant: the plan's rows are not copied.
PlanAndRegister(w) ==
    /\ Does(w, "plan")
    /\ model' = [model EXCEPT ![ModelOf[RequestOf(w)]] = RequestOf(w)]
    /\ overtaken' = overtaken \union Overtakes(RequestOf(w), ModelOf[RequestOf(w)])
    /\ Then(w, "register")
    /\ UNCHANGED <<request, row, queue, table, layers, styled, shown, lost, maker, displaced>>

\* Mutant: the copy does not wait for the plan.
PlanLater(w) ==
    /\ Does(w, "plan")
    /\ Then(w, "clone")
    /\ UNCHANGED <<request, row, queue, data, shown, lost>>

\* run_sqlmesh_plan of the fetch models, with the request as variables.
Plan(w) ==
    /\ Does(w, "plan")
    /\ model' = [model EXCEPT ![ModelOf[RequestOf(w)]] = RequestOf(w)]
    /\ overtaken' = overtaken \union Overtakes(RequestOf(w), ModelOf[RequestOf(w)])
    /\ Then(w, "clone")
    /\ UNCHANGED <<request, row, queue, table, layers, styled, shown, lost, maker, displaced>>

SharesTable(q) == {p \in Request : TableOf[p] = TableOf[q]}

\* clone_to_postgres: DROP and CREATE TABLE AS in one transaction, of what the
\* latest plan built.
Clone(w) ==
    /\ Does(w, "clone")
    /\ table' = [table EXCEPT ![TableOf[RequestOf(w)]] = {model[ModelOf[RequestOf(w)]]}]
    /\ displaced' = IF RunOf(w) \in overtaken
                     THEN displaced \union SharesTable(RequestOf(w))
                     ELSE (displaced \union SharesTable(RequestOf(w))) \ {RequestOf(w)}
    /\ Then(w, "register")
    /\ UNCHANGED <<request, row, queue, model, layers, styled, shown, lost, maker, overtaken>>

\* run_raster_pipeline: a metadata row and its bands in one transaction.
Extract(w) ==
    /\ Does(w, "extract")
    /\ table' = [table EXCEPT ![TableOf[RequestOf(w)]] = @ \union {RequestOf(w)}]
    /\ displaced' = displaced \ {RequestOf(w)}
    /\ Then(w, "register")
    /\ UNCHANGED <<request, row, queue, model, layers, styled, shown, lost, maker, overtaken>>

\* Mutant: a new layer is left without a symbology.
RegisterOnly(w) ==
    /\ Does(w, "register")
    /\ layers' = layers \union {RequestOf(w)}
    /\ maker' = IF RequestOf(w) \in layers THEN maker
                ELSE [maker EXCEPT ![RequestOf(w)] = RunOf(w)]
    /\ Then(w, "complete")
    /\ UNCHANGED <<request, row, queue, model, table, styled, shown, lost, overtaken, displaced>>

\* Layer.objects.get_or_create: of two at once one creates, one gets.
Register(w) ==
    /\ Does(w, "register")
    /\ layers' = layers \union {RequestOf(w)}
    /\ IF RequestOf(w) \in layers
       THEN maker' = maker /\ Then(w, "complete")
       ELSE /\ maker' = [maker EXCEPT ![RequestOf(w)] = RunOf(w)]
            /\ Then(w, "style")
    /\ UNCHANGED <<request, row, queue, model, table, styled, shown, lost, overtaken, displaced>>

\* auto_generate_symbology, only of a layer this run created.
Style(w) ==
    /\ Does(w, "style")
    /\ styled' = styled \union {RequestOf(w)}
    /\ Then(w, "complete")
    /\ UNCHANGED <<request, row, queue, model, table, layers, shown, lost, maker, overtaken, displaced>>

\* allocate_attributes and the imputations change columns of the table.
Change(w) ==
    /\ Does(w, "change")
    /\ Then(w, "complete")
    /\ UNCHANGED <<request, row, queue, data, shown, lost>>

Ends(w, status) ==
    /\ row' = [row EXCEPT ![RunOf(w)] = status]
    /\ at' = [at EXCEPT ![w] = Idle]
    /\ UNCHANGED <<request, queue, data, shown, lost>>

Complete(w) == Does(w, "complete") /\ Ends(w, "completed")

\* An unknown strategy, or a constant that is missing.
RefuseEdit(w) == Does(w, "change") /\ Ends(w, "failed")

\* Any call raises, the soft or hard time limit is reached, the process is
\* killed, the job cancelled: nothing is saved and nothing tries again.
Lose(w) ==
    /\ at[w] # Idle /\ lost < MaxLost
    /\ lost' = lost + 1
    /\ at' = [at EXCEPT ![w] = Idle]
    /\ UNCHANGED <<request, row, queue, data, shown>>

---------------------------------------------------------------------------
(* The page. *)

\* Mutant: a pending run is not polled.
PollWhileRunning(r) ==
    /\ shown[r] = "running"
    /\ shown' = [shown EXCEPT ![r] = row[r]]
    /\ UNCHANGED <<request, row, queue, at, data, lost>>

\* hx-trigger "every 2s" while the run is pending or running.
Poll(r) ==
    /\ shown[r] \in Live
    /\ shown' = [shown EXCEPT ![r] = row[r]]
    /\ UNCHANGED <<request, row, queue, at, data, lost>>

---------------------------------------------------------------------------
Works(w) ==
    \/ Plan(w) \/ Clone(w) \/ Extract(w) \/ Register(w) \/ Style(w) \/ Change(w)
    \/ Complete(w) \/ RefuseEdit(w)

Next ==
    \/ \E r \in Run, q \in Request : Submit(r, q) \/ Call(r, q)
    \/ \E r \in Run : Commit(r) \/ Rollback(r) \/ Poll(r)
    \/ \E w \in Worker, r \in Run : Take(w, r)
    \/ \E w \in Worker : Works(w) \/ Lose(w)

\* Requests end, the worker processes take tasks and go on, pages poll.
Fairness ==
    /\ \A r \in Run : WF_vars(Commit(r) \/ Rollback(r)) /\ WF_vars(Poll(r))
    /\ \A w \in Worker : WF_vars(Works(w)) /\ WF_vars(\E r \in Run : Take(w, r))

Spec == Init /\ [][Next]_vars /\ Fairness

---------------------------------------------------------------------------
\* "An imported layer must keep the rows it was imported with"
\* (fetch_clone.py:15-16), "the workspace's own table": a registered layer's
\* table holds the rows of the request the layer was registered for, whatever
\* was imported, edited or lost since, with two exceptions, each against that
\* line and both met in the run.  All counties of a workspace are copied into
\* one table (tasks.py:98, 166), so the next county's fetch replaces the rows
\* of every earlier county's layer.  And requests share models: a plan for
\* another county or another box between a fetch's plan and its copy has the
\* copy hold the other's rows (tasks.py:85-103).
LayersKeepTheirRows == \A q \in layers \ displaced : q \in table[TableOf[q]]

\* Run r is styling the layer it created, or was lost before it could.
Styling(r) ==
    /\ row[r] = "running"
    /\ \A w \in Worker : at[w] # Idle /\ RunOf(w) = r => at[w][2] = "style"

\* A layer without a symbology is one whose creator has not ended: that run is
\* about to style it, or was lost in between (tasks.py:114-115).  Two imports
\* of one layer at once never both leave the styling to the other.  It says
\* nothing of imports that found the layer: they complete without styling it,
\* so where its creator was lost, completed imports show an unstyled layer and
\* no later one repairs it.
UnstyledIsUnfinished ==
    \A q \in layers \ styled :
        maker[q] \in Run /\ request[maker[q]] = q /\ Styling(maker[q])

\* No task, no worker: nothing will change this run any more.
Abandoned(r) ==
    /\ row[r] \in Live /\ r \notin queue
    /\ \A w \in Worker : at[w] = Idle \/ RunOf(w) # r

\* The page that started an import shows how it ended, unless its task was
\* lost: taken before the commit, raised or killed (status.html, tasks.py).
PageLearnsTheEnd ==
    \A r \in Run : (shown[r] \in Live) ~> (shown[r] \in Final \/ Abandoned(r))
=============================================================================
