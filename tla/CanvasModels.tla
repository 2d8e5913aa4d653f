---------------------------- MODULE CanvasModels ----------------------------
(***************************************************************************)
(* The SQLMesh models Django owns: one per alternative scenario's canvas,  *)
(* analyzed scenario and applied filter.  A model follows a row; SQLMesh's *)
(* environment lists it and a plan publishes its view.  Rows are written   *)
(* in requests (commit or roll back) or in autocommit (MCP tools, workers, *)
(* management commands), while plans and purges commit on their own.       *)
(***************************************************************************)
EXTENDS Integers, Sequences, FiniteSets

CONSTANTS
    Scenario,       \* ids of alternative scenarios, in the order of creation
    Run, Filter,    \* analyses and filters (the rows behind their models)
    Of,             \* Of[o]: the scenario a run or filter goes with
    ViewName,       \* ViewName[s]: the name of scenario s's canvas view
    Proc,           \* requests, workers, commands
    Autocommits     \* operations that MCP tools also offer, in autocommit

Owner == Scenario \union Run \union Filter

ASSUME ScenarioAssumption == Scenario \subseteq Nat
ASSUME KindsAssumption ==
    Scenario \intersect Run = {} /\ Scenario \intersect Filter = {} /\ Run \intersect Filter = {}
ASSUME OfAssumption == Of \in [Run \union Filter -> Scenario]
ASSUME ViewNameAssumption == DOMAIN ViewName = Scenario
ASSUME AutocommitsAssumption == Autocommits \subseteq {"create", "delete", "apply", "unapply"}

VARIABLES
    rows,       \* owners whose row is committed
    used,       \* scenarios created so far: ids are not used again
    listed,     \* owners whose model the prod environment lists
    view,       \* owners whose published view is there
    job,        \* job[p]: what process p is doing, see JobType
    calm,       \* history: kinds nothing went wrong with since the last repair
    wronged     \* history: what the deletion of a scenario took along, see Delete

vars == <<rows, used, listed, view, job, calm, wronged>>

Kinds == {"canvas", "run", "filter"}
Of_(kind) == CASE kind = "canvas" -> Scenario [] kind = "run" -> Run
               [] kind = "filter" -> Filter

Ops == {"create", "delete", "launch", "apply", "unapply", "canvases", "analyses"}
Steps == {"purge", "purgeRuns", "plan"}

JobType ==
    [op    : Ops \union {"none"},
     owner : SUBSET Owner,      \* the row it is about
     auto  : BOOLEAN,           \* TRUE: every statement commits on its own
     todo  : Seq(Steps),        \* what it still has to do before its commit
     names : SUBSET Owner,      \* the models the current step is about
     open  : BOOLEAN,           \* the current step has read the environment
     base  : SUBSET Owner,      \* ... and this is what it listed
     cur   : BOOLEAN,           \* no other plan or purge was promoted since
     trips : BOOLEAN,           \* the plan found entries of no model
     alone : BOOLEAN]           \* history: nobody else was active meanwhile

TypeOK ==
    /\ rows \subseteq Owner
    /\ used \subseteq Scenario
    /\ listed \subseteq Owner
    /\ view \subseteq Owner
    /\ job \in [Proc -> JobType]
    /\ \A p \in Proc : job[p].op = "none" => job[p].todo = <<>>
    /\ \A p \in Proc : job[p].open => job[p].todo # <<>>
    /\ calm \subseteq Kinds
    /\ wronged \subseteq Owner

NoJob == [op |-> "none", owner |-> {}, auto |-> FALSE, todo |-> <<>>, names |-> {},
          open |-> FALSE, base |-> {}, cur |-> FALSE, trips |-> FALSE, alone |-> FALSE]

Init ==
    /\ rows = {} /\ used = {} /\ listed = {} /\ view = {}
    /\ job = [p \in Proc |-> NoJob]
    /\ calm = Kinds /\ wronged = {}

---------------------------------------------------------------------------
(* What belongs to what. *)

\* scenario_canvas_profiles: of two scenarios that claim one view, the one
\* with the lowest id has a model.
Modelled(R) ==
    {o \in R : o \in Scenario =>
        ~\E s \in R \intersect Scenario : s < o /\ ViewName[s] = ViewName[o]}

Belonging(S) == {o \in Run \union Filter : Of[o] \in S}
RunsOf(S) == {o \in Run : Of[o] \in S}

\* The rows process p sees: its own transaction's changes, nobody else's.
Seen(p) ==
    IF job[p].auto THEN rows
    ELSE CASE job[p].op \in {"create", "apply"} -> rows \union job[p].owner
           [] job[p].op = "unapply" -> rows \ job[p].owner
           [] OTHER -> rows

\* Mutant: a delete forgets the analysis models.
ScriptWithoutRuns(op) ==
    CASE op \in {"create", "launch"} -> <<"plan">>
      [] op \in {"delete", "unapply"} -> <<"purge">>
      [] OTHER -> <<"purge", "plan">>

Script(op) ==
    CASE op \in {"create", "launch"} -> <<"plan">>
      [] op = "delete" -> <<"purge", "purgeRuns">>
      [] op = "unapply" -> <<"purge">>
      [] OTHER -> <<"purge", "plan">>

Active(p) == job[p].op # "none"

---------------------------------------------------------------------------
(* Operations begin. *)

Begin(p, op, owner, auto) ==
    LET alone == \A q \in Proc : ~Active(q)
        new == [NoJob EXCEPT !.op = op, !.owner = owner, !.auto = auto,
                             !.todo = Script(op), !.alone = alone]
    IN /\ ~Active(p)
       /\ auto => op \in Autocommits \union {"launch", "canvases", "analyses"}
       /\ job' = [q \in Proc |-> IF q = p THEN new
                                 ELSE IF Active(q) THEN [job[q] EXCEPT !.alone = FALSE]
                                 ELSE job[q]]
       /\ calm' = IF alone THEN calm ELSE {}
       /\ UNCHANGED listed

\* create_scenario, by the view or by the MCP tool.
Create(p, s, auto) ==
    /\ s \notin used /\ \A t \in Scenario : t < s => t \in used
    /\ used' = used \union {s}
    /\ rows' = IF auto THEN rows \union {s} ELSE rows
    /\ Begin(p, "create", {s}, auto)
    /\ UNCHANGED <<view, wronged>>

\* The views that go with scenario s: its schema is its view's, whoever's.
SharedView(s) == {t \in Scenario : ViewName[t] = ViewName[s]}

\* Scenario.delete; in autocommit the DROP VIEW is committed at once. It takes
\* the view of every scenario that claims the name, and the filters of the
\* scenario's layers go with them by cascade, without refresh_filter_models:
\* the environment keeps their models.
Delete(p, s, auto) ==
    /\ s \in rows
    /\ \A q \in Proc : s \notin job[q].owner
    /\ view' = IF auto THEN view \ SharedView(s) ELSE view
    /\ wronged' = wronged \union (rows \intersect
                     ((SharedView(s) \ {s}) \union (Belonging({s}) \intersect Filter)))
    /\ Begin(p, "delete", {s}, auto)
    /\ UNCHANGED <<rows, used>>

\* An AnalysisRun of the scenario is created, then a worker plans its models.
Launch(p, r) ==
    /\ Of[r] \in rows
    /\ rows' = rows \union {r}
    /\ Begin(p, "launch", {r}, TRUE)
    /\ UNCHANGED <<used, view, wronged>>

\* apply_filter, by the view or by the MCP tool; also an edit of a filter that
\* is applied.
Apply(p, f, auto) ==
    /\ Of[f] \in rows
    /\ \A q \in Proc : f \notin job[q].owner
    /\ rows' = IF auto THEN rows \union {f} ELSE rows
    /\ Begin(p, "apply", {f}, auto)
    /\ UNCHANGED <<used, view, wronged>>

\* unapply_filter, or a delete of the filter, its layer or its filtered layer.
Unapply(p, f, auto) ==
    /\ f \in rows
    /\ \A q \in Proc : f \notin job[q].owner
    /\ rows' = IF auto THEN rows \ {f} ELSE rows
    /\ Begin(p, "unapply", {f}, auto)
    /\ UNCHANGED <<used, view, wronged>>

\* reconcile_scenario_canvases, reconcile_scenario_analyses
Reconcile(p, op) ==
    /\ op \in {"canvases", "analyses"}
    /\ Begin(p, op, {}, TRUE)
    /\ UNCHANGED <<rows, used, view, wronged>>

---------------------------------------------------------------------------
(* Steps of an operation. *)

KindOf(op) == CASE op \in {"create", "delete", "canvases"} -> "canvas"
                [] op \in {"launch", "analyses"} -> "run"
                [] OTHER -> "filter"

Stale(p, kind) == (listed \intersect Of_(kind)) \ Modelled(Seen(p))

Purged(p) ==
    IF job[p].op # "delete" THEN Stale(p, KindOf(job[p].op))
    ELSE IF Head(job[p].todo) = "purge" THEN job[p].owner ELSE RunsOf(job[p].owner)

\* A repair plans every model of its kind; that of the analyses only when
\* some of them have been built.
Planned(p) ==
    LET all == Of_(KindOf(job[p].op)) \intersect Modelled(Seen(p)) IN
    CASE job[p].op = "canvases" -> all
      [] job[p].op = "analyses" -> IF all \intersect listed = {} THEN {} ELSE all
      [] OTHER -> job[p].owner

\* Mutant: the next step believes it has read the environment.
NextStepStillOpen(p) == [job[p] EXCEPT !.todo = Tail(@)]

\* The step is over; the next one reads for itself.
NextStep(p) == [job[p] EXCEPT !.todo = Tail(@), !.open = FALSE, !.names = {}, !.base = {},
                              !.cur = FALSE, !.trips = FALSE]

\* What a failure does: Scenario.delete goes on, a request rolls back, in
\* autocommit what is done stays done.
AfterFailure(p) == IF job[p].op = "delete" THEN NextStep(p) ELSE NoJob

Fails(p) ==
    /\ job' = [job EXCEPT ![p] = AfterFailure(p)]
    /\ calm' = {}

\* The step loads the project and reads the environment.  A purge that finds
\* nothing to remove, and a repair with nothing to plan, write nothing; a
\* plan cannot select what is not a model.
Read(p) ==
    /\ job[p].todo # <<>> /\ ~job[p].open
    /\ LET plan == Head(job[p].todo) = "plan"
           names == IF plan THEN Planned(p) ELSE Purged(p) \intersect listed
           unknown == plan /\ ~names \subseteq Modelled(Seen(p))
       IN \/ /\ names = {}
             /\ job' = [job EXCEPT ![p] = NextStep(p)] /\ calm' = calm
          \/ names # {} /\ unknown /\ Fails(p)
          \/ /\ names # {} /\ ~unknown
             /\ job' = [job EXCEPT ![p] =
                   [@ EXCEPT !.open = TRUE, !.names = names, !.base = listed, !.cur = TRUE,
                             !.trips = plan /\ ~listed \subseteq Modelled(Seen(p))]]
             /\ calm' = calm
    /\ UNCHANGED <<rows, used, listed, view, wronged>>

\* Another step's read is out of date once something was promoted.
Outdated(j, p) == [q \in Proc |-> IF q = p THEN j ELSE [job[q] EXCEPT !.cur = FALSE, !.trips = FALSE]]

\* promote refuses an environment whose plan chain moved on.
Refused(p) ==
    /\ job[p].open /\ ~job[p].cur
    /\ Fails(p)
    /\ UNCHANGED <<rows, used, listed, view, wronged>>

PromotePurge(p) ==
    /\ job[p].open /\ job[p].cur
    /\ Head(job[p].todo) # "plan"
    /\ listed' = job[p].base \ job[p].names
    /\ wronged' = wronged \ job[p].names
    /\ job' = Outdated(NextStep(p), p)
    /\ UNCHANGED <<rows, used, view, calm>>

\* Mutant: whatever was promoted since.
PromotePlanAnyway(p) ==
    /\ job[p].open
    /\ Head(job[p].todo) = "plan"
    /\ listed' = job[p].base \union job[p].names
    /\ view' = view \union job[p].names
    /\ job' = Outdated(NextStep(p), p)
    /\ UNCHANGED <<rows, used, calm, wronged>>

PromotePlan(p) ==
    /\ job[p].open /\ job[p].cur
    /\ Head(job[p].todo) = "plan"
    /\ listed' = job[p].base \union job[p].names
    /\ view' = view \union job[p].names
    /\ job' = Outdated(NextStep(p), p)
    /\ UNCHANGED <<rows, used, calm, wronged>>

\* An entry of no model: the promotion is recorded and dies on the way to the
\* views.
TripOver(p) ==
    /\ job[p].open /\ job[p].cur /\ job[p].trips
    /\ listed' = job[p].base \union job[p].names
    /\ \E made \in SUBSET job[p].names : view' = view \union made
    /\ job' = Outdated(AfterFailure(p), p)
    /\ calm' = {}
    /\ UNCHANGED <<rows, used, wronged>>

\* The plan, or the request after its plan, fails for a reason of its own.
BreakDown(p) ==
    /\ Active(p) /\ job[p].op # "delete"
    /\ job[p].open \/ job[p].todo = <<>>
    /\ job' = [job EXCEPT ![p] = NoJob]
    /\ calm' = {}
    /\ UNCHANGED <<rows, used, listed, view, wronged>>

\* A repair that ran alone vouches for its kind again, if it had something to
\* work on.
Repaired(p) ==
    IF ~job[p].alone THEN {}
    ELSE CASE job[p].op = "canvases" -> {"canvas"}
           [] job[p].op = "analyses" /\ rows \intersect Run \subseteq listed -> {"run"}
           [] OTHER -> {}

\* The row's change is committed, with what goes with it.  A delete waits for
\* the requests that hold a new row's reference to the scenario.
Finish(p) ==
    LET s == job[p].owner \intersect Scenario
    IN /\ Active(p) /\ job[p].todo = <<>>
       /\ job[p].op = "delete" => \A q \in Proc :
             job[q].op = "apply" => job[q].auto \/ job[q].owner \subseteq rows
                                    \/ ~job[q].owner \subseteq Belonging(s)
       /\ rows' = CASE job[p].op = "delete" -> rows \ (job[p].owner \union Belonging(s))
                    [] job[p].op = "unapply" -> rows \ job[p].owner
                    [] job[p].op \in {"create", "apply"} /\ ~job[p].auto ->
                         rows \union {o \in job[p].owner : o \in Scenario \/ Of[o] \in rows}
                    [] OTHER -> rows
       /\ view' = IF job[p].op = "delete"
                  THEN view \ (RunsOf(s) \union
                               (IF job[p].auto THEN {} ELSE UNION {SharedView(t) : t \in s}))
                  ELSE view
       /\ calm' = calm \union Repaired(p)
       /\ wronged' = IF "canvas" \in Repaired(p) THEN wronged \ Scenario ELSE wronged
       /\ job' = [job EXCEPT ![p] = NoJob]
       /\ UNCHANGED <<used, listed>>

\* A plan of the base canvas or an import: the views over what it rebuilds are
\* dropped with it, and may not come back.
BasePlan ==
    /\ \E lost \in SUBSET (view \intersect Scenario) : view' = view \ lost
    /\ calm' = calm \ {"canvas"}
    /\ job' = [q \in Proc |-> [job[q] EXCEPT !.cur = FALSE, !.alone = FALSE]]
    /\ UNCHANGED <<rows, used, listed, wronged>>

Next ==
    \/ \E p \in Proc :
          \/ \E auto \in BOOLEAN :
                \/ \E s \in Scenario : Create(p, s, auto) \/ Delete(p, s, auto)
                \/ \E f \in Filter : Apply(p, f, auto) \/ Unapply(p, f, auto)
          \/ \E r \in Run : Launch(p, r)
          \/ \E op \in Ops : Reconcile(p, op)
          \/ Read(p) \/ Refused(p) \/ PromotePurge(p) \/ PromotePlan(p)
          \/ TripOver(p) \/ BreakDown(p) \/ Finish(p)
    \/ BasePlan

Spec == Init /\ [][Next]_vars

---------------------------------------------------------------------------
AtRest == \A p \in Proc : ~Active(p)

\* When operations did not overlap and none failed since the last repair, the
\* environment lists exactly the models of the rows, and their views are
\* there: creating, deleting, analyzing, filtering and repairing each leave no
\* stale entry that a later plan trips over and no canvas without a view.
\* Deleting a scenario is the exception, twice. Its filters go without
\* refresh_filter_models, which layer_owns_filter_models asks for
\* (spatial_filter.py:455-460), and stay listed until the next purge of filter
\* models. And of scenarios of two workspaces that claim one view name, the
\* deletion of one drops the other's view, against "The schema only ever holds
\* that view" (scenario_canvas.py:225-226), until the canvases are repaired.
Settled ==
    AtRest => \A kind \in calm :
        LET mine == (Modelled(rows) \intersect Of_(kind)) \ wronged IN
        /\ (listed \intersect Of_(kind)) \ wronged = mine
        /\ mine \subseteq view

\* A plan or purge computed from an old listing never brings back an entry
\* another one removed, nor removes one another one added: a step changes the
\* environment by the models it is about, whatever ran in between.
NothingLost ==
    [][\A p \in Proc : job[p].open /\ ~job'[p].open =>
          /\ listed' \ listed \subseteq job[p].names
          /\ listed \ listed' \subseteq job[p].names]_vars

=============================================================================
