# BrewGIS in TLA+

BrewGIS is a land use planning application: planners paint parcels of a
scenario's canvas with new values, split and merge parcels, import data, filter
layers and run analyses over the result. It is a Django application with Celery
workers on PostGIS, tile servers (Martin, tipg), SQLMesh for the derived tables,
Django Channels for events, and a Lit/MapLibre front end. These modules model
its core state machines and algorithms, check them with TLC and prove the main
results with TLAPS.

Paths below are relative to `src/brewgis/workspace/` unless they start with
`src/`.

## 1. The system

Every request runs in one database transaction (`ATOMIC_REQUESTS`, PostgreSQL
READ COMMITTED); MCP tools, workers and management commands run in autocommit.
Long work is a row with a status plus a Celery task (prefork, four processes,
acknowledged when received). Saving such a row publishes an event to the page's
websocket after the commit.

| part | state it keeps | operations | hard behaviour |
|---|---|---|---|
| Paint overlay and log (`views/paint.py`, `models.py`) | `PaintedCanvas` overrides, `PaintEvent` log | direct, built form, match and fill paint; clear; undo of an event or a batch | any order of paint, clear and undo; workers and requests at once |
| Geometry edits (`views/paint.py`, `services/canvas_view_manager.py`) | `ParcelGeometryEdit` rows, the cell id sequence, the canvas view over base, edits and paint | grid, merge, undo | edits of edits, undo out of order, reads made before the transaction |
| Paint runs (`views/paint.py`, `tasks.py`, `signals.py`, `services/map_events.py`, `workspace_map.html`, `map-socket.ts`) | `PaintRun` status, broker queue, the page's wait | enqueue, execute, publish, look | dispatch against commit, lost events, killed workers, reconnects |
| Analysis runs (`analysis/pipeline.py`, `analysis/run_health.py`) | `AnalysisRun` status, cause, heartbeat | launch, execute, ping, reconcile | dispatch against commit, crashes, time limits, readers that write |
| SQLMesh plans (`analysis/sqlmesh_runner.py`) | SQLMesh's environment and views | plan, purge | plans of several processes, each on an environment it read before |
| Scenario canvases, analysis schemas, filters (`services/scenario_canvas.py`, `scenario_analysis.py`, `scenario_cloner.py`, `spatial_filter.py`) | a row and a SQLMesh model each | create, clone, delete, analyze, apply, unapply, reconcile | half-done deletes, models without rows and rows without models |
| Other doors to the overlay (`views/merge.py`, `mcp/tools/paint.py`) | the same overrides, notes as events | merge, MCP paint, clear, undo | a log of their own, or none |
| Map events and the page's copy (`services/map_events.py`, `consumers.py`, `src/js/src/components/brew-gis-map.ts`) | sockets, the page's tiles and list of layers | publish, receive, reload, resync | events lost while the socket is down, answers out of order |
| Tile servers (`services/tile_server.py`) | Martin's cache and catalog | purge, restart, wait | purge before the commit, restart under the requests of other writers, failures that are only logged |
| Data imports (`tasks.py`, `views/data_import.py`) | `DataImportRun` status, imported tables, layers, symbologies | submit, fetch, clone, register, style, poll | failures that save nothing, tables that several imports write |
| Built form matching (`built_forms/matching.py`, `views/paint.py`, `src/brewgis/sqlmesh/models/base_canvas/built_form_fill.py`) | none beside the overlay | match, fill, allocate | the same rules in Python and in SQL, NULLs, rounding |
| Symbology (`symbology/`) | none | classify, style, draw | ties, few values, hidden zeros |
| Filter compilers (`services/filter_compiler.py`) | none | to SQL, to MapLibre | NULL in comparisons, empty groups and lists |
| Module order (`analysis/module_registry.py`) | none | resolve | cycles, unregistered modules |
| Paint constraints, presentation, exports, fetchers, SQL models | none the others rely on | | |

How they interact: paint, clear and undo write the overlay, the edits and the
log; the canvas view shows base, edits and overlay to the tile servers and to
the analyses; paints, grids and merges arrive as paint runs, clears and undos
as requests; scenarios, analyses and filters are published by SQLMesh plans
that any process may start; every writer tells the tile servers (purge or
restart) and the pages (map events) itself.

What makes each part correct: the log explains the overlay and undo walks it
back (overlay); the visible parcels partition the ground and conserve its
values (edits); the page learns the true outcome (paint runs, imports); a
status tells the truth and becomes final (analysis runs); the environment lists
the models of the rows and no plan undoes another's work (canvases); the page's
copy never goes back and catches up (map events, tile servers); twin rules
agree (matching, filters); a legend is what is drawn (symbology).
`PROJECT.json` lists the hazards that threaten these, each at its line, with
the properties that watch it.

## 2. Modules

| module | models | checked by | proved in |
|---|---|---|---|
| `PaintHistory` | overlay and log, each operation atomic | `history` | `PaintProofs` |
| `PaintTxn` | the same operations as transactions; implements `PaintHistory` | `transactions` | `PaintProofs` |
| `OverlayDoors` | `PaintHistory` with the MCP tools and the merge | `other_doors` | |
| `GeometryEdits` | grid, merge, their undo, the canvas view | `edits` | `GeometryEditsProofs` |
| `PaintRun` | paints from a page to workers and back | `paint_run` | `PaintRunProofs` |
| `AnalysisRun` | one analysis run, its executor, heartbeat and readers | `analysis`, `analysis_launch_race` | `AnalysisProofs` |
| `CanvasModels` | scenarios, analyses and filters against SQLMesh's environment | `canvas_models` | `CanvasModelsProofs` |
| `Mirror` | what a page is promised about something the server keeps | by refinement | |
| `MapSync` | writers, Martin or tipg, events, the page; its tiles implement `Mirror` | `map_sync` | `MapProofs` |
| `Imports` | import runs, their tasks, tables and layers, the page that polls | `imports` | `ImportsProofs` |
| `BuiltForms` | the matching rules in Python and SQL, match, fill and allocation | `built_forms` | `BuiltFormsProofs` |
| `Classifiers` | breaks, style classes and the drawn step expression | `rules` | `MapProofs` |
| `ModuleOrder` | the search for the order of analysis modules, call by call | `rules` | `AnalysisProofs` |
| `LayerFilters` | a filter tree compiled to SQL and to MapLibre | `rules` | `MapProofs` |

`MC...` modules hold the symmetry sets, the sample data and the small canvases
for TLC; `MCRules` runs the last three modules, whose only state is a problem
and its answer, over all small inputs. Two
refinements are stated. `PaintTxn` extends `PaintHistory` with its transactions
and shows that they implement its `Spec` over the same rows and log (`Atomic`).
`MapSync!TilesMirror` is `Mirror`, instantiated with the rows behind a source.

Where the code breaks what its documentation promises, the failing case is in
the model and in the run, and the property excepts it by its cause: a history
variable records that the cause occurred (`disturbed`, `stale`, `struck`,
`wronged`, `doubt`, `told`, `behind`, `displaced`, `overtaken`), the property's
comment names it and the line it is against, and section 5 lists it. No action's
guard reads a history variable.

**PaintHistory.** `rows` maps each (feature, column) to its override or to
`NoRow`; `log` is the sequence of batches, each with the cells it has events
for, their old and new values and those already undone. NULL overrides are
kept apart from missing rows, because the canvas view and the old values of
the log cannot tell them apart and undo can. A built form run may write any
set of cells: features without a match are skipped and the columns depend on
the building types. The row undo leaves is `Reverted`: the old value for a
clear, the old value or no row for a paint, the row as it is for an undo (the
code has no branch for it). `reverts` is a history field; no action reads it.

**PaintTxn.** Each client is a connection with one open transaction: the
SELECT of the old values, the write, the commit, or a rollback at any point.
Row locks, blind deletes and what a statement sees follow PostgreSQL's READ
COMMITTED and are marked external. Each transaction must be one step of
`PaintHistory`, at its commit, or none. Transactions may use common cells at
any time. One of which a cell was in another commit since it began is
`disturbed`: it may log or restore what never was, and all `Atomic` asks of it
is to leave every other cell as it is.

**OverlayDoors.** The MCP tools' paint, clear and undo and the scenario merge,
as further operations on `PaintHistory`'s rows. An MCP note is an event of no
cell that keeps its features as JSON in `batch_id`.

**GeometryEdits.** A parcel's geometry is a set of units of ground; a parcel's
values are one tag per unit, so conservation of extensive totals is
conservation of tags. Base parcels are positive numbers and cells negative
ones, like the ids of the code, and `Survivor` orders them as Python orders
the strings. `Claimant`, `VisibleEdits`, `VisibleBase` and `Shown` are the
claims query, the two branches of the union and the COALESCE of
`build_canvas_view_select`. A grid or merge reads (`Read...`) before its
transaction and writes (`Write...`) later; between the two anything may happen,
another edit of the same parcels included, and an edit then written over other
parcels than it read is `stale`. A grid partitions its selection and drops the
cells that lie within `Speck`, those of at most 1 m2. Undo reverts the chosen
events and deletes every edit of the batch.

**AnalysisRun.** One row, its launcher (in a request's transaction, or in
autocommit for the MCP server), the broker's message, the executor, the
heartbeat thread and readers that first judge the row and later write. Time
is counted in heartbeat intervals; timestamps are ages that stop counting
just past the largest bound they are compared with. `Tick` waits for the
heartbeat's turn and for what must happen within an interval.

**PaintRun.** The request with its commit hook, the row, the queue, the worker
processes (`Slots`), and on the page the looks, the events on their way and
the socket, which may open for the first time at any moment. `Faults` selects
what may go wrong. `struck` records the runs whose worker was killed, whose
event was refused, or which ended before the page's socket had ever opened:
nothing in the code repairs those.

**CanvasModels.** A scenario, an analysis and a filter each have a row, and a
model that SQLMesh's environment lists and a plan publishes. `rows`, `listed`
and `view` are those three. An operation is a script of purges and plans
(`Script`); each step loads the project from the rows it sees, reads the
environment (`Read`) and later promotes or is refused because another promotion
came first (`cur`). A delete goes on whatever its purge raises; a request rolls
its row back and keeps what its plan promoted; the two reconciliations purge
and plan what is missing. Scenarios may claim one view name. `calm`, `alone` and
`wronged` are history: when nothing overlapped or failed, and what a scenario's
deletion took along that is not its own to take (the view of a namesake) or left
listed (its filters' models). SQLMesh itself is external.

**Mirror, MapSync.** `Mirror` is the promise: a page's copy may be late or
blank, never goes straight back, and catches up with what the page is owed.
`MapSync` counts the committed versions of the rows behind one source and of
the list of layers. A writer of each kind (page paint, MCP paint, plan of an
edited filter, analysis, layer save, application of a filter) commits, purges
or restarts Martin and publishes in the order of its code; each purge, restart
and publication may fail, and the wait for Martin may time out. A page takes
events, refetches tiles, asks for its list after the debounce, is answered in
any order or not at all, opens its socket late, loses and reopens it with the
resync that follows. `doubt` records that something that keeps Martin's tiles
current failed, `told[p]` the kinds of change that page has been told of since,
`behind` that the newest reload that ended failed or was overtaken. What the
list promises is liveness with these exceptions, so `ListCatchesUp` says it
directly. `Kinds[b]` chooses which writers a workspace with backend `b` has.

**Imports.** A run is created by a form (dispatched inside its transaction) or
by an MCP tool (in autocommit), taken by a worker, and walks through its task:
plan the fetch models, clone their rows into a table, register the layer,
generate its symbology, complete. Raster files append to one table; edits
(allocation, stitching) change a table where it is. A table's rows are the
requests they answer. Requests may share models and tables, as all counties of
a workspace do. A lost task saves nothing. The page polls while the run is
pending or running. `maker` remembers which run created a layer; `overtaken` and
`displaced`, which fetches copied another request's rows or had their table
written by another fetch.

**BuiltForms.** Every rule of `matching.py` in both its forms, `Match` and
`KeyMatch` of the paint surfaces, `FillMatch` of the base canvas SQL, and the
densities an allocation paints. A parcel and a library are chosen at the
start; then matches and fills follow in any order. `Null` and zero are kept
apart, since Python's `or` and SQL's COALESCE treat them differently.

**Classifiers.** Natural breaks over buckets, with the table of the code and the
splits it skips, quantile and equal interval breaks, the style classes
`auto.py` makes of them and the step expression `generator.py` draws. A column
is a bag of integers, so sums of squares are exact where the code computes
floats; `Scale` is a multiple of every number of rows, so that costs are whole.
`Sorted` is ORDER BY, said by counting rows; `Table` and `ClassEnds` are the
code's two passes over `lower` and `variance`, as recursive functions.

**ModuleOrder.** The depth-first search of `resolve_module_order` as steps over
an explicit stack of calls: a frame is one call of `_add_with_deps`, with the
dependencies its loop goes through and how many it has called. `seen` and
`in_progress` are the listed modules and those of the stack. `Needed`,
`Circular` and `IsModuleOrder` say without a search what it should find.

**LayerFilters.** Conditions, spatial conditions and groups as records; a tree
is the sequence of its nodes, the root first, and a group has the numbers of
its children. `SqlNode` gives PostgreSQL's three values and `Preview` what
MapLibre draws or refuses. `FilterDrawsItsTree` compares both with `Says`, a
two-valued reading of the tree.

## 3. What is checked

| run | bounds | shows |
|---|---|---|
| `history` | 2 cells, 2 values and NULL, 5 batches | `LogExplainsRows`, `UndoWalksBack`, `UndoneOnce` in all orders of operations |
| `transactions` | 2 clients, 2 cells, 3 batches, common cells included | `Atomic`: transactions implement `PaintHistory`, rollbacks included, but for disturbed ones |
| `edits` | 2 base parcels of 2 units and 1, one of them a speck, 3 cells, 3 batches, 2 workers on any parcels | `EditsCompose`, `EditsConserveValues`, `UndoRestoresCanvas`, `CellsAreNew` |
| `analysis` | stale window 4, budget 6, 3 missed pings, 2 readers, crashes | `NoFalseAlarm`, `OutcomeStands`, `EveryRunEnds` |
| `paint_run` | 2 runs, 1 process, faults of broker, worker, channel layer, request and connection, a socket that opens late | `EveryTaskFindsItsRun`, `AnswerIsTrue`, `PageLearns` |
| `map_sync` | 2 writers, 1 page, 2 changes of rows, 1 of layers, 1 lost socket, 2 requests for the list at once, every failure | `TilesMirror`: the page's tiles implement `Mirror`; `ListCatchesUp` |
| `canvas_models` | 2 scenarios of one view name, 1 analysis, 1 filter, 2 processes | `Settled`: undisturbed, the environment lists the rows' models; `NothingLost`: no step undoes another's work |
| `built_forms` | libraries of up to 3 of 7 building types, 216 parcels, 3 matches | `TwinRulesAgree`, `MatchersAgree`, `HomesAreHoused`, `MatchSettles`, `FillRepeatsMatch` |
| `imports` | 2 runs of 7 requests that share models and tables, 2 workers, 2 lost tasks | `LayersKeepTheirRows`, `UnstyledIsUnfinished`, `PageLearnsTheEnd` |
| `rules` | columns of 6 values in up to 2 rows each, 4 classes, 5 buckets; graphs of 3 modules and the registry's, 2 of a graph's modules or an unregistered one requested; trees of 2 conditions and of nested groups | `NaturalBreaksAreBest`, `NoClassIsLost`, `MapShowsTheLegend`, `DependenciesRunFirst`, `FilterDrawsItsTree` |
| `analysis_launch_race` | no crashes | a run is reported never picked up after a worker picked it up |
| `other_doors` | 2 cells, 3 batches, 1 note | a cell shows what no event tells of |

Every other run also checks the type invariant of its module; `rules` has none,
its modules having nothing but a problem, a search and an answer.

Why the bounds are enough. The interesting histories of a cell are short:
paint, clear, undo of either, undo of an undo, a paint over an undone paint;
five batches hold them, and a second cell is enough for batches of which one
event is undone. A grid of a grid, a merge of cells, an undo from under one of
them, two tasks on one parcel and a paint between read and write need three
batches (undoing two nested edits one after the other needs four, and is left
to `UndoAlwaysRestores`); three units on two parcels give parcels that can be
cut, merged and left alone. Three batches of two clients let a transaction be
disturbed by a paint, a clear or an undo. In `analysis` only the order of the
windows matters: the stale window is shorter than the budget, and the stale
window is the four intervals of the code. Two readers can race each other and
the executor; two paint runs and one process let one run wait for the other.
Two processes of `CanvasModels` can refuse each other's promotions and undo
each other's rows, and its second scenario gives a delete something to spare
and a view to take along. Two writers of `MapSync` cover one that purges
between the other's write and its event; a second change of rows is what a
stale copy can go back from, and one change of layers is enough for an older
answer to arrive after a newer one. Two imports can share models, a table, a
layer or a worker. In `BuiltForms` the third building type gives ties and
fallbacks a loser; the archetypes include types without housing, without
densities and with names that normalize alike. Natural breaks differ from
greedy ones from four distinct values on, and five buckets over six values make
buckets of several values.

`canvas_models` takes states for one that differ only in what no step reads and
no property speaks of (`VIEW MCView`, whose comment says why).

`MaxBatches`, `MaxCells`, `MaxLooks`, `MaxNotes`, `MaxRows`, `MaxLayers`,
`MaxDrops`, `MaxAsks`, `MaxLatest`, `MaxRuns`, `MaxLost` and `MaxMatches` are
the bounds written into the modules. They make most models stop, so deadlock is
checked only in `analysis` and `canvas_models`; `PaintRun` also stops once
every paint is answered.

**The runs that end in a violation** each check one sentence of the source
(quoted in `PROJECT.json` under findings):

- a lost dispatch is one that no worker picked up (`analysis/run_health.py:171`);
- every paint operation is logged for undo (`models.py:743`), whatever door it
  came through.

**Fairness.** `AnalysisRun`: the launcher finishes its request, time passes,
the heartbeat thread gets its turn, a task that fetched its row marks it,
Celery enforces its hard limit, and a reader looks; nothing is assumed of the
broker or of the plan, so `EveryRunEnds` covers runs that are never taken or
never return. `PaintRun`: requests, tasks and looks are served, delivered
events are received, a closed socket is reopened (the client retries for ever);
a free worker takes a message eventually, strongly fair because one process
alternates between runs. `MapSync`: a writer that began goes on, and the page
fetches, takes its events, reopens its socket, asks for its list and is
answered or refused; nobody has to write or to pan, nor Martin to start, nor a
socket to open for the first time. `Imports`: requests end, workers take tasks
and work, pages poll. Faults are never fair.

## 4. What is proved

`PaintProofs`, first of `PaintHistory`, for all features, columns, values and
lengths of the log: `TypeCorrect`, `LogExplains`, `NeverUndoneTwice` and
`WalksBack`, from the assumptions that NULL and the missing row are not values
and differ. None of the three safety properties is inductive. `UndoWalksBack`
speaks of the newest live batch of a cell; to survive its undo, the batch below
must be known to have written just what this one replaced. So the inductive
invariant `HistoryInv` adds `Links` (every undo points back at a batch that
carries its marks) and `UndoStack` (the live batches of a cell undone in order
form a stack in which each logs as old what the one below logs as new). Steps
are reduced to two shapes, a write and an undo, and each conjunct is shown for
both.

Then of `PaintTxn`, for all clients, cells and values, a natural number of
batches and finitely many clients: `TxnTypeCorrect`, overlapping transactions
included, and `Implements`: on common cells or not, a transaction is one step of
`PaintHistory` or none, unless it was disturbed. Every action stutters on rows
and log except the commits, and the commit of an undisturbed transaction is the
`PaintHistory` operation the client asked for, because of `SInv`: as long as it
is undisturbed, what it asked for could still be asked for, the rows of its
cells are as it saw them, and it wrote what is due (`Promised`); and each
running one has room for its batch (`Room`). The delicate case is two undos of
one batch: undisturbed they can only run event by event, and the commit of one
leaves the events of the other still to undo. A disturbed transaction writes
its own cells only (`Confined`).

`GeometryEditsProofs`, for any base canvas, cells and values. With overlapping
operations or without, `TypeCorrect` and `CellsStayNew` follow from `Known`:
only parcels that were made are edited, logged or planned. That a merge's
survivor is one of its sources rests on least numbers of finite sets of ids.

- `EditsAlwaysCompose` and `ValuesAreConserved`. `EditsCompose` counts the
  parcels that show a unit, which says nothing of why a later edit may take a
  parcel over. The inductive invariant `SInv` does: `EditsOk` (the rows of one
  batch hold disjoint ground and claim the same sources), `AllRedrawn` (what the
  rows of a batch that is not stale hold is what each of its sources held when
  it was claimed, all but specks of it), `Plans` (the pieces of a running grid
  or merge cut what it read) and `Unpainted`. From `Redrawn`, a unit of ground
  is followed from the base parcel through each batch that claimed its parcel to
  the one that shows it. Conservation is the step of `Write...` over parcels that
  still show what was read. That an edit was written over what it had read is a
  condition of the properties, not of the theorems: section 5 has the overlap
  that fails.
- `UndoAlwaysRestores`. `UInv` adds to the types
  `UndosOk` (an undo marks events of an earlier batch), `EditsStand` (every edit
  is of a batch that was not undone), `NewCells` (an edit's parcel is new or a
  source) and `Remembered`: as long as undos went newest first, each standing
  batch was applied to the canvas of the older edits with the paint rolled back
  to it.

`PaintRunProofs`, for any runs, slots and faults: `TypeCorrect`;
`TasksFindTheirRuns`; `TheAnswerIsTrue`. The invariant follows a run through
its stations: `Posted` (no task before the commit), `TakenOnce` (at most one
task or worker per run), `Outcome` (the status and what the paint did agree)
and `Told` (what is on its way to the page, or arrived, is the saved status).

`AnalysisProofs`, for all windows, budgets and readers: `TypeCorrect`;
`InOrder`, that launcher, broker and executor act one after the other;
`OutcomeIsKept`, because a reader's UPDATE is keyed on a live status and a done
run holds a final one; `NeverAFalseAlarm` under `MaxMissed < Stale`, from an
invariant that bounds the silence by the missed pings (`HeartbeatIsFresh`) and
says that whoever saw a silent running run saw it after its executor stopped
(`SeenRunningIsOver`).

And in the same module, of `ModuleOrder`: `DependenciesAlwaysFirst`, for any
finite registry and any requests. `OrderIsInvariant` has the inductive
invariant: the stack is a chain, each call made by the one below
(`IsCallStack`); what a call has been through is listed (`CallsReturn`); only
needed modules are listed or called (`OnlyNeeded`), each after its dependencies
(`ListedInOrder`). So a module that is called from within its own call is on a
circle of the graph, and a complete list has every needed module. `Needed`
looks along paths no longer than the registry has modules; `SearchGrows` shows
by counting that longer ones reach nothing more. The registry's own graph is
never refused: `RegistryDescends` gives every module a level above those of its
dependencies.

`CanvasModelsProofs`, for any scenarios, runs, filters and processes:
`TypeCorrect` and `NothingIsLost`, from `Fresh`: a step that may still be
promoted has read the listing that is current. The theorem thus says what
SQLMesh's refusal of a moved environment buys. `EnvironmentSettles` proves
`Settled`, which speaks of idle moments only; its invariant `CInv` says what
holds while an operation is on its way. `OneAtATime`: where nothing overlapped,
or a repair is alone, no other process works. `TaskOk`: what is left to do is
the rest of the operation's script. `Progress`: the rows an operation counts on
are there (`Promised`), and the steps it has taken added what they were for,
removed it, or made good what was missing (`Made`, `Removed`, `Repairing`).
`KeptBut(InHand)`: every model that no operation is about is as it should be, or
`wronged`. The one hypothesis is that scenarios, runs and filters are different
things; scenarios may share view names.

`MapProofs`, for any pages, finitely many writers of any kinds and any
bounds: `TypeCorrect`, `TilesNeverGoBack` and `NewsOfTheListArrives`.
`TilesNeverGoBack` is the safety half of the refinement, for every kind of
writer under Martin and tipg and every failure; its invariant bounds every
version that is cached or drawn by the committed one. `NewsOfTheListArrives` is
the safety behind `ListCatchesUp`, whatever order requests are answered in: of a
page that was told of the last change, the list is the committed one, or the
news of it is on its way (an event, the debounce, the newest request, a
reconnect), or the newest reload failed or was overtaken.

And in the same module, of `LayerFilters`: `FilterAlwaysDraws`, for every tree
and any rows. `SqlNode` and `Says` are recursive functions over the nodes.
`RecursionHolds` shows that such a function exists, for any number that grows
towards the leaves, from the least node at which none would; `NodeSaysItsSql`
then compares the two from the last node to the root, again by the first
counterexample. What is compared is three-valued on one side and two-valued on
the other: an "unknown" is not true, and only an empty group in an OR lets the
difference matter.

Of `Classifiers`, for every finite column of integers, any number of classes
and any number of buckets from two on: `ClassesAreKept`, `LegendIsDrawn` and
`BreaksAreBest`. The first two need what the breaks are (`GoodBreaks`): an
ascending selection of the column's values, from the least to the greatest, of
the right length. Quantiles have it because tiles are never empty and their
edges strictly ascend in distinct values (`TileEnds`, `TileEdgesIs`). For
natural breaks it could fail where the search of one more class begins at the
split of the row before, which may leave too few points to the earlier classes.
`TablePrunes` shows by induction over the rows that such a split is never
taken: so many classes of so many points cost nothing, and a class costs
strictly less once its first point is left out (`ClassesCost`, from an identity
over the prefix sums, with no float involved). So the ends climb by one point
or more per class, and the top class has two (`EndsClimb`). The hypothesis on
`Scale` is about the model's arithmetic only; TLC evaluates it.

`BreaksAreBest` says that the breaks cost as little as any partition (with two
points in the top class), although the code looks for the last class of a point
only from the split of the point before on. Three facts carry it. `Quadrangle`:
two classes that cross cost no more than one that holds the other, since
joining points costs more the heavier and the further apart they are
(`JoinedCost`, `FurtherCostsMore`). `Follows`, the invariant of the rows: no
split to the left of a row's own is better, and the further right a point, the
more it gains by one class more; `FirstFollows` and `NextFollows` are its base
and its step, and `RowIsBest` concludes that the skipped splits were no better.
Last, the reference is compared with the table class by class: every cut costs
at least what the table says (`NoCutIsBetter`), and the breaks' own cut exactly
that (`TableIsACut`). In exact numbers: the code's floats may round a tie
either way.

`ImportsProofs`, for any requests, workers, runs and losses: `TypeCorrect`;
`UnfinishedLeavesUnstyled`; `ImportedRowsStay`, however requests share models
and tables. The invariant: a run is executed by one worker, at a step of its
kind; whoever created an unstyled layer is still about to style it, or lost;
and what is about to be copied or registered answers its request, unless it was
overtaken or displaced (`Kept`).

`BuiltFormsProofs`, for any building types, parcels, sectors, normalization and
size of the library: all the run's properties, as `TypeCorrect`,
`TwinsAlwaysAgree`, `MatchersAlwaysAgree`, `HomesAlwaysHoused`, `MatchesSettle`
and `FillsRepeat`. The assumptions: names normalize, and neither NULL nor the
empty text is one; the sectors are distinct and none is called "none", as in
the code's tuple of sectors. `Consistent` libraries and the absence of ties are
hypotheses of the properties themselves.

- The rules of one parcel need no invariant. The loop over the sectors is a
  recursive function; `LoopRuns` shows that it exists, and `LoopFinds` that its
  value is the first sector with most jobs, both from the least number at which
  they would fail. A match is the first of the closest candidates (`Chosen`);
  `MatchComesFirst` compares it with every other candidate in the four
  expressions of the fill's ORDER BY, one after the other.
- What a step leaves needs `IInv`: `Recorded`, that the canvas shows the
  densities and the name of the type recorded last, and `Final`, that matching
  again gives that type. `Final` holds from the first match on for a parcel
  without homes and from the second for all: a parcel of jobs may be given its
  first dwelling units, and from then on another basis and another rule apply
  to it, whose match is the closest to what it now holds.

Only model-checked: `EveryRunEnds`, `PageLearns`, `PageLearnsTheEnd` and the
catching up of `TilesMirror` and `ListCatchesUp`, which are liveness under
fairness, out of the prover's reach. Every invariant and every action property
of the passing runs is proved.

The invariants were checked by TLC as invariants of the runs' instances before
they were proved.

## 5. Known disagreements

Where the code does something other than it, or its comments, promise. The two
violation runs show the first two; the others were met while modelling. Those a
module reaches are in its run, and the property that would claim them says in
its comment what it excepts and which line that is against.

*Overlay and edits.* An analysis is dispatched before its row is committed
(`analysis/pipeline.py:247`). MCP tools and the merge write beside the log
(`mcp/tools/paint.py:57`, `views/merge.py:94`). Nothing locks the cells of a
paint, clear or undo between its SELECT and its write: a clear logs the rows
its SELECT returned and deletes those its DELETE finds (`views/paint.py:198`),
so a paint in between is deleted unlogged; a paint logs an old value that
another paint has replaced (1047); two undos of one event both restore and both
log (725). `Atomic` excepts these transactions (`disturbed`). Two edits of one
parcel at once overlap on the ground (`views/paint.py:1904`; `stale`); so does
an edit undone from under a later one (`views/paint.py:814`). A grid loses the
specks it drops (`views/paint.py:1782`), though its shares are computed as if
its cells covered their sources (1573-1577) and docstrings say they do (1554,
1724). A merge undone by its own event alone leaves the survivor's paint
cleared (`views/paint.py:805`). A parcel's last column hides the others from
the MCP constraint check (`mcp/tools/paint.py:226`), an MCP clear by column
raises FieldError, and an MCP note can outgrow the 64 characters of `batch_id`.
NOT_NULL flags values that are not null (`services/paint_constraints.py:76`).
The warnings of a check pass through a module global, harmless while a worker
process runs one task at a time.

*Runs and the page.* With four missed pings a completed analysis keeps the
`failure_cause` of a false alarm (`analysis/pipeline.py:204`). A page whose
first socket opens after its run ended waits for ever
(`src/js/src/utils/map-socket.ts:86`, against `workspace_map.html:754`;
`struck`). A paint
run's or import's killed task is never repaired, and the tasks' soft limits and
`max_retries` are never used.

*Tiles and events.* Page paints purge Martin before their commit
(`services/scenario_canvas.py:260`): a tile fetched in between puts the old rows
back, and no later purge comes. An analysis announces its rows before Martin's
restart (`analysis/pipeline.py:206-216`), and a new filter restarts Martin under
every other layer without telling its pages. A purge, restart or wait that fails
is logged and nothing repeats it (`services/tile_server.py:60-77`, 96-108,
143-162). `TilesMirror` excepts these (`doubt`, `told`) until a page is told
again. A built form change of the base canvas announces nothing under tipg
(`views/base_canvas.py:217-220`), and a second import of a table sends no
`tiles.changed`. An event the channel layer refuses while the sockets stay open
is followed by no resync, and a page whose first socket opens late is not told
what came before. Two answers to `reloadLayers` that arrive out of order leave
the older list, and a reload that fails leaves the old one
(`src/js/src/components/brew-gis-map.ts:536-547`); `ListCatchesUp` excepts both
(`behind`).

*Canvases.* Schema names are not scoped by workspace: two scenarios of one slug
share a view, and a delete of either drops the other's, against "The schema only
ever holds that view" (`services/scenario_canvas.py:225-226`). A scenario's
filters are deleted with its layers without `refresh_filter_models`
(`models.py:368-381`), against `layer_owns_filter_models`
(`services/spatial_filter.py:455-460`): their models stay listed until the next
purge of filter models. `Settled` excepts both (`wronged`). Two simultaneous
deletes of one scenario are excluded.

*Imports.* Two counties of one region share `acs_block_group` (`tasks.py:98`,
166), so the later replaces the earlier's rows, and fetches of two boxes or
counties share models, so a plan between another's plan and copy has it copy
the wrong rows (`tasks.py:85-103`): both against "An imported layer must keep
the rows it was imported with" (`services/fetch_clone.py:15-16`).
`LayersKeepTheirRows` excepts both (`displaced`). A POI table's name is cut at
63 characters and can collide the same way. A layer whose creator was lost
before it styled it stays unstyled: later imports find it and complete without
(`tasks.py:114`), and only the lost run, for ever running, tells of it.

*Built forms.* The fill builds `key_basis` and never uses it
(`src/brewgis/sqlmesh/models/base_canvas/built_form_fill.py:257`, docstring
51-57); ties go to the lowest id
there and to the first name in paint (docstring 60-62); a zero density counts
as unset wherever `or` supplies the default; `"sf" in column` catches `attsf`
too (`views/paint.py:2232`).

*Symbology.* As many classes as values, or more, give one class less than there
are values, the largest sharing the class below, against "each value gets its
own class" (`symbology/classifiers.py:411`); the test of the case
(`src/tests/workspace/test_classifiers.py:116`) checks the breaks.
`NoClassIsLost` states what the code does: the breaks are all the values, the
classes one less. Equal intervals of a constant column repeat one break.

*Filters.* A group's preview is emitted as `["and", ...]` or `["or", ...]`
(`services/filter_compiler.py:223-224`), which MapLibre does not know (`all`,
`any`); the editor's root is always a group, so its previews are refused. An
empty group inside an OR lets every row through. An ordering with an empty
value, and a `contains` left on a numeric column, part SQL and preview.

## 6. What is not modelled

- Eager mode (development and tests), request validation, responses, wording.
- Population, floor area, water, energy, trips and parking of an allocation; a
  paint of `PaintHistory` writes arbitrary values.
- Grid geometry: cells are any partition of the selection, less those within
  `Speck`. The rounding of whole-number columns cell by cell
  (`views/paint.py:1531`), which does not conserve their totals.
- The refresh of Martin after a base canvas is rebuilt
  (`views/base_canvas.py:195-225`).
- Blanks other than spaces, which Python strips and SQL's btrim keeps, and the
  fill's expressions for the key and for columns other than those of the match.
- Duplicate delivery of tasks by the broker: none is configured.
- SQLMesh's own work inside a plan; the rebuild of published relations that are
  missing, restatements and column lookups.
- `basemap.changed`, and the toasts of import and analysis events.
- Filters that share a source projection, and values whose type is not their
  column's.
- Logarithmic and standard deviation breaks, labels, palettes, categorical and
  single symbologies.
- Paint constraints: one value against one rule.
- SQL and Python models, linter rules, management commands, the default
  library, fetchers, exports, templates and the admin. They are most of the
  repository's lines, and are statements, tables of constants and input and
  output in sequence rather than states; that keeps the modelled share of its
  lines low.

Parts listed as partly modelled in `PROJECT.json` name what they leave out.

## 7. Plan

Done: all modules and proofs of section 2. Left, most useful first:

1. The rebuild of missing published relations in `CanvasModels`.
