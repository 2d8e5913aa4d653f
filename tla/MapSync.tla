------------------------------- MODULE MapSync ------------------------------
(***************************************************************************)
(* How open map pages follow the database: the writers of a layer's rows,  *)
(* Martin's tile cache and its restarts, the map events and the websocket  *)
(* that carries them, the page's tiles and its list of layers.             *)
(*                                                                         *)
(* Rows and the list of layers are counted by version.  One source of      *)
(* tiles is modelled: pages and writers of other sources only share the    *)
(* socket.  tipg reads the database per request; Martin answers from its   *)
(* cache, which nothing but a purge or a restart empties.  Purges,         *)
(* restarts, the wait for Martin, the publication of events and the reload *)
(* of the list are best-effort in the code: each may fail at any time.     *)
(***************************************************************************)
EXTENDS Integers, Sequences, SequencesExt, FiniteSets

CONSTANTS
    Page,       \* open map pages
    Writer,     \* requests, workers and MCP calls that change something
    Backend,    \* the tile server backends workspaces may have
    Kinds,      \* Kinds[b]: the kinds of writers a workspace with backend b has
    MaxRows, MaxLayers, MaxDrops, MaxAsks   \* bounds on the counters

ASSUME KindsAssumption ==
    Kinds \in [Backend -> SUBSET {"paint", "mcp", "plan", "analysis", "layer", "apply"}]
ASSUME WriterAssumption == IsFiniteSet(Writer)
ASSUME BoundsAssumption ==
    /\ MaxRows \in Nat /\ MaxLayers \in Nat /\ MaxDrops \in Nat /\ MaxAsks \in Nat

VARIABLES
    backend,    \* Workspace.tile_server_backend
    rows,       \* committed version of the rows behind the source
    layers,     \* committed version of the list of layers
    martin,     \* "up", or "starting" after a restart
    known,      \* Martin's catalog has the source
    cache,      \* the version of the tiles Martin has cached, or NoTile
    job,        \* job[w]: where writer w is
    page,       \* page[p]: the state of a page, see PageType
    drops,      \* sockets lost so far
    doubt,      \* history: something that keeps Martin's tiles current failed
    told        \* history: told[p], the kinds of change page p is told of in full

vars == <<backend, rows, layers, martin, known, cache, job, page, drops, doubt, told>>
tileServer == <<martin, known, cache, doubt>>

NoTile == -2
Blank == -1
NoAnswer == -3

Jobs == {"idle", "purged", "written", "promoted", "waiting", "refreshed",
         "built", "completed", "planned", "holding", "layered"}

\* A writer that is about to change the list.
Listing == {"planned", "holding", "layered"}

\* A request for the list; late once a newer one has ended.
AskType == [answer : {NoAnswer} \union 0..MaxLayers, late : BOOLEAN]

PageType ==
    [sock  : {"new", "open", "down"},         \* new: not opened yet
     inbox : Seq({"tiles", "layers"}),        \* events on their way
     tiles : {Blank} \union 0..MaxRows,       \* the version drawn
     want  : BOOLEAN,                         \* tiles to be fetched again
     list  : 0..MaxLayers,                    \* the version of this.layers
     timer : BOOLEAN,                         \* a reload is scheduled
     asks  : Seq(AskType),                    \* requests for the list
     behind : BOOLEAN]  \* history: the newest request that ended failed, or
                        \* an older one ended after it

TypeOK ==
    /\ backend \in Backend
    /\ rows \in 0..MaxRows
    /\ layers \in 0..MaxLayers
    /\ martin \in {"up", "starting"}
    /\ known \in BOOLEAN
    /\ cache \in {NoTile} \union 0..MaxRows
    /\ job \in [Writer -> Jobs]
    /\ page \in [Page -> PageType]
    /\ drops \in 0..MaxDrops
    /\ doubt \in BOOLEAN
    /\ told \in [Page -> SUBSET {"tiles", "layers"}]

Init ==
    /\ backend \in Backend
    /\ rows = 0 /\ layers = 0 /\ drops = 0
    /\ martin = "up"
    /\ known \in BOOLEAN
    /\ cache = NoTile
    /\ job = [w \in Writer |-> "idle"]
    /\ page = [p \in Page |->
                 [sock |-> "new", inbox |-> <<>>, want |-> FALSE,
                  tiles |-> IF backend = "martin" /\ ~known THEN Blank ELSE 0,
                  list |-> 0, timer |-> FALSE, asks |-> <<>>, behind |-> FALSE]]
    /\ doubt = FALSE
    /\ told = [p \in Page |-> IF backend = "martin" /\ ~known THEN {"layers"}
                              ELSE {"tiles", "layers"}]

---------------------------------------------------------------------------
(* The tile servers. *)

\* Pages are no longer told of all the changes of this kind.
Forget(kind) == told' = [p \in Page |-> told[p] \ {kind}]

\* purge_martin_cache drops the source's tiles, unless the request fails or
\* Martin cannot be reached, which is logged; tipg has nothing to purge.
Purge ==
    /\ \/ cache' = cache
       \/ backend = "martin" /\ martin = "up" /\ cache' = NoTile
    /\ doubt' = (cache' # NoTile)

\* restart_martin: every cached tile and the catalog go.
RestartMartin ==
    /\ martin' = "starting"
    /\ known' = FALSE /\ cache' = NoTile /\ doubt' = FALSE
    /\ Forget("tiles")

\* The restarted Martin has scanned the database again.
MartinReady ==
    /\ martin = "starting"
    /\ martin' = "up" /\ known' = TRUE
    /\ UNCHANGED <<backend, rows, layers, cache, job, page, drops, doubt, told>>

\* Martin's own reload, every ten minutes, finds new sources.
MartinReload ==
    /\ backend = "martin" /\ martin = "up" /\ ~known
    /\ known' = TRUE
    /\ UNCHANGED <<backend, rows, layers, martin, cache, job, page, drops, doubt, told>>

---------------------------------------------------------------------------
(* Writers. *)

\* A source Martin does not know yet is one a plan is about to create.
Starts(w, kind) ==
    /\ job[w] = "idle" /\ kind \in Kinds[backend]
    /\ kind \in {"plan", "layer", "apply"} \/ known \/ rows > 0 \/ backend # "martin"

\* Writers on their way to change the rows or the list count against the bounds.
RowsLeft == rows + Cardinality({w \in Writer : job[w] = "purged"}) < MaxRows
LayersLeft == layers < MaxLayers /\ \A w \in Writer : job[w] \notin Listing

Become(w, where) == job' = [job EXCEPT ![w] = where]

\* notify_map on commit: the event goes to the sockets that are open then.
Published(kind) ==
    [p \in Page |-> IF page[p].sock = "open"
                    THEN [page[p] EXCEPT !.inbox = Append(@, kind)]
                    ELSE page[p]]

\* The tile server is there, and nothing that keeps its tiles current failed.
Sound == backend # "martin" \/ (martin = "up" /\ known /\ ~doubt)

\* Whoever has had a socket hears of it, now or by the resync after it opens
\* again; publishing is best-effort.
Announce(kind) ==
    \/ /\ page' = Published(kind)
       /\ told' = [p \in Page |->
                     IF page[p].sock # "new" /\ (kind = "tiles" => Sound')
                     THEN told[p] \union {kind} ELSE told[p] \ {kind}]
    \/ UNCHANGED page /\ Forget(kind)

\* Rows change, and it is not announced yet.
RowsChange == rows' = rows + 1 /\ Forget("tiles")

\* A paint, clear, undo, grid or merge purges at the end of its transaction.
PaintPurges(w) ==
    /\ Starts(w, "paint") /\ RowsLeft
    /\ Purge
    /\ Become(w, "purged")
    /\ UNCHANGED <<backend, rows, layers, martin, known, page, drops, told>>

PaintCommits(w) ==
    /\ job[w] = "purged"
    /\ rows' = rows + 1
    /\ Become(w, "idle")
    /\ UNCHANGED <<backend, layers, tileServer, drops>>
    /\ Announce("tiles")

PaintRollsBack(w) ==
    /\ job[w] = "purged"
    /\ Become(w, "idle")
    /\ UNCHANGED <<backend, rows, layers, tileServer, page, drops, told>>

\* An MCP paint runs in autocommit: its rows first, the purge after.
McpPaints(w) ==
    /\ Starts(w, "mcp") /\ RowsLeft
    /\ RowsChange
    /\ Become(w, "written")
    /\ UNCHANGED <<backend, layers, tileServer, page, drops>>

\* Mutant: the paint announces its rows and leaves the cached tiles.
McpOnlyAnnounces(w) ==
    /\ job[w] = "written"
    /\ Become(w, "idle")
    /\ UNCHANGED <<backend, rows, layers, tileServer, drops>>
    /\ Announce("tiles")

McpPurges(w) ==
    /\ job[w] = "written"
    /\ Purge
    /\ Become(w, "idle")
    /\ UNCHANGED <<backend, rows, layers, martin, known, drops>>
    /\ Announce("tiles")

\* An applied filter is edited: SQLMesh's plan commits on its own ...
PlanPromotes(w) ==
    /\ Starts(w, "plan") /\ RowsLeft
    /\ RowsChange
    /\ Become(w, "promoted")
    /\ UNCHANGED <<backend, layers, tileServer, page, drops>>

\* ... then ensure_martin_source: restart Martin for a source it does not know,
\* purge one it does, or do nothing, where the catalog cannot be read or the
\* restart fails ...
PlanRefreshes(w) ==
    /\ job[w] = "promoted"
    /\ \/ /\ backend = "martin" /\ martin = "up" /\ ~known
          /\ RestartMartin /\ Become(w, "waiting")
       \/ /\ Purge /\ Become(w, "refreshed")
          /\ UNCHANGED <<martin, known, told>>
    /\ UNCHANGED <<backend, rows, layers, page, drops>>

\* (wait_until_martin_ready returns when Martin has the source, or after 90 s)
PlanWaits(w) ==
    /\ job[w] = "waiting"
    /\ Become(w, "refreshed")
    /\ UNCHANGED <<backend, rows, layers, tileServer, page, drops, told>>

\* ... and the request commits.
PlanAnnounces(w) ==
    /\ job[w] = "refreshed"
    /\ Become(w, "idle")
    /\ UNCHANGED <<backend, rows, layers, tileServer, drops>>
    /\ Announce("tiles")

\* _execute_analysis_run: the plan, the completed status, then the restart,
\* which may do nothing.
AnalysisBuilds(w) ==
    /\ Starts(w, "analysis") /\ RowsLeft
    /\ RowsChange
    /\ Become(w, "built")
    /\ UNCHANGED <<backend, layers, tileServer, page, drops>>

AnalysisCompletes(w) ==
    /\ job[w] = "built"
    /\ Become(w, "completed")
    /\ UNCHANGED <<backend, rows, layers, tileServer, drops>>
    /\ Announce("tiles")

AnalysisRestarts(w) ==
    /\ job[w] = "completed"
    /\ \/ backend = "martin" /\ RestartMartin
       \/ /\ backend = "martin" /\ doubt' = TRUE /\ Forget("tiles")
          /\ UNCHANGED <<martin, known, cache>>
       \/ backend # "martin" /\ UNCHANGED <<tileServer, told>>
    /\ Become(w, "idle")
    /\ UNCHANGED <<backend, rows, layers, page, drops>>

\* A Layer, LayerGroup or SymbologyConfig is saved; the event waits for the
\* commit.
LayerSaves(w) ==
    /\ Starts(w, "layer") /\ LayersLeft
    /\ Become(w, "layered")
    /\ UNCHANGED <<backend, rows, layers, tileServer, page, drops, told>>

\* apply_filter: a new layer over a source of its own, for which Martin is
\* restarted, or not; the request then waits for it, or gives up.
ApplySaves(w) ==
    /\ Starts(w, "apply") /\ LayersLeft
    /\ Become(w, "planned")
    /\ UNCHANGED <<backend, rows, layers, tileServer, page, drops, told>>

ApplyRefreshes(w) ==
    /\ job[w] = "planned"
    /\ \/ backend = "martin" /\ martin = "up" /\ RestartMartin /\ Become(w, "holding")
       \/ Become(w, "layered") /\ UNCHANGED <<tileServer, told>>
    /\ UNCHANGED <<backend, rows, layers, page, drops>>

ApplyWaits(w) ==
    /\ job[w] = "holding"
    /\ Become(w, "layered")
    /\ UNCHANGED <<backend, rows, layers, tileServer, page, drops, told>>

LayerCommits(w) ==
    /\ job[w] = "layered"
    /\ layers' = layers + 1
    /\ Become(w, "idle")
    /\ UNCHANGED <<backend, rows, tileServer, drops>>
    /\ Announce("layers")

---------------------------------------------------------------------------
(* The page. *)

\* What the tile server answers now.
Served ==
    IF backend # "martin" THEN rows
    ELSE IF martin # "up" \/ ~known THEN Blank
    ELSE IF cache = NoTile THEN rows ELSE cache

\* Mutant: a failed answer is cached too.
FetchCachingFailures(p) ==
    /\ page[p].want
    /\ page' = [page EXCEPT ![p].tiles = Served, ![p].want = FALSE]
    /\ cache' = IF backend = "martin" THEN Served ELSE cache
    /\ UNCHANGED <<backend, rows, layers, martin, known, doubt, job, drops, told>>

\* Tiles fetched after a paint's purge and before its commit are the old ones,
\* and nothing purges them again.
Fetch(p) ==
    /\ page[p].want
    /\ page' = [page EXCEPT ![p].tiles = Served, ![p].want = FALSE]
    /\ cache' = IF backend = "martin" /\ Served # Blank THEN Served ELSE cache
    /\ doubt' = (doubt \/ (cache' # NoTile /\ \E w \in Writer : job[w] = "purged"))
    /\ UNCHANGED <<backend, rows, layers, martin, known, job, drops, told>>

\* The user moves the map: tiles are fetched without an event.
Pan(p) ==
    /\ ~page[p].want
    /\ page' = [page EXCEPT ![p].want = TRUE]
    /\ UNCHANGED <<backend, rows, layers, tileServer, job, drops, told>>

\* _handleMapEvent
TakeEvent(p) ==
    /\ page[p].inbox # <<>>
    /\ page' = [page EXCEPT ![p].inbox = Tail(@),
                            ![p].want = @ \/ Head(page[p].inbox) = "tiles",
                            ![p].timer = @ \/ Head(page[p].inbox) = "layers"]
    /\ UNCHANGED <<backend, rows, layers, tileServer, job, drops, told>>

\* The debounce timer fires: reloadLayers asks for the list.
AskForLayers(p) ==
    /\ page[p].timer /\ Len(page[p].asks) < MaxAsks
    /\ page' = [page EXCEPT
                  ![p].timer = FALSE,
                  ![p].asks = Append(@, [answer |-> NoAnswer, late |-> FALSE])]
    /\ UNCHANGED <<backend, rows, layers, tileServer, job, drops, told>>

\* map_layers_json reads the list; requests are served in any order.
AnswerLayers(p, i) ==
    /\ i \in DOMAIN page[p].asks /\ page[p].asks[i].answer = NoAnswer
    /\ page' = [page EXCEPT ![p].asks[i].answer = layers]
    /\ UNCHANGED <<backend, rows, layers, tileServer, job, drops, told>>

\* The requests that are left after the i-th has ended.
Remaining(asks, i) ==
    RemoveAt([j \in DOMAIN asks |-> [asks[j] EXCEPT !.late = @ \/ j < i]], i)

\* The answer arrives and replaces this.layers, whatever was asked since.
TakeLayers(p, i) ==
    /\ i \in DOMAIN page[p].asks /\ page[p].asks[i].answer # NoAnswer
    /\ page' = [page EXCEPT ![p].list = page[p].asks[i].answer,
                            ![p].behind = page[p].asks[i].late,
                            ![p].asks = Remaining(@, i)]
    /\ UNCHANGED <<backend, rows, layers, tileServer, job, drops, told>>

\* The request fails: reloadLayers warns and returns, nothing asks again.
ReloadFails(p, i) ==
    /\ i \in DOMAIN page[p].asks
    /\ page' = [page EXCEPT ![p].behind = @ \/ ~page[p].asks[i].late,
                            ![p].asks = Remaining(@, i)]
    /\ UNCHANGED <<backend, rows, layers, tileServer, job, drops, told>>

\* The socket opens for the first time, late perhaps: nothing is fetched for
\* what was published before.
FirstOpen(p) ==
    /\ page[p].sock = "new"
    /\ page' = [page EXCEPT ![p].sock = "open"]
    /\ UNCHANGED <<backend, rows, layers, tileServer, job, drops, told>>

\* The socket is lost, and with it what was on its way.
Drop(p) ==
    /\ page[p].sock = "open" /\ drops < MaxDrops
    /\ page' = [page EXCEPT ![p].sock = "down", ![p].inbox = <<>>]
    /\ drops' = drops + 1
    /\ UNCHANGED <<backend, rows, layers, tileServer, job, told>>

\* A page that resyncs is told of everything, the tiles if they are current.
Resynced(p) ==
    told' = [told EXCEPT ![p] = IF Sound THEN {"tiles", "layers"} ELSE {"layers"}]

\* Mutant: after a reconnect only the tiles are fetched again.
ReopenForTiles(p) ==
    /\ page[p].sock = "down"
    /\ page' = [page EXCEPT ![p].sock = "open", ![p].want = TRUE]
    /\ Resynced(p)
    /\ UNCHANGED <<backend, rows, layers, tileServer, job, drops>>

\* It opens again: _resyncAfterReconnect.
Reopen(p) ==
    /\ page[p].sock = "down"
    /\ page' = [page EXCEPT ![p].sock = "open", ![p].want = TRUE, ![p].timer = TRUE]
    /\ Resynced(p)
    /\ UNCHANGED <<backend, rows, layers, tileServer, job, drops>>

---------------------------------------------------------------------------
Goes(w) ==
    \/ PaintCommits(w) \/ PaintRollsBack(w) \/ McpPurges(w)
    \/ PlanRefreshes(w) \/ PlanWaits(w) \/ PlanAnnounces(w)
    \/ AnalysisCompletes(w) \/ AnalysisRestarts(w)
    \/ ApplyRefreshes(w) \/ ApplyWaits(w) \/ LayerCommits(w)

Begins(w) ==
    \/ PaintPurges(w) \/ McpPaints(w) \/ PlanPromotes(w) \/ AnalysisBuilds(w)
    \/ LayerSaves(w) \/ ApplySaves(w)

Next ==
    \/ \E w \in Writer : Begins(w) \/ Goes(w)
    \/ MartinReady \/ MartinReload
    \/ \E p \in Page :
          \/ Fetch(p) \/ Pan(p) \/ TakeEvent(p) \/ AskForLayers(p)
          \/ FirstOpen(p) \/ Drop(p) \/ Reopen(p)
          \/ \E i \in 1..MaxAsks :
                AnswerLayers(p, i) \/ TakeLayers(p, i) \/ ReloadFails(p, i)

\* Requests and tasks go on, and the page's event loop, its requests (which
\* are answered or fail) and its reconnects make progress.  Nothing obliges
\* anyone to write, to move the map or to lose a socket, nor Martin to start.
Fairness ==
    /\ \A w \in Writer : WF_vars(Goes(w))
    /\ \A p \in Page :
          /\ WF_vars(Fetch(p)) /\ WF_vars(TakeEvent(p)) /\ WF_vars(Reopen(p))
          /\ WF_vars(AskForLayers(p))
          /\ \A i \in 1..MaxAsks :
                /\ WF_vars(AnswerLayers(p, i))
                /\ WF_vars(TakeLayers(p, i) \/ ReloadFails(p, i))

Spec == Init /\ [][Next]_vars /\ Fairness

---------------------------------------------------------------------------
Tiles == INSTANCE Mirror WITH
    latest <- rows, seen <- [p \in Page |-> page[p].tiles],
    owed <- [p \in Page |-> "tiles" \in told[p]], MaxLatest <- MaxRows

\* A page never goes straight back to older tiles and, once told of the last
\* change, in the end draws the committed rows: purges, restarts, lost sockets
\* and moves of the map notwithstanding (purge_martin_cache,
\* ensure_martin_source, tiles.changed, the resync).  A page is owed nothing
\* while its socket never opened, when publishing failed, and when Martin is
\* not known to be in order: a purge or an analysis run's restart failed,
\* tiles were fetched between a paint's purge and its commit, or Martin has
\* been restarted since (an analysis run announces itself before its restart,
\* a new filter restarts Martin under every other layer).
TilesMirror == Tiles!Spec

\* A page told of the last change of the layers (layers.changed, or the resync
\* after a reconnect) in the end has the committed list, unless the newest
\* reload it asked for failed or was overtaken by an older one: nothing orders
\* the answers or repeats a reload (reloadLayers).
ListCatchesUp ==
    \A p \in Page :
        []<>(page[p].list = layers \/ "layers" \notin told[p] \/ page[p].behind)

\* The news of a change of the layers is on its way to a page: the socket will
\* open again, the event is to be taken, the timer to fire, or the newest
\* request to be answered.
NewsOnItsWay(p) ==
    \/ page[p].sock = "down" \/ page[p].timer
    \/ \E k \in DOMAIN page[p].inbox : page[p].inbox[k] = "layers"
    \/ /\ page[p].asks # <<>>
       /\ ~Last(page[p].asks).late
       /\ Last(page[p].asks).answer \in {NoAnswer, layers}

\* ... or has come, unless the newest reload failed or was overtaken.
NewsArrives(p) ==
    \/ NewsOnItsWay(p)
    \/ /\ \A k \in DOMAIN page[p].asks : page[p].asks[k].late
       /\ page[p].list = layers \/ page[p].behind

\* Of a page told of the last change: the news is never lost on the way, between
\* the event, the debounce, the requests in flight and the resync
\* (_handleMapEvent, reloadLayers, _resyncAfterReconnect).
NoNewsIsLost == \A p \in Page : "layers" \in told[p] => NewsArrives(p)
=============================================================================
