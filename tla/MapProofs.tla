------------------------------ MODULE MapProofs ------------------------------
(***************************************************************************)
(* What holds of MapSync for any number of pages, writers, changes and     *)
(* restarts, whatever fails: its types, and the safety part of the mirror  *)
(* (what a page draws may be late or blank, but is never older than what   *)
(* it drew before); and why a page told of a new list of layers gets it:   *)
(* where the news of it is, until then.                                    *)
(*                                                                         *)
(* And what holds of the rules the map is drawn by: of LayerFilters for    *)
(* every filter tree, and of Classifiers for every column and any number   *)
(* of classes.                                                             *)
(***************************************************************************)
EXTENDS MapSync, LayerFilters, Classifiers, SequenceTheorems,
        FiniteSetTheorems, WellFoundedInduction, TLAPS

---------------------------------------------------------------------------
(* Lemmas about the operators. *)

Purging == {w \in Writer : job[w] = "purged"}

\* No more rows are on their way than the bound allows, and one list at most.
Room ==
    /\ rows + Cardinality(Purging) <= MaxRows
    /\ \A w \in Writer : job[w] \in Listing =>
          layers < MaxLayers /\ \A u \in Writer : job[u] \in Listing => u = w

Told == [Page -> SUBSET {"tiles", "layers"}]

(* Where the elements after the i-th have moved.                           *)
LEMMA Shifted ==
    ASSUME NEW n \in Nat, NEW i \in 1..n, NEW k \in 1..n-1, ~(k < i)
    PROVE  k - (i - 1) \in 1..n - i /\ (k - (i - 1)) + i = k + 1 /\ ~(k <= i - 1)
OBVIOUS

(* What is left of a sequence without its i-th element.                    *)
LEMMA RemoveAtValues ==
    ASSUME NEW S, NEW s \in Seq(S), NEW i \in DOMAIN s
    PROVE  /\ RemoveAt(s, i) \in Seq(S) /\ Len(RemoveAt(s, i)) = Len(s) - 1
           /\ \A k \in 1..Len(s) - 1 : RemoveAt(s, i)[k] = IF k < i THEN s[k] ELSE s[k + 1]
<1>1. Len(s) \in Nat /\ i \in 1..Len(s)
    OBVIOUS
<1>2. \A k \in 1..i-1 : s[k] \in S
    BY <1>1
<1>3. \A k \in i+1..Len(s) : s[k] \in S
    BY <1>1
<1>4. /\ SubSeq(s, 1, i-1) \in Seq(S) /\ Len(SubSeq(s, 1, i-1)) = i - 1
      /\ \A k \in 1..i-1 : SubSeq(s, 1, i-1)[k] = s[k]
    BY <1>1, <1>2, SubSeqProperties
<1>5. /\ SubSeq(s, i+1, Len(s)) \in Seq(S) /\ Len(SubSeq(s, i+1, Len(s))) = Len(s) - i
      /\ \A k \in 1..Len(s) - i : SubSeq(s, i+1, Len(s))[k] = s[k + i]
    BY <1>1, <1>3, SubSeqProperties
<1>. DEFINE front == SubSeq(s, 1, i-1)
            back == SubSeq(s, i+1, Len(s))
<1>. HIDE DEF front, back
<1>6. RemoveAt(s, i) = front \o back
    BY DEF RemoveAt, front, back
<1>7. /\ front \in Seq(S) /\ Len(front) = i - 1 /\ \A k \in 1..i-1 : front[k] = s[k]
      /\ back \in Seq(S) /\ Len(back) = Len(s) - i
      /\ \A k \in 1..Len(s) - i : back[k] = s[k + i]
    BY <1>4, <1>5 DEF front, back
<1>8. /\ front \o back \in Seq(S) /\ Len(front \o back) = Len(s) - 1
      /\ \A k \in 1..Len(s) - 1 : (front \o back)[k] =
            IF k <= i - 1 THEN front[k] ELSE back[k - (i - 1)]
    <2>1. front \in Seq(S) /\ back \in Seq(S)
        BY <1>7
    <2>2. /\ front \o back \in Seq(S) /\ Len(front \o back) = Len(front) + Len(back)
          /\ \A k \in 1..Len(front) + Len(back) : (front \o back)[k] =
                IF k <= Len(front) THEN front[k] ELSE back[k - Len(front)]
        BY <2>1, ConcatProperties
    <2>3. Len(front) = i - 1 /\ Len(front) + Len(back) = Len(s) - 1
        BY <1>1, <1>7
    <2>. QED
        BY <2>2, <2>3
<1>9. ASSUME NEW k \in 1..Len(s) - 1
      PROVE  (front \o back)[k] = IF k < i THEN s[k] ELSE s[k + 1]
    <2>1. CASE k < i
        BY <1>1, <1>7, <1>8, <2>1
    <2>2. CASE ~(k < i)
        <3> DEFINE j == k - (i - 1)
        <3>1. j \in 1..Len(s) - i /\ j + i = k + 1 /\ ~(k <= i - 1)
            BY <1>1, <2>2, Shifted
        <3>2. (front \o back)[k] = back[j]
            BY <1>8, <3>1
        <3> HIDE DEF j
        <3>3. back[j] = s[j + i] /\ j + i = k + 1
            BY <1>7, <3>1
        <3>. QED
            BY <2>2, <3>2, <3>3
    <2>. QED
        BY <2>1, <2>2
<1>. QED
    BY <1>6, <1>8, <1>9

(* A request that becomes late, or stays what it is.                       *)
LEMMA MarkedAsk ==
    ASSUME NEW ask \in AskType, NEW older \in BOOLEAN
    PROVE  LET marked == [ask EXCEPT !.late = @ \/ older]
           IN  marked \in AskType /\ (older => marked.late) /\ (~older => marked = ask)
<1>1. ask.late \in BOOLEAN /\ ask.answer \in {NoAnswer} \union 0..MaxLayers
    BY DEF AskType
<1>2. CASE older
    <2>1. (ask.late \/ older) = TRUE
        BY <1>2
    <2>. QED
        BY <1>1, <1>2, <2>1 DEF AskType
<1>3. CASE ~older
    <2>1. (ask.late \/ older) = ask.late
        BY <1>1, <1>3
    <2>2. [ask EXCEPT !.late = ask.late] = ask
        BY DEF AskType
    <2>. QED
        BY <1>3, <2>1, <2>2
<1>. QED
    BY <1>2, <1>3

(* The requests that are left when one has ended: those before it are late.*)
LEMMA RemainingValues ==
    ASSUME NEW asks \in Seq(AskType), NEW i \in DOMAIN asks
    PROVE  /\ Remaining(asks, i) \in Seq(AskType)
           /\ Len(Remaining(asks, i)) = Len(asks) - 1
           /\ \A k \in 1..Len(asks) - 1 :
                 /\ k < i => Remaining(asks, i)[k].late
                 /\ k >= i => Remaining(asks, i)[k] = asks[k + 1]
<1>. DEFINE marked == [j \in DOMAIN asks |-> [asks[j] EXCEPT !.late = @ \/ j < i]]
<1>1. /\ Len(asks) \in Nat /\ DOMAIN asks = 1..Len(asks) /\ i \in 1..Len(asks)
      /\ \A j \in DOMAIN asks : asks[j] \in AskType
    OBVIOUS
<1>2. ASSUME NEW j \in DOMAIN asks
      PROVE  /\ marked[j] \in AskType
             /\ j < i => marked[j].late
             /\ j > i => marked[j] = asks[j]
    <2>1. asks[j] \in AskType /\ (j < i) \in BOOLEAN
        BY <1>1
    <2>2. /\ marked[j] \in AskType /\ (j < i => marked[j].late)
          /\ (~(j < i) => marked[j] = asks[j])
        BY <2>1, MarkedAsk
    <2>. QED
        BY <1>1, <2>2
<1>3. marked \in Seq(AskType) /\ Len(marked) = Len(asks) /\ DOMAIN marked = DOMAIN asks
    <2>1. DOMAIN marked = 1..Len(asks) /\ \A j \in 1..Len(asks) : marked[j] \in AskType
        BY <1>1, <1>2
    <2> HIDE DEF marked
    <2>2. marked = [j \in 1..Len(asks) |-> marked[j]]
        BY <1>1 DEF marked
    <2>. QED
        BY <1>1, <2>1, <2>2
<1>. HIDE DEF marked
<1>4. /\ RemoveAt(marked, i) \in Seq(AskType) /\ Len(RemoveAt(marked, i)) = Len(asks) - 1
      /\ \A k \in 1..Len(asks) - 1 :
            RemoveAt(marked, i)[k] = IF k < i THEN marked[k] ELSE marked[k + 1]
    BY <1>1, <1>3, RemoveAtValues
<1>5. Remaining(asks, i) = RemoveAt(marked, i)
    BY DEF Remaining, marked
<1>6. ASSUME NEW k \in 1..Len(asks) - 1
      PROVE  /\ k < i => Remaining(asks, i)[k].late
             /\ k >= i => Remaining(asks, i)[k] = asks[k + 1]
    <2>1. k \in DOMAIN asks /\ k + 1 \in DOMAIN asks
        BY <1>1
    <2>. QED
        BY <1>1, <1>2, <1>4, <1>5, <2>1
<1>. QED
    BY <1>4, <1>5, <1>6

(* One purging writer more or less changes their number by one.            *)
LEMMA PurgingCount ==
    ASSUME TypeOK, NEW w \in Writer, NEW where \in Jobs, Become(w, where)
    PROVE  /\ Cardinality(Purging) \in Nat /\ Cardinality(Purging') \in Nat
           /\ where # "purged" => Cardinality(Purging') <= Cardinality(Purging)
           /\ Cardinality(Purging') <= Cardinality(Purging) + 1
           /\ job[w] = "purged" /\ where # "purged" =>
                 Cardinality(Purging') = Cardinality(Purging) - 1
<1>1. IsFiniteSet(Purging) /\ Cardinality(Purging) \in Nat
    BY WriterAssumption, FS_Subset, FS_CardinalityType DEF Purging
<1>2. job \in [Writer -> Jobs] /\ job' = [job EXCEPT ![w] = where]
    BY DEF TypeOK, Become
<1>3. CASE where = "purged"
    <2>1. Purging' = Purging \union {w}
        BY <1>2, <1>3 DEF Purging
    <2>. QED
        BY <1>1, <1>3, <2>1, FS_AddElement, SMTT(20)
<1>4. CASE where # "purged"
    <2>1. Purging' = Purging \ {w}
        BY <1>2, <1>4 DEF Purging
    <2>2. Cardinality(Purging') = IF w \in Purging THEN Cardinality(Purging) - 1
                                                   ELSE Cardinality(Purging)
        BY <1>1, <2>1, FS_RemoveElement
    <2>3. w \in Purging => Cardinality(Purging) # 0
        BY <1>1, FS_EmptySet
    <2>. QED
        BY <1>1, <1>4, <2>2, <2>3 DEF Purging
<1>. QED
    BY <1>3, <1>4

---------------------------------------------------------------------------
(* Steps, grouped by what they may change. *)

\* Pages are told, and nothing else about them changes.
Tells == page' = page \/ \E kind \in {"tiles", "layers"} : page' = Published(kind)

(* Pages that are told of a change are pages, with what they drew.         *)
LEMMA ToldPages ==
    ASSUME TypeOK, Tells
    PROVE  /\ page' \in [Page -> PageType]
           /\ \A p \in Page : /\ page'[p].tiles = page[p].tiles
                              /\ page'[p].list = page[p].list
                              /\ page'[p].asks = page[p].asks
<1>1. page \in [Page -> PageType]
    BY DEF TypeOK
<1>2. CASE page' = page
    BY <1>1, <1>2
<1>3. ASSUME NEW kind \in {"tiles", "layers"}, page' = Published(kind)
      PROVE  /\ page' \in [Page -> PageType]
             /\ \A p \in Page : /\ page'[p].tiles = page[p].tiles
                                /\ page'[p].list = page[p].list
                                /\ page'[p].asks = page[p].asks
    <2>1. ASSUME NEW p \in Page
          PROVE  /\ page'[p] \in PageType /\ page'[p].tiles = page[p].tiles
                 /\ page'[p].list = page[p].list /\ page'[p].asks = page[p].asks
        <3>1. page[p] \in PageType /\ page[p].inbox \in Seq({"tiles", "layers"})
            BY <1>1 DEF PageType
        <3>2. PICK inbox \in Seq({"tiles", "layers"}) :
                 \/ page'[p] = [page[p] EXCEPT !.inbox = inbox]
                 \/ page'[p] = page[p]
            <4>1. Append(page[p].inbox, kind) \in Seq({"tiles", "layers"})
                BY <3>1
            <4>. QED
                BY <1>3, <3>1, <4>1, Zenon DEF Published
        <3>. QED
            BY <3>1, <3>2 DEF PageType
    <2>2. page' = [p \in Page |-> page'[p]]
        BY <1>3 DEF Published
    <2>. QED
        BY <2>1, <2>2
<1>. QED
    BY <1>2, <1>3 DEF Tells

(* What they are told of is kinds of change.                               *)
LEMMA ToldType ==
    ASSUME TypeOK, NEW kind \in {"tiles", "layers"}, Announce(kind) \/ Forget(kind)
    PROVE  told' \in Told
<1>1. told \in Told
    BY DEF TypeOK, Told
<1>2. CASE Forget(kind)
    BY <1>1, <1>2 DEF Forget, Told
<1>3. CASE Announce(kind)
    <2> DEFINE Hears(p) == page[p].sock # "new" /\ (kind = "tiles" => Sound')
    <2>1. \/ told' = [p \in Page |-> IF Hears(p) THEN told[p] \union {kind} ELSE told[p] \ {kind}]
          \/ Forget(kind)
        BY <1>3 DEF Announce
    <2> HIDE DEF Hears
    <2>. QED
        BY <1>1, <1>2, <2>1 DEF Told
<1>. QED
    BY <1>2, <1>3

\* What a writer's step may do to everything but the counters.
Works ==
    /\ Tells /\ UNCHANGED <<backend, drops>>
    /\ told' \in Told /\ doubt' \in BOOLEAN
    /\ known' \in BOOLEAN /\ martin' \in {"up", "starting"}
    /\ cache' \in {cache, NoTile}

Counts(w) ==
    \/ /\ rows' = rows + 1 /\ UNCHANGED layers
       /\ Become(w, "idle") /\ job[w] = "purged"
    \/ /\ rows' = rows + 1 /\ UNCHANGED layers
       /\ RowsLeft /\ \E where \in {"written", "promoted", "built"} : Become(w, where)
    \/ /\ UNCHANGED <<rows, layers>> /\ RowsLeft /\ Become(w, "purged")
    \/ /\ UNCHANGED rows /\ layers' = layers + 1
       /\ Become(w, "idle") /\ job[w] \in Listing
    \/ /\ UNCHANGED <<rows, layers>> /\ (job[w] \in Listing \/ LayersLeft)
       /\ \E where \in Listing : Become(w, where)
    \/ /\ UNCHANGED <<rows, layers>>
       /\ \E where \in Jobs \ ({"purged"} \union Listing) : Become(w, where)

(* Telling and not telling, as parts of a writer's step.                   *)
LEMMA TellsStep ==
    ASSUME TypeOK, NEW kind \in {"tiles", "layers"}
    PROVE  /\ Announce(kind) => Tells /\ told' \in Told
           /\ Forget(kind) => told' \in Told
           /\ UNCHANGED page => Tells
           /\ UNCHANGED told => told' \in Told
<1>1. told \in Told
    BY DEF TypeOK, Told
<1>. QED
    BY <1>1, ToldType DEF Announce, Tells

(* What a writer's step does.                                              *)
LEMMA WriterStep ==
    ASSUME TypeOK, NEW w \in Writer, Begins(w) \/ Goes(w)
    PROVE  Works /\ Counts(w)
<1>t. /\ known \in BOOLEAN /\ martin \in {"up", "starting"} /\ doubt \in BOOLEAN
      /\ (Announce("tiles") => Tells /\ told' \in Told)
      /\ (Announce("layers") => Tells /\ told' \in Told)
      /\ (Forget("tiles") => told' \in Told)
      /\ (UNCHANGED page => Tells) /\ (UNCHANGED told => told' \in Told)
    BY TellsStep DEF TypeOK
<1>1. ASSUME \/ PaintPurges(w) \/ PaintCommits(w) \/ PaintRollsBack(w)
             \/ McpPaints(w) \/ McpPurges(w) \/ LayerSaves(w) \/ LayerCommits(w)
      PROVE  Works /\ Counts(w)
    <2>. HIDE DEF Told
    <2>. QED
        BY <1>t, <1>1 DEF Works, Counts, tileServer, Purge, RowsChange, Jobs, Listing,
                PaintPurges, PaintCommits, PaintRollsBack, McpPaints, McpPurges,
                LayerSaves, LayerCommits
<1>2. ASSUME PlanPromotes(w) \/ PlanRefreshes(w) \/ PlanWaits(w) \/ PlanAnnounces(w)
      PROVE  Works /\ Counts(w)
    BY <1>t, <1>2 DEF Works, Counts, tileServer, Purge, RestartMartin, RowsChange, Jobs, Listing,
                PlanPromotes, PlanRefreshes, PlanWaits, PlanAnnounces
<1>3. ASSUME AnalysisBuilds(w) \/ AnalysisCompletes(w) \/ AnalysisRestarts(w)
      PROVE  Works /\ Counts(w)
    BY <1>t, <1>3 DEF Works, Counts, tileServer, RestartMartin, RowsChange, Jobs, Listing,
                AnalysisBuilds, AnalysisCompletes, AnalysisRestarts
<1>4. ASSUME ApplySaves(w) \/ ApplyRefreshes(w) \/ ApplyWaits(w)
      PROVE  Works /\ Counts(w)
    BY <1>t, <1>4 DEF Works, Counts, tileServer, RestartMartin, Jobs, Listing,
                ApplySaves, ApplyRefreshes, ApplyWaits
<1>. QED
    BY <1>1, <1>2, <1>3, <1>4 DEF Begins, Goes

(* The counters stay within their bounds.                                  *)
LEMMA CountsStep ==
    ASSUME TypeOK, Room, NEW w \in Writer, Counts(w)
    PROVE  /\ Room' /\ job' \in [Writer -> Jobs]
           /\ rows' \in 0..MaxRows /\ rows' \in {rows, rows + 1}
           /\ layers' \in 0..MaxLayers /\ layers' \in {layers, layers + 1}
<1>1. PICK where \in Jobs : Become(w, where)
    BY DEF Counts, Jobs, Listing
<1>2. /\ job \in [Writer -> Jobs] /\ job' = [job EXCEPT ![w] = where]
      /\ rows \in Nat /\ layers \in Nat /\ MaxRows \in Nat /\ MaxLayers \in Nat
      /\ layers <= MaxLayers
    BY <1>1, BoundsAssumption DEF TypeOK, Become
<1>3. /\ Cardinality(Purging) \in Nat /\ Cardinality(Purging') \in Nat
      /\ where # "purged" => Cardinality(Purging') <= Cardinality(Purging)
      /\ Cardinality(Purging') <= Cardinality(Purging) + 1
      /\ job[w] = "purged" /\ where # "purged" =>
            Cardinality(Purging') = Cardinality(Purging) - 1
    BY <1>1, PurgingCount
<1>4. job'[w] = where /\ \A u \in Writer \ {w} : job'[u] = job[u]
    BY <1>2
<1>5. RowsLeft => rows + Cardinality(Purging) < MaxRows
    BY DEF RowsLeft, Purging
<1>6. \A v \in Jobs : Become(w, v) => v = where
    BY <1>2, <1>4 DEF Become
<1>7. rows + Cardinality(Purging) <= MaxRows
    BY DEF Room
<1>8. /\ rows' \in {rows, rows + 1} /\ layers' \in {layers, layers + 1}
      /\ rows' + Cardinality(Purging') <= MaxRows
    <2>. HIDE DEF Purging
    <2>1. \A v \in Listing : v \in Jobs /\ v # "purged"
        BY DEF Jobs, Listing
    <2>2. CASE where = "purged"
        <3>1. UNCHANGED <<rows, layers>> /\ RowsLeft
            BY <1>6, <2>1, <2>2 DEF Counts, Jobs
        <3>. QED
            BY <1>2, <1>3, <1>5, <3>1
    <2>3. CASE where # "purged"
        <3>1. /\ layers' \in {layers, layers + 1}
              /\ \/ rows' = rows
                 \/ rows' = rows + 1 /\ (job[w] = "purged" \/ RowsLeft)
            BY <1>6, <2>3 DEF Counts, Jobs
        <3>2. rows' + Cardinality(Purging') <= MaxRows
            BY <1>2, <1>3, <1>5, <1>7, <2>3, <3>1
        <3>. QED
            BY <3>1, <3>2
    <2>. QED
        BY <2>2, <2>3
<1>9. \A v \in Writer : job'[v] \in Listing =>
          layers' < MaxLayers /\ \A u \in Writer : job'[u] \in Listing => u = v
    <2>1. CASE where \notin Listing
        <3>1. \/ layers' = layers
              \/ layers' = layers + 1 /\ job[w] \in Listing
            BY <1>6, <2>1 DEF Counts, Jobs
        <3>. QED
            BY <1>2, <1>4, <2>1, <3>1 DEF Room
    <2>2. CASE where \in Listing
        <3>1. where \notin {"idle", "purged", "written", "promoted", "built"}
            BY <2>2 DEF Listing
        <3>2. layers' = layers /\ (job[w] \in Listing \/ LayersLeft)
            BY <1>6, <2>2, <3>1 DEF Counts, Jobs
        <3>. QED
            BY <1>2, <1>4, <2>2, <3>2 DEF Room, LayersLeft
    <2>. QED
        BY <2>1, <2>2
<1>10. layers' <= MaxLayers
    BY <1>2 DEF Counts, Room
<1>. QED
    BY <1>2, <1>3, <1>8, <1>9, <1>10 DEF Room

---------------------------------------------------------------------------
(* What a page does by itself. *)

\* Page p is now `new`, and no other page or writer has moved.
Turns(p, new) ==
    /\ page' = [page EXCEPT ![p] = new]
    /\ UNCHANGED <<backend, rows, layers, job>>

\* The page as it is after it fetched its tiles.
Fetched(p) == [page[p] EXCEPT !.tiles = Served, !.want = FALSE]

(* A page that fetches draws what is served.                               *)
LEMMA FetchStep ==
    ASSUME TypeOK, NEW p \in Page, Fetch(p)
    PROVE  /\ Turns(p, Fetched(p)) /\ Served \in {Blank} \union 0..MaxRows
           /\ Fetched(p) \in PageType /\ Fetched(p).tiles = Served
           /\ Fetched(p).list = page[p].list /\ Fetched(p).asks = page[p].asks
           /\ cache' = IF backend = "martin" /\ Served # Blank THEN Served ELSE cache
           /\ UNCHANGED <<martin, known, drops, told>> /\ doubt' \in BOOLEAN
<1>1. page[p] \in PageType
    BY DEF TypeOK
<1>2. Served \in {Blank} \union 0..MaxRows
    BY DEF TypeOK, Served
<1>3. page' = [page EXCEPT ![p] = Fetched(p)]
    BY DEF Fetch, Fetched
<1>4. /\ Fetched(p) \in PageType /\ Fetched(p).tiles = Served
      /\ Fetched(p).list = page[p].list /\ Fetched(p).asks = page[p].asks
    BY <1>1, <1>2 DEF Fetched, PageType
<1>. QED
    BY <1>2, <1>3, <1>4 DEF Turns, Fetch

\* The steps of a page that leave its tiles, its list and its requests.
Idles(p) == Pan(p) \/ TakeEvent(p) \/ FirstOpen(p) \/ Drop(p) \/ Reopen(p)

(* ... and their types.                                                    *)
LEMMA IdleStep ==
    ASSUME TypeOK, NEW p \in Page, Idles(p)
    PROVE  /\ UNCHANGED <<backend, rows, layers, tileServer, job>>
           /\ drops' \in 0..MaxDrops /\ told' \in Told
           /\ \E new \in PageType : /\ Turns(p, new)
                                    /\ new.tiles = page[p].tiles
                                    /\ new.list = page[p].list
                                    /\ new.asks = page[p].asks
<1>1. page[p] \in PageType /\ drops \in 0..MaxDrops /\ MaxDrops \in Nat /\ told \in Told
    BY BoundsAssumption DEF TypeOK, Told
<1>2. CASE Pan(p)
    <2> DEFINE new == [page[p] EXCEPT !.want = TRUE]
    <2>1. Turns(p, new)
        BY <1>2 DEF Pan, Turns
    <2>2. new \in PageType /\ new.tiles = page[p].tiles /\ new.list = page[p].list
          /\ new.asks = page[p].asks
        BY <1>1 DEF PageType
    <2>. QED
        BY <1>1, <1>2, <2>1, <2>2 DEF Pan, tileServer
<1>3. CASE TakeEvent(p)
    <2> DEFINE want == page[p].want \/ Head(page[p].inbox) = "tiles"
               timer == page[p].timer \/ Head(page[p].inbox) = "layers"
               new == [page[p] EXCEPT !.inbox = Tail(page[p].inbox), !.want = want, !.timer = timer]
    <2>1. Turns(p, new)
        BY <1>3 DEF TakeEvent, Turns
    <2>2. page[p].inbox # <<>> /\ page[p].inbox \in Seq({"tiles", "layers"})
        BY <1>1, <1>3 DEF TakeEvent, PageType
    <2>3. Tail(page[p].inbox) \in Seq({"tiles", "layers"}) /\ want \in BOOLEAN /\ timer \in BOOLEAN
        BY <2>2
    <2> HIDE DEF want, timer
    <2>4. new \in PageType /\ new.tiles = page[p].tiles /\ new.list = page[p].list
          /\ new.asks = page[p].asks
        BY <1>1, <2>3 DEF PageType
    <2>. QED
        BY <1>1, <1>3, <2>1, <2>4 DEF TakeEvent
<1>4. CASE Drop(p)
    <2> DEFINE none == <<>>
               new == [page[p] EXCEPT !.sock = "down", !.inbox = none]
    <2>1. Turns(p, new)
        BY <1>4 DEF Drop, Turns
    <2>e. none \in Seq({"tiles", "layers"})
        OBVIOUS
    <2> HIDE DEF none
    <2>2. new \in PageType /\ new.tiles = page[p].tiles /\ new.list = page[p].list
          /\ new.asks = page[p].asks
        BY <1>1, <2>e DEF PageType
    <2>3. drops' = drops + 1 /\ drops < MaxDrops
        BY <1>4 DEF Drop
    <2>4. drops' \in 0..MaxDrops
        BY <1>1, <2>3
    <2>5. UNCHANGED <<backend, rows, layers, tileServer, job>> /\ told' \in Told
        BY <1>1, <1>4 DEF Drop
    <2> HIDE DEF new
    <2>. QED
        BY <2>1, <2>2, <2>4, <2>5
<1>5. CASE Reopen(p)
    <2> DEFINE new == [page[p] EXCEPT !.sock = "open", !.want = TRUE, !.timer = TRUE]
    <2>1. Turns(p, new)
        BY <1>5 DEF Reopen, Turns
    <2>2. new \in PageType /\ new.tiles = page[p].tiles /\ new.list = page[p].list
          /\ new.asks = page[p].asks
        BY <1>1 DEF PageType
    <2>3. told' \in Told
        BY <1>1, <1>5 DEF Reopen, Resynced, Told
    <2>4. drops' = drops /\ UNCHANGED <<backend, rows, layers, tileServer, job>>
        BY <1>5 DEF Reopen
    <2> HIDE DEF new
    <2>. QED
        BY <1>1, <2>1, <2>2, <2>3, <2>4
<1>6. CASE FirstOpen(p)
    <2> DEFINE new == [page[p] EXCEPT !.sock = "open"]
    <2>1. Turns(p, new)
        BY <1>6 DEF FirstOpen, Turns
    <2>2. new \in PageType /\ new.tiles = page[p].tiles /\ new.list = page[p].list
          /\ new.asks = page[p].asks
        BY <1>1 DEF PageType
    <2>3. /\ drops' = drops /\ told' = told
          /\ UNCHANGED <<backend, rows, layers, tileServer, job>>
        BY <1>6 DEF FirstOpen
    <2> HIDE DEF new
    <2>. QED
        BY <1>1, <2>1, <2>2, <2>3
<1>. QED
    BY <1>2, <1>3, <1>4, <1>5, <1>6 DEF Idles

\* The page with its requests for the list, and its list, as given.
Reloading(p, asks, list, timer, behind) ==
    [page[p] EXCEPT !.asks = asks, !.list = list, !.timer = timer, !.behind = behind]

(* ... is a page.                                                          *)
LEMMA ReloadingType ==
    ASSUME TypeOK, NEW p \in Page, NEW asks \in Seq(AskType), NEW list \in 0..MaxLayers,
           NEW timer \in BOOLEAN, NEW behind \in BOOLEAN
    PROVE  LET new == Reloading(p, asks, list, timer, behind)
           IN /\ new \in PageType /\ new.tiles = page[p].tiles
              /\ new.sock = page[p].sock /\ new.inbox = page[p].inbox
              /\ new.list = list /\ new.asks = asks
              /\ new.timer = timer /\ new.behind = behind
<1>1. page[p] \in PageType
    BY DEF TypeOK
<1>. QED
    BY <1>1 DEF Reloading, PageType

Reloads(p, i) == AnswerLayers(p, i) \/ TakeLayers(p, i) \/ ReloadFails(p, i)

\* What becomes of page p's requests, its list and its timer.
ReloadingIs(p, asks, list, timer, behind) ==
    /\ asks \in Seq(AskType) /\ list \in 0..MaxLayers
    /\ timer \in BOOLEAN /\ behind \in BOOLEAN
    /\ Turns(p, Reloading(p, asks, list, timer, behind))

(* Asking for the list, answering, taking or losing it.                    *)
LEMMA ReloadStep ==
    ASSUME TypeOK, NEW p \in Page, NEW i \in 1..MaxAsks, AskForLayers(p) \/ Reloads(p, i)
    PROVE  /\ UNCHANGED <<backend, rows, layers, tileServer, job, drops, told>>
           /\ AskForLayers(p) =>
                 ReloadingIs(p, Append(page[p].asks, [answer |-> NoAnswer, late |-> FALSE]),
                             page[p].list, FALSE, page[p].behind)
           /\ AnswerLayers(p, i) =>
                 ReloadingIs(p, [page[p].asks EXCEPT ![i].answer = layers],
                             page[p].list, page[p].timer, page[p].behind)
           /\ TakeLayers(p, i) =>
                 ReloadingIs(p, Remaining(page[p].asks, i), page[p].asks[i].answer,
                             page[p].timer, page[p].asks[i].late)
           /\ ReloadFails(p, i) =>
                 ReloadingIs(p, Remaining(page[p].asks, i), page[p].list, page[p].timer,
                             page[p].behind \/ ~page[p].asks[i].late)
<1>1. /\ page[p] \in PageType /\ page[p].asks \in Seq(AskType) /\ page[p].list \in 0..MaxLayers
      /\ page[p].timer \in BOOLEAN /\ page[p].behind \in BOOLEAN /\ layers \in 0..MaxLayers
      /\ \A k \in DOMAIN page[p].asks : page[p].asks[k] \in AskType
    BY DEF TypeOK, PageType
<1>2. UNCHANGED <<backend, rows, layers, tileServer, job, drops, told>>
    BY DEF AskForLayers, Reloads, AnswerLayers, TakeLayers, ReloadFails
<1>3. ASSUME AskForLayers(p)
      PROVE  ReloadingIs(p, Append(page[p].asks, [answer |-> NoAnswer, late |-> FALSE]),
                         page[p].list, FALSE, page[p].behind)
    <2> DEFINE new == Append(page[p].asks, [answer |-> NoAnswer, late |-> FALSE])
    <2>1. new \in Seq(AskType)
        BY <1>1 DEF AskType
    <2>2. page' = [page EXCEPT ![p].timer = FALSE, ![p].asks = new]
        BY <1>3 DEF AskForLayers
    <2> HIDE DEF new
    <2>3. page' = [page EXCEPT ![p] = Reloading(p, new, page[p].list, FALSE, page[p].behind)]
        BY <1>1, <2>2 DEF Reloading, PageType
    <2>4. ReloadingIs(p, new, page[p].list, FALSE, page[p].behind)
        BY <1>1, <1>2, <2>1, <2>3 DEF ReloadingIs, Turns
    <2>. QED
        BY <2>4 DEF new
<1>4. ASSUME AnswerLayers(p, i)
      PROVE  ReloadingIs(p, [page[p].asks EXCEPT ![i].answer = layers],
                         page[p].list, page[p].timer, page[p].behind)
    <2> DEFINE new == [page[p].asks EXCEPT ![i].answer = layers]
    <2>1. [page[p].asks[i] EXCEPT !.answer = layers] \in AskType /\ i \in DOMAIN page[p].asks
        BY <1>1, <1>4 DEF AskType, AnswerLayers
    <2>2. new \in Seq(AskType)
        BY <1>1, <2>1
    <2>3. page' = [page EXCEPT ![p].asks = new]
        BY <1>4 DEF AnswerLayers
    <2> HIDE DEF new
    <2>4. page' = [page EXCEPT ![p] = Reloading(p, new, page[p].list, page[p].timer, page[p].behind)]
        BY <1>1, <2>3 DEF Reloading, PageType
    <2>5. ReloadingIs(p, new, page[p].list, page[p].timer, page[p].behind)
        BY <1>1, <1>2, <2>2, <2>4 DEF ReloadingIs, Turns
    <2>. QED
        BY <2>5 DEF new
<1>5. ASSUME i \in DOMAIN page[p].asks
      PROVE  /\ Remaining(page[p].asks, i) \in Seq(AskType)
             /\ page[p].asks[i].late \in BOOLEAN
             /\ page[p].asks[i].answer \in {NoAnswer} \union 0..MaxLayers
    BY <1>1, <1>5, RemainingValues DEF AskType
<1>. DEFINE rest == Remaining(page[p].asks, i)
<1>6. ASSUME TakeLayers(p, i)
      PROVE  ReloadingIs(p, rest, page[p].asks[i].answer, page[p].timer, page[p].asks[i].late)
    <2>1. /\ i \in DOMAIN page[p].asks /\ page[p].asks[i].answer # NoAnswer
          /\ page' = [page EXCEPT ![p].list = page[p].asks[i].answer,
                                  ![p].behind = page[p].asks[i].late, ![p].asks = rest]
        BY <1>6 DEF TakeLayers
    <2>2. /\ rest \in Seq(AskType) /\ page[p].asks[i].late \in BOOLEAN
          /\ page[p].asks[i].answer \in 0..MaxLayers
        BY <1>5, <2>1
    <2> HIDE DEF rest
    <2>3. page' = [page EXCEPT ![p] =
              Reloading(p, rest, page[p].asks[i].answer, page[p].timer, page[p].asks[i].late)]
        BY <1>1, <2>1 DEF Reloading, PageType
    <2>. QED
        BY <1>1, <1>2, <2>2, <2>3 DEF ReloadingIs, Turns
<1>7. ASSUME ReloadFails(p, i)
      PROVE  ReloadingIs(p, rest, page[p].list, page[p].timer,
                         page[p].behind \/ ~page[p].asks[i].late)
    <2> DEFINE fails == page[p].behind \/ ~page[p].asks[i].late
    <2>1. /\ i \in DOMAIN page[p].asks
          /\ page' = [page EXCEPT ![p].behind = fails, ![p].asks = rest]
        BY <1>7 DEF ReloadFails
    <2>2. rest \in Seq(AskType) /\ fails \in BOOLEAN
        BY <1>5, <2>1
    <2> HIDE DEF rest, fails
    <2>3. page' = [page EXCEPT ![p] = Reloading(p, rest, page[p].list, page[p].timer, fails)]
        BY <1>1, <2>1 DEF Reloading, PageType
    <2>4. ReloadingIs(p, rest, page[p].list, page[p].timer, fails)
        BY <1>1, <1>2, <2>2, <2>3 DEF ReloadingIs, Turns
    <2>. QED
        BY <2>4 DEF fails
<1>. QED
    BY <1>2, <1>3, <1>4, <1>6, <1>7

(* ... and what does not: the rest of the page.                            *)
LEMMA ReloadKeeps ==
    ASSUME TypeOK, NEW p \in Page, NEW i \in 1..MaxAsks, AskForLayers(p) \/ Reloads(p, i)
    PROVE  \E new \in PageType : Turns(p, new) /\ new.tiles = page[p].tiles
<1>1. \E asks, list, timer, behind : ReloadingIs(p, asks, list, timer, behind)
    BY ReloadStep DEF Reloads
<1>2. PICK asks, list, timer, behind : ReloadingIs(p, asks, list, timer, behind)
    BY <1>1
<1>. QED
    BY <1>2, ReloadingType DEF ReloadingIs

---------------------------------------------------------------------------
(* The invariant of the tiles: no page draws rows that are not committed,  *)
(* and Martin's cache is never older than what a page draws.               *)

TilesInv ==
    /\ \A p \in Page : page[p].tiles <= rows
    /\ cache # NoTile => /\ backend = "martin" /\ cache <= rows
                         /\ \A p \in Page : page[p].tiles <= cache

IInv == TypeOK /\ Room /\ TilesInv

(* What is served is as new as what any page draws, or blank.              *)
LEMMA ServedIsNewer ==
    ASSUME IInv
    PROVE  /\ Served <= rows
           /\ Served # Blank => \A p \in Page : page[p].tiles <= Served
BY DEF IInv, TypeOK, TilesInv, Served, Blank, NoTile, PageType

\* What each kind of step does to the tiles.
Moves ==
    \/ \E w \in Writer : Works /\ Counts(w)
    \/ /\ martin' \in {"up", "starting"} /\ known' \in BOOLEAN
       /\ UNCHANGED <<backend, rows, layers, cache, job, page, drops, doubt, told>>
    \/ \E p \in Page : Fetch(p)
    \/ \E p \in Page : Idles(p)
    \/ \E p \in Page, i \in 1..MaxAsks : AskForLayers(p) \/ Reloads(p, i)

(* ... and there is no other.                                              *)
LEMMA NextMoves == ASSUME TypeOK, [Next]_vars PROVE Moves
<1>1. ASSUME NEW w \in Writer, Begins(w) \/ Goes(w) PROVE Moves
    BY <1>1, WriterStep DEF Moves
<1>2. CASE MartinReady \/ MartinReload \/ UNCHANGED vars
    BY <1>2 DEF Moves, MartinReady, MartinReload, vars, TypeOK
<1>3. ASSUME NEW p \in Page, AskForLayers(p) PROVE Moves
    <2>1. 1 \in 1..MaxAsks
        BY <1>3, BoundsAssumption DEF AskForLayers, TypeOK, PageType
    <2>. QED
        BY <1>3, <2>1 DEF Moves
<1>. QED
    BY <1>1, <1>2, <1>3 DEF Next, Moves, Idles, Reloads

(* A page that turns keeps the pages' types.                               *)
LEMMA TurnType ==
    ASSUME TypeOK, NEW p \in Page, NEW new \in PageType, Turns(p, new)
    PROVE  /\ page' \in [Page -> PageType] /\ page'[p] = new
           /\ \A q \in Page \ {p} : page'[q] = page[q]
BY DEF TypeOK, Turns

(* The invariant is inductive.                                             *)
LEMMA InvStep == ASSUME IInv, Moves PROVE IInv'
<1>t. /\ TypeOK /\ Room /\ TilesInv /\ rows \in 0..MaxRows /\ MaxRows \in Nat
      /\ page \in [Page -> PageType] /\ \A p \in Page : page[p].tiles \in {Blank} \union 0..MaxRows
      /\ cache \in {NoTile} \union 0..MaxRows
    BY BoundsAssumption DEF IInv, TypeOK, PageType
<1>1. ASSUME NEW w \in Writer, Works, Counts(w) PROVE IInv'
    <2>1. /\ Room' /\ job' \in [Writer -> Jobs]
          /\ rows' \in 0..MaxRows /\ rows' \in {rows, rows + 1} /\ layers' \in 0..MaxLayers
        BY <1>t, <1>1, CountsStep
    <2>2. page' \in [Page -> PageType] /\ \A p \in Page : page'[p].tiles = page[p].tiles
        BY <1>t, <1>1, ToldPages DEF Works
    <2>3. TypeOK'
        BY <1>t, <1>1, <2>1, <2>2 DEF Works, TypeOK, PageType, Told
    <2>4. TilesInv'
        BY <1>t, <1>1, <2>1, <2>2 DEF Works, TilesInv, Blank, NoTile
    <2>. QED
        BY <2>1, <2>3, <2>4 DEF IInv
<1>2. ASSUME UNCHANGED <<rows, layers, job>>, backend' = backend,
             page' \in [Page -> PageType], TilesInv',
             martin' \in {"up", "starting"}, known' \in BOOLEAN,
             cache' \in {NoTile} \union 0..MaxRows, drops' \in 0..MaxDrops,
             doubt' \in BOOLEAN, told' \in Told
      PROVE  IInv'
    <2>1. Room'
        BY <1>t, <1>2 DEF Room, Purging
    <2>2. TypeOK'
        BY <1>t, <1>2 DEF TypeOK, PageType, Told
    <2>. QED
        BY <1>2, <2>1, <2>2 DEF IInv
<1>3. CASE /\ martin' \in {"up", "starting"} /\ known' \in BOOLEAN
           /\ UNCHANGED <<backend, rows, layers, cache, job, page, drops, doubt, told>>
    <2>1. TilesInv'
        BY <1>t, <1>3 DEF TilesInv
    <2>. QED
        BY <1>t, <1>2, <1>3, <2>1 DEF TypeOK, Told
<1>4. ASSUME NEW p \in Page, Fetch(p) PROVE IInv'
    <2>1. /\ Turns(p, Fetched(p)) /\ Served \in {Blank} \union 0..MaxRows
          /\ Fetched(p) \in PageType /\ Fetched(p).tiles = Served
          /\ cache' = IF backend = "martin" /\ Served # Blank THEN Served ELSE cache
          /\ UNCHANGED <<martin, known, drops, told>> /\ doubt' \in BOOLEAN
        BY <1>t, <1>4, FetchStep
    <2>2. /\ page' \in [Page -> PageType] /\ page'[p].tiles = Served
          /\ \A q \in Page \ {p} : page'[q].tiles = page[q].tiles
        BY <1>t, <2>1, TurnType
    <2>3. Served <= rows /\ (Served # Blank => \A q \in Page : page[q].tiles <= Served)
        BY ServedIsNewer
    <2>4. UNCHANGED <<backend, rows, layers, job>>
        BY <2>1 DEF Turns
    <2>5. \A q \in Page : page'[q].tiles <= rows'
        BY <1>t, <2>2, <2>3, <2>4 DEF TilesInv
    <2>6. cache' # NoTile => /\ backend' = "martin" /\ cache' <= rows'
                             /\ \A q \in Page : page'[q].tiles <= cache'
        <3>1. CASE backend = "martin" /\ Served # Blank
            BY <1>t, <2>1, <2>2, <2>3, <2>4, <3>1
        <3>2. CASE ~(backend = "martin" /\ Served # Blank)
            <4>1. cache' = cache
                BY <2>1, <3>2
            <4>2. cache # NoTile => Served <= cache
                <5>1. CASE Served = Blank
                    BY <1>t, <5>1 DEF Blank, NoTile
                <5>2. CASE backend # "martin"
                    BY <1>t, <5>2 DEF TilesInv
                <5>. QED
                    BY <3>2, <5>1, <5>2
            <4>. QED
                BY <1>t, <2>1, <2>2, <2>4, <4>1, <4>2 DEF TilesInv
        <3>. QED
            BY <3>1, <3>2
    <2>7. TilesInv'
        BY <2>5, <2>6 DEF TilesInv
    <2>. QED
        BY <1>t, <1>2, <2>1, <2>2, <2>4, <2>7 DEF TypeOK, Told
<1>5. ASSUME NEW p \in Page, Idles(p) PROVE IInv'
    <2>1. /\ UNCHANGED <<backend, rows, layers, martin, known, cache, doubt, job>>
          /\ drops' \in 0..MaxDrops /\ told' \in Told
        BY <1>t, <1>5, IdleStep DEF tileServer
    <2>2. PICK new \in PageType : Turns(p, new) /\ new.tiles = page[p].tiles
        BY <1>t, <1>5, IdleStep
    <2>3. page' \in [Page -> PageType] /\ \A q \in Page : page'[q].tiles = page[q].tiles
        BY <1>t, <2>2, TurnType
    <2>4. TilesInv'
        BY <1>t, <2>1, <2>3 DEF TilesInv
    <2>. QED
        BY <1>t, <1>2, <2>1, <2>3, <2>4 DEF TypeOK, Told
<1>6. ASSUME NEW p \in Page, NEW i \in 1..MaxAsks, AskForLayers(p) \/ Reloads(p, i)
      PROVE  IInv'
    <2>1. UNCHANGED <<backend, rows, layers, martin, known, cache, doubt, job, drops, told>>
        BY <1>t, <1>6, ReloadStep DEF tileServer
    <2>2. PICK new \in PageType : Turns(p, new) /\ new.tiles = page[p].tiles
        BY <1>t, <1>6, ReloadKeeps
    <2>3. page' \in [Page -> PageType] /\ \A q \in Page : page'[q].tiles = page[q].tiles
        BY <1>t, <2>2, TurnType
    <2>4. TilesInv'
        BY <1>t, <2>1, <2>3 DEF TilesInv
    <2>. QED
        BY <1>t, <1>2, <2>1, <2>3, <2>4 DEF TypeOK, Told
<1>. QED
    BY <1>1, <1>3, <1>4, <1>5, <1>6 DEF Moves

(* The initial state satisfies it.                                         *)
LEMMA InitInv == Init => IInv
<1>. SUFFICES ASSUME Init PROVE IInv
    OBVIOUS
<1>1. Purging = {} /\ Cardinality(Purging) = 0
    BY FS_EmptySet DEF Init, Purging
<1>2. TypeOK
    <2>1. page \in [Page -> PageType]
        BY BoundsAssumption DEF Init, PageType
    <2>2. told \in [Page -> SUBSET {"tiles", "layers"}]
        BY DEF Init
    <2>3. job \in [Writer -> Jobs]
        BY DEF Init, Jobs
    <2>4. /\ backend \in Backend /\ rows \in 0..MaxRows /\ layers \in 0..MaxLayers
          /\ martin \in {"up", "starting"} /\ known \in BOOLEAN
          /\ cache \in {NoTile} \union 0..MaxRows /\ drops \in 0..MaxDrops
        BY BoundsAssumption DEF Init
    <2>5. doubt \in BOOLEAN
        BY DEF Init
    <2>. QED
        BY <2>1, <2>2, <2>3, <2>4, <2>5 DEF TypeOK
<1>3. Room
    BY <1>1, BoundsAssumption DEF Init, Room, Listing
<1>4. TilesInv
    BY DEF Init, TilesInv, Blank, NoTile
<1>. QED
    BY <1>2, <1>3, <1>4 DEF IInv

(* It holds in every reachable state.                                      *)
LEMMA Invariant == Spec => []IInv
<1>1. IInv /\ [Next]_vars => IInv'
    BY NextMoves, InvStep DEF IInv
<1>. QED
    BY <1>1, InitInv, PTL DEF Spec

\* Types are kept by every writer, tile server and page (MapSync).
THEOREM TypeCorrect == Spec => []TypeOK
<1>1. IInv => TypeOK
    BY DEF IInv
<1>. QED
    BY <1>1, Invariant, PTL

---------------------------------------------------------------------------
(* The tiles of the pages mirror the committed rows. *)

(* A step that changes the rows is a change, a fetch is a look.            *)
LEMMA TilesStep ==
    ASSUME IInv, Moves
    PROVE  [Tiles!Next]_(Tiles!vars)
<1>t. /\ TypeOK /\ Room /\ rows \in 0..MaxRows /\ MaxRows \in Nat
      /\ page \in [Page -> PageType]
    BY BoundsAssumption DEF IInv, TypeOK
<1>. DEFINE seen == [p \in Page |-> page[p].tiles]
            owed == [p \in Page |-> "tiles" \in told[p]]
<1>o. owed' \in [Page -> BOOLEAN]
    OBVIOUS
<1>k. rows' = rows /\ seen' = seen => Tiles!Next
    BY <1>o DEF Tiles!Next, Tiles!Tell
<1>1. ASSUME NEW w \in Writer, Works, Counts(w) PROVE [Tiles!Next]_(Tiles!vars)
    <2>1. rows' \in 0..MaxRows /\ rows' \in {rows, rows + 1}
        BY <1>t, <1>1, CountsStep
    <2>2. seen' = seen
        BY <1>t, <1>1, ToldPages DEF Works
    <2>3. rows' = rows + 1 => Tiles!Change
        BY <1>t, <1>o, <2>1, <2>2 DEF Tiles!Change
    <2>. QED
        BY <1>k, <2>1, <2>2, <2>3 DEF Tiles!Next
<1>2. CASE UNCHANGED <<rows, page>>
    BY <1>k, <1>2
<1>3. ASSUME NEW p \in Page, Fetch(p) PROVE [Tiles!Next]_(Tiles!vars)
    <2>1. /\ Turns(p, Fetched(p)) /\ Served \in {Blank} \union 0..MaxRows
          /\ Fetched(p) \in PageType /\ Fetched(p).tiles = Served /\ told' = told
        BY <1>t, <1>3, FetchStep
    <2>2. rows' = rows /\ seen' = [seen EXCEPT ![p] = Served]
        BY <1>t, <2>1, TurnType DEF Turns
    <2>3. Served \in {Blank} \union 0..rows /\ (Served # Blank => Served >= seen[p])
        BY <1>t, <2>1, ServedIsNewer DEF TypeOK, PageType, Blank
    <2>4. Tiles!Look(p)
        BY <2>1, <2>2, <2>3 DEF Tiles!Look, Tiles!Blank, Blank
    <2>. QED
        BY <2>4 DEF Tiles!Next
<1>4. ASSUME NEW p \in Page,
             Idles(p) \/ \E i \in 1..MaxAsks : AskForLayers(p) \/ Reloads(p, i)
      PROVE  [Tiles!Next]_(Tiles!vars)
    <2>1. \E new \in PageType : Turns(p, new) /\ new.tiles = page[p].tiles
        BY <1>t, <1>4, IdleStep, ReloadKeeps
    <2>2. rows' = rows /\ seen' = seen
        BY <1>t, <2>1, TurnType DEF Turns
    <2>. QED
        BY <1>k, <2>2
<1>. QED
    BY <1>1, <1>2, <1>3, <1>4 DEF Moves

(* The safety part of TilesMirror, for every kind of writer under Martin   *)
(* and tipg and whatever fails on the way, the pages that are owed nothing *)
(* included: purges, restarts, lost sockets and moves of the map           *)
(* notwithstanding, no page goes straight back to older tiles, and none    *)
(* draws rows that were not committed (map-socket.ts, tile_server.py).     *)
THEOREM TilesNeverGoBack == Spec => Tiles!Init /\ [][Tiles!Next]_(Tiles!vars)
<1>1. Init => Tiles!Init
    BY DEF Init, Tiles!Init, Tiles!Blank, Blank
<1>2. IInv /\ [Next]_vars => [Tiles!Next]_(Tiles!vars)
    BY NextMoves, TilesStep DEF IInv
<1>. QED
    BY <1>1, <1>2, Invariant, PTL DEF Spec

---------------------------------------------------------------------------
(* The news of a changed list. *)

(* Telling pages of their tiles tells nothing of the list.                 *)
LEMMA TilesOnly ==
    ASSUME TypeOK, Announce("tiles") \/ Forget("tiles") \/ UNCHANGED told
    PROVE  \A p \in Page : "layers" \in told'[p] => "layers" \in told[p]
<1>1. told \in Told
    BY DEF TypeOK, Told
<1>2. CASE Forget("tiles") \/ UNCHANGED told
    BY <1>1, <1>2 DEF Forget, Told
<1>3. CASE Announce("tiles")
    <2> DEFINE Hears(p) == page[p].sock # "new" /\ ("tiles" = "tiles" => Sound')
    <2>1. \/ told' = [p \in Page |-> IF Hears(p) THEN told[p] \union {"tiles"}
                                                ELSE told[p] \ {"tiles"}]
          \/ Forget("tiles")
        BY <1>3 DEF Announce
    <2> HIDE DEF Hears
    <2>. QED
        BY <1>1, <1>2, <2>1 DEF Told
<1>. QED
    BY <1>2, <1>3

(* Only a commit of the layers changes the list, or tells of it.           *)
LEMMA ListStep ==
    ASSUME TypeOK, NEW w \in Writer, Begins(w) \/ Goes(w)
    PROVE  \/ LayerCommits(w)
           \/ /\ Tells /\ layers' = layers
              /\ \A p \in Page : "layers" \in told'[p] => "layers" \in told[p]
<1>. DEFINE Quiet == \A p \in Page : "layers" \in told'[p] => "layers" \in told[p]
<1>t. /\ (Announce("tiles") => Tells /\ Quiet) /\ (Forget("tiles") => Quiet)
      /\ (UNCHANGED page => Tells) /\ (UNCHANGED told => Quiet)
    BY TilesOnly, TellsStep
<1>. HIDE DEF Quiet
<1>1. ASSUME \/ PaintPurges(w) \/ PaintCommits(w) \/ PaintRollsBack(w)
             \/ McpPaints(w) \/ McpPurges(w) \/ LayerSaves(w)
      PROVE  Tells /\ layers' = layers /\ Quiet
    BY <1>t, <1>1 DEF RowsChange, PaintPurges, PaintCommits, PaintRollsBack, McpPaints,
                      McpPurges, LayerSaves
<1>2. ASSUME PlanPromotes(w) \/ PlanRefreshes(w) \/ PlanWaits(w) \/ PlanAnnounces(w)
      PROVE  Tells /\ layers' = layers /\ Quiet
    BY <1>t, <1>2 DEF RowsChange, RestartMartin, PlanPromotes, PlanRefreshes, PlanWaits,
                      PlanAnnounces
<1>3. ASSUME AnalysisBuilds(w) \/ AnalysisCompletes(w) \/ AnalysisRestarts(w)
      PROVE  Tells /\ layers' = layers /\ Quiet
    BY <1>t, <1>3 DEF RowsChange, RestartMartin, AnalysisBuilds, AnalysisCompletes,
                      AnalysisRestarts
<1>4. ASSUME ApplySaves(w) \/ ApplyRefreshes(w) \/ ApplyWaits(w)
      PROVE  Tells /\ layers' = layers /\ Quiet
    BY <1>t, <1>4 DEF RestartMartin, ApplySaves, ApplyRefreshes, ApplyWaits
<1>. QED
    BY <1>1, <1>2, <1>3, <1>4 DEF Begins, Goes, Quiet

(* News on its way stays so when pages are told of something else.         *)
LEMMA NewsKept ==
    ASSUME TypeOK, Tells, layers' = layers, NEW p \in Page, NewsArrives(p)
    PROVE  NewsArrives(p)'
<1>1. page \in [Page -> PageType] /\ page[p] \in PageType /\ page[p].inbox \in Seq({"tiles", "layers"})
    BY DEF TypeOK, PageType
<1>2. CASE page' = page
    BY <1>2 DEF NewsArrives, NewsOnItsWay
<1>3. ASSUME NEW kind \in {"tiles", "layers"}, page' = Published(kind) PROVE NewsArrives(p)'
    <2>1. CASE page[p].sock = "open"
        <3> DEFINE inbox == Append(page[p].inbox, kind)
        <3>1. page'[p] = [page[p] EXCEPT !.inbox = inbox]
            BY <1>3, <2>1 DEF Published
        <3>2. \A k \in DOMAIN page[p].inbox : k \in DOMAIN inbox /\ inbox[k] = page[p].inbox[k]
            BY <1>1
        <3> HIDE DEF inbox
        <3>3. /\ page'[p].inbox = inbox /\ page'[p].sock = page[p].sock
              /\ page'[p].timer = page[p].timer /\ page'[p].asks = page[p].asks
              /\ page'[p].list = page[p].list /\ page'[p].behind = page[p].behind
            BY <1>1, <3>1 DEF PageType
        <3>. QED
            BY <3>2, <3>3 DEF NewsArrives, NewsOnItsWay
    <2>2. CASE page[p].sock # "open"
        <3>1. page'[p] = page[p]
            BY <1>3, <2>2 DEF Published
        <3>. QED
            BY <3>1 DEF NewsArrives, NewsOnItsWay
    <2>. QED
        BY <2>1, <2>2
<1>. QED
    BY <1>2, <1>3 DEF Tells

(* A commit of the layers sets it off to whoever is told.                  *)
LEMMA NewsSent ==
    ASSUME TypeOK, NEW w \in Writer, LayerCommits(w), NEW p \in Page, "layers" \in told'[p]
    PROVE  NewsArrives(p)'
<1>1. page[p] \in PageType /\ page[p].inbox \in Seq({"tiles", "layers"})
    BY DEF TypeOK, PageType
<1>2. told \in Told
    BY DEF TypeOK, Told
<1>3. ~Forget("layers")
    BY <1>2 DEF Forget, Told
<1>. DEFINE Hears(q) == page[q].sock # "new" /\ ("layers" = "tiles" => Sound')
<1>4. /\ page' = Published("layers")
      /\ told' = [q \in Page |-> IF Hears(q) THEN told[q] \union {"layers"} ELSE told[q] \ {"layers"}]
    BY <1>3 DEF LayerCommits, Announce
<1>5. page[p].sock # "new"
    <2>1. Hears(p)
        <3> HIDE DEF Hears
        <3>. QED
            BY <1>2, <1>4 DEF Told
    <2>. QED
        BY <2>1
<1>6. CASE page[p].sock = "open"
    <2> DEFINE inbox == Append(page[p].inbox, "layers")
    <2>1. page'[p] = [page[p] EXCEPT !.inbox = inbox]
        BY <1>4, <1>6 DEF Published
    <2>2. \E k \in DOMAIN inbox : inbox[k] = "layers"
        <3>1. Len(page[p].inbox) + 1 \in DOMAIN inbox /\ inbox[Len(page[p].inbox) + 1] = "layers"
            BY <1>1
        <3>. QED
            BY <3>1
    <2> HIDE DEF inbox
    <2>3. page'[p].inbox = inbox
        BY <1>1, <2>1 DEF PageType
    <2>. QED
        BY <2>2, <2>3 DEF NewsArrives, NewsOnItsWay
<1>7. CASE page[p].sock # "open"
    <2>1. page'[p] = page[p] /\ page[p].sock = "down"
        BY <1>1, <1>4, <1>5, <1>7 DEF Published, PageType
    <2>. QED
        BY <2>1 DEF NewsArrives, NewsOnItsWay
<1>. QED
    BY <1>6, <1>7

(* What the page does by itself keeps it, until the list is asked for.     *)
LEMMA NewsTaken ==
    ASSUME TypeOK, NEW p \in Page, Fetch(p) \/ Idles(p),
           "layers" \in told[p] => NewsArrives(p)
    PROVE  "layers" \in told'[p] => NewsArrives(p)'
<1>1. /\ page \in [Page -> PageType] /\ page[p] \in PageType
      /\ page[p].inbox \in Seq({"tiles", "layers"}) /\ told \in Told
    BY DEF TypeOK, PageType, Told
<1>2. CASE Fetch(p) \/ Pan(p) \/ FirstOpen(p)
    <2>1. /\ told' = told /\ layers' = layers
          /\ page'[p].inbox = page[p].inbox /\ page'[p].timer = page[p].timer
          /\ page'[p].asks = page[p].asks /\ page'[p].list = page[p].list
          /\ page'[p].behind = page[p].behind
          /\ page[p].sock = "down" => page'[p].sock = "down"
        BY <1>1, <1>2 DEF Fetch, Pan, FirstOpen, PageType
    <2>. QED
        BY <2>1 DEF NewsArrives, NewsOnItsWay
<1>3. CASE TakeEvent(p)
    <2> DEFINE want == page[p].want \/ Head(page[p].inbox) = "tiles"
               timer == page[p].timer \/ Head(page[p].inbox) = "layers"
    <2>1. /\ told' = told /\ layers' = layers /\ page[p].inbox # <<>>
          /\ page'[p] = [page[p] EXCEPT !.inbox = Tail(page[p].inbox), !.want = want,
                                        !.timer = timer]
        BY <1>1, <1>3 DEF TakeEvent
    <2>2. \A k \in DOMAIN page[p].inbox :
              \/ page[p].inbox[k] = Head(page[p].inbox)
              \/ /\ k - 1 \in DOMAIN Tail(page[p].inbox)
                 /\ Tail(page[p].inbox)[k - 1] = page[p].inbox[k]
        BY <1>1, <2>1
    <2> HIDE DEF want, timer
    <2>3. /\ page'[p].inbox = Tail(page[p].inbox) /\ page'[p].timer = timer
          /\ page'[p].asks = page[p].asks /\ page'[p].list = page[p].list
          /\ page'[p].behind = page[p].behind /\ page'[p].sock = page[p].sock
        BY <1>1, <2>1 DEF PageType
    <2>4. (\E k \in DOMAIN page[p].inbox : page[p].inbox[k] = "layers") \/ page[p].timer =>
              timer \/ \E k \in DOMAIN Tail(page[p].inbox) : Tail(page[p].inbox)[k] = "layers"
        BY <2>2 DEF timer
    <2>. QED
        BY <2>1, <2>3, <2>4 DEF NewsArrives, NewsOnItsWay
<1>4. CASE Drop(p)
    <2>1. page'[p].sock = "down"
        BY <1>1, <1>4 DEF Drop, PageType
    <2>. QED
        BY <2>1 DEF NewsArrives, NewsOnItsWay
<1>5. CASE Reopen(p)
    <2>1. page'[p].timer
        BY <1>1, <1>5 DEF Reopen, PageType
    <2>. QED
        BY <2>1 DEF NewsArrives, NewsOnItsWay
<1>. QED
    BY <1>2, <1>3, <1>4, <1>5 DEF Idles

(* So do the requests, whatever order they are answered, taken or lost in. *)
LEMMA NewsAsked ==
    ASSUME TypeOK, NEW p \in Page, NEW i \in 1..MaxAsks,
           AskForLayers(p) \/ Reloads(p, i), NewsArrives(p)
    PROVE  NewsArrives(p)'
<1>. DEFINE old == page[p].asks
<1>1. /\ page[p] \in PageType /\ old \in Seq(AskType) /\ Len(old) \in Nat
      /\ DOMAIN old = 1..Len(old) /\ \A k \in DOMAIN old : old[k] \in AskType
    BY DEF TypeOK, PageType
<1>2. layers' = layers /\ layers \in 0..MaxLayers
    BY ReloadStep DEF TypeOK
<1>3. ASSUME NEW asks, NEW list, NEW timer, NEW behind, ReloadingIs(p, asks, list, timer, behind)
      PROVE  /\ page'[p].sock = page[p].sock /\ page'[p].inbox = page[p].inbox
             /\ page'[p].asks = asks /\ page'[p].list = list
             /\ page'[p].timer = timer /\ page'[p].behind = behind
    BY <1>3, ReloadingType, TurnType DEF ReloadingIs
<1>4. CASE AskForLayers(p)
    <2> DEFINE ask == [answer |-> NoAnswer, late |-> FALSE]
    <2>1. page'[p].asks = Append(old, ask)
        BY <1>3, <1>4, ReloadStep
    <2>2. Append(old, ask) # <<>> /\ Last(Append(old, ask)) = ask
        BY <1>1 DEF Last, AskType
    <2>. QED
        BY <2>1, <2>2 DEF NewsArrives, NewsOnItsWay
<1>5. CASE AnswerLayers(p, i)
    <2> DEFINE new == [old EXCEPT ![i].answer = layers]
    <2>1. /\ page'[p].sock = page[p].sock /\ page'[p].inbox = page[p].inbox
          /\ page'[p].asks = new /\ page'[p].list = page[p].list
          /\ page'[p].timer = page[p].timer /\ page'[p].behind = page[p].behind
        <3>1. ReloadingIs(p, new, page[p].list, page[p].timer, page[p].behind)
            BY <1>5, ReloadStep
        <3> HIDE DEF new
        <3>. QED
            BY <1>3, <3>1
    <2>2. i \in DOMAIN old
        BY <1>5 DEF AnswerLayers
    <2>3. /\ DOMAIN new = DOMAIN old /\ Len(new) = Len(old)
          /\ \A k \in DOMAIN old : new[k].late = old[k].late
          /\ \A k \in DOMAIN old : new[k].answer \in {old[k].answer, layers}
        BY <1>1, <2>2 DEF AskType
    <2> HIDE DEF new, old
    <2>4. CASE old # <<>> /\ ~Last(old).late /\ Last(old).answer \in {NoAnswer, layers}
        <3>1. Len(old) \in DOMAIN old
            BY <1>1, <2>4
        <3>2. new # <<>> /\ Last(new) = new[Len(old)] /\ Last(old) = old[Len(old)]
            BY <2>3, <3>1 DEF Last
        <3>3. page'[p].asks # <<>> /\ ~Last(page'[p].asks).late
              /\ Last(page'[p].asks).answer \in {NoAnswer, layers'}
            BY <1>2, <2>1, <2>3, <2>4, <3>1, <3>2
        <3>. QED
            BY <3>3 DEF NewsArrives, NewsOnItsWay
    <2>5. CASE ~(old # <<>> /\ ~Last(old).late /\ Last(old).answer \in {NoAnswer, layers})
        BY <1>2, <2>1, <2>3, <2>5 DEF NewsArrives, NewsOnItsWay, old
    <2>. QED
        BY <2>4, <2>5
<1>6. ASSUME NEW list, NEW behind, i \in DOMAIN old,
             ReloadingIs(p, Remaining(old, i), list, page[p].timer, behind),
             old[i].late => behind \/ (behind = page[p].behind /\ list = page[p].list),
             ~old[i].late => behind \/ (list = old[i].answer /\ list # NoAnswer)
      PROVE  NewsArrives(p)'
    <2> DEFINE rest == Remaining(old, i)
    <2>1. /\ page'[p].sock = page[p].sock /\ page'[p].inbox = page[p].inbox
          /\ page'[p].asks = rest /\ page'[p].list = list
          /\ page'[p].timer = page[p].timer /\ page'[p].behind = behind
        BY <1>3, <1>6
    <2>2. /\ rest \in Seq(AskType) /\ Len(rest) = Len(old) - 1 /\ DOMAIN rest = 1..Len(old) - 1
          /\ \A k \in 1..Len(old) - 1 : /\ k < i => rest[k].late
                                        /\ k >= i => rest[k] = old[k + 1]
        <3>1. old \in Seq(AskType) /\ i \in DOMAIN old
            BY <1>1, <1>6
        <3> HIDE DEF old
        <3>2. /\ rest \in Seq(AskType) /\ Len(rest) = Len(old) - 1
              /\ \A k \in 1..Len(old) - 1 : /\ k < i => rest[k].late
                                            /\ k >= i => rest[k] = old[k + 1]
            BY <3>1, RemainingValues
        <3> HIDE DEF rest
        <3>3. DOMAIN rest = 1..Len(rest)
            BY <3>2
        <3>. QED
            BY <3>2, <3>3
    <2> HIDE DEF rest, old
    <2>3. CASE page[p].sock = "down" \/ page[p].timer
               \/ \E k \in DOMAIN page[p].inbox : page[p].inbox[k] = "layers"
        BY <2>1, <2>3 DEF NewsArrives, NewsOnItsWay
    <2>4. CASE old # <<>> /\ ~Last(old).late /\ Last(old).answer \in {NoAnswer, layers}
        <3>1. Last(old) = old[Len(old)]
            BY DEF Last
        <3>2. CASE i = Len(old)
            <4>1. \A k \in DOMAIN rest : rest[k].late
                BY <1>1, <2>2, <3>2
            <4>2. list = layers \/ behind
                BY <1>6, <2>4, <3>1, <3>2
            <4>. QED
                BY <1>2, <2>1, <4>1, <4>2 DEF NewsArrives
        <3>3. CASE i # Len(old)
            <4>1. i < Len(old) /\ Len(old) - 1 \in 1..Len(old) - 1 /\ Len(old) - 1 >= i
                <5>1. Len(old) \in Nat /\ i \in 1..Len(old)
                    BY <1>1, <1>6
                <5>. QED
                    BY <3>3, <5>1
            <4>2. rest[Len(old) - 1] = old[(Len(old) - 1) + 1] /\ (Len(old) - 1) + 1 = Len(old)
                BY <1>1, <2>2, <4>1
            <4>3. rest # <<>> /\ Last(rest) = Last(old)
                BY <2>2, <3>1, <4>1, <4>2 DEF Last
            <4>4. page'[p].asks # <<>> /\ ~Last(page'[p].asks).late
                  /\ Last(page'[p].asks).answer \in {NoAnswer, layers'}
                BY <1>2, <2>1, <2>4, <4>3
            <4>. QED
                BY <4>4 DEF NewsArrives, NewsOnItsWay
        <3>. QED
            BY <3>2, <3>3
    <2>5. CASE /\ \A k \in DOMAIN old : old[k].late
               /\ page[p].list = layers \/ page[p].behind
        <3>1. ASSUME NEW k \in DOMAIN rest PROVE rest[k].late
            <4>1. k \in 1..Len(old) - 1 /\ k + 1 \in DOMAIN old
                BY <1>1, <2>2
            <4>. QED
                BY <1>1, <1>6, <2>2, <2>5, <4>1
        <3>2. list = layers \/ behind
            BY <1>6, <2>5
        <3>. QED
            BY <1>2, <2>1, <3>1, <3>2 DEF NewsArrives
    <2>. QED
        BY <2>3, <2>4, <2>5 DEF NewsArrives, NewsOnItsWay, old
<1>7. CASE TakeLayers(p, i)
    <2>1. i \in DOMAIN old /\ old[i].answer # NoAnswer
        BY <1>7 DEF TakeLayers
    <2>2. ReloadingIs(p, Remaining(old, i), old[i].answer, page[p].timer, old[i].late)
        BY <1>7, ReloadStep
    <2> HIDE DEF old
    <2>. QED
        BY <1>6, <2>1, <2>2
<1>8. CASE ReloadFails(p, i)
    <2>1. i \in DOMAIN old /\ old[i].late \in BOOLEAN /\ page[p].behind \in BOOLEAN
        BY <1>1, <1>8 DEF ReloadFails, AskType, PageType
    <2> DEFINE fails == page[p].behind \/ ~old[i].late
    <2>2. ReloadingIs(p, Remaining(old, i), page[p].list, page[p].timer, fails)
        BY <1>8, ReloadStep
    <2>3. (old[i].late => fails = page[p].behind) /\ (~old[i].late => fails)
        BY <2>1
    <2> HIDE DEF old, fails
    <2>. QED
        BY <1>6, <2>1, <2>2, <2>3
<1>. QED
    BY <1>4, <1>5, <1>7, <1>8 DEF Reloads

(* The invariant is inductive.                                             *)
LEMMA NewsStep ==
    ASSUME TypeOK, NoNewsIsLost, [Next]_vars
    PROVE  NoNewsIsLost'
<1>. SUFFICES ASSUME NEW p \in Page, "layers" \in told'[p] PROVE NewsArrives(p)'
    BY DEF NoNewsIsLost
<1>1. "layers" \in told[p] => NewsArrives(p)
    BY DEF NoNewsIsLost
<1>2. ASSUME NEW w \in Writer, Begins(w) \/ Goes(w) PROVE NewsArrives(p)'
    <2>1. CASE LayerCommits(w)
        BY <2>1, NewsSent
    <2>2. CASE /\ Tells /\ layers' = layers
               /\ \A q \in Page : "layers" \in told'[q] => "layers" \in told[q]
        BY <1>1, <2>2, NewsKept
    <2>. QED
        BY <1>2, <2>1, <2>2, ListStep
<1>3. CASE MartinReady \/ MartinReload \/ UNCHANGED vars
    <2>1. UNCHANGED <<page, told, layers>>
        BY <1>3 DEF MartinReady, MartinReload, vars
    <2>. QED
        BY <1>1, <2>1 DEF NewsArrives, NewsOnItsWay
<1>4. ASSUME NEW q \in Page, Fetch(q) \/ Idles(q) PROVE NewsArrives(p)'
    <2>1. CASE q = p
        BY <1>1, <1>4, <2>1, NewsTaken
    <2>2. CASE q # p
        <3>1. page'[p] = page[p] /\ layers' = layers
            BY <1>4, <2>2, FetchStep, IdleStep, TurnType DEF Turns
        <3>2. told'[p] = told[p]
            BY <1>4, <2>2 DEF Fetch, Idles, Pan, TakeEvent, FirstOpen, Drop, Reopen, Resynced, TypeOK
        <3>. QED
            BY <1>1, <3>1, <3>2 DEF NewsArrives, NewsOnItsWay
    <2>. QED
        BY <2>1, <2>2
<1>5. ASSUME NEW q \in Page, NEW i \in 1..MaxAsks, AskForLayers(q) \/ Reloads(q, i)
      PROVE  NewsArrives(p)'
    <2>1. told' = told /\ layers' = layers
        BY <1>5, ReloadStep
    <2>2. CASE q = p
        BY <1>1, <1>5, <2>1, <2>2, NewsAsked
    <2>3. CASE q # p
        <3>1. page'[p] = page[p]
            BY <1>5, <2>3, ReloadKeeps, TurnType
        <3>. QED
            BY <1>1, <2>1, <3>1 DEF NewsArrives, NewsOnItsWay
    <2>. QED
        BY <2>2, <2>3
<1>6. ASSUME NEW q \in Page, AskForLayers(q) PROVE NewsArrives(p)'
    <2>1. 1 \in 1..MaxAsks
        BY <1>6, BoundsAssumption DEF AskForLayers, TypeOK, PageType
    <2>. QED
        BY <1>5, <1>6, <2>1
<1>. QED
    BY <1>2, <1>3, <1>4, <1>5, <1>6 DEF Next, Idles, Reloads

(* For any number of pages, writers and requests, whatever order these are *)
(* answered in and whatever fails: the news of a changed list is not lost  *)
(* on its way to a page that was told (brew-gis-map.ts, map-socket.ts).    *)
THEOREM NewsOfTheListArrives == Spec => []NoNewsIsLost
<1>1. Init => NoNewsIsLost
    BY DEF Init, NoNewsIsLost, NewsArrives
<1>2. TypeOK /\ NoNewsIsLost /\ [Next]_vars => NoNewsIsLost'
    BY NewsStep
<1>. QED
    BY <1>1, <1>2, TypeCorrect, PTL DEF Spec

-----------------------------------------------------------------------------
(***************************************************************************)
(* Trees and loops: induction and recursion over numbers.                  *)
(***************************************************************************)

(* A set of numbers has a least one.                                       *)
LEMMA LeastNumber ==
  ASSUME NEW S \in SUBSET Nat, S # {}
  PROVE  \E x \in S : \A y \in S : x <= y
<1>1. PICK x \in S : \A y \in S : ~(<<y, x>> \in OpToRel(<, Nat))
  BY WFMin, NatLessThanWellFounded, Zenon
<1>2. ASSUME NEW y \in S PROVE x <= y
  <2>1. x \in Nat /\ y \in Nat
    OBVIOUS
  <2>2. ~(y < x)
    BY <1>1, <2>1 DEF OpToRel
  <2> QED BY <2>1, <2>2
<1> QED BY <1>2

(* A set of node numbers that has a node whenever it has all the nodes     *)
(* after it has them all.                                                  *)
LEMMA FromTheLast ==
  ASSUME NEW n \in Nat, NEW T \in SUBSET (1 .. n),
         \A i \in 1 .. n : i + 1 .. n \subseteq T => i \in T
  PROVE  T = 1 .. n
<1> DEFINE D == {n - i : i \in (1 .. n) \ T}
<1> SUFFICES ASSUME D # {} PROVE FALSE
  OBVIOUS
<1>1. D \in SUBSET Nat
  OBVIOUS
<1>2. PICK d \in D : \A y \in D : d <= y
  BY <1>1, LeastNumber
<1>3. PICK i \in (1 .. n) \ T : d = n - i
  BY <1>2
<1>4. ASSUME NEW j \in i + 1 .. n PROVE j \in T
  <2> SUFFICES ASSUME j \notin T PROVE FALSE
    OBVIOUS
  <2>1. j \in 1 .. n /\ n - j \in D
    BY <1>3
  <2>2. d <= n - j
    BY <1>2, <2>1
  <2> QED BY <1>3, <2>2
<1>5. i \in T
  BY <1>3, <1>4
<1> QED BY <1>3, <1>5

(* A rule F gives every i of D a value from the values of those of lower   *)
(* rank.                                                                   *)
IsRecursion(D, rank, n, V, F) ==
  /\ rank \in [D -> 0 .. n]
  /\ F \in [[D -> V] -> [D -> V]]
  /\ \A f, g \in [D -> V] : \A i \in D :
        (\A j \in D : rank[j] < rank[i] => f[j] = g[j]) => F[f][i] = F[g][i]

(* Some function obeys it: the recursive function it defines exists.       *)
LEMMA RecursionHolds ==
  ASSUME NEW D, NEW rank, NEW n \in Nat, NEW V, V # {}, NEW F, IsRecursion(D, rank, n, V, F)
  PROVE  \E f \in [D -> V] : f = F[f]
<1> DEFINE Below(k) == \E f \in [D -> V] : \A j \in D : rank[j] < k => f[j] = F[f][j]
           Bad == {k \in 0 .. n + 1 : ~Below(k)}
<1>1. Below(0)
  <2>1. PICK v : v \in V
    OBVIOUS
  <2> DEFINE f == [i \in D |-> v]
  <2>2. f \in [D -> V] /\ \A j \in D : ~(rank[j] < 0)
    BY <2>1 DEF IsRecursion
  <2> HIDE DEF f
  <2> QED BY <2>2
<1>2. ASSUME NEW k \in 0 .. n, Below(k) PROVE Below(k + 1)
  <2>1. PICK f \in [D -> V] : \A j \in D : rank[j] < k => f[j] = F[f][j]
    BY <1>2
  <2>2. PICK h \in [D -> V] : h = F[f]
    BY DEF IsRecursion
  <2>3. ASSUME NEW j \in D, rank[j] < k + 1 PROVE h[j] = F[h][j]
    <3>1. \A i \in D : rank[i] < rank[j] => h[i] = f[i]
      <4>1. \A i \in D : rank[i] \in 0 .. n
        BY DEF IsRecursion
      <4> QED BY <2>1, <2>2, <2>3, <4>1
    <3>2. F[h][j] = F[f][j]
      BY <3>1 DEF IsRecursion
    <3> QED BY <2>2, <3>2
  <2> QED BY <2>3
<1> HIDE DEF Below
<1>3. Bad = {}
  <2> SUFFICES ASSUME Bad # {} PROVE FALSE
    OBVIOUS
  <2>0. Bad \in SUBSET Nat /\ \A k : k \in Bad <=> k \in 0 .. n + 1 /\ ~Below(k)
    OBVIOUS
  <2> HIDE DEF Bad
  <2>1. PICK k \in Bad : \A y \in Bad : k <= y
    BY <2>0, LeastNumber
  <2>2. k - 1 \in 0 .. n /\ k - 1 \notin Bad /\ k - 1 \in 0 .. n + 1
    BY <1>1, <2>0, <2>1
  <2>3. Below(k - 1) /\ k = (k - 1) + 1
    BY <2>0, <2>2
  <2> QED BY <1>2, <2>0, <2>1, <2>2, <2>3
<1>4. Below(n + 1)
  BY <1>3
<1>5. PICK f \in [D -> V] : \A j \in D : rank[j] < n + 1 => f[j] = F[f][j]
  BY <1>4 DEF Below
<1>6. F[f] \in [D -> V] /\ \A j \in D : rank[j] \in 0 .. n
  BY DEF IsRecursion
<1>7. f = F[f]
  <2>1. \A j \in D : f[j] = F[f][j]
    BY <1>5, <1>6
  <2> QED BY <1>6, <2>1
<1> QED BY <1>7

(* Numbers that hold 0, and with a number the next one.                    *)
LEMMA UpTo ==
  ASSUME NEW n \in Nat, NEW T \in SUBSET (0 .. n), 0 \in T,
         \A i \in 0 .. n - 1 : i \in T => i + 1 \in T
  PROVE  T = 0 .. n
<1> DEFINE out == (0 .. n) \ T
<1> SUFFICES ASSUME out # {} PROVE FALSE
  OBVIOUS
<1>1. out \in SUBSET Nat
  OBVIOUS
<1>2. PICK i \in out : \A y \in out : i <= y
  <2> HIDE DEF out
  <2> QED BY <1>1, LeastNumber
<1>3. i - 1 \in 0 .. n - 1 /\ ~(i <= i - 1)
  BY <1>2
<1>4. i - 1 \in T
  BY <1>2, <1>3
<1>5. (i - 1) + 1 \in T /\ (i - 1) + 1 = i
  BY <1>3, <1>4
<1> QED BY <1>2, <1>5

(* What a loop has after each of its rounds.                               *)
IsLoop(s, n, first, step) ==
  s = [i \in 0 .. n |-> IF i = 0 THEN first ELSE step[i][s[i - 1]]]

(* Such a loop runs to its end ...                                         *)
LEMMA LoopRuns ==
  ASSUME NEW n \in Nat, NEW V, NEW first \in V, NEW step \in [1 .. n -> [V -> V]]
  PROVE  \E s : IsLoop(s, n, first, step)
<1> DEFINE D == 0 .. n
           F == [f \in [D -> V] |-> [i \in D |-> IF i = 0 THEN first ELSE step[i][f[i - 1]]]]
           rank == [i \in D |-> i]
<1>1. ASSUME NEW f \in [D -> V], NEW i \in D
      PROVE  (IF i = 0 THEN first ELSE step[i][f[i - 1]]) \in V
  <2>1. CASE i = 0
    BY <2>1
  <2>2. CASE i # 0
    <3>1. i \in 1 .. n /\ i - 1 \in D
      BY <2>2
    <3>2. f[i - 1] \in V /\ step[i] \in [V -> V]
      BY <3>1
    <3> QED BY <2>2, <3>2
  <2> QED BY <2>1, <2>2
<1>2. F \in [[D -> V] -> [D -> V]]
  BY <1>1
<1>3. ASSUME NEW f \in [D -> V], NEW g \in [D -> V], NEW i \in D,
             \A j \in D : rank[j] < rank[i] => f[j] = g[j]
      PROVE  F[f][i] = F[g][i]
  <2>1. CASE i = 0
    BY <2>1
  <2>2. CASE i # 0
    <3>1. i - 1 \in D /\ rank[i - 1] < rank[i]
      BY <2>2
    <3>2. f[i - 1] = g[i - 1]
      BY <1>3, <3>1
    <3> QED BY <2>2, <3>2
  <2> QED BY <2>1, <2>2
<1>4. rank \in [D -> 0 .. n]
  OBVIOUS
<1>5. \A f \in [D -> V] : F[f] = [i \in D |-> IF i = 0 THEN first ELSE step[i][f[i - 1]]]
  OBVIOUS
<1> HIDE DEF F, rank, D
<1>6. IsRecursion(D, rank, n, V, F)
  BY <1>2, <1>3, <1>4 DEF IsRecursion
<1>7. \E f \in [D -> V] : f = F[f]
  <2>1. V # {}
    OBVIOUS
  <2> QED BY <1>6, <2>1, RecursionHolds
<1>8. PICK f \in [D -> V] : f = F[f]
  BY <1>7
<1>9. f = [i \in D |-> IF i = 0 THEN first ELSE step[i][f[i - 1]]]
  BY <1>5, <1>8
<1>10. IsLoop(f, n, first, step)
  BY <1>9 DEF IsLoop, D
<1> QED BY <1>10

(* ... and round after round has a value of V.                             *)
LEMMA LoopIs ==
  ASSUME NEW n \in Nat, NEW V, NEW first \in V, NEW step \in [1 .. n -> [V -> V]],
         NEW s, IsLoop(s, n, first, step)
  PROVE  /\ s \in [0 .. n -> V]
         /\ s[0] = first
         /\ \A i \in 1 .. n : s[i] = step[i][s[i - 1]]
<1>1. DOMAIN s = 0 .. n /\ s = [i \in 0 .. n |-> s[i]]
  BY DEF IsLoop
<1>2. s[0] = first /\ \A i \in 1 .. n : s[i] = step[i][s[i - 1]]
  <2>1. \A i \in 0 .. n : s[i] = IF i = 0 THEN first ELSE step[i][s[i - 1]]
    BY DEF IsLoop
  <2> QED BY <2>1
<1> DEFINE T == {i \in 0 .. n : s[i] \in V}
<1>3. 0 \in T
  BY <1>2
<1>4. ASSUME NEW i \in 0 .. n - 1, i \in T PROVE i + 1 \in T
  <2>1. i + 1 \in 1 .. n /\ (i + 1) - 1 = i
    OBVIOUS
  <2>2. step[i + 1] \in [V -> V] /\ s[i] \in V
    BY <1>4, <2>1
  <2>3. s[i + 1] = step[i + 1][s[i]]
    BY <1>2, <2>1
  <2> QED BY <2>1, <2>2, <2>3
<1>5. T = 0 .. n
  <2>1. T \in SUBSET (0 .. n)
    OBVIOUS
  <2> HIDE DEF T
  <2> QED BY <1>3, <1>4, <2>1, UpTo
<1> QED BY <1>1, <1>2, <1>5

-----------------------------------------------------------------------------
(* The value of a node in SQL, and what it says, from its conditions'.     *)
SqlOf(t, row, sql, i) ==
  IF t[i].type = "column" THEN SqlColumn(t[i], row)
  ELSE IF t[i].type = "spatial" THEN SpatialPredicate(t[i], row)
  ELSE IF Conditions(t, i) = {} THEN "true"
  ELSE SqlJoin(t[i].operator, {sql[c] : c \in Conditions(t, i)})

SaidOf(t, row, says, i) ==
  IF t[i].type = "column" THEN SqlColumn(t[i], row) = "true"
  ELSE IF t[i].type = "spatial" THEN SpatialPredicate(t[i], row) = "true"
  ELSE IF Restricting(t, i) = {} THEN TRUE
  ELSE IF t[i].operator = "AND" THEN \A c \in Restricting(t, i) : says[c]
  ELSE \E c \in Restricting(t, i) : says[c]

SqlValue == {"true", "false", "unknown"}

(* A predicate is true, false or unknown.                                  *)
LEMMA SqlType ==
  /\ \A node, row : SqlColumn(node, row) \in SqlValue
  /\ \A node, row : SpatialPredicate(node, row) \in SqlValue
  /\ \A operator, S : SqlJoin(operator, S) \in SqlValue
<1>1. \A b : Sql(b) \in SqlValue
  BY DEF Sql, SqlValue
<1>2. \A node, row : SqlColumn(node, row) \in SqlValue
  BY <1>1 DEF SqlColumn, SqlValue
<1>3. \A node, row : SpatialPredicate(node, row) \in SqlValue
  BY <1>1 DEF SpatialPredicate
<1>4. \A operator, S : SqlJoin(operator, S) \in SqlValue
  BY DEF SqlJoin, SqlValue
<1> QED BY <1>2, <1>3, <1>4

(* The nodes of a tree, and the conditions of a group, which come after it. *)
LEMMA TreeIs ==
  ASSUME NEW t, IsTree(t)
  PROVE  /\ Len(t) \in Nat /\ Len(t) > 0 /\ DOMAIN t = 1 .. Len(t)
         /\ \A i \in 1 .. Len(t) : /\ IsNode(t[i])
                                   /\ Conditions(t, i) \subseteq i + 1 .. Len(t)
                                   /\ Restricting(t, i) \subseteq Conditions(t, i)
BY DEF IsTree, Conditions, Restricting

(* The compilation of a tree goes through all its nodes.                   *)
LEMMA SqlRuns ==
  ASSUME NEW t, IsTree(t), NEW row
  PROVE  SqlNode(t, row) = [i \in DOMAIN t |-> SqlOf(t, row, SqlNode(t, row), i)]
<1> DEFINE n == Len(t)
           F == [f \in [1 .. n -> SqlValue] |-> [i \in 1 .. n |-> SqlOf(t, row, f, i)]]
<1>1. n \in Nat /\ DOMAIN t = 1 .. n /\ \A i \in 1 .. n : Conditions(t, i) \subseteq i + 1 .. n
  BY TreeIs
<1> HIDE DEF n
<1>2. \A f, i : SqlOf(t, row, f, i) \in SqlValue
  BY SqlType DEF SqlOf, SqlValue
<1>3. F \in [[1 .. n -> SqlValue] -> [1 .. n -> SqlValue]]
  BY <1>2
<1>4. ASSUME NEW f \in [1 .. n -> SqlValue], NEW g \in [1 .. n -> SqlValue], NEW i \in 1 .. n,
             \A j \in i + 1 .. n : f[j] = g[j]
      PROVE  F[f][i] = F[g][i]
  <2>1. {f[c] : c \in Conditions(t, i)} = {g[c] : c \in Conditions(t, i)}
    BY <1>1, <1>4
  <2>2. SqlOf(t, row, f, i) = SqlOf(t, row, g, i)
    BY <2>1 DEF SqlOf
  <2> QED BY <2>2
<1>6. \E f \in [1 .. n -> SqlValue] : f = F[f]
  <2> HIDE DEF F
  <2> DEFINE rank == [i \in 1 .. n |-> n - i]
  <2>1. IsRecursion(1 .. n, rank, n, SqlValue, F)
    <3>1. rank \in [1 .. n -> 0 .. n]
      BY <1>1
    <3>2. \A i \in 1 .. n : \A j \in i + 1 .. n : j \in 1 .. n /\ rank[j] < rank[i]
      BY <1>1
    <3> HIDE DEF rank
    <3> QED BY <1>3, <1>4, <3>1, <3>2 DEF IsRecursion
  <2>2. SqlValue # {}
    BY DEF SqlValue
  <2> DEFINE D == 1 .. n
  <2>3. n \in Nat
    BY <1>1
  <2>4. IsRecursion(D, rank, n, SqlValue, F)
    BY <2>1
  <2> HIDE DEF rank, D
  <2>5. \E f \in [D -> SqlValue] : f = F[f]
    BY <2>2, <2>3, <2>4, RecursionHolds
  <2> QED BY <2>5 DEF D
<1>7. \E f : f = [i \in DOMAIN t |-> SqlOf(t, row, f, i)]
  BY <1>1, <1>6
<1> QED BY <1>7, Zenon DEF SqlNode, SqlOf

(* The reading of a tree goes through all its nodes.                       *)
LEMMA SaysRuns ==
  ASSUME NEW t, IsTree(t), NEW row
  PROVE  Says(t, row) = [i \in DOMAIN t |-> SaidOf(t, row, Says(t, row), i)]
<1> DEFINE n == Len(t)
           F == [f \in [1 .. n -> BOOLEAN] |-> [i \in 1 .. n |-> SaidOf(t, row, f, i)]]
<1>1. /\ n \in Nat /\ DOMAIN t = 1 .. n
      /\ \A i \in 1 .. n : Restricting(t, i) \subseteq i + 1 .. n
  BY TreeIs
<1> HIDE DEF n
<1>2. \A f, i : SaidOf(t, row, f, i) \in BOOLEAN
  BY DEF SaidOf
<1>3. F \in [[1 .. n -> BOOLEAN] -> [1 .. n -> BOOLEAN]]
  BY <1>2
<1>4. ASSUME NEW f \in [1 .. n -> BOOLEAN], NEW g \in [1 .. n -> BOOLEAN], NEW i \in 1 .. n,
             \A j \in i + 1 .. n : f[j] = g[j]
      PROVE  F[f][i] = F[g][i]
  <2>1. \A c \in Restricting(t, i) : f[c] = g[c]
    BY <1>1, <1>4
  <2>2. SaidOf(t, row, f, i) = SaidOf(t, row, g, i)
    BY <2>1 DEF SaidOf
  <2> QED BY <2>2
<1>5. \E f \in [1 .. n -> BOOLEAN] : f = F[f]
  <2> HIDE DEF F
  <2> DEFINE rank == [i \in 1 .. n |-> n - i]
  <2>1. IsRecursion(1 .. n, rank, n, BOOLEAN, F)
    <3>1. rank \in [1 .. n -> 0 .. n]
      BY <1>1
    <3>2. \A i \in 1 .. n : \A j \in i + 1 .. n : j \in 1 .. n /\ rank[j] < rank[i]
      BY <1>1
    <3> HIDE DEF rank
    <3> QED BY <1>3, <1>4, <3>1, <3>2 DEF IsRecursion
  <2>2. BOOLEAN # {}
    BY DEF SqlValue
  <2> DEFINE D == 1 .. n
  <2>3. n \in Nat
    BY <1>1
  <2>4. IsRecursion(D, rank, n, BOOLEAN, F)
    BY <2>1
  <2> HIDE DEF rank, D
  <2>5. \E f \in [D -> BOOLEAN] : f = F[f]
    BY <2>2, <2>3, <2>4, RecursionHolds
  <2> QED BY <2>5 DEF D
<1>6. \E f : f = [i \in DOMAIN t |-> SaidOf(t, row, f, i)]
  BY <1>1, <1>5
<1> QED BY <1>6, Zenon DEF Says, SaidOf

(* A node's predicate is true of a row exactly when what it says holds,    *)
(* where no OR has a group without conditions.                             *)
LEMMA NodeSaysItsSql ==
  ASSUME NEW t, IsTree(t), NEW row, ~OrOfNothing(t), NEW k \in DOMAIN t
  PROVE  SqlNode(t, row)[k] = "true" <=> Says(t, row)[k]
<1> DEFINE n == Len(t)
           sql == SqlNode(t, row)
           says == Says(t, row)
           T == {i \in 1 .. n : sql[i] = "true" <=> says[i]}
<1>1. /\ n \in Nat /\ DOMAIN t = 1 .. n
      /\ \A i \in 1 .. n : /\ IsNode(t[i])
                           /\ Conditions(t, i) \subseteq i + 1 .. n
                           /\ Restricting(t, i) \subseteq Conditions(t, i)
  BY TreeIs
<1>2. \A i \in 1 .. n : sql[i] = SqlOf(t, row, sql, i)
  <2>1. sql = [i \in DOMAIN t |-> SqlOf(t, row, sql, i)]
    BY SqlRuns
  <2> HIDE DEF sql
  <2> QED BY <1>1, <2>1
<1>3. \A i \in 1 .. n : says[i] <=> SaidOf(t, row, says, i)
  <2>1. says = [i \in DOMAIN t |-> SaidOf(t, row, says, i)]
    BY SaysRuns
  <2> HIDE DEF says
  <2> QED BY <1>1, <2>1
<1> HIDE DEF n, sql, says
<1>4. ASSUME NEW i \in 1 .. n, \A c \in Conditions(t, i) : sql[c] = "true" <=> says[c]
      PROVE  sql[i] = "true" <=> says[i]
  <2>1. CASE t[i].type \in {"column", "spatial"}
    BY <1>2, <1>3, <2>1 DEF SqlOf, SaidOf
  <2>2. CASE t[i].type \notin {"column", "spatial"} /\ Conditions(t, i) = {}
    BY <1>1, <1>2, <1>3, <2>2 DEF SqlOf, SaidOf
  <2>3. CASE t[i].type \notin {"column", "spatial"} /\ Conditions(t, i) # {}
    <3>1. t[i].type = "group" /\ t[i].operator \in {"AND", "OR"}
      BY <1>1, <2>3 DEF IsNode, Conditions, Children
    <3>2. sql[i] = SqlJoin(t[i].operator, {sql[c] : c \in Conditions(t, i)})
      BY <1>2, <2>3 DEF SqlOf
    <3>3. \A c \in Conditions(t, i) : sql[c] \in SqlValue
      <4>1. \A f, j : SqlOf(t, row, f, j) \in SqlValue
        BY SqlType DEF SqlOf, SqlValue
      <4> QED BY <1>1, <1>2, <4>1
    <3>4. ASSUME NEW c \in Conditions(t, i), c \notin Restricting(t, i) PROVE says[c]
      <4>1. t[c].type = "group" /\ Conditions(t, c) = {} /\ c \in 1 .. n
        BY <1>1, <3>4 DEF Restricting
      <4>2. Restricting(t, c) = {}
        BY <1>1, <4>1
      <4> QED BY <1>3, <4>1, <4>2 DEF SaidOf
    <3>5. CASE t[i].operator = "AND"
      <4>1. sql[i] = "true" <=> \A c \in Conditions(t, i) : sql[c] = "true"
        BY <3>2, <3>3, <3>5 DEF SqlJoin, SqlValue
      <4>2. says[i] <=> \A c \in Restricting(t, i) : says[c]
        BY <1>3, <3>1, <3>5 DEF SaidOf
      <4> QED BY <1>1, <1>4, <3>4, <4>1, <4>2
    <3>6. CASE t[i].operator = "OR"
      <4>1. sql[i] = "true" <=> \E c \in Conditions(t, i) : sql[c] = "true"
        BY <3>2, <3>3, <3>6 DEF SqlJoin, SqlValue
      <4>2. Restricting(t, i) = Conditions(t, i)
        BY <1>1, <3>1, <3>6 DEF OrOfNothing
      <4>3. says[i] <=> \E c \in Restricting(t, i) : says[c]
        BY <1>3, <2>3, <3>1, <3>6, <4>2 DEF SaidOf
      <4> QED BY <1>4, <4>1, <4>2, <4>3
    <3> QED BY <3>1, <3>5, <3>6
  <2> QED BY <2>1, <2>2, <2>3
<1>5. \A i \in 1 .. n : i + 1 .. n \subseteq T => i \in T
  BY <1>1, <1>4
<1>6. T = 1 .. n
  <2>1. T \in SUBSET (1 .. n)
    OBVIOUS
  <2> HIDE DEF T
  <2> QED BY <1>1, <1>5, <2>1, FromTheLast
<1>7. k \in 1 .. n
  BY <1>1
<1> QED BY <1>6, <1>7 DEF sql, says

(* The expression of a column that MapLibre takes draws the rows the       *)
(* predicate is true of.                                                   *)
LEMMA ColumnDrawsItsSql ==
  ASSUME NEW node, IsNode(node), node.type = "column", NEW row,
         node.operator \in Orderings => node.value # Missing
  PROVE  MapColumn(node, row) <=> SqlColumn(node, row) = "true"
<1> DEFINE c == row[node.field]
           v == node.value
<1>1. /\ node.operator \in Equalities \cup Orderings
                            \cup {"contains", "is_null", "is_not_null", "IN", "NOT IN"}
      /\ node.operator \in {"IN", "NOT IN"} => Missing \notin v
  <2>1. /\ node.field \in DOMAIN Operators /\ node.operator \in Operators[node.field]
        /\ node.operator \in {"IN", "NOT IN"} => Missing \notin v
    BY DEF IsNode
  <2>2. DOMAIN Operators = {"num", "txt"}
    BY DEF Operators
  <2>3. /\ Operators["num"] = Equalities \cup Orderings
                                \cup {"is_null", "is_not_null", "IN", "NOT IN"}
        /\ Operators["txt"] = Equalities
                                \cup {"contains", "is_null", "is_not_null", "IN", "NOT IN"}
    BY DEF Operators
  <2>4. node.operator \in Operators["num"] \/ node.operator \in Operators["txt"]
    BY <2>1, <2>2
  <2> QED BY <2>1, <2>3, <2>4
<1>2. CASE node.operator \in Orderings
  <2>1. MapColumn(node, row) <=> c # Missing /\ Compares(node.operator, c, v)
    BY <1>2 DEF MapColumn, Orderings
  <2>2. SqlColumn(node, row) = "true" <=> c # Missing /\ Compares(node.operator, c, v)
    BY <1>2 DEF SqlColumn, Sql
  <2> QED BY <2>1, <2>2
<1>3. CASE node.operator = "contains"
  <2>1. MapColumn(node, row) <=> c # Missing /\ Holds(c, v)
    BY <1>3 DEF MapColumn, Orderings
  <2>2. SqlColumn(node, row) = "true" <=> c # Missing /\ Holds(c, v)
    BY <1>3 DEF SqlColumn, Sql, Orderings
  <2> QED BY <2>1, <2>2
<1>4. CASE node.operator \in Equalities \cup {"is_null", "is_not_null", "IN", "NOT IN"}
  <2>1. CASE node.operator = "eq"
    BY <2>1 DEF MapColumn, SqlColumn, Sql, Orderings
  <2>2. CASE node.operator = "neq"
    BY <2>2 DEF MapColumn, SqlColumn, Sql, Orderings
  <2>3. CASE node.operator = "is_null"
    BY <2>3 DEF MapColumn, SqlColumn, Sql, Orderings
  <2>4. CASE node.operator = "is_not_null"
    BY <2>4 DEF MapColumn, SqlColumn, Sql, Orderings
  <2>5. CASE node.operator = "IN"
    BY <1>1, <2>5 DEF MapColumn, SqlColumn, Sql, Orderings
  <2>6. CASE node.operator = "NOT IN"
    BY <1>1, <2>6 DEF MapColumn, SqlColumn, Sql, Orderings, NotListed
  <2> QED BY <1>4, <2>1, <2>2, <2>3, <2>4, <2>5, <2>6 DEF Equalities
<1> QED BY <1>1, <1>2, <1>3, <1>4

(* A preview that MapLibre takes, of a tree without spatial conditions,    *)
(* draws the rows its predicate is true of.                                *)
LEMMA PreviewIsFiltered ==
  ASSUME NEW t, IsTree(t), Parses(t), ~SpatialIn(t), NEW drawn, NEW before
  PROVE  Preview(t, drawn, before) = Filtered(t, drawn)
<1>1. /\ 1 \in DOMAIN t /\ IsNode(t[1])
      /\ \A row : SqlNode(t, row)[1] = SqlOf(t, row, SqlNode(t, row), 1)
  <2>1. 1 \in DOMAIN t /\ IsNode(t[1])
    BY TreeIs
  <2>2. ASSUME NEW row PROVE SqlNode(t, row)[1] = SqlOf(t, row, SqlNode(t, row), 1)
    <3> DEFINE sql == SqlNode(t, row)
    <3>1. sql = [i \in DOMAIN t |-> SqlOf(t, row, sql, i)]
      BY SqlRuns
    <3> HIDE DEF sql
    <3>2. sql[1] = SqlOf(t, row, sql, 1)
      BY <2>1, <3>1
    <3> QED BY <3>2 DEF sql
  <2> QED BY <2>1, <2>2
<1>2. CASE t[1].type = "column"
  <2>1. \A row : MapColumn(t[1], row) <=> SqlColumn(t[1], row) = "true"
    BY <1>1, <1>2, ColumnDrawsItsSql DEF Parses
  <2>2. \A row : SqlNode(t, row)[1] = SqlColumn(t[1], row)
    BY <1>1, <1>2 DEF SqlOf
  <2> QED BY <1>2, <2>1, <2>2 DEF Preview, Filtered
<1>3. CASE t[1].type # "column"
  <2>1. t[1].type # "spatial"
    BY <1>1 DEF SpatialIn
  <2>2. Conditions(t, 1) = {}
    <3>1. \A c \in Conditions(t, 1) : c \in DOMAIN t
      BY <1>1, TreeIs
    <3>2. Previewed(t, 1) = Conditions(t, 1)
      BY <3>1 DEF Previewed, SpatialIn
    <3> QED BY <3>2 DEF Parses, Conditions, Children
  <2>3. \A row : SqlNode(t, row)[1] = "true"
    BY <1>1, <1>3, <2>1, <2>2 DEF SqlOf
  <2> QED BY <1>3, <2>3 DEF Preview, Filtered
<1> QED BY <1>2, <1>3

(* What a compiled filter left: the rows of its predicate, and what the    *)
(* map draws of a preview it takes.                                        *)
FilterInv ==
  /\ tree \in Trees
  /\ compiled => /\ filtered = Filtered(tree, Rows)
                 /\ Parses(tree) => preview = Preview(tree, Rows, {})

(* For every tree and all rows: the rows of the filter are those the tree  *)
(* describes, and a preview that is drawn shows the same ones.             *)
THEOREM FilterAlwaysDraws == FilterSpec => []FilterDrawsItsTree
<1>1. FilterInit => FilterInv
  BY DEF FilterInit, FilterInv
<1>2. FilterInv /\ [CompileFilter]_filterVars => FilterInv'
  BY DEF FilterInv, CompileFilter, filterVars, Preview
<1>3. FilterInv => FilterDrawsItsTree
  <2> SUFFICES ASSUME FilterInv, compiled PROVE FilterDrawsItsTree
    BY DEF FilterDrawsItsTree
  <2>1. IsTree(tree) /\ 1 \in DOMAIN tree
    BY TreesAssumption, TreeIs DEF FilterInv
  <2>2. ~OrOfNothing(tree) => filtered = {row \in Rows : Says(tree, row)[1]}
    BY <2>1, NodeSaysItsSql DEF FilterInv, Filtered
  <2>3. Parses(tree) /\ ~SpatialIn(tree) => preview = filtered
    BY <2>1, PreviewIsFiltered DEF FilterInv
  <2> QED BY <2>2, <2>3 DEF FilterDrawsItsTree
<1> QED BY <1>1, <1>2, <1>3, PTL DEF FilterSpec

-----------------------------------------------------------------------------
(***************************************************************************)
(* The classes of a column, for any column, method and number of classes.  *)
(***************************************************************************)

(* A finite set of integers has a least and a greatest one.                *)
LEMMA HasLeast ==
  ASSUME NEW S \in SUBSET Int, IsFiniteSet(S), S # {}
  PROVE  \E x \in S : \A y \in S : x <= y
<1> DEFINE Under(v) == {u \in S : u < v}
           ranks == {Cardinality(Under(v)) : v \in S}
<1>1. \A v \in S : IsFiniteSet(Under(v)) /\ Cardinality(Under(v)) \in Nat
  BY FS_Subset, FS_CardinalityType
<1>2. PICK k \in ranks : \A j \in ranks : k <= j
  <2>1. ranks \in SUBSET Nat /\ ranks # {}
    BY <1>1
  <2> HIDE DEF ranks
  <2> QED BY <2>1, LeastNumber
<1>3. PICK x \in S : k = Cardinality(Under(x))
  BY <1>2
<1>4. ASSUME NEW y \in S, y < x PROVE FALSE
  <2>1. Under(y) \subseteq Under(x) /\ y \in Under(x) /\ y \notin Under(y)
    BY <1>3, <1>4
  <2>2. /\ Cardinality(Under(y)) # Cardinality(Under(x))
        /\ Cardinality(Under(y)) <= Cardinality(Under(x))
    <3> HIDE DEF Under
    <3> QED BY <1>1, <1>3, <2>1, FS_Subset
  <2>3. k <= Cardinality(Under(y))
    BY <1>2, <1>4
  <2> QED BY <1>1, <1>3, <1>4, <2>2, <2>3
<1> QED BY <1>3, <1>4

(* ... and a greatest one.                                                 *)
LEMMA HasGreatest ==
  ASSUME NEW S \in SUBSET Int, IsFiniteSet(S), S # {}
  PROVE  \E x \in S : \A y \in S : y <= x
<1> DEFINE N == {-v : v \in S}
           f == [v \in S |-> -v]
<1>1. N \in SUBSET Int /\ N # {}
  <2>1. \A v \in S : v \in Int /\ -v \in Int /\ -v \in N
    OBVIOUS
  <2>2. N \in SUBSET Int
    BY <2>1
  <2> QED BY <2>1, <2>2
<1>2. IsFiniteSet(N)
  <2>1. f \in Surjection(S, N)
    BY DEF Surjection
  <2> HIDE DEF f, N
  <2> QED BY <2>1, FS_Surjection
<1>3. PICK m \in N : \A y \in N : m <= y
  <2> HIDE DEF N
  <2> QED BY <1>1, <1>2, HasLeast
<1>4. PICK x \in S : m = -x
  BY <1>3
<1>5. \A y \in S : m <= -y
  BY <1>3
<1> QED BY <1>4, <1>5

(* Min and Max find them.                                                  *)
LEMMA MinIs ==
  ASSUME NEW S \in SUBSET Int, IsFiniteSet(S), S # {}
  PROVE  Min(S) \in S /\ \A y \in S : Min(S) <= y
BY HasLeast DEF Min

LEMMA MaxIs ==
  ASSUME NEW S \in SUBSET Int, IsFiniteSet(S), S # {}
  PROVE  Max(S) \in S /\ \A y \in S : y <= Max(S)
<1>1. \E x \in S : \A y \in S : x >= y
  BY HasGreatest
<1> QED BY <1>1 DEF Max

(* The least of two numbers.                                               *)
LEMMA MinOfTwo ==
  ASSUME NEW a \in Int, NEW b \in Int
  PROVE  Min({a, b}) = IF a <= b THEN a ELSE b
<1>1. \E x \in {a, b} : \A y \in {a, b} : x <= y
  OBVIOUS
<1>2. Min({a, b}) \in {a, b} /\ \A y \in {a, b} : Min({a, b}) <= y
  BY <1>1 DEF Min
<1> QED BY <1>2

(* The values of a function on a finite set are finitely many.             *)
LEMMA FiniteImage ==
  ASSUME NEW S, IsFiniteSet(S), NEW f, DOMAIN f = S, f = [x \in S |-> f[x]]
  PROVE  IsFiniteSet({f[x] : x \in S}) /\ Cardinality({f[x] : x \in S}) <= Cardinality(S)
<1> DEFINE T == {f[x] : x \in S}
<1>1. f \in Surjection(S, T)
  BY DEF Surjection
<1> HIDE DEF T
<1>2. IsFiniteSet(T) /\ Cardinality(T) <= Cardinality(S)
  BY <1>1, FS_Surjection
<1> QED BY <1>2 DEF T

-----------------------------------------------------------------------------
(* ORDER BY.                                                               *)

IsRows(recs) == IsFiniteSet(recs) /\ \A r \in recs : r[1] \in Int

ValuesOf(recs) == {r[1] : r \in recs}

RowsUnder(recs, v) == {r \in recs : r[1] < v}
RowsUpTo(recs, v) == {r \in recs : r[1] <= v}

StandsAt(recs, p, v) ==
  Cardinality(RowsUnder(recs, v)) < p /\ p <= Cardinality(RowsUpTo(recs, v))

(* The rows below a value, and those at it or below, can be counted.       *)
LEMMA RowCounts ==
  ASSUME NEW recs, IsRows(recs)
  PROVE  /\ Cardinality(recs) \in Nat
         /\ \A v : /\ IsFiniteSet(RowsUnder(recs, v)) /\ IsFiniteSet(RowsUpTo(recs, v))
                   /\ Cardinality(RowsUnder(recs, v)) \in Nat
                   /\ Cardinality(RowsUpTo(recs, v)) \in Nat
                   /\ Cardinality(RowsUpTo(recs, v)) <= Cardinality(recs)
         /\ \A v, w \in Int : v < w =>
               Cardinality(RowsUpTo(recs, v)) <= Cardinality(RowsUnder(recs, w))
<1>1. \A v : RowsUnder(recs, v) \in SUBSET recs /\ RowsUpTo(recs, v) \in SUBSET recs
  BY DEF RowsUnder, RowsUpTo
<1>2. \A v : /\ IsFiniteSet(RowsUnder(recs, v)) /\ IsFiniteSet(RowsUpTo(recs, v))
             /\ Cardinality(RowsUpTo(recs, v)) <= Cardinality(recs)
  BY <1>1, FS_Subset DEF IsRows
<1>3. ASSUME NEW v \in Int, NEW w \in Int, v < w
      PROVE  Cardinality(RowsUpTo(recs, v)) <= Cardinality(RowsUnder(recs, w))
  <2>1. RowsUpTo(recs, v) \in SUBSET RowsUnder(recs, w)
    BY <1>3 DEF RowsUpTo, RowsUnder, IsRows
  <2> QED BY <1>2, <2>1, FS_Subset
<1> QED BY <1>2, <1>3, FS_CardinalityType DEF IsRows

(* Finitely many rows hold finitely many values.                           *)
LEMMA ValuesFinite ==
  ASSUME NEW recs, IsRows(recs)
  PROVE  ValuesOf(recs) \in SUBSET Int /\ IsFiniteSet(ValuesOf(recs))
<1> DEFINE f == [r \in recs |-> r[1]]
<1>1. DOMAIN f = recs /\ f = [r \in recs |-> f[r]] /\ {f[r] : r \in recs} = ValuesOf(recs)
  BY DEF ValuesOf
<1> HIDE DEF f
<1>2. IsFiniteSet({f[r] : r \in recs})
  BY <1>1, FiniteImage DEF IsRows
<1> QED BY <1>1, <1>2 DEF ValuesOf, IsRows

(* Every position has a value.                                             *)
LEMMA SomeStandsAt ==
  ASSUME NEW recs, IsRows(recs), NEW p \in 1 .. Cardinality(recs)
  PROVE  \E v \in ValuesOf(recs) : StandsAt(recs, p, v)
<1> DEFINE V == ValuesOf(recs)
           high == {v \in V : p <= Cardinality(RowsUpTo(recs, v))}
<1>0. V \in SUBSET Int /\ IsFiniteSet(V) /\ Cardinality(recs) \in Nat
  BY ValuesFinite, RowCounts
<1>1. recs # {}
  BY FS_EmptySet
<1>2. V # {}
  BY <1>1 DEF ValuesOf
<1>3. PICK top \in V : \A y \in V : y <= top
  <2> HIDE DEF V
  <2> QED BY <1>0, <1>2, HasGreatest
<1>4. RowsUpTo(recs, top) = recs
  BY <1>3 DEF RowsUpTo, ValuesOf
<1>5. high \in SUBSET Int /\ IsFiniteSet(high) /\ high # {}
  <2>1. top \in high
    BY <1>3, <1>4
  <2> QED BY <1>0, <2>1, FS_Subset
<1>6. PICK v \in high : \A y \in high : v <= y
  <2> HIDE DEF high
  <2> QED BY <1>5, HasLeast
<1>7. Cardinality(RowsUnder(recs, v)) < p
  <2> DEFINE low == {u \in V : u < v}
  <2>1. CASE low = {}
    <3>1. RowsUnder(recs, v) = {}
      BY <2>1 DEF RowsUnder, ValuesOf
    <3> QED BY <3>1, FS_EmptySet
  <2>2. CASE low # {}
    <3>1. low \in SUBSET Int /\ IsFiniteSet(low)
      BY <1>0, FS_Subset
    <3>2. PICK u \in low : \A y \in low : y <= u
      <4> HIDE DEF low
      <4> QED BY <2>2, <3>1, HasGreatest
    <3>3. RowsUnder(recs, v) = RowsUpTo(recs, u)
      <4>1. u \in Int /\ v \in Int /\ u < v
        BY <1>0, <3>2
      <4> QED BY <3>2, <4>1 DEF RowsUnder, RowsUpTo, ValuesOf, IsRows
    <3>4. u \in V /\ ~(v <= u)
      BY <1>0, <3>2
    <3>5. ~(p <= Cardinality(RowsUpTo(recs, u)))
      BY <1>6, <3>4
    <3> QED BY <3>3, <3>5, RowCounts
  <2> QED BY <2>1, <2>2
<1> QED BY <1>6, <1>7 DEF StandsAt

(* ... and later positions no lower one.                                   *)
LEMMA StandInOrder ==
  ASSUME NEW recs, IsRows(recs), NEW p \in Int, NEW q \in Int, p <= q,
         NEW v \in Int, StandsAt(recs, p, v), NEW w \in Int, StandsAt(recs, q, w)
  PROVE  v <= w
<1> SUFFICES ASSUME w < v PROVE FALSE
  OBVIOUS
<1>1. Cardinality(RowsUpTo(recs, w)) <= Cardinality(RowsUnder(recs, v))
  BY RowCounts
<1> QED BY <1>1, RowCounts DEF StandsAt

(* Sorted puts the values of the rows in order, and has them all.          *)
LEMMA SortedIs ==
  ASSUME NEW recs, IsRows(recs)
  PROVE  /\ Cardinality(recs) \in Nat
         /\ Sorted(recs) \in Seq(ValuesOf(recs)) /\ Sorted(recs) \in Seq(Int)
         /\ Len(Sorted(recs)) = Cardinality(recs)
         /\ \A p \in 1 .. Len(Sorted(recs)) : StandsAt(recs, p, Sorted(recs)[p])
         /\ \A p, q \in 1 .. Len(Sorted(recs)) : p <= q => Sorted(recs)[p] <= Sorted(recs)[q]
         /\ \A v \in ValuesOf(recs) : \E p \in 1 .. Len(Sorted(recs)) : Sorted(recs)[p] = v
<1> DEFINE n == Cardinality(recs)
           s == Sorted(recs)
<1>0. n \in Nat /\ ValuesOf(recs) \in SUBSET Int
  BY RowCounts, ValuesFinite
<1>1. s = [p \in 1 .. n |-> CHOOSE v \in ValuesOf(recs) : StandsAt(recs, p, v)]
  BY DEF Sorted, ValuesOf, StandsAt, RowsUnder, RowsUpTo
<1>2. \A p \in 1 .. n : s[p] \in ValuesOf(recs) /\ StandsAt(recs, p, s[p])
  BY <1>1, SomeStandsAt
<1>3. s \in Seq(ValuesOf(recs)) /\ Len(s) = n
  BY <1>0, <1>1, <1>2
<1>4. s \in Seq(Int)
  BY <1>0, <1>3
<1>5. \A p, q \in 1 .. n : p <= q => s[p] <= s[q]
  <2> HIDE DEF s
  <2> QED BY <1>0, <1>2, StandInOrder
<1>6. ASSUME NEW v \in ValuesOf(recs) PROVE \E p \in 1 .. n : s[p] = v
  <2> DEFINE p == Cardinality(RowsUpTo(recs, v))
  <2>1. PICK r \in recs : r[1] = v
    BY DEF ValuesOf
  <2>2. v \in Int /\ p \in Nat /\ p <= n
    BY <1>0, RowCounts
  <2>3. /\ RowsUnder(recs, v) \in SUBSET RowsUpTo(recs, v)
        /\ r \in RowsUpTo(recs, v) \ RowsUnder(recs, v)
    BY <1>0, <2>1, <2>2 DEF RowsUnder, RowsUpTo, IsRows
  <2>4. Cardinality(RowsUnder(recs, v)) < p
    BY <2>3, RowCounts, FS_Subset
  <2>5. p \in 1 .. n
    BY <2>2, <2>4, RowCounts
  <2>6. StandsAt(recs, p, v)
    BY <2>2, <2>4 DEF StandsAt
  <2>7. s[p] \in Int /\ StandsAt(recs, p, s[p])
    BY <1>0, <1>2, <2>5
  <2> HIDE DEF p, s
  <2>8. s[p] <= v /\ v <= s[p]
    BY <1>0, <2>2, <2>5, <2>6, <2>7, StandInOrder
  <2> QED BY <2>2, <2>5, <2>7, <2>8
<1> QED BY <1>0, <1>2, <1>3, <1>4, <1>5, <1>6

(* The values of a set, each once.                                         *)
LEMMA AscendingIs ==
  ASSUME NEW S \in SUBSET Int, IsFiniteSet(S)
  PROVE  /\ Ascending(S) \in Seq(S) /\ Ascending(S) \in Seq(Int)
         /\ Cardinality(S) \in Nat /\ Len(Ascending(S)) = Cardinality(S)
         /\ \A p, q \in 1 .. Len(Ascending(S)) : p < q => Ascending(S)[p] < Ascending(S)[q]
         /\ \A v \in S : \E p \in 1 .. Len(Ascending(S)) : Ascending(S)[p] = v
<1> DEFINE recs == S \X {1}
           s == Ascending(S)
<1>1. IsFiniteSet(recs) /\ Cardinality(recs) = Cardinality(S) /\ Cardinality(S) \in Nat
  <2>1. IsFiniteSet({1}) /\ Cardinality({1}) = 1
    BY FS_Singleton
  <2>2. Cardinality(S) \in Nat
    BY FS_CardinalityType
  <2>3. IsFiniteSet(recs) /\ Cardinality(recs) = Cardinality(S) * Cardinality({1})
    BY <2>1, FS_Product
  <2> QED BY <2>1, <2>2, <2>3
<1>2. IsRows(recs) /\ ValuesOf(recs) = S
  <2>1. \A r \in recs : r[1] \in S
    OBVIOUS
  <2>2. \A v \in S : <<v, 1>> \in recs /\ <<v, 1>>[1] = v
    OBVIOUS
  <2> HIDE DEF recs
  <2> QED BY <1>1, <2>1, <2>2 DEF IsRows, ValuesOf
<1>3. s = Sorted(recs)
  BY DEF Ascending
<1> HIDE DEF recs, s
<1>4. ASSUME NEW v \in S PROVE Cardinality(RowsUpTo(recs, v)) <= Cardinality(RowsUnder(recs, v)) + 1
  <2>1. RowsUpTo(recs, v) = RowsUnder(recs, v) \cup {<<v, 1>>}
    <3>1. ASSUME NEW r \in recs, r[1] <= v, ~(r[1] < v) PROVE r = <<v, 1>>
      <4>1. r[1] \in S /\ r = <<r[1], 1>>
        BY DEF recs
      <4>2. r[1] \in Int /\ v \in Int
        BY <4>1
      <4>3. r[1] = v
        BY <3>1, <4>2
      <4> QED BY <4>1, <4>3
    <3>2. <<v, 1>> \in recs /\ <<v, 1>>[1] = v /\ v <= v
      BY DEF recs
    <3>3. \A r \in recs : r[1] < v => r[1] <= v
      BY <1>2 DEF IsRows
    <3> QED BY <3>1, <3>2, <3>3 DEF RowsUpTo, RowsUnder
  <2>2. IsFiniteSet(RowsUnder(recs, v)) /\ Cardinality(RowsUnder(recs, v)) \in Nat
    BY <1>2, RowCounts
  <2>3. \/ Cardinality(RowsUpTo(recs, v)) = Cardinality(RowsUnder(recs, v))
        \/ Cardinality(RowsUpTo(recs, v)) = Cardinality(RowsUnder(recs, v)) + 1
    BY <2>1, <2>2, FS_AddElement
  <2> QED BY <2>2, <2>3
<1>5. ASSUME NEW p \in 1 .. Len(s), NEW q \in 1 .. Len(s), p < q PROVE s[p] < s[q]
  <2>0. Len(s) \in Nat /\ s[p] \in S /\ s[q] \in S
    <3>1. s \in Seq(S)
      BY <1>2, <1>3, SortedIs
    <3> QED BY <3>1
  <2>1. StandsAt(recs, p, s[p]) /\ StandsAt(recs, q, s[q]) /\ s[p] <= s[q]
    BY <1>2, <1>3, <1>5, <2>0, SortedIs
  <2>2. ASSUME s[p] = s[q] PROVE FALSE
    <3> DEFINE v == s[p]
               under == Cardinality(RowsUnder(recs, v))
               upTo == Cardinality(RowsUpTo(recs, v))
    <3>1. under \in Nat /\ upTo \in Nat /\ upTo <= under + 1
      BY <1>2, <1>4, <2>0, RowCounts
    <3>2. under < p /\ q <= upTo
      BY <2>1, <2>2 DEF StandsAt
    <3>3. p \in Int /\ q \in Int
      BY <2>0
    <3> HIDE DEF under, upTo
    <3> QED BY <1>5, <3>1, <3>2, <3>3
  <2>3. s[p] \in Int /\ s[q] \in Int /\ s[p] <= s[q] /\ s[p] # s[q]
    BY <2>0, <2>1, <2>2
  <2> QED BY <2>3
<1>6. /\ s \in Seq(S) /\ s \in Seq(Int) /\ Len(s) = Cardinality(S)
      /\ \A v \in S : \E p \in 1 .. Len(s) : s[p] = v
  BY <1>1, <1>2, <1>3, SortedIs
<1> QED BY <1>1, <1>5, <1>6 DEF s

-----------------------------------------------------------------------------
(* Breaks, and the edges of tiles.                                         *)

IsAscending(b) == \A i, j \in 1 .. Len(b) : i < j => b[i] < b[j]
NeverFalls(b) == \A i, j \in 1 .. Len(b) : i <= j => b[i] <= b[j]

LEMMA FirstNumbers ==
  ASSUME NEW n \in Nat
  PROVE  IsFiniteSet(1 .. n) /\ Cardinality(1 .. n) = n
<1>1. 1 \in Int /\ n \in Int /\ (IF 1 > n THEN 0 ELSE n - 1 + 1) = n
  OBVIOUS
<1> QED BY <1>1, FS_Interval

(* Ascending values of a set are at most as many as the set has.           *)
LEMMA AscendingFits ==
  ASSUME NEW S \in SUBSET Int, IsFiniteSet(S), NEW b \in Seq(S), IsAscending(b)
  PROVE  Len(b) <= Cardinality(S)
<1>1. Len(b) \in Nat /\ b \in [1 .. Len(b) -> S]
  OBVIOUS
<1>2. \A i, j \in 1 .. Len(b) : b[i] = b[j] => i = j
  <2> SUFFICES ASSUME NEW i \in 1 .. Len(b), NEW j \in 1 .. Len(b), b[i] = b[j], i < j PROVE FALSE
    BY <1>1
  <2>1. b[i] < b[j] /\ b[i] \in Int
    BY <1>1 DEF IsAscending
  <2> QED BY <2>1
<1>3. b \in Injection(1 .. Len(b), S)
  BY <1>1, <1>2 DEF Injection, IsInjective
<1>4. Cardinality(1 .. Len(b)) <= Cardinality(S)
  BY <1>3, FS_Injection
<1>5. Cardinality(1 .. Len(b)) = Len(b)
  BY <1>1, FirstNumbers
<1> QED BY <1>4, <1>5

(* A sequence that has all of a set is at least as long.                   *)
LEMMA AllFit ==
  ASSUME NEW S, NEW b \in Seq(S), \A v \in S : \E i \in 1 .. Len(b) : b[i] = v
  PROVE  Cardinality(S) <= Len(b)
<1>1. Len(b) \in Nat /\ b \in [1 .. Len(b) -> S]
  OBVIOUS
<1>2. b \in Surjection(1 .. Len(b), S)
  BY <1>1 DEF Surjection
<1>3. IsFiniteSet(1 .. Len(b)) /\ Cardinality(1 .. Len(b)) = Len(b)
  BY <1>1, FirstNumbers
<1>4. Cardinality(S) <= Cardinality(1 .. Len(b))
  <2> DEFINE I == 1 .. Len(b)
  <2>1. IsFiniteSet(I) /\ b \in Surjection(I, S)
    BY <1>2, <1>3
  <2> HIDE DEF I
  <2>2. Cardinality(S) <= Cardinality(I)
    BY <2>1, FS_Surjection
  <2> QED BY <2>2 DEF I
<1> QED BY <1>3, <1>4

(* Without its repetitions a sequence that never falls ascends, from and   *)
(* to the same values.                                                     *)
LEMMA DedupeIs ==
  ASSUME NEW b \in Seq(Int), Len(b) > 0, NeverFalls(b)
  PROVE  LET d == DedupeAdjacent(b)
         IN  /\ d \in Seq(Int) /\ IsAscending(d) /\ Len(d) \in 1 .. Len(b)
             /\ \A k \in 1 .. Len(d) : \E i \in 1 .. Len(b) : d[k] = b[i]
             /\ \A i \in 1 .. Len(b) : \E k \in 1 .. Len(d) : d[k] = b[i]
             /\ d[1] = b[1] /\ d[Len(d)] = b[Len(b)]
             /\ IsAscending(b) => Len(d) = Len(b)
<1> DEFINE fresh == {i \in DOMAIN b : i = 1 \/ b[i] # b[i - 1]}
           kept == Ascending(fresh)
           d == DedupeAdjacent(b)
<1>0. Len(b) \in Nat /\ DOMAIN b = 1 .. Len(b) /\ \A i \in 1 .. Len(b) : b[i] \in Int
  OBVIOUS
<1>1. fresh \in SUBSET Int /\ fresh \in SUBSET (1 .. Len(b)) /\ IsFiniteSet(fresh)
  <2>1. fresh \in SUBSET (1 .. Len(b)) /\ IsFiniteSet(1 .. Len(b))
    BY <1>0, FS_Interval
  <2> QED BY <2>1, FS_Subset
<1>2. d = [k \in DOMAIN kept |-> b[kept[k]]]
  BY DEF DedupeAdjacent
<1>3. \A i \in 1 .. Len(b) : i \in fresh <=> i = 1 \/ b[i] # b[i - 1]
  BY <1>0
<1> HIDE DEF fresh, kept, d
<1>4. /\ kept \in Seq(fresh) /\ Len(kept) = Cardinality(fresh) /\ Cardinality(fresh) \in Nat
      /\ \A p, q \in 1 .. Len(kept) : p < q => kept[p] < kept[q]
      /\ \A i \in fresh : \E p \in 1 .. Len(kept) : kept[p] = i
  BY <1>1, AscendingIs DEF kept
<1>5. Len(kept) \in Nat /\ DOMAIN kept = 1 .. Len(kept)
      /\ \A k \in 1 .. Len(kept) : kept[k] \in fresh /\ kept[k] \in 1 .. Len(b)
  <2>1. Len(kept) \in Nat /\ DOMAIN kept = 1 .. Len(kept)
        /\ \A k \in 1 .. Len(kept) : kept[k] \in fresh
    BY <1>4
  <2> QED BY <1>1, <2>1
<1>6. d \in Seq(Int) /\ Len(d) = Len(kept) /\ \A k \in 1 .. Len(d) : d[k] = b[kept[k]]
  BY <1>0, <1>2, <1>5
<1>7. IsAscending(d)
  <2> SUFFICES ASSUME NEW k \in 1 .. Len(d), NEW l \in 1 .. Len(d), k < l PROVE d[k] < d[l]
    BY DEF IsAscending
  <2> DEFINE i == kept[k]
             j == kept[l]
  <2>1. i < j /\ i \in 1 .. Len(b) /\ j \in 1 .. Len(b) /\ j \in fresh
    BY <1>4, <1>5, <1>6
  <2> HIDE DEF i, j
  <2>2. j - 1 \in 1 .. Len(b) /\ i <= j - 1 /\ j # 1 /\ j - 1 <= j
    BY <1>0, <2>1
  <2>3. b[i] <= b[j - 1] /\ b[j - 1] <= b[j]
    BY <2>1, <2>2 DEF NeverFalls
  <2>4. b[j] # b[j - 1]
    BY <1>3, <2>1, <2>2
  <2>5. b[i] \in Int /\ b[j - 1] \in Int /\ b[j] \in Int
    BY <1>0, <2>1, <2>2
  <2>6. b[i] < b[j]
    BY <2>3, <2>4, <2>5
  <2> QED BY <1>6, <2>6 DEF i, j
<1>8. ASSUME NEW i \in 1 .. Len(b) PROVE \E k \in 1 .. Len(d) : d[k] = b[i]
  <2> DEFINE same == {j \in 1 .. Len(b) : b[j] = b[i]}
  <2>1. same \in SUBSET Nat /\ same # {}
    BY <1>0
  <2>2. PICK j \in same : \A y \in same : j <= y
    <3> HIDE DEF same
    <3> QED BY <2>1, LeastNumber
  <2>3. j \in 1 .. Len(b) /\ b[j] = b[i]
    BY <2>2
  <2>4. j = 1 \/ b[j] # b[j - 1]
    <3> SUFFICES ASSUME j # 1, b[j] = b[j - 1] PROVE FALSE
      OBVIOUS
    <3>1. j - 1 \in 1 .. Len(b) /\ ~(j <= j - 1)
      BY <1>0, <2>3
    <3>2. j - 1 \in same
      BY <2>3, <3>1
    <3> QED BY <2>2, <3>1, <3>2
  <2>5. PICK k \in 1 .. Len(kept) : kept[k] = j
    BY <1>3, <1>4, <2>3, <2>4
  <2> QED BY <1>6, <2>3, <2>5
<1>9. 1 \in 1 .. Len(b) /\ Len(b) \in 1 .. Len(b)
  BY <1>0
<1>10. Len(d) \in 1 .. Len(b)
  <2>1. Len(d) > 0
    BY <1>5, <1>6, <1>8, <1>9
  <2>2. Cardinality(fresh) <= Cardinality(1 .. Len(b)) /\ Cardinality(1 .. Len(b)) = Len(b)
    <3>1. IsFiniteSet(1 .. Len(b)) /\ Cardinality(1 .. Len(b)) = Len(b)
      BY <1>0, FS_Interval
    <3> QED BY <1>1, <3>1, FS_Subset
  <2> QED BY <1>0, <1>4, <1>5, <1>6, <2>1, <2>2
<1>11. 1 \in 1 .. Len(d) /\ Len(d) \in 1 .. Len(d) /\ \A k \in 1 .. Len(d) : d[k] \in Int
  BY <1>0, <1>6, <1>10
<1>12. \A k \in 1 .. Len(d) : \E i \in 1 .. Len(b) : d[k] = b[i]
  BY <1>5, <1>6
<1>13. d[1] = b[1]
  <2>1. PICK k \in 1 .. Len(d) : d[k] = b[1]
    BY <1>8, <1>9
  <2>2. d[1] <= d[k]
    <3>1. CASE k = 1
      BY <1>11, <3>1
    <3>2. CASE k # 1
      <4>1. 1 < k
        BY <1>10, <3>2
      <4>2. d[1] < d[k]
        BY <1>7, <1>11, <4>1 DEF IsAscending
      <4> QED BY <1>11, <4>2
    <3> QED BY <3>1, <3>2
  <2>3. PICK i \in 1 .. Len(b) : d[1] = b[i]
    BY <1>11, <1>12
  <2>4. b[1] <= b[i]
    BY <1>9 DEF NeverFalls
  <2> QED BY <1>0, <1>9, <1>11, <2>1, <2>2, <2>3, <2>4
<1>14. d[Len(d)] = b[Len(b)]
  <2>1. PICK k \in 1 .. Len(d) : d[k] = b[Len(b)]
    BY <1>8, <1>9
  <2>2. d[k] <= d[Len(d)]
    <3>1. CASE k = Len(d)
      BY <1>11, <3>1
    <3>2. CASE k # Len(d)
      <4>1. k < Len(d)
        BY <1>10, <3>2
      <4>2. d[k] < d[Len(d)]
        BY <1>7, <1>11, <4>1 DEF IsAscending
      <4>3. d[k] \in Int /\ d[Len(d)] \in Int
        BY <1>6, <1>11
      <4> QED BY <4>2, <4>3
    <3> QED BY <3>1, <3>2
  <2>3. PICK i \in 1 .. Len(b) : d[Len(d)] = b[i]
    BY <1>11, <1>12
  <2>4. b[i] <= b[Len(b)]
    BY <1>0, <1>9 DEF NeverFalls
  <2> QED BY <1>0, <1>9, <1>11, <2>1, <2>2, <2>3, <2>4
<1>15. ASSUME IsAscending(b) PROVE Len(d) = Len(b)
  <2>1. ASSUME NEW i \in 1 .. Len(b) PROVE i \in fresh
    <3>1. CASE i = 1
      BY <1>3, <3>1
    <3>2. CASE i # 1
      <4>1. i - 1 \in 1 .. Len(b) /\ i - 1 < i
        BY <1>0, <3>2
      <4>2. b[i - 1] < b[i] /\ b[i - 1] \in Int /\ b[i] \in Int
        BY <1>0, <1>15, <4>1 DEF IsAscending
      <4> QED BY <1>3, <4>2
    <3> QED BY <3>1, <3>2
  <2>2. fresh = 1 .. Len(b)
    BY <1>1, <2>1
  <2> QED BY <1>0, <1>4, <1>6, <2>2, FS_Interval
<1>16. /\ d \in Seq(Int) /\ IsAscending(d) /\ Len(d) \in 1 .. Len(b)
       /\ \A k \in 1 .. Len(d) : \E i \in 1 .. Len(b) : d[k] = b[i]
       /\ \A i \in 1 .. Len(b) : \E k \in 1 .. Len(d) : d[k] = b[i]
       /\ d[1] = b[1] /\ d[Len(d)] = b[Len(b)]
       /\ IsAscending(b) => Len(d) = Len(b)
  BY <1>6, <1>7, <1>8, <1>10, <1>12, <1>13, <1>14, <1>15
<1> QED BY <1>16 DEF d

(* Tiles are never empty, and they end with the last row.                  *)
LEMMA TileEnds ==
  ASSUME NEW count \in Nat \ {0}, NEW n \in Nat \ {0},
         NEW m \in Nat, m <= n, m <= count, m = n \/ m = count
  PROVE  /\ m \in 1 .. n /\ m \in 1 .. count
         /\ \A t \in 0 .. m : TileEnd(count, n, t) \in 0 .. count
         /\ TileEnd(count, n, 0) = 0 /\ TileEnd(count, n, m) = count
         /\ \A t, u \in 0 .. m : t < u => TileEnd(count, n, t) < TileEnd(count, n, u)
         /\ count <= n => \A t \in 0 .. m : TileEnd(count, n, t) = t
         /\ count > n => TileEnd(count, n, 1) >= 2
<1> DEFINE q == count \div n
           r == count % n
           E(t) == TileEnd(count, n, t)
<1>1. q \in Nat /\ r \in 0 .. n - 1 /\ count = n * q + r
  OBVIOUS
<1>2. m = (IF n <= count THEN n ELSE count)
  OBVIOUS
<1>3. ASSUME NEW t \in Nat PROVE E(t) = t * q + (IF t <= r THEN t ELSE r)
  BY <1>1, <1>3, MinOfTwo DEF TileEnd
<1> HIDE DEF q, r, E
<1>4. n <= count => q >= 1
  <2> SUFFICES ASSUME n <= count, q = 0 PROVE FALSE
    BY <1>1
  <2>1. n * q = 0
    OBVIOUS
  <2> QED BY <1>1, <2>1
<1>5. count < n => q = 0 /\ r = count
  <2> SUFFICES ASSUME count < n, q >= 1 PROVE FALSE
    <3>1. ASSUME q = 0 PROVE r = count
      <4>1. n * q = 0
        BY <3>1
      <4> QED BY <1>1, <4>1
    <3> QED BY <1>1, <3>1
  <2>1. n * q >= n * 1
    BY <1>1
  <2> QED BY <1>1, <2>1
<1>6. ASSUME NEW t \in 0 .. m PROVE t * q \in Nat /\ E(t) \in Nat
  <2>1. t \in Nat
    BY <1>2
  <2>2. t * q \in Nat
    BY <1>1, <2>1
  <2> QED BY <1>1, <1>3, <2>1, <2>2
<1>7. E(0) = 0
  <2>1. 0 * q = 0
    BY <1>1
  <2> QED BY <1>1, <1>3, <2>1
<1>8. E(m) = count
  <2>1. CASE n <= count
    BY <1>1, <1>2, <1>3, <2>1
  <2>2. CASE count < n
    <3>1. count * 0 = 0
      OBVIOUS
    <3> QED BY <1>2, <1>3, <1>5, <2>2, <3>1
  <2> QED BY <2>1, <2>2
<1>9. ASSUME NEW t \in 0 .. m, NEW u \in 0 .. m, t < u PROVE E(t) < E(u)
  <2>1. t \in Nat /\ u \in Nat /\ t + 1 <= u
    BY <1>2, <1>9
  <2>2. t * q \in Nat /\ u * q \in Nat /\ t * q + q <= u * q
    <3>1. (t + 1) * q <= u * q
      BY <1>1, <2>1
    <3>2. (t + 1) * q = t * q + q
      BY <1>1, <2>1
    <3> QED BY <1>6, <3>1, <3>2
  <2>3. CASE n <= count
    <3>1. E(t) = t * q + (IF t <= r THEN t ELSE r) /\ E(u) = u * q + (IF u <= r THEN u ELSE r)
      BY <1>3, <2>1
    <3>2. (IF t <= r THEN t ELSE r) <= (IF u <= r THEN u ELSE r)
      BY <1>1, <2>1
    <3>3. /\ (IF t <= r THEN t ELSE r) \in Int /\ (IF u <= r THEN u ELSE r) \in Int
          /\ q >= 1 /\ q \in Nat
      BY <1>1, <1>4, <2>1, <2>3
    <3> DEFINE a == t * q  b == u * q  c == IF t <= r THEN t ELSE r  d == IF u <= r THEN u ELSE r
    <3>4. /\ E(t) = a + c /\ E(u) = b + d /\ c <= d /\ a + q <= b
          /\ a \in Int /\ b \in Int /\ c \in Int /\ d \in Int
      <4>1. a \in Int /\ b \in Int /\ a + q <= b
        BY <2>2
      <4>2. E(t) = a + c /\ E(u) = b + d
        BY <3>1
      <4>3. c <= d /\ c \in Int /\ d \in Int
        BY <3>2, <3>3
      <4> QED BY <4>1, <4>2, <4>3
    <3> HIDE DEF a, b, c, d
    <3> QED BY <3>3, <3>4
  <2>4. CASE count < n
    BY <1>1, <1>2, <1>3, <1>5, <2>1, <2>2, <2>4
  <2> QED BY <2>3, <2>4
<1>10. ASSUME NEW t \in 0 .. m PROVE E(t) \in 0 .. count
  <2>1. m \in 0 .. m /\ t \in Nat /\ (t = m \/ t < m)
    BY <1>2
  <2>2. E(t) <= count
    <3>1. CASE t = m
      BY <1>2, <1>8, <3>1
    <3>2. CASE t < m
      <4>1. E(t) < E(m)
        BY <1>9, <2>1, <3>2
      <4> QED BY <1>6, <1>8, <4>1
    <3> QED BY <2>1, <3>1, <3>2
  <2> QED BY <1>6, <2>2
<1>11. ASSUME count <= n, NEW t \in 0 .. m PROVE E(t) = t
  <2>0. t \in Nat
    BY <1>2
  <2>1. CASE count = n
    <3>1. q = 1 /\ r = 0
      <4>1. q >= 1 /\ n * q + r = n
        BY <1>1, <1>4, <2>1
      <4>2. ASSUME q >= 2 PROVE FALSE
        <5>1. n * q >= n * 2
          BY <1>1, <4>2
        <5> QED BY <1>1, <4>1, <5>1
      <4>3. q = 1
        BY <1>1, <4>1, <4>2
      <4> QED BY <1>1, <4>1, <4>3
    <3> QED BY <1>3, <2>0, <3>1
  <2>2. CASE count < n
    <3>1. t * 0 = 0
      BY <2>0
    <3> QED BY <1>2, <1>3, <1>5, <2>0, <2>2, <3>1
  <2> QED BY <1>11, <2>1, <2>2
<1>12. ASSUME count > n PROVE E(1) >= 2
  <2>1. q >= 1 /\ 1 * q = q /\ E(1) = q + (IF 1 <= r THEN 1 ELSE r)
    BY <1>1, <1>3, <1>4, <1>12
  <2>2. q >= 2 \/ r >= 1
    <3> SUFFICES ASSUME q = 1, r = 0 PROVE FALSE
      BY <1>1, <2>1
    <3> QED BY <1>1, <1>12
  <2> QED BY <1>1, <2>1, <2>2
<1> QED BY <1>2, <1>7, <1>8, <1>9, <1>10, <1>11, <1>12 DEF E

(* A sequence is one over any set that has its elements.                   *)
LEMMA SeqInto ==
  ASSUME NEW T, NEW S, NEW s \in Seq(T), \A k \in 1 .. Len(s) : s[k] \in S
  PROVE  s \in Seq(S)
<1>1. Len(s) \in Nat /\ s \in [1 .. Len(s) -> T]
  OBVIOUS
<1>2. s \in [1 .. Len(s) -> S]
  BY <1>1
<1> QED BY <1>1, <1>2, SeqDef

(* The edges of the tiles of ordered values ascend from the first value to *)
(* the last; distinct values give as many tiles as there can be.           *)
LEMMA TileEdgesIs ==
  ASSUME NEW vals \in Seq(Int), Len(vals) > 0, NeverFalls(vals), NEW n \in Nat \ {0}
  PROVE  LET e == TileEdges(vals, n)
         IN  /\ e \in Seq(Int) /\ IsAscending(e) /\ Len(e) \in 1 .. n + 1
             /\ \A k \in 1 .. Len(e) : \E i \in 1 .. Len(vals) : e[k] = vals[i]
             /\ e[1] = vals[1] /\ e[Len(e)] = vals[Len(vals)]
             /\ IsAscending(vals) =>
                   Len(e) = IF n < Len(vals) THEN n + 1 ELSE Len(vals)
<1> DEFINE count == Len(vals)
           m == Min({n, count})
           E(t) == TileEnd(count, n, t)
           b == [t \in 1 .. m + 1 |-> IF t = 1 THEN vals[1] ELSE vals[E(t - 1)]]
           e == TileEdges(vals, n)
<1>0. count \in Nat \ {0} /\ \A i \in 1 .. count : vals[i] \in Int
  OBVIOUS
<1>1. e = DedupeAdjacent(b)
  <2>1. vals # <<>>
    BY <1>0
  <2> QED BY <2>1 DEF TileEdges
<1>2. /\ m \in 1 .. n /\ m \in 1 .. count /\ m = (IF n <= count THEN n ELSE count)
      /\ \A t \in 0 .. m : E(t) \in 0 .. count
      /\ E(0) = 0 /\ E(m) = count
      /\ \A t, u \in 0 .. m : t < u => E(t) < E(u)
      /\ count <= n => \A t \in 0 .. m : E(t) = t
      /\ count > n => E(1) >= 2
  <2>1. m = (IF n <= count THEN n ELSE count) /\ m \in Nat
    BY <1>0, MinOfTwo
  <2> HIDE DEF count, m
  <2>2. /\ m \in 1 .. n /\ m \in 1 .. count /\ m = (IF n <= count THEN n ELSE count)
        /\ \A t \in 0 .. m : TileEnd(count, n, t) \in 0 .. count
        /\ TileEnd(count, n, 0) = 0 /\ TileEnd(count, n, m) = count
        /\ \A t, u \in 0 .. m : t < u => TileEnd(count, n, t) < TileEnd(count, n, u)
        /\ count <= n => \A t \in 0 .. m : TileEnd(count, n, t) = t
        /\ count > n => TileEnd(count, n, 1) >= 2
    <3>1. count \in Nat \ {0}
      BY <1>0
    <3>2. m \in Nat /\ m <= n /\ m <= count /\ (m = n \/ m = count)
      BY <2>1, <3>1
    <3>3. m = (IF n <= count THEN n ELSE count)
      BY <2>1
    <3> QED BY <3>1, <3>2, <3>3, TileEnds
  <2> QED BY <2>2
<1>3. \A t \in 1 .. m : E(t) \in 1 .. count
  <2> SUFFICES ASSUME NEW t \in 1 .. m PROVE E(t) \in 1 .. count
    OBVIOUS
  <2> HIDE DEF E, m, count
  <2>1. t \in 0 .. m /\ 0 \in 0 .. m /\ 0 < t
    BY <1>0, <1>2
  <2>2. E(0) < E(t) /\ E(t) \in 0 .. count
    BY <1>2, <2>1
  <2> QED BY <1>0, <1>2, <2>2
<1>4. /\ b \in Seq(Int) /\ Len(b) = m + 1
      /\ b[1] = vals[1] /\ \A t \in 2 .. m + 1 : b[t] = vals[E(t - 1)] /\ t - 1 \in 1 .. m
  <2>0. m \in Nat
    BY <1>0, <1>2
  <2> HIDE DEF E, m, count
  <2>1. \A t \in 2 .. m + 1 : t - 1 \in 1 .. m
    BY <2>0
  <2>2. 1 \in 1 .. count
    BY <1>0
  <2>3. \A t \in 1 .. m + 1 : (IF t = 1 THEN vals[1] ELSE vals[E(t - 1)]) \in Int
    <3> SUFFICES ASSUME NEW t \in 1 .. m + 1
                 PROVE  (IF t = 1 THEN vals[1] ELSE vals[E(t - 1)]) \in Int
      OBVIOUS
    <3>1. CASE t = 1
      BY <1>0, <2>2, <3>1
    <3>2. CASE t # 1
      <4>1. t - 1 \in 1 .. m
        BY <2>0, <3>2
      <4>2. vals[E(t - 1)] \in Int
        BY <1>0, <1>3, <4>1
      <4> QED BY <3>2, <4>2
    <3> QED BY <3>1, <3>2
  <2>4. b \in [1 .. m + 1 -> Int]
    BY <2>3
  <2>5. b \in Seq(Int) /\ Len(b) = m + 1
    BY <2>0, <2>4
  <2> QED BY <2>0, <2>1, <2>5
<1>5. \A t \in 1 .. m + 1 : \E i \in 1 .. count : b[t] = vals[i]
  <2> SUFFICES ASSUME NEW t \in 1 .. m + 1 PROVE \E i \in 1 .. count : b[t] = vals[i]
    OBVIOUS
  <2> HIDE DEF E, m, count, b
  <2>1. CASE t = 1
    BY <1>0, <1>4, <2>1
  <2>2. CASE t # 1
    <3>1. t \in 2 .. m + 1
      BY <1>0, <1>2, <2>2
    <3>2. b[t] = vals[E(t - 1)] /\ E(t - 1) \in 1 .. count
      BY <1>3, <1>4, <3>1
    <3> QED BY <3>2
  <2> QED BY <2>1, <2>2
<1>6. NeverFalls(b)
  <2> SUFFICES ASSUME NEW t \in 1 .. m + 1, NEW u \in 1 .. m + 1, t <= u PROVE b[t] <= b[u]
    BY <1>4 DEF NeverFalls
  <2> HIDE DEF E, m, count, b
  <2>0. m \in Nat
    BY <1>0, <1>2
  <2>1. CASE t = 1
    <3>1. PICK i \in 1 .. count : b[u] = vals[i]
      BY <1>5
    <3>2. vals[1] <= vals[i]
      <4>1. 1 \in 1 .. Len(vals) /\ i \in 1 .. Len(vals) /\ 1 <= i
        BY <1>0, <3>1 DEF count
      <4> QED BY <4>1 DEF NeverFalls
    <3> QED BY <1>4, <2>1, <3>1, <3>2
  <2>2. CASE t # 1
    <3>1. t \in 2 .. m + 1 /\ u \in 2 .. m + 1 /\ t - 1 \in 1 .. m /\ u - 1 \in 1 .. m
      BY <2>0, <2>2
    <3>2. E(t - 1) <= E(u - 1) /\ E(t - 1) \in 1 .. Len(vals) /\ E(u - 1) \in 1 .. Len(vals)
      <4>1. E(t - 1) \in 1 .. count /\ E(u - 1) \in 1 .. count
        BY <1>3, <3>1
      <4>2. t - 1 = u - 1 \/ t - 1 < u - 1
        BY <3>1
      <4>3. t - 1 \in 0 .. m /\ u - 1 \in 0 .. m
        BY <2>0, <3>1
      <4>4. E(t - 1) = E(u - 1) \/ E(t - 1) < E(u - 1)
        BY <1>2, <4>2, <4>3
      <4> QED BY <1>0, <4>1, <4>4 DEF count
    <3>3. vals[E(t - 1)] <= vals[E(u - 1)]
      BY <3>2 DEF NeverFalls
    <3> QED BY <1>4, <3>1, <3>3
  <2> QED BY <2>1, <2>2
<1>7. b[m + 1] = vals[count]
  <2> HIDE DEF E, m, count, b
  <2>1. m + 1 \in 2 .. m + 1 /\ (m + 1) - 1 = m
    BY <1>0, <1>2
  <2> QED BY <1>2, <1>4, <2>1
<1>8. /\ e \in Seq(Int) /\ IsAscending(e) /\ Len(e) \in 1 .. Len(b)
      /\ \A k \in 1 .. Len(e) : \E i \in 1 .. Len(b) : e[k] = b[i]
      /\ \A i \in 1 .. Len(b) : \E k \in 1 .. Len(e) : e[k] = b[i]
      /\ e[1] = b[1] /\ e[Len(e)] = b[Len(b)]
      /\ IsAscending(b) => Len(e) = Len(b)
  <2>1. Len(b) > 0
    <3> HIDE DEF E, m, count, b
    <3> QED BY <1>0, <1>2, <1>4
  <2> HIDE DEF E, m, count, b, e
  <2> QED BY <1>1, <1>4, <1>6, <2>1, DedupeIs
<1> HIDE DEF E, m, count, b, e
<1>9. Len(e) \in 1 .. n + 1 /\ m \in Nat
  BY <1>0, <1>2, <1>4, <1>8
<1>10. \A k \in 1 .. Len(e) : \E i \in 1 .. count : e[k] = vals[i]
  <2> SUFFICES ASSUME NEW k \in 1 .. Len(e) PROVE \E i \in 1 .. count : e[k] = vals[i]
    OBVIOUS
  <2>1. PICK t \in 1 .. Len(b) : e[k] = b[t]
    BY <1>8
  <2>2. t \in 1 .. m + 1
    BY <1>4
  <2> QED BY <1>5, <2>1, <2>2
<1>11. e[1] = vals[1] /\ e[Len(e)] = vals[count]
  BY <1>4, <1>7, <1>8
<1>12. ASSUME IsAscending(vals) PROVE Len(e) = IF n < count THEN n + 1 ELSE count
  <2>1. CASE n < count
    <3>1. m = n
      BY <1>0, <1>2, <2>1
    <3>2. IsAscending(b)
      <4> SUFFICES ASSUME NEW t \in 1 .. m + 1, NEW u \in 1 .. m + 1, t < u PROVE b[t] < b[u]
        BY <1>4 DEF IsAscending
      <4>1. u \in 2 .. m + 1 /\ b[u] = vals[E(u - 1)] /\ u - 1 \in 1 .. m
        <5>1. u \in 2 .. m + 1
          BY <1>9
        <5> QED BY <1>4, <5>1
      <4>2. E(u - 1) \in 1 .. count /\ u - 1 \in 0 .. m /\ 1 \in 0 .. m
        <5>1. u - 1 \in 1 .. m
          BY <4>1
        <5>2. u - 1 \in 0 .. m /\ 1 \in 0 .. m
          BY <1>9, <5>1
        <5> QED BY <1>3, <5>1, <5>2
      <4>3. CASE t = 1
        <5>1. E(1) <= E(u - 1)
          <6>1. u - 1 = 1 \/ 1 < u - 1
            BY <4>1
          <6> QED BY <1>2, <4>2, <6>1
        <5>2. E(1) >= 2 /\ E(1) \in 0 .. count
          BY <1>0, <1>2, <2>1, <4>2
        <5>3. 1 \in 1 .. count /\ 1 < E(u - 1)
          BY <1>0, <4>2, <5>1, <5>2
        <5>4. vals[1] < vals[E(u - 1)]
          BY <1>12, <4>2, <5>3 DEF IsAscending, count
        <5> QED BY <1>4, <4>1, <4>3, <5>4
      <4>4. CASE t # 1
        <5>1. /\ t \in 2 .. m + 1 /\ b[t] = vals[E(t - 1)]
              /\ t - 1 \in 1 .. m /\ t - 1 \in 0 .. m /\ t - 1 < u - 1
          <6>1. t \in 2 .. m + 1
            BY <1>9, <4>4
          <6>2. b[t] = vals[E(t - 1)] /\ t - 1 \in 1 .. m
            BY <1>4, <6>1
          <6> QED BY <1>9, <6>1, <6>2
        <5>2. E(t - 1) < E(u - 1) /\ E(t - 1) \in 1 .. count
          BY <1>2, <1>3, <4>2, <5>1
        <5>3. vals[E(t - 1)] < vals[E(u - 1)]
          BY <1>12, <4>2, <5>2 DEF IsAscending, count
        <5> QED BY <4>1, <5>1, <5>3
      <4> QED BY <4>3, <4>4
    <3> QED BY <1>4, <1>8, <2>1, <3>1, <3>2
  <2>2. CASE ~(n < count)
    <3> DEFINE S == {vals[i] : i \in 1 .. count}
    <3>1. S \in SUBSET Int /\ vals \in Seq(S) /\ DOMAIN vals = 1 .. count
      BY <1>0 DEF count
    <3>2. IsFiniteSet(S) /\ Cardinality(S) <= count
      <4> DEFINE I == 1 .. count
      <4>1. IsFiniteSet(I) /\ Cardinality(I) = count
        <5>1. count \in Nat
          BY <1>0
        <5> HIDE DEF count
        <5> QED BY <5>1, FirstNumbers
      <4>2. DOMAIN vals = I /\ vals = [i \in I |-> vals[i]] /\ S = {vals[i] : i \in I}
        BY <3>1
      <4> HIDE DEF I, S
      <4>3. IsFiniteSet(S) /\ Cardinality(S) <= Cardinality(I)
        BY <4>1, <4>2, FiniteImage
      <4> QED BY <4>1, <4>3
    <3>3. e \in Seq(S)
      <4>1. Len(e) \in Nat /\ \A k \in 1 .. Len(e) : e[k] \in S
        BY <1>9, <1>10
      <4> HIDE DEF S
      <4> QED BY <1>8, <4>1, SeqInto
    <3>4. \A v \in S : \E k \in 1 .. Len(e) : e[k] = v
      <4> SUFFICES ASSUME NEW i \in 1 .. count PROVE \E k \in 1 .. Len(e) : e[k] = vals[i]
        OBVIOUS
      <4>1. m = count /\ E(i) = i
        BY <1>0, <1>2, <2>2
      <4>2. i + 1 \in 2 .. m + 1 /\ (i + 1) - 1 = i /\ i + 1 \in 1 .. Len(b)
        BY <1>0, <1>4, <4>1
      <4>3. b[i + 1] = vals[i]
        BY <1>4, <4>1, <4>2
      <4> QED BY <1>8, <4>2, <4>3
    <3> HIDE DEF S
    <3>5. count <= Cardinality(S)
      BY <1>12, <3>1, <3>2, AscendingFits DEF count
    <3>6. Len(e) <= Cardinality(S)
      BY <1>8, <3>1, <3>2, <3>3, AscendingFits
    <3>7. Cardinality(S) <= Len(e)
      BY <3>3, <3>4, AllFit
    <3>8. Cardinality(S) \in Nat
      BY <3>2, FS_CardinalityType
    <3> QED BY <1>0, <1>9, <2>2, <3>2, <3>5, <3>6, <3>7, <3>8
  <2> QED BY <2>1, <2>2
<1> QED BY <1>8, <1>9, <1>10, <1>11, <1>12 DEF e, count

(* The rows of a column.                                                   *)
LEMMA RowsOfIs ==
  ASSUME NEW S \in SUBSET Int, IsFiniteSet(S), NEW column, \A v \in S : column[v] \in Nat \ {0}
  PROVE  IsRows(RowsOf(column, S)) /\ ValuesOf(RowsOf(column, S)) = S
<1> DEFINE held(v) == {v} \X (1 .. column[v])
           f == [v \in S |-> held(v)]
<1>1. \A v \in S : IsFiniteSet(held(v))
  <2> SUFFICES ASSUME NEW v \in S PROVE IsFiniteSet(held(v))
    OBVIOUS
  <2>1. IsFiniteSet({v})
    BY FS_Singleton
  <2>2. IsFiniteSet(1 .. column[v])
    BY FS_Interval
  <2> QED BY <2>1, <2>2, FS_Product
<1>2. \A v \in S : /\ \A r \in held(v) : r[1] = v
                   /\ <<v, 1>> \in held(v) /\ <<v, 1>>[1] = v
  <2> SUFFICES ASSUME NEW v \in S PROVE /\ \A r \in held(v) : r[1] = v
                                        /\ <<v, 1>> \in held(v) /\ <<v, 1>>[1] = v
    OBVIOUS
  <2>1. 1 \in 1 .. column[v]
    OBVIOUS
  <2> QED BY <2>1
<1>3. DOMAIN f = S /\ f = [v \in S |-> f[v]] /\ \A v \in S : f[v] = held(v)
  OBVIOUS
<1>4. RowsOf(column, S) = UNION {f[v] : v \in S}
  BY DEF RowsOf
<1> HIDE DEF f, held
<1>5. IsFiniteSet({f[v] : v \in S})
  BY <1>3, FiniteImage
<1>6. IsFiniteSet(RowsOf(column, S))
  <2>1. \A T \in {f[v] : v \in S} : IsFiniteSet(T)
    BY <1>1, <1>3
  <2> QED BY <1>4, <1>5, <2>1, FS_UNION
<1>7. \A r : r \in RowsOf(column, S) <=> \E v \in S : r \in held(v)
  BY <1>3, <1>4
<1>8. ASSUME NEW r \in RowsOf(column, S) PROVE r[1] \in S
  <2>1. PICK v \in S : r \in held(v)
    BY <1>7
  <2> QED BY <1>2, <2>1
<1>9. ASSUME NEW v \in S PROVE <<v, 1>> \in RowsOf(column, S) /\ <<v, 1>>[1] = v
  <2>1. <<v, 1>> \in held(v)
    BY <1>2
  <2> QED BY <1>7, <2>1
<1>10. ValuesOf(RowsOf(column, S)) = S
  BY <1>8, <1>9 DEF ValuesOf
<1> QED BY <1>6, <1>8, <1>10 DEF IsRows

(* Breaks that make a legend of that many classes, from the least value to *)
(* the greatest.                                                           *)
GoodBreaks(b, S, classes) ==
  /\ b \in Seq(S) /\ IsAscending(b)
  /\ Len(b) = classes + 1
  /\ b[1] = Min(S) /\ b[Len(b)] = Max(S)

(* A sequence that never falls and has a set's values, and only those.     *)
LEMMA EndsAre ==
  ASSUME NEW S \in SUBSET Int, IsFiniteSet(S), S # {}, NEW vals \in Seq(S), NeverFalls(vals),
         \A v \in S : \E p \in 1 .. Len(vals) : vals[p] = v
  PROVE  Len(vals) > 0 /\ vals[1] = Min(S) /\ vals[Len(vals)] = Max(S)
<1>1. Len(vals) \in Nat /\ \A p \in 1 .. Len(vals) : vals[p] \in S /\ vals[p] \in Int
  <2>1. Len(vals) \in Nat /\ \A p \in 1 .. Len(vals) : vals[p] \in S
    OBVIOUS
  <2> QED BY <2>1
<1>2. PICK p \in 1 .. Len(vals) : vals[p] = Min(S)
  BY MinIs
<1>3. PICK q \in 1 .. Len(vals) : vals[q] = Max(S)
  BY MaxIs
<1>4. 1 \in 1 .. Len(vals) /\ Len(vals) \in 1 .. Len(vals)
  BY <1>1, <1>2
<1>5. vals[1] <= vals[p] /\ vals[q] <= vals[Len(vals)]
  BY <1>1, <1>2, <1>3, <1>4 DEF NeverFalls
<1>6. Min(S) <= vals[1] /\ vals[Len(vals)] <= Max(S)
  BY <1>1, <1>4, MinIs, MaxIs
<1>7. /\ Min(S) \in Int /\ Max(S) \in Int
      /\ vals[1] \in Int /\ vals[Len(vals)] \in Int /\ Len(vals) > 0
  BY <1>1, <1>2, <1>3, <1>4
<1> QED BY <1>2, <1>3, <1>5, <1>6, <1>7

(* Quantiles lose no class: where ties swallow tiles, the second pass over *)
(* the distinct values finds more.                                         *)
LEMMA QuantilesAreGood ==
  ASSUME NEW S \in SUBSET Int, IsFiniteSet(S), S # {},
         NEW column, \A v \in S : column[v] \in Nat \ {0}, NEW n \in Nat \ {0}
  PROVE  GoodBreaks(QuantileBreaks(column, S, n), S, Min({n, Cardinality(S) - 1}))
<1> DEFINE recs == Sorted(RowsOf(column, S))
           vals == Ascending(S)
           size == Cardinality(S)
           breaks == TileEdges(recs, n)
           distinct == TileEdges(vals, n)
<1>0. size \in Nat \ {0}
  BY FS_CardinalityType, FS_EmptySet
<1>1. recs \in Seq(S) /\ recs \in Seq(Int) /\ NeverFalls(recs)
      /\ \A v \in S : \E p \in 1 .. Len(recs) : recs[p] = v
  BY RowsOfIs, SortedIs DEF NeverFalls
<1>2. vals \in Seq(S) /\ vals \in Seq(Int) /\ IsAscending(vals) /\ Len(vals) = size
      /\ \A v \in S : \E p \in 1 .. Len(vals) : vals[p] = v
  BY AscendingIs DEF IsAscending
<1> HIDE DEF recs, vals, size
<1>3. NeverFalls(vals)
  <2> SUFFICES ASSUME NEW p \in 1 .. Len(vals), NEW q \in 1 .. Len(vals), p <= q
               PROVE  vals[p] <= vals[q]
    BY DEF NeverFalls
  <2>1. p = q \/ p < q
    BY <1>2
  <2>2. vals[p] \in Int /\ vals[q] \in Int
    BY <1>2
  <2> QED BY <1>2, <2>1, <2>2 DEF IsAscending
<1>4. ASSUME NEW s \in Seq(S), s \in Seq(Int), NeverFalls(s),
             \A v \in S : \E p \in 1 .. Len(s) : s[p] = v
      PROVE  LET e == TileEdges(s, n)
             IN  /\ e \in Seq(S) /\ IsAscending(e) /\ Len(e) \in 1 .. n + 1
                 /\ e[1] = Min(S) /\ e[Len(e)] = Max(S) /\ Len(e) <= size
                 /\ IsAscending(s) => Len(e) = IF n < Len(s) THEN n + 1 ELSE Len(s)
  <2> DEFINE e == TileEdges(s, n)
  <2>1. Len(s) > 0 /\ s[1] = Min(S) /\ s[Len(s)] = Max(S)
    BY <1>4, EndsAre
  <2>2. /\ e \in Seq(Int) /\ IsAscending(e) /\ Len(e) \in 1 .. n + 1
        /\ \A k \in 1 .. Len(e) : \E i \in 1 .. Len(s) : e[k] = s[i]
        /\ e[1] = s[1] /\ e[Len(e)] = s[Len(s)]
        /\ IsAscending(s) => Len(e) = IF n < Len(s) THEN n + 1 ELSE Len(s)
    BY <1>4, <2>1, TileEdgesIs
  <2> HIDE DEF e
  <2>3. e \in Seq(S)
    <3>1. ASSUME NEW k \in 1 .. Len(e) PROVE e[k] \in S
      <4>1. PICK i \in 1 .. Len(s) : e[k] = s[i]
        BY <2>2
      <4> QED BY <1>4, <4>1
    <3> QED BY <2>2, <3>1, SeqInto
  <2>4. Len(e) <= size
    BY <2>2, <2>3, AscendingFits DEF size
  <2> QED BY <2>1, <2>2, <2>3, <2>4 DEF e
<1>5. /\ breaks \in Seq(S) /\ IsAscending(breaks) /\ Len(breaks) \in 1 .. n + 1
      /\ breaks[1] = Min(S) /\ breaks[Len(breaks)] = Max(S) /\ Len(breaks) <= size
  BY <1>1, <1>4
<1>6. /\ distinct \in Seq(S) /\ IsAscending(distinct) /\ Len(distinct) \in 1 .. n + 1
      /\ distinct[1] = Min(S) /\ distinct[Len(distinct)] = Max(S)
      /\ Len(distinct) = IF n < size THEN n + 1 ELSE size
  BY <1>2, <1>3, <1>4
<1>7. QuantileBreaks(column, S, n) =
        IF Len(breaks) - 1 < n /\ Len(distinct) > Len(breaks) THEN distinct ELSE breaks
  BY DEF QuantileBreaks, recs, vals
<1>8. Min({n, size - 1}) = IF n <= size - 1 THEN n ELSE size - 1
  BY <1>0, MinOfTwo
<1> HIDE DEF breaks, distinct
<1>9. CASE Len(breaks) - 1 < n /\ Len(distinct) > Len(breaks)
  BY <1>0, <1>6, <1>7, <1>8, <1>9 DEF GoodBreaks, size
<1>10. CASE ~(Len(breaks) - 1 < n /\ Len(distinct) > Len(breaks))
  <2>1. Len(breaks) = Min({n, size - 1}) + 1
    BY <1>0, <1>5, <1>6, <1>8, <1>10
  <2> QED BY <1>5, <1>7, <1>10, <2>1 DEF GoodBreaks, size
<1> QED BY <1>9, <1>10

-----------------------------------------------------------------------------
(* The points of a column.                                                 *)

Point == [value : Int, weight : Nat \ {0}]

IsPoints(points) ==
  /\ points \in Seq(Point)
  /\ \A i, j \in 1 .. Len(points) : i < j => points[i].value < points[j].value

(* The points of a column ascend from its least value to its greatest, and *)
(* each stands for rows.                                                   *)
LEMMA PointsAre ==
  ASSUME NEW S \in SUBSET Int, IsFiniteSet(S), S # {},
         NEW column, \A v \in S : column[v] \in Nat \ {0}
  PROVE  LET points == Points(column, S)
         IN  /\ IsPoints(points)
             /\ Len(points) = Min({Buckets, Cardinality(S)}) /\ Len(points) \in Nat \ {0}
             /\ \A t \in 1 .. Len(points) : points[t].value \in S
             /\ points[1].value = Min(S) /\ points[Len(points)].value = Max(S)
<1> DEFINE vals == Ascending(S)
           size == Len(vals)
           count == Min({Buckets, size})
           E(t) == TileEnd(size, Buckets, t)
           bucket(t) == {vals[p] : p \in E(t - 1) + 1 .. E(t)}
           value(t) == IF t = count THEN Max(bucket(t)) ELSE Min(bucket(t))
           weight(t) == Cardinality(RowsOf(column, bucket(t)))
           points == Points(column, S)
<1>1. points = [t \in 1 .. count |-> [value |-> value(t), weight |-> weight(t)]]
  BY DEF Points
<1>2. /\ vals \in Seq(S) /\ vals \in Seq(Int) /\ IsAscending(vals) /\ size = Cardinality(S)
      /\ \A v \in S : \E p \in 1 .. size : vals[p] = v
  BY AscendingIs DEF IsAscending
<1>3. size \in Nat \ {0}
  BY <1>2, FS_CardinalityType, FS_EmptySet
<1>4. Buckets \in Nat \ {0} /\ Buckets >= 2
  BY BucketsAssumption
<1>5. count = (IF Buckets <= size THEN Buckets ELSE size) /\ count \in Nat /\ count \in 1 .. size
  <2>1. count = (IF Buckets <= size THEN Buckets ELSE size)
    BY <1>3, <1>4, MinOfTwo
  <2> HIDE DEF count, size
  <2> QED BY <1>3, <1>4, <2>1
<1>6. \A p \in 1 .. size : vals[p] \in S /\ vals[p] \in Int
  BY <1>2
<1>7. vals[1] = Min(S) /\ vals[size] = Max(S)
  <2>1. NeverFalls(vals)
    <3> SUFFICES ASSUME NEW p \in 1 .. size, NEW q \in 1 .. size, p <= q PROVE vals[p] <= vals[q]
      BY DEF NeverFalls
    <3>1. p = q \/ p < q
      BY <1>3
    <3> QED BY <1>2, <1>6, <3>1 DEF IsAscending
  <2> QED BY <1>2, <2>1, EndsAre
<1>8. \A p, q \in 1 .. size : p < q => vals[p] < vals[q]
  BY <1>2 DEF IsAscending
<1> HIDE DEF count, size, vals
<1>9. /\ \A t \in 0 .. count : E(t) \in 0 .. size
      /\ E(0) = 0 /\ E(count) = size
      /\ \A t, u \in 0 .. count : t < u => E(t) < E(u)
  BY <1>3, <1>4, <1>5, TileEnds
<1> HIDE DEF E
<1>10. ASSUME NEW t \in 1 .. count
       PROVE  /\ t - 1 \in 0 .. count /\ t \in 0 .. count
              /\ E(t - 1) \in 0 .. size /\ E(t) \in 1 .. size /\ E(t - 1) + 1 <= E(t)
              /\ \A p \in E(t - 1) + 1 .. E(t) : p \in 1 .. size
  <2>1. t - 1 \in 0 .. count /\ t \in 0 .. count /\ t - 1 < t
    <3>1. count \in Nat
      BY <1>5
    <3> QED BY <3>1
  <2>2. E(t - 1) < E(t) /\ E(t - 1) \in 0 .. size /\ E(t) \in 0 .. size
    BY <1>9, <2>1
  <2> QED BY <1>3, <2>1, <2>2
<1>11. ASSUME NEW t \in 1 .. count
       PROVE  /\ bucket(t) \in SUBSET S /\ bucket(t) \in SUBSET Int
              /\ bucket(t) # {} /\ IsFiniteSet(bucket(t))
  <2>1. bucket(t) \in SUBSET S /\ bucket(t) \in SUBSET Int
    BY <1>6, <1>10
  <2>2. E(t - 1) + 1 \in E(t - 1) + 1 .. E(t)
    BY <1>10
  <2>3. bucket(t) # {}
    BY <2>2
  <2> QED BY <2>1, <2>3, FS_Subset
<1>12. ASSUME NEW t \in 1 .. count
       PROVE  value(t) \in bucket(t) /\ value(t) \in S /\ value(t) \in Int
  <2> HIDE DEF bucket
  <2>1. value(t) \in bucket(t)
    BY <1>11, MinIs, MaxIs
  <2> QED BY <1>11, <2>1
<1>13. ASSUME NEW t \in 1 .. count PROVE weight(t) \in Nat \ {0}
  <2> DEFINE recs == RowsOf(column, bucket(t))
  <2> HIDE DEF bucket
  <2>1. \A v \in bucket(t) : column[v] \in Nat \ {0}
    BY <1>11
  <2>2. IsRows(recs) /\ ValuesOf(recs) = bucket(t)
    BY <1>11, <2>1, RowsOfIs
  <2> HIDE DEF recs
  <2>3. recs # {} /\ IsFiniteSet(recs)
    BY <1>11, <2>2 DEF IsRows, ValuesOf
  <2>4. Cardinality(recs) \in Nat \ {0}
    BY <2>3, FS_CardinalityType, FS_EmptySet
  <2> QED BY <2>4 DEF recs
<1>14. ASSUME NEW t \in 1 .. count, NEW u \in 1 .. count, t < u PROVE value(t) < value(u)
  <2> HIDE DEF value
  <2>1. PICK p \in E(t - 1) + 1 .. E(t) : value(t) = vals[p]
    BY <1>12
  <2>2. PICK q \in E(u - 1) + 1 .. E(u) : value(u) = vals[q]
    BY <1>12
  <2>3. E(t) <= E(u - 1)
    <3>1. t = u - 1 \/ t < u - 1
      BY <1>5, <1>14
    <3>2. CASE t = u - 1
      BY <1>10, <3>2
    <3>3. CASE t < u - 1
      BY <1>9, <1>10, <3>3
    <3> QED BY <3>1, <3>2, <3>3
  <2>4. p \in 1 .. size /\ q \in 1 .. size /\ p < q
    BY <1>10, <2>3
  <2> QED BY <1>8, <2>1, <2>2, <2>4
<1> HIDE DEF bucket, value, weight, points
<1>15. /\ points \in Seq(Point) /\ Len(points) = count
       /\ \A t \in 1 .. count : points[t].value = value(t)
  <2>1. \A t \in 1 .. count : [value |-> value(t), weight |-> weight(t)] \in Point
    BY <1>12, <1>13 DEF Point
  <2>2. points \in [1 .. count -> Point]
    BY <1>1, <2>1
  <2> QED BY <1>1, <1>5, <2>2
<1>16. IsPoints(points)
  BY <1>14, <1>15 DEF IsPoints
<1>17. 1 \in 1 .. count /\ count \in 1 .. count
  BY <1>5
<1>18. value(1) = Min(S)
  <2>1. vals[1] \in bucket(1)
    <3>1. 1 \in E(1 - 1) + 1 .. E(1)
      BY <1>9, <1>10, <1>17
    <3> QED BY <3>1 DEF bucket
  <2>2. CASE count = 1
    <3>1. size = 1
      BY <1>4, <1>5, <2>2
    <3>2. PICK p \in E(1 - 1) + 1 .. E(1) : value(1) = vals[p]
      BY <1>12, <1>17 DEF bucket
    <3>3. p = 1
      BY <1>10, <1>17, <3>1, <3>2
    <3> QED BY <1>7, <3>2, <3>3
  <2>3. CASE count # 1
    <3>1. value(1) = Min(bucket(1))
      BY <1>5, <2>3 DEF value
    <3>2. Min(bucket(1)) <= vals[1]
      BY <1>11, <1>17, <2>1, MinIs
    <3>3. Min(S) <= value(1) /\ Min(S) \in S
      BY <1>12, <1>17, MinIs
    <3>4. value(1) \in Int /\ Min(S) \in Int /\ vals[1] = Min(S)
      BY <1>7, <1>12, <1>17, <3>3
    <3> QED BY <3>1, <3>2, <3>3, <3>4
  <2> QED BY <2>2, <2>3
<1>19. value(count) = Max(S)
  <2>1. vals[size] \in bucket(count)
    <3>1. size \in E(count - 1) + 1 .. E(count)
      BY <1>9, <1>10, <1>17
    <3> QED BY <3>1 DEF bucket
  <2>2. value(count) = Max(bucket(count))
    BY DEF value
  <2>3. vals[size] <= Max(bucket(count))
    BY <1>11, <1>17, <2>1, MaxIs
  <2>4. value(count) <= Max(S) /\ Max(S) \in S
    BY <1>12, <1>17, MaxIs
  <2>5. value(count) \in Int /\ Max(S) \in Int /\ vals[size] = Max(S)
    BY <1>7, <1>12, <1>17, <2>4
  <2> QED BY <2>2, <2>3, <2>4, <2>5
<1>20. Len(points) = Min({Buckets, Cardinality(S)}) /\ Len(points) \in Nat \ {0}
  <2>1. count = Min({Buckets, Cardinality(S)})
    BY <1>2 DEF count, size
  <2> QED BY <1>3, <1>5, <1>15, <2>1
<1>21. \A t \in 1 .. Len(points) : points[t].value \in S
  BY <1>12, <1>15
<1>22. points[1].value = Min(S) /\ points[Len(points)].value = Max(S)
  BY <1>15, <1>17, <1>18, <1>19
<1> QED BY <1>16, <1>20, <1>21, <1>22 DEF points

-----------------------------------------------------------------------------
(* The prefix sums, and the cost of a class.                               *)

Sum == [weight : Nat, total : Int, squares : Int]

(* The prefix sums go through all the points.                              *)
LEMMA SumsRun ==
  ASSUME NEW points, IsPoints(points)
  PROVE  LET sums == PrefixSums(points)
         IN  /\ sums \in [0 .. Len(points) -> Sum]
             /\ sums[0] = [weight |-> 0, total |-> 0, squares |-> 0]
             /\ \A i \in 1 .. Len(points) : sums[i] = Plus(sums[i - 1], points[i])
<1> DEFINE count == Len(points)
           zero == [weight |-> 0, total |-> 0, squares |-> 0]
           Obeys(s) == s = [i \in 0 .. count |-> IF i = 0 THEN zero ELSE Plus(s[i - 1], points[i])]
           step == [i \in 1 .. count |-> [s \in Sum |-> Plus(s, points[i])]]
           sums == PrefixSums(points)
<1>1. count \in Nat /\ zero \in Sum /\ \A i \in 1 .. count : points[i] \in Point
  BY DEF IsPoints, Sum
<1>2. ASSUME NEW s \in Sum, NEW p \in Point PROVE Plus(s, p) \in Sum
  <2>1. /\ s.weight \in Nat /\ s.total \in Int /\ s.squares \in Int
        /\ p.weight \in Nat /\ p.value \in Int
    BY DEF Sum, Point
  <2>2. /\ s.weight + p.weight \in Nat /\ s.total + p.weight * p.value \in Int
        /\ s.squares + p.weight * p.value * p.value \in Int
    BY <2>1
  <2> QED BY <2>2 DEF Plus, Sum
<1>3. step \in [1 .. count -> [Sum -> Sum]]
  BY <1>1, <1>2
<1>4. \A i \in 1 .. count : \A s \in Sum : step[i][s] = Plus(s, points[i])
  OBVIOUS
<1> HIDE DEF step, zero, count
<1>5. PICK g : IsLoop(g, count, zero, step)
  BY <1>1, <1>3, LoopRuns
<1>6. g \in [0 .. count -> Sum] /\ g[0] = zero /\ \A i \in 1 .. count : g[i] = step[i][g[i - 1]]
  BY <1>1, <1>3, <1>5, LoopIs
<1>7. Obeys(g)
  <2>1. ASSUME NEW i \in 0 .. count PROVE g[i] = IF i = 0 THEN zero ELSE Plus(g[i - 1], points[i])
    <3>1. CASE i = 0
      BY <1>6, <3>1
    <3>2. CASE i # 0
      <4>1. i \in 1 .. count /\ i - 1 \in 0 .. count
        BY <1>1, <3>2
      <4>2. g[i - 1] \in Sum
        BY <1>6, <4>1
      <4> QED BY <1>4, <1>6, <3>2, <4>1, <4>2
    <3> QED BY <3>1, <3>2
  <2> QED BY <1>6, <2>1
<1>8. sums = CHOOSE s : Obeys(s)
  BY DEF PrefixSums, zero, count
<1> HIDE DEF Obeys, sums
<1>9. Obeys(sums)
  BY <1>7, <1>8
<1>10. /\ DOMAIN sums = 0 .. count /\ sums = [i \in 0 .. count |-> sums[i]]
       /\ \A i \in 0 .. count : sums[i] = IF i = 0 THEN zero ELSE Plus(sums[i - 1], points[i])
  BY <1>9 DEF Obeys
<1>11. sums[0] = zero /\ \A i \in 1 .. count : sums[i] = Plus(sums[i - 1], points[i])
  <2>1. 0 \in 0 .. count /\ \A i \in 1 .. count : i \in 0 .. count /\ i # 0
    BY <1>1
  <2> QED BY <1>10, <2>1
<1> DEFINE T == {i \in 0 .. count : sums[i] \in Sum}
<1>12. T = 0 .. count
  <2>1. T \in SUBSET (0 .. count) /\ 0 \in T
    BY <1>1, <1>11
  <2>2. ASSUME NEW i \in 0 .. count - 1, i \in T PROVE i + 1 \in T
    <3>1. i + 1 \in 1 .. count /\ (i + 1) - 1 = i /\ i + 1 \in 0 .. count /\ sums[i] \in Sum
      BY <1>1, <2>2
    <3>2. sums[i + 1] = Plus(sums[i], points[i + 1])
      BY <1>11, <3>1
    <3>3. sums[i + 1] \in Sum
      BY <1>1, <1>2, <3>1, <3>2
    <3> QED BY <3>1, <3>3
  <2> HIDE DEF T
  <2> QED BY <1>1, <2>1, <2>2, UpTo
<1>13. sums \in [0 .. count -> Sum]
  BY <1>10, <1>12
<1> QED BY <1>11, <1>13 DEF sums, zero, count

(* A factor above zero keeps the order.                                    *)
LEMMA TimesKeepsOrder ==
  ASSUME NEW a \in Nat \ {0}, NEW x \in Int, NEW y \in Int, x < y
  PROVE  a * x < a * y
<1>1. a * y - a * x = a * (y - x)
  OBVIOUS
<1>2. a * (y - x) > 0
  BY SMT
<1>3. a * x \in Int /\ a * y \in Int
  OBVIOUS
<1> QED BY <1>1, <1>2, <1>3

(* What one point more, of a value apart from the mean of the others, adds *)
(* to the squared deviations: with x the value of the point and a its      *)
(* weight, and w, t and q the weight, total and squares of the others.     *)
LEMMA OneMoreCosts ==
  ASSUME NEW scale \in Nat \ {0}, NEW a \in Nat \ {0}, NEW w \in Nat \ {0},
         NEW x \in Int, NEW t \in Int, NEW q \in Int, w * x < t,
         NEW f \in Nat, NEW g \in Nat, f * w = scale, g * (w + a) = scale
  PROVE  scale * q - f * t * t
           < scale * (q + a * x * x) - g * (t + a * x) * (t + a * x)
<1> DEFINE less == scale * q - f * t * t
           more == scale * (q + a * x * x) - g * (t + a * x) * (t + a * x)
           d == w * x - t
<1>1. less \in Int /\ more \in Int /\ d \in Int /\ d # 0
  OBVIOUS
<1>2. (w * (w + a)) * more
        = scale * w * ((w + a) * (q + a * x * x) - (t + a * x) * (t + a * x))
  <2>1. (w * (w + a)) * more
          = w * ((w + a) * scale * (q + a * x * x) - (g * (w + a)) * ((t + a * x) * (t + a * x)))
    OBVIOUS
  <2>2. (w * (w + a)) * more
          = w * ((w + a) * scale * (q + a * x * x) - scale * ((t + a * x) * (t + a * x)))
    BY <2>1
  <2> HIDE DEF more
  <2> QED BY <2>2
<1>3. (w * (w + a)) * less = scale * (w + a) * (w * q - t * t)
  <2>1. (w * (w + a)) * less = (w + a) * (w * scale * q - (f * w) * (t * t))
    OBVIOUS
  <2>2. (w * (w + a)) * less = (w + a) * (w * scale * q - scale * (t * t))
    BY <2>1
  <2> HIDE DEF less
  <2> QED BY <2>2
<1>4. w * ((w + a) * (q + a * x * x) - (t + a * x) * (t + a * x)) - (w + a) * (w * q - t * t)
        = a * (d * d)
  OBVIOUS
<1>5. (w * (w + a)) * more - (w * (w + a)) * less = scale * (a * (d * d))
  <2> DEFINE u == w * ((w + a) * (q + a * x * x) - (t + a * x) * (t + a * x))
             v == (w + a) * (w * q - t * t)
  <2>1. (w * (w + a)) * more = scale * u /\ u \in Int
    <3>1. scale * w * ((w + a) * (q + a * x * x) - (t + a * x) * (t + a * x)) = scale * u
      OBVIOUS
    <3> HIDE DEF more, u
    <3> QED BY <1>2, <3>1 DEF u
  <2>2. (w * (w + a)) * less = scale * v /\ v \in Int
    <3>1. scale * (w + a) * (w * q - t * t) = scale * v
      OBVIOUS
    <3> HIDE DEF less, v
    <3> QED BY <1>3, <3>1 DEF v
  <2>3. u - v = a * (d * d)
    BY <1>4
  <2> HIDE DEF u, v, more, less, d
  <2>4. scale * u - scale * v = scale * (u - v)
    BY <2>1, <2>2
  <2> QED BY <2>1, <2>2, <2>3, <2>4
<1>6. scale * (a * (d * d)) > 0
  <2> HIDE DEF d
  <2>1. d * d > 0 /\ d * d \in Int
    BY <1>1
  <2> DEFINE e == d * d
  <2>2. e \in Nat \ {0}
    BY <2>1
  <2> HIDE DEF e
  <2>3. a * e \in Nat \ {0}
    BY <2>2
  <2> DEFINE ae == a * e
  <2> HIDE DEF ae
  <2>4. scale * ae > 0
    BY <2>3 DEF ae
  <2> QED BY <2>4 DEF ae, e
<1>7. w * (w + a) \in Nat \ {0}
  OBVIOUS
<1> DEFINE k == w * (w + a)
           r == scale * (a * (d * d))
<1>8. r \in Int
  OBVIOUS
<1> HIDE DEF k, less, more, d, r
<1>9. k * more - k * less = r /\ r > 0 /\ k \in Nat \ {0}
  BY <1>5, <1>6, <1>7 DEF k, r
<1>10. ~(more <= less)
  <2> SUFFICES ASSUME more <= less PROVE FALSE
    OBVIOUS
  <2>1. k * more <= k * less
    <3>1. CASE more = less
      BY <1>1, <1>9, <3>1
    <3>2. CASE more < less
      BY <1>1, <1>9, <3>2, TimesKeepsOrder
    <3> QED BY <1>1, <3>1, <3>2
  <2>2. k * more \in Int /\ k * less \in Int
    BY <1>1, <1>9
  <2> QED BY <1>8, <1>9, <2>1, <2>2
<1>11. less < more
  BY <1>1, <1>10
<1> QED BY <1>11 DEF less, more

(* Every number of rows divides the scale.                                 *)
IsScale(points) ==
  /\ Scale \in Nat \ {0}
  /\ \A w \in 1 .. PrefixSums(points)[Len(points)].weight : Scale % w = 0

(* Weight grows from point to point, and the points above a value pull the *)
(* mean of their class above it.                                           *)
LEMMA SumsGrow ==
  ASSUME NEW points, IsPoints(points)
  PROVE  LET sums == PrefixSums(points)
         IN  \A i, j \in 0 .. Len(points) : i < j =>
                /\ sums[i].weight < sums[j].weight
                /\ i # 0 => (sums[j].weight - sums[i].weight) * points[i].value
                            < sums[j].total - sums[i].total
<1> DEFINE count == Len(points)
           sums == PrefixSums(points)
           w(i) == sums[i].weight
           t(i) == sums[i].total
           v(i) == points[i].value
           a(i) == points[i].weight
           G(i, j) == w(i) < w(j) /\ (i # 0 => (w(j) - w(i)) * v(i) < t(j) - t(i))
<1>1. count \in Nat /\ \A i \in 1 .. count : v(i) \in Int /\ a(i) \in Nat \ {0}
  <2>1. count \in Nat /\ \A i \in 1 .. count : points[i] \in Point
    BY DEF IsPoints
  <2> QED BY <2>1 DEF Point
<1>2. \A i, j \in 1 .. count : i < j => v(i) < v(j)
  BY DEF IsPoints
<1>3. /\ sums \in [0 .. count -> Sum]
      /\ \A i \in 1 .. count : sums[i] = Plus(sums[i - 1], points[i])
  BY SumsRun
<1>4. \A i \in 0 .. count : w(i) \in Nat /\ t(i) \in Int
  BY <1>3 DEF Sum
<1>5. \A i \in 1 .. count : w(i) = w(i - 1) + a(i) /\ t(i) = t(i - 1) + a(i) * v(i)
  <2> SUFFICES ASSUME NEW i \in 1 .. count
               PROVE  w(i) = w(i - 1) + a(i) /\ t(i) = t(i - 1) + a(i) * v(i)
    OBVIOUS
  <2>1. sums[i] = Plus(sums[i - 1], points[i])
    BY <1>3
  <2> QED BY <2>1 DEF Plus
<1> SUFFICES ASSUME NEW i \in 0 .. count
             PROVE  \A j \in 0 .. count : i < j => G(i, j)
  OBVIOUS
<1> DEFINE T == {j \in 0 .. count : i < j => G(i, j)}
<1> HIDE DEF count, sums, w, t, v, a
<1>6. ASSUME NEW j \in 0 .. count - 1, j \in T PROVE j + 1 \in T
  <2> SUFFICES ASSUME i < j + 1 PROVE G(i, j + 1)
    BY <1>1
  <2>1. j + 1 \in 1 .. count /\ (j + 1) - 1 = j /\ j \in 0 .. count /\ (j = i \/ i < j)
    BY <1>1
  <2>2. w(j + 1) = w(j) + a(j + 1) /\ t(j + 1) = t(j) + a(j + 1) * v(j + 1)
    BY <1>5, <2>1
  <2>3. /\ w(i) \in Nat /\ w(j) \in Nat /\ t(i) \in Int /\ t(j) \in Int
        /\ a(j + 1) \in Nat \ {0} /\ v(j + 1) \in Int
    BY <1>1, <1>4, <2>1
  <2>4. w(i) < w(j + 1)
    BY <2>1, <2>2, <2>3, <1>6
  <2>5. ASSUME i # 0 PROVE (w(j + 1) - w(i)) * v(i) < t(j + 1) - t(i)
    <3>1. i \in 1 .. count /\ v(i) \in Int /\ v(i) < v(j + 1)
      BY <1>1, <1>2, <2>1, <2>5
    <3>2. a(j + 1) * v(i) < a(j + 1) * v(j + 1)
      BY <2>3, <3>1, TimesKeepsOrder
    <3>3. (w(j) - w(i)) * v(i) <= t(j) - t(i)
      <4>1. CASE j = i
        BY <2>3, <3>1, <4>1
      <4>2. CASE i < j
        BY <1>6, <2>3, <2>5, <3>1, <4>2
      <4> QED BY <2>1, <4>1, <4>2
    <3>4. (w(j + 1) - w(i)) * v(i) = (w(j) - w(i)) * v(i) + a(j + 1) * v(i)
      BY <2>2, <2>3, <3>1
    <3> DEFINE x == (w(j) - w(i)) * v(i)
               y == a(j + 1) * v(i)
               z == a(j + 1) * v(j + 1)
    <3>5. x \in Int /\ y \in Int /\ z \in Int
      BY <2>3, <3>1
    <3> HIDE DEF x, y, z
    <3>6. x + y < (t(j) + z) - t(i)
      BY <2>3, <3>2, <3>3, <3>5 DEF x, y, z
    <3> QED BY <2>2, <3>4, <3>6 DEF x, y, z
  <2> QED BY <2>4, <2>5
<1>7. T = 0 .. count
  <2>1. T \in SUBSET (0 .. count) /\ 0 \in T
    BY <1>1
  <2> HIDE DEF T
  <2> QED BY <1>1, <1>6, <2>1, UpTo
<1> QED BY <1>7

(* A class costs no less than nothing, a point alone nothing, and a class  *)
(* less once its first point is left out.                                  *)
LEMMA ClassesCost ==
  ASSUME NEW points, IsPoints(points), IsScale(points)
  PROVE  \A high \in 1 .. Len(points) :
            /\ ClassCost(points, high, high) = 0
            /\ \A low \in 1 .. high : ClassCost(points, low, high) \in Nat
            /\ \A low \in 1 .. high - 1 :
                  ClassCost(points, low + 1, high) < ClassCost(points, low, high)
<1> DEFINE count == Len(points)
           sums == PrefixSums(points)
           w(i) == sums[i].weight
           t(i) == sums[i].total
           q(i) == sums[i].squares
           v(i) == points[i].value
           a(i) == points[i].weight
<1>1. count \in Nat /\ \A i \in 1 .. count : v(i) \in Int /\ a(i) \in Nat \ {0}
  <2>1. count \in Nat /\ \A i \in 1 .. count : points[i] \in Point
    BY DEF IsPoints
  <2> QED BY <2>1 DEF Point
<1>2. /\ sums \in [0 .. count -> Sum] /\ sums[0] = [weight |-> 0, total |-> 0, squares |-> 0]
      /\ \A i \in 1 .. count : sums[i] = Plus(sums[i - 1], points[i])
  BY SumsRun
<1>3. \A i \in 0 .. count : w(i) \in Nat /\ t(i) \in Int /\ q(i) \in Int
  BY <1>2 DEF Sum
<1>4. \A i \in 1 .. count :
         /\ w(i) = w(i - 1) + a(i) /\ t(i) = t(i - 1) + a(i) * v(i)
         /\ q(i) = q(i - 1) + a(i) * v(i) * v(i)
  <2> SUFFICES ASSUME NEW i \in 1 .. count
               PROVE  /\ w(i) = w(i - 1) + a(i) /\ t(i) = t(i - 1) + a(i) * v(i)
                      /\ q(i) = q(i - 1) + a(i) * v(i) * v(i)
    OBVIOUS
  <2>1. sums[i] = Plus(sums[i - 1], points[i])
    BY <1>2
  <2> QED BY <2>1 DEF Plus
<1>5. \A i, j \in 0 .. count : i < j =>
         w(i) < w(j) /\ (i # 0 => (w(j) - w(i)) * v(i) < t(j) - t(i))
  BY SumsGrow
<1>6. \A low, high : ClassCost(points, low, high)
        = Scale * (q(high) - q(low - 1))
          - (Scale \div (w(high) - w(low - 1))) * (t(high) - t(low - 1)) * (t(high) - t(low - 1))
  BY DEF ClassCost
<1>7. Scale \in Nat \ {0} /\ \A x \in 1 .. w(count) : Scale % x = 0
  BY DEF IsScale
<1> DEFINE cost(low, high) == ClassCost(points, low, high)
<1> HIDE DEF count, sums, w, t, q, v, a, cost
<1>8. ASSUME NEW i \in 0 .. count, NEW j \in 0 .. count, i < j
      PROVE  /\ w(j) - w(i) \in Nat \ {0}
             /\ Scale \div (w(j) - w(i)) \in Nat
             /\ (Scale \div (w(j) - w(i))) * (w(j) - w(i)) = Scale
  <2> DEFINE x == w(j) - w(i)
  <2>1. count \in 0 .. count /\ (j = count \/ j < count)
    BY <1>1
  <2>2. w(i) \in Nat /\ w(j) \in Nat /\ w(count) \in Nat /\ w(i) < w(j) /\ w(j) <= w(count)
    BY <1>3, <1>5, <1>8, <2>1
  <2>3. x \in 1 .. w(count)
    BY <2>2
  <2> HIDE DEF x
  <2>4. Scale % x = 0 /\ x \in Nat \ {0}
    BY <1>7, <2>2, <2>3
  <2>5. Scale \div x \in Nat /\ (Scale \div x) * x = Scale
    BY <1>7, <2>4
  <2> QED BY <2>4, <2>5 DEF x
<1>9. ASSUME NEW high \in 1 .. count PROVE cost(high, high) = 0
  <2>1. high - 1 \in 0 .. count /\ high \in 0 .. count /\ high - 1 < high
    BY <1>1
  <2> DEFINE f == Scale \div (w(high) - w(high - 1))
             x == v(high)
             b == a(high)
  <2>2. /\ w(high) - w(high - 1) = b /\ t(high) - t(high - 1) = b * x
        /\ q(high) - q(high - 1) = b * x * x
    BY <1>1, <1>3, <1>4, <2>1
  <2>3. f \in Nat /\ f * b = Scale
    BY <1>8, <2>1, <2>2
  <2>4. x \in Int /\ b \in Nat
    BY <1>1
  <2>5. cost(high, high) = Scale * (b * x * x) - f * (b * x) * (b * x)
    BY <1>6, <2>2 DEF cost
  <2> HIDE DEF f, b, x
  <2>6. f * (b * x) * (b * x) = (f * b) * (b * x * x)
    BY <2>3, <2>4
  <2>7. b * x * x \in Int
    BY <2>4
  <2> QED BY <1>7, <2>3, <2>5, <2>6, <2>7
<1>10. ASSUME NEW high \in 1 .. count, NEW low \in 1 .. high - 1
       PROVE  cost(low + 1, high) < cost(low, high)
  <2>1. low \in 1 .. count /\ low \in 0 .. count /\ low - 1 \in 0 .. count /\ high \in 0 .. count
        /\ low - 1 < high /\ low < high /\ low # 0 /\ (low + 1) - 1 = low
    BY <1>1
  <2> DEFINE W == w(high) - w(low)
             D == t(high) - t(low)
             Q == q(high) - q(low)
             f == Scale \div W
             b == a(low)
             x == v(low)
             g == Scale \div (W + b)
  <2>2. /\ w(high) - w(low - 1) = W + b /\ t(high) - t(low - 1) = D + b * x
        /\ q(high) - q(low - 1) = Q + b * x * x
    BY <1>1, <1>3, <1>4, <2>1
  <2>3. W \in Nat \ {0} /\ f \in Nat /\ f * W = Scale
    BY <1>8, <2>1
  <2>4. g \in Nat /\ g * (W + b) = Scale
    BY <1>8, <2>1, <2>2
  <2>5. D \in Int /\ Q \in Int /\ b \in Nat \ {0} /\ x \in Int /\ W * x < D
    BY <1>1, <1>3, <1>5, <2>1
  <2>6. cost(low + 1, high) = Scale * Q - f * D * D
    BY <1>6, <2>1 DEF cost
  <2>7. cost(low, high) = Scale * (Q + b * x * x) - g * (D + b * x) * (D + b * x)
    BY <1>6, <2>2 DEF cost
  <2> HIDE DEF W, D, Q, f, b, x, g
  <2>8. Scale * Q - f * D * D < Scale * (Q + b * x * x) - g * (D + b * x) * (D + b * x)
    BY <1>7, <2>3, <2>4, <2>5, OneMoreCosts
  <2> QED BY <2>6, <2>7, <2>8
<1>11. ASSUME NEW high \in 1 .. count, NEW low \in 1 .. high PROVE cost(low, high) \in Int
  <2>1. low - 1 \in 0 .. count /\ high \in 0 .. count /\ low - 1 < high
    BY <1>1
  <2> DEFINE W == w(high) - w(low - 1)
             D == t(high) - t(low - 1)
             Q == q(high) - q(low - 1)
             f == Scale \div W
  <2>2. f \in Nat /\ D \in Int /\ Q \in Int
    BY <1>3, <1>8, <2>1
  <2>3. cost(low, high) = Scale * Q - f * D * D
    BY <1>6 DEF cost
  <2> HIDE DEF f, D, Q
  <2> QED BY <1>7, <2>2, <2>3
<1>12. ASSUME NEW high \in 1 .. count PROVE \A low \in 1 .. high : cost(low, high) \in Nat
  <2> DEFINE T == {d \in 0 .. high - 1 : cost(high - d, high) >= 0}
  <2>1. high - 1 \in Nat /\ T \in SUBSET (0 .. high - 1) /\ 0 \in T
    BY <1>9
  <2>2. ASSUME NEW d \in 0 .. (high - 1) - 1, d \in T PROVE d + 1 \in T
    <3> DEFINE low == high - (d + 1)
    <3>1. low \in 1 .. high - 1 /\ low \in 1 .. high /\ low + 1 = high - d /\ high - d \in 1 .. high
      OBVIOUS
    <3>2. cost(high - d, high) >= 0
      BY <2>2
    <3> HIDE DEF low
    <3>3. cost(low + 1, high) < cost(low, high)
      BY <1>10, <3>1
    <3>4. cost(low, high) \in Int /\ cost(high - d, high) \in Int
      BY <1>11, <3>1
    <3>5. cost(low, high) >= 0
      BY <3>1, <3>2, <3>3, <3>4
    <3> QED BY <3>5 DEF low
  <2>3. T = 0 .. high - 1
    <3> HIDE DEF T
    <3> QED BY <2>1, <2>2, UpTo
  <2>4. ASSUME NEW low \in 1 .. high PROVE cost(low, high) \in Nat
    <3>1. high - low \in 0 .. high - 1 /\ high - (high - low) = low
      OBVIOUS
    <3>2. cost(low, high) >= 0
      BY <2>3, <3>1
    <3> QED BY <1>11, <3>2
  <2> QED BY <2>4
<1> QED BY <1>9, <1>10, <1>12 DEF cost, count

-----------------------------------------------------------------------------
(* The table of the natural breaks.                                        *)

Row == [lower : Nat, cost : Nat]

(* What every row of the table has: a class that ends at a point starts    *)
(* after an earlier one.                                                   *)
IsRow(row, count) ==
  /\ row \in [0 .. count -> Row]
  /\ row[0] = [lower |-> 0, cost |-> 0]
  /\ row[1] = [lower |-> 1, cost |-> 0]
  /\ \A end \in 2 .. count : row[end].lower \in 0 .. end - 1

(* What a split costs.                                                     *)
SplitCost(points, prev, split, end) == prev[split].cost + ClassCost(points, split + 1, end)

(* The first row of the table is one.                                      *)
LEMMA FirstRowIs ==
  ASSUME NEW points, IsPoints(points), IsScale(points), Len(points) > 0
  PROVE  IsRow(FirstRow(points), Len(points))
<1> DEFINE count == Len(points)
           row == FirstRow(points)
<1>1. count \in Nat \ {0}
  BY DEF IsPoints
<1>2. row = [end \in 0 .. count |->
               CASE end = 0 -> [lower |-> 0, cost |-> 0]
                 [] end = 1 -> [lower |-> 1, cost |-> 0]
                 [] OTHER   -> [lower |-> 0, cost |-> ClassCost(points, 1, end)]]
  BY DEF FirstRow
<1>3. \A end \in 1 .. count : ClassCost(points, 1, end) \in Nat
  BY <1>1, ClassesCost
<1> HIDE DEF count, row
<1>4. ASSUME NEW end \in 2 .. count
      PROVE  row[end] = [lower |-> 0, cost |-> ClassCost(points, 1, end)] /\ row[end] \in Row
  <2>1. end \in 0 .. count /\ end \in 1 .. count /\ end # 0 /\ end # 1
    BY <1>1
  <2>2. row[end] = [lower |-> 0, cost |-> ClassCost(points, 1, end)]
    BY <1>2, <2>1
  <2> QED BY <1>3, <2>1, <2>2 DEF Row
<1>5. row[0] = [lower |-> 0, cost |-> 0] /\ row[1] = [lower |-> 1, cost |-> 0]
  <2>1. 0 \in 0 .. count /\ 1 \in 0 .. count
    BY <1>1
  <2> QED BY <1>2, <2>1
<1>6. row \in [0 .. count -> Row]
  <2>1. DOMAIN row = 0 .. count /\ row = [end \in 0 .. count |-> row[end]]
    BY <1>2
  <2>2. ASSUME NEW end \in 0 .. count PROVE row[end] \in Row
    <3>1. end = 0 \/ end = 1 \/ end \in 2 .. count
      BY <1>1
    <3>2. row[0] \in Row /\ row[1] \in Row
      BY <1>5 DEF Row
    <3> QED BY <1>4, <3>1, <3>2
  <2> QED BY <2>1, <2>2
<1>7. \A end \in 2 .. count : row[end].lower \in 0 .. end - 1
  <2> SUFFICES ASSUME NEW end \in 2 .. count PROVE row[end].lower \in 0 .. end - 1
    OBVIOUS
  <2>1. row[end].lower = 0
    <3>1. row[end] = [lower |-> 0, cost |-> ClassCost(points, 1, end)]
      BY <1>4
    <3> QED BY <3>1
  <2> QED BY <2>1
<1> QED BY <1>5, <1>6, <1>7 DEF IsRow, row, count

(* One class more: the split of a row costs no more than any other.        *)
LEMMA NextRowIs ==
  ASSUME NEW points, IsPoints(points), IsScale(points), Len(points) > 2,
         NEW prev, IsRow(prev, Len(points)), NEW top \in BOOLEAN
  PROVE  LET row == NextRow(points, prev, top)
         IN  /\ IsRow(row, Len(points))
             /\ \A end \in 2 .. Len(points) :
                   LET splits == Splits(prev, end, top, Len(points))
                   IN  /\ row[end].lower \in splits
                       /\ row[end].cost = SplitCost(points, prev, row[end].lower, end)
                       /\ \A s \in splits : row[end].cost <= SplitCost(points, prev, s, end)
<1> DEFINE count == Len(points)
           row == NextRow(points, prev, top)
           splits(end) == Splits(prev, end, top, count)
           cost(s, end) == SplitCost(points, prev, s, end)
           least(end) == Min({cost(s, end) : s \in splits(end)})
           chosen(end) == Min({s \in splits(end) : cost(s, end) = least(end)})
<1>1. count \in Nat /\ count >= 3
  BY DEF IsPoints
<1>2. row = [end \in 0 .. count |->
               CASE end = 0 -> [lower |-> 0, cost |-> 0]
                 [] end = 1 -> [lower |-> 1, cost |-> 0]
                 [] OTHER   -> [lower |-> chosen(end), cost |-> least(end)]]
  BY DEF NextRow, SplitCost
<1>3. /\ prev \in [0 .. count -> Row] /\ prev[1] = [lower |-> 1, cost |-> 0]
      /\ \A end \in 2 .. count : prev[end].lower \in 0 .. end - 1
  BY DEF IsRow
<1>4. \A high \in 1 .. count : \A low \in 1 .. high : ClassCost(points, low, high) \in Nat
  BY ClassesCost
<1>5. \A end : splits(end) = prev[end - 1].lower
                               .. (IF top /\ end = count THEN end - 2 ELSE end - 1)
  BY DEF Splits
<1> HIDE DEF count, row, splits
<1>6. ASSUME NEW end \in 2 .. count
      PROVE  /\ splits(end) \in SUBSET (0 .. end - 1) /\ splits(end) # {}
             /\ \A s \in splits(end) : cost(s, end) \in Nat
  <2>1. prev[end - 1].lower \in Nat
        /\ prev[end - 1].lower <= (IF top /\ end = count THEN end - 2 ELSE end - 1)
    <3>1. CASE end = 2
      <4>1. prev[end - 1].lower = 1
        BY <1>3, <3>1
      <4> QED BY <1>1, <3>1, <4>1
    <3>2. CASE end # 2
      <4>1. end - 1 \in 2 .. count
        BY <1>1, <3>2
      <4>2. prev[end - 1].lower \in 0 .. (end - 1) - 1
        BY <1>3, <4>1
      <4> QED BY <4>1, <4>2
    <3> QED BY <3>1, <3>2
  <2> DEFINE from == prev[end - 1].lower
             to == IF top /\ end = count THEN end - 2 ELSE end - 1
  <2>2. splits(end) = from .. to /\ to \in 0 .. end - 1 /\ from \in Nat /\ from <= to
    BY <1>1, <1>5, <2>1
  <2> HIDE DEF from, to
  <2>3. splits(end) \in SUBSET (0 .. end - 1) /\ from \in splits(end)
    BY <1>1, <2>2
  <2>4. ASSUME NEW s \in splits(end) PROVE cost(s, end) \in Nat
    <3>1. s \in 0 .. count /\ s + 1 \in 1 .. end /\ end \in 1 .. count
      BY <1>1, <2>3
    <3>2. prev[s] \in Row /\ ClassCost(points, s + 1, end) \in Nat
      BY <1>3, <1>4, <3>1
    <3> QED BY <3>2 DEF SplitCost, Row
  <2> QED BY <2>3, <2>4
<1> HIDE DEF cost
<1>7. ASSUME NEW end \in 2 .. count
      PROVE  /\ least(end) \in Nat /\ chosen(end) \in splits(end)
             /\ least(end) = cost(chosen(end), end)
             /\ \A s \in splits(end) : least(end) <= cost(s, end)
  <2> DEFINE R == splits(end)
             f == [s \in R |-> cost(s, end)]
             costs == {cost(s, end) : s \in R}
             best == {s \in R : cost(s, end) = least(end)}
  <2>1. IsFiniteSet(R) /\ R \in SUBSET Nat
    <3>1. IsFiniteSet(0 .. end - 1)
      BY FS_Interval
    <3> QED BY <1>6, <3>1, FS_Subset
  <2>2. R # {} /\ \A s \in R : cost(s, end) \in Nat
    BY <1>6
  <2>3. IsFiniteSet(costs)
    <3>1. DOMAIN f = R /\ f = [s \in R |-> f[s]] /\ costs = {f[s] : s \in R}
      OBVIOUS
    <3> HIDE DEF f, costs, R
    <3> QED BY <2>1, <3>1, FiniteImage
  <2>4. costs \in SUBSET Nat /\ costs \in SUBSET Int /\ costs # {}
    BY <2>2
  <2>5. least(end) \in costs /\ \A y \in costs : least(end) <= y
    <3>1. least(end) = Min(costs)
      OBVIOUS
    <3> HIDE DEF costs, least
    <3> QED BY <2>3, <2>4, <3>1, MinIs
  <2> HIDE DEF least
  <2>6. best # {} /\ best \in SUBSET R /\ best \in SUBSET Int
    <3>1. PICK s \in R : least(end) = cost(s, end)
      BY <2>5
    <3> QED BY <2>1, <3>1
  <2>7. chosen(end) \in best
    <3>1. chosen(end) = Min(best) /\ IsFiniteSet(best)
      BY <2>1, <2>6, FS_Subset
    <3> HIDE DEF best, chosen
    <3> QED BY <2>6, <3>1, MinIs
  <2> HIDE DEF chosen
  <2> QED BY <2>4, <2>5, <2>7
<1> HIDE DEF least, chosen
<1>8. ASSUME NEW end \in 2 .. count
      PROVE  row[end] = [lower |-> chosen(end), cost |-> least(end)] /\ chosen(end) \in 0 .. end - 1
  <2>1. end \in 0 .. count /\ end # 0 /\ end # 1
    BY <1>1
  <2>2. row[end] = [lower |-> chosen(end), cost |-> least(end)]
    BY <1>2, <2>1
  <2> QED BY <1>6, <1>7, <2>2
<1>9. row[0] = [lower |-> 0, cost |-> 0] /\ row[1] = [lower |-> 1, cost |-> 0]
  <2>1. 0 \in 0 .. count /\ 1 \in 0 .. count
    BY <1>1
  <2> QED BY <1>2, <2>1
<1>10. row \in [0 .. count -> Row]
  <2>1. DOMAIN row = 0 .. count /\ row = [end \in 0 .. count |-> row[end]]
    BY <1>2
  <2>2. ASSUME NEW end \in 0 .. count PROVE row[end] \in Row
    <3>1. end = 0 \/ end = 1 \/ end \in 2 .. count
      BY <1>1
    <3>2. row[0] \in Row /\ row[1] \in Row
      BY <1>9 DEF Row
    <3>3. ASSUME end \in 2 .. count PROVE row[end] \in Row
      <4>1. row[end] = [lower |-> chosen(end), cost |-> least(end)]
        BY <1>8, <3>3
      <4>2. chosen(end) \in 0 .. end - 1
        BY <1>8, <3>3
      <4>3. chosen(end) \in Nat
        BY <4>2
      <4>4. least(end) \in Nat
        BY <1>7, <3>3
      <4> QED BY <4>1, <4>3, <4>4 DEF Row
    <3> QED BY <3>1, <3>2, <3>3
  <2> QED BY <2>1, <2>2
<1>11. ASSUME NEW end \in 2 .. count
       PROVE  /\ row[end].lower = chosen(end) /\ row[end].cost = least(end)
              /\ row[end].lower \in 0 .. end - 1
  <2>1. row[end] = [lower |-> chosen(end), cost |-> least(end)] /\ chosen(end) \in 0 .. end - 1
    BY <1>8
  <2> QED BY <2>1
<1>12. IsRow(row, count)
  BY <1>9, <1>10, <1>11 DEF IsRow
<1>13. \A end \in 2 .. count :
          /\ row[end].lower \in splits(end)
          /\ row[end].cost = cost(row[end].lower, end)
          /\ \A s \in splits(end) : row[end].cost <= cost(s, end)
  BY <1>7, <1>11
<1> QED BY <1>12, <1>13 DEF row, count, splits, cost

(* The table has a row for every number of classes.                        *)
LEMMA TableIs ==
  ASSUME NEW points, IsPoints(points), IsScale(points), NEW n \in Nat \ {0}, Len(points) > n
  PROVE  LET table == Table(points, n)
         IN  /\ \A c \in 1 .. n : IsRow(table[c], Len(points))
             /\ table[1] = FirstRow(points)
             /\ \A c \in 2 .. n : table[c] = NextRow(points, table[c - 1], c = n)
<1> DEFINE count == Len(points)
           V == {row \in [0 .. count -> Row] : IsRow(row, count)}
           step == [i \in 1 .. n - 1 |-> [prev \in V |-> NextRow(points, prev, i + 1 = n)]]
           Obeys(t) == t = [c \in 1 .. n |-> IF c = 1 THEN FirstRow(points)
                                             ELSE NextRow(points, t[c - 1], c = n)]
           table == Table(points, n)
<1>1. count \in Nat /\ count > n
  BY DEF IsPoints
<1>2. FirstRow(points) \in V
  <2>1. IsRow(FirstRow(points), count)
    BY <1>1, FirstRowIs
  <2> QED BY <2>1 DEF IsRow
<1>3. ASSUME NEW i \in 1 .. n - 1, NEW prev \in V PROVE NextRow(points, prev, i + 1 = n) \in V
  <2>1. count > 2 /\ IsRow(prev, count) /\ (i + 1 = n) \in BOOLEAN
    BY <1>1
  <2>2. IsRow(NextRow(points, prev, i + 1 = n), count)
    BY <2>1, NextRowIs
  <2> QED BY <2>2 DEF IsRow
<1>4. step \in [1 .. n - 1 -> [V -> V]]
  BY <1>3
<1>5. \A i \in 1 .. n - 1 : \A prev \in V : step[i][prev] = NextRow(points, prev, i + 1 = n)
  OBVIOUS
<1>6. \A row \in V : IsRow(row, count)
  OBVIOUS
<1>7. table = CHOOSE t : Obeys(t)
  BY DEF Table
<1> HIDE DEF count, V, step, table
<1>8. PICK s : IsLoop(s, n - 1, FirstRow(points), step)
  <2>1. n - 1 \in Nat
    OBVIOUS
  <2> QED BY <1>2, <1>4, <2>1, LoopRuns
<1>9. /\ s \in [0 .. n - 1 -> V] /\ s[0] = FirstRow(points)
      /\ \A i \in 1 .. n - 1 : s[i] = step[i][s[i - 1]]
  <2>1. n - 1 \in Nat
    OBVIOUS
  <2> QED BY <1>2, <1>4, <1>8, <2>1, LoopIs
<1> DEFINE t == [c \in 1 .. n |-> s[c - 1]]
<1>10. ASSUME NEW c \in 1 .. n
       PROVE  t[c] = IF c = 1 THEN FirstRow(points) ELSE NextRow(points, t[c - 1], c = n)
  <2>1. CASE c = 1
    BY <1>9, <2>1
  <2>2. CASE c # 1
    <3>1. c - 1 \in 1 .. n - 1 /\ c - 1 \in 1 .. n /\ (c - 1) - 1 \in 0 .. n - 1 /\ (c - 1) + 1 = c
      BY <2>2
    <3>2. t[c] = step[c - 1][s[(c - 1) - 1]] /\ t[c - 1] = s[(c - 1) - 1] /\ s[(c - 1) - 1] \in V
      BY <1>9, <3>1
    <3> HIDE DEF t
    <3>3. step[c - 1][t[c - 1]] = NextRow(points, t[c - 1], (c - 1) + 1 = n)
      BY <1>5, <3>1, <3>2
    <3> QED BY <2>2, <3>1, <3>2, <3>3
  <2> QED BY <2>1, <2>2
<1>11. Obeys(t)
  <2>1. DOMAIN t = 1 .. n /\ t = [c \in 1 .. n |-> t[c]]
    OBVIOUS
  <2> HIDE DEF t
  <2> QED BY <1>10, <2>1
<1>12. Obeys(table)
  <2> HIDE DEF Obeys
  <2> QED BY <1>7, <1>11
<1> HIDE DEF t
<1>13. \A c \in 1 .. n : table[c] = IF c = 1 THEN FirstRow(points)
                                    ELSE NextRow(points, table[c - 1], c = n)
  BY <1>12
<1>14. /\ table[1] = FirstRow(points)
       /\ \A c \in 2 .. n : table[c] = NextRow(points, table[c - 1], c = n)
  BY <1>13
<1> DEFINE T == {i \in 0 .. n - 1 : table[i + 1] \in V}
<1>15. T = 0 .. n - 1
  <2>1. n - 1 \in Nat /\ T \in SUBSET (0 .. n - 1) /\ 0 \in T
    BY <1>2, <1>14
  <2>2. ASSUME NEW i \in 0 .. (n - 1) - 1, i \in T PROVE i + 1 \in T
    <3>1. /\ i + 1 \in 1 .. n - 1 /\ i + 1 \in 0 .. n - 1 /\ (i + 1) + 1 \in 2 .. n
          /\ ((i + 1) + 1) - 1 = i + 1 /\ table[i + 1] \in V
      BY <2>2
    <3>2. table[(i + 1) + 1] = NextRow(points, table[i + 1], (i + 1) + 1 = n)
      BY <1>14, <3>1
    <3>3. table[(i + 1) + 1] \in V
      BY <1>3, <3>1, <3>2
    <3> QED BY <3>1, <3>3
  <2> HIDE DEF T
  <2> QED BY <2>1, <2>2, UpTo
<1>16. ASSUME NEW c \in 1 .. n PROVE IsRow(table[c], count)
  <2>1. c - 1 \in 0 .. n - 1 /\ (c - 1) + 1 = c
    OBVIOUS
  <2>2. table[c] \in V
    BY <1>15, <2>1
  <2> QED BY <1>6, <2>2
<1> QED BY <1>14, <1>16 DEF table, count

(* The search for a cheaper split starts one class too early, but a class  *)
(* that would leave no point to each of the earlier ones costs more than   *)
(* the next split: so many classes of so many points cost nothing.         *)
LEMMA TablePrunes ==
  ASSUME NEW points, IsPoints(points), IsScale(points), NEW n \in Nat \ {0}, Len(points) > n
  PROVE  LET table == Table(points, n)
         IN  /\ \A c \in 1 .. n : \A end \in 2 .. Len(points) :
                   end >= c => table[c][end].lower \in c - 1 .. end - 1
             /\ n > 1 => table[n][Len(points)].lower <= Len(points) - 2
<1> DEFINE count == Len(points)
           table == Table(points, n)
           P(c) == /\ table[c][c].cost = 0
                   /\ \A end \in 2 .. count : end >= c => table[c][end].lower >= c - 1
           cost(low, high) == ClassCost(points, low, high)
<1>1. count \in Nat /\ count > n
  BY DEF IsPoints
<1>2. /\ \A c \in 1 .. n : IsRow(table[c], count)
      /\ \A c \in 2 .. n : table[c] = NextRow(points, table[c - 1], c = n)
  BY <1>1, TableIs
<1>3. /\ \A high \in 1 .. count :
            /\ cost(high, high) = 0
            /\ \A low \in 1 .. high : cost(low, high) \in Nat
            /\ \A low \in 1 .. high - 1 : cost(low + 1, high) < cost(low, high)
  BY ClassesCost
<1> HIDE DEF count, table, cost
<1>4. ASSUME NEW c \in 1 .. n
      PROVE  /\ table[c] \in [0 .. count -> Row] /\ table[c][1] = [lower |-> 1, cost |-> 0]
             /\ \A end \in 2 .. count : table[c][end].lower \in 0 .. end - 1
  BY <1>2 DEF IsRow
<1>5. ASSUME NEW c \in 2 .. n, NEW end \in 2 .. count
      PROVE  LET splits == Splits(table[c - 1], end, c = n, count)
                 price(s) == table[c - 1][s].cost + cost(s + 1, end)
             IN  /\ splits = table[c - 1][end - 1].lower
                             .. (IF c = n /\ end = count THEN end - 2 ELSE end - 1)
                 /\ table[c][end].lower \in splits
                 /\ table[c][end].cost = price(table[c][end].lower)
                 /\ \A s \in splits : table[c][end].cost <= price(s)
  <2>1. count > 2 /\ c - 1 \in 1 .. n /\ (c = n) \in BOOLEAN
    BY <1>1
  <2>2. IsRow(table[c - 1], count) /\ table[c] = NextRow(points, table[c - 1], c = n)
    BY <1>2, <2>1
  <2>3. LET splits == Splits(table[c - 1], end, c = n, count)
        IN  /\ table[c][end].lower \in splits
            /\ table[c][end].cost = SplitCost(points, table[c - 1], table[c][end].lower, end)
            /\ \A s \in splits : table[c][end].cost <= SplitCost(points, table[c - 1], s, end)
    <3> DEFINE top == c = n
               prev == table[c - 1]
               row == table[c]
    <3>1. top \in BOOLEAN /\ IsRow(prev, Len(points)) /\ row = NextRow(points, prev, top)
          /\ Len(points) > 2 /\ count = Len(points)
      BY <2>1, <2>2 DEF count
    <3> HIDE DEF top, prev, row
    <3>2. \A e \in 2 .. Len(points) :
            LET splits == Splits(prev, e, top, Len(points))
            IN  /\ row[e].lower \in splits
                /\ row[e].cost = SplitCost(points, prev, row[e].lower, e)
                /\ \A s \in splits : row[e].cost <= SplitCost(points, prev, s, e)
      BY <3>1, NextRowIs
    <3> QED BY <3>1, <3>2 DEF top, prev, row
  <2>4. \A s : SplitCost(points, table[c - 1], s, end) = table[c - 1][s].cost + cost(s + 1, end)
    BY DEF SplitCost, cost
  <2>5. Splits(table[c - 1], end, c = n, count)
          = table[c - 1][end - 1].lower .. (IF c = n /\ end = count THEN end - 2 ELSE end - 1)
    BY DEF Splits
  <2> QED BY <2>3, <2>4, <2>5
<1>6. P(1)
  BY <1>4
<1>7. ASSUME NEW c \in 2 .. n, P(c - 1) PROVE P(c)
  <2> DEFINE d == c - 1
  <2>1. d \in 1 .. n /\ c \in 1 .. n /\ c \in 2 .. count /\ c < count /\ d >= 1 /\ d + 1 = c
    BY <1>1
  <2>2. table[d][d].cost = 0 /\ table[d] \in [0 .. count -> Row]
    BY <1>4, <1>7, <2>1
  <2>3. ASSUME NEW end \in 2 .. count, end >= c
        PROVE  table[d][end - 1].lower \in 0 .. end - 1 /\ table[d][end - 1].lower >= d - 1
    <3>1. CASE end = 2
      <4>1. c = 2 /\ d = 1
        BY <2>1, <2>3, <3>1
      <4>2. table[d][end - 1].lower = 1
        BY <1>4, <2>1, <3>1, <4>1
      <4> QED BY <3>1, <4>1, <4>2
    <3>2. CASE end # 2
      <4>1. end - 1 \in 2 .. count /\ end - 1 >= d
        BY <1>1, <2>1, <2>3, <3>2
      <4>2. table[d][end - 1].lower \in 0 .. (end - 1) - 1
        BY <1>4, <2>1, <4>1
      <4>3. table[d][end - 1].lower >= d - 1
        BY <1>7, <4>1
      <4> QED BY <2>1, <2>3, <4>1, <4>2, <4>3
    <3> QED BY <3>1, <3>2
  <2> DEFINE from(end) == table[d][end - 1].lower
             to(end) == IF c = n /\ end = count THEN end - 2 ELSE end - 1
             price(s, end) == table[d][s].cost + cost(s + 1, end)
             lower(end) == table[c][end].lower
  <2>4. ASSUME NEW end \in 2 .. count, end >= c
        PROVE  /\ from(end) \in 0 .. end - 1 /\ from(end) >= d - 1
               /\ d <= to(end) /\ to(end) <= end - 1 /\ to(end) \in Int
               /\ lower(end) \in from(end) .. to(end)
               /\ table[c][end].cost \in Nat
               /\ table[c][end].cost = price(lower(end), end)
               /\ \A s \in from(end) .. to(end) : table[c][end].cost <= price(s, end)
    <3>1. from(end) \in 0 .. end - 1 /\ from(end) >= d - 1
      BY <2>3, <2>4
    <3>2. d <= to(end) /\ to(end) <= end - 1 /\ to(end) \in Int
      BY <1>1, <2>1, <2>4
    <3>3. /\ lower(end) \in from(end) .. to(end)
          /\ table[c][end].cost = price(lower(end), end)
          /\ \A s \in from(end) .. to(end) : table[c][end].cost <= price(s, end)
      <4> DEFINE splits == Splits(table[d], end, c = n, count)
      <4>1. /\ splits = from(end) .. to(end)
            /\ lower(end) \in splits
            /\ table[c][end].cost = price(lower(end), end)
        BY <1>5
      <4>2. ASSUME NEW s \in splits PROVE table[c][end].cost <= price(s, end)
        BY <1>5
      <4> HIDE DEF splits, from, to, price, lower
      <4> QED BY <4>1, <4>2
    <3>4. table[c][end].cost \in Nat
      <4>1. table[c][end] \in Row
        BY <1>1, <1>4, <2>1
      <4> QED BY <4>1 DEF Row
    <3> QED BY <3>1, <3>2, <3>3, <3>4
  <2>5. table[c][c].cost = 0
    <3>1. c \in 1 .. count /\ c >= c /\ to(c) = d /\ from(c) <= d
      <4>1. c \in 1 .. count /\ c >= c /\ c # count
        BY <1>1, <2>1
      <4>2. from(c) \in 0 .. c - 1
        BY <2>1, <2>4, <4>1
      <4>3. from(c) <= d
        <5> HIDE DEF from
        <5> QED BY <2>1, <4>2
      <4> QED BY <4>1, <4>3
    <3>2. price(d, c) = 0
      <4>1. cost(c, c) = 0
        BY <1>3, <3>1
      <4> QED BY <2>1, <2>2, <4>1
    <3>3. from(c) \in 0 .. c - 1
      BY <2>1, <2>4, <3>1
    <3> HIDE DEF from, to, price, lower
    <3>4. d \in from(c) .. to(c)
      BY <2>1, <3>1, <3>3
    <3>5. table[c][c].cost <= price(d, c) /\ table[c][c].cost \in Nat
      BY <2>1, <2>4, <3>1, <3>4
    <3> QED BY <3>2, <3>5
  <2>6. ASSUME NEW end \in 2 .. count, end >= c PROVE lower(end) >= c - 1
    <3> DEFINE l == lower(end)
               m == table[d][l].cost
    <3>1. /\ from(end) \in 0 .. end - 1 /\ from(end) >= d - 1 /\ d <= to(end) /\ to(end) <= end - 1
          /\ to(end) \in Int /\ l \in from(end) .. to(end)
          /\ table[c][end].cost = price(l, end)
          /\ \A s \in from(end) .. to(end) : table[c][end].cost <= price(s, end)
      BY <2>4, <2>6
    <3> SUFFICES ASSUME l < d PROVE FALSE
      <4> HIDE DEF from, to, price, lower
      <4> QED BY <2>1, <3>1
    <3>2. l = d - 1 /\ d \in from(end) .. to(end) /\ l + 1 = d /\ l \in 0 .. count
      <4> HIDE DEF from, to, price, lower
      <4>1. l \in Int /\ l >= d - 1 /\ l >= from(end) /\ from(end) \in Int
        BY <3>1
      <4>2. l = d - 1
        BY <2>1, <4>1
      <4>3. d \in from(end) .. to(end)
        BY <2>1, <3>1, <4>1, <4>2
      <4> QED BY <1>1, <2>1, <4>2, <4>3
    <3>3. table[c][end].cost <= price(d, end)
      BY <3>1, <3>2
    <3>4. price(l, end) = m + cost(d, end) /\ price(d, end) = 0 + cost(d + 1, end)
      BY <2>2, <3>2
    <3>5. m \in Nat
      <4>1. table[d][l] \in Row
        BY <2>2, <3>2
      <4> QED BY <4>1 DEF Row
    <3>6. /\ end \in 1 .. count /\ d \in 1 .. end - 1 /\ d \in 1 .. end /\ d + 1 \in 1 .. end
      BY <1>1, <2>1, <2>6
    <3>7. cost(d + 1, end) < cost(d, end) /\ cost(d, end) \in Nat /\ cost(d + 1, end) \in Nat
      BY <1>3, <3>6
    <3> HIDE DEF m, price, l
    <3> QED BY <3>1, <3>3, <3>4, <3>5, <3>7
  <2> QED BY <2>5, <2>6
<1> DEFINE T == {i \in 0 .. n - 1 : P(i + 1)}
<1> HIDE DEF P
<1>8. T = 0 .. n - 1
  <2>1. n - 1 \in Nat /\ T \in SUBSET (0 .. n - 1) /\ 0 \in T
    BY <1>6
  <2>2. ASSUME NEW i \in 0 .. (n - 1) - 1, i \in T PROVE i + 1 \in T
    <3>1. (i + 1) + 1 \in 2 .. n /\ ((i + 1) + 1) - 1 = i + 1 /\ i + 1 \in 0 .. n - 1 /\ P(i + 1)
      BY <2>2
    <3>2. P((i + 1) + 1)
      BY <1>7, <3>1
    <3> QED BY <3>1, <3>2
  <2> HIDE DEF T
  <2> QED BY <2>1, <2>2, UpTo
<1>9. ASSUME NEW c \in 1 .. n, NEW end \in 2 .. count, end >= c
      PROVE  table[c][end].lower \in c - 1 .. end - 1
  <2>1. c - 1 \in 0 .. n - 1 /\ (c - 1) + 1 = c
    OBVIOUS
  <2>2. P(c)
    BY <1>8, <2>1
  <2>3. table[c][end].lower >= c - 1
    BY <1>9, <2>2 DEF P
  <2>4. table[c][end].lower \in 0 .. end - 1
    BY <1>4
  <2> QED BY <2>3, <2>4
<1>10. ASSUME n > 1 PROVE table[n][count].lower <= count - 2
  <2>1. n \in 2 .. n /\ n - 1 \in 1 .. n /\ count \in 2 .. count /\ count >= 3
    BY <1>1, <1>10
  <2> DEFINE from == table[n - 1][count - 1].lower
  <2>2. table[n][count].lower \in from .. count - 2
    BY <1>5, <2>1
  <2>3. from \in Int
    <3>1. count - 1 \in 2 .. count
      BY <2>1
    <3>2. from \in 0 .. (count - 1) - 1
      BY <1>4, <2>1, <3>1
    <3> QED BY <3>2
  <2> HIDE DEF from
  <2> QED BY <1>1, <2>2, <2>3
<1> QED BY <1>9, <1>10 DEF table, count

(* The classes end at points that climb: every class has a point, and the  *)
(* top class two.                                                          *)
LEMMA EndsClimb ==
  ASSUME NEW points, IsPoints(points), IsScale(points), NEW n \in Nat \ {0}, Len(points) > n
  PROVE  LET ends == ClassEnds(points, Table(points, n), n)
         IN  /\ \A c \in 1 .. n : ends[c] \in c .. Len(points)
             /\ ends[n] = Len(points)
             /\ \A c \in 2 .. n : ends[c - 1] < ends[c]
             /\ n > 1 => ends[n - 1] <= Len(points) - 2
             /\ \A c \in 2 .. n : ends[c - 1] = Table(points, n)[c][ends[c]].lower
<1> DEFINE count == Len(points)
           table == Table(points, n)
           V == 0 .. count
           step == [k \in 1 .. n |-> [end \in V |-> table[n - k + 1][end].lower]]
           Obeys(e) == e = [c \in 0 .. n |-> IF c = n THEN count ELSE table[c + 1][e[c + 1]].lower]
           ends == ClassEnds(points, table, n)
<1>1. count \in Nat /\ count > n
  BY DEF IsPoints
<1>2. /\ \A c \in 1 .. n : IsRow(table[c], count)
      /\ \A c \in 1 .. n : \A end \in 2 .. count :
            end >= c => table[c][end].lower \in c - 1 .. end - 1
      /\ n > 1 => table[n][count].lower <= count - 2
  BY <1>1, TableIs, TablePrunes
<1>3. ends = CHOOSE e : Obeys(e)
  BY DEF ClassEnds
<1> HIDE DEF count, table, ends
<1>4. ASSUME NEW c \in 1 .. n, NEW end \in V PROVE table[c][end].lower \in V
  <2>1. /\ table[c] \in [0 .. count -> Row] /\ table[c][0] = [lower |-> 0, cost |-> 0]
        /\ table[c][1] = [lower |-> 1, cost |-> 0]
        /\ \A e \in 2 .. count : table[c][e].lower \in 0 .. e - 1
    BY <1>2 DEF IsRow
  <2>2. end = 0 \/ end = 1 \/ end \in 2 .. count
    BY <1>1
  <2>3. CASE end = 0
    <3>1. table[c][end].lower = 0
      BY <2>1, <2>3
    <3> QED BY <1>1, <3>1
  <2>4. CASE end = 1
    <3>1. table[c][end].lower = 1
      BY <2>1, <2>4
    <3> QED BY <1>1, <3>1
  <2>5. CASE end \in 2 .. count
    <3>1. table[c][end].lower \in 0 .. end - 1
      BY <2>1, <2>5
    <3> QED BY <1>1, <2>5, <3>1
  <2> QED BY <2>2, <2>3, <2>4, <2>5
<1>5. step \in [1 .. n -> [V -> V]]
  <2>1. ASSUME NEW k \in 1 .. n PROVE [end \in V |-> table[n - k + 1][end].lower] \in [V -> V]
    <3>1. n - k + 1 \in 1 .. n
      OBVIOUS
    <3> HIDE DEF V
    <3> QED BY <1>4, <3>1
  <2> QED BY <2>1
<1>6. count \in V
  BY <1>1
<1>7. \A k \in 1 .. n : \A end \in V : step[k][end] = table[n - k + 1][end].lower
  OBVIOUS
<1> HIDE DEF V, step
<1>8. PICK s : IsLoop(s, n, count, step)
  BY <1>5, <1>6, LoopRuns
<1>9. s \in [0 .. n -> V] /\ s[0] = count /\ \A k \in 1 .. n : s[k] = step[k][s[k - 1]]
  BY <1>5, <1>6, <1>8, LoopIs
<1> DEFINE e == [c \in 0 .. n |-> s[n - c]]
<1>10. ASSUME NEW c \in 0 .. n
       PROVE  e[c] = IF c = n THEN count ELSE table[c + 1][e[c + 1]].lower
  <2>1. CASE c = n
    BY <1>9, <2>1
  <2>2. CASE c # n
    <3>1. /\ n - c \in 1 .. n /\ c + 1 \in 0 .. n /\ (n - c) - 1 = n - (c + 1)
          /\ (n - c) - 1 \in 0 .. n /\ n - (n - c) + 1 = c + 1
      BY <2>2
    <3>2. e[c] = s[n - c] /\ e[c + 1] = s[(n - c) - 1] /\ s[(n - c) - 1] \in V
      BY <1>9, <3>1
    <3> HIDE DEF e
    <3>3. s[n - c] = table[n - (n - c) + 1][s[(n - c) - 1]].lower
      BY <1>7, <1>9, <3>1, <3>2
    <3> QED BY <2>2, <3>1, <3>2, <3>3
  <2> QED BY <2>1, <2>2
<1>11. Obeys(e)
  <2>1. DOMAIN e = 0 .. n /\ e = [c \in 0 .. n |-> e[c]]
    OBVIOUS
  <2> HIDE DEF e
  <2> QED BY <1>10, <2>1
<1>12. Obeys(ends)
  <2> HIDE DEF Obeys
  <2> QED BY <1>3, <1>11
<1> HIDE DEF e
<1>13. \A c \in 0 .. n : ends[c] = IF c = n THEN count ELSE table[c + 1][ends[c + 1]].lower
  BY <1>12
<1>14. ends[n] = count
  BY <1>13
<1>15. ASSUME NEW c \in 2 .. n PROVE ends[c - 1] = table[c][ends[c]].lower
  <2>1. c - 1 \in 0 .. n /\ c - 1 # n /\ (c - 1) + 1 = c
    OBVIOUS
  <2> QED BY <1>13, <2>1
<1> HIDE DEF Obeys
<1>16. ASSUME NEW c \in 2 .. n, ends[c] \in c .. count
       PROVE  ends[c - 1] \in c - 1 .. count /\ ends[c - 1] < ends[c]
  <2> DEFINE end == ends[c]
  <2>1. end \in 2 .. count /\ end >= c /\ c \in 1 .. n
    BY <1>1, <1>16
  <2> HIDE DEF end
  <2>2. table[c][end].lower \in c - 1 .. end - 1
    BY <1>2, <2>1
  <2>3. ends[c - 1] \in c - 1 .. end - 1
    BY <1>15, <2>2 DEF end
  <2>4. ends[c - 1] \in c - 1 .. count /\ ends[c - 1] < end
    BY <1>1, <2>1, <2>3
  <2> QED BY <2>4 DEF end
<1> DEFINE T == {c \in 1 .. n : ends[c] \in c .. count}
<1>17. T = 1 .. n
  <2>1. T \in SUBSET (1 .. n)
    OBVIOUS
  <2>2. ASSUME NEW c \in 1 .. n, c + 1 .. n \subseteq T PROVE c \in T
    <3>1. CASE c = n
      BY <1>1, <1>14, <3>1
    <3>2. CASE c # n
      <4>1. c + 1 \in 2 .. n /\ c + 1 \in c + 1 .. n /\ (c + 1) - 1 = c
        BY <3>2
      <4>2. ends[c + 1] \in c + 1 .. count
        BY <2>2, <4>1
      <4>3. ends[c] \in c .. count
        BY <1>16, <4>1, <4>2
      <4> QED BY <4>3
    <3> QED BY <3>1, <3>2
  <2> HIDE DEF T
  <2> QED BY <2>1, <2>2, FromTheLast
<1>18. \A c \in 1 .. n : ends[c] \in c .. count
  BY <1>17
<1>19. \A c \in 2 .. n : ends[c - 1] < ends[c]
  BY <1>16, <1>18
<1>20. n > 1 => ends[n - 1] <= count - 2
  <2> SUFFICES ASSUME n > 1 PROVE ends[n - 1] <= count - 2
    OBVIOUS
  <2>1. n \in 2 .. n
    OBVIOUS
  <2>2. ends[n - 1] = table[n][count].lower
    BY <1>14, <1>15, <2>1
  <2> QED BY <1>2, <2>2
<1> QED BY <1>14, <1>15, <1>18, <1>19, <1>20 DEF ends, count, table

(* Natural breaks lose no class: with more points than classes, the table  *)
(* cuts off as many as asked for.                                          *)
LEMMA NaturalsAreGood ==
  ASSUME NEW S \in SUBSET Int, IsFiniteSet(S), S # {},
         NEW column, \A v \in S : column[v] \in Nat \ {0}, NEW n \in Nat \ {0},
         IsScale(Points(column, S))
  PROVE  GoodBreaks(NaturalBreaks(Points(column, S), n), S,
                    Min({n, Min({Cardinality(S), Buckets}) - 1}))
<1> DEFINE points == Points(column, S)
           count == Len(points)
           b == NaturalBreaks(points, n)
           value(t) == points[t].value
<1>1. /\ IsPoints(points) /\ count = Min({Buckets, Cardinality(S)}) /\ count \in Nat \ {0}
      /\ \A t \in 1 .. count : value(t) \in S
      /\ value(1) = Min(S) /\ value(count) = Max(S)
  BY PointsAre
<1>2. IsScale(points)
  OBVIOUS
<1> HIDE DEF points
<1>3. \A i, j \in 1 .. count : i < j => value(i) < value(j)
  BY <1>1 DEF IsPoints
<1>4. Min({n, Min({Cardinality(S), Buckets}) - 1}) = IF n <= count - 1 THEN n ELSE count - 1
  <2>1. Min({Cardinality(S), Buckets}) = count
    <3>1. {Cardinality(S), Buckets} = {Buckets, Cardinality(S)}
      OBVIOUS
    <3> QED BY <1>1, <3>1
  <2>2. count - 1 \in Int /\ n \in Int
    BY <1>1
  <2> HIDE DEF count
  <2> QED BY <2>1, <2>2, MinOfTwo
<1>5. points # <<>> /\ points \in Seq(Point) /\ DOMAIN points = 1 .. count
  BY <1>1 DEF IsPoints
<1>6. b = IF count <= n THEN [i \in DOMAIN points |-> points[i].value]
          ELSE LowerBounds(points, Table(points, n), n)
  BY <1>5 DEF NaturalBreaks
<1> HIDE DEF b, count, value
<1>7. CASE count <= n
  <2>1. b = [i \in 1 .. count |-> value(i)]
    BY <1>5, <1>6, <1>7 DEF value
  <2>2. b \in Seq(S) /\ Len(b) = count /\ \A i \in 1 .. count : b[i] = value(i)
    <3>1. b \in [1 .. count -> S] /\ \A i \in 1 .. count : b[i] = value(i)
      BY <1>1, <2>1
    <3>2. count \in Nat
      BY <1>1
    <3> QED BY <3>1, <3>2
  <2>3. IsAscending(b)
    BY <1>3, <2>2 DEF IsAscending
  <2>4. 1 \in 1 .. count /\ count \in 1 .. count /\ Len(b) = (count - 1) + 1 /\ ~(n <= count - 1)
    BY <1>1, <1>7, <2>2
  <2>5. b[1] = Min(S) /\ b[Len(b)] = Max(S)
    BY <1>1, <2>2, <2>4
  <2>6. GoodBreaks(b, S, count - 1)
    BY <2>2, <2>3, <2>4, <2>5 DEF GoodBreaks
  <2> QED BY <1>4, <2>4, <2>6 DEF b, points
<1>8. CASE ~(count <= n)
  <2> DEFINE ends == ClassEnds(points, Table(points, n), n)
             at(c) == IF c = 1 THEN 1 ELSE IF c = n + 1 THEN count ELSE ends[c - 1] + 1
  <2>1. count > n
    BY <1>1, <1>8
  <2>2. /\ \A c \in 1 .. n : ends[c] \in c .. count
        /\ ends[n] = count
        /\ \A c \in 2 .. n : ends[c - 1] < ends[c]
        /\ n > 1 => ends[n - 1] <= count - 2
    BY <1>1, <1>2, <2>1, EndsClimb DEF count
  <2>3. b = [c \in 1 .. n + 1 |-> IF c = 1 THEN value(1) ELSE IF c = n + 1 THEN value(count)
                                  ELSE value(ends[c - 1] + 1)]
    BY <1>6, <1>8 DEF LowerBounds, value, count
  <2> HIDE DEF ends
  <2>4. ASSUME NEW c \in 1 .. n + 1 PROVE b[c] = value(at(c))
    BY <2>3
  <2>5. ASSUME NEW c \in 1 .. n + 1 PROVE at(c) \in 1 .. count
    <3>1. CASE c = 1 \/ c = n + 1
      BY <1>1, <3>1
    <3>2. CASE c # 1 /\ c # n + 1
      <4>1. c \in 2 .. n /\ c - 1 \in 1 .. n /\ c \in 1 .. n
        BY <3>2
      <4>2. ends[c - 1] \in c - 1 .. count /\ ends[c - 1] < ends[c] /\ ends[c] \in c .. count
        BY <2>2, <4>1
      <4>3. ends[c - 1] + 1 \in 1 .. count
        BY <1>1, <4>1, <4>2
      <4> QED BY <3>2, <4>3
    <3> QED BY <3>1, <3>2
  <2>6. ASSUME NEW c \in 1 .. n PROVE at(c) < at(c + 1)
    <3>1. CASE n = 1
      <4>1. c = 1 /\ at(c) = 1 /\ at(c + 1) = count
        BY <3>1
      <4> QED BY <1>1, <2>1, <3>1, <4>1
    <3>2. CASE n # 1 /\ c = 1
      <4>1. at(c) = 1 /\ at(c + 1) = ends[1] + 1 /\ 1 \in 1 .. n
        BY <3>2
      <4>2. ends[1] \in 1 .. count
        BY <2>2, <4>1
      <4> QED BY <1>1, <4>1, <4>2
    <3>3. CASE n # 1 /\ c = n
      <4>1. at(c) = ends[n - 1] + 1 /\ at(c + 1) = count /\ n - 1 \in 1 .. n /\ n > 1
        BY <3>3
      <4>2. ends[n - 1] \in n - 1 .. count /\ ends[n - 1] <= count - 2
        BY <2>2, <4>1
      <4> QED BY <1>1, <4>1, <4>2
    <3>4. CASE c # 1 /\ c # n
      <4>1. /\ c \in 2 .. n /\ c - 1 \in 1 .. n
            /\ at(c) = ends[c - 1] + 1 /\ at(c + 1) = ends[c] + 1
        BY <3>4
      <4>2. ends[c - 1] \in c - 1 .. count /\ ends[c] \in c .. count /\ ends[c - 1] < ends[c]
        BY <2>2, <4>1
      <4> QED BY <1>1, <4>1, <4>2
    <3> QED BY <3>1, <3>2, <3>3, <3>4
  <2>7. at(1) = 1 /\ at(n + 1) = count
    OBVIOUS
  <2> HIDE DEF at
  <2>8. \A c \in 1 .. n + 1 : b[c] \in S
    BY <1>1, <2>4, <2>5
  <2>9. b \in Seq(S) /\ Len(b) = n + 1
    <3>1. b \in [1 .. n + 1 -> S]
      BY <2>3, <2>8
    <3> QED BY <3>1
  <2>10. IsAscending(b)
    <3> DEFINE T(i) == {d \in 0 .. n + 1 : i < d => b[i] < b[d]}
    <3>1. ASSUME NEW i \in 1 .. n + 1 PROVE T(i) = 0 .. n + 1
      <4>1. n + 1 \in Nat /\ T(i) \in SUBSET (0 .. n + 1) /\ 0 \in T(i)
        OBVIOUS
      <4>2. ASSUME NEW d \in 0 .. (n + 1) - 1, d \in T(i) PROVE d + 1 \in T(i)
        <5> SUFFICES ASSUME i < d + 1 PROVE b[i] < b[d + 1]
          OBVIOUS
        <5>1. d \in 1 .. n /\ d \in 1 .. n + 1 /\ d + 1 \in 1 .. n + 1 /\ (i = d \/ i < d)
          OBVIOUS
        <5>2. b[d] < b[d + 1]
          <6>1. at(d) < at(d + 1) /\ at(d) \in 1 .. count /\ at(d + 1) \in 1 .. count
            BY <2>5, <2>6, <5>1
          <6> QED BY <1>3, <2>4, <5>1, <6>1
        <5>3. b[i] \in Int /\ b[d] \in Int /\ b[d + 1] \in Int
          BY <2>8, <5>1
        <5>4. i < d => b[i] < b[d]
          BY <4>2, <5>1
        <5> QED BY <5>1, <5>2, <5>3, <5>4
      <4> HIDE DEF T
      <4> QED BY <4>1, <4>2, UpTo
    <3>2. ASSUME NEW i \in 1 .. n + 1, NEW j \in 1 .. n + 1, i < j PROVE b[i] < b[j]
      <4>1. j \in T(i)
        BY <3>1
      <4> QED BY <3>2, <4>1
    <3> QED BY <2>9, <3>2 DEF IsAscending
  <2>11. b[1] = Min(S) /\ b[Len(b)] = Max(S)
    <3>1. 1 \in 1 .. n + 1 /\ n + 1 \in 1 .. n + 1
      OBVIOUS
    <3> QED BY <1>1, <2>4, <2>7, <2>9, <3>1
  <2>12. GoodBreaks(b, S, n)
    BY <2>9, <2>10, <2>11 DEF GoodBreaks
  <2>13. n <= count - 1
    BY <1>1, <2>1
  <2> QED BY <1>4, <2>12, <2>13 DEF b, points
<1> QED BY <1>7, <1>8

-----------------------------------------------------------------------------
(* The legend and the map.                                                 *)

(* A feature between the first and the last break has the color of the     *)
(* last class that starts at or below its value.                           *)
LEMMA DrawnIs ==
  ASSUME NEW b \in Seq(Int), Len(b) > 1, NEW x \in Int, b[1] <= x, x <= b[Len(b)]
  PROVE  LET L == StyleClasses(b)
             d == Drawn(L, x)
         IN  /\ d \in DOMAIN L
             /\ L[d].min_value <= x /\ x <= L[d].max_value
             /\ \A i \in DOMAIN L : b[i] <= x => i <= d
<1> DEFINE L == StyleClasses(b)
           d == Drawn(L, x)
           m == Len(b) - 1
           D == {1} \cup {i \in 2 .. m : x >= L[i].min_value}
<1>1. m \in Nat \ {0} /\ Len(b) = m + 1 /\ \A i \in 1 .. m + 1 : b[i] \in Int
  OBVIOUS
<1>2. L = [i \in 1 .. m |-> [min_value |-> b[i], max_value |-> b[i + 1]]]
  BY DEF StyleClasses
<1> HIDE DEF m, L
<1>3. /\ DOMAIN L = 1 .. m /\ Len(L) = m
      /\ \A i \in 1 .. m : L[i].min_value = b[i] /\ L[i].max_value = b[i + 1]
  BY <1>1, <1>2
<1>4. D \in SUBSET (1 .. m) /\ 1 \in D
  BY <1>1
<1>5. d \in D /\ \A i \in D : i <= d
  <2>1. d = Max(D)
    BY <1>3 DEF Drawn
  <2>2. D \in SUBSET Int /\ D # {} /\ IsFiniteSet(D)
    <3>1. IsFiniteSet(1 .. m) /\ 1 .. m \subseteq Int
      BY <1>1, FS_Interval
    <3> HIDE DEF D
    <3>2. IsFiniteSet(D)
      BY <1>4, <3>1, FS_Subset
    <3> QED BY <1>4, <3>1, <3>2
  <2> HIDE DEF D, d
  <2> QED BY <2>1, <2>2, MaxIs
<1>6. \A i : i \in D <=> i = 1 \/ (i \in 2 .. m /\ b[i] <= x)
  <2> SUFFICES ASSUME NEW i \in 2 .. m PROVE x >= L[i].min_value <=> b[i] <= x
    OBVIOUS
  <2>1. i \in 1 .. m /\ i \in 1 .. m + 1
    BY <1>1
  <2>2. L[i].min_value = b[i] /\ b[i] \in Int
    BY <1>1, <1>3, <2>1
  <2> QED BY <2>2
<1> HIDE DEF D, d
<1>7. d \in 1 .. m /\ d \in 1 .. m + 1 /\ d + 1 \in 1 .. m + 1
  BY <1>1, <1>4, <1>5
<1>8. L[d].min_value = b[d] /\ L[d].max_value = b[d + 1]
  BY <1>3, <1>7
<1>9. b[d] <= x
  BY <1>5, <1>6
<1>10. x <= b[d + 1]
  <2>1. CASE d = m
    BY <1>1, <2>1
  <2>2. CASE d # m
    <3>1. d + 1 \in 2 .. m /\ ~(d + 1 <= d)
      BY <1>1, <1>7, <2>2
    <3>2. ~(b[d + 1] <= x)
      BY <1>5, <1>6, <3>1
    <3>3. b[d + 1] \in Int
      BY <1>1, <1>7
    <3> QED BY <3>2, <3>3
  <2> QED BY <2>1, <2>2
<1>11. ASSUME NEW i \in 1 .. m, b[i] <= x PROVE i <= d
  <2>1. i = 1 \/ i \in 2 .. m
    OBVIOUS
  <2> QED BY <1>5, <1>6, <1>11, <2>1
<1> QED BY <1>3, <1>7, <1>8, <1>9, <1>10, <1>11 DEF L, d

(* Of breaks that ascend, every class holds the value it starts at.        *)
LEMMA StartsAreDrawn ==
  ASSUME NEW b \in Seq(Int), Len(b) > 1, IsAscending(b), NEW i \in 1 .. Len(b) - 1
  PROVE  Drawn(StyleClasses(b), b[i]) = i
<1> DEFINE L == StyleClasses(b)
           x == b[i]
           d == Drawn(L, x)
           size == Len(b)
<1>1. size \in Nat /\ size > 1 /\ (\A j \in 1 .. size : b[j] \in Int) /\ DOMAIN L = 1 .. size - 1
  BY DEF StyleClasses
<1>2. \A j, k \in 1 .. size : j < k => b[j] < b[k]
  BY DEF IsAscending
<1>3. i \in 1 .. size /\ i < size /\ 1 \in 1 .. size /\ size \in 1 .. size
  BY <1>1
<1>4. x \in Int /\ b[1] <= x /\ x <= b[size]
  <2>1. i = 1 \/ 1 < i
    BY <1>3
  <2>2. b[1] \in Int /\ b[size] \in Int /\ b[i] \in Int
    BY <1>1, <1>3
  <2>3. b[i] < b[size]
    BY <1>2, <1>3
  <2>4. b[1] = b[i] \/ b[1] < b[i]
    BY <1>2, <1>3, <2>1
  <2> QED BY <2>2, <2>3, <2>4
<1> HIDE DEF L, d, x
<1>5. /\ d \in DOMAIN L /\ L[d].min_value <= x
      /\ \A j \in DOMAIN L : b[j] <= x => j <= d
  BY <1>1, <1>4, DrawnIs DEF L, d
<1>6. i <= d /\ d \in 1 .. size
  <2>1. i \in DOMAIN L /\ b[i] <= x
    BY <1>1, <1>3, <1>4 DEF x
  <2> QED BY <1>1, <1>5, <2>1
<1>7. ~(i < d)
  <2>1. L[d].min_value = b[d]
    BY <1>1, <1>5 DEF L, StyleClasses
  <2>2. b[d] <= b[i] /\ b[d] \in Int /\ b[i] \in Int
    BY <1>1, <1>3, <1>5, <1>6, <2>1 DEF x
  <2> QED BY <1>2, <1>3, <1>6, <2>2
<1>8. d = i
  BY <1>3, <1>6, <1>7
<1> QED BY <1>8 DEF d, L, x

(* Equal intervals hold every value of the column, times their number.     *)
LEMMA IntervalsHold ==
  ASSUME NEW S \in SUBSET Int, IsFiniteSet(S), NEW n \in Nat \ {0}
  PROVE  LET b == EqualIntervalBreaks(S, n)
         IN  /\ b \in Seq(Int) /\ Len(b) = n + 1
             /\ \A v \in S : b[1] <= n * v /\ n * v <= b[n + 1]
<1> DEFINE min == IF S = {} THEN 0 ELSE Min(S)
           max == IF S = {} THEN 0 ELSE Max(S)
           b == EqualIntervalBreaks(S, n)
<1>1. min \in Int /\ max \in Int /\ \A v \in S : v \in Int /\ min <= v /\ v <= max
  <2>1. CASE S = {}
    BY <2>1
  <2>2. CASE S # {}
    <3>1. Min(S) \in S /\ Max(S) \in S /\ \A v \in S : Min(S) <= v /\ v <= Max(S)
      BY <2>2, MinIs, MaxIs
    <3> QED BY <2>2, <3>1
  <2> QED BY <2>1, <2>2
<1>2. b = [i \in 1 .. n + 1 |-> n * min + (max - min) * (i - 1)]
  BY DEF EqualIntervalBreaks
<1> HIDE DEF min, max, b
<1>3. b \in [1 .. n + 1 -> Int] /\ n + 1 \in Nat
  BY <1>1, <1>2
<1>4. b \in Seq(Int) /\ Len(b) = n + 1
  BY <1>3
<1>5. b[1] = n * min /\ b[n + 1] = n * max
  <2>1. b[1] = n * min + (max - min) * (1 - 1) /\ b[n + 1] = n * min + (max - min) * ((n + 1) - 1)
    BY <1>2
  <2>2. n * min + (max - min) * (1 - 1) = n * min
    BY <1>1
  <2>3. n * min + (max - min) * ((n + 1) - 1) = n * max
    BY <1>1
  <2> QED BY <2>1, <2>2, <2>3
<1>6. ASSUME NEW v \in S PROVE n * min <= n * v /\ n * v <= n * max
  <2>1. /\ v \in Int /\ n * min \in Int /\ n * v \in Int /\ n * max \in Int
        /\ min = v \/ min < v
        /\ v = max \/ v < max
    BY <1>1
  <2>2. min < v => n * min < n * v
    BY <1>1, <2>1, TimesKeepsOrder
  <2>3. v < max => n * v < n * max
    BY <1>1, <2>1, TimesKeepsOrder
  <2>4. n * min <= n * v
    BY <2>1, <2>2
  <2>5. n * v <= n * max
    BY <2>1, <2>3
  <2> QED BY <2>4, <2>5
<1> QED BY <1>4, <1>5, <1>6 DEF b

(* A column without values has one break, and no class.                    *)
LEMMA NoValues ==
  ASSUME NEW column, NEW n \in Nat \ {0}
  PROVE  /\ Points(column, {}) = <<>>
         /\ NaturalBreaks(Points(column, {}), n) = <<0>> /\ QuantileBreaks(column, {}, n) = <<0>>
<1>1. Cardinality({}) = 0
  BY FS_EmptySet
<1>2. Sorted({}) = <<>>
  BY <1>1 DEF Sorted
<1>3. Ascending({}) = <<>>
  <2>1. {} \X {1} = {}
    OBVIOUS
  <2> QED BY <1>2, <2>1 DEF Ascending
<1>4. RowsOf(column, {}) = {}
  BY DEF RowsOf
<1>5. TileEdges(<<>>, n) = <<0>>
  BY DEF TileEdges
<1>6. QuantileBreaks(column, {}, n) = <<0>>
  BY <1>2, <1>3, <1>4, <1>5 DEF QuantileBreaks
<1>7. Points(column, {}) = <<>>
  <2>1. Len(<<>>) = 0
    OBVIOUS
  <2>2. Min({Buckets, 0}) = 0
    <3>1. Buckets \in Int /\ Buckets >= 2
      BY BucketsAssumption
    <3> QED BY <3>1, MinOfTwo
  <2> DEFINE entry(t) == Points(column, {})[t]
  <2>3. Points(column, {}) = [t \in 1 .. 0 |-> entry(t)]
    BY <1>3, <2>1, <2>2 DEF Points
  <2> HIDE DEF entry
  <2> QED BY <2>3
<1>8. NaturalBreaks(Points(column, {}), n) = <<0>>
  BY <1>7 DEF NaturalBreaks
<1> QED BY <1>6, <1>7, <1>8

ClassInv ==
  /\ asked \in Asked
  /\ classified => answer = Classify(asked.method, asked.column, Values, asked.n)

(* What was asked has one answer.                                          *)
LEMMA AnswerIsClassify == ClassSpec => []ClassInv
<1>1. ClassInit => ClassInv
  BY DEF ClassInit, ClassInv
<1>2. ClassInv /\ [ClassifyColumn]_classVars => ClassInv'
  <2> SUFFICES ASSUME ClassInv, [ClassifyColumn]_classVars PROVE ClassInv'
    OBVIOUS
  <2>1. CASE ClassifyColumn
    <3>1. asked' = asked /\ Values' = Values
      BY <2>1 DEF ClassifyColumn, Values
    <3>2. answer' = Classify(asked.method, asked.column, Values, asked.n)
      BY <2>1 DEF ClassifyColumn
    <3> QED BY <3>1, <3>2 DEF ClassInv
  <2>2. CASE UNCHANGED classVars
    <3>1. asked' = asked /\ Values' = Values /\ classified' = classified /\ answer' = answer
      BY <2>2 DEF classVars, Values
    <3> QED BY <3>1 DEF ClassInv
  <2> QED BY <2>1, <2>2
<1> QED BY <1>1, <1>2, PTL DEF ClassSpec

(* What is asked, and the breaks that answer it.                           *)
LEMMA AnswersAre ==
  ASSUME ClassInv
  PROVE  /\ Values \in SUBSET Int /\ IsFiniteSet(Values) /\ asked.n \in Nat \ {0}
         /\ asked.method \in Methods
         /\ classified /\ asked.method = "equal_interval" =>
               answer = EqualIntervalBreaks(Values, asked.n)
         /\ classified /\ asked.method # "equal_interval" /\ Values # {} =>
               GoodBreaks(answer, Values,
                          Min({asked.n, (IF asked.method = "quantile" THEN Cardinality(Values)
                                         ELSE Min({Cardinality(Values), Buckets})) - 1}))
         /\ classified /\ asked.method # "equal_interval" /\ Values = {} => answer = <<0>>
<1> DEFINE S == Values
           column == asked.column
           n == asked.n
<1>1. /\ IsFiniteSet(DOMAIN column) /\ DOMAIN column \subseteq Int
      /\ column \in [DOMAIN column -> Nat]
      /\ asked.method \in Methods /\ n \in Nat \ {0}
  BY AskedAssumption DEF ClassInv
<1>2. IsScale(Points(column, S))
  BY ScaleAssumption DEF ClassInv, IsScale, Values
<1>3. S \subseteq DOMAIN column /\ \A v \in S : column[v] > 0
  BY DEF Values, Included
<1> HIDE DEF S, column, n
<1>4. S \in SUBSET Int /\ IsFiniteSet(S)
  BY <1>1, <1>3, FS_Subset
<1>5. \A v \in S : column[v] \in Nat \ {0}
  <2> SUFFICES ASSUME NEW v \in S PROVE column[v] \in Nat \ {0}
    OBVIOUS
  <2>1. column[v] \in Nat /\ column[v] > 0
    BY <1>1, <1>3
  <2> QED BY <2>1
<1>6. classified => answer = Classify(asked.method, column, S, n)
  BY DEF ClassInv, S, column, n
<1>7. CASE asked.method = "equal_interval"
  <2>1. classified => answer = EqualIntervalBreaks(S, n)
    BY <1>6, <1>7 DEF Classify
  <2> QED BY <1>1, <1>4, <1>7, <2>1 DEF S, n
<1>8. CASE asked.method = "quantile"
  <2>1. classified => answer = QuantileBreaks(column, S, n)
    BY <1>6, <1>8 DEF Classify
  <2>2. S # {} => GoodBreaks(QuantileBreaks(column, S, n), S, Min({n, Cardinality(S) - 1}))
    BY <1>1, <1>4, <1>5, QuantilesAreGood
  <2>3. S = {} => QuantileBreaks(column, S, n) = <<0>>
    BY <1>1, NoValues
  <2> QED BY <1>1, <1>4, <1>8, <2>1, <2>2, <2>3 DEF S, n
<1>9. CASE asked.method = "natural_breaks"
  <2>1. classified => answer = NaturalBreaks(Points(column, S), n)
    BY <1>6, <1>9 DEF Classify
  <2>2. S # {} => GoodBreaks(NaturalBreaks(Points(column, S), n), S,
                             Min({n, Min({Cardinality(S), Buckets}) - 1}))
    BY <1>1, <1>2, <1>4, <1>5, NaturalsAreGood
  <2>3. S = {} => NaturalBreaks(Points(column, S), n) = <<0>>
    BY <1>1, NoValues
  <2> QED BY <1>1, <1>4, <1>9, <2>1, <2>2, <2>3 DEF S, n
<1> QED BY <1>1, <1>7, <1>8, <1>9 DEF Methods

(* A set's values in ascending order, as many as the set has, are all of   *)
(* them.                                                                   *)
LEMMA AllAreThere ==
  ASSUME NEW S \in SUBSET Int, IsFiniteSet(S), NEW b \in Seq(S), IsAscending(b),
         Len(b) = Cardinality(S)
  PROVE  \A v \in S : \E i \in 1 .. Len(b) : b[i] = v
<1>1. Len(b) \in Nat /\ b \in [1 .. Len(b) -> S]
  OBVIOUS
<1>2. \A i, j \in 1 .. Len(b) : b[i] = b[j] => i = j
  <2> SUFFICES ASSUME NEW i \in 1 .. Len(b), NEW j \in 1 .. Len(b), b[i] = b[j], i < j
               PROVE  FALSE
    BY <1>1
  <2>1. b[i] < b[j] /\ b[i] \in Int
    BY <1>1 DEF IsAscending
  <2> QED BY <2>1
<1>3. b \in Injection(1 .. Len(b), S)
  BY <1>1, <1>2 DEF Injection, IsInjective
<1>4. Cardinality(1 .. Len(b)) = Len(b)
  BY <1>1, FirstNumbers
<1>5. b \in Surjection(1 .. Len(b), S)
  BY <1>3, <1>4, FS_Injection
<1> QED BY <1>5 DEF Surjection

(* A legend has as many classes as asked for or, where the column has no   *)
(* more values than that, a class from every value but the largest on, in  *)
(* ascending order from the smallest to the largest value: classify of     *)
(* symbology/classifiers.py, for natural breaks and quantiles.             *)
THEOREM ClassesAreKept == ClassSpec => []NoClassIsLost
<1>1. ClassInv => NoClassIsLost
  <2> SUFFICES ASSUME ClassInv, Classified({"natural_breaks", "quantile"}), Values # {}
               PROVE  LET b == answer
                          distinct == IF asked.method = "quantile" THEN Cardinality(Values)
                                      ELSE Min({Cardinality(Values), Buckets})
                      IN  /\ Len(b) - 1 = IF asked.n < distinct THEN asked.n ELSE distinct - 1
                          /\ b[1] = Min(Values) /\ Last(b) = Max(Values)
                          /\ \A i \in 1 .. Len(b) - 1 : b[i] < b[i + 1]
                          /\ (asked.n >= distinct /\ distinct = Cardinality(Values)) =>
                               \A v \in Values : \E i \in DOMAIN b : b[i] = v
    BY DEF NoClassIsLost
  <2> DEFINE distinct == IF asked.method = "quantile" THEN Cardinality(Values)
                         ELSE Min({Cardinality(Values), Buckets})
             classes == Min({asked.n, distinct - 1})
             b == answer
  <2>1. classified /\ asked.method # "equal_interval"
    BY DEF Classified
  <2>2. GoodBreaks(b, Values, classes)
    BY <2>1, AnswersAre
  <2> HIDE DEF classes
  <2>3. /\ b \in Seq(Values) /\ Len(b) = classes + 1
        /\ b[1] = Min(Values) /\ b[Len(b)] = Max(Values)
        /\ \A i, j \in 1 .. Len(b) : i < j => b[i] < b[j]
    BY <2>2 DEF GoodBreaks, IsAscending
  <2>4. classes \in Int
    <3>1. Len(b) \in Nat
      BY <2>3
    <3>2. asked.n \in Int /\ distinct - 1 \in Int
      <4>1. Cardinality(Values) \in Int /\ Buckets \in Int /\ asked.n \in Int
        BY AnswersAre, FS_CardinalityType, BucketsAssumption
      <4>2. Min({Cardinality(Values), Buckets}) \in Int
        BY <4>1, MinOfTwo
      <4> QED BY <4>1, <4>2
    <3> HIDE DEF distinct
    <3>3. classes \in Int
      BY <3>2, MinOfTwo DEF classes
    <3> QED BY <3>3
  <2>5. Len(b) - 1 = classes
    BY <2>3, <2>4
  <2>6. Last(b) = Max(Values)
    BY <2>3 DEF Last
  <2>7. ASSUME NEW i \in 1 .. Len(b) - 1 PROVE b[i] < b[i + 1]
    <3>1. Len(b) \in Nat
      BY <2>3
    <3>2. i \in 1 .. Len(b) /\ i + 1 \in 1 .. Len(b) /\ i < i + 1
      BY <3>1
    <3> QED BY <2>3, <3>2
  <2>8. classes = IF asked.n < distinct THEN asked.n ELSE distinct - 1
    <3>1. asked.n \in Int /\ distinct \in Int
      <4>1. Cardinality(Values) \in Int /\ Buckets \in Int /\ asked.n \in Int
        BY AnswersAre, FS_CardinalityType, BucketsAssumption
      <4>2. Min({Cardinality(Values), Buckets}) \in Int
        BY <4>1, MinOfTwo
      <4> QED BY <4>1, <4>2
    <3> HIDE DEF distinct
    <3>2. Min({asked.n, distinct - 1}) = IF asked.n <= distinct - 1 THEN asked.n ELSE distinct - 1
      BY <3>1, MinOfTwo
    <3> QED BY <3>1, <3>2 DEF classes
  <2>9. ASSUME asked.n >= distinct, distinct = Cardinality(Values)
        PROVE  \A v \in Values : \E i \in DOMAIN b : b[i] = v
    <3>1. Values \in SUBSET Int /\ IsFiniteSet(Values) /\ Cardinality(Values) \in Nat
      BY AnswersAre, FS_CardinalityType
    <3>2. asked.n \in Int
      BY AnswersAre
    <3> HIDE DEF distinct
    <3>3. Len(b) = Cardinality(Values)
      BY <2>3, <2>8, <2>9, <3>1, <3>2
    <3>4. b \in Seq(Values) /\ IsAscending(b)
      BY <2>3 DEF IsAscending
    <3>5. DOMAIN b = 1 .. Len(b)
      BY <3>4
    <3> HIDE DEF b
    <3> QED BY <3>1, <3>3, <3>4, <3>5, AllAreThere
  <2> QED BY <2>3, <2>5, <2>6, <2>7, <2>8, <2>9
<1> QED BY <1>1, AnswerIsClassify, PTL

(* Every feature is drawn in a class that holds its value, and every class *)
(* of natural breaks and quantiles colors a feature: auto.py and           *)
(* _graduated_paint of generator.py.                                       *)
THEOREM LegendIsDrawn == ClassSpec => []MapShowsTheLegend
<1>1. ClassInv => MapShowsTheLegend
  <2> SUFFICES ASSUME ClassInv, classified, Legend # <<>>
               PROVE  LET scale == IF asked.method = "equal_interval" THEN asked.n ELSE 1
                          drawn == [v \in Values |-> Drawn(Legend, scale * v)]
                      IN  /\ \A v \in Values : /\ Legend[drawn[v]].min_value <= scale * v
                                               /\ scale * v <= Legend[drawn[v]].max_value
                          /\ asked.method # "equal_interval" =>
                               \A i \in DOMAIN Legend : \E v \in Values : drawn[v] = i
    BY DEF MapShowsTheLegend, Classified
  <2> DEFINE equal == asked.method = "equal_interval"
             scale == IF equal THEN asked.n ELSE 1
             drawn == [v \in Values |-> Drawn(Legend, scale * v)]
             b == answer
  <2>1. Legend = StyleClasses(b)
    BY DEF Legend
  <2>2. Values \in SUBSET Int /\ IsFiniteSet(Values) /\ asked.n \in Nat \ {0}
    BY AnswersAre
  <2>3. scale \in Int /\ (~equal => \A v \in Values : scale * v = v)
    BY <2>2
  <2>4. ASSUME b \in Seq(Int), Len(b) > 1,
               \A v \in Values : b[1] <= scale * v /\ scale * v <= b[Len(b)]
        PROVE  \A v \in Values : /\ Legend[drawn[v]].min_value <= scale * v
                                 /\ scale * v <= Legend[drawn[v]].max_value
    <3> SUFFICES ASSUME NEW v \in Values
                 PROVE  /\ Legend[drawn[v]].min_value <= scale * v
                        /\ scale * v <= Legend[drawn[v]].max_value
      OBVIOUS
    <3> DEFINE x == scale * v
    <3>1. x \in Int /\ b[1] <= x /\ x <= b[Len(b)]
      BY <2>2, <2>3, <2>4
    <3>2. drawn[v] = Drawn(StyleClasses(b), x)
      BY <2>1
    <3> HIDE DEF x, scale, drawn
    <3>3. LET L == StyleClasses(b)
              d == Drawn(L, x)
          IN  L[d].min_value <= x /\ x <= L[d].max_value
      BY <2>4, <3>1, DrawnIs
    <3> QED BY <2>1, <3>2, <3>3 DEF x
  <2>5. CASE equal
    <3>1. b = EqualIntervalBreaks(Values, asked.n)
      BY <2>5, AnswersAre
    <3>2. /\ b \in Seq(Int) /\ Len(b) = asked.n + 1
          /\ \A v \in Values : b[1] <= asked.n * v /\ asked.n * v <= b[asked.n + 1]
      BY <2>2, <3>1, IntervalsHold
    <3>3. Len(b) > 1 /\ scale = asked.n
      BY <2>2, <2>5, <3>2
    <3> QED BY <2>4, <2>5, <3>2, <3>3
  <2>6. CASE ~equal /\ Values = {}
    <3>1. b = <<0>>
      BY <2>6, AnswersAre
    <3>2. Legend = <<>>
      <4>1. Len(<<0>>) - 1 = 0
        OBVIOUS
      <4> DEFINE entry(i) == [min_value |-> <<0>>[i], max_value |-> <<0>>[i + 1]]
      <4>2. Legend = [i \in 1 .. 0 |-> entry(i)]
        BY <2>1, <3>1, <4>1 DEF StyleClasses
      <4> HIDE DEF entry
      <4> QED BY <4>2
    <3> QED BY <3>2
  <2>7. CASE ~equal /\ Values # {}
    <3> DEFINE distinct == IF asked.method = "quantile" THEN Cardinality(Values)
                           ELSE Min({Cardinality(Values), Buckets})
               classes == Min({asked.n, distinct - 1})
    <3>1. GoodBreaks(b, Values, classes)
      BY <2>7, AnswersAre
    <3> HIDE DEF classes
    <3>2. b \in Seq(Values) /\ IsAscending(b) /\ b[1] = Min(Values) /\ b[Len(b)] = Max(Values)
      BY <3>1 DEF GoodBreaks
    <3>3. b \in Seq(Int) /\ Len(b) \in Nat /\ \A i \in 1 .. Len(b) : b[i] \in Values
      <4>1. Len(b) \in Nat /\ \A i \in 1 .. Len(b) : b[i] \in Values
        BY <3>2
      <4> QED BY <2>2, <3>2, <4>1, SeqInto
    <3>4. Len(b) > 1
      <4> SUFFICES ASSUME ~(Len(b) > 1) PROVE FALSE
        OBVIOUS
      <4>1. 1 .. Len(b) - 1 = 1 .. 0
        BY <3>3
      <4> DEFINE entry(i) == [min_value |-> b[i], max_value |-> b[i + 1]]
      <4>2. Legend = [i \in 1 .. 0 |-> entry(i)]
        BY <2>1, <4>1 DEF StyleClasses
      <4> HIDE DEF entry
      <4>3. Legend = <<>>
        BY <4>2
      <4> QED BY <4>3
    <3>5. \A v \in Values : scale * v = v /\ b[1] <= v /\ v <= b[Len(b)]
      BY <2>2, <2>3, <2>7, <3>2, MinIs, MaxIs
    <3>6. \A v \in Values : /\ Legend[drawn[v]].min_value <= scale * v
                            /\ scale * v <= Legend[drawn[v]].max_value
      <4> HIDE DEF scale, drawn
      <4> QED BY <2>4, <3>3, <3>4, <3>5
    <3>7. ASSUME NEW i \in DOMAIN Legend PROVE \E v \in Values : drawn[v] = i
      <4>1. i \in 1 .. Len(b) - 1 /\ i \in 1 .. Len(b)
        BY <2>1, <3>3 DEF StyleClasses
      <4>2. b[i] \in Values /\ Drawn(StyleClasses(b), b[i]) = i
        BY <3>2, <3>3, <3>4, <4>1, StartsAreDrawn
      <4>3. drawn[b[i]] = i
        BY <2>1, <3>5, <4>2
      <4> QED BY <4>2, <4>3
    <3> QED BY <3>6, <3>7
  <2> QED BY <2>5, <2>6, <2>7
<1> QED BY <1>1, AnswerIsClassify, PTL

-----------------------------------------------------------------------------
(* Partitions into classes of consecutive points.                          *)

(* What the class after point i, up to point j, costs.                     *)
Between(points, i, j) == ClassCost(points, i + 1, j)

(* A product of unlike sizes.                                              *)
LEMMA ProductKeepsOrder ==
  ASSUME NEW a \in Nat, NEW x \in Int, NEW y \in Int, x <= y
  PROVE  a * x <= a * y
<1>1. a * y - a * x = a * (y - x)
  OBVIOUS
<1>2. a * (y - x) >= 0
  BY SMT
<1>3. a * x \in Int /\ a * y \in Int
  OBVIOUS
<1> QED BY <1>1, <1>2, <1>3

(* The total of a class is at most what its last value makes of it.        *)
LEMMA SumsBelow ==
  ASSUME NEW points, IsPoints(points)
  PROVE  LET sums == PrefixSums(points)
         IN  \A i, j \in 0 .. Len(points) : i < j =>
                sums[j].total - sums[i].total
                  <= (sums[j].weight - sums[i].weight) * points[j].value
<1> DEFINE count == Len(points)
           sums == PrefixSums(points)
           w(i) == sums[i].weight
           t(i) == sums[i].total
           v(i) == points[i].value
           a(i) == points[i].weight
           G(i, j) == t(j) - t(i) <= (w(j) - w(i)) * v(j)
<1>1. count \in Nat /\ \A i \in 1 .. count : v(i) \in Int /\ a(i) \in Nat \ {0}
  <2>1. count \in Nat /\ \A i \in 1 .. count : points[i] \in Point
    BY DEF IsPoints
  <2> QED BY <2>1 DEF Point
<1>2. \A i, j \in 1 .. count : i < j => v(i) < v(j)
  BY DEF IsPoints
<1>3. /\ sums \in [0 .. count -> Sum]
      /\ \A i \in 1 .. count : sums[i] = Plus(sums[i - 1], points[i])
      /\ \A i, j \in 0 .. count : i < j => w(i) < w(j)
  BY SumsRun, SumsGrow
<1>4. \A i \in 0 .. count : w(i) \in Nat /\ t(i) \in Int
  BY <1>3 DEF Sum
<1>5. \A i \in 1 .. count : w(i) = w(i - 1) + a(i) /\ t(i) = t(i - 1) + a(i) * v(i)
  <2> SUFFICES ASSUME NEW i \in 1 .. count
               PROVE  w(i) = w(i - 1) + a(i) /\ t(i) = t(i - 1) + a(i) * v(i)
    OBVIOUS
  <2>1. sums[i] = Plus(sums[i - 1], points[i])
    BY <1>3
  <2> QED BY <2>1 DEF Plus
<1> SUFFICES ASSUME NEW i \in 0 .. count
             PROVE  \A j \in 0 .. count : i < j => G(i, j)
  OBVIOUS
<1> DEFINE T == {j \in 0 .. count : i < j => G(i, j)}
<1> HIDE DEF count, sums, w, t, v, a
<1>6. ASSUME NEW j \in 0 .. count - 1, j \in T PROVE j + 1 \in T
  <2> SUFFICES ASSUME i < j + 1 PROVE G(i, j + 1)
    BY <1>1
  <2>1. j + 1 \in 1 .. count /\ (j + 1) - 1 = j /\ j \in 0 .. count /\ (j = i \/ i < j)
    BY <1>1
  <2>2. w(j + 1) = w(j) + a(j + 1) /\ t(j + 1) = t(j) + a(j + 1) * v(j + 1)
    BY <1>5, <2>1
  <2>3. /\ w(i) \in Nat /\ w(j) \in Nat /\ t(i) \in Int /\ t(j) \in Int
        /\ a(j + 1) \in Nat \ {0} /\ v(j + 1) \in Int
    BY <1>1, <1>4, <2>1
  <2> DEFINE d == w(j) - w(i)
             x == v(j + 1)
             z == a(j + 1) * x
  <2>4. t(j) - t(i) <= d * x /\ d * x \in Int /\ d \in Int
    <3>1. CASE j = i
      BY <2>3, <3>1
    <3>2. CASE i < j
      <4>1. j \in 1 .. count /\ v(j) \in Int /\ v(j) <= x /\ x \in Int
        BY <1>1, <1>2, <2>1, <3>2
      <4>2. d \in Nat
        BY <1>3, <2>1, <2>3, <3>2
      <4>3. d * v(j) <= d * x
        <5> HIDE DEF d, x
        <5> QED BY <4>1, <4>2, ProductKeepsOrder
      <4>4. t(j) - t(i) <= d * v(j)
        BY <1>6, <3>2
      <4>5. d * v(j) \in Int /\ d * x \in Int
        BY <4>1, <4>2
      <4> QED BY <2>3, <4>2, <4>3, <4>4, <4>5
    <3> QED BY <2>1, <3>1, <3>2
  <2>5. (w(j + 1) - w(i)) * x = d * x + z
    BY <2>2, <2>3
  <2>6. z \in Int /\ t(j + 1) = t(j) + z
    BY <2>2, <2>3
  <2> HIDE DEF z, d
  <2> QED BY <2>3, <2>4, <2>5, <2>6
<1>7. T = 0 .. count
  <2>1. T \in SUBSET (0 .. count) /\ 0 \in T
    BY <1>1
  <2> HIDE DEF T
  <2> QED BY <1>1, <1>6, <2>1, UpTo
<1> QED BY <1>7

(* Two classes made one cost what they cost, and what their means differ:  *)
(* with w, t and q the weights, totals and squares.                        *)
LEMMA JoinedCost ==
  ASSUME NEW scale \in Nat \ {0}, NEW w \in Nat \ {0}, NEW u \in Nat \ {0},
         NEW t \in Int, NEW s \in Int, NEW q \in Int, NEW r \in Int,
         NEW f \in Nat, NEW g \in Nat, NEW h \in Nat,
         f * w = scale, g * u = scale, h * (w + u) = scale
  PROVE  ((scale * (q + r) - h * (t + s) * (t + s))
            - (scale * q - f * t * t) - (scale * r - g * s * s)) * (w * u * (w + u))
         = scale * ((w * s - u * t) * (w * s - u * t))
<1> DEFINE more == (scale * (q + r) - h * (t + s) * (t + s))
                     - (scale * q - f * t * t) - (scale * r - g * s * s)
           a == t * t
           b == s * s
           c == (t + s) * (t + s)
<1>1. more = f * a + g * b - h * c
  OBVIOUS
<1>2. a \in Int /\ b \in Int /\ c \in Int
  OBVIOUS
<1>3. more * (w * u * (w + u))
        = (f * w) * (a * u * (w + u)) + (g * u) * (b * w * (w + u)) - (h * (w + u)) * (c * w * u)
  <2> HIDE DEF more, a, b, c
  <2> QED BY <1>1, <1>2
<1>4. more * (w * u * (w + u))
        = scale * (a * u * (w + u)) + scale * (b * w * (w + u)) - scale * (c * w * u)
  <2> HIDE DEF more, a, b, c
  <2> QED BY <1>3
<1>5. a * u * (w + u) + b * w * (w + u) - c * w * u = (w * s - u * t) * (w * s - u * t)
  OBVIOUS
<1> DEFINE x == a * u * (w + u)
           y == b * w * (w + u)
           z == c * w * u
<1>6. x \in Int /\ y \in Int /\ z \in Int
  BY <1>2
<1> HIDE DEF more, x, y, z
<1>7. more * (w * u * (w + u)) = scale * (x + y - z)
  BY <1>4, <1>6 DEF x, y, z
<1> QED BY <1>5, <1>7 DEF more, x, y, z

(* The further apart, and the heavier, the more joining costs.             *)
LEMMA FurtherCostsMore ==
  ASSUME NEW scale \in Nat \ {0}, NEW a \in Nat \ {0}, NEW b \in Nat \ {0}, NEW d \in Nat \ {0},
         d <= b, NEW x \in Nat, NEW y \in Nat, y * b <= x * d,
         NEW more \in Int, NEW less \in Int,
         more * (b * a * (b + a)) = scale * (x * x),
         less * (d * a * (d + a)) = scale * (y * y)
  PROVE  less <= more
<1> DEFINE k == b * (b + a)
           l == d * (d + a)
           p == x * x
           q == y * y
<1>1. k \in Nat \ {0} /\ l \in Nat \ {0} /\ p \in Nat /\ q \in Nat
  <2>1. k \in Nat /\ l \in Nat /\ p \in Nat /\ q \in Nat
    OBVIOUS
  <2>2. k # 0 /\ l # 0
    BY SMT
  <2> QED BY <2>1, <2>2
<1>2. (q * b) * b <= (p * d) * d
  <2> DEFINE m == y * b
             n == x * d
  <2>1. m \in Nat /\ n \in Nat /\ m <= n
    OBVIOUS
  <2>2. m * m = (q * b) * b /\ n * n = (p * d) * d
    OBVIOUS
  <2> HIDE DEF m, n, p, q
  <2>3. m * m <= m * n /\ m * n = n * m
    BY <2>1, ProductKeepsOrder
  <2>4. n * m <= n * n
    BY <2>1, ProductKeepsOrder
  <2>5. m * m \in Int /\ m * n \in Int /\ n * n \in Int
    BY <2>1
  <2> DEFINE mm == m * m
             mn == m * n
             nn == n * n
  <2>6. mm <= mn /\ mn <= nn /\ mm \in Int /\ mn \in Int /\ nn \in Int
    BY <2>3, <2>4, <2>5
  <2>7. mm <= nn
    <3> HIDE DEF mm, mn, nn
    <3> QED BY <2>6
  <2> QED BY <2>2, <2>7
<1>3. q * b <= p * d
  <2> SUFFICES ASSUME p * d < q * b PROVE FALSE
    <3>1. p * d \in Int /\ q * b \in Int
      BY <1>1
    <3> QED BY <3>1
  <2> DEFINE u == p * d
             v == q * b
  <2>1. u \in Nat /\ v \in Nat /\ u < v
    BY <1>1
  <2>2. v * b <= u * d
    BY <1>2
  <2> HIDE DEF u, v
  <2>3. d * u < d * v /\ v * d <= v * b /\ d * u = u * d /\ d * v = v * d
    BY <2>1, TimesKeepsOrder, ProductKeepsOrder
  <2>4. u * d \in Int /\ v * d \in Int /\ v * b \in Int
    BY <2>1
  <2> DEFINE ud == u * d
             vd == v * d
             vb == v * b
  <2>5. ud < vd /\ vd <= vb /\ vb <= ud /\ ud \in Int /\ vd \in Int /\ vb \in Int
    BY <2>2, <2>3, <2>4
  <2> HIDE DEF ud, vd, vb
  <2> QED BY <2>5
<1>4. q * k <= p * l
  <2>1. q * k = b * (q * b) + a * (q * b) /\ p * l = d * (p * d) + a * (p * d)
    BY <1>1
  <2>2. b * (q * b) = (q * b) * b /\ d * (p * d) = (p * d) * d
    BY <1>1
  <2> DEFINE u == p * d
             v == q * b
  <2>3. u \in Int /\ v \in Int /\ v <= u
    BY <1>1, <1>3
  <2>4. a * v <= a * u
    <3> HIDE DEF u, v
    <3> QED BY <2>3, ProductKeepsOrder
  <2>5. b * v <= d * u
    BY <1>2, <2>2
  <2>6. q * k = b * v + a * v /\ p * l = d * u + a * u
    BY <2>1
  <2>7. a * v \in Int /\ a * u \in Int /\ b * v \in Int /\ d * u \in Int
    BY <2>3
  <2> DEFINE av == a * v
             au == a * u
             bv == b * v
             du == d * u
  <2>8. av <= au /\ bv <= du /\ av \in Int /\ au \in Int /\ bv \in Int /\ du \in Int
    BY <2>4, <2>5, <2>7
  <2>9. bv + av <= du + au
    <3> HIDE DEF av, au, bv, du
    <3> QED BY <2>8
  <2> QED BY <2>6, <2>9
<1>5. more * (k * a) = scale * p /\ less * (l * a) = scale * q
  <2>1. b * a * (b + a) = k * a /\ d * a * (d + a) = l * a
    OBVIOUS
  <2> QED BY <2>1
<1> HIDE DEF k, l, p, q
<1> DEFINE z == k * a * l
<1>6. z \in Nat \ {0}
  <2>1. k * a * l # 0
    BY <1>1, SMT
  <2> QED BY <1>1, <2>1
<1>7. z * less = (less * (l * a)) * k /\ z * more = (more * (k * a)) * l
  BY <1>1
<1>8. z * less = scale * (q * k) /\ z * more = scale * (p * l)
  <2>1. (scale * q) * k = scale * (q * k) /\ (scale * p) * l = scale * (p * l)
    BY <1>1
  <2> QED BY <1>5, <1>7, <2>1
<1>9. scale * (q * k) <= scale * (p * l)
  <2> DEFINE u == q * k
             v == p * l
  <2>1. u \in Int /\ v \in Int /\ u <= v
    BY <1>1, <1>4
  <2> HIDE DEF u, v
  <2>2. scale * u <= scale * v
    BY <2>1, ProductKeepsOrder
  <2> QED BY <2>2 DEF u, v
<1>10. z * less <= z * more
  BY <1>8, <1>9
<1> SUFFICES ASSUME more < less PROVE FALSE
  OBVIOUS
<1> HIDE DEF z
<1>11. z * more < z * less
  BY <1>6, TimesKeepsOrder
<1>12. z * more \in Int /\ z * less \in Int
  BY <1>6
<1> QED BY <1>10, <1>11, <1>12

(* Classes that cross cost no more than one that holds the other.          *)
LEMMA Quadrangle ==
  ASSUME NEW points, IsPoints(points), IsScale(points)
  PROVE  \A i, k, j, m \in 0 .. Len(points) : (i <= k /\ k < j /\ j <= m) =>
            Between(points, i, j) + Between(points, k, m)
              <= Between(points, i, m) + Between(points, k, j)
<1> DEFINE count == Len(points)
           sums == PrefixSums(points)
           w(i) == sums[i].weight
           t(i) == sums[i].total
           q(i) == sums[i].squares
           v(i) == points[i].value
           cost(i, j) == Between(points, i, j)
           f(i, j) == Scale \div (w(j) - w(i))
<1>1. count \in Nat /\ \A i \in 1 .. count : v(i) \in Int
  <2>1. count \in Nat /\ \A i \in 1 .. count : points[i] \in Point
    BY DEF IsPoints
  <2> QED BY <2>1 DEF Point
<1>2. sums \in [0 .. count -> Sum]
  BY SumsRun
<1>3. \A i \in 0 .. count : w(i) \in Nat /\ t(i) \in Int /\ q(i) \in Int
  BY <1>2 DEF Sum
<1>4. \A i, j \in 0 .. count : i < j =>
         /\ w(i) < w(j) /\ (i # 0 => (w(j) - w(i)) * v(i) < t(j) - t(i))
         /\ t(j) - t(i) <= (w(j) - w(i)) * v(j)
  <2>1. \A i, j \in 0 .. count : i < j =>
           w(i) < w(j) /\ (i # 0 => (w(j) - w(i)) * v(i) < t(j) - t(i))
    BY SumsGrow
  <2>2. \A i, j \in 0 .. count : i < j => t(j) - t(i) <= (w(j) - w(i)) * v(j)
    BY SumsBelow
  <2> QED BY <2>1, <2>2
<1>5. \A i, j \in 0 .. count :
         cost(i, j) = Scale * (q(j) - q(i)) - f(i, j) * (t(j) - t(i)) * (t(j) - t(i))
  <2>1. \A i \in 0 .. count : (i + 1) - 1 = i
    OBVIOUS
  <2> QED BY <2>1 DEF Between, ClassCost
<1>6. Scale \in Nat \ {0} /\ \A x \in 1 .. w(count) : Scale % x = 0
  BY DEF IsScale
<1> HIDE DEF count, sums, w, t, q, v, cost
<1>7. ASSUME NEW i \in 0 .. count, NEW j \in 0 .. count, i < j
      PROVE  /\ w(j) - w(i) \in Nat \ {0} /\ f(i, j) \in Nat
             /\ f(i, j) * (w(j) - w(i)) = Scale /\ cost(i, j) \in Int
  <2> DEFINE x == w(j) - w(i)
  <2>1. count \in 0 .. count /\ (j = count \/ j < count)
    BY <1>1
  <2>2. w(i) \in Nat /\ w(j) \in Nat /\ w(count) \in Nat /\ w(i) < w(j) /\ w(j) <= w(count)
    BY <1>3, <1>4, <1>7, <2>1
  <2>3. x \in 1 .. w(count)
    BY <2>2
  <2> HIDE DEF x
  <2>4. Scale % x = 0 /\ x \in Nat \ {0}
    BY <1>6, <2>2, <2>3
  <2>5. Scale \div x \in Nat /\ (Scale \div x) * x = Scale
    BY <1>6, <2>4
  <2> DEFINE d == t(j) - t(i)
             e == q(j) - q(i)
             g == f(i, j)
  <2>6. g \in Nat /\ g * x = Scale /\ d \in Int /\ e \in Int
    BY <1>3, <2>5 DEF x
  <2>7. cost(i, j) = Scale * e - g * d * d
    BY <1>5
  <2> HIDE DEF d, e, g
  <2>8. cost(i, j) \in Int
    BY <1>6, <2>6, <2>7
  <2> QED BY <2>4, <2>6, <2>8 DEF x, g
<1> HIDE DEF f
<1>8. ASSUME NEW i \in 0 .. count, NEW j \in 0 .. count, NEW m \in 0 .. count, i < j, j < m
      PROVE  LET b == w(j) - w(i)
                 a == w(m) - w(j)
                 x == b * (t(m) - t(j)) - a * (t(j) - t(i))
             IN  (cost(i, m) - cost(i, j) - cost(j, m)) * (b * a * (b + a)) = Scale * (x * x)
  <2> DEFINE b == w(j) - w(i)
             a == w(m) - w(j)
             s == t(j) - t(i)
             u == t(m) - t(j)
             e == q(j) - q(i)
             h == q(m) - q(j)
             A == f(i, j)
             B == f(j, m)
             C == f(i, m)
  <2>1. i < m
    BY <1>8
  <2>2. /\ b \in Nat \ {0} /\ a \in Nat \ {0} /\ A \in Nat /\ B \in Nat /\ C \in Nat
        /\ A * b = Scale /\ B * a = Scale /\ C * (w(m) - w(i)) = Scale
    BY <1>7, <1>8, <2>1
  <2>3. s \in Int /\ u \in Int /\ e \in Int /\ h \in Int
    BY <1>3
  <2>4. w(m) - w(i) = b + a /\ t(m) - t(i) = s + u /\ q(m) - q(i) = e + h
    BY <1>3
  <2>5. /\ cost(i, j) = Scale * e - A * s * s
        /\ cost(j, m) = Scale * h - B * u * u
        /\ cost(i, m) = Scale * (e + h) - C * (s + u) * (s + u)
    BY <1>5, <2>4
  <2>6. C * (b + a) = Scale
    BY <2>2, <2>4
  <2> HIDE DEF b, a, s, u, e, h, A, B, C
  <2>7. ((Scale * (e + h) - C * (s + u) * (s + u))
            - (Scale * e - A * s * s) - (Scale * h - B * u * u)) * (b * a * (b + a))
         = Scale * ((b * u - a * s) * (b * u - a * s))
    BY <1>6, <2>2, <2>3, <2>6, JoinedCost
  <2> QED BY <2>5, <2>7 DEF b, a, s, u
<1>9. ASSUME NEW i \in 0 .. count, NEW k \in 0 .. count, NEW j \in 0 .. count, NEW m \in 0 .. count,
             i < k, k < j, j < m
      PROVE  cost(i, j) + cost(k, m) <= cost(i, m) + cost(k, j)
  <2> DEFINE b == w(j) - w(i)
             d == w(j) - w(k)
             a == w(m) - w(j)
             c == w(k) - w(i)
             u == t(m) - t(j)
             s == t(j) - t(i)
             r == t(j) - t(k)
             p == t(k) - t(i)
             x == b * u - a * s
             y == d * u - a * r
             z == v(j)
             o == v(k)
  <2>1. i < j /\ k # 0 /\ j # 0 /\ k < m /\ i < m /\ k \in 1 .. count /\ j \in 1 .. count
    BY <1>1, <1>9
  <2>2. /\ b \in Nat \ {0} /\ d \in Nat \ {0} /\ a \in Nat \ {0} /\ c \in Nat \ {0}
        /\ b = c + d
    <3>1. /\ b \in Nat \ {0} /\ d \in Nat \ {0} /\ a \in Nat \ {0} /\ c \in Nat \ {0}
      BY <1>7, <1>9, <2>1
    <3> QED BY <1>3, <3>1
  <2>3. /\ u \in Int /\ s \in Int /\ r \in Int /\ p \in Int /\ s = p + r
        /\ z \in Int /\ o \in Int
    BY <1>1, <1>3, <2>1
  <2>4. a * z < u /\ r <= d * z /\ s <= b * z
    BY <1>4, <1>9, <2>1
  <2>5. d * o < r /\ p <= c * o
    BY <1>4, <1>9, <2>1
  <2>6. (cost(i, m) - cost(i, j) - cost(j, m)) * (b * a * (b + a)) = Scale * (x * x)
    BY <1>8, <1>9, <2>1
  <2>7. (cost(k, m) - cost(k, j) - cost(j, m)) * (d * a * (d + a)) = Scale * (y * y)
    BY <1>8, <1>9, <2>1
  <2>8. /\ cost(i, m) \in Int /\ cost(i, j) \in Int /\ cost(j, m) \in Int
        /\ cost(k, m) \in Int /\ cost(k, j) \in Int
    BY <1>7, <1>9, <2>1
  <2> DEFINE more == cost(i, m) - cost(i, j) - cost(j, m)
             less == cost(k, m) - cost(k, j) - cost(j, m)
  <2>9. more \in Int /\ less \in Int
    BY <2>8
  <2> HIDE DEF b, d, a, c, u, s, r, p, z, o
  <2>10. ASSUME NEW e \in Nat \ {0}, NEW g \in Int, g <= e * z PROVE e * u - a * g \in Nat
    <3>1. a * g <= a * (e * z)
      <4>1. e * z \in Int
        BY <2>3, <2>10
      <4> QED BY <2>2, <2>10, <4>1, ProductKeepsOrder
    <3>2. e * (a * z) < e * u
      <4>1. a * z \in Int
        BY <2>2, <2>3
      <4> QED BY <2>3, <2>4, <2>10, <4>1, TimesKeepsOrder
    <3>3. e * (a * z) = a * (e * z)
      BY <2>2, <2>3, <2>10
    <3> DEFINE ag == a * g
               eu == e * u
               ae == a * (e * z)
    <3>4. ag \in Int /\ eu \in Int /\ ae \in Int /\ ag <= ae /\ ae < eu
      BY <2>2, <2>3, <2>10, <3>1, <3>2, <3>3
    <3> HIDE DEF ag, eu, ae
    <3>5. eu - ag \in Nat
      BY <3>4
    <3> QED BY <3>5 DEF eu, ag
  <2>11. x \in Nat /\ y \in Nat
    <3>1. b * u - a * s \in Nat
      BY <2>2, <2>3, <2>4, <2>10
    <3>2. d * u - a * r \in Nat
      BY <2>2, <2>3, <2>4, <2>10
    <3> QED BY <3>1, <3>2
  <2>12. d * p <= c * r
    <3>1. d * p <= d * (c * o)
      <4>1. c * o \in Int
        BY <2>2, <2>3
      <4> QED BY <2>2, <2>3, <2>5, <4>1, ProductKeepsOrder
    <3>2. c * (d * o) < c * r
      <4>1. d * o \in Int
        BY <2>2, <2>3
      <4> QED BY <2>2, <2>3, <2>5, <4>1, TimesKeepsOrder
    <3>3. d * (c * o) = c * (d * o)
      BY <2>2, <2>3
    <3> DEFINE dp == d * p
               cr == c * r
               dc == d * (c * o)
    <3>4. dp \in Int /\ cr \in Int /\ dc \in Int /\ dp <= dc /\ dc < cr
      BY <2>2, <2>3, <3>1, <3>2, <3>3
    <3> HIDE DEF dp, cr, dc
    <3>5. dp <= cr
      BY <3>4
    <3> QED BY <3>5 DEF dp, cr
  <2>13. y * b <= x * d
    <3>1. x * d - y * b = a * (b * r - d * s)
      BY <2>2, <2>3
    <3>2. b * r - d * s = c * r - d * p
      BY <2>2, <2>3
    <3> DEFINE cr == c * r
               dp == d * p
               e == cr - dp
    <3>3. cr \in Int /\ dp \in Int /\ dp <= cr /\ e \in Nat
      <4>1. cr \in Int /\ dp \in Int /\ dp <= cr
        BY <2>2, <2>3, <2>12
      <4> HIDE DEF cr, dp
      <4> QED BY <4>1
    <3>4. x * d - y * b = a * e
      BY <3>1, <3>2
    <3>5. x * d \in Int /\ y * b \in Int
      BY <2>2, <2>11
    <3> HIDE DEF e
    <3>6. a * e \in Nat
      BY <2>2, <3>3
    <3> DEFINE xd == x * d
               yb == y * b
               ae == a * e
    <3>7. xd \in Int /\ yb \in Int /\ ae \in Nat /\ xd - yb = ae
      BY <3>4, <3>5, <3>6
    <3> HIDE DEF xd, yb, ae
    <3>8. yb <= xd
      BY <3>7
    <3> QED BY <3>8 DEF xd, yb
  <2>14. d <= b
    BY <2>2
  <2>15. less <= more
    <3>1. /\ more * (b * a * (b + a)) = Scale * (x * x)
          /\ less * (d * a * (d + a)) = Scale * (y * y)
      BY <2>6, <2>7
    <3> HIDE DEF more, less, x, y
    <3> QED BY <1>6, <2>2, <2>9, <2>11, <2>13, <2>14, <3>1, FurtherCostsMore
  <2> QED BY <2>8, <2>15
<1> SUFFICES ASSUME NEW i \in 0 .. count, NEW k \in 0 .. count, NEW j \in 0 .. count,
                    NEW m \in 0 .. count, i <= k, k < j, j <= m
             PROVE  cost(i, j) + cost(k, m) <= cost(i, m) + cost(k, j)
  BY DEF count, cost
<1>10. cost(i, j) \in Int /\ cost(k, m) \in Int /\ cost(i, m) \in Int /\ cost(k, j) \in Int
  <2>1. i < j /\ k < m /\ i < m
    BY <1>1
  <2> QED BY <1>7, <2>1
<1>11. CASE i = k \/ j = m
  BY <1>10, <1>11
<1>12. CASE i # k /\ j # m
  <2>1. i < k /\ j < m
    BY <1>1, <1>12
  <2> QED BY <1>9, <2>1
<1> QED BY <1>11, <1>12

-----------------------------------------------------------------------------
(* A row of the table finds the best last class, though it looks only      *)
(* where the row before leaves it to look.                                 *)

(* Where the last class up to a point starts after.  The code's row says 1 *)
(* of the first point, whose class can only start after 0.                 *)
SplitOf(row, end) == IF end = 1 THEN 0 ELSE row[end].lower

(* A row got from costs x of one class less: each split is right, none to  *)
(* its left is better, and one class more gains the more the further right.*)
Follows(points, row, x) ==
  /\ x \in [0 .. Len(points) -> Nat] /\ x[0] = 0
  /\ \A end \in 1 .. Len(points) :
        /\ SplitOf(row, end) \in 0 .. end - 1
        /\ row[end].cost = x[SplitOf(row, end)] + Between(points, SplitOf(row, end), end)
        /\ \A s \in 0 .. SplitOf(row, end) :
              x[s] + row[SplitOf(row, end)].cost <= x[SplitOf(row, end)] + row[s].cost
  /\ \A end \in 1 .. Len(points) : \A s \in 0 .. SplitOf(row, end) :
        \A last \in s + 1 .. Len(points) : row[last].cost <= x[s] + Between(points, s, last)

(* What a row that follows has, and what its costs are.                    *)
LEMMA FollowsSays ==
  ASSUME NEW points, IsPoints(points), IsScale(points), NEW row, IsRow(row, Len(points)),
         NEW x, Follows(points, row, x)
  PROVE  /\ \A i \in 0 .. Len(points) : row[i].cost \in Nat /\ x[i] \in Nat
         /\ row[0].cost = 0 /\ row[1].cost = 0 /\ x[0] = 0
         /\ \A i, j \in 0 .. Len(points) : i < j => Between(points, i, j) \in Nat
<1> DEFINE count == Len(points)
<1>1. count \in Nat
  BY DEF IsPoints
<1>2. row \in [0 .. count -> Row] /\ row[0] = [lower |-> 0, cost |-> 0]
      /\ row[1] = [lower |-> 1, cost |-> 0]
  BY DEF IsRow
<1>3. \A i \in 0 .. count : row[i].cost \in Nat
  BY <1>2 DEF Row
<1>4. x \in [0 .. count -> Nat] /\ x[0] = 0
  BY DEF Follows
<1>5. row[0].cost = 0 /\ row[1].cost = 0
  BY <1>2
<1>6. \A i, j \in 0 .. count : i < j => Between(points, i, j) \in Nat
  <2> SUFFICES ASSUME NEW i \in 0 .. count, NEW j \in 0 .. count, i < j
               PROVE  Between(points, i, j) \in Nat
    OBVIOUS
  <2>1. j \in 1 .. Len(points) /\ i + 1 \in 1 .. j
    BY <1>1
  <2>2. ClassCost(points, i + 1, j) \in Nat
    BY <2>1, ClassesCost
  <2> QED BY <2>2 DEF Between
<1> QED BY <1>3, <1>4, <1>5, <1>6

(* The first row makes one class of the points up to each.                 *)
LEMMA FirstRowCosts ==
  ASSUME NEW points, IsPoints(points), IsScale(points), Len(points) > 0
  PROVE  /\ FirstRow(points)[0].cost = 0
         /\ \A end \in 1 .. Len(points) :
               /\ SplitOf(FirstRow(points), end) = 0
               /\ FirstRow(points)[end].cost = Between(points, 0, end)
               /\ Between(points, 0, end) \in Nat
<1> DEFINE count == Len(points)
           row == FirstRow(points)
<1>1. count \in Nat \ {0}
  BY DEF IsPoints
<1>2. row = [end \in 0 .. count |->
               CASE end = 0 -> [lower |-> 0, cost |-> 0]
                 [] end = 1 -> [lower |-> 1, cost |-> 0]
                 [] OTHER   -> [lower |-> 0, cost |-> ClassCost(points, 1, end)]]
  BY DEF FirstRow
<1>3. \A high \in 1 .. count :
         ClassCost(points, high, high) = 0 /\ ClassCost(points, 1, high) \in Nat
  <2>1. \A high \in 1 .. count : 1 \in 1 .. high
    BY <1>1
  <2> QED BY <2>1, ClassesCost
<1>4. \A i : Between(points, 0, i) = ClassCost(points, 1, i)
  <2>1. 0 + 1 = 1
    OBVIOUS
  <2> QED BY <2>1 DEF Between
<1> HIDE DEF count, row
<1>5. ASSUME NEW end \in 1 .. count
      PROVE  SplitOf(row, end) = 0 /\ row[end].cost = Between(points, 0, end)
  <2>1. CASE end = 1
    <3>1. row[1] = [lower |-> 1, cost |-> 0]
      <4>1. 1 \in 0 .. count
        BY <1>1
      <4> QED BY <1>2, <4>1
    <3>2. row[1].cost = 0
      BY <3>1
    <3>3. ClassCost(points, 1, 1) = 0
      BY <1>3, <2>1
    <3> QED BY <1>4, <2>1, <3>2, <3>3 DEF SplitOf
  <2>2. CASE end # 1
    <3>1. row[end] = [lower |-> 0, cost |-> ClassCost(points, 1, end)]
      <4>1. end \in 0 .. count /\ end # 0
        BY <1>1
      <4> QED BY <1>2, <2>2, <4>1
    <3>2. row[end].lower = 0 /\ row[end].cost = ClassCost(points, 1, end)
      BY <3>1
    <3> QED BY <1>4, <2>2, <3>2 DEF SplitOf
  <2> QED BY <2>1, <2>2
<1>6. row[0].cost = 0
  <2>1. row[0] = [lower |-> 0, cost |-> 0]
    <3>1. 0 \in 0 .. count
      BY <1>1
    <3> QED BY <1>2, <3>1
  <2> QED BY <2>1
<1> QED BY <1>3, <1>4, <1>5, <1>6 DEF count, row

(* It follows nothing, at no cost.                                         *)
LEMMA FirstFollows ==
  ASSUME NEW points, IsPoints(points), IsScale(points), Len(points) > 0
  PROVE  Follows(points, FirstRow(points), [i \in 0 .. Len(points) |-> 0])
<1> DEFINE count == Len(points)
           row == FirstRow(points)
           x == [i \in 0 .. count |-> 0]
<1>1. count \in Nat \ {0}
  BY DEF IsPoints
<1>2. /\ row[0].cost = 0
      /\ \A end \in 1 .. count :
            /\ SplitOf(row, end) = 0 /\ row[end].cost = Between(points, 0, end)
            /\ Between(points, 0, end) \in Nat
  BY FirstRowCosts
<1> HIDE DEF count, row
<1>3. x \in [0 .. count -> Nat] /\ x[0] = 0
  BY <1>1
<1> HIDE DEF x
<1>4. ASSUME NEW end \in 1 .. count
      PROVE  /\ SplitOf(row, end) \in 0 .. end - 1
             /\ row[end].cost = x[SplitOf(row, end)] + Between(points, SplitOf(row, end), end)
             /\ \A s \in 0 .. SplitOf(row, end) :
                   x[s] + row[SplitOf(row, end)].cost <= x[SplitOf(row, end)] + row[s].cost
             /\ \A s \in 0 .. SplitOf(row, end) : \A last \in s + 1 .. count :
                   row[last].cost <= x[s] + Between(points, s, last)
  <2>1. 0 \in 0 .. end - 1 /\ Between(points, 0, end) = 0 + Between(points, 0, end)
    BY <1>1, <1>2
  <2>2. \A last \in 0 + 1 .. count : row[last].cost <= 0 + Between(points, 0, last)
    <3> SUFFICES ASSUME NEW last \in 0 + 1 .. count
                 PROVE  row[last].cost <= 0 + Between(points, 0, last)
      OBVIOUS
    <3>1. last \in 1 .. count
      OBVIOUS
    <3>2. row[last].cost = Between(points, 0, last) /\ Between(points, 0, last) \in Nat
      BY <1>2, <3>1
    <3> QED BY <3>2
  <2>3. (\A s \in 0 .. 0 : s = 0) /\ 0 + 0 <= 0 + 0
    OBVIOUS
  <2> QED BY <1>2, <1>3, <2>1, <2>2, <2>3
<1> QED BY <1>3, <1>4 DEF Follows, count, row, x

(* A row after a row that follows costs, at every point, no more than any  *)
(* last class would make it, but for the one the top row leaves out.       *)
LEMMA RowIsBest ==
  ASSUME NEW points, IsPoints(points), IsScale(points), Len(points) > 2,
         NEW prev, IsRow(prev, Len(points)), NEW x, Follows(points, prev, x), NEW top \in BOOLEAN
  PROVE  \A end \in 1 .. Len(points) : \A s \in 0 .. end - 1 :
            ~(top /\ end = Len(points) /\ s = end - 1) =>
               NextRow(points, prev, top)[end].cost <= prev[s].cost + Between(points, s, end)
<1> DEFINE count == Len(points)
           row == NextRow(points, prev, top)
           w(i, j) == Between(points, i, j)
<1>1. count \in Nat /\ count >= 3
  BY DEF IsPoints
<1>2. IsRow(row, count)
  BY NextRowIs
<1>3. ASSUME NEW end \in 2 .. count
      PROVE  /\ Splits(prev, end, top, count)
                  = prev[end - 1].lower .. (IF top /\ end = count THEN end - 2 ELSE end - 1)
             /\ \A s \in Splits(prev, end, top, count) : row[end].cost <= prev[s].cost + w(s, end)
  <2>1. \A s \in Splits(prev, end, top, count) : row[end].cost <= SplitCost(points, prev, s, end)
    BY NextRowIs
  <2>2. Splits(prev, end, top, count)
          = prev[end - 1].lower .. (IF top /\ end = count THEN end - 2 ELSE end - 1)
    BY DEF Splits
  <2> QED BY <2>1, <2>2 DEF SplitCost, Between
<1>4. /\ \A i \in 0 .. count : prev[i].cost \in Nat /\ x[i] \in Nat
      /\ prev[0].cost = 0 /\ prev[1].cost = 0 /\ x[0] = 0
      /\ \A i, j \in 0 .. count : i < j => w(i, j) \in Nat
  BY FollowsSays
<1>5. row[1].cost = 0 /\ prev[1].lower = 1 /\ \A i \in 0 .. count : row[i].cost \in Nat
  <2>1. row[1] = [lower |-> 1, cost |-> 0] /\ prev[1] = [lower |-> 1, cost |-> 0]
        /\ row \in [0 .. count -> Row]
    BY <1>2 DEF IsRow
  <2> HIDE DEF row
  <2>2. \A i \in 0 .. count : row[i].cost \in Nat
    BY <2>1 DEF Row
  <2> QED BY <2>1, <2>2
<1>6. ASSUME NEW end \in 1 .. count
      PROVE  /\ SplitOf(prev, end) \in 0 .. end - 1
             /\ prev[end].cost = x[SplitOf(prev, end)] + w(SplitOf(prev, end), end)
             /\ \A s \in 0 .. SplitOf(prev, end) :
                   /\ x[s] + prev[SplitOf(prev, end)].cost <= x[SplitOf(prev, end)] + prev[s].cost
                   /\ \A last \in s + 1 .. count : prev[last].cost <= x[s] + w(s, last)
  BY DEF Follows
<1>7. \A i, k, j, m \in 0 .. count : (i <= k /\ k < j /\ j <= m) =>
         w(i, j) + w(k, m) <= w(i, m) + w(k, j)
  BY Quadrangle
<1> HIDE DEF count, row, w
<1> SUFFICES ASSUME NEW end \in 1 .. count, NEW s \in 0 .. end - 1,
                    ~(top /\ end = count /\ s = end - 1)
             PROVE  row[end].cost <= prev[s].cost + w(s, end)
  BY DEF count, row, w
<1>8. prev[s].cost \in Nat /\ w(s, end) \in Nat /\ row[end].cost \in Nat
  <2>1. s \in 0 .. count /\ end \in 0 .. count /\ s < end
    BY <1>1
  <2> QED BY <1>4, <1>5, <2>1
<1>9. CASE end = 1
  BY <1>5, <1>8, <1>9
<1>10. CASE end = 2
  <2>1. end \in 2 .. count /\ end # count /\ end - 1 = 1
    BY <1>1, <1>10
  <2>2. 1 \in Splits(prev, end, top, count)
    BY <1>3, <1>5, <2>1
  <2>3. row[end].cost <= prev[1].cost + w(1, end)
    BY <1>3, <2>1, <2>2
  <2>4. w(1, end) = 0
    <3>1. w(1, 2) = ClassCost(points, 2, 2)
      <4>1. 1 + 1 = 2
        OBVIOUS
      <4> QED BY <4>1 DEF w, Between
    <3>2. 2 \in 1 .. Len(points)
      BY <1>1 DEF count
    <3>3. ClassCost(points, 2, 2) = 0
      BY <3>2, ClassesCost
    <3> QED BY <1>10, <3>1, <3>3
  <2> QED BY <1>4, <1>8, <2>3, <2>4
<1>11. CASE end # 1 /\ end # 2
  <2> DEFINE i == SplitOf(prev, end - 1)
             splits == Splits(prev, end, top, count)
  <2>1. end \in 2 .. count /\ end - 1 \in 1 .. count /\ end - 1 # 1
    BY <1>1, <1>11
  <2>2. i = prev[end - 1].lower
    BY <2>1 DEF SplitOf
  <2>3. i \in 0 .. (end - 1) - 1
    BY <1>6, <2>1
  <2>4. splits = i .. (IF top /\ end = count THEN end - 2 ELSE end - 1)
        /\ \A r \in splits : row[end].cost <= prev[r].cost + w(r, end)
    BY <1>3, <2>1, <2>2
  <2>5. /\ prev[end - 1].cost = x[i] + w(i, end - 1)
        /\ \A r \in 0 .. i :
              /\ x[r] + prev[i].cost <= x[i] + prev[r].cost
              /\ \A last \in r + 1 .. count : prev[last].cost <= x[r] + w(r, last)
    BY <1>6, <2>1
  <2> HIDE DEF i, splits
  <2>6. CASE s >= i
    <3>1. s \in splits
      BY <1>1, <2>1, <2>3, <2>4, <2>6
    <3> QED BY <2>4, <3>1
  <2>7. CASE s < i
    <3>1. i \in splits /\ s \in 0 .. i /\ end - 1 \in s + 1 .. count
      BY <1>1, <2>1, <2>3, <2>4, <2>7
    <3>2. row[end].cost <= prev[i].cost + w(i, end)
      BY <2>4, <3>1
    <3>3. x[i] + w(i, end - 1) <= x[s] + w(s, end - 1)
      BY <2>5, <3>1
    <3>4. x[s] + prev[i].cost <= x[i] + prev[s].cost
      BY <2>5, <3>1
    <3>5. s \in 0 .. count /\ i \in 0 .. count /\ end - 1 \in 0 .. count /\ end \in 0 .. count
          /\ s <= i /\ i < end - 1 /\ end - 1 <= end /\ s < end - 1 /\ i < end
      BY <1>1, <2>1, <2>3, <2>7
    <3>6. w(s, end - 1) + w(i, end) <= w(s, end) + w(i, end - 1)
      BY <1>7, <3>5
    <3>7. /\ w(s, end - 1) \in Nat /\ w(i, end) \in Nat /\ w(i, end - 1) \in Nat
          /\ x[s] \in Nat /\ x[i] \in Nat /\ prev[i].cost \in Nat
      BY <1>4, <3>5
    <3>8. row[end].cost \in Int /\ prev[s].cost \in Int /\ w(s, end) \in Int
      BY <1>8
    <3> DEFINE a == prev[i].cost
               b == w(i, end)
               c == x[i]
               d == w(i, end - 1)
               e == x[s]
               f == w(s, end - 1)
               g == prev[s].cost
               h == w(s, end)
               z == row[end].cost
    <3>9. /\ a \in Int /\ b \in Int /\ c \in Int /\ d \in Int /\ e \in Int
           /\ f \in Int /\ g \in Int /\ h \in Int /\ z \in Int
      BY <3>7, <3>8
    <3>10. z <= a + b /\ c + d <= e + f /\ e + a <= c + g /\ f + b <= h + d
      BY <3>2, <3>3, <3>4, <3>6
    <3> HIDE DEF a, b, c, d, e, f, g, h, z
    <3>11. z <= g + h
      BY <3>9, <3>10
    <3> QED BY <3>11 DEF z, g, h
  <2> QED BY <2>1, <2>3, <2>6, <2>7
<1> QED BY <1>9, <1>10, <1>11

(* Such a row, if it is not the top one, is followed by the next.          *)
LEMMA NextFollows ==
  ASSUME NEW points, IsPoints(points), IsScale(points), Len(points) > 2,
         NEW prev, IsRow(prev, Len(points)), NEW x, Follows(points, prev, x)
  PROVE  Follows(points, NextRow(points, prev, FALSE), [i \in 0 .. Len(points) |-> prev[i].cost])
<1> DEFINE count == Len(points)
           row == NextRow(points, prev, FALSE)
           w(i, j) == Between(points, i, j)
           y == [i \in 0 .. count |-> prev[i].cost]
<1>1. count \in Nat /\ count >= 3
  BY DEF IsPoints
<1>2. /\ IsRow(row, count)
      /\ \A end \in 2 .. count :
            /\ row[end].lower \in 0 .. end - 1
            /\ row[end].cost = SplitCost(points, prev, row[end].lower, end)
  <2>1. IsRow(row, count) /\ \A end \in 2 .. count :
           row[end].cost = SplitCost(points, prev, row[end].lower, end)
    BY NextRowIs
  <2> QED BY <2>1 DEF IsRow
<1>3. /\ \A i \in 0 .. count : prev[i].cost \in Nat /\ x[i] \in Nat
      /\ prev[0].cost = 0 /\ prev[1].cost = 0 /\ x[0] = 0
      /\ \A i, j \in 0 .. count : i < j => w(i, j) \in Nat
  BY FollowsSays
<1>4. row[0].cost = 0 /\ row[1].cost = 0 /\ \A i \in 0 .. count : row[i].cost \in Nat
  <2>1. row[1] = [lower |-> 1, cost |-> 0] /\ row[0] = [lower |-> 0, cost |-> 0]
        /\ row \in [0 .. count -> Row]
    BY <1>2 DEF IsRow
  <2> HIDE DEF row
  <2>2. \A i \in 0 .. count : row[i].cost \in Nat
    BY <2>1 DEF Row
  <2> QED BY <2>1, <2>2
<1>5. ASSUME NEW end \in 1 .. count
      PROVE  /\ SplitOf(prev, end) \in 0 .. end - 1
             /\ prev[end].cost = x[SplitOf(prev, end)] + w(SplitOf(prev, end), end)
             /\ \A s \in 0 .. SplitOf(prev, end) :
                   /\ x[s] + prev[SplitOf(prev, end)].cost <= x[SplitOf(prev, end)] + prev[s].cost
                   /\ \A last \in s + 1 .. count : prev[last].cost <= x[s] + w(s, last)
  BY DEF Follows
<1>6. \A i, k, j, m \in 0 .. count : (i <= k /\ k < j /\ j <= m) =>
         w(i, j) + w(k, m) <= w(i, m) + w(k, j)
  BY Quadrangle
<1>7. \A end \in 1 .. count : \A s \in 0 .. end - 1 : row[end].cost <= prev[s].cost + w(s, end)
  BY RowIsBest
<1>8. w(0, 1) = 0 /\ \A s, end : SplitCost(points, prev, s, end) = prev[s].cost + w(s, end)
  <2>1. 1 \in 1 .. Len(points) /\ 0 + 1 = 1
    BY <1>1
  <2>2. ClassCost(points, 1, 1) = 0
    BY <2>1, ClassesCost
  <2> QED BY <2>1, <2>2 DEF Between, SplitCost
<1> HIDE DEF count, row, w
<1>9. ASSUME NEW end \in 1 .. count
      PROVE  /\ SplitOf(row, end) \in 0 .. end - 1
             /\ row[end].cost = prev[SplitOf(row, end)].cost + w(SplitOf(row, end), end)
  <2>1. CASE end = 1
    BY <1>3, <1>4, <1>8, <2>1 DEF SplitOf
  <2>2. CASE end # 1
    <3>1. end \in 2 .. count
      BY <2>2
    <3> QED BY <1>2, <1>8, <2>2, <3>1 DEF SplitOf
  <2> QED BY <2>1, <2>2
<1>10. ASSUME NEW i \in 1 .. count PROVE row[i].cost <= prev[i].cost
  <2> DEFINE p == SplitOf(prev, i)
  <2>1. p \in 0 .. i - 1 /\ prev[i].cost = x[p] + w(p, i)
    BY <1>5
  <2>2. x[0] + prev[p].cost <= x[p] + prev[0].cost
    <3>1. 0 \in 0 .. p
      BY <2>1
    <3> QED BY <1>5, <3>1
  <2> HIDE DEF p
  <2>3. row[i].cost <= prev[p].cost + w(p, i)
    BY <1>7, <2>1
  <2>4. p \in 0 .. count /\ i \in 0 .. count /\ p < i
    BY <1>1, <2>1
  <2>5. prev[p].cost \in Nat /\ x[p] \in Nat /\ w(p, i) \in Nat /\ row[i].cost \in Nat
    BY <1>3, <1>4, <2>4
  <2>6. prev[p].cost <= x[p]
    BY <1>3, <2>2, <2>5
  <2> DEFINE a == prev[p].cost
             b == x[p]
             c == w(p, i)
             d == row[i].cost
  <2>7. a \in Nat /\ b \in Nat /\ c \in Nat /\ d \in Nat /\ a <= b /\ d <= a + c
    BY <2>3, <2>5, <2>6
  <2>8. d <= b + c
    <3> HIDE DEF a, b, c, d
    <3> QED BY <2>7
  <2> QED BY <2>1, <2>8
<1>11. ASSUME NEW k \in 0 .. count, NEW i \in 0 .. count, k <= i
       PROVE  prev[k].cost + row[i].cost <= prev[i].cost + row[k].cost
  <2>1. /\ prev[k].cost \in Nat /\ prev[i].cost \in Nat
        /\ row[k].cost \in Nat /\ row[i].cost \in Nat
    BY <1>3, <1>4
  <2>2. CASE k = i
    BY <2>1, <2>2
  <2>3. CASE k = 0 /\ k # i
    <3>1. i \in 1 .. count
      BY <1>1, <1>11, <2>3
    <3>2. row[i].cost <= prev[i].cost
      BY <1>10, <3>1
    <3> QED BY <1>3, <1>4, <2>1, <2>3, <3>2
  <2>4. CASE k # 0 /\ k # i
    <3> DEFINE p == SplitOf(prev, i)
               q == SplitOf(row, k)
    <3>1. i \in 1 .. count /\ k \in 1 .. count /\ k < i
      BY <1>1, <1>11, <2>4
    <3>2. p \in 0 .. i - 1 /\ prev[i].cost = x[p] + w(p, i)
      BY <1>5, <3>1
    <3>3. q \in 0 .. k - 1 /\ row[k].cost = prev[q].cost + w(q, k)
      BY <1>9, <3>1
    <3>4. \A s \in 0 .. p : /\ x[s] + prev[p].cost <= x[p] + prev[s].cost
                            /\ \A last \in s + 1 .. count : prev[last].cost <= x[s] + w(s, last)
      BY <1>5, <3>1
    <3> HIDE DEF p, q
    <3>5. CASE p <= q
      <4>1. p \in 0 .. p /\ k \in p + 1 .. count /\ q \in 0 .. i - 1
        BY <3>1, <3>2, <3>3, <3>5
      <4>2. prev[k].cost <= x[p] + w(p, k)
        BY <3>4, <4>1
      <4>3. row[i].cost <= prev[q].cost + w(q, i)
        BY <1>7, <3>1, <4>1
      <4>4. /\ p \in 0 .. count /\ q \in 0 .. count /\ q < k /\ k <= i /\ p < k /\ p < i /\ q < i
        BY <1>1, <3>1, <3>2, <3>3, <3>5
      <4>5. w(p, k) + w(q, i) <= w(p, i) + w(q, k)
        BY <1>6, <3>5, <4>4
      <4>6. /\ w(p, k) \in Nat /\ w(q, i) \in Nat /\ w(p, i) \in Nat /\ w(q, k) \in Nat
            /\ x[p] \in Nat /\ prev[q].cost \in Nat
        BY <1>3, <4>4
      <4> DEFINE a == w(p, k)
                 b == w(q, i)
                 c == w(p, i)
                 d == w(q, k)
                 e == x[p]
                 f == prev[q].cost
                 g == prev[k].cost
                 h == row[i].cost
      <4>7. /\ a \in Nat /\ b \in Nat /\ c \in Nat /\ d \in Nat /\ e \in Nat /\ f \in Nat
            /\ g \in Nat /\ h \in Nat
            /\ g <= e + a /\ h <= f + b /\ a + b <= c + d
        BY <2>1, <4>2, <4>3, <4>5, <4>6
      <4>8. prev[i].cost = e + c /\ row[k].cost = f + d
        BY <3>2, <3>3
      <4>9. g + h <= (e + c) + (f + d)
        <5> HIDE DEF a, b, c, d, e, f, g, h
        <5> QED BY <4>7
      <4> QED BY <4>8, <4>9
    <3>6. CASE p > q
      <4>1. q \in 0 .. p /\ k \in q + 1 .. count
        BY <3>1, <3>2, <3>3, <3>6
      <4>2. prev[k].cost <= x[q] + w(q, k)
        BY <3>4, <4>1
      <4>3. row[i].cost <= prev[p].cost + w(p, i)
        BY <1>7, <3>1, <3>2
      <4>4. x[q] + prev[p].cost <= x[p] + prev[q].cost
        BY <3>4, <4>1
      <4>5. p \in 0 .. count /\ q \in 0 .. count /\ q < k /\ p < i
        BY <1>1, <3>1, <3>2, <3>3
      <4>6. /\ w(p, i) \in Nat /\ w(q, k) \in Nat /\ x[p] \in Nat /\ x[q] \in Nat
            /\ prev[p].cost \in Nat /\ prev[q].cost \in Nat
        BY <1>3, <4>5
      <4> DEFINE a == w(p, i)
                 b == w(q, k)
                 c == x[p]
                 d == x[q]
                 e == prev[p].cost
                 f == prev[q].cost
                 g == prev[k].cost
                 h == row[i].cost
      <4>7. /\ a \in Nat /\ b \in Nat /\ c \in Nat /\ d \in Nat /\ e \in Nat /\ f \in Nat
            /\ g \in Nat /\ h \in Nat
            /\ g <= d + b /\ h <= e + a /\ d + e <= c + f
        BY <2>1, <4>2, <4>3, <4>4, <4>6
      <4>8. prev[i].cost = c + a /\ row[k].cost = f + b
        BY <3>2, <3>3
      <4>9. g + h <= (c + a) + (f + b)
        <5> HIDE DEF a, b, c, d, e, f, g, h
        <5> QED BY <4>7
      <4> QED BY <4>8, <4>9
    <3> QED BY <3>2, <3>3, <3>5, <3>6
  <2> QED BY <2>2, <2>3, <2>4
<1>12. y \in [0 .. count -> Nat] /\ y[0] = 0 /\ \A i \in 0 .. count : y[i] = prev[i].cost
  <2>1. 0 \in 0 .. count
    BY <1>1
  <2> QED BY <1>3, <2>1
<1> HIDE DEF y
<1>13. ASSUME NEW end \in 1 .. count
       PROVE  LET p == SplitOf(row, end)
              IN  /\ p \in 0 .. end - 1
                  /\ row[end].cost = y[p] + w(p, end)
                  /\ \A s \in 0 .. p : y[s] + row[p].cost <= y[p] + row[s].cost
                  /\ \A s \in 0 .. p : \A last \in s + 1 .. count : row[last].cost <= y[s] + w(s, last)
  <2> DEFINE p == SplitOf(row, end)
  <2>1. p \in 0 .. end - 1 /\ row[end].cost = prev[p].cost + w(p, end)
    BY <1>9
  <2> HIDE DEF p
  <2>2. p \in 0 .. count /\ y[p] = prev[p].cost
    BY <1>1, <1>12, <2>1
  <2>3. ASSUME NEW s \in 0 .. p
        PROVE  /\ y[s] + row[p].cost <= y[p] + row[s].cost
               /\ \A last \in s + 1 .. count : row[last].cost <= y[s] + w(s, last)
    <3>1. s \in 0 .. count /\ s <= p /\ y[s] = prev[s].cost
      BY <1>1, <1>12, <2>2
    <3>2. prev[s].cost + row[p].cost <= prev[p].cost + row[s].cost
      BY <1>11, <2>2, <3>1
    <3>3. ASSUME NEW last \in s + 1 .. count PROVE row[last].cost <= prev[s].cost + w(s, last)
      <4>1. last \in 1 .. count /\ s \in 0 .. last - 1
        BY <3>1
      <4> QED BY <1>7, <4>1
    <3> QED BY <2>2, <3>1, <3>2, <3>3
  <2> QED BY <2>1, <2>2, <2>3 DEF p
<1> QED BY <1>12, <1>13 DEF Follows, count, row, y, w

(* So every row of the table costs, at every point, no more than any last  *)
(* class after the best classes of the row before.                         *)
LEMMA RowsAreBest ==
  ASSUME NEW points, IsPoints(points), IsScale(points), NEW n \in Nat \ {0}, Len(points) > n
  PROVE  \A c \in 2 .. n : \A end \in 1 .. Len(points) : \A s \in 0 .. end - 1 :
            ~(c = n /\ end = Len(points) /\ s = end - 1) =>
               Table(points, n)[c][end].cost
                 <= Table(points, n)[c - 1][s].cost + Between(points, s, end)
<1> DEFINE count == Len(points)
           table == Table(points, n)
           T == {i \in 0 .. n - 1 : i + 1 < n => \E x : Follows(points, table[i + 1], x)}
<1>1. count \in Nat /\ count > n
  BY DEF IsPoints
<1>2. /\ \A c \in 1 .. n : IsRow(table[c], count)
      /\ table[1] = FirstRow(points)
      /\ \A c \in 2 .. n : table[c] = NextRow(points, table[c - 1], c = n)
  BY <1>1, TableIs
<1> HIDE DEF count, table
<1>3. T = 0 .. n - 1
  <2>1. 0 \in T
    <3>1. Follows(points, table[1], [i \in 0 .. count |-> 0])
      <4>1. count > 0
        BY <1>1
      <4> QED BY <1>2, <4>1, FirstFollows DEF count
    <3> QED BY <3>1
  <2>2. ASSUME NEW i \in 0 .. (n - 1) - 1, i \in T PROVE i + 1 \in T
    <3>1. i + 1 \in 0 .. n - 1
      OBVIOUS
    <3> SUFFICES ASSUME (i + 1) + 1 < n PROVE \E x : Follows(points, table[(i + 1) + 1], x)
      BY <3>1
    <3>2. i + 1 < n /\ i + 1 \in 1 .. n /\ (i + 1) + 1 \in 2 .. n /\ ((i + 1) + 1) - 1 = i + 1
          /\ ((i + 1) + 1 = n) = FALSE /\ count > 2
      BY <1>1
    <3>3. PICK x : Follows(points, table[i + 1], x)
      BY <2>2, <3>2
    <3>4. IsRow(table[i + 1], count) /\ table[(i + 1) + 1] = NextRow(points, table[i + 1], FALSE)
      BY <1>2, <3>2
    <3>5. Follows(points, NextRow(points, table[i + 1], FALSE),
                  [j \in 0 .. Len(points) |-> table[i + 1][j].cost])
      BY <3>2, <3>3, <3>4, NextFollows DEF count
    <3> QED BY <3>4, <3>5
  <2>3. n - 1 \in Nat /\ T \in SUBSET (0 .. n - 1)
    OBVIOUS
  <2> HIDE DEF T
  <2> QED BY <2>1, <2>2, <2>3, UpTo
<1> SUFFICES ASSUME NEW c \in 2 .. n
             PROVE  \A end \in 1 .. count : \A s \in 0 .. end - 1 :
                       ~(c = n /\ end = count /\ s = end - 1) =>
                          table[c][end].cost <= table[c - 1][s].cost + Between(points, s, end)
  BY DEF count, table
<1>4. c - 2 \in 0 .. n - 1 /\ (c - 2) + 1 = c - 1 /\ c - 1 < n /\ c - 1 \in 1 .. n /\ count > 2
  BY <1>1
<1>5. PICK x : Follows(points, table[c - 1], x)
  BY <1>3, <1>4
<1> DEFINE prev == table[c - 1]
           top == c = n
<1>6. /\ IsRow(prev, count) /\ table[c] = NextRow(points, prev, top) /\ top \in BOOLEAN
      /\ Follows(points, prev, x)
  BY <1>2, <1>4, <1>5
<1> HIDE DEF prev, top
<1>7. \A end \in 1 .. count : \A s \in 0 .. end - 1 :
         ~(top /\ end = count /\ s = end - 1) =>
            NextRow(points, prev, top)[end].cost <= prev[s].cost + Between(points, s, end)
  BY <1>4, <1>6, RowIsBest DEF count
<1> QED BY <1>6, <1>7 DEF prev, top

-----------------------------------------------------------------------------
(* The cuts of the reference.                                              *)

(* Values ascend in one way only.                                          *)
LEMMA AscendingUnique ==
  ASSUME NEW a \in Seq(Int), NEW b \in Seq(Int), Len(a) = Len(b), IsAscending(a), IsAscending(b),
         \A i \in 1 .. Len(a) : \E j \in 1 .. Len(b) : a[i] = b[j],
         \A i \in 1 .. Len(b) : \E j \in 1 .. Len(a) : b[i] = a[j]
  PROVE  a = b
<1> DEFINE m == Len(a)
           apart == {i \in 1 .. m : a[i] # b[i]}
<1>1. m \in Nat /\ a \in [1 .. m -> Int] /\ b \in [1 .. m -> Int]
  OBVIOUS
<1>2. \A i, j \in 1 .. m : i < j => a[i] < a[j] /\ b[i] < b[j]
  BY DEF IsAscending
<1>3. /\ \A i \in 1 .. m : \E j \in 1 .. m : a[i] = b[j]
      /\ \A i \in 1 .. m : \E j \in 1 .. m : b[i] = a[j]
  OBVIOUS
<1> HIDE DEF m
<1> SUFFICES ASSUME apart # {} PROVE FALSE
  <2>1. apart = {} => \A i \in 1 .. m : a[i] = b[i]
    OBVIOUS
  <2> HIDE DEF apart
  <2> QED BY <1>1, <2>1
<1>4. PICK i \in apart : \A j \in apart : i <= j
  <2>1. apart \in SUBSET Nat
    BY <1>1
  <2> HIDE DEF apart
  <2> QED BY <2>1, LeastNumber
<1>5. i \in 1 .. m /\ a[i] # b[i] /\ \A j \in 1 .. m : j < i => a[j] = b[j]
  BY <1>1, <1>4
<1> HIDE DEF apart
<1>6. ASSUME a[i] < b[i] PROVE FALSE
  <2>1. PICK j \in 1 .. m : a[i] = b[j]
    BY <1>3, <1>5
  <2>2. j < i
    <3> SUFFICES ASSUME i <= j PROVE FALSE
      BY <1>1, <1>5
    <3>1. i = j \/ b[i] < b[j]
      BY <1>1, <1>2, <1>5
    <3>2. a[i] \in Int /\ b[i] \in Int /\ b[j] \in Int
      BY <1>1, <1>5
    <3> DEFINE x == b[i]
               y == b[j]
    <3>3. x \in Int /\ y \in Int /\ y < x /\ (x = y \/ x < y)
      BY <1>6, <2>1, <3>1, <3>2
    <3> HIDE DEF x, y
    <3> QED BY <3>3
  <2>3. a[j] = b[j] /\ a[j] < a[i] /\ a[i] \in Int
    BY <1>1, <1>2, <1>5, <2>2
  <2> QED BY <2>1, <2>3
<1>7. ASSUME b[i] < a[i] PROVE FALSE
  <2>1. PICK j \in 1 .. m : b[i] = a[j]
    BY <1>3, <1>5
  <2>2. j < i
    <3> SUFFICES ASSUME i <= j PROVE FALSE
      BY <1>1, <1>5
    <3>1. i = j \/ a[i] < a[j]
      BY <1>1, <1>2, <1>5
    <3>2. a[i] \in Int /\ b[i] \in Int /\ a[j] \in Int
      BY <1>1, <1>5
    <3> DEFINE x == a[i]
               y == a[j]
    <3>3. x \in Int /\ y \in Int /\ y < x /\ (x = y \/ x < y)
      BY <1>7, <2>1, <3>1, <3>2
    <3> HIDE DEF x, y
    <3> QED BY <3>3
  <2>3. a[j] = b[j] /\ b[j] < b[i] /\ b[i] \in Int
    BY <1>1, <1>2, <1>5, <2>2
  <2> QED BY <2>1, <2>3
<1>8. a[i] \in Int /\ b[i] \in Int
  BY <1>1, <1>5
<1>9. a[i] < b[i] \/ b[i] < a[i]
  <2> DEFINE x == a[i]
             y == b[i]
  <2>1. x \in Int /\ y \in Int /\ x # y
    BY <1>5, <1>8
  <2>2. x < y \/ y < x
    <3> HIDE DEF x, y
    <3> QED BY <2>1
  <2> QED BY <2>2
<1> QED BY <1>6, <1>7, <1>9

(* Values that ascend are what Ascending gives of them.                    *)
LEMMA AscendingOf ==
  ASSUME NEW e \in Seq(Int), IsAscending(e), NEW S, S = {e[i] : i \in 1 .. Len(e)}
  PROVE  IsFiniteSet(S) /\ Cardinality(S) = Len(e) /\ Ascending(S) = e
<1>1. Len(e) \in Nat /\ e \in [1 .. Len(e) -> Int] /\ S \in SUBSET Int
  OBVIOUS
<1>2. e \in Seq(S)
  <2>1. \A i \in 1 .. Len(e) : e[i] \in S
    OBVIOUS
  <2> QED BY <2>1, SeqInto
<1>3. IsFiniteSet(S)
  <2> DEFINE D == 1 .. Len(e)
  <2>1. IsFiniteSet(D)
    BY <1>1, FirstNumbers
  <2>2. DOMAIN e = D /\ e = [i \in D |-> e[i]] /\ S = {e[i] : i \in D}
    BY <1>1
  <2> HIDE DEF D
  <2> QED BY <2>1, <2>2, FiniteImage
<1>4. Len(e) <= Cardinality(S)
  BY <1>1, <1>2, <1>3, AscendingFits
<1>5. Cardinality(S) <= Len(e)
  <2>1. \A v \in S : \E i \in 1 .. Len(e) : e[i] = v
    OBVIOUS
  <2> QED BY <1>2, <2>1, AllFit
<1>6. Cardinality(S) \in Nat
  BY <1>3, FS_CardinalityType
<1>7. Cardinality(S) = Len(e)
  BY <1>1, <1>4, <1>5, <1>6
<1> DEFINE a == Ascending(S)
<1>8. /\ a \in Seq(S) /\ a \in Seq(Int) /\ Len(a) = Cardinality(S)
      /\ \A p, q \in 1 .. Len(a) : p < q => a[p] < a[q]
      /\ \A v \in S : \E p \in 1 .. Len(a) : a[p] = v
  BY <1>1, <1>3, AscendingIs
<1> HIDE DEF a
<1>9. IsAscending(a)
  BY <1>8 DEF IsAscending
<1>10. \A i \in 1 .. Len(a) : \E j \in 1 .. Len(e) : a[i] = e[j]
  BY <1>8
<1>11. \A i \in 1 .. Len(e) : \E j \in 1 .. Len(a) : e[i] = a[j]
  BY <1>8
<1>12. a = e
  BY <1>7, <1>8, <1>9, <1>10, <1>11, AscendingUnique
<1> QED BY <1>3, <1>7, <1>12 DEF a

(* The points that n classes end at, from the nothing before the first.    *)
IsCut(points, n, e) ==
  /\ e \in Seq(0 .. Len(points)) /\ Len(e) = n + 1 /\ IsAscending(e)
  /\ e[1] = 0 /\ e[n + 1] = Len(points)

(* The points it cuts after.                                               *)
CutsOf(n, e) == {e[c] : c \in 2 .. n}

(* What the reference says the classes cost: one after the other.          *)
IsCostOf(points, n, e, cost) ==
  /\ cost \in [0 .. n -> Nat] /\ cost[0] = 0
  /\ \A c \in 1 .. n : cost[c] = cost[c - 1] + Between(points, e[c], e[c + 1])

LEMMA CutCostIs ==
  ASSUME NEW points, IsPoints(points), IsScale(points), NEW n \in Nat \ {0},
         NEW e, IsCut(points, n, e)
  PROVE  \E cost : IsCostOf(points, n, e, cost) /\ CutCost(points, CutsOf(n, e)) = cost[n]
<1> DEFINE count == Len(points)
           K == CutsOf(n, e)
           S == {0, count} \cup K
           step == [c \in 1 .. n |-> [v \in Nat |-> v + Between(points, e[c], e[c + 1])]]
           Obeys(f) == f = [c \in 0 .. Len(e) - 1 |->
                              IF c = 0 THEN 0
                              ELSE f[c - 1] + ClassCost(points, e[c] + 1, e[c + 1])]
<1>1. count \in Nat
  BY DEF IsPoints
<1>2. /\ e \in Seq(0 .. count) /\ Len(e) = n + 1 /\ IsAscending(e)
      /\ e[1] = 0 /\ e[n + 1] = count
  BY DEF IsCut
<1>3. e \in Seq(Int) /\ e \in [1 .. n + 1 -> 0 .. count]
  <2>1. e \in [1 .. n + 1 -> 0 .. count]
    BY <1>2
  <2>2. \A i \in 1 .. Len(e) : e[i] \in Int
    BY <1>2, <2>1
  <2> QED BY <1>2, <2>1, <2>2, SeqInto
<1>4. S = {e[i] : i \in 1 .. Len(e)}
  <2>1. 1 \in 1 .. n + 1 /\ n + 1 \in 1 .. n + 1 /\ \A c \in 2 .. n : c \in 1 .. n + 1
    OBVIOUS
  <2>2. \A i \in 1 .. n + 1 : i = 1 \/ i = n + 1 \/ i \in 2 .. n
    OBVIOUS
  <2>3. ASSUME NEW v \in S PROVE \E i \in 1 .. n + 1 : v = e[i]
    BY <1>2, <2>1 DEF CutsOf
  <2>4. ASSUME NEW i \in 1 .. n + 1 PROVE e[i] \in S
    BY <1>2, <2>2 DEF CutsOf
  <2> HIDE DEF S
  <2>5. S = {e[i] : i \in 1 .. n + 1}
    BY <2>3, <2>4
  <2> QED BY <1>2, <2>5
<1>5. Ascending(S) = e
  <2> HIDE DEF S
  <2> QED BY <1>2, <1>3, <1>4, AscendingOf
<1>6. CutCost(points, K) = (CHOOSE f : Obeys(f))[Len(e) - 1]
  <2> DEFINE ends == Ascending(S)
             Follow(f) == f = [c \in 0 .. Len(ends) - 1 |->
                                 IF c = 0 THEN 0
                                 ELSE f[c - 1] + ClassCost(points, ends[c] + 1, ends[c + 1])]
  <2>1. CutCost(points, K) = (CHOOSE f : Follow(f))[Len(ends) - 1]
    BY DEF CutCost
  <2>2. ends = e
    BY <1>5
  <2> HIDE DEF ends
  <2> QED BY <2>1, <2>2
<1>7. ASSUME NEW c \in 1 .. n PROVE Between(points, e[c], e[c + 1]) \in Nat
  <2>1. c \in 1 .. n + 1 /\ c + 1 \in 1 .. n + 1 /\ c < c + 1
    OBVIOUS
  <2>2. e[c] \in 0 .. count /\ e[c + 1] \in 0 .. count /\ e[c] < e[c + 1]
    BY <1>2, <1>3, <2>1 DEF IsAscending
  <2> DEFINE low == e[c] + 1
             high == e[c + 1]
  <2>3. high \in 1 .. Len(points) /\ low \in 1 .. high
    BY <1>1, <2>2
  <2> HIDE DEF low, high
  <2>4. ClassCost(points, low, high) \in Nat
    BY <2>3, ClassesCost
  <2> QED BY <2>4 DEF Between, low, high
<1>8. step \in [1 .. n -> [Nat -> Nat]]
  <2>1. ASSUME NEW c \in 1 .. n
        PROVE  [v \in Nat |-> v + Between(points, e[c], e[c + 1])] \in [Nat -> Nat]
    BY <1>7
  <2> QED BY <2>1
<1>9. \A c \in 1 .. n : \A v \in Nat : step[c][v] = v + Between(points, e[c], e[c + 1])
  OBVIOUS
<1> HIDE DEF K, S, step, count
<1>10. PICK cost : IsLoop(cost, n, 0, step)
  BY <1>8, LoopRuns
<1>11. cost \in [0 .. n -> Nat] /\ cost[0] = 0 /\ \A c \in 1 .. n : cost[c] = step[c][cost[c - 1]]
  <2> DEFINE V == Nat
             z == 0
  <2>1. n \in Nat /\ z \in V /\ step \in [1 .. n -> [V -> V]] /\ IsLoop(cost, n, z, step)
    BY <1>8, <1>10
  <2> HIDE DEF V, z
  <2>2. cost \in [0 .. n -> V] /\ cost[0] = z /\ \A c \in 1 .. n : cost[c] = step[c][cost[c - 1]]
    BY <2>1, LoopIs
  <2> QED BY <2>2 DEF V, z
<1>12. \A c \in 1 .. n : cost[c] = cost[c - 1] + Between(points, e[c], e[c + 1])
  <2> SUFFICES ASSUME NEW c \in 1 .. n
               PROVE  cost[c] = cost[c - 1] + Between(points, e[c], e[c + 1])
    OBVIOUS
  <2>1. cost[c - 1] \in Nat
    BY <1>11
  <2> QED BY <1>9, <1>11, <2>1
<1>13. IsCostOf(points, n, e, cost)
  BY <1>11, <1>12 DEF IsCostOf
<1> DEFINE found == CHOOSE f : Obeys(f)
<1>14. Obeys(cost)
  <2>1. ASSUME NEW c \in 0 .. Len(e) - 1
        PROVE  cost[c] = IF c = 0 THEN 0 ELSE cost[c - 1] + ClassCost(points, e[c] + 1, e[c + 1])
    <3>1. c = 0 \/ c \in 1 .. n
      BY <1>2
    <3> QED BY <1>11, <1>12, <3>1 DEF Between
  <2>2. DOMAIN cost = 0 .. Len(e) - 1 /\ cost = [c \in 0 .. Len(e) - 1 |-> cost[c]]
    BY <1>2, <1>11
  <2> QED BY <2>1, <2>2
<1>15. Obeys(found)
  <2> HIDE DEF Obeys
  <2> QED BY <1>14
<1> HIDE DEF found
<1>16. found[0] = 0 /\ \A c \in 1 .. n : found[c] = found[c - 1] + Between(points, e[c], e[c + 1])
  <2>1. \A c \in 0 .. Len(e) - 1 :
           found[c] = IF c = 0 THEN 0 ELSE found[c - 1] + ClassCost(points, e[c] + 1, e[c + 1])
    BY <1>15
  <2>2. 0 \in 0 .. Len(e) - 1 /\ \A c \in 1 .. n : c \in 0 .. Len(e) - 1 /\ c # 0
    BY <1>2
  <2> QED BY <2>1, <2>2 DEF Between
<1> DEFINE T == {c \in 0 .. n : found[c] = cost[c]}
<1>17. T = 0 .. n
  <2>1. T \in SUBSET (0 .. n) /\ 0 \in T
    BY <1>11, <1>16
  <2>2. ASSUME NEW c \in 0 .. n - 1, c \in T PROVE c + 1 \in T
    <3>1. c + 1 \in 1 .. n /\ (c + 1) - 1 = c /\ c + 1 \in 0 .. n
      OBVIOUS
    <3> QED BY <1>12, <1>16, <2>2, <3>1
  <2> HIDE DEF T
  <2> QED BY <2>1, <2>2, UpTo
<1>18. found[n] = cost[n] /\ Len(e) - 1 = n
  <2>1. n \in T
    BY <1>17
  <2> QED BY <1>2, <2>1
<1> QED BY <1>6, <1>13, <1>18 DEF K, found

(* Every cut of the reference is one, and leaves the top class two points. *)
LEMMA CutsAre ==
  ASSUME NEW points, IsPoints(points), NEW n \in Nat \ {0}, Len(points) > n,
         NEW K \in Cuts(points, n)
  PROVE  \E e : /\ IsCut(points, n, e) /\ K = CutsOf(n, e)
                /\ n > 1 => e[n] <= Len(points) - 2
<1> DEFINE count == Len(points)
           S == {0, count} \cup K
           e == Ascending(S)
<1>1. count \in Nat /\ count > n /\ count > 1
  BY DEF IsPoints
<1>2. K \in SUBSET (1 .. count - 2) /\ Cardinality(K) = n - 1
  BY DEF Cuts, kSubset
<1>3. IsFiniteSet(K)
  <2>1. IsFiniteSet(1 .. count - 2)
    BY <1>1, FS_Interval
  <2> QED BY <1>2, <2>1, FS_Subset
<1> HIDE DEF count
<1>4. IsFiniteSet(S) /\ Cardinality(S) = n + 1
  <2> DEFINE L == K \cup {0}
  <2>1. 0 \notin K /\ count \notin K /\ count # 0
    BY <1>1, <1>2
  <2>2. IsFiniteSet(L) /\ Cardinality(L) = (n - 1) + 1
    BY <1>2, <1>3, <2>1, FS_AddElement
  <2>3. count \notin L /\ S = L \cup {count}
    BY <2>1
  <2> HIDE DEF L, S
  <2>4. IsFiniteSet(S) /\ Cardinality(S) = Cardinality(L) + 1
    BY <2>2, <2>3, FS_AddElement
  <2> QED BY <2>2, <2>4
<1>5. S \in SUBSET (0 .. count) /\ S \in SUBSET Int /\ 0 \in S /\ count \in S
  BY <1>1, <1>2
<1>6. \A v \in S : v \in K <=> v # 0 /\ v # count
  BY <1>1, <1>2
<1>7. \A v \in K : v \in S
  OBVIOUS
<1> HIDE DEF S
<1>8. /\ e \in Seq(S) /\ Len(e) = n + 1
      /\ \A p, q \in 1 .. Len(e) : p < q => e[p] < e[q]
      /\ \A v \in S : \E p \in 1 .. Len(e) : e[p] = v
  BY <1>4, <1>5, AscendingIs
<1> HIDE DEF e
<1>9. e \in [1 .. n + 1 -> S] /\ \A p \in 1 .. n + 1 : e[p] \in 0 .. count
  <2>1. e \in [1 .. n + 1 -> S]
    <3>1. e \in Seq(S) /\ Len(e) = n + 1
      BY <1>8
    <3>2. e \in [1 .. Len(e) -> S]
      BY <3>1
    <3> QED BY <3>1, <3>2
  <2>2. \A v \in S : v \in 0 .. count
    BY <1>5
  <2> QED BY <2>1, <2>2
<1>10. /\ \A p, q \in 1 .. n + 1 : p < q => e[p] < e[q]
       /\ \A v \in S : \E p \in 1 .. n + 1 : e[p] = v
  BY <1>8
<1>11. 1 \in 1 .. n + 1 /\ n + 1 \in 1 .. n + 1
  OBVIOUS
<1>12. e[1] = 0
  <2>1. PICK p \in 1 .. n + 1 : e[p] = 0
    BY <1>5, <1>10
  <2>2. p = 1 \/ e[1] < e[p]
    BY <1>10, <1>11
  <2>3. e[1] \in 0 .. count
    BY <1>9, <1>11
  <2> QED BY <1>1, <2>1, <2>2, <2>3
<1>13. e[n + 1] = count
  <2>1. PICK p \in 1 .. n + 1 : e[p] = count
    BY <1>5, <1>10
  <2>2. p = n + 1 \/ e[p] < e[n + 1]
    BY <1>10, <1>11
  <2>3. e[n + 1] \in 0 .. count
    BY <1>9, <1>11
  <2> QED BY <1>1, <2>1, <2>2, <2>3
<1>14. IsCut(points, n, e)
  <2>1. e \in Seq(0 .. count)
    BY <1>8, <1>9, SeqInto
  <2> QED BY <1>8, <1>12, <1>13, <2>1 DEF IsCut, IsAscending, count
<1>15. ASSUME NEW c \in 2 .. n PROVE e[c] \in K
  <2>1. c \in 1 .. n + 1 /\ 1 < c /\ c < n + 1
    OBVIOUS
  <2>2. e[1] < e[c] /\ e[c] < e[n + 1] /\ e[c] \in 0 .. count /\ e[c] \in S
    BY <1>9, <1>10, <1>11, <2>1
  <2>3. e[c] # 0 /\ e[c] # count
    BY <1>1, <1>12, <1>13, <2>2
  <2> QED BY <1>6, <2>2, <2>3
<1>16. ASSUME NEW v \in K PROVE \E c \in 2 .. n : v = e[c]
  <2>1. v \in S /\ v # 0 /\ v # count
    BY <1>6, <1>7
  <2>2. PICK p \in 1 .. n + 1 : e[p] = v
    BY <1>10, <2>1
  <2>3. p # 1 /\ p # n + 1
    BY <1>12, <1>13, <2>1, <2>2
  <2>4. p \in 2 .. n
    BY <2>3
  <2> QED BY <2>2, <2>4
<1>17. K = CutsOf(n, e)
  BY <1>15, <1>16 DEF CutsOf
<1>18. n > 1 => e[n] <= count - 2
  <2> SUFFICES ASSUME n > 1 PROVE e[n] <= count - 2
    OBVIOUS
  <2>1. n \in 2 .. n
    OBVIOUS
  <2>2. e[n] \in 1 .. count - 2
    BY <1>2, <1>15, <2>1
  <2> QED BY <1>1, <2>2
<1> QED BY <1>14, <1>17, <1>18 DEF count

(* No cut costs less than the table says of all the points.                *)
LEMMA NoCutIsBetter ==
  ASSUME NEW points, IsPoints(points), IsScale(points), NEW n \in Nat \ {0}, Len(points) > n,
         NEW e, IsCut(points, n, e), n > 1 => e[n] <= Len(points) - 2,
         NEW cost, IsCostOf(points, n, e, cost)
  PROVE  Table(points, n)[n][Len(points)].cost <= cost[n]
<1> DEFINE count == Len(points)
           table == Table(points, n)
           w(i, j) == Between(points, i, j)
           T == {i \in 0 .. n - 1 : table[i + 1][e[i + 2]].cost <= cost[i + 1]}
<1>1. count \in Nat /\ count > n
  BY DEF IsPoints
<1>2. \A c \in 2 .. n : \A end \in 1 .. count : \A s \in 0 .. end - 1 :
         ~(c = n /\ end = count /\ s = end - 1) =>
            table[c][end].cost <= table[c - 1][s].cost + w(s, end)
  BY RowsAreBest
<1>3. \A end \in 1 .. count : table[1][end].cost = w(0, end) /\ w(0, end) \in Nat
  <2>1. table[1] = FirstRow(points)
    BY <1>1, TableIs
  <2>2. \A end \in 1 .. count : FirstRow(points)[end].cost = w(0, end) /\ w(0, end) \in Nat
    BY <1>1, FirstRowCosts
  <2> QED BY <2>1, <2>2
<1>4. \A c \in 1 .. n : \A i \in 0 .. count : table[c][i].cost \in Nat
  <2> SUFFICES ASSUME NEW c \in 1 .. n PROVE \A i \in 0 .. count : table[c][i].cost \in Nat
    OBVIOUS
  <2>1. IsRow(table[c], count)
    BY <1>1, TableIs
  <2>2. table[c] \in [0 .. count -> Row]
    BY <2>1 DEF IsRow
  <2> HIDE DEF table
  <2> QED BY <2>2 DEF Row
<1>5. \A i, j \in 0 .. count : i < j => w(i, j) \in Nat
  <2> SUFFICES ASSUME NEW i \in 0 .. count, NEW j \in 0 .. count, i < j PROVE w(i, j) \in Nat
    OBVIOUS
  <2>1. j \in 1 .. Len(points) /\ i + 1 \in 1 .. j
    BY <1>1
  <2>2. ClassCost(points, i + 1, j) \in Nat
    BY <2>1, ClassesCost
  <2> QED BY <2>2 DEF Between
<1>6. /\ e \in [1 .. n + 1 -> 0 .. count] /\ e[1] = 0 /\ e[n + 1] = count
      /\ \A p, q \in 1 .. n + 1 : p < q => e[p] < e[q]
  BY DEF IsCut, IsAscending
<1>7. /\ cost \in [0 .. n -> Nat] /\ cost[0] = 0
      /\ \A c \in 1 .. n : cost[c] = cost[c - 1] + w(e[c], e[c + 1])
  BY DEF IsCostOf
<1> HIDE DEF count, table, w
<1>8. T = 0 .. n - 1
  <2>1. 0 \in T
    <3>1. 1 \in 1 .. n /\ 1 \in 1 .. n + 1 /\ 2 \in 1 .. n + 1 /\ 1 + 1 = 2 /\ 1 - 1 = 0
          /\ 0 \in 0 .. n - 1 /\ 0 + 1 = 1 /\ 0 + 2 = 2
      OBVIOUS
    <3>2. e[2] \in 0 .. count /\ e[1] < e[2]
      BY <1>6, <3>1
    <3>3. e[2] \in 1 .. count
      BY <1>1, <1>6, <3>2
    <3>4. cost[1] = cost[0] + w(e[1], e[2])
      BY <1>7, <3>1
    <3>5. w(0, e[2]) \in Nat /\ table[1][e[2]].cost = w(0, e[2])
      BY <1>3, <3>3
    <3>6. cost[1] = w(0, e[2])
      BY <1>6, <1>7, <3>4, <3>5
    <3>7. table[1][e[2]].cost <= cost[1]
      BY <3>5, <3>6
    <3> QED BY <3>1, <3>7
  <2>2. ASSUME NEW i \in 0 .. (n - 1) - 1, i \in T PROVE i + 1 \in T
    <3> DEFINE c == i + 2
               s == e[c]
               end == e[c + 1]
    <3>1. /\ c \in 2 .. n /\ c \in 1 .. n /\ c \in 1 .. n + 1 /\ c + 1 \in 1 .. n + 1
          /\ c - 1 = i + 1 /\ c - 1 \in 1 .. n /\ c < c + 1
          /\ i + 1 \in 0 .. n - 1 /\ (i + 1) + 1 = c /\ (i + 1) + 2 = c + 1
      OBVIOUS
    <3>2. table[c - 1][s].cost <= cost[c - 1]
      BY <2>2, <3>1
    <3> HIDE DEF c
    <3>3. s \in 0 .. count /\ end \in 0 .. count /\ s < end
      BY <1>6, <3>1
    <3>4. ~(c = n /\ end = count /\ s = end - 1)
      <4> SUFFICES ASSUME c = n PROVE ~(end = count /\ s = end - 1)
        OBVIOUS
      <4>1. n > 1 /\ s = e[n]
        BY <3>1
      <4>2. s <= count - 2
        BY <4>1 DEF count
      <4> QED BY <1>1, <3>3, <4>2
    <3>5. cost[c] = cost[c - 1] + w(s, end) /\ cost[c - 1] \in Nat
      <4>1. c - 1 \in 0 .. n
        BY <3>1
      <4> QED BY <1>7, <3>1, <4>1
    <3> HIDE DEF s, end
    <3>6. end \in 1 .. count /\ s \in 0 .. end - 1
      BY <1>1, <3>3
    <3>7. table[c][end].cost <= table[c - 1][s].cost + w(s, end)
      BY <1>2, <3>1, <3>4, <3>6
    <3>8. table[c][end].cost \in Nat /\ table[c - 1][s].cost \in Nat /\ w(s, end) \in Nat
      BY <1>4, <1>5, <3>1, <3>3
    <3> DEFINE x == table[c][end].cost
               y == table[c - 1][s].cost
               z == w(s, end)
               u == cost[c - 1]
    <3>9. x \in Nat /\ y \in Nat /\ z \in Nat /\ u \in Nat /\ x <= y + z /\ y <= u
      BY <3>2, <3>5, <3>7, <3>8
    <3>10. x <= u + z
      <4> HIDE DEF x, y, z, u
      <4> QED BY <3>9
    <3>11. table[c][end].cost <= cost[c]
      BY <3>5, <3>10
    <3> QED BY <3>1, <3>11 DEF end
  <2>3. n - 1 \in Nat /\ T \in SUBSET (0 .. n - 1)
    OBVIOUS
  <2> HIDE DEF T
  <2> QED BY <2>1, <2>2, <2>3, UpTo
<1>9. n - 1 \in 0 .. n - 1 /\ (n - 1) + 1 = n /\ (n - 1) + 2 = n + 1
  OBVIOUS
<1>10. table[n][e[n + 1]].cost <= cost[n]
  BY <1>8, <1>9
<1> QED BY <1>6, <1>10 DEF table, count

(* The points the natural breaks cut after: a cut that costs what the      *)
(* table says of all the points.                                           *)
LEMMA TableIsACut ==
  ASSUME NEW points, IsPoints(points), IsScale(points), NEW n \in Nat \ {0}, Len(points) > n
  PROVE  LET ends == ClassEnds(points, Table(points, n), n)
             e == [c \in 1 .. n + 1 |-> IF c = 1 THEN 0 ELSE ends[c - 1]]
         IN  /\ IsCut(points, n, e)
             /\ \A cost : IsCostOf(points, n, e, cost) =>
                             cost[n] = Table(points, n)[n][Len(points)].cost
<1> DEFINE count == Len(points)
           table == Table(points, n)
           ends == ClassEnds(points, table, n)
           w(i, j) == Between(points, i, j)
           e == [c \in 1 .. n + 1 |-> IF c = 1 THEN 0 ELSE ends[c - 1]]
<1>1. count \in Nat /\ count > n
  BY DEF IsPoints
<1>2. /\ \A c \in 1 .. n : ends[c] \in c .. count
      /\ ends[n] = count
      /\ \A c \in 2 .. n : ends[c - 1] < ends[c] /\ ends[c - 1] = table[c][ends[c]].lower
  BY EndsClimb
<1>3. \A end \in 1 .. count : table[1][end].cost = w(0, end) /\ w(0, end) \in Nat
  <2>1. table[1] = FirstRow(points)
    BY <1>1, TableIs
  <2>2. \A end \in 1 .. count : FirstRow(points)[end].cost = w(0, end) /\ w(0, end) \in Nat
    BY <1>1, FirstRowCosts
  <2> QED BY <2>1, <2>2
<1>4. ASSUME NEW c \in 2 .. n, NEW end \in 2 .. count
      PROVE  table[c][end].cost = table[c - 1][table[c][end].lower].cost + w(table[c][end].lower, end)
  <2> DEFINE prev == table[c - 1]
             top == c = n
             row == table[c]
  <2>1. c - 1 \in 1 .. n /\ Len(points) > 2 /\ top \in BOOLEAN
    BY <1>1
  <2>2. IsRow(prev, Len(points)) /\ row = NextRow(points, prev, top)
    BY <1>1, <2>1, TableIs
  <2> HIDE DEF prev, top, row
  <2>3. row[end].cost = SplitCost(points, prev, row[end].lower, end)
    BY <2>1, <2>2, NextRowIs
  <2> QED BY <2>3 DEF prev, row, SplitCost, Between
<1> HIDE DEF count, table, ends, w
<1>5. /\ e \in [1 .. n + 1 -> 0 .. count] /\ e[1] = 0 /\ e[n + 1] = count
      /\ \A c \in 1 .. n : e[c + 1] = ends[c] /\ e[c] < e[c + 1]
  <2>1. ASSUME NEW c \in 1 .. n + 1 PROVE (IF c = 1 THEN 0 ELSE ends[c - 1]) \in 0 .. count
    <3>1. CASE c = 1
      BY <1>1, <3>1
    <3>2. CASE c # 1
      <4>1. c - 1 \in 1 .. n
        BY <3>2
      <4>2. ends[c - 1] \in c - 1 .. count
        BY <1>2, <4>1
      <4> QED BY <1>1, <3>2, <4>1, <4>2
    <3> QED BY <3>1, <3>2
  <2>2. ASSUME NEW c \in 1 .. n PROVE e[c + 1] = ends[c]
    <3>1. c + 1 \in 1 .. n + 1 /\ c + 1 # 1 /\ (c + 1) - 1 = c
      OBVIOUS
    <3> QED BY <3>1
  <2>3. e[1] = 0
    <3>1. 1 \in 1 .. n + 1
      OBVIOUS
    <3> QED BY <3>1
  <2>4. e \in [1 .. n + 1 -> 0 .. count]
    BY <2>1
  <2> HIDE DEF e
  <2>5. e[n + 1] = count
    <3>1. n \in 1 .. n
      OBVIOUS
    <3> QED BY <1>2, <2>2, <3>1
  <2>6. ASSUME NEW c \in 1 .. n PROVE e[c] < e[c + 1]
    <3>1. ends[c] \in c .. count
      BY <1>2
    <3>2. CASE c = 1
      BY <1>1, <2>2, <2>3, <3>1, <3>2
    <3>3. CASE c # 1
      <4>1. c \in 2 .. n /\ c - 1 \in 1 .. n /\ (c - 1) + 1 = c
        BY <3>3
      <4>2. e[c] = ends[c - 1]
        BY <2>2, <4>1
      <4> QED BY <1>2, <2>2, <4>1, <4>2
    <3> QED BY <3>2, <3>3
  <2> QED BY <2>2, <2>3, <2>4, <2>5, <2>6
<1> HIDE DEF e
<1>6. IsCut(points, n, e)
  <2> DEFINE T(i) == {d \in 0 .. n + 1 : i < d => e[i] < e[d]}
  <2>1. ASSUME NEW i \in 1 .. n + 1 PROVE T(i) = 0 .. n + 1
    <3>1. n + 1 \in Nat /\ T(i) \in SUBSET (0 .. n + 1) /\ 0 \in T(i)
      OBVIOUS
    <3>2. ASSUME NEW d \in 0 .. (n + 1) - 1, d \in T(i) PROVE d + 1 \in T(i)
      <4> SUFFICES ASSUME i < d + 1 PROVE e[i] < e[d + 1]
        OBVIOUS
      <4>1. d \in 1 .. n /\ d \in 1 .. n + 1 /\ d + 1 \in 1 .. n + 1 /\ (i = d \/ i < d)
        OBVIOUS
      <4>2. e[d] < e[d + 1] /\ (i < d => e[i] < e[d])
        BY <1>5, <3>2, <4>1
      <4>3. e[i] \in Int /\ e[d] \in Int /\ e[d + 1] \in Int
        BY <1>5, <4>1
      <4> QED BY <4>1, <4>2, <4>3
    <3> HIDE DEF T
    <3> QED BY <3>1, <3>2, UpTo
  <2>2. ASSUME NEW i \in 1 .. n + 1, NEW j \in 1 .. n + 1, i < j PROVE e[i] < e[j]
    <3>1. j \in T(i)
      BY <2>1
    <3> QED BY <2>2, <3>1
  <2>3. e \in Seq(0 .. count) /\ Len(e) = n + 1
    <3> DEFINE V == 0 .. count
    <3>1. n + 1 \in Nat /\ e \in [1 .. n + 1 -> V]
      BY <1>5
    <3> HIDE DEF V
    <3>2. e \in Seq(V) /\ Len(e) = n + 1
      BY <3>1
    <3> QED BY <3>2 DEF V
  <2> QED BY <1>5, <2>2, <2>3 DEF IsCut, IsAscending, count
<1>7. ASSUME NEW cost, IsCostOf(points, n, e, cost) PROVE cost[n] = table[n][count].cost
  <2> DEFINE T == {i \in 0 .. n - 1 : cost[i + 1] = table[i + 1][ends[i + 1]].cost}
  <2>1. /\ cost \in [0 .. n -> Nat] /\ cost[0] = 0
        /\ \A c \in 1 .. n : cost[c] = cost[c - 1] + w(e[c], e[c + 1])
    BY <1>7 DEF IsCostOf, w
  <2>2. 0 \in T
    <3>1. 1 \in 1 .. n /\ 1 - 1 = 0 /\ 0 \in 0 .. n - 1 /\ 0 + 1 = 1
      OBVIOUS
    <3>2. e[1] = 0 /\ e[1 + 1] = ends[1] /\ ends[1] \in 1 .. count
      BY <1>2, <1>5, <3>1
    <3>3. cost[1] = cost[0] + w(e[1], e[1 + 1])
      BY <2>1, <3>1
    <3>4. table[1][ends[1]].cost = w(0, ends[1]) /\ w(0, ends[1]) \in Nat
      BY <1>3, <3>2
    <3>5. cost[1] = w(0, ends[1])
      BY <2>1, <3>2, <3>3, <3>4
    <3> QED BY <3>1, <3>4, <3>5
  <2>3. ASSUME NEW i \in 0 .. (n - 1) - 1, i \in T PROVE i + 1 \in T
    <3> DEFINE c == i + 2
               end == ends[c]
               s == ends[c - 1]
    <3>1. c \in 2 .. n /\ c \in 1 .. n /\ c - 1 = i + 1 /\ c - 1 \in 1 .. n /\ (c - 1) + 1 = c
          /\ i + 1 \in 0 .. n - 1 /\ (i + 1) + 1 = c
      OBVIOUS
    <3>2. cost[c - 1] = table[c - 1][s].cost
      BY <2>3, <3>1
    <3> HIDE DEF c
    <3>3. end \in 2 .. count /\ s = table[c][end].lower
      BY <1>2, <3>1
    <3>4. e[c] = s /\ e[c + 1] = end
      BY <1>5, <3>1
    <3>5. table[c][end].cost = table[c - 1][s].cost + w(s, end)
      <4> HIDE DEF end, s
      <4> QED BY <1>4, <3>1, <3>3
    <3>6. cost[c] = cost[c - 1] + w(s, end)
      BY <2>1, <3>1, <3>4
    <3> QED BY <3>1, <3>2, <3>5, <3>6
  <2>4. n - 1 \in Nat /\ T \in SUBSET (0 .. n - 1)
    OBVIOUS
  <2>5. T = 0 .. n - 1
    <3> HIDE DEF T
    <3> QED BY <2>2, <2>3, <2>4, UpTo
  <2>6. n - 1 \in 0 .. n - 1 /\ (n - 1) + 1 = n
    OBVIOUS
  <2> QED BY <1>2, <2>5, <2>6
<1> QED BY <1>6, <1>7 DEF e, ends, table, count

(* The natural breaks are the best of the reference's cuts.                *)
LEMMA BreaksAreBestCut ==
  ASSUME NEW points, IsPoints(points), IsScale(points), NEW n \in Nat \ {0}, Len(points) > n
  PROVE  IsBestCut(points, n, LowerBounds(points, Table(points, n), n))
<1> DEFINE count == Len(points)
           table == Table(points, n)
           ends == ClassEnds(points, table, n)
           breaks == LowerBounds(points, table, n)
           e == [c \in 1 .. n + 1 |-> IF c = 1 THEN 0 ELSE ends[c - 1]]
           least == table[n][count].cost
           K == CutsOf(n, e)
           J == {i - 1 : i \in {j \in DOMAIN points :
                                  \E b \in 2 .. Len(breaks) - 1 : points[j].value = breaks[b]}}
           all == {CutCost(points, L) : L \in Cuts(points, n)}
<1>1. count \in Nat /\ count > n /\ DOMAIN points = 1 .. count
  BY DEF IsPoints
<1>2. \A i, j \in 1 .. count : i # j => points[i].value # points[j].value
  <2>1. \A i \in 1 .. count : points[i].value \in Int
    <3>1. \A i \in 1 .. count : points[i] \in Point
      BY DEF IsPoints
    <3> QED BY <3>1 DEF Point
  <2>2. \A i, j \in 1 .. count : i < j => points[i].value < points[j].value
    BY DEF IsPoints
  <2> SUFFICES ASSUME NEW i \in 1 .. count, NEW j \in 1 .. count, i # j
               PROVE  points[i].value # points[j].value
    OBVIOUS
  <2>3. i < j \/ j < i
    BY <1>1
  <2> DEFINE x == points[i].value
             y == points[j].value
  <2>4. x \in Int /\ y \in Int /\ (x < y \/ y < x)
    BY <2>1, <2>2, <2>3
  <2> HIDE DEF x, y
  <2>5. x # y
    BY <2>4
  <2> QED BY <2>5 DEF x, y
<1>3. /\ \A c \in 1 .. n : ends[c] \in c .. count
      /\ \A c \in 2 .. n : ends[c - 1] < ends[c]
      /\ n > 1 => ends[n - 1] <= count - 2
  BY EndsClimb
<1>4. IsCut(points, n, e) /\ \A cost : IsCostOf(points, n, e, cost) => cost[n] = least
  BY TableIsACut
<1>5. breaks = [c \in 1 .. n + 1 |->
                  IF c = 1 THEN points[1].value
                  ELSE IF c = n + 1 THEN points[count].value
                  ELSE points[ends[c - 1] + 1].value]
  BY DEF LowerBounds
<1> HIDE DEF count, table, ends, breaks, least
<1>6. /\ breaks \in Seq({breaks[c] : c \in 1 .. n + 1}) /\ Len(breaks) = n + 1
      /\ breaks[1] = points[1].value /\ breaks[n + 1] = points[count].value
      /\ \A c \in 2 .. n : breaks[c] = points[ends[c - 1] + 1].value
  <2>1. DOMAIN breaks = 1 .. n + 1 /\ breaks = [c \in 1 .. n + 1 |-> breaks[c]]
    BY <1>5
  <2>2. breaks \in Seq({breaks[c] : c \in 1 .. n + 1}) /\ Len(breaks) = n + 1
    <3> DEFINE V == {breaks[c] : c \in 1 .. n + 1}
    <3>1. breaks \in [1 .. n + 1 -> V] /\ n + 1 \in Nat
      BY <2>1
    <3> HIDE DEF V
    <3>2. breaks \in Seq(V) /\ Len(breaks) = n + 1
      BY <3>1
    <3> QED BY <3>2 DEF V
  <2>3. 1 \in 1 .. n + 1 /\ n + 1 \in 1 .. n + 1 /\ n + 1 # 1
        /\ \A c \in 2 .. n : c \in 1 .. n + 1 /\ c # 1 /\ c # n + 1
    OBVIOUS
  <2> QED BY <1>5, <2>2, <2>3
<1>7. breaks[1] = points[1].value /\ Last(breaks) = Last(points).value
  BY <1>6 DEF Last, count
<1>8. \A c \in 2 .. n : e[c] = ends[c - 1]
  OBVIOUS
<1> HIDE DEF e
<1>9. /\ e \in [1 .. n + 1 -> 0 .. count]
      /\ \A p, q \in 1 .. n + 1 : p < q => e[p] < e[q]
  BY <1>4 DEF IsCut, IsAscending, count
<1>10. \A c \in 2 .. n : e[c] \in 1 .. count - 2
  <2> SUFFICES ASSUME NEW c \in 2 .. n PROVE e[c] \in 1 .. count - 2
    OBVIOUS
  <2>1. c - 1 \in 1 .. n /\ n \in 2 .. n /\ n > 1 /\ n \in 1 .. n + 1 /\ c \in 1 .. n + 1
    OBVIOUS
  <2>2. ends[c - 1] \in c - 1 .. count
    BY <1>3, <2>1
  <2>3. e[c] \in c - 1 .. count /\ e[c] \in 1 .. count
    BY <1>1, <1>8, <2>2
  <2>4. e[n] <= count - 2 /\ e[n] \in 0 .. count
    BY <1>3, <1>8, <1>9, <2>1
  <2>5. c = n \/ e[c] < e[n]
    BY <1>9, <2>1
  <2> QED BY <1>1, <2>3, <2>4, <2>5
<1>11. J = K
  <2> DEFINE D == {j \in DOMAIN points : \E b \in 2 .. Len(breaks) - 1 : points[j].value = breaks[b]}
  <2>1. Len(breaks) - 1 = n
    BY <1>6
  <2>2. ASSUME NEW j \in D PROVE j - 1 \in K
    <3>1. PICK b \in 2 .. n : points[j].value = breaks[b]
      BY <2>1
    <3>2. breaks[b] = points[e[b] + 1].value /\ e[b] \in 1 .. count - 2
      BY <1>6, <1>8, <1>10
    <3>3. j \in 1 .. count /\ e[b] + 1 \in 1 .. count
      BY <1>1, <3>2
    <3>4. j = e[b] + 1
      BY <1>2, <3>1, <3>2, <3>3
    <3>5. j - 1 = e[b]
      BY <3>2, <3>4
    <3> QED BY <3>5 DEF CutsOf
  <2>3. ASSUME NEW c \in 2 .. n PROVE \E j \in D : e[c] = j - 1
    <3> DEFINE j == e[c] + 1
    <3>1. e[c] \in 1 .. count - 2 /\ breaks[c] = points[j].value
      BY <1>6, <1>8, <1>10
    <3>2. j \in 1 .. count /\ e[c] = j - 1
      BY <1>1, <3>1
    <3>3. c \in 2 .. Len(breaks) - 1
      BY <2>1
    <3> HIDE DEF j
    <3>4. j \in D
      BY <1>1, <3>1, <3>2, <3>3
    <3> QED BY <3>2, <3>4
  <2>4. J = {j - 1 : j \in D} /\ K = {e[c] : c \in 2 .. n}
    BY DEF CutsOf
  <2> HIDE DEF D, J, K
  <2>5. \A v \in J : v \in K
    BY <2>2, <2>4
  <2>6. \A v \in K : v \in J
    BY <2>3, <2>4
  <2> QED BY <2>5, <2>6
<1>12. K \in Cuts(points, n)
  <2> DEFINE f == [i \in 1 .. n - 1 |-> e[i + 1]]
  <2>1. n - 1 \in Nat /\ \A i \in 1 .. n - 1 : i + 1 \in 2 .. n /\ i + 1 \in 1 .. n + 1
    OBVIOUS
  <2>2. f \in [1 .. n - 1 -> Int] /\ \A i \in 1 .. n - 1 : f[i] = e[i + 1]
    BY <1>10, <2>1
  <2> HIDE DEF f
  <2>3. f \in Seq(Int) /\ Len(f) = n - 1
    BY <2>1, <2>2
  <2>4. IsAscending(f)
    <3> SUFFICES ASSUME NEW i \in 1 .. n - 1, NEW j \in 1 .. n - 1, i < j PROVE f[i] < f[j]
      BY <2>3 DEF IsAscending
    <3>1. i + 1 < j + 1
      OBVIOUS
    <3> QED BY <1>9, <2>1, <2>2, <3>1
  <2>5. K = {f[i] : i \in 1 .. Len(f)}
    <3>1. ASSUME NEW v \in K PROVE \E i \in 1 .. n - 1 : v = f[i]
      <4>1. PICK c \in 2 .. n : v = e[c]
        BY DEF CutsOf
      <4>2. c - 1 \in 1 .. n - 1 /\ (c - 1) + 1 = c
        OBVIOUS
      <4> QED BY <2>2, <4>1, <4>2
    <3>2. ASSUME NEW i \in 1 .. n - 1 PROVE f[i] \in K
      BY <2>1, <2>2 DEF CutsOf
    <3> HIDE DEF K
    <3> QED BY <2>3, <3>1, <3>2
  <2> HIDE DEF K
  <2>6. Cardinality(K) = n - 1
    BY <2>3, <2>4, <2>5, AscendingOf
  <2>7. K \in SUBSET (1 .. count - 2)
    BY <1>10 DEF K, CutsOf
  <2> QED BY <2>6, <2>7 DEF Cuts, kSubset, count
<1>13. CutCost(points, K) = least
  <2>1. PICK cost : IsCostOf(points, n, e, cost) /\ CutCost(points, K) = cost[n]
    BY <1>4, CutCostIs
  <2> QED BY <1>4, <2>1
<1> HIDE DEF K, J, all
<1>14. ASSUME NEW L \in Cuts(points, n) PROVE least <= CutCost(points, L) /\ CutCost(points, L) \in Nat
  <2>1. Len(points) > n
    OBVIOUS
  <2>2. PICK d : /\ IsCut(points, n, d) /\ L = CutsOf(n, d)
                 /\ n > 1 => d[n] <= Len(points) - 2
    BY <2>1, CutsAre
  <2>3. PICK cost : IsCostOf(points, n, d, cost) /\ CutCost(points, CutsOf(n, d)) = cost[n]
    BY <2>2, CutCostIs
  <2>4. Table(points, n)[n][Len(points)].cost <= cost[n]
    BY <2>1, <2>2, <2>3, NoCutIsBetter
  <2>5. cost[n] \in Nat
    <3>1. n \in 0 .. n
      OBVIOUS
    <3> QED BY <2>3, <3>1 DEF IsCostOf
  <2> QED BY <2>2, <2>3, <2>4, <2>5 DEF least, table, count
<1>15. least \in all /\ \A x \in all : least <= x /\ x \in Nat
  BY <1>12, <1>13, <1>14 DEF all
<1>16. Min(all) = least
  <2>1. Min(all) \in all /\ \A x \in all : Min(all) <= x
    <3>1. \E x \in all : \A y \in all : x <= y
      BY <1>15
    <3> QED BY <3>1 DEF Min
  <2>2. Min(all) <= least /\ least <= Min(all) /\ Min(all) \in Nat /\ least \in Nat
    BY <1>15, <2>1
  <2> DEFINE x == Min(all)
  <2>3. x <= least /\ least <= x /\ x \in Nat /\ least \in Nat
    BY <2>2
  <2>4. x = least
    <3> HIDE DEF x
    <3> QED BY <2>3
  <2> QED BY <2>4
<1>17. /\ Len(breaks) = n + 1
       /\ breaks[1] = points[1].value /\ Last(breaks) = Last(points).value
       /\ J \in Cuts(points, n)
       /\ CutCost(points, J) = Min(all)
  BY <1>6, <1>7, <1>11, <1>12, <1>13, <1>16
<1> QED BY <1>17 DEF IsBestCut, J, all, breaks, table

(* Of the partitions of a column's points into the classes asked for, with *)
(* two points at least in the top one, the natural breaks are one of least *)
(* squared deviation: _weighted_natural_breaks of                          *)
(* symbology/classifiers.py loses none by where it starts its search.      *)
THEOREM BreaksAreBest == ClassSpec => []NaturalBreaksAreBest
<1>1. ClassInv => NaturalBreaksAreBest
  <2> SUFFICES ASSUME ClassInv, Classified({"natural_breaks"}),
                      Len(Points(asked.column, Values)) > asked.n
               PROVE  IsBestCut(Points(asked.column, Values), asked.n, answer)
    BY DEF NaturalBreaksAreBest
  <2> DEFINE column == asked.column
             S == Values
             n == asked.n
             points == Points(column, S)
  <2>1. /\ IsFiniteSet(DOMAIN column) /\ DOMAIN column \subseteq Int
        /\ column \in [DOMAIN column -> Nat] /\ n \in Nat \ {0}
    BY AskedAssumption DEF ClassInv
  <2>2. IsScale(points)
    BY ScaleAssumption DEF ClassInv, IsScale, Values
  <2>3. S \subseteq DOMAIN column /\ \A v \in S : column[v] > 0
    BY DEF Values, Included
  <2>4. classified /\ asked.method = "natural_breaks"
    BY DEF Classified
  <2>5. answer = NaturalBreaks(points, n)
    <3>1. answer = Classify(asked.method, column, S, n)
      BY <2>4 DEF ClassInv
    <3> QED BY <2>4, <3>1 DEF Classify
  <2>6. Len(points) > n
    OBVIOUS
  <2> HIDE DEF S, column, n
  <2>7. S \in SUBSET Int /\ IsFiniteSet(S)
    BY <2>1, <2>3, FS_Subset
  <2>8. \A v \in S : column[v] \in Nat \ {0}
    <3> SUFFICES ASSUME NEW v \in S PROVE column[v] \in Nat \ {0}
      OBVIOUS
    <3>1. column[v] \in Nat /\ column[v] > 0
      BY <2>1, <2>3
    <3> QED BY <3>1
  <2>9. points # <<>>
    <3>1. Len(<<>>) = 0
      OBVIOUS
    <3> HIDE DEF points
    <3> QED BY <2>1, <2>6, <3>1
  <2>10. S # {}
    <3> SUFFICES ASSUME S = {} PROVE FALSE
      OBVIOUS
    <3>1. Points(column, {}) = <<>>
      BY <2>1, NoValues
    <3> QED BY <2>9, <3>1
  <2>11. IsPoints(points) /\ Len(points) \in Nat
    BY <2>7, <2>8, <2>10, PointsAre
  <2> HIDE DEF points
  <2>12. answer = LowerBounds(points, Table(points, n), n)
    <3>1. ~(Len(points) <= n)
      BY <2>1, <2>6, <2>11
    <3> QED BY <2>5, <2>9, <3>1 DEF NaturalBreaks
  <2>13. IsBestCut(points, n, answer)
    BY <2>1, <2>2, <2>6, <2>11, <2>12, BreaksAreBestCut
  <2> QED BY <2>13 DEF points, column, S, n
<1> QED BY <1>1, AnswerIsClassify, PTL
==============================================================================
