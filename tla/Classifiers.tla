----------------------------- MODULE Classifiers -----------------------------
(***************************************************************************)
(* How a layer's column becomes the classes of its legend, and the classes *)
(* the colors of the map: the break points of symbology/classifiers.py,    *)
(* the style classes of auto.py and the `step` expression of generator.py. *)
(*                                                                         *)
(* A column is a function from the values it may hold to the number of     *)
(* rows that hold them.  Values are integers, so that the sums of squares  *)
(* of the natural breaks are exact; the code computes them in floats.      *)
(***************************************************************************)
EXTENDS Integers, Sequences, FiniteSets, SequencesExt, FiniteSetsExt

CONSTANTS
  Buckets,   \* points the natural breaks are computed from (300 in the code)
  Scale,     \* a multiple of every number of rows: sums of squares are scaled
  Asked      \* columns, each with a method, a number of classes, and whether
             \* the map hides zeros

Methods == {"natural_breaks", "quantile", "equal_interval"}

(* The values that are classified: all, or those the map does not hide.    *)
Included(column, exclude_zero) ==
  {v \in DOMAIN column : column[v] > 0 /\ ~(exclude_zero /\ v = 0)}

(* The rows that hold values of S, each a value and a number.              *)
RowsOf(column, S) == UNION {{v} \X (1 .. column[v]) : v \in S}

(* ORDER BY val: the value of the p-th row has fewer than p rows below it, *)
(* and p or more at it or below.                                           *)
Sorted(rows) ==
  [p \in 1 .. Cardinality(rows) |->
     CHOOSE v \in {r[1] : r \in rows} :
       /\ Cardinality({r \in rows : r[1] < v}) < p
       /\ p <= Cardinality({r \in rows : r[1] <= v})]

Ascending(S) == Sorted(S \X {1})

(* NTILE(tiles): the last row of tile t.  The earlier tiles take the       *)
(* remainder.                                                              *)
TileEnd(rows, tiles, t) == t * (rows \div tiles) + Min({t, rows % tiles})

(* Every break that differs from the one before it.                        *)
DedupeAdjacent(breaks) ==
  LET kept == Ascending({i \in DOMAIN breaks : i = 1 \/ breaks[i] # breaks[i - 1]})
  IN  [i \in DOMAIN kept |-> breaks[kept[i]]]

(* _quantile_tile_edges: the minimum, then the maximum of every tile.      *)
TileEdges(vals, n) ==
  IF vals = <<>> THEN <<0>>
  ELSE DedupeAdjacent([t \in 1 .. Min({n, Len(vals)}) + 1 |->
                         IF t = 1 THEN vals[1] ELSE vals[TileEnd(Len(vals), n, t - 1)]])

(* Mutant: no second pass over the distinct values.                        *)
QuantileBreaksByRowsOnly(column, S, n) == TileEdges(Sorted(RowsOf(column, S)), n)

(* _quantile_breaks: ties that swallow whole tiles call for a second pass  *)
(* over the distinct values, kept when it gives more classes.              *)
QuantileBreaks(column, S, n) ==
  LET breaks == TileEdges(Sorted(RowsOf(column, S)), n)
      distinct == TileEdges(Ascending(S), n)
  IN  IF Len(breaks) - 1 < n /\ Len(distinct) > Len(breaks) THEN distinct ELSE breaks

EqualIntervalBreaks(S, n) ==
  LET min == IF S = {} THEN 0 ELSE Min(S)
      max == IF S = {} THEN 0 ELSE Max(S)
  IN  [i \in 1 .. n + 1 |-> n * min + (max - min) * (i - 1)]

-----------------------------------------------------------------------------
(* _natural_breaks_points: buckets of distinct values, each a value and    *)
(* the number of rows it stands for; the last stands at the maximum.       *)
Points(column, S) ==
  LET vals == Ascending(S)
      count == Min({Buckets, Len(vals)})
      bucket(t) == {vals[p] : p \in TileEnd(Len(vals), Buckets, t - 1) + 1
                                       .. TileEnd(Len(vals), Buckets, t)}
  IN  [t \in 1 .. count |->
         [value |-> IF t = count THEN Max(bucket(t)) ELSE Min(bucket(t)),
          weight |-> Cardinality(RowsOf(column, bucket(t)))]]

(* prefix_weight, prefix_sum and prefix_squares, after one more point.     *)
Plus(sums, p) ==
  [weight |-> sums.weight + p.weight,
   total |-> sums.total + p.weight * p.value,
   squares |-> sums.squares + p.weight * p.value * p.value]

PrefixSums(points) ==
  LET sums[i \in 0 .. Len(points)] ==
        IF i = 0 THEN [weight |-> 0, total |-> 0, squares |-> 0]
        ELSE Plus(sums[i - 1], points[i])
  IN  sums

(* class_cost: Scale times the squared deviations of points low..high.     *)
ClassCost(points, low, high) ==
  LET sums == PrefixSums(points)
      weight == sums[high].weight - sums[low - 1].weight
      total == sums[high].total - sums[low - 1].total
      squares == sums[high].squares - sums[low - 1].squares
  IN  Scale * squares - (Scale \div weight) * total * total

(* The costs of one class over the first `end` points.                     *)
FirstRow(points) ==
  [end \in 0 .. Len(points) |->
     CASE end = 0 -> [lower |-> 0, cost |-> 0]
       [] end = 1 -> [lower |-> 1, cost |-> 0]
       [] OTHER   -> [lower |-> 0, cost |-> ClassCost(points, 1, end)]]

(* Mutant: the top class may be the largest value alone.                   *)
SplitsToTheEnd(prev, end, top, count) == prev[end - 1].lower .. end - 1

(* Where the last class may start after: no earlier than one class less,   *)
(* one point shorter; and the top class is left at least two points.       *)
Splits(prev, end, top, count) ==
  prev[end - 1].lower .. (IF top /\ end = count THEN end - 2 ELSE end - 1)

(* One more class: the first split of the least cost.                      *)
NextRow(points, prev, top) ==
  LET cost(split, end) == prev[split].cost + ClassCost(points, split + 1, end)
      best(end) ==
        LET splits == Splits(prev, end, top, Len(points))
            least == Min({cost(s, end) : s \in splits})
        IN  [lower |-> Min({s \in splits : cost(s, end) = least}), cost |-> least]
  IN  [end \in 0 .. Len(points) |->
         CASE end = 0 -> [lower |-> 0, cost |-> 0]
           [] end = 1 -> [lower |-> 1, cost |-> 0]
           [] OTHER   -> best(end)]

(* lower and variance of every number of classes.                          *)
Table(points, n) ==
  LET table[c \in 1 .. n] ==
        IF c = 1 THEN FirstRow(points) ELSE NextRow(points, table[c - 1], c = n)
  IN  table

(* The last point of every class, found from the top class down.           *)
ClassEnds(points, table, n) ==
  LET ends[c \in 0 .. n] == IF c = n THEN Len(points) ELSE table[c + 1][ends[c + 1]].lower
  IN  ends

(* _lower_bounds_from_dp                                                   *)
LowerBounds(points, table, n) ==
  [c \in 1 .. n + 1 |->
     IF c = 1 THEN points[1].value
     ELSE IF c = n + 1 THEN points[Len(points)].value
     ELSE points[ClassEnds(points, table, n)[c - 1] + 1].value]

(* _weighted_natural_breaks.  The points of distinct values are distinct,  *)
(* so there is nothing for _merge_equal_points to merge.                   *)
NaturalBreaks(points, n) ==
  IF points = <<>> THEN <<0>>
  ELSE IF Len(points) <= n THEN [i \in DOMAIN points |-> points[i].value]
  ELSE LowerBounds(points, Table(points, n), n)

(* classify.  Equal intervals are kept as multiples of 1/n.                *)
Classify(method, column, S, n) ==
  CASE method = "natural_breaks" -> NaturalBreaks(Points(column, S), n)
    [] method = "quantile"       -> QuantileBreaks(column, S, n)
    [] method = "equal_interval" -> EqualIntervalBreaks(S, n)

(* auto_generate_symbology: one style class between two breaks.            *)
StyleClasses(breaks) ==
  [i \in 1 .. Len(breaks) - 1 |-> [min_value |-> breaks[i], max_value |-> breaks[i + 1]]]

(* Mutant: a class is drawn from its upper bound on.                       *)
DrawnFromMaximum(classes, v) ==
  Max({1} \cup {i \in 2 .. Len(classes) : v >= classes[i].max_value})

(* _graduated_paint: the first color below the second class's minimum, and *)
(* a step at every later minimum; a single class is a flat color.          *)
Drawn(classes, v) ==
  Max({1} \cup {i \in 2 .. Len(classes) : v >= classes[i].min_value})

-----------------------------------------------------------------------------
ASSUME BucketsAssumption == Buckets \in Nat /\ Buckets >= 2

ASSUME AskedAssumption ==
  \A a \in Asked :
    /\ IsFiniteSet(DOMAIN a.column) /\ DOMAIN a.column \subseteq Int
    /\ a.column \in [DOMAIN a.column -> Nat]
    /\ a.method \in Methods /\ a.n \in Nat \ {0} /\ a.exclude_zero \in BOOLEAN

ASSUME ScaleAssumption ==
  /\ Scale \in Nat \ {0}
  /\ \A a \in Asked :
       LET points == Points(a.column, Included(a.column, a.exclude_zero))
       IN  \A w \in 1 .. PrefixSums(points)[Len(points)].weight : Scale % w = 0

VARIABLES
  asked,       \* the column, the method and the number of classes
  classified,  \* has it been classified?
  answer       \* the breaks

classVars == <<asked, classified, answer>>

ClassInit ==
  /\ asked \in Asked
  /\ classified = FALSE
  /\ answer = <<>>

Values == Included(asked.column, asked.exclude_zero)

ClassifyColumn ==
  /\ ~classified
  /\ classified' = TRUE
  /\ answer' = Classify(asked.method, asked.column, Values, asked.n)
  /\ UNCHANGED asked

ClassSpec == ClassInit /\ [][ClassifyColumn]_classVars

-----------------------------------------------------------------------------
(* The reference: a partition cuts the points after those of K, and costs  *)
(* the squared deviations of its classes.                                  *)
CutCost(points, K) ==
  LET ends == Ascending({0, Len(points)} \cup K)
      cost[c \in 0 .. Len(ends) - 1] ==
        IF c = 0 THEN 0
        ELSE cost[c - 1] + ClassCost(points, ends[c] + 1, ends[c + 1])
  IN  cost[Len(ends) - 1]

Cuts(points, n) == kSubset(n - 1, 1 .. Len(points) - 2)

IsBestCut(points, n, breaks) ==
  LET K == {i - 1 : i \in {j \in DOMAIN points :
                             \E b \in 2 .. Len(breaks) - 1 : points[j].value = breaks[b]}}
  IN  /\ Len(breaks) = n + 1
      /\ breaks[1] = points[1].value /\ Last(breaks) = Last(points).value
      /\ K \in Cuts(points, n)
      /\ CutCost(points, K) = Min({CutCost(points, L) : L \in Cuts(points, n)})

Classified(methods) ==
  /\ classified
  /\ asked.method \in methods

Legend == StyleClasses(answer)

(* With more points than classes, the natural breaks are a partition of    *)
(* the least squared deviation among all partitions into that many classes *)
(* whose top class has two points: restricting the search to splits at or  *)
(* after those of a smaller problem loses nothing.                         *)
NaturalBreaksAreBest ==
  Classified({"natural_breaks"}) =>
    LET points == Points(asked.column, Values)
    IN  Len(points) > asked.n => IsBestCut(points, asked.n, answer)

(* A legend from the column's own values has as many classes as asked for, *)
(* however the rows tie; its boundaries ascend from the smallest to the    *)
(* largest value.  Where the column has no more values than classes asked  *)
(* for, every value begins a class but the largest, which shares the class *)
(* of the one below it: one class fewer than values, and none for a single *)
(* value.  "Fewer values than classes: each value gets its own class"      *)
(* (classifiers.py:411) counts the breaks (tests/workspace/                *)
(* test_classifiers.py:116), not the classes auto.py makes of them.        *)
NoClassIsLost ==
  (Classified({"natural_breaks", "quantile"}) /\ Values # {}) =>
    LET b == answer
        distinct == IF asked.method = "quantile" THEN Cardinality(Values)
                    ELSE Min({Cardinality(Values), Buckets})
    IN  /\ Len(b) - 1 = IF asked.n < distinct THEN asked.n ELSE distinct - 1
        /\ b[1] = Min(Values) /\ Last(b) = Max(Values)
        /\ \A i \in 1 .. Len(b) - 1 : b[i] < b[i + 1]
        /\ (asked.n >= distinct /\ distinct = Cardinality(Values)) =>
             \A v \in Values : \E i \in DOMAIN b : b[i] = v

(* The map draws what the legend says: a feature has the color of a class  *)
(* whose range holds its value, and, for the methods that read the column, *)
(* every class of the legend colors some feature.                          *)
MapShowsTheLegend ==
  (Classified(Methods) /\ Legend # <<>>) =>
    LET scale == IF asked.method = "equal_interval" THEN asked.n ELSE 1
        drawn == [v \in Values |-> Drawn(Legend, scale * v)]
    IN  /\ \A v \in Values : /\ Legend[drawn[v]].min_value <= scale * v
                             /\ scale * v <= Legend[drawn[v]].max_value
        /\ asked.method # "equal_interval" =>
             \A i \in DOMAIN Legend : \E v \in Values : drawn[v] = i
==============================================================================
