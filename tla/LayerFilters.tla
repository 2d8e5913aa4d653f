---------------------------- MODULE LayerFilters ----------------------------
(***************************************************************************)
(* A layer filter is a tree of conditions, compiled twice: to the SQL      *)
(* predicate its own layer's rows are selected by, and to the MapLibre     *)
(* expression the editor's preview hands to the map.                       *)
(*                                                                         *)
(* A row has a column of numbers and a column of text; Missing is SQL's    *)
(* NULL, a property the tile does not have, and the value of a condition   *)
(* left empty.  touches and near say where the row's geometry lies to the  *)
(* layer a spatial condition reads, without and with its buffer.           *)
(*                                                                         *)
(* A tree is the sequence of its nodes, the root first; a group has the    *)
(* numbers of its children, which come after it.                           *)
(***************************************************************************)
EXTENDS Integers, Sequences, SequencesExt, FiniteSets

CONSTANTS
  Missing,
  Rows,     \* the rows of the filter's own layer
  Trees     \* the trees that are compiled

(* _SQL_COMPARISONS, _MAPLIBRE_COMPARISONS                                 *)
Equalities == {"eq", "neq"}
Orderings == {"gt", "gte", "lt", "lte"}

(* NUMERIC_OPERATORS and TEXT_OPERATORS of the editor, with the older      *)
(* callers' IN and NOT IN.                                                 *)
Operators ==
  [num |-> Equalities \cup Orderings \cup {"is_null", "is_not_null", "IN", "NOT IN"},
   txt |-> Equalities \cup {"contains", "is_null", "is_not_null", "IN", "NOT IN"}]

Column(field, operator, value) ==
  [type |-> "column", field |-> field, operator |-> operator, value |-> value]

Spatial(mode, buffered, known) ==
  [type |-> "spatial", mode |-> mode, buffered |-> buffered, known |-> known]

Group(operator, children) ==
  [type |-> "group", operator |-> operator, children |-> children]

(* A filter whose filter_json is empty, as a root or as a child.           *)
NoFilter == [type |-> "blank"]

(* What a list of values holds is never missing.                           *)
IsNode(node) ==
  \/ /\ node.type = "column"
     /\ node.field \in DOMAIN Operators /\ node.operator \in Operators[node.field]
     /\ node.operator \in {"IN", "NOT IN"} => Missing \notin node.value
  \/ node.type = "spatial" /\ node.mode \in {"intersects", "excludes"}
  \/ node.type = "group" /\ node.operator \in {"AND", "OR"}
  \/ node.type = "blank"

Children(t, i) == IF t[i].type = "group" THEN ToSet(t[i].children) ELSE {}

IsTree(t) ==
  /\ Len(t) \in Nat \ {0} /\ DOMAIN t = 1 .. Len(t)
  /\ \A i \in DOMAIN t : IsNode(t[i]) /\ Children(t, i) \subseteq i + 1 .. Len(t)
  /\ \A c \in 2 .. Len(t) : \E i \in 1 .. c - 1 : c \in Children(t, i)

ASSUME TreesAssumption == \A t \in Trees : IsTree(t)

Compares(operator, a, b) ==
  \/ operator = "gt" /\ a > b
  \/ operator = "gte" /\ a >= b
  \/ operator = "lt" /\ a < b
  \/ operator = "lte" /\ a <= b

(* A text stands for its place in Texts.                                   *)
Texts == << <<>>, <<"a">>, <<"A">>, <<"a", "b">> >>

LowerCase(text) == [i \in DOMAIN text |-> IF text[i] = "A" THEN "a" ELSE text[i]]

(* strpos and index-of: does the lower-cased column hold the value?        *)
Holds(c, v) ==
  LET text == LowerCase(Texts[c])
      part == Texts[v]
  IN  \E i \in 0 .. Len(text) - Len(part) : SubSeq(text, i + 1, i + Len(part)) = part

-----------------------------------------------------------------------------
(* SQL: a predicate is true, false or unknown.                             *)
Sql(b) == IF b THEN "true" ELSE "false"

(* Mutant: NOT IN without the COALESCE.                                    *)
NotListedBare(c, v) == c # Missing /\ c \notin v

(* NOT COALESCE(c IN v, FALSE)                                             *)
NotListed(c, v) == ~(c # Missing /\ c \in v)

(* _sql_column                                                             *)
SqlColumn(node, row) ==
  LET c == row[node.field]
      v == node.value
  IN  IF node.operator \in Orderings
      THEN IF Missing \in {c, v} THEN "unknown" ELSE Sql(Compares(node.operator, c, v))
      ELSE IF node.operator = "contains"
      THEN IF c = Missing THEN "unknown" ELSE Sql(Holds(c, v))
      ELSE Sql(\/ node.operator = "eq" /\ c = v
               \/ node.operator = "neq" /\ c # v
               \/ node.operator = "is_null" /\ c = Missing
               \/ node.operator = "is_not_null" /\ c # Missing
               \/ node.operator = "IN" /\ c # Missing /\ c \in v
               \/ node.operator = "NOT IN" /\ NotListed(c, v))

(* spatial_predicate: an EXISTS is never unknown.                          *)
SpatialPredicate(node, row) ==
  LET exists == IF node.buffered THEN row.near ELSE row.touches
  IN  Sql(IF node.mode = "excludes" THEN ~exists ELSE exists)

(* PostgreSQL's AND and OR over a set of operands.                         *)
SqlJoin(operator, S) ==
  LET decisive == IF operator = "AND" THEN "false" ELSE "true"
  IN  IF decisive \in S THEN decisive
      ELSE IF "unknown" \in S THEN "unknown"
      ELSE IF operator = "AND" THEN "true" ELSE "false"

Conditions(t, i) == {c \in Children(t, i) : t[c].type # "blank"}

(* _sql_node of every node; the empty tree is compile's.                   *)
SqlNode(t, row) ==
  LET sql[i \in DOMAIN t] ==
        IF t[i].type = "column" THEN SqlColumn(t[i], row)
        ELSE IF t[i].type = "spatial" THEN SpatialPredicate(t[i], row)
        ELSE IF Conditions(t, i) = {} THEN "true"
        ELSE SqlJoin(t[i].operator, {sql[c] : c \in Conditions(t, i)})
  IN  sql

(* with_filter_refs: a filter gets a model when every layer it reads has a *)
(* projection.                                                             *)
Resolved(t) == \A i \in DOMAIN t : t[i].type = "spatial" => t[i].known

(* The rows of the filter's own layer.                                     *)
Filtered(t, rows) == {row \in rows : SqlNode(t, row)[1] = "true"}

-----------------------------------------------------------------------------
(* MapLibre (external): an expression it cannot parse is refused and the   *)
(* map keeps the filter it had; one that fails on a feature hides it.      *)

(* _compile_maplibre_group drops blank and spatial children.               *)
Previewed(t, i) == {c \in Conditions(t, i) : t[c].type # "spatial"}

(* An ordering takes no null, and "and" and "or", which a group compiles   *)
(* to, are not operators of MapLibre.                                      *)
Parses(t) ==
  /\ t[1].type = "column" /\ t[1].operator \in Orderings => t[1].value # Missing
  /\ t[1].type = "group" => Previewed(t, 1) = {}

(* _compile_maplibre_column, as MapLibre evaluates it.                     *)
MapColumn(node, row) ==
  LET c == row[node.field]
      v == node.value
  IN  \/ node.operator = "eq" /\ c = v
      \/ node.operator = "neq" /\ c # v
      \/ node.operator \in Orderings /\ c # Missing /\ Compares(node.operator, c, v)
      \/ node.operator = "contains" /\ c # Missing /\ Holds(c, v)
      \/ node.operator = "is_null" /\ c = Missing
      \/ node.operator = "is_not_null" /\ c # Missing
      \/ node.operator = "IN" /\ c \in v
      \/ node.operator = "NOT IN" /\ c \notin v

(* compile_to_maplibre and the page's setFilter: what the map draws then,  *)
(* of the rows it draws before.                                            *)
Preview(t, rows, before) ==
  IF ~Parses(t) THEN before
  ELSE IF t[1].type = "column" THEN {row \in rows : MapColumn(t[1], row)}
  ELSE rows

-----------------------------------------------------------------------------
VARIABLES
  tree,      \* the filter
  compiled,  \* has it been saved and shown?
  filtered,  \* the rows of its model
  preview    \* the rows the map draws in the editor

filterVars == <<tree, compiled, filtered, preview>>

FilterInit ==
  /\ tree \in Trees
  /\ compiled = FALSE
  /\ filtered = {}
  /\ preview = {}

CompileFilter ==
  /\ ~compiled
  /\ Resolved(tree)
  /\ compiled' = TRUE
  /\ filtered' = Filtered(tree, Rows)
  /\ preview' = Preview(tree, Rows, preview)
  /\ UNCHANGED tree

FilterSpec == FilterInit /\ [][CompileFilter]_filterVars

-----------------------------------------------------------------------------
(* What a tree says: a group restricts by its conditions, a group without  *)
(* any does not restrict, and a comparison with something missing fails.   *)
Restricting(t, i) ==
  {c \in Conditions(t, i) : t[c].type = "group" => Conditions(t, c) # {}}

Says(t, row) ==
  LET says[i \in DOMAIN t] ==
        IF t[i].type = "column" THEN SqlColumn(t[i], row) = "true"
        ELSE IF t[i].type = "spatial" THEN SpatialPredicate(t[i], row) = "true"
        ELSE IF Restricting(t, i) = {} THEN TRUE
        ELSE IF t[i].operator = "AND" THEN \A c \in Restricting(t, i) : says[c]
        ELSE \E c \in Restricting(t, i) : says[c]
  IN  says

SpatialIn(t) == \E i \in DOMAIN t : t[i].type = "spatial"

OrOfNothing(t) ==
  \E i \in DOMAIN t : /\ t[i].type = "group" /\ t[i].operator = "OR"
                      /\ Conditions(t, i) # Restricting(t, i)

(* A filtered layer has the rows its tree describes, whatever is NULL and  *)
(* however groups are nested, and a preview that MapLibre takes shows the  *)
(* same rows where no spatial condition is left out of it.  An empty group *)
(* inside an OR is the exception: it lets every row through.               *)
FilterDrawsItsTree ==
  compiled =>
    /\ ~OrOfNothing(tree) => filtered = {row \in Rows : Says(tree, row)[1]}
    /\ Parses(tree) /\ ~SpatialIn(tree) => preview = filtered
=============================================================================
