------------------------------- MODULE MCRules -------------------------------
(***************************************************************************)
(* Three algorithms run over every small input: the classification of a    *)
(* column (Classifiers), the order of an analysis' modules (ModuleOrder)   *)
(* and the compilers of a layer filter (LayerFilters).  One of them has a  *)
(* problem to solve, the others have none.                                 *)
(***************************************************************************)
EXTENDS Classifiers, ModuleOrder, LayerFilters

CONSTANTS
  MaxValue,    \* columns hold the values 0..MaxValue
  MaxRows,     \* bound on the rows that hold one value
  MaxClasses,  \* bound on the classes asked for
  Named        \* the modules of an invented dependency graph

VARIABLE turn   \* which of the three runs

Columns == {c \in [0 .. MaxValue -> 0 .. MaxRows] : \E v \in 0 .. MaxValue : c[v] > 0}

MCAsked ==
  [column : Columns, method : Methods, n : 1 .. MaxClasses, exclude_zero : BOOLEAN]

-----------------------------------------------------------------------------
(* A module that is not registered.                                        *)
Stranger == "stranger"

MCModule == Named \cup {Stranger} \cup DOMAIN ModuleDependencies

MCOrderProblems ==
  [graph : [Named -> {SetToSeq(S) : S \in SUBSET Named}],
   requested : {<<a, b>> : a, b \in Named \cup {Stranger}}]
    \cup [graph : {ModuleDependencies},
          requested : {<<a, b>> : a, b \in DOMAIN ModuleDependencies}]

-----------------------------------------------------------------------------
(* What the two columns hold, and the rows with every mix of it.           *)
Held == [num |-> 0 .. 1, txt |-> DOMAIN Texts]

MCRows == {row \in [num : Held.num \cup {Missing}, txt : Held.txt \cup {Missing},
                    touches : BOOLEAN, near : BOOLEAN] : row.touches => row.near}

Given(field, operator) ==
  IF operator \in {"IN", "NOT IN"} THEN SUBSET Held[field]
  ELSE IF operator = "contains" THEN Held[field]
  ELSE IF operator \in {"is_null", "is_not_null"} THEN {Missing}
  ELSE {v \in Held[field] : field = "txt" => Texts[v] # <<>>} \cup {Missing}

Leaves ==
  UNION {{<<Column(f, o, v)>> : v \in Given(f, o)} :
           <<f, o>> \in {fo \in {"num", "txt"} \X UNION {Operators[f] : f \in {"num", "txt"}} :
                          fo[2] \in Operators[fo[1]]}}
    \cup {<<Spatial(m, b, k)>> : m \in {"intersects", "excludes"}, b, k \in BOOLEAN}

(* A tree whose nodes have numbers from d + 1 on.                          *)
Shift(t, d) ==
  [i \in DOMAIN t |-> IF t[i].type = "group"
                      THEN [t[i] EXCEPT !.children = [k \in DOMAIN @ |-> @[k] + d]]
                      ELSE t[i]]

(* The group of a sequence of at most two trees.                           *)
Grouped(o, s) ==
  IF s = <<>> THEN <<Group(o, <<>>)>>
  ELSE IF Len(s) = 1 THEN <<Group(o, <<2>>)>> \o Shift(s[1], 1)
  ELSE <<Group(o, <<2, 2 + Len(s[1])>>)>> \o Shift(s[1], 1) \o Shift(s[2], 1 + Len(s[1]))

Groups(trees) ==
  {Grouped(o, s) : o \in {"AND", "OR"},
                   s \in {<<>>} \cup {<<x>> : x \in trees} \cup {<<x, y>> : x, y \in trees}}

(* The conditions nested groups are built from.                            *)
Samples == {<<Column("num", "gt", 0)>>, <<Column("txt", "neq", Missing)>>,
            <<Spatial("excludes", TRUE, TRUE)>>, <<NoFilter>>}

MCTrees == {<<NoFilter>>} \cup Leaves \cup Groups(Leaves) \cup Groups(Samples \cup Groups(Samples))

-----------------------------------------------------------------------------
ClassIdle ==
  /\ asked = [column |-> <<>>, method |-> "quantile", n |-> 1, exclude_zero |-> FALSE]
  /\ classified = FALSE /\ answer = <<>>

OrderIdle ==
  graph = <<>> /\ requested = <<>> /\ stack = <<>> /\ ordered = <<>> /\ resolution = "asked"

FilterIdle == tree = <<NoFilter>> /\ compiled = FALSE /\ filtered = {} /\ preview = {}

Init ==
  \/ turn = "classify" /\ ClassInit /\ OrderIdle /\ FilterIdle
  \/ turn = "order" /\ ClassIdle /\ OrderInit /\ FilterIdle
  \/ turn = "filter" /\ ClassIdle /\ OrderIdle /\ FilterInit

Next ==
  /\ UNCHANGED turn
  /\ \/ turn = "classify" /\ ClassifyColumn /\ UNCHANGED <<orderVars, filterVars>>
     \/ turn = "order" /\ OrderNext /\ UNCHANGED <<classVars, filterVars>>
     \/ turn = "filter" /\ CompileFilter /\ UNCHANGED <<classVars, orderVars>>

Spec == Init /\ [][Next]_<<turn, classVars, orderVars, filterVars>>
==============================================================================
