----------------------------- MODULE ModuleOrder -----------------------------
(***************************************************************************)
(* In which order the modules of an analysis run: the depth-first search   *)
(* of analysis/module_registry.py resolve_module_order, one step for every *)
(* call of _add_with_deps and one for every return, over an explicit stack *)
(* of calls.                                                               *)
(*                                                                         *)
(* A graph gives each registered module the sequence of modules it depends *)
(* on.  A frame of the stack is a call in progress: its module, the calls  *)
(* its loop makes and how many of them it made.  The frame at the bottom   *)
(* is the loop over the requested modules.                                 *)
(***************************************************************************)
EXTENDS Integers, Sequences, SequencesExt, FiniteSets

CONSTANTS
  Module,        \* names of modules
  OrderProblems  \* graphs, each with the modules requested of it

ASSUME OrderAssumption ==
  \A p \in OrderProblems :
    /\ IsFiniteSet(DOMAIN p.graph)
    /\ p.graph \in [DOMAIN p.graph -> Seq(Module)]
    /\ p.requested \in Seq(Module)

(* MODULE_DEPENDENCIES.                                                    *)
ModuleDependencies ==
  [env_constraint |-> <<>>,
   core |-> <<"env_constraint">>,
   displacement_risk |-> <<"core", "acs_equity">>,
   water_demand |-> <<"core">>,
   energy_demand |-> <<"core">>,
   land_consumption |-> <<"core">>,
   fiscal |-> <<"core">>,
   agriculture |-> <<"core">>,
   trip_generation |-> <<"core">>,
   trip_distribution |-> <<"trip_generation">>,
   mode_choice |-> <<"trip_generation">>,
   vmt |-> <<"mode_choice", "trip_distribution">>,
   transport_ghg |-> <<"vmt">>,
   internal_capture |-> <<"trip_distribution">>,
   physical_activity |-> <<"mode_choice">>,
   building_water_ghg |-> <<"energy_demand", "water_demand">>,
   total_ghg |-> <<"transport_ghg", "building_water_ghg">>,
   health_impacts |-> <<"physical_activity", "transport_ghg">>,
   stormwater_runoff |-> <<"land_consumption">>,
   food_access |-> <<"core">>,
   acs_equity |-> <<>>,
   housing_cost_burden |-> <<"core", "acs_equity">>,
   sprawl_index |-> <<"core">>,
   tree_canopy |-> <<"core">>,
   vmt_fee |-> <<"vmt">>,
   displacement_risk_dynamic |-> <<"displacement_risk", "acs_equity">>,
   scenario_summary |-> <<"core", "vmt", "transport_ghg", "total_ghg", "health_impacts",
                          "housing_cost_burden", "sprawl_index", "water_demand",
                          "energy_demand", "land_consumption">>,
   sprawl_cost |-> <<"core", "fiscal">>]

VARIABLES
  graph,       \* the registry
  requested,   \* module_names
  stack,       \* the calls in progress, innermost last
  ordered,     \* the modules listed so far
  resolution   \* "asked", "running", "ordered", or the ValueError raised:
               \* "unknown" or "circular"

orderVars == <<graph, requested, stack, ordered, resolution>>

Frame(module, calls) == [module |-> module, calls |-> calls, made |-> 0]

DependenciesOf(g, module) == IF module \in DOMAIN g THEN g[module] ELSE <<>>

(* seen and in_progress                                                    *)
Seen == ToSet(ordered)
InProgress == {stack[i].module : i \in 2 .. Len(stack)}

(* What the innermost loop calls next, and the stack once it has.          *)
Calling == resolution = "running" /\ Last(stack).made < Len(Last(stack).calls)
Called == Last(stack).calls[Last(stack).made + 1]
CallMade == [stack EXCEPT ![Len(stack)].made = @ + 1]

-----------------------------------------------------------------------------
OrderInit ==
  /\ \E p \in OrderProblems : graph = p.graph /\ requested = p.requested
  /\ stack = <<>>
  /\ ordered = <<>>
  /\ resolution = "asked"

Registered == ToSet(requested) \subseteq DOMAIN graph

(* resolve_module_order's check, and the start of its loop.                *)
RefuseUnknown ==
  /\ resolution = "asked" /\ ~Registered
  /\ resolution' = "unknown"
  /\ UNCHANGED <<graph, requested, stack, ordered>>

StartLoop ==
  /\ resolution = "asked" /\ Registered
  /\ resolution' = "running"
  /\ stack' = <<Frame("resolve_module_order", requested)>>
  /\ UNCHANGED <<graph, requested, ordered>>

(* _add_with_deps of a module that is listed already.                      *)
SkipSeen ==
  /\ Calling /\ Called \in Seen
  /\ stack' = CallMade
  /\ UNCHANGED <<graph, requested, ordered, resolution>>

(* ... of one that waits for this very call.                               *)
RefuseCircle ==
  /\ Calling /\ Called \notin Seen /\ Called \in InProgress
  /\ resolution' = "circular"
  /\ UNCHANGED <<graph, requested, stack, ordered>>

(* ... of any other: its dependencies are called first.                    *)
EnterDeps ==
  /\ Calling /\ Called \notin Seen \cup InProgress
  /\ stack' = Append(CallMade, Frame(Called, DependenciesOf(graph, Called)))
  /\ UNCHANGED <<graph, requested, ordered, resolution>>

(* Mutant: a module comes before what is listed already.                   *)
ListFirst(module) == IF module \in Seen THEN ordered ELSE <<module>> \o ordered

(* The end of a call: the module is listed.                                *)
List(module) == IF module \in Seen THEN ordered ELSE Append(ordered, module)

LoopIsOver == resolution = "running" /\ Last(stack).made = Len(Last(stack).calls)

ListModule ==
  /\ LoopIsOver /\ Len(stack) > 1
  /\ ordered' = List(Last(stack).module)
  /\ stack' = Front(stack)
  /\ UNCHANGED <<graph, requested, resolution>>

AddWithDeps == SkipSeen \/ RefuseCircle \/ EnterDeps \/ ListModule

(* Every requested module was added.                                       *)
ReturnOrder ==
  /\ LoopIsOver /\ Len(stack) = 1
  /\ resolution' = "ordered"
  /\ UNCHANGED <<graph, requested, stack, ordered>>

OrderNext == RefuseUnknown \/ StartLoop \/ AddWithDeps \/ ReturnOrder

OrderSpec == OrderInit /\ [][OrderNext]_orderVars

-----------------------------------------------------------------------------
(* What a set of modules needs: the modules that paths of the graph reach  *)
(* from it.  No path need be longer than the graph has modules.            *)
WithDeps(g, S) == S \cup UNION {ToSet(DependenciesOf(g, m)) : m \in S}

Reached(g, S) ==
  LET reach[n \in 0 .. Cardinality(DOMAIN g)] ==
        IF n = 0 THEN S ELSE WithDeps(g, reach[n - 1])
  IN  reach

Needed(g, S) == Reached(g, S)[Cardinality(DOMAIN g)]

(* A module that S needs depends on itself.                                *)
Circular(g, S) ==
  \E m \in Needed(g, S) : m \in Needed(g, ToSet(DependenciesOf(g, m)))

(* Everything needed, once, and after all that it depends on.              *)
IsModuleOrder(g, S, order) ==
  /\ ToSet(order) = Needed(g, S)
  /\ \A i, j \in DOMAIN order : order[i] = order[j] => i = j
  /\ \A i \in DOMAIN order :
        ToSet(DependenciesOf(g, order[i])) \subseteq {order[j] : j \in 1 .. i - 1}

(* Modules run in an order that has everything they depend on, each once   *)
(* and before what needs it; it is refused exactly when a module is not    *)
(* registered or a needed one depends on itself, and the registry's own    *)
(* graph is never refused.                                                 *)
DependenciesRunFirst ==
  /\ resolution = "unknown" => ~Registered
  /\ resolution = "circular" =>
       /\ Registered
       /\ Circular(graph, ToSet(requested))
       /\ graph # ModuleDependencies
  /\ resolution = "ordered" =>
       /\ Registered
       /\ ~Circular(graph, ToSet(requested))
       /\ IsModuleOrder(graph, ToSet(requested), ordered)
==============================================================================
