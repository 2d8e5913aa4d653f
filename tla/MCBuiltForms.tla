---------------------------- MODULE MCBuiltForms ----------------------------
EXTENDS BuiltForms

MCSectorOrder == <<"office", "retail">>

\* "Mixed Use" is what the placeholder normalizes to; two more names share a key.
MCNormalKey ==
    ("Cottage" :> "cottage") @@ ("Loft" :> "loft") @@ ("Mixed Use" :> "mixed use")
    @@ ("Office" :> "office") @@ ("Shop" :> "shop") @@ ("SHOP" :> "shop")
    @@ ("Barn" :> "barn") @@ ("mixed_use" :> "mixed use") @@ ("unknown" :> "unknown")

NoJobs == [s \in {"office", "retail"} |-> 0]
Only(sector) == [NoJobs EXCEPT ![sector] = 1]

Building(name, category, houses, du, emp, jobs) ==
    [name |-> name, category |-> category, houses |-> houses,
     du |-> du, emp |-> emp, jobs |-> jobs]

\* The last two break the help texts: a class without units, units without one.
MCArchetypes ==
    {Building("Cottage", "urban", TRUE, 1, Null, NoJobs),
     Building("Loft", " urban", TRUE, 3, 1, Only("office")),
     Building("Mixed Use", "", TRUE, 1, 3, Only("retail")),
     Building("Office", "urban", FALSE, Null, 2, Only("office")),
     Building("Shop", "rural", FALSE, Null, 3, Only("retail")),
     Building("SHOP", "rural", TRUE, 2, 2, NoJobs),
     Building("Barn", " ", FALSE, 2, 0, NoJobs)}

MCParcels ==
    {[category |-> c, gross |-> a, net |-> 1, du |-> d, emp |-> e, jobs |-> j, key |-> k] :
        c \in {NullText, " ", "urban"}, a \in {Null, 0, 2}, d \in {Null, 2, 5},
        e \in {Null, 3}, j \in {NoJobs, [s \in {"office", "retail"} |-> 2]},
        k \in {NullText, "Shop"}}
=============================================================================
