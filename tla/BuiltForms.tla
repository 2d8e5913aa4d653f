----------------------------- MODULE BuiltForms -----------------------------
(***************************************************************************)
(* Which building type a parcel takes, and what it then holds: the paint   *)
(* operations that match, fill and allocate in Python, the rules of        *)
(* matching.py in Python and in SQL, and the match of the model that fills *)
(* a base canvas in SQL.                                                   *)
(*                                                                         *)
(* Areas, counts and densities are small naturals; a distance between      *)
(* densities is compared after multiplying by the parcel's acres.  A       *)
(* library is the sequence of a workspace's building types in the order    *)
(* of their names, which is the order of the queryset.                     *)
(***************************************************************************)
EXTENDS Integers, Sequences, SequencesExt, FiniteSetsExt, TLC

CONSTANTS
    Archetypes,     \* building types a library may hold, see TypeOfBuilding
    MaxTypes,       \* bound on the types of a library
    Parcels,        \* parcels as the source gives them, see ParcelType
    SectorOrder,    \* the employment sectors, alphabetically
    NormalKey       \* NormalKey[k]: normalize_built_form_key of a name or key

Null == -1
NullText == "NULL"

OrZero(n) == IF n = Null THEN 0 ELSE n
Sector == ToSet(SectorOrder)
Abs(n) == IF n < 0 THEN -n ELSE n

\* Categories as they are typed, and as str.strip and btrim leave them: the two
\* agree on spaces, the only blanks here; a tab str.strip takes off and btrim
\* leaves ("Spaces are the only whitespace stripped", built_form_keys.py:26-28).
Strip ==
    [c \in {"", " ", "urban", " urban", "rural"} |->
        IF c = " " THEN "" ELSE IF c = " urban" THEN "urban" ELSE c]

TypeOfBuilding ==
    [name : DOMAIN NormalKey, category : DOMAIN Strip, houses : BOOLEAN,
     du : Nat \union {Null}, emp : Nat \union {Null}, jobs : [Sector -> Nat]]

ParcelType ==
    [category : DOMAIN Strip \union {NullText}, gross : Nat \union {Null},
     net : Nat \union {Null}, du : Nat \union {Null}, emp : Nat \union {Null},
     jobs : [Sector -> Nat], key : DOMAIN NormalKey \union {"", NullText}]

ASSUME BuiltFormsAssumption ==
    /\ Archetypes \subseteq TypeOfBuilding
    /\ Parcels \subseteq ParcelType
ASSUME NamesAssumption == DOMAIN NormalKey \intersect {"", NullText} = {}
ASSUME SectorsAssumption ==
    /\ SectorOrder \in Seq(STRING) /\ "none" \notin Sector
    /\ \A i, j \in DOMAIN SectorOrder : SectorOrder[i] = SectorOrder[j] => i = j
ASSUME BoundsAssumption == MaxTypes \in Nat

VARIABLES
    library,    \* the building types, in the order of their names
    parcel,     \* the parcel as the scenario's canvas shows it
    built,      \* the building type the last operation allocated, or None
    by,         \* the last operation
    matches     \* how many matches in a row found a type

vars == <<library, parcel, built, by, matches>>

None == [name |-> "none"]
MaxMatches == 3

---------------------------------------------------------------------------
(* matching.py, the Python side. *)

RequireSameCategory(candidates, category) ==
    IF category \in {NullText, ""} THEN candidates
    ELSE IF Strip[category] = "" THEN candidates
    ELSE {t \in candidates : Strip[t.category] = Strip[category]}

HousingOf(candidates) == {t \in candidates : t.houses}

\* Mutant: a category without housing types leaves its homes with nothing.
EligibleInCategoryOnly(candidates, p) ==
    IF OrZero(p.du) <= 0 THEN RequireSameCategory(candidates, p.category)
    ELSE RequireSameCategory(HousingOf(candidates), p.category)

\* Mutant: the category alone, whatever the parcel holds.
EligibleByCategory(candidates, p) == RequireSameCategory(candidates, p.category)

EligibleBuildingTypes(candidates, p) ==
    IF OrZero(p.du) <= 0 THEN RequireSameCategory(candidates, p.category)
    ELSE LET housing == HousingOf(candidates)
             same == RequireSameCategory(housing, p.category)
         IN IF same # {} THEN same ELSE housing

\* The loop over the sorted sectors: the best of the first n of them.
Better(p, best, s) ==
    IF p.jobs[s] > best.jobs THEN [sector |-> s, jobs |-> p.jobs[s]] ELSE best

BestSectors(p) ==
    LET best[n \in 0..Len(SectorOrder)] ==
            IF n = 0 THEN [sector |-> "none", jobs |-> 0]
            ELSE Better(p, best[n-1], SectorOrder[n])
    IN best

DominantSector(p) == BestSectors(p)[Len(SectorOrder)].sector

PreferSameSector(candidates, sector) ==
    LET same == {t \in candidates : t.jobs[sector] > 0}
    IN IF sector = "none" THEN candidates ELSE IF same = {} THEN candidates ELSE same

---------------------------------------------------------------------------
(* matching.py, the SQL side: what a WHERE admits and an ORDER BY ranks. *)

CategoryRequirementSql(p, t) ==
    \/ p.category = NullText
    \/ Strip[p.category] = ""
    \/ Strip[t.category] = Strip[p.category]

EligibilitySql(p, t, forms) ==
    \/ OrZero(p.du) <= 0 /\ CategoryRequirementSql(p, t)
    \/ /\ OrZero(p.du) > 0
       /\ t.houses
       /\ \/ CategoryRequirementSql(p, t)
          \/ ~ \E h \in forms : h.houses /\ CategoryRequirementSql(p, h)

Before(s, u) ==
    \E i, j \in DOMAIN SectorOrder : i < j /\ SectorOrder[i] = s /\ SectorOrder[j] = u

DominantSectorsSql(p) ==
    {s \in Sector : /\ p.jobs[s] > 0
                    /\ \A u \in Sector \ {s} :
                          p.jobs[u] < p.jobs[s] \/ (p.jobs[u] = p.jobs[s] /\ Before(s, u))}

SectorPreferenceSql(p, t) ==
    IF \E s \in DominantSectorsSql(p) : t.jobs[s] > 0 THEN 0 ELSE 1

---------------------------------------------------------------------------
(* views/paint.py: match, fill and their allocation. *)

\* Mutant: a missing gross area is not replaced by the parcel's.
AcresOrNull(p, default) ==
    IF p.gross # 0 THEN p.gross ELSE IF OrZero(p.net) # 0 THEN p.net ELSE default

\* Python's "or": a zero is as good as missing.
AcresOr(p, default) ==
    IF OrZero(p.gross) # 0 THEN p.gross
    ELSE IF OrZero(p.net) # 0 THEN p.net ELSE default

\* The density basis of a match, or "none".
Basis(p, lib) ==
    LET Declares(b) == \E n \in DOMAIN lib : lib[n][b] # Null
    IN IF AcresOr(p, 0) <= 0 THEN "none"
       ELSE IF OrZero(p.du) > 0 /\ Declares("du") THEN "du"
       ELSE IF OrZero(p.emp) > 0 /\ Declares("emp") THEN "emp" ELSE "none"

FromDensity(p, t, b) == Abs(t[b] * AcresOr(p, 0) - p[b])

Candidates(p, lib, b) ==
    PreferSameSector(
        EligibleBuildingTypes({t \in ToSet(lib) : t[b] # Null}, p), DominantSector(p))

\* min(): the first of the closest.
Closest(p, lib, b) ==
    LET left == Candidates(p, lib, b)
        near == {n \in DOMAIN lib :
                    /\ lib[n] \in left
                    /\ \A u \in left : FromDensity(p, lib[n], b) <= FromDensity(p, u, b)}
    IN lib[Min(near)]

\* run_match_built_form for one parcel.
Match(p, lib) ==
    LET b == Basis(p, lib)
    IN IF b = "none" THEN None
       ELSE IF Candidates(p, lib, b) = {} THEN None ELSE Closest(p, lib, b)

\* run_fill_built_form for one parcel: of two names with one key the last wins.
KeyMatch(p, lib) ==
    LET known == {n \in DOMAIN lib : NormalKey[lib[n].name] = NormalKey[p.key]}
    IN IF p.key \in {NullText, ""} THEN None
       ELSE IF known = {} THEN None ELSE lib[Max(known)]

\* allocation_building_type as match and fill call it: the row share is
\* already in the base data.
Allocated(acres, t) == [du |-> acres * OrZero(t.du), emp |-> acres * OrZero(t.emp)]

\* Mutant: the built form is not recorded.
WithBuiltFormUnnamed(p, t, acres) ==
    [p EXCEPT !.du = Allocated(acres, t).du, !.emp = Allocated(acres, t).emp]

\* Mutant: the densities are painted as they are, per acre.
WithDensities(p, t, acres) ==
    [p EXCEPT !.du = OrZero(t.du), !.emp = OrZero(t.emp), !.key = t.name]

\* What the canvas shows after _write_built_form_paint.
WithBuiltForm(p, t, acres) ==
    [p EXCEPT !.du = Allocated(acres, t).du, !.emp = Allocated(acres, t).emp,
              !.key = t.name]

---------------------------------------------------------------------------
(* built_form_fill.py: the fill of a base canvas, one SELECT. *)

\* COALESCE(NULLIF(area_gross, 0), NULLIF(area_parcel, 0), 0.0)
SourceAcres(p) == AcresOr(p, 0)

DuBasis(p, t) == OrZero(p.du) > 0 /\ SourceAcres(p) > 0 /\ OrZero(t.du) > 0
EmpBasis(p, t) ==
    OrZero(p.du) <= 0 /\ OrZero(p.emp) > 0 /\ SourceAcres(p) > 0 /\ OrZero(t.emp) > 0

BasisRank(p, t) ==
    IF DuBasis(p, t) THEN 1 ELSE IF EmpBasis(p, t) THEN 2
    ELSE IF p.key # NullText THEN 3 ELSE 4

BasisDistance(p, t) ==
    IF DuBasis(p, t) THEN FromDensity(p, t, "du")
    ELSE IF EmpBasis(p, t) THEN FromDensity(p, t, "emp") ELSE 0

OrderKey(p, t) == <<SectorPreferenceSql(p, t), BasisRank(p, t), BasisDistance(p, t), t.id>>

Precedes(a, b) ==
    \E i \in 1..Len(a) : a[i] < b[i] /\ \A j \in 1..i-1 : a[j] = b[j]

\* Mutant: the densities are ranked before the sector.
FillMatchBySectorLast(p, lib) ==
    LET admitted == {t \in ToSet(lib) : EligibilitySql(p, t, ToSet(lib))}
        Key(t) == <<BasisRank(p, t), BasisDistance(p, t), SectorPreferenceSql(p, t), t.id>>
    IN IF admitted = {} THEN None
       ELSE CHOOSE t \in admitted : \A u \in admitted \ {t} : Precedes(Key(t), Key(u))

\* The row of the LEFT JOIN LATERAL ... LIMIT 1, or None.
FillMatch(p, lib) ==
    LET admitted == {t \in ToSet(lib) : EligibilitySql(p, t, ToSet(lib))}
    IN IF admitted = {} THEN None
       ELSE CHOOSE t \in admitted :
                \A u \in admitted \ {t} : Precedes(OrderKey(p, t), OrderKey(p, u))

---------------------------------------------------------------------------
(* A parcel through match and fill. *)

TypeOK ==
    /\ \A n \in DOMAIN library : library[n].id \in 1..MaxTypes
    /\ parcel \in ParcelType
    /\ built = None \/ built \in ToSet(library)
    /\ by \in {"none", "match", "fill"}
    /\ matches \in 0..MaxMatches

\* A row of the table: a building type and its id.
Numbered(t, i) == [x \in DOMAIN t \union {"id"} |-> IF x = "id" THEN i ELSE t[x]]

\* Names are unique in a workspace; ids follow the order of creation.
Libraries ==
    {[n \in DOMAIN s |-> Numbered(s[n], IF up THEN n ELSE MaxTypes + 1 - n)] :
        s \in {t \in UNION {[1..n -> Archetypes] : n \in 0..MaxTypes} :
                  \A n \in DOMAIN t, m \in DOMAIN t : t[n].name = t[m].name => n = m},
        up \in BOOLEAN}

Init ==
    /\ library \in Libraries
    /\ parcel \in Parcels
    /\ built = None /\ by = "none"
    /\ matches = 0

\* A parcel without a match is reported and left alone.
MatchBuiltForm ==
    /\ matches < MaxMatches
    /\ LET t == Match(parcel, library)
       IN /\ built' = t
          /\ parcel' = IF t = None THEN parcel
                       ELSE WithBuiltForm(parcel, t, AcresOr(parcel, 0))
    /\ by' = "match"
    /\ matches' = IF built' = None THEN 0 ELSE matches + 1
    /\ UNCHANGED library

FillBuiltForm ==
    /\ LET t == KeyMatch(parcel, library)
       IN /\ built' = t
          /\ parcel' = IF t = None THEN parcel
                       ELSE WithBuiltForm(parcel, t, AcresOr(parcel, 1))
    /\ by' = "fill"
    /\ matches' = 0
    /\ UNCHANGED library

Next == MatchBuiltForm \/ FillBuiltForm

Spec == Init /\ [][Next]_vars

---------------------------------------------------------------------------
\* A library whose types say what the help texts ask of them: null is no
\* density, a housing class goes with dwelling units, a sector with jobs.
Consistent(lib) ==
    \A t \in ToSet(lib) :
        /\ t.du # 0 /\ t.emp # 0
        /\ t.houses <=> t.du # Null
        /\ (\E s \in Sector : t.jobs[s] > 0) => t.emp # Null

\* "Each pair must agree" (matching.py:58-66): for every parcel and library
\* the Python rules and their SQL twins admit and prefer the same types.
TwinRulesAgree ==
    /\ EligibleBuildingTypes(ToSet(library), parcel)
         = {t \in ToSet(library) : EligibilitySql(parcel, t, ToSet(library))}
    /\ DominantSectorsSql(parcel) = {DominantSector(parcel)} \ {"none"}
    /\ \A t \in ToSet(library) :
          SectorPreferenceSql(parcel, t) = 0
            <=> DominantSector(parcel) \in {s \in Sector : t.jobs[s] > 0}

\* "The same density match, run per parcel" (built_form_fill.py:24-25): what
\* the paint surface matches, the fill assigns.  Only for consistent libraries
\* without two equally close types: on a tie the paint takes the first name
\* and the fill the first id.
MatchersAgree ==
    LET t == Match(parcel, library)
        b == Basis(parcel, library)
    IN (/\ Consistent(library) /\ t # None
        /\ \A u \in ToSet(library) \ {t} :
              u[b] # Null => FromDensity(parcel, u, b) # FromDensity(parcel, t, b))
       => FillMatch(parcel, library) = t

\* "A parcel that holds dwelling units only takes a Building Type that houses
\* people", and a match leaves the category only when the category houses nobody
\* (matching.py:10-41):
\* also when no type declares a dwelling unit density and it is matched by its
\* jobs, and after earlier matches and fills changed what it holds.
HomesAreHoused ==
    [][ (MatchBuiltForm /\ built' # None /\ Consistent(library))
        => LET InCategory(t) == CategoryRequirementSql(parcel, t)
           IN /\ OrZero(parcel.du) > 0 => built'.houses
              /\ \/ InCategory(built')
                 \/ /\ OrZero(parcel.du) > 0
                    /\ ~ \E t \in ToSet(library) : t.houses /\ InCategory(t) ]_vars

\* Matching what was matched changes nothing any more, from the second match
\* on: the first may give a parcel of jobs only its first dwelling units, and
\* with them another basis and another rule.
MatchSettles ==
    [][ (MatchBuiltForm /\ matches >= 2 /\ Consistent(library)) => UNCHANGED parcel ]_vars

\* A fill after a match finds the type the match recorded and paints the same
\* values (run_fill_built_form, normalize_built_form_key).
FillRepeatsMatch ==
    [][ (/\ FillBuiltForm /\ built # None
         /\ \A t \in ToSet(library) \ {built} : NormalKey[t.name] # NormalKey[built.name])
        => UNCHANGED <<parcel, built>> ]_vars

=============================================================================
