-------------------------- MODULE BuiltFormsProofs --------------------------
(* Theorems about BuiltForms, for every set of building types and parcels, *)
(* every employment sector and every bound on the size of a library.       *)
EXTENDS BuiltForms, WellFoundedInduction, TLAPS

(* What is known of a building type in a library.                          *)
Building(t) ==
  /\ t # None
  /\ t.name \in DOMAIN NormalKey /\ t.category \in DOMAIN Strip /\ t.houses \in BOOLEAN
  /\ t.du \in Nat \union {Null} /\ t.emp \in Nat \union {Null}
  /\ t.jobs \in [Sector -> Nat] /\ t.id \in 1..MaxTypes

LibraryOk(lib) ==
  /\ \E n \in Nat : DOMAIN lib = 1..n
  /\ \A i \in DOMAIN lib : Building(lib[i])
  /\ \A i, j \in DOMAIN lib : lib[i].name = lib[j].name \/ lib[i].id = lib[j].id => i = j

-----------------------------------------------------------------------------
(* An id is added to a building type without touching the rest of it.      *)
LEMMA WithId ==
  ASSUME NEW t \in TypeOfBuilding, NEW i \in 1..MaxTypes
  PROVE  Building(Numbered(t, i)) /\ Numbered(t, i).id = i
         /\ Numbered(t, i).name = t.name
<1> DEFINE u == Numbered(t, i)
<1>1. DOMAIN t = {"name", "category", "houses", "du", "emp", "jobs"}
  BY DEF TypeOfBuilding
<1>2. u = [x \in DOMAIN t \union {"id"} |-> IF x = "id" THEN i ELSE t[x]]
  BY DEF Numbered
<1>3. /\ u.name = t.name /\ u.category = t.category /\ u.houses = t.houses
      /\ u.du = t.du /\ u.emp = t.emp /\ u.jobs = t.jobs /\ u.id = i
  BY <1>1, <1>2
<1>4. u # None
  <2>1. "id" \in DOMAIN u /\ "id" \notin DOMAIN None
    BY <1>2 DEF None
  <2> QED BY <2>1
<1> QED BY <1>3, <1>4 DEF Building, TypeOfBuilding

(* Every library starts out as its models promise.                         *)
LEMMA Libraries_Ok == ASSUME NEW lib \in Libraries PROVE LibraryOk(lib)
<1>1. PICK s \in UNION {[1..n -> Archetypes] : n \in 0..MaxTypes}, up \in BOOLEAN :
        /\ lib = [n \in DOMAIN s |-> Numbered(s[n], IF up THEN n ELSE MaxTypes + 1 - n)]
        /\ \A n, m \in DOMAIN s : s[n].name = s[m].name => n = m
  BY DEF Libraries
<1>2. PICK n \in 0..MaxTypes : s \in [1..n -> Archetypes]
  BY <1>1
<1> DEFINE Id(i) == IF up THEN i ELSE MaxTypes + 1 - i
<1>3. ASSUME NEW i \in 1..n PROVE s[i] \in TypeOfBuilding /\ Id(i) \in 1..MaxTypes
  BY <1>2, BuiltFormsAssumption, BoundsAssumption
<1>4. ASSUME NEW i \in 1..n
      PROVE  Building(lib[i]) /\ lib[i].name = s[i].name /\ lib[i].id = Id(i)
  <2>1. lib[i] = Numbered(s[i], Id(i))
    BY <1>1, <1>2
  <2> HIDE DEF Id
  <2> QED BY <1>3, <2>1, WithId
<1>5. \A i, j \in 1..n : Id(i) = Id(j) => i = j
  BY <1>2, BoundsAssumption
<1>6. DOMAIN lib = 1..n /\ DOMAIN s = 1..n /\ n \in Nat
  BY <1>1, <1>2, BoundsAssumption
<1> HIDE DEF Id
<1> QED BY <1>1, <1>4, <1>5, <1>6 DEF LibraryOk
-----------------------------------------------------------------------------
(* A set of naturals that holds one has a least one.                       *)
LEMMA LeastNatural ==
  ASSUME NEW T \in SUBSET Nat, T # {}
  PROVE  \E x \in T : \A y \in T : x <= y
<1>1. PICK x \in T : \A y \in T : ~(<<y, x>> \in OpToRel(<, Nat))
  BY WFMin, NatLessThanWellFounded, Zenon
<1>2. ASSUME NEW y \in T PROVE x <= y
  <2>1. x \in Nat /\ y \in Nat
    OBVIOUS
  <2>2. ~(y < x)
    BY <1>1, <2>1 DEF OpToRel
  <2> QED BY <2>1, <2>2
<1> QED BY <1>2

(* The loop over the sectors runs to its end: the recursive function that  *)
(* stands for it exists.                                                   *)
Loop(p, g, n) ==
  IF n = 0 THEN [sector |-> "none", jobs |-> 0] ELSE Better(p, g[n-1], SectorOrder[n])

LEMMA LoopRuns ==
  ASSUME NEW p
  PROVE  BestSectors(p) = [n \in 0..Len(SectorOrder) |-> Loop(p, BestSectors(p), n)]
<1> DEFINE L == Len(SectorOrder)
           Upto(k) == \E g : g = [n \in 0..k |-> Loop(p, g, n)]
           Bad == {k \in 0..L : ~Upto(k)}
<1>0. L \in Nat
  BY SectorsAssumption
<1> HIDE DEF L
<1>1. Upto(0)
  <2> DEFINE g == [n \in 0..0 |-> [sector |-> "none", jobs |-> 0]]
  <2>1. g = [n \in 0..0 |-> Loop(p, g, n)]
    BY DEF Loop
  <2> HIDE DEF g
  <2> QED BY <2>1
<1>2. ASSUME NEW k \in Nat, Upto(k) PROVE Upto(k+1)
  <2>1. PICK g : g = [n \in 0..k |-> Loop(p, g, n)]
    BY <1>2
  <2> DEFINE h == [n \in 0..k+1 |-> Loop(p, g, n)]
  <2>2. ASSUME NEW n \in 0..k PROVE h[n] = g[n]
    BY <2>1
  <2>3. ASSUME NEW n \in 0..k+1 PROVE Loop(p, g, n) = Loop(p, h, n)
    <3>1. CASE n = 0
      BY <3>1 DEF Loop
    <3>2. CASE n # 0
      <4>1. n-1 \in 0..k
        BY <3>2
      <4>2. h[n-1] = g[n-1]
        BY <2>2, <4>1
      <4> HIDE DEF h
      <4> QED BY <3>2, <4>2 DEF Loop
    <3> QED BY <3>1, <3>2
  <2>4. h = [n \in 0..k+1 |-> Loop(p, h, n)]
    <3> DEFINE H == [n \in 0..k+1 |-> Loop(p, h, n)]
    <3>1. DOMAIN h = 0..k+1 /\ DOMAIN H = 0..k+1
      OBVIOUS
    <3>2. \A n \in 0..k+1 : h[n] = H[n]
      BY <2>3
    <3> QED BY <3>1, <3>2
  <2> HIDE DEF h
  <2> QED BY <2>4
<1> HIDE DEF Upto
<1>3. Bad = {}
  <2> SUFFICES ASSUME Bad # {} PROVE FALSE
    OBVIOUS
  <2>0. Bad \in SUBSET Nat /\ \A k : k \in Bad <=> k \in 0..L /\ ~Upto(k)
    BY <1>0
  <2> HIDE DEF Bad
  <2>1. PICK k \in Bad : \A y \in Bad : k <= y
    BY <2>0, LeastNatural
  <2>2. k # 0 /\ k - 1 \in 0..L /\ k - 1 \notin Bad
    BY <1>0, <1>1, <2>0, <2>1
  <2>3. Upto(k - 1) /\ k = (k - 1) + 1
    BY <2>0, <2>2
  <2>4. Upto(k)
    BY <1>2, <2>2, <2>3
  <2> QED BY <2>0, <2>1, <2>4
<1>4. \E g : g = [n \in 0..L |-> Loop(p, g, n)]
  <2>1. Upto(L)
    BY <1>0, <1>3
  <2> QED BY <2>1 DEF Upto
<1> QED BY <1>4, Zenon DEF BestSectors, L, Loop
(* What the loop has found after n sectors: the first of those with the    *)
(* most jobs, or none if there are no jobs.                                *)
FoundBy(p, n) ==
  LET best == BestSectors(p)[n] IN
  /\ best.jobs \in Nat
  /\ \A i \in 1..n : p.jobs[SectorOrder[i]] <= best.jobs
  /\ \/ best.sector = "none" /\ best.jobs = 0
     \/ \E m \in 1..n : /\ best.sector = SectorOrder[m]
                        /\ best.jobs = p.jobs[SectorOrder[m]] /\ best.jobs > 0
                        /\ \A i \in 1..m-1 : p.jobs[SectorOrder[i]] < best.jobs

LEMMA SectorsAre ==
  /\ Len(SectorOrder) \in Nat /\ DOMAIN SectorOrder = 1..Len(SectorOrder)
  /\ Sector = {SectorOrder[i] : i \in 1..Len(SectorOrder)}
  /\ \A i, j \in 1..Len(SectorOrder) : SectorOrder[i] = SectorOrder[j] => i = j
  /\ "none" \notin Sector
BY SectorsAssumption DEF Sector, ToSet

LEMMA LoopFinds ==
  ASSUME NEW p \in ParcelType
  PROVE  FoundBy(p, Len(SectorOrder))
<1> DEFINE L == Len(SectorOrder)
           Bad == {k \in 0..L : ~FoundBy(p, k)}
<1>0. L \in Nat /\ \A i \in 1..L : SectorOrder[i] \in Sector /\ p.jobs[SectorOrder[i]] \in Nat
  BY SectorsAre DEF ParcelType
<1>1. \A k : k \in 0..L => BestSectors(p)[k] = Loop(p, BestSectors(p), k)
  BY LoopRuns
<1>2. FoundBy(p, 0)
  BY <1>0, <1>1 DEF FoundBy, Loop
<1>3. ASSUME NEW k \in 1..L, FoundBy(p, k-1) PROVE FoundBy(p, k)
  <2> DEFINE s == SectorOrder[k]
             old == BestSectors(p)[k-1]
             best == BestSectors(p)[k]
  <2>1. s \in Sector /\ p.jobs[s] \in Nat /\ k \in Nat
    BY <1>0
  <2>2. best = Better(p, old, s)
    BY <1>0, <1>1 DEF Loop
  <2> HIDE DEF L
  <2>3. /\ old.jobs \in Nat
        /\ \A i \in 1..k-1 : p.jobs[SectorOrder[i]] <= old.jobs
        /\ \/ old.sector = "none" /\ old.jobs = 0
           \/ \E m \in 1..k-1 : /\ old.sector = SectorOrder[m]
                                /\ old.jobs = p.jobs[SectorOrder[m]] /\ old.jobs > 0
                                /\ \A i \in 1..m-1 : p.jobs[SectorOrder[i]] < old.jobs
    BY <1>3 DEF FoundBy
  <2>4. \A i \in 1..k-1 : p.jobs[SectorOrder[i]] \in Nat
    BY <1>0
  <2>5. CASE p.jobs[s] > old.jobs
    <3>1. best.sector = s /\ best.jobs = p.jobs[s]
      BY <2>2, <2>5 DEF Better
    <3>2. \A i \in 1..k : i # k => i \in 1..k-1
      BY <2>1
    <3>3. \A i \in 1..k-1 : p.jobs[SectorOrder[i]] < best.jobs
      BY <2>1, <2>3, <2>4, <2>5, <3>1
    <3>4. \A i \in 1..k : p.jobs[SectorOrder[i]] <= best.jobs
      BY <2>1, <2>4, <3>1, <3>2, <3>3
    <3> HIDE DEF best
    <3>5. best.jobs \in Nat /\ best.jobs > 0
      BY <2>1, <2>3, <2>5, <3>1
    <3> QED BY <2>1, <3>1, <3>3, <3>4, <3>5 DEF FoundBy, best
  <2>6. CASE ~(p.jobs[s] > old.jobs)
    <3>1. best = old
      BY <2>2, <2>6 DEF Better
    <3>2. \A i \in 1..k : i # k => i \in 1..k-1
      BY <2>1
    <3>3. \A i \in 1..k : p.jobs[SectorOrder[i]] <= old.jobs
      BY <2>1, <2>3, <2>6, <3>2
    <3>4. \A m \in 1..k-1 : m \in 1..k
      BY <2>1
    <3> HIDE DEF best, old
    <3> QED BY <2>3, <3>1, <3>3, <3>4 DEF FoundBy, best
  <2> QED BY <2>5, <2>6
<1>4. Bad = {}
  <2> SUFFICES ASSUME Bad # {} PROVE FALSE
    OBVIOUS
  <2>0. Bad \in SUBSET Nat /\ \A k : k \in Bad <=> k \in 0..L /\ ~FoundBy(p, k)
    BY <1>0
  <2> HIDE DEF Bad, L
  <2>1. PICK k \in Bad : \A y \in Bad : k <= y
    BY <2>0, LeastNatural
  <2>2. k \in 1..L /\ k - 1 \in 0..L /\ k - 1 \notin Bad
    BY <1>0, <1>2, <2>0, <2>1
  <2>3. FoundBy(p, k - 1)
    BY <2>0, <2>2
  <2> QED BY <1>3, <2>0, <2>1, <2>2, <2>3
<1> QED BY <1>0, <1>4

(* Both sides find the same sector.                                        *)
LEMMA SameSector ==
  ASSUME NEW p \in ParcelType
  PROVE  DominantSectorsSql(p) = {DominantSector(p)} \ {"none"}
<1> DEFINE L == Len(SectorOrder)
           best == BestSectors(p)[L]
           Jobs(i) == p.jobs[SectorOrder[i]]
<1>0. L \in Nat /\ \A i \in 1..L : SectorOrder[i] \in Sector /\ Jobs(i) \in Nat
  BY SectorsAre DEF ParcelType
<1>1. /\ best.jobs \in Nat
      /\ \A i \in 1..L : Jobs(i) <= best.jobs
      /\ \/ best.sector = "none" /\ best.jobs = 0
         \/ \E m \in 1..L : /\ best.sector = SectorOrder[m]
                            /\ best.jobs = Jobs(m) /\ best.jobs > 0
                            /\ \A i \in 1..m-1 : Jobs(i) < best.jobs
  BY LoopFinds DEF FoundBy
<1>2. DominantSector(p) = best.sector
  BY DEF DominantSector
<1>3. ASSUME NEW i, NEW j, i \in 1..L, j \in 1..L
      PROVE  Before(SectorOrder[i], SectorOrder[j]) <=> i < j
  BY <1>3, SectorsAre DEF Before
<1>4. \A s : s \in DominantSectorsSql(p) <=>
        \E i \in 1..L : /\ s = SectorOrder[i] /\ Jobs(i) > 0
                        /\ \A j \in 1..L : j # i =>
                              Jobs(j) < Jobs(i) \/ (Jobs(j) = Jobs(i) /\ i < j)
  <2>1. ASSUME NEW i \in 1..L
        PROVE  SectorOrder[i] \in DominantSectorsSql(p) <=>
                 /\ Jobs(i) > 0
                 /\ \A j \in 1..L : j # i => Jobs(j) < Jobs(i) \/ (Jobs(j) = Jobs(i) /\ i < j)
    <3>1. \A u : u \in Sector \ {SectorOrder[i]} <=> \E j \in 1..L : j # i /\ u = SectorOrder[j]
      BY SectorsAre
    <3>2. \A j \in 1..L : Before(SectorOrder[i], SectorOrder[j]) <=> i < j
      BY <1>3
    <3> HIDE DEF L
    <3>3. SectorOrder[i] \in DominantSectorsSql(p) <=>
            /\ p.jobs[SectorOrder[i]] > 0
            /\ \A u \in Sector \ {SectorOrder[i]} :
                  \/ p.jobs[u] < p.jobs[SectorOrder[i]]
                  \/ p.jobs[u] = p.jobs[SectorOrder[i]] /\ Before(SectorOrder[i], u)
      BY <1>0 DEF DominantSectorsSql
    <3>4. \A j \in 1..L : j # i => SectorOrder[j] \in Sector \ {SectorOrder[i]}
      BY <3>1
    <3>5. ASSUME \A j \in 1..L : j # i => Jobs(j) < Jobs(i) \/ (Jobs(j) = Jobs(i) /\ i < j),
                 NEW u \in Sector \ {SectorOrder[i]}
          PROVE  \/ p.jobs[u] < p.jobs[SectorOrder[i]]
                 \/ p.jobs[u] = p.jobs[SectorOrder[i]] /\ Before(SectorOrder[i], u)
      BY <3>1, <3>2, <3>5
    <3>6. ASSUME \A u \in Sector \ {SectorOrder[i]} :
                    \/ p.jobs[u] < p.jobs[SectorOrder[i]]
                    \/ p.jobs[u] = p.jobs[SectorOrder[i]] /\ Before(SectorOrder[i], u),
                 NEW j \in 1..L, j # i
          PROVE  Jobs(j) < Jobs(i) \/ (Jobs(j) = Jobs(i) /\ i < j)
      BY <3>2, <3>4, <3>6
    <3> QED BY <3>3, <3>5, <3>6
  <2>2. \A s \in DominantSectorsSql(p) : \E i \in 1..L : s = SectorOrder[i]
    BY SectorsAre DEF DominantSectorsSql
  <2> QED BY <2>1, <2>2
<1> HIDE DEF best, L, Jobs
<1>5. CASE best.sector = "none" /\ best.jobs = 0
  <2>1. \A i \in 1..L : ~(Jobs(i) > 0)
    BY <1>0, <1>1, <1>5
  <2> QED BY <1>2, <1>4, <1>5, <2>1
<1>6. ASSUME NEW m \in 1..L, best.sector = SectorOrder[m], best.jobs = Jobs(m),
             best.jobs > 0, \A i \in 1..m-1 : Jobs(i) < best.jobs
      PROVE  DominantSectorsSql(p) = {DominantSector(p)} \ {"none"}
  <2>1. best.sector # "none"
    BY <1>0, <1>6, SectorsAre
  <2>2. best.sector \in DominantSectorsSql(p)
    <3>1. \A j \in 1..L : j # m => j \in 1..m-1 \/ m < j
      BY <1>0
    <3>2. \A j \in 1..L : j # m => Jobs(j) < Jobs(m) \/ (Jobs(j) = Jobs(m) /\ m < j)
      BY <1>0, <1>1, <1>6, <3>1
    <3> QED BY <1>4, <1>6, <3>2
  <2>3. ASSUME NEW s \in DominantSectorsSql(p) PROVE s = best.sector
    <3>1. PICK i \in 1..L : /\ s = SectorOrder[i] /\ Jobs(i) > 0
                            /\ \A j \in 1..L : j # i =>
                                  Jobs(j) < Jobs(i) \/ (Jobs(j) = Jobs(i) /\ i < j)
      BY <1>4
    <3>2. i # m => Jobs(m) = Jobs(i) /\ i < m
      BY <1>0, <1>1, <1>6, <3>1
    <3>3. i # m => i \in 1..m-1
      BY <1>0, <3>2
    <3> QED BY <1>0, <1>6, <3>1, <3>2, <3>3
  <2> QED BY <1>2, <2>1, <2>2, <2>3
<1> QED BY <1>1, <1>5, <1>6
(* A building type is preferred if it declares jobs in the sector found.   *)
LEMMA PreferenceIs ==
  ASSUME NEW p \in ParcelType, NEW t
  PROVE  /\ SectorPreferenceSql(p, t) \in {0, 1}
         /\ SectorPreferenceSql(p, t) = 0 <=>
              DominantSector(p) # "none" /\ t.jobs[DominantSector(p)] > 0
         /\ DominantSector(p) = "none" \/ DominantSector(p) \in Sector
<1>1. DominantSectorsSql(p) = {DominantSector(p)} \ {"none"}
  BY SameSector
<1>2. DominantSectorsSql(p) \subseteq Sector
  BY DEF DominantSectorsSql
<1> QED BY <1>1, <1>2 DEF SectorPreferenceSql

-----------------------------------------------------------------------------
(* The category and the housing rule, as sets.                             *)
LEMMA RequiresIs ==
  ASSUME NEW p \in ParcelType, NEW C
  PROVE  RequireSameCategory(C, p.category) = {t \in C : CategoryRequirementSql(p, t)}
<1>1. Strip[""] = ""
  BY DEF Strip
<1>2. CASE p.category \in {NullText, ""}
  BY <1>1, <1>2 DEF RequireSameCategory, CategoryRequirementSql
<1>3. CASE p.category \notin {NullText, ""} /\ Strip[p.category] = ""
  BY <1>3 DEF RequireSameCategory, CategoryRequirementSql
<1>4. CASE p.category \notin {NullText, ""} /\ Strip[p.category] # ""
  <2>1. RequireSameCategory(C, p.category) = {t \in C : Strip[t.category] = Strip[p.category]}
    BY <1>4 DEF RequireSameCategory
  <2>2. \A t : CategoryRequirementSql(p, t) <=> Strip[t.category] = Strip[p.category]
    BY <1>4 DEF CategoryRequirementSql
  <2> QED BY <2>1, <2>2
<1> QED BY <1>2, <1>3, <1>4

LEMMA EligibleIs ==
  ASSUME NEW p \in ParcelType, NEW C, \A t \in C : t.houses \in BOOLEAN
  PROVE  EligibleBuildingTypes(C, p) = {t \in C : EligibilitySql(p, t, C)}
<1> DEFINE housing == HousingOf(C)
           same == RequireSameCategory(housing, p.category)
<1>1. housing = {t \in C : t.houses}
  BY DEF HousingOf
<1>2. same = {t \in C : t.houses /\ CategoryRequirementSql(p, t)}
  BY <1>1, RequiresIs
<1>3. OrZero(p.du) \in Nat \union {-1}
  BY DEF OrZero, ParcelType, Null
<1>4. CASE OrZero(p.du) <= 0
  <2>1. EligibleBuildingTypes(C, p) = {t \in C : CategoryRequirementSql(p, t)}
    BY <1>4, RequiresIs DEF EligibleBuildingTypes
  <2>2. \A t : EligibilitySql(p, t, C) <=> CategoryRequirementSql(p, t)
    BY <1>3, <1>4 DEF EligibilitySql
  <2> QED BY <2>1, <2>2
<1>5. CASE OrZero(p.du) > 0
  <2>1. EligibleBuildingTypes(C, p) = IF same # {} THEN same ELSE housing
    BY <1>3, <1>5 DEF EligibleBuildingTypes
  <2>2. \A t \in C : EligibilitySql(p, t, C) <=>
           t.houses /\ (CategoryRequirementSql(p, t)
                        \/ ~ \E h \in C : h.houses /\ CategoryRequirementSql(p, h))
    BY <1>3, <1>5 DEF EligibilitySql
  <2>3. same # {} <=> \E h \in C : h.houses /\ CategoryRequirementSql(p, h)
    BY <1>2
  <2>4. same # {} => {t \in C : EligibilitySql(p, t, C)} = same
    BY <1>2, <2>2, <2>3
  <2>5. same = {} => {t \in C : EligibilitySql(p, t, C)} = housing
    BY <1>1, <2>2, <2>3
  <2> HIDE DEF same, housing
  <2> QED BY <2>1, <2>4, <2>5
<1> QED BY <1>3, <1>4, <1>5

(* Twin rules agree on every library and every parcel.                     *)
LEMMA TwinsAgree ==
  ASSUME LibraryOk(library), parcel \in ParcelType
  PROVE  TwinRulesAgree
<1>1. \A t \in ToSet(library) : t.houses \in BOOLEAN
  BY DEF LibraryOk, Building, ToSet
<1>2. \A t \in ToSet(library) :
         SectorPreferenceSql(parcel, t) = 0
           <=> DominantSector(parcel) \in {s \in Sector : t.jobs[s] > 0}
  BY PreferenceIs, SectorsAre
<1> QED BY <1>1, <1>2, EligibleIs, SameSector DEF TwinRulesAgree

-----------------------------------------------------------------------------
(* What a match finds.                                                     *)
LEMMA OrZeroType == ASSUME NEW n \in Nat \union {Null} PROVE OrZero(n) \in Nat
BY DEF OrZero

LEMMA HomesOrNone ==
  ASSUME NEW p \in ParcelType
  PROVE  OrZero(p.du) \in Nat /\ (~(OrZero(p.du) > 0) <=> OrZero(p.du) <= 0)
<1>1. p.du \in Nat \union {Null}
  BY DEF ParcelType
<1>2. OrZero(p.du) \in Nat
  BY <1>1, OrZeroType
<1> QED BY <1>2

LEMMA AcresType ==
  ASSUME NEW p \in ParcelType, NEW d \in Nat
  PROVE  AcresOr(p, d) \in Nat /\ (AcresOr(p, 0) > 0 => AcresOr(p, d) = AcresOr(p, 0))
<1>1. /\ p.gross \in Nat \union {Null} /\ p.net \in Nat \union {Null}
      /\ OrZero(p.gross) \in Nat /\ OrZero(p.net) \in Nat
  BY OrZeroType DEF ParcelType
<1> QED BY <1>1 DEF AcresOr, OrZero

Densities == {"du", "emp"}

LEMMA BasisIs ==
  ASSUME NEW p \in ParcelType, NEW lib, LibraryOk(lib), NEW b, b = Basis(p, lib), b # "none"
  PROVE  /\ b \in Densities /\ AcresOr(p, 0) > 0 /\ AcresOr(p, 0) \in Nat
         /\ p[b] \in Nat /\ p[b] > 0
         /\ \A t \in ToSet(lib) : t[b] \in Nat \union {Null}
         /\ b = "emp" => \/ OrZero(p.du) <= 0
                         \/ \A t \in ToSet(lib) : t.du = Null
<1>1. AcresOr(p, 0) \in Nat /\ p.du \in Nat \union {Null} /\ p.emp \in Nat \union {Null}
  BY AcresType DEF ParcelType
<1>2. \A t \in ToSet(lib) : t.du \in Nat \union {Null} /\ t.emp \in Nat \union {Null}
  BY DEF LibraryOk, Building, ToSet
<1>3. b \in Densities
  BY DEF Basis, Densities
<1>4. CASE b = "du"
  BY <1>1, <1>2, <1>4 DEF Basis, Densities, OrZero, Null
<1>5. CASE b = "emp"
  BY <1>1, <1>2, <1>5 DEF Basis, Densities, OrZero, Null, ToSet
<1> QED BY <1>3, <1>4, <1>5 DEF Densities

LEMMA CandidatesAre ==
  ASSUME NEW p, NEW lib, NEW b
  PROVE  Candidates(p, lib, b) \subseteq {t \in ToSet(lib) : t[b] # Null}
BY DEF Candidates, PreferSameSector, EligibleBuildingTypes, RequireSameCategory, HousingOf
(* The type matched is a candidate, none is closer, and none as close      *)
(* comes before it in the library.                                         *)
Chosen(p, lib, b, t) ==
  /\ t \in Candidates(p, lib, b)
  /\ \E n \in DOMAIN lib :
       /\ t = lib[n]
       /\ \A m \in DOMAIN lib : lib[m] \in Candidates(p, lib, b) =>
            FromDensity(p, t, b) <= FromDensity(p, lib[m], b)
            /\ (FromDensity(p, t, b) = FromDensity(p, lib[m], b) => n <= m)

LEMMA DistanceType ==
  ASSUME NEW p \in ParcelType, NEW lib, LibraryOk(lib), NEW b, b = Basis(p, lib), b # "none",
         NEW t \in Candidates(p, lib, b)
  PROVE  FromDensity(p, t, b) \in Nat
<1>1. t[b] \in Nat /\ AcresOr(p, 0) \in Nat /\ p[b] \in Nat
  BY BasisIs, CandidatesAre
<1>2. t[b] * AcresOr(p, 0) \in Nat
  BY <1>1
<1> QED BY <1>1, <1>2 DEF FromDensity, Abs

LEMMA ClosestIs ==
  ASSUME NEW p \in ParcelType, NEW lib, LibraryOk(lib), NEW b, b = Basis(p, lib), b # "none",
         Candidates(p, lib, b) # {}
  PROVE  Chosen(p, lib, b, Closest(p, lib, b))
<1> DEFINE left == Candidates(p, lib, b)
           Far(t) == FromDensity(p, t, b)
           near == {n \in DOMAIN lib : lib[n] \in left /\ \A u \in left : Far(lib[n]) <= Far(u)}
           fars == {Far(t) : t \in left}
<1>1. \A t \in left : Far(t) \in Nat /\ \E n \in DOMAIN lib : lib[n] = t
  BY DistanceType, CandidatesAre DEF ToSet
<1>2. Closest(p, lib, b) = lib[Min(near)]
  BY DEF Closest
<1>3. PICK k \in Nat : DOMAIN lib = 1..k
  BY DEF LibraryOk
<1> HIDE DEF Far
<1>4. fars \in SUBSET Nat /\ fars # {}
  BY <1>1
<1>5. \E t \in left : \A u \in left : Far(t) <= Far(u)
  <2>1. PICK x \in fars : \A y \in fars : x <= y
    BY <1>4, LeastNatural
  <2> QED BY <2>1
<1>6. near \in SUBSET Nat /\ near # {}
  BY <1>1, <1>3, <1>5
<1> HIDE DEF left
<1>7. Min(near) \in near /\ \A m \in near : Min(near) <= m
  <2>1. \E x \in near : \A y \in near : x <= y
    BY <1>6, LeastNatural
  <2> HIDE DEF near
  <2> QED BY <2>1 DEF Min
<1> DEFINE n == Min(near)
<1>8. /\ n \in DOMAIN lib /\ lib[n] \in left
      /\ \A u \in left : Far(lib[n]) <= Far(u)
  BY <1>7
<1>9. \A m \in DOMAIN lib : lib[m] \in left /\ Far(lib[n]) = Far(lib[m]) => n <= m
  <2>1. ASSUME NEW m \in DOMAIN lib, lib[m] \in left, Far(lib[n]) = Far(lib[m])
        PROVE  m \in near
    BY <1>8, <2>1
  <2> QED BY <1>7, <2>1
<1> HIDE DEF n, near
<1> QED BY <1>2, <1>8, <1>9 DEF Chosen, left, Far, n

LEMMA MatchIs ==
  ASSUME NEW p \in ParcelType, NEW lib, LibraryOk(lib), NEW t, t = Match(p, lib), t # None
  PROVE  /\ Basis(p, lib) # "none"
         /\ Chosen(p, lib, Basis(p, lib), t)
         /\ t \in ToSet(lib) /\ Building(t)
         /\ t[Basis(p, lib)] \in Nat
<1> DEFINE b == Basis(p, lib)
<1>1. b # "none" /\ Candidates(p, lib, b) # {} /\ t = Closest(p, lib, b)
  BY DEF Match
<1> HIDE DEF b
<1>2. b = Basis(p, lib)
  BY DEF b
<1>3. Chosen(p, lib, b, t)
  BY <1>1, <1>2, ClosestIs
<1>4. t \in ToSet(lib) /\ t[b] # Null
  BY <1>3, CandidatesAre DEF Chosen
<1>5. t[b] \in Nat \union {Null}
  BY <1>1, <1>2, <1>4, BasisIs
<1>6. Building(t)
  BY <1>4 DEF LibraryOk, ToSet
<1> QED BY <1>1, <1>2, <1>3, <1>4, <1>5, <1>6

(* There is one such type only.                                            *)
LEMMA ChosenOnce ==
  ASSUME NEW p, NEW lib, LibraryOk(lib), NEW b, NEW t, NEW u,
         Chosen(p, lib, b, t), Chosen(p, lib, b, u),
         \A v \in Candidates(p, lib, b) : FromDensity(p, v, b) \in Nat
  PROVE  t = u
<1>1. PICK n \in DOMAIN lib :
        /\ t = lib[n]
        /\ \A m \in DOMAIN lib : lib[m] \in Candidates(p, lib, b) =>
             FromDensity(p, t, b) <= FromDensity(p, lib[m], b)
             /\ (FromDensity(p, t, b) = FromDensity(p, lib[m], b) => n <= m)
  BY DEF Chosen
<1>2. PICK k \in DOMAIN lib :
        /\ u = lib[k]
        /\ \A m \in DOMAIN lib : lib[m] \in Candidates(p, lib, b) =>
             FromDensity(p, u, b) <= FromDensity(p, lib[m], b)
             /\ (FromDensity(p, u, b) = FromDensity(p, lib[m], b) => k <= m)
  BY DEF Chosen
<1>3. t \in Candidates(p, lib, b) /\ u \in Candidates(p, lib, b)
  BY DEF Chosen
<1>4. n \in Nat /\ k \in Nat
  BY DEF LibraryOk
<1>5. FromDensity(p, t, b) = FromDensity(p, u, b)
  BY <1>1, <1>2, <1>3
<1> QED BY <1>1, <1>2, <1>3, <1>4, <1>5
-----------------------------------------------------------------------------
(* What an allocation leaves of a parcel.                                  *)
LEMMA Painted ==
  ASSUME NEW p \in ParcelType, NEW t, Building(t), NEW acres \in Nat,
         NEW q, q = WithBuiltForm(p, t, acres)
  PROVE  /\ q \in ParcelType
         /\ q.category = p.category /\ q.jobs = p.jobs /\ q.key = t.name
         /\ q.du = acres * OrZero(t.du) /\ q.du \in Nat
         /\ q.emp = acres * OrZero(t.emp) /\ q.emp \in Nat
         /\ \A d : AcresOr(q, d) = AcresOr(p, d)
<1>1. OrZero(t.du) \in Nat /\ OrZero(t.emp) \in Nat /\ t.name \in DOMAIN NormalKey
  BY OrZeroType DEF Building
<1>2. acres * OrZero(t.du) \in Nat /\ acres * OrZero(t.emp) \in Nat
  BY <1>1
<1>3. /\ q.category = p.category /\ q.jobs = p.jobs /\ q.key = t.name
      /\ q.gross = p.gross /\ q.net = p.net
      /\ q.du = acres * OrZero(t.du) /\ q.emp = acres * OrZero(t.emp)
  BY DEF WithBuiltForm, Allocated, ParcelType
<1>4. q \in ParcelType
  BY <1>1, <1>2 DEF WithBuiltForm, Allocated, ParcelType
<1> QED BY <1>2, <1>3, <1>4 DEF AcresOr

(* A parcel that holds what it is painted with stays what it is.           *)
LEMMA PaintedAlready ==
  ASSUME NEW p \in ParcelType, NEW t, NEW acres,
         p.du = acres * OrZero(t.du), p.emp = acres * OrZero(t.emp), p.key = t.name
  PROVE  WithBuiltForm(p, t, acres) = p
BY DEF WithBuiltForm, Allocated, ParcelType

LEMMA SameCandidates ==
  ASSUME NEW p \in ParcelType, NEW q \in ParcelType, NEW lib, NEW b,
         q.category = p.category, q.jobs = p.jobs,
         OrZero(q.du) <= 0 <=> OrZero(p.du) <= 0
  PROVE  Candidates(q, lib, b) = Candidates(p, lib, b)
<1>1. DominantSectorsSql(q) = DominantSectorsSql(p)
  BY DEF DominantSectorsSql
<1>2. DominantSector(q) = DominantSector(p)
  BY <1>1, SameSector
<1>3. EligibleBuildingTypes({t \in ToSet(lib) : t[b] # Null}, q)
        = EligibleBuildingTypes({t \in ToSet(lib) : t[b] # Null}, p)
  BY DEF EligibleBuildingTypes
<1> QED BY <1>2, <1>3 DEF Candidates

(* A consistent library matches by jobs only what has no homes.            *)
LEMMA ByJobsWithoutHomes ==
  ASSUME NEW p \in ParcelType, NEW lib, LibraryOk(lib), Consistent(lib),
         NEW t, t = Match(p, lib), t # None
  PROVE  Basis(p, lib) = "emp" <=> OrZero(p.du) <= 0
<1> DEFINE b == Basis(p, lib)
           C == {u \in ToSet(lib) : u[b] # Null}
<1>1. /\ b # "none" /\ b \in Densities /\ t \in Candidates(p, lib, b)
      /\ p[b] \in Nat /\ p[b] > 0
      /\ b = "emp" => OrZero(p.du) <= 0 \/ \A u \in ToSet(lib) : u.du = Null
  BY MatchIs, BasisIs DEF Chosen
<1>2. ASSUME b = "emp", ~(OrZero(p.du) <= 0) PROVE FALSE
  <2>1. \A u \in ToSet(lib) : u.du = Null
    BY <1>1, <1>2
  <2>2. \A u \in ToSet(lib) : ~u.houses
    BY <2>1 DEF Consistent, LibraryOk, Building, ToSet
  <2>3. t \in EligibleBuildingTypes(C, p)
    BY <1>1 DEF Candidates, PreferSameSector
  <2>4. EligibleBuildingTypes(C, p) \subseteq HousingOf(C)
    BY <1>2 DEF EligibleBuildingTypes, RequireSameCategory
  <2> QED BY <2>2, <2>3, <2>4 DEF HousingOf
<1>3. ASSUME OrZero(p.du) <= 0 PROVE b = "emp"
  BY <1>1, <1>3 DEF Densities, OrZero, Null
<1> QED BY <1>2, <1>3

(* Matched again, a parcel takes the same type, if it did not gain or lose *)
(* its homes by the first match.                                           *)
LEMMA MatchedAgain ==
  ASSUME NEW p \in ParcelType, NEW lib, LibraryOk(lib), Consistent(lib),
         NEW t, t = Match(p, lib), t # None,
         NEW q, q = WithBuiltForm(p, t, AcresOr(p, 0)),
         OrZero(q.du) <= 0 <=> OrZero(p.du) <= 0
  PROVE  Match(q, lib) = t
<1> DEFINE b == Basis(p, lib)
           A == AcresOr(p, 0)
<1>1. /\ b # "none" /\ b \in Densities /\ Chosen(p, lib, b, t) /\ Building(t) /\ t \in ToSet(lib)
      /\ A \in Nat /\ A > 0 /\ p[b] \in Nat /\ p[b] > 0 /\ t[b] \in Nat
      /\ \A u \in ToSet(lib) : u[b] \in Nat \union {Null}
  BY MatchIs, BasisIs
<1>2. /\ q \in ParcelType /\ q.category = p.category /\ q.jobs = p.jobs
      /\ AcresOr(q, 0) = A
      /\ q.du = A * OrZero(t.du) /\ q.du \in Nat
      /\ q.emp = A * OrZero(t.emp) /\ q.emp \in Nat
  <2>1. Building(t) /\ AcresOr(p, 0) \in Nat
    BY <1>1
  <2>2. AcresOr(q, 0) = AcresOr(p, 0)
    BY <2>1, Painted
  <2>3. q \in ParcelType
    BY <2>1, Painted
  <2>4. q.category = p.category /\ q.jobs = p.jobs
    BY <2>1, Painted
  <2>5. q.du \in Nat /\ q.emp \in Nat
    BY <2>1, Painted
  <2>6. q.du = AcresOr(p, 0) * OrZero(t.du)
    BY <2>1, Painted
  <2>7. q.emp = AcresOr(p, 0) * OrZero(t.emp)
    BY <2>1, Painted
  <2> QED BY <2>2, <2>3, <2>4, <2>5, <2>6, <2>7
<1>3. Candidates(q, lib, b) = Candidates(p, lib, b)
  BY <1>2, SameCandidates
<1>4. b = "emp" <=> OrZero(p.du) <= 0
  BY ByJobsWithoutHomes
<1>5. t[b] # 0 /\ t[b] > 0 /\ OrZero(t[b]) = t[b]
  BY <1>1 DEF Consistent, Densities, OrZero, Null
<1>6. q[b] = A * t[b]
  BY <1>1, <1>2, <1>5 DEF Densities
<1> HIDE DEF A, b
<1>7. A * t[b] > 0 /\ A * t[b] \in Nat
  BY <1>1, <1>5
<1>8. Basis(q, lib) = b
  <2>1. OrZero(q.du) = q.du /\ OrZero(q.emp) = q.emp
    BY <1>2 DEF OrZero, Null
  <2>2. \E n \in DOMAIN lib : lib[n][b] # Null
    BY <1>1 DEF ToSet, Null
  <2>3. CASE b = "du"
    <3>1. q.du > 0
      BY <1>6, <1>7, <2>3
    <3> QED BY <1>1, <1>2, <2>1, <2>2, <2>3, <3>1 DEF Basis
  <2>4. CASE b = "emp"
    <3>1. q.emp > 0 /\ OrZero(q.du) <= 0
      BY <1>4, <1>6, <1>7, <2>4
    <3> QED BY <1>1, <1>2, <2>1, <2>2, <2>4, <3>1 DEF Basis
  <2> QED BY <1>1, <2>3, <2>4 DEF Densities
<1>9. \A u \in Candidates(q, lib, b) : FromDensity(q, u, b) \in Nat
  BY <1>1, <1>2, <1>8, DistanceType
<1>10. ASSUME NEW u \in ToSet(lib), u[b] # Null, FromDensity(q, u, b) = 0
       PROVE  u[b] = t[b]
  <2>1. u[b] \in Nat
    BY <1>1, <1>10
  <2>2. u[b] * A = A * t[b]
    <3>1. u[b] * A \in Nat
      BY <1>1, <2>1
    <3> QED BY <1>2, <1>6, <1>7, <1>10, <3>1 DEF FromDensity, Abs
  <2>3. ASSUME NEW x \in Nat, NEW y \in Nat, x * A = A * y PROVE ~(x < y)
    <3> SUFFICES ASSUME x < y PROVE FALSE
      OBVIOUS
    <3>1. PICK d \in Nat : y = x + d /\ d > 0
      <4>1. y - x \in Nat /\ y - x > 0 /\ y = x + (y - x)
        OBVIOUS
      <4> QED BY <4>1
    <3>2. A * y = x * A + d * A
      BY <1>1, <3>1
    <3>3. d * A > 0 /\ d * A \in Nat /\ x * A \in Nat
      BY <1>1, <3>1
    <3> QED BY <2>3, <3>2, <3>3
  <2>4. t[b] * A = A * u[b]
    BY <1>1, <2>1, <2>2
  <2>5. ~(u[b] < t[b]) /\ ~(t[b] < u[b])
    BY <1>1, <2>1, <2>2, <2>3, <2>4
  <2> QED BY <1>1, <2>1, <2>5
<1>11. FromDensity(q, t, b) = 0
  <2>1. t[b] * A = A * t[b]
    BY <1>1
  <2> QED BY <1>2, <1>6, <1>7, <2>1 DEF FromDensity, Abs
<1>12. \A u : u[b] = t[b] => FromDensity(p, u, b) = FromDensity(p, t, b)
  BY DEF FromDensity
<1>13. Chosen(q, lib, b, t)
  <2>1. PICK n \in DOMAIN lib :
          /\ t = lib[n]
          /\ \A m \in DOMAIN lib : lib[m] \in Candidates(p, lib, b) =>
               (FromDensity(p, t, b) = FromDensity(p, lib[m], b) => n <= m)
    BY <1>1 DEF Chosen
  <2>2. ASSUME NEW m \in DOMAIN lib, lib[m] \in Candidates(q, lib, b)
        PROVE  /\ FromDensity(q, t, b) <= FromDensity(q, lib[m], b)
               /\ FromDensity(q, t, b) = FromDensity(q, lib[m], b) => n <= m
    <3>1. lib[m] \in ToSet(lib) /\ lib[m][b] # Null /\ FromDensity(q, lib[m], b) \in Nat
      BY <1>9, <2>2, CandidatesAre
    <3>2. FromDensity(q, lib[m], b) = 0 => n <= m
      BY <1>3, <1>10, <1>12, <2>1, <2>2, <3>1
    <3> QED BY <1>11, <3>1, <3>2
  <2> QED BY <1>1, <1>3, <2>1, <2>2 DEF Chosen
<1>14. Chosen(q, lib, b, Closest(q, lib, b)) /\ Match(q, lib) = Closest(q, lib, b)
  <2>1. Candidates(q, lib, b) # {}
    BY <1>13 DEF Chosen
  <2> QED BY <1>1, <1>2, <1>8, <2>1, ClosestIs DEF Match
<1> QED BY <1>9, <1>13, <1>14, ChosenOnce
-----------------------------------------------------------------------------
(* The invariant: the canvas shows what was recorded last, and a match is  *)
(* final from the second on, or from the first if the parcel has no homes. *)
Recorded ==
  built # None =>
    /\ Building(built)
    /\ parcel.du = AcresOr(parcel, 1) * OrZero(built.du)
    /\ parcel.emp = AcresOr(parcel, 1) * OrZero(built.emp)
    /\ parcel.key = built.name

Final ==
  Consistent(library) /\ (matches > 1 \/ (matches > 0 /\ OrZero(parcel.du) <= 0)) =>
    built # None /\ Match(parcel, library) = built

IInv == TypeOK /\ LibraryOk(library) /\ Recorded /\ Final

LEMMA InitInv == Init => IInv
<1> SUFFICES ASSUME Init PROVE IInv
  OBVIOUS
<1>1. LibraryOk(library)
  BY Libraries_Ok DEF Init
<1>2. TypeOK
  BY <1>1, BuiltFormsAssumption DEF Init, TypeOK, LibraryOk, Building, MaxMatches
<1> QED BY <1>1, <1>2 DEF Init, IInv, Recorded, Final

(* A match, for the proofs.                                                *)
LEMMA MatchStep ==
  ASSUME IInv, MatchBuiltForm, built' # None
  PROVE  /\ built' = Match(parcel, library) /\ Building(built') /\ built' \in ToSet(library)
         /\ AcresOr(parcel, 0) \in Nat /\ AcresOr(parcel, 0) > 0
         /\ AcresOr(parcel, 1) = AcresOr(parcel, 0)
         /\ parcel' = WithBuiltForm(parcel, built', AcresOr(parcel, 0))
         /\ matches' = matches + 1 /\ library' = library
<1>1. /\ built' = Match(parcel, library) /\ matches' = matches + 1 /\ library' = library
      /\ parcel' = WithBuiltForm(parcel, built', AcresOr(parcel, 0))
  BY DEF MatchBuiltForm
<1>2. parcel \in ParcelType /\ LibraryOk(library)
  BY DEF IInv, TypeOK
<1>3. Building(built') /\ built' \in ToSet(library) /\ Basis(parcel, library) # "none"
  BY <1>1, <1>2, MatchIs
<1>4. AcresOr(parcel, 0) \in Nat /\ AcresOr(parcel, 0) > 0
  BY <1>2, <1>3, BasisIs
<1>5. AcresOr(parcel, 1) = AcresOr(parcel, 0)
  BY <1>2, <1>4, AcresType
<1> QED BY <1>1, <1>3, <1>4, <1>5

(* What is final stays: the parcel is painted what it shows already.       *)
LEMMA FinalStays ==
  ASSUME IInv, MatchBuiltForm, built # None, Match(parcel, library) = built
  PROVE  parcel' = parcel /\ built' = built
<1>1. parcel \in ParcelType /\ built' # None
  BY DEF MatchBuiltForm, IInv, TypeOK
<1>2. parcel' = WithBuiltForm(parcel, built, AcresOr(parcel, 1)) /\ built' = built
  BY <1>1, MatchStep
<1> QED BY <1>1, <1>2, PaintedAlready DEF IInv, Recorded

LEMMA MatchInv ==
  ASSUME IInv, MatchBuiltForm PROVE IInv'
<1>1. /\ parcel \in ParcelType /\ LibraryOk(library) /\ library' = library /\ by' = "match"
      /\ matches \in 0..MaxMatches /\ matches < MaxMatches
      /\ \A n \in DOMAIN library : library[n].id \in 1..MaxTypes
  BY DEF IInv, TypeOK, MatchBuiltForm
<1>2. CASE built' = None
  <2>1. parcel' = parcel /\ matches' = 0
    BY <1>2 DEF MatchBuiltForm
  <2> QED BY <1>1, <1>2, <2>1 DEF IInv, TypeOK, Recorded, Final, MaxMatches
<1>3. CASE built' # None
  <2> DEFINE A == AcresOr(parcel, 0)
  <2>1. /\ built' = Match(parcel, library) /\ Building(built') /\ built' \in ToSet(library)
        /\ A \in Nat /\ A > 0 /\ AcresOr(parcel, 1) = A
        /\ parcel' = WithBuiltForm(parcel, built', A)
        /\ matches' = matches + 1
    BY <1>3, MatchStep
  <2>2. parcel' \in ParcelType /\ parcel'.key = built'.name
    BY <1>1, <2>1, Painted
  <2>3. AcresOr(parcel', 1) = A
    BY <1>1, <2>1, Painted
  <2>4. parcel'.du = A * OrZero(built'.du)
    BY <1>1, <2>1, Painted, SMTT(20)
  <2>5. parcel'.emp = A * OrZero(built'.emp)
    BY <1>1, <2>1, Painted
  <2>6. TypeOK'
    BY <1>1, <2>1, <2>2 DEF TypeOK, MaxMatches
  <2> HIDE DEF A
  <2>7. Recorded'
    BY <2>1, <2>2, <2>3, <2>4, <2>5 DEF Recorded
  <2>8. ASSUME Consistent(library), matches' > 1 \/ OrZero(parcel'.du) <= 0
        PROVE  Match(parcel', library) = built'
    <3>1. Basis(parcel, library) = "emp" <=> OrZero(parcel.du) <= 0
      BY <1>1, <1>3, <2>1, <2>8, ByJobsWithoutHomes
    <3>2. CASE OrZero(parcel'.du) <= 0 <=> OrZero(parcel.du) <= 0
      BY <1>1, <1>3, <2>1, <2>8, <3>2, MatchedAgain DEF A
    <3>3. CASE OrZero(parcel'.du) <= 0 /\ ~(OrZero(parcel.du) <= 0)
      <4>1. Basis(parcel, library) = "du" /\ built'.du \in Nat /\ built'.du # 0
        BY <1>1, <1>3, <2>1, <2>8, <3>1, <3>3, MatchIs, BasisIs DEF Densities, Consistent
      <4>2. OrZero(built'.du) = built'.du
        BY <4>1 DEF OrZero, Null
      <4>3. A * built'.du \in Nat /\ A * built'.du > 0
        BY <2>1, <4>1
      <4>4. OrZero(parcel'.du) = parcel'.du
        BY <2>4, <4>2, <4>3 DEF OrZero, Null
      <4> QED BY <2>4, <3>3, <4>2, <4>3, <4>4
    <3>4. CASE ~(OrZero(parcel'.du) <= 0) /\ OrZero(parcel.du) <= 0
      <4>1. matches > 0
        BY <1>1, <2>1, <2>8, <3>4 DEF MaxMatches
      <4>2. built # None /\ Match(parcel, library) = built
        BY <2>8, <3>4, <4>1 DEF IInv, Final
      <4> QED BY <4>2, FinalStays
    <3> QED BY <3>2, <3>3, <3>4
  <2>9. Final'
    BY <1>1, <1>3, <2>8 DEF Final
  <2> QED BY <1>1, <2>6, <2>7, <2>9 DEF IInv
<1> QED BY <1>2, <1>3

(* A fill, for the proofs.                                                 *)
LEMMA KeyMatchIs ==
  ASSUME NEW p, NEW lib, LibraryOk(lib), KeyMatch(p, lib) # None
  PROVE  KeyMatch(p, lib) \in ToSet(lib) /\ Building(KeyMatch(p, lib))
<1> DEFINE known == {n \in DOMAIN lib : NormalKey[lib[n].name] = NormalKey[p.key]}
<1>1. known # {} /\ KeyMatch(p, lib) = lib[Max(known)]
  BY DEF KeyMatch
<1>2. PICK k \in Nat : DOMAIN lib = 1..k
  BY DEF LibraryOk
<1>3. \E x \in known : \A y \in known : x >= y
  <2> DEFINE back == {k - n : n \in known}
  <2>1. \A n \in known : n \in 1..k
    BY <1>2
  <2>2. back \in SUBSET Nat /\ back # {}
    BY <1>1, <2>1
  <2>3. PICK x \in back : \A y \in back : x <= y
    BY <2>2, LeastNatural
  <2>4. PICK n \in known : x = k - n
    OBVIOUS
  <2>5. ASSUME NEW m \in known PROVE n >= m
    <3>1. k - n <= k - m
      BY <2>3, <2>4
    <3> HIDE DEF known
    <3> QED BY <1>2, <2>1, <3>1
  <2> QED BY <2>5
<1>4. Max(known) \in known
  <2> HIDE DEF known
  <2> QED BY <1>3 DEF Max
<1> QED BY <1>1, <1>4 DEF ToSet, LibraryOk

LEMMA FillInv ==
  ASSUME IInv, FillBuiltForm PROVE IInv'
<1>1. /\ parcel \in ParcelType /\ LibraryOk(library) /\ library' = library /\ by' = "fill"
      /\ matches' = 0 /\ built' = KeyMatch(parcel, library)
      /\ \A n \in DOMAIN library : library[n].id \in 1..MaxTypes
  BY DEF IInv, TypeOK, FillBuiltForm
<1>2. CASE built' = None
  <2>1. parcel' = parcel
    BY <1>2 DEF FillBuiltForm
  <2> QED BY <1>1, <1>2, <2>1 DEF IInv, TypeOK, Recorded, Final, MaxMatches
<1>3. CASE built' # None
  <2> DEFINE A == AcresOr(parcel, 1)
  <2>1. built' \in ToSet(library) /\ Building(built')
    BY <1>1, <1>3, KeyMatchIs
  <2>2. parcel' = WithBuiltForm(parcel, built', A)
    BY <1>3 DEF FillBuiltForm
  <2>3. A \in Nat
    BY <1>1, AcresType
  <2>4. parcel' \in ParcelType /\ parcel'.key = built'.name
    BY <1>1, <2>1, <2>2, <2>3, Painted
  <2>5. AcresOr(parcel', 1) = A
    BY <1>1, <2>1, <2>2, <2>3, Painted
  <2>6. parcel'.du = A * OrZero(built'.du)
    BY <1>1, <2>1, <2>2, <2>3, Painted
  <2>7. parcel'.emp = A * OrZero(built'.emp)
    BY <1>1, <2>1, <2>2, <2>3, Painted
  <2>8. TypeOK'
    BY <1>1, <2>1, <2>4 DEF TypeOK, MaxMatches
  <2> HIDE DEF A
  <2>9. Recorded'
    BY <2>1, <2>4, <2>5, <2>6, <2>7 DEF Recorded
  <2> QED BY <1>1, <2>8, <2>9 DEF IInv, Final
<1> QED BY <1>2, <1>3

LEMMA StepInv == IInv /\ [Next]_vars => IInv'
<1>1. ASSUME IInv, UNCHANGED vars PROVE IInv'
  BY <1>1 DEF IInv, TypeOK, Recorded, Final, vars
<1> QED BY <1>1, MatchInv, FillInv DEF Next

(* It holds in every reachable state.                                      *)
LEMMA Invariant == Spec => []IInv
BY InitInv, StepInv, PTL DEF Spec
-----------------------------------------------------------------------------
(* Parcels, what they are painted with and how often they were matched     *)
(* keep their types, for every library.                                    *)
THEOREM TypeCorrect == Spec => []TypeOK
<1>1. IInv => TypeOK
  BY DEF IInv
<1> QED BY Invariant, <1>1, PTL

(* Each Python rule of built_forms/matching.py and its SQL twin admit and  *)
(* prefer the same types (matching.py:58-66), for every library, parcel    *)
(* and set of sectors, NULLs, blanks and zeros included.                   *)
THEOREM TwinsAlwaysAgree == Spec => []TwinRulesAgree
<1>1. IInv => TwinRulesAgree
  BY TwinsAgree DEF IInv, TypeOK
<1> QED BY Invariant, <1>1, PTL

(* A match is final: once a parcel was matched twice, matching it again    *)
(* changes nothing (run_match_built_form).                                 *)
THEOREM MatchesSettle == Spec => MatchSettles
<1>1. IInv /\ [Next]_vars =>
        [(MatchBuiltForm /\ matches >= 2 /\ Consistent(library)) => UNCHANGED parcel]_vars
  <2> SUFFICES ASSUME IInv, MatchBuiltForm, matches >= 2, Consistent(library)
               PROVE  parcel' = parcel
    OBVIOUS
  <2>1. built # None /\ Match(parcel, library) = built
    <3>1. matches > 1
      BY DEF IInv, TypeOK, MaxMatches
    <3> QED BY <3>1 DEF IInv, Final
  <2> QED BY <2>1, FinalStays
<1> QED BY Invariant, <1>1, PTL DEF Spec, MatchSettles

(* A fill by key after a match or a fill finds the type recorded, unless   *)
(* another one's name normalizes alike, and paints the same values         *)
(* (run_fill_built_form, normalize_built_form_key).                        *)
THEOREM FillsRepeat == Spec => FillRepeatsMatch
<1>1. ASSUME IInv, FillBuiltForm, built # None,
             \A t \in ToSet(library) \ {built} : NormalKey[t.name] # NormalKey[built.name]
      PROVE  UNCHANGED <<parcel, built>>
  <2>1. /\ parcel \in ParcelType /\ LibraryOk(library) /\ built \in ToSet(library)
        /\ parcel.key = built.name /\ Building(built)
    BY <1>1 DEF IInv, TypeOK, Recorded
  <2>2. parcel.key \notin {NullText, ""}
    BY <2>1, NamesAssumption DEF Building
  <2> DEFINE known == {n \in DOMAIN library : NormalKey[library[n].name] = NormalKey[parcel.key]}
  <2>3. PICK k \in DOMAIN library : library[k] = built
    BY <2>1 DEF ToSet
  <2>4. known = {k}
    <3>1. k \in known
      BY <2>1, <2>3
    <3>2. ASSUME NEW n \in known PROVE n = k
      <4>1. library[n] = built
        BY <1>1, <2>1 DEF ToSet
      <4> QED BY <2>1, <2>3, <4>1 DEF LibraryOk
    <3> QED BY <3>1, <3>2
  <2>5. Max({k}) = k
    <3>1. k \in Nat
      BY <2>1 DEF LibraryOk
    <3>2. \A x \in {k} : x >= x
      BY <3>1
    <3> QED BY <3>2 DEF Max
  <2>6. KeyMatch(parcel, library) = built
    BY <2>2, <2>3, <2>4, <2>5 DEF KeyMatch
  <2>7. built' = built /\ parcel' = WithBuiltForm(parcel, built, AcresOr(parcel, 1))
    BY <1>1, <2>6 DEF FillBuiltForm
  <2>8. WithBuiltForm(parcel, built, AcresOr(parcel, 1)) = parcel
    BY <1>1, <2>1, PaintedAlready DEF IInv, Recorded
  <2> QED BY <2>7, <2>8
<1>2. IInv /\ [Next]_vars =>
        [(/\ FillBuiltForm /\ built # None
          /\ \A t \in ToSet(library) \ {built} : NormalKey[t.name] # NormalKey[built.name])
         => UNCHANGED <<parcel, built>>]_vars
  BY <1>1
<1> QED BY Invariant, <1>2, PTL DEF Spec, FillRepeatsMatch

-----------------------------------------------------------------------------
(* What the housing and the category rule leave of a density's candidates. *)
LEMMA MatchedByRule ==
  ASSUME NEW p \in ParcelType, NEW lib, LibraryOk(lib), Consistent(lib),
         NEW t, t = Match(p, lib), t # None
  PROVE  /\ t \in ToSet(lib) /\ EligibilitySql(p, t, ToSet(lib))
         /\ \A u \in ToSet(lib) :
              u \in EligibleBuildingTypes({v \in ToSet(lib) : v[Basis(p, lib)] # Null}, p)
                <=> u[Basis(p, lib)] # Null /\ EligibilitySql(p, u, ToSet(lib))
<1> DEFINE b == Basis(p, lib)
           C == {v \in ToSet(lib) : v[b] # Null}
           E == EligibleBuildingTypes(C, p)
<1>1. /\ b \in Densities /\ t \in ToSet(lib) /\ t \in Candidates(p, lib, b)
      /\ b = "emp" <=> OrZero(p.du) <= 0
  BY MatchIs, BasisIs, ByJobsWithoutHomes DEF Chosen
<1>2. t \in E
  BY <1>1 DEF Candidates, PreferSameSector
<1>3. \A u \in ToSet(lib) : u.houses \in BOOLEAN /\ (u.houses <=> u.du # Null)
  BY DEF LibraryOk, Building, ToSet, Consistent
<1>4. E = {u \in C : EligibilitySql(p, u, C)}
  BY <1>3, EligibleIs
<1>5. ASSUME NEW u \in ToSet(lib), u[b] # Null
      PROVE  EligibilitySql(p, u, C) <=> EligibilitySql(p, u, ToSet(lib))
  <2>1. CASE OrZero(p.du) <= 0
    <3>1. ~(OrZero(p.du) > 0)
      BY <2>1, HomesOrNone
    <3> QED BY <2>1, <3>1 DEF EligibilitySql
  <2>2. CASE ~(OrZero(p.du) <= 0)
    <3>1. b = "du"
      BY <1>1, <2>2 DEF Densities
    <3>2. \A h : h \in C /\ h.houses <=> h \in ToSet(lib) /\ h.houses
      BY <1>3, <3>1
    <3> QED BY <2>2, <3>2 DEF EligibilitySql
  <2> QED BY <2>1, <2>2
<1>6. ASSUME NEW u \in ToSet(lib)
      PROVE  u \in E <=> u[b] # Null /\ EligibilitySql(p, u, ToSet(lib))
  BY <1>4, <1>5
<1> HIDE DEF E
<1> QED BY <1>1, <1>2, <1>6 DEF E

(* "A parcel that holds dwelling units only takes a Building Type that     *)
(* houses people" (matching.py:10-41), and leaves its category only when   *)
(* that houses nobody, whatever matches and fills came before.             *)
THEOREM HomesAlwaysHoused == Spec => HomesAreHoused
<1>1. ASSUME IInv, MatchBuiltForm, built' # None, Consistent(library)
      PROVE  LET InCategory(t) == CategoryRequirementSql(parcel, t)
             IN /\ OrZero(parcel.du) > 0 => built'.houses
                /\ \/ InCategory(built')
                   \/ /\ OrZero(parcel.du) > 0
                      /\ ~ \E t \in ToSet(library) : t.houses /\ InCategory(t)
  <2>1. built' = Match(parcel, library) /\ parcel \in ParcelType /\ LibraryOk(library)
    BY <1>1, MatchStep DEF IInv, TypeOK
  <2>2. EligibilitySql(parcel, built', ToSet(library))
    BY <1>1, <2>1, MatchedByRule
  <2>3. OrZero(parcel.du) <= 0 => ~(OrZero(parcel.du) > 0)
    BY <2>1, HomesOrNone
  <2> QED BY <2>2, <2>3 DEF EligibilitySql
<1>2. IInv /\ [Next]_vars =>
        [(MatchBuiltForm /\ built' # None /\ Consistent(library))
         => LET InCategory(t) == CategoryRequirementSql(parcel, t)
            IN /\ OrZero(parcel.du) > 0 => built'.houses
               /\ \/ InCategory(built')
                  \/ /\ OrZero(parcel.du) > 0
                     /\ ~ \E t \in ToSet(library) : t.houses /\ InCategory(t)]_vars
  BY <1>1
<1> QED BY Invariant, <1>2, PTL DEF Spec, HomesAreHoused
-----------------------------------------------------------------------------
(* The ORDER BY of the fill is lexicographic.                              *)
LEMMA FourKeys ==
  ASSUME NEW a \in Nat \X Nat \X Nat \X Nat, NEW b \in Nat \X Nat \X Nat \X Nat
  PROVE  Precedes(a, b) <=>
           \/ a[1] < b[1]
           \/ a[1] = b[1] /\ a[2] < b[2]
           \/ a[1] = b[1] /\ a[2] = b[2] /\ a[3] < b[3]
           \/ a[1] = b[1] /\ a[2] = b[2] /\ a[3] = b[3] /\ a[4] < b[4]
<1>1. Len(a) = 4
  OBVIOUS
<1>2. \A i : i \in 1..4 <=> i = 1 \/ i = 2 \/ i = 3 \/ i = 4
  OBVIOUS
<1>3. /\ \A j : j \notin 1..0
      /\ \A j : j \in 1..1 <=> j = 1
      /\ \A j : j \in 1..2 <=> j = 1 \/ j = 2
      /\ \A j : j \in 1..3 <=> j = 1 \/ j = 2 \/ j = 3
  OBVIOUS
<1>4. Precedes(a, b) <=> \E i \in 1..4 : a[i] < b[i] /\ \A j \in 1..i-1 : a[j] = b[j]
  BY <1>1 DEF Precedes
<1>5. 1-1 = 0 /\ 2-1 = 1 /\ 3-1 = 2 /\ 4-1 = 3
  OBVIOUS
<1> QED BY <1>2, <1>3, <1>4, <1>5

(* The keys the fill ranks by are numbers.                                 *)
LEMMA KeysAre ==
  ASSUME NEW p \in ParcelType, NEW t, Building(t)
  PROVE  /\ OrderKey(p, t) =
              <<SectorPreferenceSql(p, t), BasisRank(p, t), BasisDistance(p, t), t.id>>
         /\ SectorPreferenceSql(p, t) \in Nat /\ BasisRank(p, t) \in Nat
         /\ BasisDistance(p, t) \in Nat /\ t.id \in Nat
<1>1. AcresOr(p, 0) \in Nat /\ p.du \in Nat \union {-1} /\ p.emp \in Nat \union {-1}
  BY AcresType DEF ParcelType, Null
<1>2. t.du \in Nat \union {-1} /\ t.emp \in Nat \union {-1} /\ t.id \in Nat
  BY BoundsAssumption DEF Building, Null
<1>3. FromDensity(p, t, "du") \in Nat
  <2>1. t.du * AcresOr(p, 0) \in Int
    BY <1>1, <1>2
  <2> QED BY <1>1, <2>1 DEF FromDensity, Abs
<1>4. FromDensity(p, t, "emp") \in Nat
  <2>1. t.emp * AcresOr(p, 0) \in Int
    BY <1>1, <1>2
  <2> QED BY <1>1, <2>1 DEF FromDensity, Abs
<1>5. BasisDistance(p, t) \in Nat /\ BasisRank(p, t) \in Nat
  BY <1>3, <1>4 DEF BasisDistance, BasisRank
<1> QED BY <1>2, <1>5, PreferenceIs DEF OrderKey

(* A type that shares the match's density is ranked by it; another, last.  *)
LEMMA RanksAre ==
  ASSUME NEW p \in ParcelType, NEW lib, LibraryOk(lib), Consistent(lib),
         Match(p, lib) # None, NEW b, b = Basis(p, lib),
         NEW u \in ToSet(lib), EligibilitySql(p, u, ToSet(lib))
  PROVE  /\ b = "du" => u[b] # Null
         /\ u[b] # Null => /\ BasisRank(p, u) = IF b = "du" THEN 1 ELSE 2
                           /\ BasisDistance(p, u) = FromDensity(p, u, b)
         /\ u[b] = Null => BasisRank(p, u) > 2
<1>1. /\ b \in Densities /\ AcresOr(p, 0) \in Nat /\ AcresOr(p, 0) > 0
      /\ p[b] \in Nat /\ p[b] > 0
      /\ b = "emp" <=> OrZero(p.du) <= 0
      /\ ~(OrZero(p.du) > 0) <=> OrZero(p.du) <= 0
  BY MatchIs, BasisIs, ByJobsWithoutHomes, HomesOrNone
<1>2. Building(u) /\ u.du # 0 /\ u.emp # 0 /\ (u.houses <=> u.du # Null)
  BY DEF LibraryOk, ToSet, Consistent
<1>3. u.du \in Nat \union {-1} /\ u.emp \in Nat \union {-1}
  BY <1>2 DEF Building, Null
<1>4. (OrZero(u.du) > 0 <=> u.du # Null) /\ (OrZero(u.emp) > 0 <=> u.emp # Null)
  BY <1>2, <1>3 DEF OrZero, Null
<1>5. CASE b = "du"
  <2>1. u.houses /\ u.du # Null
    BY <1>1, <1>2, <1>5 DEF EligibilitySql
  <2>2. DuBasis(p, u)
    BY <1>1, <1>4, <1>5, <2>1 DEF DuBasis, SourceAcres
  <2> QED BY <1>5, <2>1, <2>2 DEF BasisRank, BasisDistance
<1>6. CASE b = "emp"
  <2>1. ~DuBasis(p, u)
    BY <1>1, <1>6 DEF DuBasis
  <2>2. OrZero(p.emp) > 0
    BY <1>1, <1>6 DEF OrZero, Null
  <2>3. EmpBasis(p, u) <=> u.emp # Null
    BY <1>1, <1>4, <1>6, <2>2 DEF EmpBasis, SourceAcres
  <2> QED BY <1>6, <2>1, <2>3 DEF BasisRank, BasisDistance
<1> QED BY <1>1, <1>5, <1>6 DEF Densities

(* The match is among the preferred, and so is every type of its density   *)
(* that is preferred as it is.                                             *)
LEMMA PreferredAre ==
  ASSUME NEW p \in ParcelType, NEW lib, LibraryOk(lib), Consistent(lib),
         NEW t, t = Match(p, lib), t # None, NEW b, b = Basis(p, lib),
         NEW u \in ToSet(lib), EligibilitySql(p, u, ToSet(lib))
  PROVE  /\ SectorPreferenceSql(p, t) <= SectorPreferenceSql(p, u)
         /\ u[b] # Null /\ SectorPreferenceSql(p, u) = SectorPreferenceSql(p, t)
              => u \in Candidates(p, lib, b)
<1> DEFINE D == DominantSector(p)
           E == EligibleBuildingTypes({v \in ToSet(lib) : v[b] # Null}, p)
           same == {v \in E : v.jobs[D] > 0}
<1>1. /\ t \in Candidates(p, lib, b) /\ b \in Densities
      /\ u[b] # Null => u \in E
      /\ b = "du" => u[b] # Null
  BY MatchIs, BasisIs, MatchedByRule, RanksAre DEF Chosen
<1>2. Candidates(p, lib, b) = IF D = "none" THEN E ELSE IF same = {} THEN E ELSE same
  BY DEF Candidates, PreferSameSector
<1>3. /\ SectorPreferenceSql(p, t) \in {0, 1} /\ SectorPreferenceSql(p, u) \in {0, 1}
      /\ SectorPreferenceSql(p, t) = 0 <=> D # "none" /\ t.jobs[D] > 0
      /\ SectorPreferenceSql(p, u) = 0 <=> D # "none" /\ u.jobs[D] > 0
      /\ D = "none" \/ D \in Sector
  BY PreferenceIs
<1>4. ASSUME D # "none", u.jobs[D] > 0 PROVE u \in same
  <2>1. u.emp # Null
    BY <1>3, <1>4 DEF Consistent
  <2>2. u[b] # Null
    BY <1>1, <2>1 DEF Densities
  <2> QED BY <1>1, <1>4, <2>2
<1> HIDE DEF D, E
<1>5. SectorPreferenceSql(p, u) = 0 => SectorPreferenceSql(p, t) = 0
  BY <1>1, <1>2, <1>3, <1>4
<1>6. ASSUME u[b] # Null, SectorPreferenceSql(p, u) = SectorPreferenceSql(p, t)
      PROVE  u \in Candidates(p, lib, b)
  <2>1. CASE SectorPreferenceSql(p, u) = 0
    BY <1>2, <1>3, <1>4, <2>1
  <2>2. CASE SectorPreferenceSql(p, u) # 0
    BY <1>1, <1>2, <1>3, <1>6, <2>2
  <2> QED BY <2>1, <2>2
<1> QED BY <1>3, <1>5, <1>6

(* The density match of a paint is the first row of the fill's SELECT.     *)
LEMMA MatchComesFirst ==
  ASSUME NEW p \in ParcelType, NEW lib, LibraryOk(lib), Consistent(lib),
         NEW t, t = Match(p, lib), t # None, NEW b, b = Basis(p, lib),
         NEW u \in ToSet(lib), u # t, EligibilitySql(p, u, ToSet(lib)),
         u[b] # Null => FromDensity(p, u, b) # FromDensity(p, t, b)
  PROVE  /\ Precedes(OrderKey(p, t), OrderKey(p, u))
         /\ ~Precedes(OrderKey(p, u), OrderKey(p, t))
<1>1. /\ t \in ToSet(lib) /\ EligibilitySql(p, t, ToSet(lib)) /\ t[b] # Null
      /\ Building(t) /\ Building(u)
  BY MatchIs, MatchedByRule, CandidatesAre DEF Chosen, LibraryOk, ToSet
<1>2. SectorPreferenceSql(p, t) <= SectorPreferenceSql(p, u)
  BY PreferredAre
<1>3. SectorPreferenceSql(p, t) = SectorPreferenceSql(p, u) =>
        \/ BasisRank(p, t) < BasisRank(p, u)
        \/ BasisRank(p, t) = BasisRank(p, u) /\ BasisDistance(p, t) < BasisDistance(p, u)
  <2> SUFFICES ASSUME SectorPreferenceSql(p, t) = SectorPreferenceSql(p, u)
               PROVE  \/ BasisRank(p, t) < BasisRank(p, u)
                      \/ /\ BasisRank(p, t) = BasisRank(p, u)
                         /\ BasisDistance(p, t) < BasisDistance(p, u)
    OBVIOUS
  <2>1. /\ BasisRank(p, t) = IF b = "du" THEN 1 ELSE 2
        /\ BasisDistance(p, t) = FromDensity(p, t, b)
    BY <1>1, RanksAre
  <2>2. CASE u[b] = Null
    <3>1. BasisRank(p, u) > 2 /\ BasisRank(p, u) \in Nat
      BY <1>1, <2>2, RanksAre, KeysAre
    <3> QED BY <2>1, <3>1
  <2>3. CASE u[b] # Null
    <3>1. /\ BasisRank(p, u) = IF b = "du" THEN 1 ELSE 2
          /\ BasisDistance(p, u) = FromDensity(p, u, b)
      BY <2>3, RanksAre
    <3>2. u \in Candidates(p, lib, b)
      BY <2>3, PreferredAre
    <3>3. FromDensity(p, t, b) <= FromDensity(p, u, b)
      BY <3>2, MatchIs DEF Chosen, ToSet
    <3>4. FromDensity(p, t, b) \in Nat /\ FromDensity(p, u, b) \in Nat
      BY <1>1, <2>1, <3>1, KeysAre
    <3> QED BY <2>1, <2>3, <3>1, <3>3, <3>4
  <2> QED BY <2>2, <2>3
<1>4. /\ OrderKey(p, t) =
           <<SectorPreferenceSql(p, t), BasisRank(p, t), BasisDistance(p, t), t.id>>
      /\ OrderKey(p, u) =
           <<SectorPreferenceSql(p, u), BasisRank(p, u), BasisDistance(p, u), u.id>>
      /\ SectorPreferenceSql(p, t) \in Nat /\ BasisRank(p, t) \in Nat
      /\ BasisDistance(p, t) \in Nat /\ t.id \in Nat
      /\ SectorPreferenceSql(p, u) \in Nat /\ BasisRank(p, u) \in Nat
      /\ BasisDistance(p, u) \in Nat /\ u.id \in Nat
  BY <1>1, KeysAre
<1> DEFINE a == OrderKey(p, t)
           z == OrderKey(p, u)
<1>5. /\ a \in Nat \X Nat \X Nat \X Nat /\ z \in Nat \X Nat \X Nat \X Nat
      /\ a[1] <= z[1]
      /\ a[1] = z[1] => a[2] < z[2] \/ (a[2] = z[2] /\ a[3] < z[3])
  BY <1>2, <1>3, <1>4
<1> HIDE DEF a, z
<1>6. Precedes(a, z)
  BY <1>5, FourKeys
<1>7. ~Precedes(z, a)
  BY <1>5, FourKeys
<1> QED BY <1>6, <1>7 DEF a, z

(* "The same density match, run per parcel" (built_form_fill.py:24-25):    *)
(* for every consistent library and every parcel without equally close     *)
(* types, what a paint matches is what the fill of a base canvas assigns.  *)
THEOREM MatchersAlwaysAgree == Spec => []MatchersAgree
<1>1. ASSUME IInv PROVE MatchersAgree
  <2> DEFINE t == Match(parcel, library)
             b == Basis(parcel, library)
             admitted == {u \in ToSet(library) : EligibilitySql(parcel, u, ToSet(library))}
  <2> SUFFICES ASSUME Consistent(library), t # None,
                      \A u \in ToSet(library) \ {t} :
                         u[b] # Null => FromDensity(parcel, u, b) # FromDensity(parcel, t, b)
               PROVE  FillMatch(parcel, library) = t
    BY DEF MatchersAgree
  <2>1. parcel \in ParcelType /\ LibraryOk(library)
    BY <1>1 DEF IInv, TypeOK
  <2>2. t \in admitted
    BY <2>1, MatchedByRule
  <2>3. ASSUME NEW u \in admitted, u # t
        PROVE  /\ Precedes(OrderKey(parcel, t), OrderKey(parcel, u))
               /\ ~Precedes(OrderKey(parcel, u), OrderKey(parcel, t))
    BY <2>1, <2>3, MatchComesFirst
  <2>4. FillMatch(parcel, library) =
          IF admitted = {} THEN None
          ELSE CHOOSE s \in admitted :
                  \A u \in admitted \ {s} : Precedes(OrderKey(parcel, s), OrderKey(parcel, u))
    BY DEF FillMatch
  <2> HIDE DEF t, admitted
  <2> QED BY <2>2, <2>3, <2>4
<1> QED BY Invariant, <1>1, PTL

=============================================================================
