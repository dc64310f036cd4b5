----------------------- MODULE OutletResolutionProofs -----------------------
(* Theorems about OutletResolution: for any levels, manifest, snap targets *)
(* and catchments.                                                         *)
EXTENDS OutletResolution, FiniteSetTheorems, TLAPS

-----------------------------------------------------------------------------
(* Finiteness and size in the two searches are those of FiniteSets. *)

LEMMA Sizes ==
  ASSUME NEW S
  PROVE  /\ Snap!Cardinality(S) = Cardinality(S)
         /\ Pip!Cardinality(S) = Cardinality(S)
         /\ Snap!IsFiniteSet(S) => IsFiniteSet(S)
         /\ Pip!IsFiniteSet(S) => IsFiniteSet(S)
<1>1. Snap!Cardinality(S) = Cardinality(S) /\ Pip!Cardinality(S) = Cardinality(S)
  BY Zenon DEF Cardinality, Snap!Cardinality, Pip!Cardinality
<1>2. /\ Snap!IsFiniteSet(S) => IsFiniteSet(S)
      /\ Pip!IsFiniteSet(S) => IsFiniteSet(S)
  BY Zenon DEF IsFiniteSet, Snap!IsFiniteSet, Pip!IsFiniteSet
<1> QED  BY <1>1, <1>2

-----------------------------------------------------------------------------
(* The ranking of snap targets. *)

LEMMA SnapTypes ==
  ASSUME store \in SnapStores
  PROVE  /\ IsFiniteSet(DOMAIN store)
         /\ \A t \in DOMAIN store :
              /\ t \in Int /\ store[t].weight \in Int
              /\ store[t].mainstem \in BOOLEAN /\ store[t].here \in BOOLEAN
              /\ store[t].near \in Int /\ store[t].distance \in Int
              /\ store[t].near <= store[t].distance
BY OutletAssumption, Sizes DEF OutletAssumption, Snap!SnapAssumption, Snap!Target

(* Whatever no target precedes beats every other one, and none beats it. *)
LEMMA RankingIsBeating ==
  ASSUME store \in SnapStores, strategy \in Snap!Strategies,
         NEW a \in DOMAIN store, NEW b \in DOMAIN store, a # b,
         ~ Snap!Precedes(b, a, strategy = "weightFirst")
  PROVE  Snap!Beats(a, b) /\ ~ Snap!Beats(b, a)
<1> DEFINE Key(t) == << -store[t].weight, IF store[t].mainstem THEN 0 ELSE 1,
                        IF strategy = "weightFirst" THEN store[t].distance ELSE 0,
                        t >>
           Less(x, y) == \E i \in 1..4 :
             /\ Key(x)[i] < Key(y)[i]
             /\ \A j \in 1..(i - 1) : Key(x)[j] = Key(y)[j]
           Flat(x, y) ==
             \/ Key(x)[1] < Key(y)[1]
             \/ Key(x)[1] = Key(y)[1] /\ Key(x)[2] < Key(y)[2]
             \/ /\ Key(x)[1] = Key(y)[1] /\ Key(x)[2] = Key(y)[2]
                /\ Key(x)[3] < Key(y)[3]
             \/ /\ Key(x)[1] = Key(y)[1] /\ Key(x)[2] = Key(y)[2]
                /\ Key(x)[3] = Key(y)[3] /\ Key(x)[4] < Key(y)[4]
<1>1. \A x, y : Less(x, y) <=> Flat(x, y)
  <2> HIDE DEF Key
  <2> TAKE x, y
  <2>1. ASSUME NEW i \in 1..4, Key(x)[i] < Key(y)[i],
               \A j \in 1..(i - 1) : Key(x)[j] = Key(y)[j]
        PROVE  Flat(x, y)
    <3>1. i = 1 \/ i = 2 \/ i = 3 \/ i = 4
      BY <2>1
    <3> QED  BY <2>1, <3>1
  <2>2. ASSUME Flat(x, y) PROVE Less(x, y)
    <3>1. CASE Key(x)[1] < Key(y)[1]
      <4>1. 1 \in 1..4 /\ \A j \in 1..(1 - 1) : Key(x)[j] = Key(y)[j]
        OBVIOUS
      <4> QED  BY <3>1, <4>1
    <3>2. CASE Key(x)[1] = Key(y)[1] /\ Key(x)[2] < Key(y)[2]
      <4>1. 2 \in 1..4 /\ \A j \in 1..(2 - 1) : Key(x)[j] = Key(y)[j]
        BY <3>2
      <4> QED  BY <3>2, <4>1
    <3>3. CASE /\ Key(x)[1] = Key(y)[1] /\ Key(x)[2] = Key(y)[2]
               /\ Key(x)[3] < Key(y)[3]
      <4>1. 3 \in 1..4 /\ \A j \in 1..(3 - 1) : Key(x)[j] = Key(y)[j]
        BY <3>3
      <4> QED  BY <3>3, <4>1
    <3>4. CASE /\ Key(x)[1] = Key(y)[1] /\ Key(x)[2] = Key(y)[2]
               /\ Key(x)[3] = Key(y)[3] /\ Key(x)[4] < Key(y)[4]
      <4>1. 4 \in 1..4 /\ \A j \in 1..(4 - 1) : Key(x)[j] = Key(y)[j]
        BY <3>4
      <4> QED  BY <3>4, <4>1
    <3> QED  BY <2>2, <3>1, <3>2, <3>3, <3>4
  <2> QED  BY <2>1, <2>2
<1>2. Flat(a, b) /\ ~ Flat(b, a)
  BY SnapTypes DEF Snap!Precedes
<1>3. Less(a, b) /\ ~ Less(b, a)
  BY <1>1, <1>2
<1> QED  BY <1>3 DEF Snap!Beats

LEMMA NearIsBand ==
  ASSUME store \in SnapStores, radius \in Radii
  PROVE  /\ Snap!Qualified(radius) \subseteq Snap!InBox
         /\ Snap!Near(radius) =
              IF strategy = "distanceFirst" THEN Snap!Band(Snap!Qualified(radius))
              ELSE Snap!Qualified(radius)
<1>1. radius \in Int
  BY OutletAssumption DEF OutletAssumption, Snap!SnapAssumption
<1>2. Snap!Qualified(radius) \subseteq Snap!InBox
  BY <1>1, SnapTypes DEF Snap!Qualified, Snap!InBox
<1> QED  BY <1>2 DEF Snap!Near, Snap!Band

(* What is ranked first is the only best. *)
LEMMA RankedIsBest ==
  ASSUME store \in SnapStores, radius \in Radii, strategy \in Snap!Strategies,
         NEW w \in Snap!Ranked(Snap!Qualified(radius))
  PROVE  Snap!Best(radius) = {w}
<1>1. w \in Snap!Minimal(Snap!Near(radius), strategy = "weightFirst")
  BY NearIsBand DEF Snap!Ranked, Snap!Strategies
<1>2. Snap!Near(radius) \subseteq DOMAIN store
  BY DEF Snap!Near, Snap!Qualified
<1>3. \A a \in Snap!Near(radius) \ {w} : Snap!Beats(w, a) /\ ~ Snap!Beats(a, w)
  BY <1>1, <1>2, RankingIsBeating DEF Snap!Minimal
<1>4. w \in Snap!Near(radius)
  BY <1>1 DEF Snap!Minimal
<1> QED  BY <1>3, <1>4 DEF Snap!Best

-----------------------------------------------------------------------------
(* The snap search. *)

(* The rows seen so far that could not be used. *)
SnapFailed ==
  {t \in Snap!InBox \ pending : store[t].here /\ store[t].shape # "sound"}

(* The inductive invariant of a snap search: what was scored and what      *)
(* failed is exactly what should have been, of the rows seen so far.       *)
SnapSearch ==
  /\ store \in SnapStores
  /\ verdict \in {"start", "scoring", "ok", "noSnapCandidates",
                  "allGeometriesCorrupt", "datasetRead"}
  /\ verdict = "start" =>
       pending = {} /\ total = 0 /\ failures = 0 /\ scored = {}
  /\ verdict \notin {"start", "datasetRead"} =>
       /\ pending \subseteq Snap!InBox
       /\ total = Cardinality(Snap!InBox)
       /\ failures = Cardinality(SnapFailed)
       /\ scored = Snap!Qualified(radius) \ pending
  /\ verdict \in {"ok", "noSnapCandidates", "allGeometriesCorrupt"} => pending = {}
  /\ verdict = "ok" => scored # {} /\ winner \in Snap!Ranked(scored)
  /\ verdict \in {"noSnapCandidates", "allGeometriesCorrupt"} => scored = {}
  /\ verdict = "noSnapCandidates" =>
       Snap!InBox = {} \/ ~ (failures > 0 /\ failures = total)
  /\ verdict = "allGeometriesCorrupt" => failures > 0 /\ failures = total

LEMMA FiniteBox ==
  ASSUME store \in SnapStores
  PROVE  /\ IsFiniteSet(Snap!InBox) /\ Cardinality(Snap!InBox) \in Nat
         /\ \A S \in SUBSET Snap!InBox :
              /\ IsFiniteSet(S) /\ Cardinality(S) \in Nat
              /\ Cardinality(S) = Cardinality(Snap!InBox) <=> S = Snap!InBox
              /\ Cardinality(S) > 0 <=> S # {}
<1>1. IsFiniteSet(Snap!InBox)
  <2>1. Snap!InBox \in SUBSET DOMAIN store
    BY DEF Snap!InBox
  <2> QED  BY <2>1, SnapTypes, FS_Subset
<1>2. ASSUME NEW S \in SUBSET Snap!InBox
      PROVE  /\ IsFiniteSet(S) /\ Cardinality(S) \in Nat
             /\ Cardinality(S) = Cardinality(Snap!InBox) <=> S = Snap!InBox
             /\ Cardinality(S) > 0 <=> S # {}
  <2>1. IsFiniteSet(S) /\ Cardinality(S) \in Nat
    BY <1>1, FS_Subset, FS_CardinalityType
  <2>2. Cardinality(S) > 0 <=> S # {}
    BY <2>1, FS_EmptySet
  <2>3. ASSUME Cardinality(S) = Cardinality(Snap!InBox), S # Snap!InBox PROVE FALSE
    <3>1. PICK x \in Snap!InBox : x \notin S
      BY <2>3
    <3>2. S \in SUBSET (Snap!InBox \ {x})
      BY <3>1
    <3>3. /\ IsFiniteSet(Snap!InBox \ {x})
          /\ Cardinality(Snap!InBox \ {x}) = Cardinality(Snap!InBox) - 1
      BY <1>1, <3>1, FS_RemoveElement
    <3>4. Cardinality(S) <= Cardinality(Snap!InBox) - 1
      BY <3>2, <3>3, FS_Subset
    <3> QED  BY <2>1, <2>3, <3>4
  <2> QED  BY <2>1, <2>2, <2>3
<1> QED  BY <1>1, <1>2, FS_CardinalityType

LEMMA SnapSearchNext ==
  ASSUME SnapSearch, radius \in Radii, Snap!Next
  PROVE  SnapSearch'
<1> USE DEF SnapSearch
<1>1. /\ UNCHANGED <<store, radius, strategy>>
      /\ Snap!InBox' = Snap!InBox
      /\ Snap!Qualified(radius)' = Snap!Qualified(radius)
      /\ \A S : Snap!Ranked(S)' = Snap!Ranked(S)
  <2>1. UNCHANGED <<store, radius, strategy>>
    BY DEF Snap!Next, Snap!Query, Snap!Conclude, Snap!OtherLevel, Snap!Unusable,
           Snap!TooFar, Snap!Score, Snap!Take, Snap!problem
  <2> QED  BY <2>1 DEF Snap!InBox, Snap!Qualified, Snap!Ranked, Snap!Minimal,
                       Snap!Band, Snap!Precedes
<1>2. Snap!Qualified(radius) \subseteq Snap!InBox
  BY NearIsBand
<1>3. CASE Snap!Query
  <2>1. CASE verdict' = "datasetRead"
    BY <1>1, <2>1
  <2>2. CASE verdict' # "datasetRead"
    <3>1. /\ verdict = "start" /\ pending' = Snap!InBox
          /\ total' = Cardinality(Snap!InBox)
          /\ verdict' = IF Snap!InBox = {} THEN "noSnapCandidates" ELSE "scoring"
          /\ UNCHANGED <<failures, scored, winner>>
      BY <1>3, <2>2, Sizes DEF Snap!Query
    <3>2. SnapFailed' = {} /\ Cardinality({}) = 0
      BY <1>1, <3>1, FS_EmptySet DEF SnapFailed
    <3> QED  BY <1>1, <1>2, <3>1, <3>2
  <2> QED  BY <2>1, <2>2
<1>4. CASE \E t \in pending : \/ Snap!OtherLevel(t) \/ Snap!Unusable(t)
                              \/ Snap!TooFar(t) \/ Snap!Score(t)
  <2>1. PICK t \in pending : \/ Snap!OtherLevel(t) \/ Snap!Unusable(t)
                             \/ Snap!TooFar(t) \/ Snap!Score(t)
    BY <1>4
  <2>2. /\ verdict = "scoring" /\ pending' = pending \ {t}
        /\ UNCHANGED <<total, verdict, winner>> /\ t \in Snap!InBox
    BY <2>1 DEF Snap!OtherLevel, Snap!Unusable, Snap!TooFar, Snap!Score, Snap!Take
  <2>3. failures' = Cardinality(SnapFailed)'
    <3>1. IsFiniteSet(SnapFailed) /\ t \notin SnapFailed
      BY <2>1, FiniteBox DEF SnapFailed
    <3>2. CASE Snap!Unusable(t)
      <4>1. SnapFailed' = SnapFailed \cup {t}
        BY <1>1, <2>2, <3>2 DEF Snap!Unusable, SnapFailed
      <4> QED  BY <2>2, <3>1, <3>2, <4>1, FS_AddElement DEF Snap!Unusable
    <3>3. CASE Snap!OtherLevel(t) \/ Snap!TooFar(t) \/ Snap!Score(t)
      <4>1. SnapFailed' = SnapFailed /\ failures' = failures
        BY <1>1, <2>2, <3>3
           DEF Snap!OtherLevel, Snap!TooFar, Snap!Score, SnapFailed
      <4> QED  BY <2>2, <4>1
    <3> QED  BY <2>1, <3>2, <3>3
  <2>4. scored' = Snap!Qualified(radius) \ pending'
    <3>1. CASE Snap!Score(t)
      BY <1>2, <2>2, <3>1 DEF Snap!Score, Snap!Qualified, Snap!InBox
    <3>2. CASE Snap!OtherLevel(t) \/ Snap!Unusable(t)
      BY <2>2, <3>2 DEF Snap!OtherLevel, Snap!Unusable, Snap!Qualified
    <3>3. CASE Snap!TooFar(t)
      <4>1. t \notin Snap!Qualified(radius)
        <5>1. store[t].distance \in Int /\ radius \in Int
          BY <2>2, SnapTypes, OutletAssumption
             DEF OutletAssumption, Snap!SnapAssumption, Snap!InBox
        <5> QED  BY <3>3, <5>1 DEF Snap!TooFar, Snap!Qualified
      <4> QED  BY <2>2, <3>3, <4>1 DEF Snap!TooFar
    <3> QED  BY <2>1, <3>1, <3>2, <3>3
  <2> QED  BY <1>1, <2>2, <2>3, <2>4
<1>5. CASE Snap!Conclude
  <2>1. /\ verdict = "scoring" /\ pending = {} /\ verdict' # "datasetRead"
        /\ UNCHANGED <<pending, total, failures, scored>>
        /\ SnapFailed' = SnapFailed
    BY <1>1, <1>5 DEF Snap!Conclude, SnapFailed
  <2>2. verdict' \in {"ok", "noSnapCandidates", "allGeometriesCorrupt"}
    BY <1>5 DEF Snap!Conclude
  <2>3. IF scored = {}
        THEN verdict' = IF failures > 0 /\ failures = total
                        THEN "allGeometriesCorrupt" ELSE "noSnapCandidates"
        ELSE verdict' = "ok" /\ winner' \in Snap!Ranked(scored)
    BY <1>5 DEF Snap!Conclude
  <2> QED  BY <1>1, <2>1, <2>2, <2>3
<1> QED  BY <1>3, <1>4, <1>5 DEF Snap!Next

LEMMA SnapSearchMeans ==
  ASSUME SnapSearch, radius \in Radii, strategy \in Snap!Strategies
  PROVE  Snap!ResolvesToBest /\ Snap!WideningKeeps /\ Snap!ErrorsExact
<1> USE DEF SnapSearch
<1>1. ASSUME verdict = "ok"
      PROVE  Snap!Best(radius) = {winner} /\ winner \in Snap!Qualified(radius)
  <2>1. winner \in Snap!Ranked(Snap!Qualified(radius))
    BY <1>1
  <2>2. Snap!Best(radius) = {winner}
    BY <2>1, RankedIsBest
  <2>3. winner \in Snap!Qualified(radius)
    BY <2>2 DEF Snap!Best, Snap!Near
  <2> QED  BY <2>2, <2>3
<1>2. Snap!ResolvesToBest
  BY <1>1 DEF Snap!ResolvesToBest
<1>3. Snap!WideningKeeps
  <2> SUFFICES ASSUME verdict = "ok", NEW r \in Radii, NEW t \in SnapIds,
                      r <= radius, t \in Snap!Best(r)
               PROVE  /\ strategy = "weightFirst" =>
                           store[t].weight <= store[winner].weight
                      /\ /\ strategy = "distanceFirst"
                         /\ \E n \in Snap!Qualified(r) :
                              store[n].distance + Tolerance <= r
                         => t = winner
    BY DEF Snap!WideningKeeps
  <2>1. /\ r \in Int /\ radius \in Int /\ Tolerance \in Int
        /\ Snap!Qualified(r) \subseteq DOMAIN store
        /\ Snap!Qualified(radius) \subseteq DOMAIN store
        /\ Snap!Qualified(r) \subseteq Snap!Qualified(radius)
    <3>1. r \in Int /\ radius \in Int /\ Tolerance \in Int
      BY OutletAssumption DEF OutletAssumption, Snap!SnapAssumption
    <3> QED  BY <3>1, SnapTypes DEF Snap!Qualified
  <2>2. t \in Snap!Qualified(r)
    BY DEF Snap!Best, Snap!Near
  <2>3. ASSUME strategy = "weightFirst"
        PROVE  store[t].weight <= store[winner].weight
    <3>1. winner \in Snap!Minimal(Snap!Qualified(radius), TRUE)
      BY <2>3 DEF Snap!Ranked
    <3>2. ~ Snap!Precedes(t, winner, TRUE)
      BY <2>1, <2>2, <3>1 DEF Snap!Minimal
    <3> QED  BY <1>1, <2>1, <2>2, <3>2, SnapTypes DEF Snap!Precedes
  <2>4. ASSUME strategy = "distanceFirst", NEW n \in Snap!Qualified(r),
               store[n].distance + Tolerance <= r
        PROVE  t = winner
    <3>1. \A a \in Snap!Qualified(radius) \ Snap!Qualified(r) :
            a \in DOMAIN store /\ store[a].distance > r
      BY <2>1, SnapTypes DEF Snap!Qualified
    <3>2. \A a \in Snap!Qualified(radius) :
            store[a].distance <= store[n].distance + Tolerance => a \in Snap!Qualified(r)
      BY <2>1, <2>4, <3>1, SnapTypes
    <3>3. Snap!Near(radius) \subseteq Snap!Near(r)
      BY <2>1, <2>4, <3>2 DEF Snap!Near
    <3>4. Snap!Near(r) \subseteq Snap!Near(radius)
      <4> SUFFICES ASSUME NEW a \in Snap!Near(r), NEW b \in Snap!Qualified(radius)
                   PROVE  store[a].distance <= store[b].distance + Tolerance
        BY <2>1 DEF Snap!Near
      <4>1. CASE b \in Snap!Qualified(r)
        BY <2>4, <4>1 DEF Snap!Near
      <4>2. CASE b \notin Snap!Qualified(r)
        <5>1. store[a].distance <= store[n].distance + Tolerance
          BY <2>4 DEF Snap!Near
        <5>2. store[b].distance > r
          BY <3>1, <4>2
        <5>3. /\ store[a].distance \in Int /\ store[b].distance \in Int
              /\ store[n].distance \in Int
          BY <2>1, SnapTypes DEF Snap!Near
        <5>4. Tolerance >= 0
          BY OutletAssumption DEF OutletAssumption, Snap!SnapAssumption
        <5> QED  BY <2>1, <2>4, <5>1, <5>2, <5>3, <5>4
      <4> QED  BY <4>1, <4>2
    <3>5. Snap!Best(r) = Snap!Best(radius)
      BY <3>3, <3>4 DEF Snap!Best
    <3> QED  BY <1>1, <3>5
  <2> QED  BY <2>3, <2>4
<1>4. Snap!ErrorsExact
  <2>1. Snap!Qualified(radius) \subseteq Snap!InBox
    BY NearIsBand
  <2>2. verdict \in {"noSnapCandidates", "allGeometriesCorrupt"} =>
          Snap!Qualified(radius) = {}
    OBVIOUS
  <2>3. verdict \in {"ok", "noSnapCandidates", "allGeometriesCorrupt"} =>
          /\ failures = total <=> SnapFailed = Snap!InBox
          /\ failures > 0 <=> SnapFailed # {}
    <3>1. SnapFailed \in SUBSET Snap!InBox
      BY DEF SnapFailed
    <3> QED  BY <3>1, FiniteBox
  <2>4. verdict \in {"ok", "noSnapCandidates", "allGeometriesCorrupt"} =>
          (SnapFailed = Snap!InBox <=>
             \A t \in Snap!InBox : store[t].here /\ store[t].shape # "sound")
    BY DEF SnapFailed
  <2>5. verdict = "ok" =>
          \E t \in Snap!InBox : store[t].shape = "sound"
    BY <2>1 DEF Snap!Qualified
  <2> QED  BY <2>2, <2>3, <2>4, <2>5 DEF Snap!ErrorsExact
<1> QED  BY <1>2, <1>3, <1>4
-----------------------------------------------------------------------------
(* The catchment search. *)

PipFailed == {u \in DOMAIN store : ~ store[u].decodes}

(* The inductive invariant of a catchment search: what was decoded and     *)
(* what holds the outlet is what should, and the ranking went by it.       *)
PipSearch ==
  /\ store \in CatchmentStores
  /\ verdict \in {"start", "contains", "intersects", "rank", "ok", "datasetRead",
                  "outsideAllCatchments", "allGeometriesCorrupt"}
  /\ verdict \notin {"start", "datasetRead"} =>
       decoded = Pip!Usable /\ failures = Cardinality(PipFailed)
  /\ verdict = "intersects" => Pip!Inside = {}
  /\ verdict \in {"contains", "intersects", "rank"} => DOMAIN store # {}
  /\ verdict \in {"rank", "ok"} => hits = Pip!Claimants
  /\ verdict \in {"outsideAllCatchments", "allGeometriesCorrupt"} =>
       Pip!Claimants = {}
  /\ verdict = "outsideAllCatchments" =>
       \/ DOMAIN store = {}
       \/ ~ (failures > 0 /\ failures = Cardinality(DOMAIN store))
  /\ verdict = "allGeometriesCorrupt" => failures = Cardinality(DOMAIN store)
  /\ verdict = "ok" =>
       /\ winner \in Pip!First(hits)
       /\ \/ hits = {winner} /\ tieBreak = None
          \/ \E v \in Pip!First(hits \ {winner}) :
               hits # {winner} /\ tieBreak = Pip!Reason(winner, v)

LEMMA PipTypes ==
  ASSUME store \in CatchmentStores
  PROVE  /\ IsFiniteSet(DOMAIN store)
         /\ \A u \in DOMAIN store :
              /\ u \in Int /\ store[u].area \in Int
              /\ store[u].upstream # None => store[u].upstream \in Int
              /\ store[u].place \in {"inside", "boundary", "outside"}
              /\ store[u].here \in BOOLEAN /\ store[u].decodes \in BOOLEAN
BY OutletAssumption, Sizes DEF OutletAssumption, Pip!PipAssumption, Pip!Catchment

(* The catchments that failed are all of them exactly when their numbers   *)
(* are equal.                                                              *)
LEMMA AllFailed ==
  ASSUME store \in CatchmentStores
  PROVE  /\ Cardinality(PipFailed) = Cardinality(DOMAIN store) <=>
              PipFailed = DOMAIN store
         /\ PipFailed # {} => Cardinality(PipFailed) > 0
<1>1. IsFiniteSet(DOMAIN store) /\ PipFailed \in SUBSET DOMAIN store
  BY PipTypes DEF PipFailed
<1>2. IsFiniteSet(PipFailed) /\ Cardinality(PipFailed) \in Nat
  BY <1>1, FS_Subset, FS_CardinalityType
<1>3. ASSUME NEW x \in DOMAIN store, x \notin PipFailed
      PROVE  Cardinality(PipFailed) # Cardinality(DOMAIN store)
  <2>1. PipFailed \in SUBSET (DOMAIN store \ {x})
    BY <1>1, <1>3
  <2>2. /\ IsFiniteSet(DOMAIN store \ {x})
        /\ Cardinality(DOMAIN store \ {x}) = Cardinality(DOMAIN store) - 1
    BY <1>1, <1>3, FS_RemoveElement
  <2>3. Cardinality(PipFailed) <= Cardinality(DOMAIN store) - 1
    BY <2>1, <2>2, FS_Subset
  <2>4. Cardinality(DOMAIN store) \in Nat
    BY <1>1, FS_CardinalityType
  <2> QED  BY <1>2, <2>3, <2>4
<1>4. PipFailed # {} => Cardinality(PipFailed) > 0
  BY <1>2, FS_EmptySet
<1> QED  BY <1>1, <1>3, <1>4

LEMMA PipSearchNext == ASSUME PipSearch, Pip!Next PROVE PipSearch'
<1> USE DEF PipSearch
<1>1. /\ UNCHANGED store
      /\ Pip!Usable' = Pip!Usable /\ Pip!Inside' = Pip!Inside
      /\ Pip!Claimants' = Pip!Claimants /\ PipFailed' = PipFailed
      /\ \A S : Pip!First(S)' = Pip!First(S)
      /\ \A u, v : Pip!Reason(u, v)' = Pip!Reason(u, v)
  <2>1. UNCHANGED store
    BY DEF Pip!Next, Pip!Query, Pip!Contains, Pip!Intersects, Pip!Rank
  <2> QED  BY <2>1 DEF Pip!Usable, Pip!Inside, Pip!Touching, Pip!Claimants,
                       Pip!First, Pip!Before, Pip!Drains, Pip!Reason, PipFailed
<1>2. \A u \in Pip!Usable : store[u].place \in {"inside", "boundary", "outside"}
  BY PipTypes DEF Pip!Usable
<1>3. CASE Pip!Query
  <2>1. CASE verdict' = "datasetRead"
    BY <1>1, <2>1
  <2>2. CASE verdict' # "datasetRead"
    <3>1. /\ failures' = Cardinality(PipFailed) /\ decoded' = Pip!Usable
          /\ verdict' = IF DOMAIN store = {} THEN "outsideAllCatchments" ELSE "contains"
      BY <1>3, <2>2, Sizes DEF Pip!Query, PipFailed, Pip!Usable
    <3>2. DOMAIN store = {} => Pip!Claimants = {}
      BY DEF Pip!Claimants, Pip!Inside, Pip!Touching, Pip!Usable
    <3> QED  BY <1>1, <3>1, <3>2
  <2> QED  BY <2>1, <2>2
<1>4. CASE Pip!Contains
  <2>1. /\ verdict = "contains" /\ hits' = Pip!Inside
        /\ verdict' = IF hits' = {} THEN "intersects" ELSE "rank"
        /\ UNCHANGED <<failures, decoded, winner, tieBreak>>
    BY <1>4 DEF Pip!Contains, Pip!Inside
  <2> QED  BY <1>1, <2>1 DEF Pip!Claimants
<1>5. CASE Pip!Intersects
  <2>1. /\ verdict = "intersects" /\ hits' = {u \in decoded : store[u].place # "outside"}
        /\ verdict' = IF hits' # {} THEN "rank"
                      ELSE IF failures > 0 /\ failures = Cardinality(DOMAIN store)
                      THEN "allGeometriesCorrupt" ELSE "outsideAllCatchments"
        /\ UNCHANGED <<failures, decoded, winner, tieBreak>>
    BY <1>5, Sizes DEF Pip!Intersects
  <2>2. hits' = Pip!Claimants
    BY <1>2, <2>1 DEF Pip!Claimants, Pip!Inside, Pip!Touching
  <2> QED  BY <1>1, <2>1, <2>2
<1>6. CASE Pip!Rank
  <2>1. /\ verdict = "rank" /\ verdict' = "ok" /\ UNCHANGED <<failures, decoded, hits>>
        /\ winner' \in Pip!First(hits)
        /\ \/ hits = {winner'} /\ tieBreak' = None
           \/ \E v \in Pip!First(hits \ {winner'}) :
                hits # {winner'} /\ tieBreak' = Pip!Reason(winner', v)
    BY <1>6 DEF Pip!Rank
  <2> QED  BY <1>1, <2>1
<1> QED  BY <1>3, <1>4, <1>5, <1>6 DEF Pip!Next

LEMMA PipSearchMeans ==
  ASSUME PipSearch
  PROVE  Pip!AnswerIsClaimant /\ Pip!TieBreakTold /\ Pip!ErrorsExact
<1> USE DEF PipSearch
<1>1. /\ Pip!Claimants \subseteq DOMAIN store
      /\ \A u \in Pip!Claimants : store[u].decodes
  BY DEF Pip!Claimants, Pip!Inside, Pip!Touching, Pip!Usable
<1>2. ASSUME verdict = "ok"
      PROVE  /\ winner \in Pip!Claimants
             /\ \A u \in Pip!Claimants \ {winner} : Pip!Before(winner, u)
  BY <1>2 DEF Pip!First
<1>3. Pip!AnswerIsClaimant
  <2> SUFFICES ASSUME verdict = "ok", NEW u \in Pip!Claimants, Pip!Drains(u, winner)
               PROVE  FALSE
    BY <1>2 DEF Pip!AnswerIsClaimant
  <2>1. winner \in DOMAIN store /\ u \in DOMAIN store
    BY <1>1, <1>2
  <2>2. CASE u = winner
    BY <2>1, <2>2, PipTypes DEF Pip!Drains
  <2>3. CASE u # winner
    BY <1>2, <2>1, <2>3, PipTypes DEF Pip!Drains, Pip!Before
  <2> QED  BY <2>2, <2>3
<1>4. Pip!TieBreakTold
  <2> SUFFICES ASSUME verdict = "ok" PROVE Pip!TieBreakTold
    BY DEF Pip!TieBreakTold
  <2> DEFINE rivals == Pip!Claimants \ {winner}
             equal == {u \in rivals : store[u].upstream = store[winner].upstream}
             same == {u \in equal : store[u].area = store[winner].area}
  <2>1. /\ None \notin {"highestUpstreamArea", "highestLocalArea", "lowestUnitId"}
        /\ winner \in DOMAIN store /\ rivals \subseteq DOMAIN store
        /\ equal \subseteq rivals /\ same \subseteq equal
        /\ \A u \in rivals : Pip!Before(winner, u)
    BY <1>1, <1>2, OutletAssumption DEF OutletAssumption, Pip!PipAssumption
  <2>2. /\ \A u \in equal : store[winner].area > store[u].area \/ u \in same
        /\ \A u \in equal \ same : store[u].area < store[winner].area
        /\ \A u \in same : winner < u /\ store[u].area = store[winner].area
    <3> SUFFICES ASSUME NEW u \in equal
                 PROVE  /\ store[winner].area > store[u].area \/ u \in same
                        /\ u \notin same => store[u].area < store[winner].area
                        /\ u \in same => winner < u
      BY <2>1
    <3>1. Pip!Before(winner, u) /\ u \in DOMAIN store
      BY <2>1
    <3> QED  BY <2>1, <3>1, PipTypes DEF Pip!Before, Pip!Drains
  <2>3. CASE rivals = {}
    <3>1. tieBreak = None
      BY <1>2, <2>3 DEF Pip!First
    <3> QED  BY <2>1, <2>3, <3>1 DEF Pip!TieBreakTold
  <2>4. CASE rivals # {}
    <3>1. PICK v \in Pip!First(rivals) : tieBreak = Pip!Reason(winner, v)
      BY <1>2, <2>4
    <3>2. v \in rivals /\ \A u \in rivals \ {v} : Pip!Before(v, u)
      BY <3>1 DEF Pip!First
    <3>3. v \in equal <=> equal # {}
      <4>1. ASSUME NEW u \in equal PROVE v \in equal
        <5>1. CASE u = v
          BY <4>1, <5>1
        <5>2. CASE u # v
          <6>1. Pip!Before(v, u) /\ Pip!Before(winner, v)
            BY <2>1, <3>2, <5>2
          <6> QED  BY <2>1, <3>2, <6>1, PipTypes DEF Pip!Before, Pip!Drains
        <5> QED  BY <5>1, <5>2
      <4> QED  BY <4>1
    <3>4. v \in same <=> same # {}
      <4>1. ASSUME NEW u \in same PROVE v \in same
        <5>1. CASE u = v
          BY <4>1, <5>1
        <5>2. CASE u # v
          <6>1. v \in equal /\ u \in equal
            BY <3>3
          <6>2. Pip!Before(v, u) /\ Pip!Before(winner, v)
            BY <2>1, <3>2, <5>2
          <6> QED  BY <2>1, <3>2, <6>1, <6>2, PipTypes DEF Pip!Before, Pip!Drains
        <5> QED  BY <5>1, <5>2
      <4> QED  BY <4>1
    <3>5. tieBreak = IF v \notin equal THEN "highestUpstreamArea"
                     ELSE IF v \notin same THEN "highestLocalArea"
                     ELSE "lowestUnitId"
      BY <3>1, <3>2 DEF Pip!Reason
    <3> HIDE DEF rivals, equal, same
    <3>6. /\ tieBreak = None <=> rivals = {}
          /\ tieBreak = "highestUpstreamArea" <=> rivals # {} /\ equal = {}
          /\ tieBreak = "highestLocalArea" <=>
               /\ equal # {} /\ same = {}
               /\ \A u \in equal : store[u].area < store[winner].area
          /\ tieBreak = "lowestUnitId" <=>
               same # {} /\ \A u \in same : winner < u
      BY <2>1, <2>2, <2>4, <3>3, <3>4, <3>5
    <3> USE DEF rivals, equal, same
    <3> QED  BY <3>6 DEF Pip!TieBreakTold
  <2> QED  BY <2>3, <2>4
<1>5. Pip!ErrorsExact
  <2>1. DOMAIN store # {} =>
          (PipFailed = DOMAIN store <=> \A u \in DOMAIN store : ~ store[u].decodes)
    BY DEF PipFailed
  <2>2. DOMAIN store # {} /\ PipFailed = DOMAIN store => Cardinality(PipFailed) > 0
    BY AllFailed
  <2> QED  BY <2>1, <2>2, AllFailed DEF Pip!ErrorsExact
<1> QED  BY <1>3, <1>4, <1>5

-----------------------------------------------------------------------------
(* The engine's side. *)

(* The inductive invariant: a search begins fresh, on rows of its own kind *)
(* of store, for the level and the declaration that the dispatch chose.    *)
IInv ==
  /\ radius \in Radii /\ strategy \in Snap!Strategies
  /\ method \in {"undecided", "snap", "pip"}
  /\ level # None \/ method # "undecided" =>
       level \in levelIndex /\ \A k \in levelIndex : k <= level
  /\ method = "undecided" =>
       /\ level # None => verdict = "start"
       /\ pending = {} /\ total = 0 /\ failures = 0 /\ scored = {}
  /\ method = "snap" => declaration \in SnapForLevel(level) /\ SnapSearch
  /\ method = "pip" => SnapForLevel(level) = {} /\ PipSearch

LEMMA InitIInv == Init => IInv
BY DEF Init, IInv

LEMMA NextIInv == IInv /\ [Next]_vars => IInv'
<1> SUFFICES ASSUME IInv, [Next]_vars PROVE IInv'
  OBVIOUS
<1> USE DEF IInv
<1>1. CASE SelectLevel
  BY <1>1 DEF SelectLevel, snapOnly
<1>2. CASE DispatchSnap
  <2>1. /\ UNCHANGED <<manifest, level, levelIndex, radius, strategy, verdict>>
        /\ UNCHANGED <<pending, total, failures, scored>>
        /\ method' = "snap" /\ store' \in SnapStores /\ verdict = "start"
        /\ level # None /\ declaration' \in SnapForLevel(level)
        /\ method = "undecided"
    BY <1>2 DEF DispatchSnap, snapOnly
  <2>2. SnapSearch'
    BY <2>1 DEF SnapSearch
  <2>3. SnapForLevel(level)' = SnapForLevel(level)
    BY <2>1 DEF SnapForLevel, Declared
  <2> QED  BY <2>1, <2>2, <2>3
<1>3. CASE DispatchPip
  <2>1. /\ UNCHANGED <<manifest, level, levelIndex, radius, strategy, verdict>>
        /\ method' = "pip" /\ store' \in CatchmentStores /\ verdict = "start"
        /\ level # None /\ SnapForLevel(level) = {} /\ method = "undecided"
    BY <1>3 DEF DispatchPip, snapOnly
  <2>2. PipSearch'
    BY <2>1 DEF PipSearch
  <2>3. SnapForLevel(level)' = SnapForLevel(level)
    BY <2>1 DEF SnapForLevel, Declared
  <2> QED  BY <2>1, <2>2, <2>3
<1>4. CASE method = "snap" /\ Snap!Next /\ UNCHANGED <<request, pipOnly>>
  <2>1. SnapSearch'
    BY <1>4, SnapSearchNext
  <2>2. UNCHANGED <<levelIndex, manifest, level, declaration, method, radius, strategy>>
    BY <1>4 DEF request, Snap!Next, Snap!Query, Snap!Conclude, Snap!OtherLevel,
                Snap!Unusable, Snap!TooFar, Snap!Score, Snap!Take, Snap!problem
  <2>3. SnapForLevel(level)' = SnapForLevel(level)
    BY <2>2 DEF SnapForLevel, Declared
  <2> QED  BY <1>4, <2>1, <2>2, <2>3
<1>5. CASE method = "pip" /\ Pip!Next /\ UNCHANGED <<request, snapOnly>>
  <2>1. PipSearch'
    BY <1>5, PipSearchNext
  <2>2. UNCHANGED <<levelIndex, manifest, level, declaration, method, radius, strategy>>
    BY <1>5 DEF request, snapOnly
  <2>3. SnapForLevel(level)' = SnapForLevel(level)
    BY <2>2 DEF SnapForLevel, Declared
  <2> QED  BY <1>5, <2>1, <2>2, <2>3
<1>6. CASE UNCHANGED vars
  <2>1. SnapSearch' = SnapSearch /\ PipSearch' = PipSearch
    BY <1>6 DEF vars, snapOnly, pipOnly, SnapSearch, PipSearch, SnapFailed, PipFailed,
                Snap!InBox, Snap!Qualified, Snap!Ranked, Snap!Minimal, Snap!Band,
                Snap!Precedes, Pip!Usable, Pip!Inside, Pip!Touching, Pip!Claimants,
                Pip!First, Pip!Before, Pip!Drains, Pip!Reason
  <2>2. SnapForLevel(level)' = SnapForLevel(level)
    BY <1>6 DEF vars, request, SnapForLevel, Declared
  <2> QED  BY <1>6, <2>1, <2>2 DEF vars, request, snapOnly
<1> QED  BY <1>1, <1>2, <1>3, <1>4, <1>5, <1>6 DEF Next

LEMMA Always == Spec => []IInv
BY InitIInv, NextIInv, PTL DEF Spec

(* A snap search resolves to the one target that its strategy names.       *)
THEOREM ResolvesToBestHolds == Spec => []ResolvesToBest
<1>1. IInv => ResolvesToBest
  BY SnapSearchMeans DEF IInv, ResolvesToBest
<1> QED  BY <1>1, Always, PTL

(* A wider snap search keeps the channel that a narrower one found.        *)
THEOREM WideningKeepsHolds == Spec => []WideningKeeps
<1>1. IInv => WideningKeeps
  BY SnapSearchMeans DEF IInv, WideningKeeps
<1> QED  BY <1>1, Always, PTL

(* A catchment search answers with the claimant that its cascade ranks     *)
(* first and names the rule that singled it out.                           *)
THEOREM AnswerIsClaimantHolds == Spec => []AnswerIsClaimant
<1>1. IInv => AnswerIsClaimant
  BY PipSearchMeans DEF IInv, AnswerIsClaimant
<1> QED  BY <1>1, Always, PTL

(* Either search fails exactly when it has to.                             *)
THEOREM ErrorsExactHolds == Spec => []ErrorsExact
<1>1. IInv => ErrorsExact
  BY SnapSearchMeans, PipSearchMeans DEF IInv, ErrorsExact
<1> QED  BY <1>1, Always, PTL

-----------------------------------------------------------------------------
(* The dispatch to one of the two searches. *)

(* Every set of natural numbers that is not empty has a least element. *)
LEMMA LeastNatural ==
  ASSUME NEW S \in SUBSET Nat, S # {}
  PROVE  \E m \in S : \A n \in S : m <= n
<1> DEFINE R == OpToRel(<, Nat)
<1>1. \A x, y \in Nat : <<x, y>> \in R <=> x < y
  BY DEF OpToRel
<1>2. IsWellFoundedOn(R, Nat)
  BY NatLessThanWellFounded
<1> HIDE DEF R
<1>3. PICK m \in S : \A n \in S : ~ (<<n, m>> \in R)
  BY <1>2, WFMin
<1>4. m \in Nat /\ \A n \in S : n \in Nat /\ ~ (n < m)
  BY <1>1, <1>3
<1>5. \A n \in S : m <= n
  BY <1>4
<1> QED  BY <1>5

LEMMA ManifestTypes ==
  ASSUME manifest \in Manifests
  PROVE  /\ DOMAIN manifest \subseteq Nat
         /\ \A i \in DOMAIN manifest :
              manifest[i].name \in Nat /\ manifest[i].snap \in Nat
<1>1. manifest \in Seq(Declaration)
  BY OutletAssumption
<1>2. \A i \in DOMAIN manifest : manifest[i] \in Declaration /\ i \in Nat
  BY <1>1
<1> QED  BY <1>2 DEF Declaration

(* As long as a declaration names the level, snap_for_level finds one. *)
LEMMA SomeSnapForLevel ==
  ASSUME manifest \in Manifests, NEW l, Declared(l) # {}
  PROVE  SnapForLevel(l) # {}
<1> DEFINE D == Declared(l)
           names == {manifest[i].name : i \in D}
<1>1. /\ D \subseteq Nat
      /\ \A i \in D : manifest[i].name \in Nat /\ manifest[i].snap \in Nat
  BY ManifestTypes DEF Declared
<1>2. PICK n \in names : \A k \in names : n <= k
  <2>1. names # {} /\ names \subseteq Nat
    BY <1>1
  <2> HIDE DEF names
  <2> QED  BY <2>1, LeastNatural
<1> DEFINE A == {i \in D : manifest[i].name = n}
           snaps == {manifest[i].snap : i \in A}
<1>3. PICK s \in snaps : \A k \in snaps : s <= k
  <2>1. snaps # {} /\ snaps \subseteq Nat
    BY <1>1, <1>2
  <2> HIDE DEF snaps
  <2> QED  BY <2>1, LeastNatural
<1> DEFINE B == {i \in A : manifest[i].snap = s}
<1>4. PICK m \in B : \A k \in B : m <= k
  <2>1. B # {} /\ B \subseteq Nat
    BY <1>1, <1>3
  <2> HIDE DEF B
  <2> QED  BY <2>1, LeastNatural
<1> DEFINE Less(a, b) ==
             \/ manifest[a].name < manifest[b].name
             \/ manifest[a].name = manifest[b].name /\ manifest[a].snap < manifest[b].snap
           least == {i \in D : \A j \in D : ~ Less(j, i)}
<1>5. \A j \in D : ~ Less(j, m)
  <2> SUFFICES ASSUME NEW j \in D PROVE ~ Less(j, m)
    OBVIOUS
  <2>1. m \in D /\ manifest[m].name = n /\ manifest[m].snap = s /\ n \in Nat /\ s \in Nat
    BY <1>1, <1>4
  <2>2. n <= manifest[j].name
    BY <1>2
  <2>3. manifest[j].name = n => s <= manifest[j].snap
    BY <1>3
  <2> QED  BY <1>1, <2>1, <2>2, <2>3
<1>6. m \in least
  BY <1>4, <1>5
<1>7. \A i \in least : i \in B
  <2> SUFFICES ASSUME NEW i \in least PROVE i \in B
    OBVIOUS
  <2>1. ~ Less(m, i) /\ ~ Less(i, m) /\ m \in D /\ i \in D
    BY <1>5, <1>6
  <2>2. manifest[i].name = manifest[m].name /\ manifest[i].snap = manifest[m].snap
    BY <1>1, <2>1
  <2> QED  BY <1>4, <2>1, <2>2
<1>8. m \in SnapForLevel(l)
  BY <1>4, <1>6, <1>7 DEF SnapForLevel
<1> QED  BY <1>8

LEMMA ManifestFixed == Spec => [](manifest \in Manifests)
<1>1. Init => manifest \in Manifests
  BY DEF Init
<1>2. manifest \in Manifests /\ [Next]_vars => (manifest \in Manifests)'
  BY DEF Next, vars, request, SelectLevel, DispatchSnap, DispatchPip
<1> QED  BY <1>1, <1>2, PTL DEF Spec

LEMMA DispatchedMeans == IInv /\ manifest \in Manifests => DispatchByDeclaration
<1> SUFFICES ASSUME IInv, manifest \in Manifests PROVE DispatchByDeclaration
  OBVIOUS
<1>1. \A i \in Declared(level) : manifest[i].name \in Nat /\ manifest[i].snap \in Nat
  BY ManifestTypes DEF Declared
<1>2. ASSUME method = "snap"
      PROVE  /\ declaration \in Declared(level)
             /\ \A i \in Declared(level) :
                  \/ manifest[declaration].name < manifest[i].name
                  \/ /\ manifest[declaration].name = manifest[i].name
                     /\ manifest[declaration].snap <= manifest[i].snap
  BY <1>1, <1>2 DEF IInv, SnapForLevel
<1>3. method = "pip" => Declared(level) = {}
  BY SomeSnapForLevel DEF IInv
<1> QED  BY <1>2, <1>3 DEF IInv, DispatchByDeclaration

(* The finest level is searched, by the snap declaration for it that is    *)
(* least by name and artifact, in whatever order a manifest of any length  *)
(* lists them; and by catchments exactly when none names it.               *)
THEOREM DispatchByDeclarationHolds == Spec => []DispatchByDeclaration
BY Always, ManifestFixed, DispatchedMeans, PTL
=============================================================================
