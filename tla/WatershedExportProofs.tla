------------------------ MODULE WatershedExportProofs ------------------------
(***************************************************************************)
(* Proofs about Delineation, RowGroups, BasinExport and their composition: *)
(* every call of a batch ends with the watershed of its outlet or with an  *)
(* error that has a cause, for any dataset, calls and overwrites; the plan *)
(* of plan_row_groups, for every number of rows, never fails its check and *)
(* cuts the rows without gap or overlap; and a finished file of what a     *)
(* batch answered holds the rows asked for, in order and in their bounds.  *)
(***************************************************************************)
EXTENDS WatershedExport, FiniteSetTheorems, TLAPS

(* Division by a positive number, as a product and a remainder. *)
LEMMA DivMod ==
  ASSUME NEW n \in Nat, NEW g \in Nat \ {0}
  PROVE  /\ n \div g \in Nat /\ n % g \in 0..(g - 1)
         /\ n = (g * (n \div g)) + (n % g)
  BY Z3

(* The same, of any integer. *)
LEMMA IntDivMod ==
  ASSUME NEW n \in Int, NEW d \in Nat \ {0}
  PROVE  n \div d \in Int /\ n % d \in 0..(d - 1) /\ n = (d * (n \div d)) + (n % d)
  BY Z3

(* Export takes the library's operators under names of its own. *)
LEMMA Same ==
  /\ \A S : Export!Cardinality(S) = Cardinality(S)
  /\ \A S : Export!Min(S) = Min(S) /\ Export!Max(S) = Max(S)
  /\ \A f : Export!Range(f) = Range(f)
<1>1. \A S : Export!Cardinality(S) = Cardinality(S)
  BY DEF Export!Cardinality, Cardinality
<1>2. \A S : Export!Min(S) = Min(S) /\ Export!Max(S) = Max(S)
  BY DEF Export!Min, Min, Export!Max, Max
<1>3. \A f : Export!Range(f) = Range(f)
  BY DEF Export!Range, Range
<1> QED  BY <1>1, <1>2, <1>3

LEMMA SameSeqs ==
  /\ \A s, a, b : Export!SubSeq(s, a, b) = SubSeq(s, a, b)
  /\ \A s : Export!Len(s) = Len(s)
  /\ \A s, e : Export!Append(s, e) = Append(s, e)
  OBVIOUS

(* A product grows with its factor. *)
LEMMA Monotone ==
  ASSUME NEW g \in Nat, NEW a \in Nat, NEW b \in Nat, a <= b
  PROVE  g * a <= g * b
  BY Z3

(* The number of groups is the least for which no group need exceed the    *)
(* target.                                                                 *)
LEMMA GroupCountBounds ==
  ASSUME NEW n \in Nat, n >= Smallest
  PROVE  /\ GroupCount(n) \in Nat \ {0}
         /\ n <= Target * GroupCount(n)
         /\ Target * (GroupCount(n) - 1) < n
<1> DEFINE up == n + (Target - 1)
           g == up \div Target
<1>1. Smallest \in Nat \ {0} /\ Target \in Nat \ {0} /\ up \in Nat /\ Target >= 2
  BY RowGroupsAssumption
<1>2. /\ g \in Nat /\ up % Target \in 0..(Target - 1)
      /\ up = (Target * g) + (up % Target)
  BY <1>1, DivMod
<1>3. GroupCount(n) = g
  BY <1>1 DEF GroupCount
<1> HIDE DEF g
<1>4. g # 0
  <2>1. CASE g = 0
    <3>1. Target * g = 0
      BY <1>1, <2>1
    <3> QED  BY <1>1, <1>2, <3>1
  <2> QED  BY <2>1
<1>5. Target * g \in Nat /\ Target * (g - 1) = (Target * g) - Target
  BY <1>1, <1>2
<1> HIDE DEF up
<1>6. up = n + (Target - 1)
  BY DEF up
<1>7. n <= Target * g /\ Target * (g - 1) < n
  <2> DEFINE product == Target * g
             rest == up % Target
  <2>1. product \in Nat /\ rest \in 0..(Target - 1) /\ up = product + rest
    BY <1>2, <1>5
  <2>2. Target * (g - 1) = product - Target
    BY <1>5
  <2> HIDE DEF product, rest
  <2>3. n <= product /\ product - Target < n
    BY <1>1, <1>6, <2>1
  <2> QED  BY <2>2, <2>3 DEF product
<1> QED  BY <1>2, <1>3, <1>4, <1>7

(* The quotient of rows by groups lies between the limits, and below the   *)
(* upper one where a remainder is left to spread.                          *)
LEMMA BaseBounds ==
  ASSUME NEW n \in Nat, n >= Smallest
  PROVE  /\ n \div GroupCount(n) >= Smallest
         /\ n \div GroupCount(n) <= Target
         /\ n % GroupCount(n) > 0 => n \div GroupCount(n) < Target
<1> DEFINE g == GroupCount(n)
           base == n \div g
           rest == n % g
<1>1. Smallest \in Nat \ {0} /\ Target \in Nat \ {0} /\ Target = 2 * Smallest
  BY RowGroupsAssumption
<1>2. g \in Nat \ {0} /\ n <= Target * g /\ Target * (g - 1) < n
  BY GroupCountBounds
<1> HIDE DEF g
<1>3. base \in Nat /\ rest \in 0..(g - 1) /\ n = (g * base) + rest
  BY <1>2, DivMod
<1> HIDE DEF base, rest
<1>4. base >= Smallest
  <2>1. SUFFICES ASSUME base + 1 <= Smallest PROVE FALSE
    BY <1>1, <1>3
  <2>2. g * (base + 1) <= g * Smallest
    BY <1>1, <1>2, <1>3, <2>1, Monotone
  <2>3. g * (base + 1) = (g * base) + g
    BY <1>2, <1>3
  <2>4. n < g * Smallest
    BY <1>1, <1>2, <1>3, <2>2, <2>3
  <2>5. CASE g = 1
    BY <1>1, <2>4, <2>5
  <2>6. CASE g >= 2
    <3>1. Target * (g - 1) = (2 * (Smallest * g)) - (2 * Smallest)
      BY <1>1, <1>2
    <3>2. Smallest * 2 <= Smallest * g
      BY <1>1, <1>2, <2>6, Monotone
    <3>3. g * Smallest = Smallest * g /\ Smallest * g \in Nat
      BY <1>1, <1>2
    <3> DEFINE product == Smallest * g
    <3>4. product \in Nat /\ n < product /\ 2 * Smallest <= product
      BY <1>1, <2>4, <3>2, <3>3
    <3>5. (2 * product) - (2 * Smallest) < n
      BY <1>2, <3>1
    <3> HIDE DEF product
    <3> QED  BY <1>1, <3>4, <3>5
  <2> QED  BY <1>2, <2>5, <2>6
<1>5. base <= Target
  <2>1. SUFFICES ASSUME Target + 1 <= base PROVE FALSE
    BY <1>1, <1>3
  <2>2. g * (Target + 1) <= g * base
    BY <1>1, <1>2, <1>3, <2>1, Monotone
  <2>3. g * (Target + 1) = (Target * g) + g /\ Target * g \in Nat
    BY <1>1, <1>2
  <2> QED  BY <1>1, <1>2, <1>3, <2>2, <2>3
<1>6. ASSUME rest > 0 PROVE base < Target
  <2>1. SUFFICES ASSUME Target <= base PROVE FALSE
    BY <1>1, <1>3
  <2>2. g * Target <= g * base
    BY <1>1, <1>2, <1>3, <2>1, Monotone
  <2>3. g * Target = Target * g /\ Target * g \in Nat
    BY <1>1, <1>2
  <2> QED  BY <1>1, <1>2, <1>3, <1>6, <2>2, <2>3
<1> QED  BY <1>4, <1>5, <1>6 DEF base, rest, g

(* Every number of rows has a legal plan: the RowGroupPlanningFailure of   *)
(* plan_row_groups for groups outside 4096..8192 cannot occur.             *)
THEOREM PlanIsLegal == \A n \in Nat : Legal(n)
<1> SUFFICES ASSUME NEW n \in Nat, n >= Smallest,
                    NEW g \in 1..GroupCount(n)
             PROVE  Sizes(n)[g] \in Smallest..Target
  BY RowGroupsAssumption DEF Legal
<1> DEFINE base == n \div GroupCount(n)
           rest == n % GroupCount(n)
<1>1. Smallest \in Nat \ {0} /\ Target \in Nat \ {0}
  BY RowGroupsAssumption
<1>2. GroupCount(n) \in Nat \ {0}
  BY GroupCountBounds
<1>3. base \in Nat /\ rest \in 0..(GroupCount(n) - 1)
  BY <1>2, DivMod
<1>4. base >= Smallest /\ base <= Target /\ (rest > 0 => base < Target)
  BY BaseBounds
<1>5. Sizes(n)[g] = base + (IF g <= rest THEN 1 ELSE 0)
  BY DEF Sizes
<1> HIDE DEF base, rest
<1> QED  BY <1>1, <1>2, <1>3, <1>4, <1>5

(* The groups of a plan are the rows of the file in order: the first       *)
(* starts with the first row, each next one where the one before ends, and *)
(* the last ends with the last row.                                        *)
THEOREM PlanTiles ==
  ASSUME NEW n \in Nat \ {0}
  PROVE  /\ FirstRow(n, 1) = 1
         /\ \A g \in 1..(GroupCount(n) - 1) : FirstRow(n, g + 1) = LastRow(n, g) + 1
         /\ LastRow(n, GroupCount(n)) = n
<1> DEFINE count == GroupCount(n)
           base == n \div count
           rest == n % count
<1>1. count \in Nat \ {0}
  <2>1. CASE n < Smallest
    BY <2>1 DEF GroupCount
  <2>2. CASE n >= Smallest
    BY <2>2, GroupCountBounds
  <2> QED  BY <2>1, <2>2, RowGroupsAssumption
<1> HIDE DEF count
<1>2. base \in Nat /\ rest \in 0..(count - 1) /\ n = (count * base) + rest
  BY <1>1, DivMod
<1>3. ASSUME NEW g \in 1..count
      PROVE  /\ FirstRow(n, g) = ((g - 1) * base) + (IF g - 1 <= rest THEN g - 1 ELSE rest) + 1
             /\ Sizes(n)[g] = base + (IF g <= rest THEN 1 ELSE 0)
             /\ (g - 1) * base = (g * base) - base /\ g * base \in Nat
  <2>1. Sizes(n)[g] = base + (IF g <= rest THEN 1 ELSE 0)
    BY DEF Sizes, count, base, rest
  <2>2. FirstRow(n, g) = ((g - 1) * base) + (IF g - 1 <= rest THEN g - 1 ELSE rest) + 1
    BY DEF FirstRow, count, base, rest
  <2> HIDE DEF base, rest
  <2>3. (g - 1) * base = (g * base) - base /\ g * base \in Nat
    BY <1>1, <1>2
  <2> QED  BY <2>1, <2>2, <2>3
<1> HIDE DEF base, rest
<1>4. FirstRow(n, 1) = 1
  <2>1. 1 \in 1..count /\ (1 - 1) * base = 0
    BY <1>1, <1>2
  <2> QED  BY <1>2, <1>3, <2>1
<1>5. ASSUME NEW g \in 1..(count - 1) PROVE FirstRow(n, g + 1) = LastRow(n, g) + 1
  <2>1. g \in 1..count /\ g + 1 \in 1..count /\ (g + 1) - 1 = g
    BY <1>1
  <2>2. FirstRow(n, g + 1) = (g * base) + (IF g <= rest THEN g ELSE rest) + 1
    BY <1>3, <2>1
  <2>3. /\ FirstRow(n, g) = (g * base) - base + (IF g - 1 <= rest THEN g - 1 ELSE rest) + 1
        /\ Sizes(n)[g] = base + (IF g <= rest THEN 1 ELSE 0)
        /\ g * base \in Nat
    BY <1>3, <2>1
  <2>4. LastRow(n, g) = FirstRow(n, g) + Sizes(n)[g] - 1
    BY DEF LastRow
  <2> DEFINE product == g * base
  <2> HIDE DEF product
  <2>5. /\ FirstRow(n, g + 1) = product + (IF g <= rest THEN g ELSE rest) + 1
        /\ FirstRow(n, g) = product - base + (IF g - 1 <= rest THEN g - 1 ELSE rest) + 1
        /\ product \in Nat
    BY <2>2, <2>3 DEF product
  <2> QED  BY <1>1, <1>2, <2>3, <2>4, <2>5
<1>6. LastRow(n, count) = n
  <2>1. count \in 1..count
    BY <1>1
  <2>2. /\ FirstRow(n, count) = (count * base) - base
             + (IF count - 1 <= rest THEN count - 1 ELSE rest) + 1
        /\ Sizes(n)[count] = base + (IF count <= rest THEN 1 ELSE 0)
        /\ count * base \in Nat
    BY <1>3, <2>1
  <2>3. LastRow(n, count) = FirstRow(n, count) + Sizes(n)[count] - 1
    BY DEF LastRow
  <2> QED  BY <1>1, <1>2, <2>2, <2>3
<1> QED  BY <1>4, <1>5, <1>6 DEF count

-----------------------------------------------------------------------------
(* Least and greatest members. *)

LEMMA LeastNatural ==
  ASSUME NEW S \in SUBSET Nat, S # {}
  PROVE  \E m \in S : \A n \in S : m <= n
<1> DEFINE R == OpToRel(<, Nat)
<1>1. \A x, y \in Nat : <<x, y>> \in R <=> x < y
  BY DEF OpToRel
<1>2. IsWellFoundedOn(R, Nat)
  BY NatLessThanWellFounded
<1> HIDE DEF R
<1>3. PICK m \in S : \A n \in S : ~ (<<n, m>> \in R)
  BY <1>2, WFMin
<1>4. m \in Nat /\ \A n \in S : n \in Nat /\ ~ (n < m)
  BY <1>1, <1>3
<1>5. \A n \in S : m <= n
  BY <1>4
<1> QED  BY <1>5

LEMMA MinOfNats ==
  ASSUME NEW S \in SUBSET Nat, S # {}
  PROVE  Min(S) \in S /\ \A n \in S : Min(S) <= n
BY LeastNatural DEF Min

(* The first k of the integers f have a least and a greatest. *)
Bounded(f, k) ==
  /\ \E a \in 1..k : \A b \in 1..k : f[a] <= f[b]
  /\ \E a \in 1..k : \A b \in 1..k : f[a] >= f[b]

LEMMA BoundedStep ==
  ASSUME NEW k \in Nat \ {0}, NEW f, \A i \in 1..(k + 1) : f[i] \in Int, Bounded(f, k)
  PROVE  Bounded(f, k + 1)
<1>1. PICK a \in 1..k : \A b \in 1..k : f[a] <= f[b]
  BY DEF Bounded
<1>2. PICK c \in 1..k : \A b \in 1..k : f[c] >= f[b]
  BY DEF Bounded
<1>3. /\ \A b \in 1..(k + 1) : b = k + 1 \/ b \in 1..k
      /\ k + 1 \in 1..(k + 1) /\ a \in 1..(k + 1) /\ c \in 1..(k + 1)
  OBVIOUS
<1>4. f[a] \in Int /\ f[c] \in Int /\ f[k + 1] \in Int
  BY <1>3
<1>5. \E x \in 1..(k + 1) : \A b \in 1..(k + 1) : f[x] <= f[b]
  <2>1. CASE f[a] <= f[k + 1]
    BY <1>1, <1>3, <2>1
  <2>2. CASE f[k + 1] <= f[a]
    <3>1. ASSUME NEW b \in 1..(k + 1) PROVE f[k + 1] <= f[b]
      <4>1. f[b] \in Int
        OBVIOUS
      <4> QED  BY <1>1, <1>3, <1>4, <2>2, <4>1
    <3> QED  BY <1>3, <3>1
  <2> QED  BY <1>4, <2>1, <2>2
<1>6. \E x \in 1..(k + 1) : \A b \in 1..(k + 1) : f[x] >= f[b]
  <2>1. CASE f[c] >= f[k + 1]
    BY <1>2, <1>3, <2>1
  <2>2. CASE f[k + 1] >= f[c]
    <3>1. ASSUME NEW b \in 1..(k + 1) PROVE f[k + 1] >= f[b]
      <4>1. f[b] \in Int
        OBVIOUS
      <4> QED  BY <1>2, <1>3, <1>4, <2>2, <4>1
    <3> QED  BY <1>3, <3>1
  <2> QED  BY <1>4, <2>1, <2>2
<1> QED  BY <1>5, <1>6 DEF Bounded

(* The integers at the places of a sequence have a least and a greatest. *)
LEMMA BoundsOfInts ==
  ASSUME NEW n \in Nat, NEW f \in [1..n -> Int], NEW i \in 1..n
  PROVE  LET S == {f[j] : j \in 1..n}
         IN Min(S) \in S /\ Max(S) \in S /\ Min(S) <= f[i] /\ f[i] <= Max(S)
<1> DEFINE S == {f[j] : j \in 1..n}
           Missing == {k \in 1..n : ~ Bounded(f, k)}
<1>1. Missing = {}
  <2> SUFFICES ASSUME Missing # {} PROVE FALSE
    OBVIOUS
  <2>1. PICK k \in Missing : \A j \in Missing : k <= j
    <3>1. Missing \in SUBSET Nat
      OBVIOUS
    <3> HIDE DEF Missing
    <3> QED  BY <3>1, LeastNatural
  <2>2. k \in 1..n /\ ~ Bounded(f, k)
    BY <2>1
  <2>3. k # 1
    <3>1. Bounded(f, 1)
      <4>1. 1..1 = {1} /\ f[1] \in Int
        BY <2>2
      <4> QED  BY <4>1 DEF Bounded
    <3> QED  BY <2>2, <3>1
  <2>4. k - 1 \in 1..n /\ k - 1 \notin Missing /\ k - 1 \in Nat \ {0} /\ (k - 1) + 1 = k
    BY <2>1, <2>2, <2>3
  <2>5. Bounded(f, k - 1) /\ \A j \in 1..k : f[j] \in Int
    BY <2>2, <2>4
  <2> HIDE DEF Missing
  <2>6. Bounded(f, (k - 1) + 1)
    BY <2>4, <2>5, BoundedStep
  <2> QED  BY <2>2, <2>4, <2>6
<1>2. Bounded(f, n)
  <2>1. n \in 1..n
    OBVIOUS
  <2> QED  BY <1>1, <2>1
<1>3. \E x \in S : \A y \in S : x <= y
  BY <1>2 DEF Bounded
<1>4. \E x \in S : \A y \in S : x >= y
  BY <1>2 DEF Bounded
<1>5. f[i] \in S /\ S \subseteq Int
  OBVIOUS
<1> HIDE DEF S
<1>6. Min(S) \in S /\ \A y \in S : Min(S) <= y
  BY <1>3 DEF Min
<1>7. Max(S) \in S /\ \A y \in S : Max(S) >= y
  BY <1>4 DEF Max
<1> QED  BY <1>5, <1>6, <1>7 DEF S

LEMMA FiniteBounds ==
  ASSUME NEW S \in SUBSET Int, IsFiniteSet(S), NEW x \in S
  PROVE  /\ Min(S) \in S /\ Max(S) \in S
         /\ Min(S) \in Int /\ Max(S) \in Int /\ Min(S) <= x /\ x <= Max(S)
<1>1. PICK n \in Nat : ExistsSurjection(1..n, S)
  BY FS_NatSurjection
<1>2. PICK f \in Surjection(1..n, S) : TRUE
  BY <1>1 DEF ExistsSurjection
<1>3. f \in [1..n -> Int] /\ \A y \in S : \E i \in 1..n : f[i] = y
  BY <1>2 DEF Surjection
<1>4. S = {f[j] : j \in 1..n}
  BY <1>2, <1>3 DEF Surjection
<1>5. PICK i \in 1..n : f[i] = x
  BY <1>3
<1>6. Min(S) \in S /\ Max(S) \in S /\ Min(S) <= f[i] /\ f[i] <= Max(S)
  BY <1>3, <1>4, BoundsOfInts
<1> QED  BY <1>5, <1>6

-----------------------------------------------------------------------------
(* The invariant of a batch.  First what its open has proved: of the graph *)
(* alone, of the id index and, while the file was not overwritten, of its  *)
(* rows.                                                                   *)
Agrees ==
  \A p \in RowPlaces :
    /\ data.uploads[1][p].id \in DOMAIN data.graph
    /\ data.uploads[1][p].level = LevelOf(data.uploads[1][p].id)

Opened ==
  /\ DOMAIN index = DOMAIN data.graph
  /\ \A u \in DOMAIN data.graph : \A v \in Range(data.graph[u].upstream) :
       v \in DOMAIN data.graph /\ LevelOf(v) = LevelOf(u)
  /\ \A u \in DOMAIN data.graph : \E p \in RowPlaces, n \in Alike :
       data.uploads[n][p].id = u /\ data.groups[p] = index[u]
  /\ object = 1 => Agrees

(* The walk: what was found, in its order, each once; from where; what was *)
(* looked at; and nothing but what must be found.                          *)
UpOf(u) == Range(data.graph[u].upstream)

Shaped(w) == w = [units |-> w.units, down |-> w.down, at |-> w.at, next |-> w.next]

Order(c) ==
  LET w == upstream[c] IN
  /\ Shaped(w)
  /\ w.units \in Seq(DOMAIN data.graph) /\ Len(w.units) >= 1 /\ w.units[1] = terminal[c]
  /\ \A i, j \in DOMAIN w.units : w.units[i] = w.units[j] => i = j
  /\ \A n \in DOMAIN w.units : LevelOf(w.units[n]) = LevelOf(terminal[c])

Drains(c) ==
  LET w == upstream[c] IN
  \A n \in DOMAIN w.units : n > 1 =>
    /\ w.units[n] \in DOMAIN w.down
    /\ \E k \in 1..(n - 1) : w.down[w.units[n]] = w.units[k]
    /\ w.units[n] \in UpOf(w.down[w.units[n]])

Looked(ids, at, next) ==
  /\ at \in 1..(Len(ids) + 1) /\ next \in Nat \ {0}
  /\ \A k \in 1..(at - 1) : UpOf(ids[k]) \subseteq Range(ids)
  /\ at <= Len(ids) => \A i \in DOMAIN data.graph[ids[at]].upstream :
       i < next => data.graph[ids[at]].upstream[i] \in Range(ids)

Progress(c) == Looked(upstream[c].units, upstream[c].at, upstream[c].next)

ClosedUp(set, u) == u \in set /\ \A w \in set : UpOf(w) \subseteq set

Least(c) ==
  \A set \in SUBSET DOMAIN data.graph :
    ClosedUp(set, terminal[c]) => Range(upstream[c].units) \subseteq set

WalkInv(c) == Order(c) /\ Drains(c) /\ Progress(c) /\ Least(c)

(* A level, and cells, that a read so far may have got for unit u.         *)
LevelRead(u, lv) == \E row \in Readable(u) : row.level = lv

CellsRead(u, cells) == \E row \in Readable(u) : row.cells = cells

(* The levels of the first query, and what the second has joined to them.  *)
Metas(c) ==
  /\ \A u \in DOMAIN meta[c] : LevelRead(u, meta[c][u])
  /\ \A u \in Wanted(c) \ DOMAIN meta[c] : Displaced(u)

Joined(c) ==
  /\ DOMAIN units[c] = Wanted(c)
  /\ \A u \in Wanted(c) : CellsRead(u, units[c][u]) /\ LevelRead(u, Finest)

Refining == {"disabled", "best_effort", "require_d8"}
Joins == {"refine", "dissolve", "collect", "reaches"}
Walked == {"metadata", "geometry"} \cup Joins
Stages == {"resolve", "traverse", "walk", "done"} \cup Walked

Verdict(c) == IF result[c].error = << >> THEN Answers(c) ELSE Excused(c)

(* An outlet is of the finest level by the graph, or by a row read.        *)
Resolved(c) ==
  \/ terminal[c] \in DOMAIN data.graph /\ LevelOf(terminal[c]) = Finest
  \/ LevelRead(terminal[c], Finest)

Staged(c) ==
  /\ pc[c] \in Stages
  /\ pc[c] \in {"traverse", "walk"} => Resolved(c)
  /\ c \in lost => c \in Lossy \/ Alike # 1..object

Walks(c) ==
  /\ pc[c] = "walk" \/ pc[c] \in Walked => WalkInv(c)
  /\ pc[c] \in Walked => upstream[c].at > Len(upstream[c].units) /\ LevelOf(terminal[c]) = Finest

Reads(c) ==
  /\ pc[c] = "geometry" => Metas(c)
  /\ pc[c] \in Joins => Joined(c)

Refines(c) ==
  /\ pc[c] \notin {"dissolve", "done"} => refined[c] = {}
  /\ pc[c] \in {"refine", "dissolve"} => mode[c] \in Refining
  /\ pc[c] = "collect" => mode[c] = "units"
  /\ pc[c] = "reaches" => mode[c] = "reaches"
  /\ pc[c] = "dissolve" => /\ refined[c] \subseteq units[c][terminal[c]]
                           /\ mode[c] = "require_d8" => refined[c] # {}

Ends(c) == pc[c] = "done" => Verdict(c)

CallInv(c) == Staged(c) /\ Walks(c) /\ Reads(c) /\ Refines(c) /\ Ends(c)

Domains ==
  /\ DOMAIN pc = Calls /\ DOMAIN terminal = Calls /\ DOMAIN upstream = Calls
  /\ DOMAIN meta = Calls /\ DOMAIN units = Calls /\ DOMAIN refined = Calls
  /\ DOMAIN result = Calls

(* Either the session is not open yet, or it was refused, or its calls run *)
(* or have ended.                                                          *)
Closed == \A c \in Calls : pc[c] = "closed" /\ refined[c] = {} /\ c \notin lost
Refused ==
  \A c \in Calls : pc[c] = "done" /\ result[c].error = <<"integrity">> /\ c \notin lost
Running == Opened /\ \A c \in Calls : CallInv(c)

BatchInv ==
  /\ data \in Datasets /\ mode \in Modes /\ object \in DOMAIN data.uploads
  /\ Domains
  /\ Closed \/ Refused \/ Running

-----------------------------------------------------------------------------
(* What a read gets. *)

LEMMA Typed ==
  ASSUME BatchInv
  PROVE  /\ Dataset(data) /\ DOMAIN data.uploads \subseteq Nat \ {0} /\ object \in Nat \ {0}
         /\ \A c \in Calls : mode[c] \in Refining \cup {"units", "reaches"}
<1>1. Dataset(data) /\ mode \in Modes /\ object \in DOMAIN data.uploads
  BY DelineationAssumption DEF BatchInv
<1>2. DOMAIN data.uploads \subseteq Nat \ {0}
  BY <1>1 DEF Dataset
<1>3. mode \in [Calls -> {"disabled", "best_effort", "require_d8", "units", "reaches"}]
  BY <1>1, DelineationAssumption
<1> QED  BY <1>1, <1>2, <1>3 DEF Refining

LEMMA AlikeRows ==
  ASSUME BatchInv
  PROVE  /\ 1 \in Alike /\ Alike \subseteq DOMAIN data.uploads /\ IsFiniteSet(RowPlaces)
         /\ RowPlaces \subseteq Nat /\ \A p \in RowPlaces : data.groups[p] \in Range(data.groups)
         /\ \A n \in Alike, p \in RowPlaces :
              LET row == data.uploads[n][p] IN
              row.id \in Int /\ Area(row.cells) /\ row.fault \in {"none", "null", "wkb"}
<1>1. Dataset(data) /\ object \in DOMAIN data.uploads
  BY Typed DEF BatchInv
<1>2. data.uploads \in Seq(Range(data.uploads)) \ {<< >>} /\ data.uploads[1] # None
  BY <1>1 DEF Dataset
<1>3. /\ Len(data.uploads) \in Nat /\ DOMAIN data.uploads = 1..Len(data.uploads)
  BY <1>2
<1>4. 1 \in Alike /\ Alike \subseteq DOMAIN data.uploads
  <2>1. object \in 1..Len(data.uploads)
    BY <1>1, <1>3
  <2>2. 1 \in 1..object /\ 1..object \subseteq 1..Len(data.uploads)
    BY <1>3, <2>1
  <2> QED  BY <1>2, <1>3, <2>2 DEF Alike
<1>5. data.groups \in Seq(Nat)
  BY <1>1 DEF Dataset
<1>6. RowPlaces = 1..Len(data.groups) /\ Len(data.groups) \in Nat
  BY <1>5 DEF RowPlaces
<1>7. IsFiniteSet(RowPlaces) /\ RowPlaces \subseteq Nat
  BY <1>6, FS_Interval
<1>8. ASSUME NEW n \in Alike, NEW p \in RowPlaces
      PROVE  LET row == data.uploads[n][p] IN
             row.id \in Int /\ Area(row.cells) /\ row.fault \in {"none", "null", "wkb"}
  <2>1. data.uploads[n] \in Range(data.uploads) \ {None}
    BY <1>4 DEF Alike, Range
  <2>2. Upload(data, data.uploads[n])
    BY <1>1, <2>1 DEF Dataset
  <2>3. p \in DOMAIN data.uploads[n]
    BY <2>2 DEF Upload, RowPlaces
  <2>4. data.uploads[n][p] \in Range(data.uploads[n])
    BY <2>3 DEF Range
  <2> QED  BY <2>2, <2>4 DEF Upload
<1>9. \A p \in RowPlaces : data.groups[p] \in Range(data.groups)
  BY DEF RowPlaces, Range
<1> QED  BY <1>4, <1>7, <1>8, <1>9

(* A column read of a place is that of an upload so far.                   *)
LEMMA ColumnRead ==
  ASSUME BatchInv, NEW columns, NEW at \in Mixes(columns), NEW p \in RowPlaces,
         NEW column \in columns
  PROVE  \E n \in Alike : From(at, p, column) = data.uploads[n][p]
<1>1. <<data.groups[p], column>> \in Range(data.groups) \X columns
  BY AlikeRows
<1>2. at[<<data.groups[p], column>>] \in Alike
  BY <1>1 DEF Mixes
<1> QED  BY <1>2 DEF From

LEMMA HeldRow ==
  ASSUME NEW n \in Alike, NEW m \in Alike, NEW p \in RowPlaces
  PROVE  data.uploads[n][p] \in Readable(data.uploads[m][p].id)
BY DEF Readable

(* What is read of a place is readable for the unit whose id is read.      *)
LEMMA RowRead ==
  ASSUME BatchInv, NEW columns, "id" \in columns, NEW at \in Mixes(columns),
         NEW p \in RowPlaces, NEW column \in columns
  PROVE  From(at, p, column) \in Readable(Id(at, p))
<1>1. PICK n \in Alike : From(at, p, column) = data.uploads[n][p]
  BY ColumnRead
<1>2. PICK m \in Alike : From(at, p, "id") = data.uploads[m][p]
  BY ColumnRead
<1>3. Id(at, p) = data.uploads[m][p].id
  BY <1>2 DEF Id
<1> QED  BY <1>1, <1>3, HeldRow

LEMMA LastIsHeld ==
  ASSUME BatchInv, NEW at, NEW places \in SUBSET RowPlaces, NEW u \in Ids(at, places)
  PROVE  LastPlace(at, places, u) \in places /\ Id(at, LastPlace(at, places, u)) = u
<1> DEFINE S == {p \in places : Id(at, p) = u}
<1>1. PICK p \in places : Id(at, p) = u
  BY DEF Ids
<1>2. S \in SUBSET Int /\ p \in S /\ S \subseteq RowPlaces
  BY <1>1, AlikeRows
<1>3. IsFiniteSet(S)
  BY <1>2, AlikeRows, FS_Subset
<1> HIDE DEF S
<1>4. Max(S) \in S
  BY <1>2, <1>3, FiniteBounds
<1> QED  BY <1>4 DEF LastPlace, S

(* A later upload takes nothing away that could be read.                   *)
LEMMA LaterReads ==
  ASSUME BatchInv, UNCHANGED data, object' \in Nat, object <= object'
  PROVE  /\ Alike \subseteq Alike' /\ (Alike # 1..object => Alike' # 1..object')
         /\ \A u : Readable(u) \subseteq Readable(u)'
         /\ \A u : Displaced(u) => Displaced(u)'
         /\ \A u : Relevelled(u) => Relevelled(u)'
<1>1. object \in Nat \ {0}
  BY Typed
<1>2. 1..object \subseteq 1..object' /\ (1 < object => 1 < object')
  BY <1>1
<1>3. Alike \subseteq Alike'
  BY <1>2 DEF Alike
<1>4. Alike # 1..object => Alike' # 1..object'
  BY <1>2 DEF Alike
<1>5. ASSUME NEW u PROVE Readable(u) \subseteq Readable(u)'
  BY <1>3 DEF Readable, RowPlaces
<1>6. \A u : LevelOf(u)' = LevelOf(u)
  BY DEF LevelOf
<1>7. \A u : Displaced(u) => Displaced(u)'
  BY <1>5 DEF Displaced
<1>8. \A u : Relevelled(u) => Relevelled(u)'
  BY <1>2, <1>5, <1>6 DEF Relevelled
<1> QED  BY <1>3, <1>4, <1>5, <1>7, <1>8

-----------------------------------------------------------------------------
(* What a call leaves alone, and what that keeps. *)

Own(c) == <<pc[c], terminal[c], upstream[c], meta[c], units[c], refined[c], result[c]>>

LEMMA SameWalk ==
  ASSUME NEW c, WalkInv(c), UNCHANGED data,
         terminal'[c] = terminal[c], upstream'[c] = upstream[c]
  PROVE  WalkInv(c)'
<1>1. Order(c) /\ Drains(c) /\ Progress(c) /\ Least(c)
  BY DEF WalkInv
<1>2. \A u : LevelOf(u)' = LevelOf(u)
  BY DEF LevelOf
<1>3. Order(c)'
  BY <1>1, <1>2 DEF Order
<1>4. Drains(c)'
  BY <1>1 DEF Drains, UpOf
<1>5. Progress(c)'
  BY <1>1 DEF Progress, Looked, UpOf
<1>6. Least(c)'
  BY <1>1 DEF Least, ClosedUp, UpOf
<1> QED  BY <1>3, <1>4, <1>5, <1>6 DEF WalkInv

LEMMA Kept ==
  ASSUME BatchInv, NEW c, CallInv(c),
         UNCHANGED <<data, mode, index>>, object' \in Nat, object <= object',
         lost \subseteq lost', c \in lost' => c \in lost, Own(c)' = Own(c)
  PROVE  CallInv(c)'
<1>1. /\ pc'[c] = pc[c] /\ terminal'[c] = terminal[c] /\ upstream'[c] = upstream[c]
      /\ meta'[c] = meta[c] /\ units'[c] = units[c] /\ refined'[c] = refined[c]
      /\ result'[c] = result[c] /\ mode'[c] = mode[c]
  BY DEF Own
<1>2. /\ Alike \subseteq Alike' /\ (Alike # 1..object => Alike' # 1..object')
      /\ \A u : Readable(u) \subseteq Readable(u)'
      /\ \A u : Displaced(u) => Displaced(u)'
      /\ \A u : Relevelled(u) => Relevelled(u)'
  BY LaterReads
<1>3. Finest' = Finest /\ (\A u : LevelOf(u)' = LevelOf(u)) /\ HasSnaps' = HasSnaps
  BY DEF Finest, LevelOf, HasSnaps
<1>4. \A u, x : (LevelRead(u, x) => LevelRead(u, x)') /\ (CellsRead(u, x) => CellsRead(u, x)')
  BY <1>2 DEF LevelRead, CellsRead
<1>5. WalkInv(c) => WalkInv(c)'
  BY <1>1, SameWalk
<1>6. Wanted(c)' = Wanted(c)
  BY <1>1 DEF Wanted
<1>7. Metas(c) => Metas(c)'
  BY <1>1, <1>2, <1>4, <1>6 DEF Metas
<1>8. Joined(c) => Joined(c)'
  BY <1>1, <1>3, <1>4, <1>6 DEF Joined
<1>9. Verdict(c) => Verdict(c)'
  <2>1. Basin(terminal[c])' = Basin(terminal[c])
    BY <1>1 DEF Basin
  <2>2. UnitsDrain(c) => UnitsDrain(c)'
    BY <1>1, <1>2, <1>3, <2>1 DEF UnitsDrain
  <2>3. CellsDrain(c) => CellsDrain(c)'
    BY <1>1, <1>2, <2>1 DEF CellsDrain
  <2>4. ReachesDrain(c) => ReachesDrain(c)'
    BY <1>1, <2>1 DEF ReachesDrain, Overlooked
  <2>5. Answers(c) => Answers(c)'
    BY <1>1, <2>2, <2>3, <2>4 DEF Answers
  <2>6. Excused(c) => Excused(c)'
    <3>1. result'[c].error = result[c].error
      BY <1>1
    <3>2. \A e : CauseRead(c, e) => CauseRead(c, e)'
      <4>1. object \in Nat /\ (1 < object => 1 < object')
        BY Typed
      <4> QED  BY <1>1, <1>2, <2>1, <4>1 DEF CauseRead
    <3>3. \A e : CauseMade(c, e) => CauseMade(c, e)'
      BY <1>1, <1>2, <2>1 DEF CauseMade
    <3> QED  BY <1>2, <3>1, <3>2, <3>3 DEF Excused
  <2> QED  BY <1>1, <2>5, <2>6 DEF Verdict
<1>10. Staged(c)'
  BY <1>1, <1>2, <1>3, <1>4 DEF CallInv, Staged, Stages, Walked, Joins, Resolved
<1>11. Walks(c)'
  BY <1>1, <1>3, <1>5 DEF CallInv, Walks, Walked, Joins
<1>12. Reads(c)'
  BY <1>1, <1>7, <1>8 DEF CallInv, Reads, Joins
<1>13. Refines(c)'
  BY <1>1 DEF CallInv, Refines, Refining
<1>14. Ends(c)'
  BY <1>1, <1>9 DEF CallInv, Ends
<1> QED  BY <1>10, <1>11, <1>12, <1>13, <1>14 DEF CallInv

LEMMA OpenedKept ==
  ASSUME BatchInv, Opened, UNCHANGED <<data, index>>, object' \in Nat, object <= object'
  PROVE  Opened'
<1>1. Alike \subseteq Alike'
  BY LaterReads
<1>2. (\A u : LevelOf(u)' = LevelOf(u)) /\ RowPlaces' = RowPlaces
  BY DEF LevelOf, RowPlaces
<1>3. object' = 1 => object = 1
  BY Typed
<1>4. Agrees => Agrees'
  BY <1>2 DEF Agrees
<1> QED  BY <1>1, <1>2, <1>3, <1>4 DEF Opened

(* While the file is the one opened, what is read is what was validated.   *)
LEMMA FirstReads ==
  ASSUME Opened, object = 1, NEW u, NEW row \in Readable(u)
  PROVE  row.id = u /\ u \in DOMAIN data.graph /\ row.level = LevelOf(u)
<1>1. \A n \in Alike : n = 1
  BY DEF Alike
<1>2. PICK n \in Alike, p \in {q \in RowPlaces : \E m \in Alike : data.uploads[m][q].id = u} :
        row = data.uploads[n][p]
  BY DEF Readable
<1>3. p \in RowPlaces /\ row = data.uploads[1][p] /\ data.uploads[1][p].id = u
  BY <1>1, <1>2
<1> QED  BY <1>3 DEF Opened, Agrees

LEMMA RelevelledBy ==
  ASSUME BatchInv, Opened, NEW u, NEW lv, LevelRead(u, lv), lv # LevelOf(u)
  PROVE  Relevelled(u)
<1>1. PICK row \in Readable(u) : row.level = lv
  BY DEF LevelRead
<1>2. object # 1
  BY <1>1, FirstReads
<1> QED  BY <1>1, <1>2, Typed DEF Relevelled

(* A stage of one call leaves the others alone. *)
LEMMA StageFrame ==
  ASSUME BatchInv, NEW c \in Calls, Stage(c)
  PROVE  /\ UNCHANGED <<data, mode, object, index>>
         /\ lost \subseteq lost' /\ \A d \in Calls \ {c} : d \in lost' => d \in lost
         /\ Domains'
         /\ \A d \in Calls \ {c} : Own(d)' = Own(d)
<1> USE DEF BatchInv, Domains, Own, Goto, Fail
<1>1. CASE Resolve(c)
  <2>1. \E e, s, u : \/ Fail(c, e) /\ UNCHANGED terminal
                     \/ Goto(c, s) /\ terminal' = [terminal EXCEPT ![c] = u]
    BY <1>1 DEF Resolve
  <2>2. UNCHANGED <<data, mode, object, index, upstream, meta, units, refined, lost>>
    BY <1>1 DEF Resolve
  <2> QED  BY <2>1, <2>2
<1>2. CASE Begin(c)
  BY <1>2 DEF Begin
<1>3. CASE Walk(c)
  <2>1. \E w : \/ upstream' = [upstream EXCEPT ![c] = w] /\ UNCHANGED <<pc, result>>
               \/ Fail(c, <<"traversal">>) /\ UNCHANGED upstream
    BY <1>3 DEF Walk
  <2>2. UNCHANGED <<data, mode, object, index, terminal, meta, units, refined, lost>>
    BY <1>3 DEF Walk
  <2> QED  BY <2>1, <2>2
<1>4. CASE Traversed(c)
  <2>1. \E e : Goto(c, "metadata") \/ Fail(c, e)
    BY <1>4 DEF Traversed
  <2>2. UNCHANGED <<data, mode, object, index, calls, lost>>
    BY <1>4 DEF Traversed
  <2> QED  BY <2>1, <2>2 DEF calls
<1>5. CASE Metadata(c)
  <2>1. \E e, x : \/ Fail(c, e) /\ UNCHANGED meta
                  \/ Goto(c, "geometry") /\ meta' = [meta EXCEPT ![c] = x]
    BY <1>5 DEF Metadata
  <2>2. UNCHANGED <<data, mode, object, index, terminal, upstream, units, refined, lost>>
    BY <1>5 DEF Metadata
  <2> QED  BY <2>1, <2>2
<1>6. CASE Geometry(c)
  <2>1. \E e, s, x : \/ Fail(c, e) /\ UNCHANGED units
                     \/ Goto(c, s) /\ units' = [units EXCEPT ![c] = x]
    BY <1>6 DEF Geometry
  <2>2. UNCHANGED <<data, mode, object, index, terminal, upstream, meta, refined, lost>>
    BY <1>6 DEF Geometry
  <2> QED  BY <2>1, <2>2
<1>7. CASE LoseRead(c)
  <2>1. \E e : Fail(c, e)
    BY <1>7 DEF LoseRead
  <2>2. UNCHANGED <<data, mode, object, index, calls>> /\ lost' = lost \cup {c}
    BY <1>7 DEF LoseRead
  <2> QED  BY <2>1, <2>2 DEF calls
<1>8. CASE Refine(c)
  <2>1. \E e, x : \/ Fail(c, e) /\ UNCHANGED refined
                  \/ Goto(c, "dissolve") /\ UNCHANGED refined
                  \/ Goto(c, "dissolve") /\ refined' = [refined EXCEPT ![c] = x]
    BY <1>8 DEF Refine
  <2>2. UNCHANGED <<data, mode, object, index, terminal, upstream, meta, units, lost>>
    BY <1>8 DEF Refine
  <2> QED  BY <2>1, <2>2
<1>9. CASE Dissolve(c) \/ Collect(c) \/ Reaches(c)
  <2>1. \E r : pc' = [pc EXCEPT ![c] = "done"] /\ result' = [result EXCEPT ![c] = r]
    BY <1>9 DEF Dissolve, Collect, Reaches, Reached
  <2>2. UNCHANGED <<data, mode, object, index, calls, lost>>
    BY <1>9 DEF Dissolve, Collect, Reaches
  <2> QED  BY <2>1, <2>2 DEF calls
<1> QED  BY <1>1, <1>2, <1>3, <1>4, <1>5, <1>6, <1>7, <1>8, <1>9 DEF Stage

(* Before the session is open, and the overwrites. *)
LEMMA InitBatch == Init => BatchInv
<1> SUFFICES ASSUME Init PROVE BatchInv
  OBVIOUS
<1>1. Dataset(data) /\ data \in Datasets /\ mode \in Modes
  BY DelineationAssumption DEF Init
<1>2. object \in DOMAIN data.uploads
  BY <1>1 DEF Dataset, Init
<1>3. Domains /\ Closed
  BY DEF Init, Domains, Closed
<1> QED  BY <1>1, <1>2, <1>3 DEF BatchInv

LEMMA OpenStep ==
  ASSUME BatchInv, Open
  PROVE  BatchInv'
<1>1. UNCHANGED <<data, mode, object, terminal, upstream, meta, units, refined, result, lost>>
  BY DEF Open, calls
<1>2. Domains'
  BY <1>1 DEF BatchInv, Domains, Open
<1>3. object \in DOMAIN data.uploads /\ object \in Nat
  BY Typed DEF BatchInv
<1>4. Opened'
  <2>1. PICK scan \in Mixes({"id"}), again \in Mixes({"id", "level"}) :
          /\ Distinct(scan) /\ GraphMatches(scan, again)
          /\ index' = [u \in Ids(scan, RowPlaces) |-> data.groups[LastPlace(scan, RowPlaces, u)]]
    BY DEF Open
  <2>2. Ids(scan, RowPlaces) = DOMAIN data.graph
    BY <2>1 DEF GraphMatches
  <2>3. DOMAIN index' = DOMAIN data.graph
    BY <2>1, <2>2
  <2>4. ASSUME NEW u \in DOMAIN data.graph, NEW v \in Range(data.graph[u].upstream)
        PROVE  v \in DOMAIN data.graph /\ LevelOf(v) = LevelOf(u)
    BY <2>1, <2>2 DEF GraphMatches
  <2>5. ASSUME NEW u \in DOMAIN data.graph
        PROVE  \E p \in RowPlaces, n \in Alike :
                 data.uploads[n][p].id = u /\ data.groups[p] = index'[u]
    <3> DEFINE p == LastPlace(scan, RowPlaces, u)
    <3>1. p \in RowPlaces /\ Id(scan, p) = u
      BY <2>2, LastIsHeld
    <3>2. index'[u] = data.groups[p]
      BY <2>1, <2>2
    <3> HIDE DEF p
    <3>3. PICK n \in Alike : From(scan, p, "id") = data.uploads[n][p]
      BY <2>1, <3>1, ColumnRead
    <3> QED  BY <3>1, <3>2, <3>3 DEF Id
  <2>6. ASSUME object = 1 PROVE Agrees
    <3> SUFFICES ASSUME NEW p \in RowPlaces
                 PROVE  /\ data.uploads[1][p].id \in DOMAIN data.graph
                        /\ data.uploads[1][p].level = LevelOf(data.uploads[1][p].id)
      BY DEF Agrees
    <3>1. \A n \in Alike : n = 1
      BY <2>6 DEF Alike
    <3>2. \A q \in RowPlaces : /\ From(scan, q, "id") = data.uploads[1][q]
                               /\ From(again, q, "id") = data.uploads[1][q]
                               /\ From(again, q, "level") = data.uploads[1][q]
      <4> TAKE q \in RowPlaces
      <4>1. \E n \in Alike : From(scan, q, "id") = data.uploads[n][q]
        BY <2>1, ColumnRead
      <4>2. \E n \in Alike : From(again, q, "id") = data.uploads[n][q]
        BY <2>1, ColumnRead
      <4>3. \E n \in Alike : From(again, q, "level") = data.uploads[n][q]
        BY <2>1, ColumnRead
      <4> QED  BY <3>1, <4>1, <4>2, <4>3
    <3> DEFINE u == data.uploads[1][p].id
               q == LastPlace(again, RowPlaces, u)
    <3>3. u = Id(scan, p) /\ u = Id(again, p)
      BY <3>2 DEF Id
    <3>4. u \in Ids(scan, RowPlaces) /\ u \in Ids(again, RowPlaces)
      BY <3>3 DEF Ids
    <3>5. q \in RowPlaces /\ Id(again, q) = u
      BY <3>4, LastIsHeld
    <3> HIDE DEF q
    <3>6. Id(scan, q) = Id(scan, p)
      BY <3>2, <3>3, <3>5 DEF Id
    <3>7. q = p
      BY <2>1, <3>5, <3>6 DEF Distinct
    <3>8. u \in DOMAIN data.graph /\ LevelAt(again, q) = LevelOf(u)
      BY <2>1, <2>2, <3>4 DEF GraphMatches, q
    <3> QED  BY <3>2, <3>7, <3>8 DEF LevelAt
  <2>7. Alike' = Alike /\ RowPlaces' = RowPlaces /\ \A u : LevelOf(u)' = LevelOf(u)
    BY <1>1 DEF Alike, RowPlaces, LevelOf
  <2>8. Agrees => Agrees'
    BY <1>1, <2>7 DEF Agrees
  <2> QED  BY <1>1, <2>3, <2>4, <2>5, <2>6, <2>7, <2>8 DEF Opened
<1>5. ASSUME NEW c \in Calls PROVE CallInv(c)'
  <2>1. pc'[c] = "resolve" /\ pc[c] = "closed"
    BY DEF Open
  <2>2. refined'[c] = {} /\ c \notin lost'
    <3>1. CASE Closed
      BY <1>1, <3>1 DEF Closed
    <3>2. CASE Refused
      BY <2>1, <3>2 DEF Refused
    <3>3. CASE Running
      BY <2>1, <3>3 DEF Running, CallInv, Staged, Stages, Walked, Joins
    <3> QED  BY <3>1, <3>2, <3>3 DEF BatchInv
  <2>3. Staged(c)' /\ Walks(c)'
    BY <2>1, <2>2 DEF Staged, Walks, Stages, Walked, Joins
  <2>4. Reads(c)' /\ Refines(c)' /\ Ends(c)'
    BY <2>1, <2>2 DEF Reads, Refines, Ends, Joins
  <2> QED  BY <2>3, <2>4 DEF CallInv
<1>6. Running'
  BY <1>4, <1>5 DEF Running
<1> QED  BY <1>1, <1>2, <1>3, <1>6 DEF BatchInv

LEMMA RefuseStep ==
  ASSUME BatchInv, Refuse
  PROVE  BatchInv'
<1>1. Domains' /\ UNCHANGED <<data, mode, object, lost>>
  BY DEF BatchInv, Domains, Refuse, calls
<1>2. ASSUME NEW c \in Calls PROVE c \notin lost
  <2>1. pc[c] = "closed"
    BY DEF Refuse
  <2>2. CASE Closed
    BY <2>2 DEF Closed
  <2>3. CASE Refused
    BY <2>1, <2>3 DEF Refused
  <2>4. CASE Running
    BY <2>1, <2>4 DEF Running, CallInv, Staged, Stages, Walked, Joins
  <2> QED  BY <2>2, <2>3, <2>4 DEF BatchInv
<1>3. Refused'
  BY <1>1, <1>2 DEF Refuse, Refused
<1> QED  BY <1>1, <1>3 DEF BatchInv

LEMMA OverwriteStep ==
  ASSUME BatchInv, Overwrite \/ UNCHANGED batchVars
  PROVE  BatchInv'
<1>1. /\ UNCHANGED <<data, mode, index, pc, terminal, upstream, meta, units, refined, result, lost>>
      /\ object' \in DOMAIN data.uploads /\ object' \in Nat /\ object <= object'
  <2>1. object \in DOMAIN data.uploads /\ object \in Nat
    BY Typed DEF BatchInv
  <2>2. CASE Overwrite
    BY <2>1, <2>2 DEF Overwrite, calls
  <2>3. CASE UNCHANGED batchVars
    BY <2>1, <2>3 DEF batchVars, calls
  <2> QED  BY <2>2, <2>3
<1>2. Domains'
  BY <1>1 DEF BatchInv, Domains
<1>3. \A c : Own(c)' = Own(c)
  BY <1>1 DEF Own
<1>4. Closed => Closed'
  BY <1>1 DEF Closed
<1>5. Refused => Refused'
  BY <1>1 DEF Refused
<1>6. ASSUME Running PROVE Running'
  <2>1. Opened'
    BY <1>1, <1>6, OpenedKept DEF Running
  <2>2. ASSUME NEW c \in Calls PROVE CallInv(c)'
    BY <1>1, <1>3, <1>6, Kept DEF Running
  <2> QED  BY <2>1, <2>2 DEF Running
<1> QED  BY <1>1, <1>2, <1>4, <1>5, <1>6 DEF BatchInv

-----------------------------------------------------------------------------
(* The walk. *)

LEMMA Row ==
  ASSUME BatchInv, NEW u \in DOMAIN data.graph
  PROVE  /\ data.graph[u].upstream \in Seq(Int)
         /\ \A v : v \in UpOf(u) <=>
              \E i \in 1..Len(data.graph[u].upstream) : v = data.graph[u].upstream[i]
<1>1. data.graph[u].upstream \in Seq(Int)
  BY Typed DEF Dataset
<1> QED  BY <1>1 DEF UpOf, Range

LEMMA WalkPlaces ==
  ASSUME NEW c, Order(c)
  PROVE  /\ Len(upstream[c].units) \in Nat \ {0}
         /\ DOMAIN upstream[c].units = 1..Len(upstream[c].units)
         /\ \A n \in 1..Len(upstream[c].units) : upstream[c].units[n] \in DOMAIN data.graph
         /\ \A v : v \in Range(upstream[c].units) <=>
              \E n \in 1..Len(upstream[c].units) : v = upstream[c].units[n]
<1>1. upstream[c].units \in Seq(DOMAIN data.graph) /\ Len(upstream[c].units) >= 1
  BY DEF Order
<1>2. /\ DOMAIN upstream[c].units = 1..Len(upstream[c].units)
      /\ Len(upstream[c].units) \in Nat
      /\ \A n \in 1..Len(upstream[c].units) : upstream[c].units[n] \in DOMAIN data.graph
  BY <1>1
<1> QED  BY <1>1, <1>2 DEF Range

(* A walk that has ended has found the basin, each unit once. *)
LEMMA Whole ==
  ASSUME BatchInv, NEW c, WalkInv(c), upstream[c].at > Len(upstream[c].units)
  PROVE  /\ Basin(terminal[c]) = Wanted(c)
         /\ Cardinality(Wanted(c)) = Len(upstream[c].units)
         /\ terminal[c] \in Wanted(c) /\ Wanted(c) \subseteq DOMAIN data.graph
         /\ \A u \in Wanted(c) : LevelOf(u) = LevelOf(terminal[c])
<1> DEFINE ids == upstream[c].units
           n == Len(ids)
<1>1. Order(c) /\ Progress(c) /\ Least(c)
  BY DEF WalkInv
<1>2. /\ n \in Nat \ {0} /\ DOMAIN ids = 1..n
      /\ \A k \in 1..n : ids[k] \in DOMAIN data.graph
      /\ \A v : v \in Wanted(c) <=> \E k \in 1..n : v = ids[k]
  BY <1>1, WalkPlaces DEF Wanted
<1>3. Wanted(c) \in SUBSET DOMAIN data.graph
  BY <1>2
<1>4. terminal[c] \in Wanted(c)
  <2>1. 1 \in 1..n /\ ids[1] = terminal[c]
    BY <1>1, <1>2 DEF Order
  <2> QED  BY <1>2, <2>1
<1>5. ClosedUp(Wanted(c), terminal[c])
  <2>1. upstream[c].at = n + 1
    BY <1>1, <1>2 DEF Progress, Looked
  <2>2. \A k \in 1..n : UpOf(ids[k]) \subseteq Wanted(c)
    BY <1>1, <1>2, <2>1 DEF Progress, Looked, Wanted
  <2> QED  BY <1>2, <1>4, <2>2 DEF ClosedUp
<1>6. Basin(terminal[c]) = Wanted(c)
  <2>1. \A v : v \in Basin(terminal[c]) <=>
          v \in DOMAIN data.graph /\ \A set \in SUBSET DOMAIN data.graph :
                                       ClosedUp(set, terminal[c]) => v \in set
    BY DEF Basin, ClosedUp, UpOf
  <2>2. \A set \in SUBSET DOMAIN data.graph :
          ClosedUp(set, terminal[c]) => Wanted(c) \subseteq set
    BY <1>1 DEF Least, Wanted
  <2> QED  BY <1>3, <1>5, <2>1, <2>2
<1>7. Cardinality(Wanted(c)) = n
  <2>1. \A i, j \in 1..n : ids[i] = ids[j] => i = j
    BY <1>1, <1>2 DEF Order
  <2>2. ids \in [1..n -> Wanted(c)]
    <3>1. ids = [k \in 1..n |-> ids[k]]
      BY <1>1, <1>2 DEF Order
    <3>2. \A k \in 1..n : ids[k] \in Wanted(c)
      BY <1>2
    <3> HIDE DEF ids
    <3> QED  BY <3>1, <3>2
  <2>3. ids \in Bijection(1..n, Wanted(c))
    BY <1>2, <2>1, <2>2 DEF Bijection, Injection, Surjection, IsInjective
  <2>4. n \in Nat \ {0}
    BY <1>2
  <2> HIDE DEF ids, n
  <2>6. IsFiniteSet(1..n) /\ Cardinality(1..n) = n
    BY <2>4, FS_Interval
  <2>5. ExistsBijection(1..n, Wanted(c))
    BY <2>3 DEF ExistsBijection
  <2> QED  BY <2>5, <2>6, FS_Bijection
<1>8. \A u \in Wanted(c) : LevelOf(u) = LevelOf(terminal[c])
  BY <1>1, <1>2 DEF Order
<1> QED  BY <1>3, <1>4, <1>6, <1>7, <1>8

-----------------------------------------------------------------------------
(* What each stage of a call keeps. *)

LEMMA EndStep ==
  ASSUME NEW c, pc'[c] = "done", Verdict(c)', (c \in lost => c \in Lossy \/ Alike # 1..object)'
  PROVE  CallInv(c)'
BY DEF CallInv, Staged, Stages, Walks, Walked, Reads, Joins, Refines, Ends

LEMMA FailStep ==
  ASSUME BatchInv, NEW c \in Calls, NEW e, Fail(c, e), e # << >>, Excused(c)'
  PROVE  CallInv(c)'
<1>1. pc'[c] = "done" /\ result'[c] = [error |-> e]
  BY DEF BatchInv, Domains, Fail
<1>2. Verdict(c)'
  BY <1>1 DEF Verdict
<1> QED  BY <1>1, <1>2, EndStep DEF Excused

LEMMA FailedFor ==
  ASSUME BatchInv, NEW c \in Calls, CallInv(c), NEW e, Fail(c, e), e # << >>,
         CauseRead(c, e), CauseMade(c, e), UNCHANGED <<data, mode, object, index, terminal, lost>>
  PROVE  CallInv(c)'
<1>1. result'[c].error = e
  BY DEF BatchInv, Domains, Fail
<1>2. /\ Basin(terminal[c])' = Basin(terminal[c]) /\ Alike' = Alike
      /\ \A u : /\ Readable(u)' = Readable(u)
                /\ Displaced(u)' = Displaced(u) /\ Relevelled(u)' = Relevelled(u)
  BY DEF Basin, Readable, RowPlaces, Alike, Displaced, Relevelled, LevelOf
<1>3. CauseRead(c, e)'
  BY <1>2 DEF CauseRead
<1>4. CauseMade(c, e)'
  BY <1>2 DEF CauseMade
<1>5. c \in lost' => c \in Lossy \/ Alike' # 1..object'
  BY <1>2 DEF CallInv, Staged
<1>6. Excused(c)'
  BY <1>1, <1>3, <1>4, <1>5 DEF Excused
<1> QED  BY <1>6, FailStep

(* A stage goes on with what it has. *)
LEMMA ResolveStep ==
  ASSUME BatchInv, NEW c \in Calls, CallInv(c), Resolve(c)
  PROVE  CallInv(c)'
<1>1. UNCHANGED <<data, mode, object, index, upstream, meta, units, refined, lost>> /\ pc[c] = "resolve"
  BY DEF Resolve
<1>2. Finest' = Finest /\ Alike' = Alike /\ \A u, lv : LevelRead(u, lv)' = LevelRead(u, lv)
  BY <1>1 DEF Finest, LevelOf, Alike, LevelRead, Readable, RowPlaces
<1>3. CASE Fail(c, <<"resolution">>) /\ UNCHANGED terminal
  <2>1. CauseRead(c, <<"resolution">>) /\ CauseMade(c, <<"resolution">>)
    BY DEF CauseRead, CauseMade
  <2> QED  BY <1>1, <1>3, <2>1, FailedFor
<1>4. ASSUME NEW u, (u \in DOMAIN data.graph /\ LevelOf(u) = Finest) \/ LevelRead(u, Finest),
             terminal' = [terminal EXCEPT ![c] = u], Goto(c, "traverse")
      PROVE  CallInv(c)'
  <2>1. pc'[c] = "traverse" /\ terminal'[c] = u /\ refined'[c] = {}
    BY <1>1, <1>4 DEF BatchInv, Domains, Goto, CallInv, Refines
  <2>2. Resolved(c)'
    BY <1>1, <1>2, <1>4, <2>1 DEF Resolved, LevelOf
  <2>3. Staged(c)'
    BY <1>1, <1>2, <2>1, <2>2 DEF Staged, Stages, CallInv
  <2>4. Walks(c)' /\ Reads(c)' /\ Refines(c)' /\ Ends(c)'
    BY <2>1 DEF Walks, Walked, Reads, Joins, Refines, Ends
  <2> QED  BY <2>3, <2>4 DEF CallInv
<1>5. ASSUME NEW p \in RowPlaces, NEW at \in Mixes({"id", "level"}), LevelAt(at, p) = Finest
      PROVE  LevelRead(Id(at, p), Finest)
  <2>1. From(at, p, "level") \in Readable(Id(at, p))
    BY RowRead
  <2> QED  BY <1>5, <2>1 DEF LevelRead, LevelAt
<1> QED  BY <1>3, <1>4, <1>5 DEF Resolve

LEMMA SingleSeq ==
  ASSUME NEW S, NEW t \in S
  PROVE  <<t>> \in Seq(S)
OBVIOUS

LEMMA BeginStep ==
  ASSUME BatchInv, Opened, NEW c \in Calls, CallInv(c), Begin(c)
  PROVE  CallInv(c)'
<1>1. /\ UNCHANGED <<data, mode, object, index, terminal, meta, units, refined, lost>>
      /\ pc[c] = "traverse" /\ Finest' = Finest /\ \A u : LevelOf(u)' = LevelOf(u)
  BY DEF Begin, Finest, LevelOf
<1>2. Resolved(c) /\ refined[c] = {}
  BY <1>1 DEF CallInv, Staged, Refines
<1>3. ASSUME terminal[c] \notin DOMAIN data.graph PROVE CallInv(c)'
  <2>1. Fail(c, <<"traversal">>)
    BY <1>3 DEF Begin
  <2>2. LevelRead(terminal[c], Finest)
    BY <1>2, <1>3 DEF Resolved
  <2>3. object # 1
    BY <1>3, <2>2, FirstReads DEF LevelRead
  <2>4. CauseRead(c, <<"traversal">>) /\ CauseMade(c, <<"traversal">>)
    BY <1>3, <2>3, Typed DEF CauseRead, CauseMade
  <2> QED  BY <1>1, <2>1, <2>4, FailedFor
<1> SUFFICES ASSUME terminal[c] \in DOMAIN data.graph PROVE CallInv(c)'
  BY <1>3
<1> DEFINE start == [units |-> <<terminal[c]>>, down |-> << >>, at |-> 1, next |-> 1]
<1>4. pc'[c] = "walk" /\ upstream'[c] = start
  BY DEF BatchInv, Domains, Begin, Goto
<1>5. WalkInv(c)'
  <2>1. Order(c)'
    <3>1. start.units \in Seq(DOMAIN data.graph) /\ Len(start.units) = 1 /\ start.units[1] = terminal[c]
          /\ DOMAIN start.units = {1}
      <4>1. start.units = <<terminal[c]>>
        OBVIOUS
      <4>2. <<terminal[c]>> \in Seq(DOMAIN data.graph)
        BY SingleSeq
      <4>3. Len(<<terminal[c]>>) = 1 /\ <<terminal[c]>>[1] = terminal[c] /\ DOMAIN <<terminal[c]>> = {1}
        OBVIOUS
      <4> QED  BY <4>1, <4>2, <4>3
    <3>2. start = [units |-> start.units, down |-> start.down, at |-> start.at, next |-> start.next]
      OBVIOUS
    <3> HIDE DEF start
    <3> QED  BY <1>1, <1>2, <1>4, <3>1, <3>2 DEF Order, Shaped
  <2>2. Drains(c)'
    <3>1. DOMAIN start.units = {1}
      OBVIOUS
    <3> HIDE DEF start
    <3> QED  BY <1>4, <3>1 DEF Drains
  <2>3. Progress(c)'
    <3>1. start.at = 1 /\ start.next = 1 /\ Len(start.units) = 1 /\ start.units[1] = terminal[c]
      OBVIOUS
    <3>2. \A i \in DOMAIN data.graph[terminal[c]].upstream : i \in Nat \ {0}
      BY Row
    <3> HIDE DEF start
    <3> QED  BY <1>1, <1>4, <3>1, <3>2 DEF Progress, Looked
  <2>4. Least(c)'
    <3>1. Range(start.units) = {terminal[c]}
      BY DEF Range
    <3> HIDE DEF start
    <3> QED  BY <1>1, <1>4, <3>1 DEF Least, ClosedUp
  <2> QED  BY <2>1, <2>2, <2>3, <2>4 DEF WalkInv
<1>6. Staged(c)'
  <2>1. Alike' = Alike /\ \A u, lv : LevelRead(u, lv)' = LevelRead(u, lv)
    BY <1>1 DEF Alike, LevelRead, Readable, RowPlaces
  <2>2. Resolved(c)'
    BY <1>1, <1>2, <2>1 DEF Resolved
  <2> QED  BY <1>1, <1>4, <2>1, <2>2 DEF CallInv, Staged, Stages
<1>7. Walks(c)' /\ Reads(c)' /\ Refines(c)' /\ Ends(c)'
  BY <1>1, <1>2, <1>4, <1>5 DEF Walks, Walked, Reads, Joins, Refines, Ends
<1> QED  BY <1>6, <1>7 DEF CallInv

(* The walk goes on, with what it has found or with one more unit.         *)
LEMMA WalkOn ==
  ASSUME BatchInv, NEW c \in Calls, CallInv(c), pc[c] = "walk",
         UNCHANGED <<data, mode, object, index, terminal, meta, units, refined, lost, pc, result>>,
         WalkInv(c)'
  PROVE  CallInv(c)'
<1>1. pc'[c] = "walk" /\ Finest' = Finest /\ Alike' = Alike
      /\ \A u, lv : LevelOf(u)' = LevelOf(u) /\ LevelRead(u, lv)' = LevelRead(u, lv)
  BY DEF Finest, LevelOf, Alike, LevelRead, Readable, RowPlaces
<1>2. Staged(c)'
  BY <1>1 DEF CallInv, Staged, Stages, Resolved
<1>3. Walks(c)' /\ Reads(c)' /\ Refines(c)' /\ Ends(c)'
  BY <1>1 DEF CallInv, Walks, Walked, Reads, Joins, Refines, Ends
<1> QED  BY <1>2, <1>3 DEF CallInv

(* The unit whose row the walk looks at.                                   *)
LEMMA Turning ==
  ASSUME BatchInv, NEW c, WalkInv(c), upstream[c].at <= Len(upstream[c].units)
  PROVE  LET w == upstream[c]
             n == Len(w.units)
             u == w.units[w.at]
             row == data.graph[u].upstream
         IN /\ w = [units |-> w.units, down |-> w.down, at |-> w.at, next |-> w.next]
            /\ n \in Nat \ {0} /\ w.at \in 1..n /\ w.next \in Nat \ {0}
            /\ u \in DOMAIN data.graph
            /\ Len(row) \in Nat /\ DOMAIN row = 1..Len(row)
            /\ \A v : v \in UpOf(u) <=> \E i \in 1..Len(row) : v = row[i]
            /\ \A i \in 1..Len(row) : i < w.next => row[i] \in Range(w.units)
            /\ \A k \in 1..(w.at - 1) : UpOf(w.units[k]) \subseteq Range(w.units)
<1> DEFINE w == upstream[c]
           n == Len(w.units)
           u == w.units[w.at]
           row == data.graph[u].upstream
<1>1. Order(c) /\ Progress(c)
  BY DEF WalkInv
<1>2. n \in Nat \ {0} /\ \A k \in 1..n : w.units[k] \in DOMAIN data.graph
  BY <1>1, WalkPlaces
<1>3. w.at \in 1..(n + 1) /\ w.next \in Nat \ {0}
  BY <1>1 DEF Progress, Looked
<1>4. w.at \in 1..n
  <2> DEFINE at == w.at
  <2>1. at \in 1..(n + 1) /\ at <= n
    BY <1>3
  <2> HIDE DEF at, n
  <2>2. at \in 1..n
    BY <1>2, <2>1
  <2> QED  BY <2>2 DEF at
<1>5. u \in DOMAIN data.graph
  BY <1>2, <1>4
<1>6. row \in Seq(Int) /\ \A v : v \in UpOf(u) <=> \E i \in 1..Len(row) : v = row[i]
  BY <1>5, Row
<1>7. Len(row) \in Nat /\ DOMAIN row = 1..Len(row)
  <2> HIDE DEF row
  <2> QED  BY <1>6
<1>8. \A i \in DOMAIN row : i < w.next => row[i] \in Range(w.units)
  BY <1>1 DEF Progress, Looked
<1>9. \A k \in 1..(w.at - 1) : UpOf(w.units[k]) \subseteq Range(w.units)
  BY <1>1 DEF Progress, Looked
<1>10. w = [units |-> w.units, down |-> w.down, at |-> w.at, next |-> w.next]
  BY <1>1 DEF Order, Shaped
<1> HIDE DEF w, row, n, u
<1>11. \A i \in 1..Len(row) : i < w.next => row[i] \in Range(w.units)
  BY <1>7, <1>8
<1> QED  BY <1>2, <1>3, <1>4, <1>5, <1>6, <1>7, <1>9, <1>10, <1>11 DEF w, n, u, row

(* What was found stays; only how far the rows were looked at changes.     *)
Stays(c, ids, down, at, next) ==
  /\ upstream[c].units = ids /\ upstream[c].down = down
  /\ upstream'[c].units = ids /\ upstream'[c].down = down
  /\ upstream'[c].at = at /\ upstream'[c].next = next /\ Shaped(upstream'[c])

LEMMA LookedOn ==
  ASSUME NEW c, WalkInv(c), UNCHANGED <<data, terminal>>,
         NEW ids, NEW down, NEW at, NEW next,
         Stays(c, ids, down, at, next), Looked(ids, at, next)
  PROVE  WalkInv(c)'
<1>1. upstream[c].units = ids /\ upstream[c].down = down
  BY DEF Stays
<1>2. /\ upstream'[c].units = ids /\ upstream'[c].down = down
      /\ upstream'[c].at = at /\ upstream'[c].next = next /\ Shaped(upstream'[c])
  BY DEF Stays
<1>3. Order(c) /\ Drains(c) /\ Least(c)
  BY DEF WalkInv
<1>4. data' = data /\ terminal' = terminal /\ \A u : LevelOf(u)' = LevelOf(u)
  BY DEF LevelOf
<1>5. Order(c)'
  BY <1>1, <1>2, <1>3, <1>4 DEF Order, Shaped
<1>6. Drains(c)'
  <2> DEFINE Fed(k) == /\ ids[k] \in DOMAIN down
                       /\ \E j \in 1..(k - 1) : down[ids[k]] = ids[j]
                       /\ ids[k] \in Range(data.graph[down[ids[k]]].upstream)
  <2>1. Drains(c) <=> \A k \in DOMAIN ids : k > 1 => Fed(k)
    BY <1>1 DEF Drains, UpOf
  <2>2. Drains(c)' <=> \A k \in DOMAIN ids : k > 1 => Fed(k)
    BY <1>2, <1>4 DEF Drains, UpOf
  <2> QED  BY <1>3, <2>1, <2>2
<1>7. Least(c)'
  BY <1>1, <1>2, <1>3, <1>4 DEF Least, ClosedUp, UpOf
<1>8. Progress(c)'
  <2>1. \A k \in 1..(at - 1) : Range(data'.graph[ids[k]].upstream) \subseteq Range(ids)
    BY <1>4 DEF Looked, UpOf
  <2>2. at <= Len(ids) => \A i \in DOMAIN data'.graph[ids[at]].upstream :
          i < next => data'.graph[ids[at]].upstream[i] \in Range(ids)
    BY <1>4 DEF Looked
  <2>3. at \in 1..(Len(ids) + 1) /\ next \in Nat \ {0}
    BY DEF Looked
  <2> QED  BY <1>2, <2>1, <2>2, <2>3 DEF Progress, Looked, UpOf
<1> QED  BY <1>5, <1>6, <1>7, <1>8 DEF WalkInv

LEMMA UnitLooked ==
  ASSUME BatchInv, NEW ids \in Seq(DOMAIN data.graph), NEW at, NEW next,
         Looked(ids, at, next), at <= Len(ids),
         next > Len(data.graph[ids[at]].upstream)
  PROVE  Looked(ids, at + 1, 1)
<1> DEFINE n == Len(ids)
           row == data.graph[ids[at]].upstream
           last == Len(row)
<1>1. n \in Nat /\ at \in 1..n /\ next \in Nat /\ \A k \in 1..n : ids[k] \in DOMAIN data.graph
  <2>1. at \in 1..(n + 1) /\ at <= n /\ n \in Nat /\ next \in Nat
    BY DEF Looked
  <2>2. \A k \in 1..n : ids[k] \in DOMAIN data.graph
    OBVIOUS
  <2> HIDE DEF n
  <2> QED  BY <2>1, <2>2
<1>2. \A k \in 1..n : data.graph[ids[k]].upstream \in Seq(Int)
  BY <1>1, Row
<1>3. row \in Seq(Int)
  BY <1>1, <1>2
<1>4. \A k \in 1..(at - 1) : UpOf(ids[k]) \subseteq Range(ids)
  BY DEF Looked
<1>5. at <= n => \A i \in DOMAIN row : i < next => row[i] \in Range(ids)
  BY DEF Looked
<1>6. UpOf(ids[at]) = Range(row)
  BY DEF UpOf
<1>7. next > last
  OBVIOUS
<1> HIDE DEF row, n
<1>8. last \in Nat /\ DOMAIN row = 1..last /\ Range(row) = {row[i] : i \in 1..last}
  BY <1>3 DEF Range
<1> HIDE DEF last
<1>9. UpOf(ids[at]) \subseteq Range(ids)
  <2>1. \A i \in 1..last : i < next
    BY <1>1, <1>7, <1>8
  <2> QED  BY <1>1, <1>5, <1>6, <1>8, <2>1
<1>10. \A k \in 1..((at + 1) - 1) : UpOf(ids[k]) \subseteq Range(ids)
  <2>1. \A k \in 1..((at + 1) - 1) : k = at \/ k \in 1..(at - 1)
    BY <1>1
  <2> QED  BY <1>4, <1>9, <2>1
<1>11. at + 1 \in 1..(n + 1)
  BY <1>1
<1>12. at + 1 <= n => \A i \in DOMAIN data.graph[ids[at + 1]].upstream : ~(i < 1)
  <2>1. SUFFICES ASSUME at + 1 <= n PROVE \A i \in DOMAIN data.graph[ids[at + 1]].upstream : ~(i < 1)
    OBVIOUS
  <2>2. at + 1 \in 1..n
    BY <1>1, <2>1
  <2> DEFINE its == data.graph[ids[at + 1]].upstream
  <2>3. its \in Seq(Int)
    BY <1>2, <2>2
  <2> HIDE DEF its
  <2>4. \A i \in DOMAIN its : ~(i < 1)
    BY <2>3
  <2> QED  BY <2>4 DEF its
<1> QED  BY <1>10, <1>11, <1>12 DEF Looked, n

LEMMA IdLooked ==
  ASSUME BatchInv, NEW ids \in Seq(DOMAIN data.graph), NEW at, NEW next,
         Looked(ids, at, next), at <= Len(ids),
         data.graph[ids[at]].upstream[next] \in Range(ids)
  PROVE  Looked(ids, at, next + 1)
<1> DEFINE row == data.graph[ids[at]].upstream
           n == Len(ids)
           seen == Range(ids)
<1>1. /\ at \in 1..(n + 1) /\ at <= n /\ n \in Nat /\ next \in Nat \ {0}
      /\ \A k \in 1..(at - 1) : UpOf(ids[k]) \subseteq Range(ids)
      /\ \A i \in DOMAIN row : i < next => row[i] \in seen
  BY DEF Looked
<1>2. DOMAIN row \subseteq Int
  <2>1. at \in 1..n
    <3> HIDE DEF n
    <3> QED  BY <1>1
  <2>2. row \in Seq(Int)
    BY <2>1, Row
  <2> HIDE DEF row
  <2> QED  BY <2>2
<1>3. row[next] \in seen
  OBVIOUS
<1> HIDE DEF row, seen
<1>4. \A i \in DOMAIN row : i < next + 1 => row[i] \in seen
  <2>1. \A i \in DOMAIN row : i < next + 1 => i < next \/ i = next
    BY <1>1, <1>2
  <2> QED  BY <1>1, <1>3, <2>1
<1>5. next + 1 \in Nat \ {0}
  BY <1>1
<1> QED  BY <1>1, <1>4, <1>5 DEF Looked, row, seen

LEMMA NextUnit ==
  ASSUME BatchInv, NEW c \in Calls, WalkInv(c),
         UNCHANGED <<data, terminal>>,
         upstream[c].at <= Len(upstream[c].units),
         upstream[c].next > Len(data.graph[upstream[c].units[upstream[c].at]].upstream),
         upstream'[c] = [upstream[c] EXCEPT !.at = @ + 1, !.next = 1]
  PROVE  WalkInv(c)'
<1> DEFINE w == upstream[c]
           z == upstream'[c]
<1>1. Shaped(w) /\ w.units \in Seq(DOMAIN data.graph) /\ Looked(w.units, w.at, w.next)
  BY DEF WalkInv, Order, Progress
<1>2. Looked(w.units, w.at + 1, 1)
  BY <1>1, UnitLooked
<1>3. z = [w EXCEPT !.at = @ + 1, !.next = 1]
  OBVIOUS
<1>4. Stays(c, w.units, w.down, w.at + 1, 1)
  <2> HIDE DEF w, z
  <2>1. z.units = w.units /\ z.down = w.down /\ z.at = w.at + 1 /\ z.next = 1 /\ Shaped(z)
    BY <1>1, <1>3 DEF Shaped
  <2> QED  BY <2>1 DEF Stays, w, z
<1> QED  BY <1>2, <1>4, LookedOn

LEMMA NextFound ==
  ASSUME BatchInv, NEW c \in Calls, WalkInv(c),
         UNCHANGED <<data, terminal>>,
         upstream[c].at <= Len(upstream[c].units),
         data.graph[upstream[c].units[upstream[c].at]].upstream[upstream[c].next]
           \in Range(upstream[c].units),
         upstream'[c] = [upstream[c] EXCEPT !.next = @ + 1]
  PROVE  WalkInv(c)'
<1> DEFINE w == upstream[c]
           z == upstream'[c]
<1>1. Shaped(w) /\ w.units \in Seq(DOMAIN data.graph) /\ Looked(w.units, w.at, w.next)
  BY DEF WalkInv, Order, Progress
<1>2. Looked(w.units, w.at, w.next + 1)
  BY <1>1, IdLooked
<1>3. z = [w EXCEPT !.next = @ + 1]
  OBVIOUS
<1>4. Stays(c, w.units, w.down, w.at, w.next + 1)
  <2> HIDE DEF w, z
  <2>1. z.units = w.units /\ z.down = w.down /\ z.at = w.at /\ z.next = w.next + 1 /\ Shaped(z)
    BY <1>1, <1>3 DEF Shaped
  <2> QED  BY <2>1 DEF Stays, w, z
<1> QED  BY <1>2, <1>4, LookedOn

LEMMA Appended ==
  ASSUME NEW S, NEW s \in Seq(S), NEW v \in S
  PROVE  /\ Append(s, v) \in Seq(S)
         /\ Len(Append(s, v)) = Len(s) + 1 /\ DOMAIN Append(s, v) = 1..(Len(s) + 1)
         /\ \A k \in 1..Len(s) : Append(s, v)[k] = s[k]
         /\ Append(s, v)[Len(s) + 1] = v
         /\ Range(Append(s, v)) = Range(s) \cup {v}
<1>1. /\ Append(s, v) \in Seq(S)
      /\ Len(Append(s, v)) = Len(s) + 1 /\ DOMAIN Append(s, v) = 1..(Len(s) + 1)
      /\ \A k \in 1..Len(s) : Append(s, v)[k] = s[k]
      /\ Append(s, v)[Len(s) + 1] = v
      /\ DOMAIN s = 1..Len(s) /\ Len(s) \in Nat
  OBVIOUS
<1> DEFINE a == Append(s, v)
<1> HIDE DEF a
<1>2. 1..(Len(s) + 1) = 1..Len(s) \cup {Len(s) + 1}
  BY <1>1
<1>3. Range(a) = {a[k] : k \in 1..(Len(s) + 1)} /\ Range(s) = {s[k] : k \in 1..Len(s)}
  BY <1>1 DEF Range, a
<1>4. Range(a) = {s[k] : k \in 1..Len(s)} \cup {v}
  BY <1>1, <1>2, <1>3 DEF a
<1> QED  BY <1>1, <1>3, <1>4 DEF a

(* With one unit more, from the row of unit u.                             *)
Grown(c, ids, at, next, down, u, v, more, lower) ==
  /\ upstream[c].units = ids /\ upstream[c].down = down
  /\ upstream[c].at = at /\ upstream[c].next = next
  /\ Len(ids) \in Nat /\ at \in 1..Len(ids) /\ next \in Nat
  /\ u = ids[at] /\ v = data.graph[u].upstream[next]
  /\ v \in UpOf(u) /\ v \notin Range(ids)
  /\ Shaped(upstream'[c]) /\ upstream'[c].units = more /\ upstream'[c].down = lower
  /\ upstream'[c].at = at /\ upstream'[c].next = next + 1 /\ more = Append(ids, v)
  /\ v \in DOMAIN lower /\ lower[v] = u
  /\ \A d \in DOMAIN down : d # v => d \in DOMAIN lower /\ lower[d] = down[d]

LEMMA OneMore ==
  ASSUME BatchInv, Opened, NEW c, WalkInv(c), UNCHANGED <<data, terminal>>,
         NEW ids, NEW at, NEW next, NEW down, NEW u, NEW v, NEW more, NEW lower,
         Grown(c, ids, at, next, down, u, v, more, lower)
  PROVE  WalkInv(c)'
<1>1. /\ upstream[c].units = ids /\ upstream[c].down = down
      /\ upstream[c].at = at /\ upstream[c].next = next
  BY DEF Grown
<1>2. PICK n \in Nat : n = Len(ids)
  BY DEF Grown
<1>3. at \in 1..n /\ next \in Nat
  BY <1>2 DEF Grown
<1>4. u = ids[at] /\ v = data.graph[u].upstream[next] /\ v \in UpOf(u) /\ v \notin Range(ids)
  BY DEF Grown
<1>5. /\ Shaped(upstream'[c]) /\ upstream'[c].units = more /\ upstream'[c].down = lower
      /\ upstream'[c].at = at /\ upstream'[c].next = next + 1
  BY DEF Grown
<1>6. more = Append(ids, v)
  BY DEF Grown
<1>7. /\ v \in DOMAIN lower /\ lower[v] = u
      /\ \A d \in DOMAIN down : d # v => d \in DOMAIN lower /\ lower[d] = down[d]
  BY DEF Grown
<1>8. Order(c) /\ Drains(c) /\ Progress(c) /\ Least(c)
  BY DEF WalkInv
<1>9. data' = data /\ terminal' = terminal /\ \A x : LevelOf(x)' = LevelOf(x)
  BY DEF LevelOf
<1>10. ids \in Seq(DOMAIN data.graph) /\ ids[1] = terminal[c] /\ Len(ids) >= 1
  BY <1>1, <1>8 DEF Order
<1>11. DOMAIN ids = 1..n /\ n >= 1
  BY <1>2, <1>10
<1>12. \A i, j \in 1..n : ids[i] = ids[j] => i = j
  BY <1>1, <1>8, <1>11 DEF Order
<1>13. \A k \in 1..n : LevelOf(ids[k]) = LevelOf(terminal[c])
  BY <1>1, <1>8, <1>11 DEF Order
<1>14. \A k \in 1..n : ids[k] \in Range(ids) /\ ids[k] \in DOMAIN data.graph
  BY <1>10, <1>11 DEF Range
<1>15. u \in DOMAIN data.graph /\ LevelOf(u) = LevelOf(terminal[c])
  BY <1>3, <1>4, <1>13, <1>14
<1>16. v \in DOMAIN data.graph /\ LevelOf(v) = LevelOf(terminal[c])
  BY <1>4, <1>15 DEF Opened, UpOf
<1>17. /\ more \in Seq(DOMAIN data.graph) /\ Len(more) = n + 1 /\ DOMAIN more = 1..(n + 1)
       /\ more[n + 1] = v /\ Range(more) = Range(ids) \cup {v}
       /\ \A k \in 1..n : more[k] = ids[k]
  <2> DEFINE known == DOMAIN data.graph
  <2>1. ids \in Seq(known) /\ v \in known
    BY <1>10, <1>16
  <2> HIDE DEF known
  <2>2. /\ Append(ids, v) \in Seq(known)
        /\ Len(Append(ids, v)) = Len(ids) + 1 /\ DOMAIN Append(ids, v) = 1..(Len(ids) + 1)
        /\ \A k \in 1..Len(ids) : Append(ids, v)[k] = ids[k]
        /\ Append(ids, v)[Len(ids) + 1] = v
        /\ Range(Append(ids, v)) = Range(ids) \cup {v}
    BY <2>1, Appended
  <2> QED  BY <1>2, <1>6, <2>2 DEF known
<1>18. \A k \in 1..n : more[k] # v
  BY <1>4, <1>14, <1>17
<1>19. \A k \in 1..(n + 1) : k \in 1..n \/ k = n + 1
  BY <1>2
<1>20. Order(c)'
  <2>1. ASSUME NEW i \in 1..(n + 1), NEW j \in 1..(n + 1), more[i] = more[j] PROVE i = j
    <3>1. i \in 1..n /\ j \in 1..n => more[i] = ids[i] /\ more[j] = ids[j]
      BY <1>17
    <3>2. i \in 1..n /\ j \in 1..n => i = j
      BY <1>12, <2>1, <3>1
    <3>3. i \in 1..n /\ j = n + 1 => more[i] # more[j]
      BY <1>17, <1>18
    <3>4. j \in 1..n /\ i = n + 1 => more[j] # more[i]
      BY <1>17, <1>18
    <3> QED  BY <1>19, <2>1, <3>2, <3>3, <3>4
  <2>2. ASSUME NEW k \in 1..(n + 1) PROVE LevelOf(more[k]) = LevelOf(terminal[c])
    <3>1. k \in 1..n => LevelOf(more[k]) = LevelOf(terminal[c])
      BY <1>13, <1>17
    <3>2. k = n + 1 => LevelOf(more[k]) = LevelOf(terminal[c])
      BY <1>16, <1>17
    <3> QED  BY <1>19, <3>1, <3>2
  <2>3. more \in Seq(DOMAIN data.graph) /\ DOMAIN more = 1..(n + 1)
    BY <1>17
  <2>4. Len(more) >= 1
    BY <1>2, <1>17
  <2>5. more[1] = terminal[c]
    BY <1>10, <1>11, <1>17
  <2> QED  BY <1>5, <1>9, <2>1, <2>2, <2>3, <2>4, <2>5 DEF Order
<1>21. Drains(c)'
  <2>1. SUFFICES ASSUME NEW k \in 1..(n + 1), k > 1
                 PROVE  /\ more[k] \in DOMAIN lower
                        /\ \E j \in 1..(k - 1) : lower[more[k]] = more[j]
                        /\ more[k] \in UpOf(lower[more[k]])
    <3> DEFINE Good(k) == /\ more[k] \in DOMAIN lower
                          /\ \E j \in 1..(k - 1) : lower[more[k]] = more[j]
                          /\ more[k] \in Range(data'.graph[lower[more[k]]].upstream)
    <3>1. \A k \in DOMAIN more : k > 1 => Good(k)
      BY <1>9, <1>17, <2>1 DEF UpOf
    <3>2. Drains(c)' <=> \A k \in DOMAIN more : k > 1 => Good(k)
      BY <1>5 DEF Drains, UpOf
    <3> QED  BY <3>1, <3>2
  <2>2. CASE k = n + 1
    <3>1. more[k] = v
      BY <1>17, <2>2
    <3>2. more[at] = u
      BY <1>3, <1>4, <1>17
    <3>3. at \in 1..(k - 1)
      BY <1>2, <1>3, <2>2
    <3>4. \E j \in 1..(k - 1) : lower[more[k]] = more[j]
      BY <1>7, <3>1, <3>2, <3>3
    <3> QED  BY <1>4, <1>7, <3>1, <3>4
  <2>3. CASE k \in 1..n
    <3>1. more[k] = ids[k] /\ more[k] # v
      BY <1>17, <1>18, <2>3
    <3>2. /\ ids[k] \in DOMAIN down /\ ids[k] \in UpOf(down[ids[k]])
          /\ \E j \in 1..(k - 1) : down[ids[k]] = ids[j]
      BY <1>1, <1>8, <1>11, <2>1, <2>3 DEF Drains
    <3>3. PICK j \in 1..(k - 1) : down[ids[k]] = ids[j]
      BY <3>2
    <3>4. lower[more[k]] = down[ids[k]] /\ more[k] \in DOMAIN lower
      BY <1>7, <3>1, <3>2
    <3>5. j \in 1..n
      BY <1>2, <2>3, <3>3
    <3>6. more[j] = ids[j]
      BY <1>17, <3>5
    <3>7. \E i \in 1..(k - 1) : lower[more[k]] = more[i]
      BY <3>3, <3>4, <3>6
    <3> QED  BY <3>1, <3>2, <3>4, <3>7
  <2> QED  BY <1>19, <2>2, <2>3
<1>22. Progress(c)'
  <2> DEFINE row == data.graph[u].upstream
  <2>1. \A i \in DOMAIN row : i < next => row[i] \in Range(ids)
    <3>1. at <= Len(ids)
      BY <1>2, <1>3
    <3> QED  BY <1>1, <1>4, <1>8, <3>1 DEF Progress, Looked
  <2>2. DOMAIN row \subseteq Nat
    <3>1. row \in Seq(Int)
      BY <1>15, Row
    <3> HIDE DEF row
    <3> QED  BY <3>1
  <2> HIDE DEF row
  <2>3. ASSUME NEW i \in DOMAIN row, i < next + 1 PROVE row[i] \in Range(more)
    <3>1. i < next \/ i = next
      BY <1>3, <2>2, <2>3
    <3>2. i < next => row[i] \in Range(more)
      BY <1>17, <2>1
    <3>3. row[next] \in Range(more)
      BY <1>4, <1>17 DEF row
    <3> QED  BY <3>1, <3>2, <3>3
  <2>4. ASSUME NEW k \in 1..(at - 1) PROVE UpOf(more[k]) \subseteq Range(more)
    <3>1. UpOf(ids[k]) \subseteq Range(ids)
      BY <1>1, <1>8 DEF Progress, Looked
    <3>2. k \in 1..n
      BY <1>2, <1>3
    <3> QED  BY <1>17, <3>1, <3>2
  <2>5. more[at] = u
    BY <1>3, <1>4, <1>17
  <2>6. next + 1 \in Nat \ {0} /\ at \in 1..(Len(more) + 1)
    BY <1>2, <1>3, <1>17
  <2>7. \A k \in 1..(at - 1) : Range(data'.graph[more[k]].upstream) \subseteq Range(more)
    BY <1>9, <2>4 DEF UpOf
  <2>8. \A i \in DOMAIN data'.graph[more[at]].upstream :
          i < next + 1 => data'.graph[more[at]].upstream[i] \in Range(more)
    BY <1>9, <2>3, <2>5 DEF row
  <2> QED  BY <1>5, <2>6, <2>7, <2>8 DEF Progress, Looked, UpOf
<1>23. Least(c)'
  <2>1. SUFFICES ASSUME NEW set \in SUBSET DOMAIN data.graph, ClosedUp(set, terminal[c])
                 PROVE  Range(more) \subseteq set
    BY <1>5, <1>9 DEF Least, ClosedUp, UpOf
  <2>2. Range(ids) \subseteq set
    BY <1>1, <1>8, <2>1 DEF Least
  <2>3. u \in set
    BY <1>3, <1>4, <1>14, <2>2
  <2>4. v \in set
    BY <1>4, <2>1, <2>3 DEF ClosedUp
  <2> QED  BY <1>17, <2>2, <2>4
<1> QED  BY <1>20, <1>21, <1>22, <1>23 DEF WalkInv

LEMMA NextNew ==
  ASSUME BatchInv, Opened, NEW c \in Calls, WalkInv(c),
         UNCHANGED <<data, terminal>>,
         upstream[c].at <= Len(upstream[c].units),
         upstream[c].next <= Len(data.graph[upstream[c].units[upstream[c].at]].upstream),
         NEW u, u = upstream[c].units[upstream[c].at],
         NEW v, v = data.graph[u].upstream[upstream[c].next],
         v \notin Range(upstream[c].units), v \in UpOf(u),
         upstream'[c] = Found(upstream[c], u, v)
  PROVE  WalkInv(c)'
<1> DEFINE w == upstream[c]
           z == upstream'[c]
<1>1. Shaped(w) /\ Len(w.units) \in Nat /\ w.at \in 1..Len(w.units) /\ w.next \in Nat
  <2>1. /\ w = [units |-> w.units, down |-> w.down, at |-> w.at, next |-> w.next]
        /\ Len(w.units) \in Nat \ {0} /\ w.at \in 1..Len(w.units) /\ w.next \in Nat \ {0}
    BY Turning
  <2> QED  BY <2>1 DEF Shaped
<1>2. /\ z.units = Append(w.units, v) /\ z.at = w.at /\ z.next = w.next + 1
      /\ z.down = [d \in DOMAIN w.down \cup {v} |-> IF d = v THEN u ELSE w.down[d]]
      /\ Shaped(z)
  <2>1. z = Found(w, u, v)
    OBVIOUS
  <2> HIDE DEF w, z
  <2> QED  BY <1>1, <2>1 DEF Found, Shaped
<1>3. /\ v \in DOMAIN z.down /\ z.down[v] = u
      /\ \A d \in DOMAIN w.down : d # v => d \in DOMAIN z.down /\ z.down[d] = w.down[d]
  <2> HIDE DEF w, z
  <2> QED  BY <1>2
<1>4. Grown(c, w.units, w.at, w.next, w.down, u, v, z.units, z.down)
  BY <1>1, <1>2, <1>3 DEF Grown
<1> QED  BY <1>4, OneMore

LEMMA WalkStep ==
  ASSUME BatchInv, Opened, NEW c \in Calls, CallInv(c), Walk(c)
  PROVE  CallInv(c)'
<1> DEFINE w == upstream[c]
           u == w.units[w.at]
           row == data.graph[u].upstream
           v == row[w.next]
<1>1. /\ pc[c] = "walk" /\ w.at <= Len(w.units)
      /\ UNCHANGED <<data, mode, object, index, terminal, meta, units, refined, lost>>
  BY DEF Walk
<1>2. WalkInv(c) /\ DOMAIN upstream = Calls
  BY <1>1 DEF CallInv, Walks, BatchInv, Domains
<1>3. ASSUME NEW z, upstream' = [upstream EXCEPT ![c] = z], UNCHANGED <<pc, result>>,
             upstream'[c] = z => WalkInv(c)'
      PROVE  CallInv(c)'
  BY <1>1, <1>2, <1>3, WalkOn
<1>4. CASE w.next > Len(row)
  <2>1. upstream' = [upstream EXCEPT ![c] = [w EXCEPT !.at = @ + 1, !.next = 1]] /\ UNCHANGED <<pc, result>>
    BY <1>4 DEF Walk
  <2>2. upstream'[c] = [w EXCEPT !.at = @ + 1, !.next = 1]
    BY <1>2, <2>1
  <2>3. WalkInv(c)'
    BY <1>1, <1>2, <1>4, <2>2, NextUnit
  <2> QED  BY <1>3, <2>1, <2>3
<1>5. CASE ~(w.next > Len(row))
  <2>1. /\ w.next <= Len(row) /\ v \in UpOf(u) /\ u \in DOMAIN data.graph
    <3>1. /\ w.next \in Nat \ {0} /\ Len(row) \in Nat /\ u \in DOMAIN data.graph
          /\ \A x : x \in UpOf(u) <=> \E i \in 1..Len(row) : x = row[i]
      BY <1>1, <1>2, Turning
    <3> DEFINE next == w.next
               last == Len(row)
    <3>2. next \in Nat \ {0} /\ last \in Nat /\ ~(next > last)
      BY <1>5, <3>1
    <3> HIDE DEF next, last
    <3>3. next <= last /\ next \in 1..last
      BY <3>2
    <3> QED  BY <3>1, <3>3 DEF next, last
  <2>2. CASE v \in Range(w.units)
    <3>1. upstream' = [upstream EXCEPT ![c] = [w EXCEPT !.next = @ + 1]] /\ UNCHANGED <<pc, result>>
      BY <1>5, <2>2 DEF Walk
    <3>2. upstream'[c] = [w EXCEPT !.next = @ + 1]
      BY <1>2, <3>1
    <3>3. WalkInv(c)'
      BY <1>1, <1>2, <2>1, <2>2, <3>2, NextFound
    <3> QED  BY <1>3, <3>1, <3>3
  <2>3. CASE v \notin Range(w.units)
    <3>1. v \in DOMAIN data.graph
      <4>1. \A x \in DOMAIN data.graph : UpOf(x) \subseteq DOMAIN data.graph
        BY DEF Opened, UpOf
      <4> HIDE DEF u, v
      <4> QED  BY <2>1, <4>1
    <3>2. upstream' = [upstream EXCEPT ![c] = Found(w, u, v)] /\ UNCHANGED <<pc, result>>
      BY <1>5, <2>3, <3>1 DEF Walk
    <3>3. upstream'[c] = Found(w, u, v)
      BY <1>2, <3>2
    <3>4. WalkInv(c)'
      BY <1>1, <1>2, <2>1, <2>3, <3>1, <3>3, NextNew
    <3> QED  BY <1>3, <3>2, <3>4
  <2> QED  BY <2>2, <2>3
<1> QED  BY <1>4, <1>5

LEMMA TraversedStep ==
  ASSUME BatchInv, Opened, NEW c \in Calls, CallInv(c), Traversed(c)
  PROVE  CallInv(c)'
<1> DEFINE ids == upstream[c].units
           stray == {n \in DOMAIN ids : LevelOf(ids[n]) # Finest}
<1>1. /\ UNCHANGED <<data, mode, object, index, terminal, upstream, meta, units, refined, lost>>
      /\ pc[c] = "walk" /\ upstream[c].at > Len(upstream[c].units)
      /\ Finest' = Finest /\ Alike' = Alike /\ \A u : LevelOf(u)' = LevelOf(u)
  BY DEF Traversed, calls, Finest, LevelOf, Alike
<1>2. WalkInv(c) /\ Resolved(c) /\ refined[c] = {}
  BY <1>1 DEF CallInv, Staged, Walks, Refines
<1>3. /\ DOMAIN ids = 1..Len(ids) /\ Len(ids) \in Nat \ {0} /\ ids[1] = terminal[c]
      /\ \A n \in DOMAIN ids : LevelOf(ids[n]) = LevelOf(terminal[c])
  <2>1. Order(c)
    BY <1>2 DEF WalkInv
  <2> QED  BY <2>1, WalkPlaces DEF Order
<1>4. CASE stray # {}
  <2>1. Fail(c, <<"level", ids[Min(stray)]>>)
    BY <1>4 DEF Traversed
  <2>2. LevelOf(terminal[c]) # Finest
    BY <1>3, <1>4
  <2>3. 1 \in stray /\ stray \in SUBSET Nat /\ \A n \in stray : n >= 1
    BY <1>3, <2>2
  <2>4. Min(stray) = 1
    <3> HIDE DEF stray
    <3>1. Min(stray) \in stray /\ Min(stray) <= 1
      BY <2>3, MinOfNats
    <3>2. Min(stray) \in Nat /\ Min(stray) >= 1
      BY <2>3, <3>1
    <3> QED  BY <3>1, <3>2
  <2>5. Relevelled(terminal[c])
    BY <1>2, <2>2, RelevelledBy DEF Resolved
  <2>6. terminal[c] \in Basin(terminal[c])
    BY <1>1, <1>2, Whole
  <2>7. CauseRead(c, <<"level", terminal[c]>>) /\ CauseMade(c, <<"level", terminal[c]>>)
    BY <2>5, <2>6 DEF CauseRead, CauseMade
  <2>8. Fail(c, <<"level", terminal[c]>>)
    BY <1>3, <2>1, <2>4
  <2> QED  BY <1>1, <2>7, <2>8, FailedFor
<1>5. CASE stray = {}
  <2>1. pc' = [pc EXCEPT ![c] = "metadata"] /\ result' = result
    BY <1>5 DEF Traversed, Goto
  <2>2. pc'[c] = "metadata"
    BY <2>1 DEF BatchInv, Domains
  <2>3. WalkInv(c)'
    BY <1>1, <1>2, SameWalk
  <2>4. LevelOf(terminal[c]) = Finest
    BY <1>3, <1>5
  <2>5. Staged(c)'
    BY <1>1, <2>2 DEF CallInv, Staged, Stages, Walked
  <2>6. Walks(c)' /\ Reads(c)' /\ Refines(c)' /\ Ends(c)'
    BY <1>1, <1>2, <2>2, <2>3, <2>4 DEF Walks, Walked, Reads, Joins, Refines, Ends
  <2> QED  BY <2>5, <2>6 DEF CallInv
<1> QED  BY <1>4, <1>5

(* A unit of the basin whose id is not read at any place of its row group  *)
(* has lost its place to another.                                          *)
LEMMA MissingDisplaced ==
  ASSUME BatchInv, Opened, NEW c, NEW columns, "id" \in columns, NEW at \in Mixes(columns),
         NEW u \in Wanted(c), u \in DOMAIN data.graph, u \notin Ids(at, Selected(c))
  PROVE  Displaced(u)
<1>1. PICK p \in RowPlaces, n \in Alike :
        data.uploads[n][p].id = u /\ data.groups[p] = index[u]
  BY DEF Opened
<1>2. p \in Selected(c)
  BY <1>1 DEF Selected, Opened
<1>3. Id(at, p) # u
  BY <1>2 DEF Ids
<1>4. PICK m \in Alike : From(at, p, "id") = data.uploads[m][p]
  BY ColumnRead
<1>5. data.uploads[m][p] \in Readable(u)
  BY <1>1, HeldRow
<1> QED  BY <1>3, <1>4, <1>5 DEF Displaced, Id

(* What is true of a call whose rows are read. *)
LEMMA InWalked ==
  ASSUME BatchInv, NEW c, CallInv(c), pc[c] \in Walked
  PROVE  /\ WalkInv(c) /\ upstream[c].at > Len(upstream[c].units)
         /\ Basin(terminal[c]) = Wanted(c) /\ Cardinality(Wanted(c)) = Len(upstream[c].units)
         /\ terminal[c] \in Wanted(c) /\ Wanted(c) \subseteq DOMAIN data.graph
         /\ LevelOf(terminal[c]) = Finest /\ \A u \in Wanted(c) : LevelOf(u) = Finest
<1>1. /\ WalkInv(c) /\ upstream[c].at > Len(upstream[c].units) /\ LevelOf(terminal[c]) = Finest
  BY DEF CallInv, Walks
<1> QED  BY <1>1, Whole

(* A selected place is in the row group of a unit of the basin.            *)
LEMMA RowCause ==
  ASSUME BatchInv, NEW c, Basin(terminal[c]) = Wanted(c), NEW columns, "geometry" \in columns,
         NEW at \in Mixes(columns), NEW p \in Selected(c), Shape(at, p).fault = "null"
  PROVE  CauseRead(c, <<"row", p>>) /\ CauseMade(c, <<"row", p>>)
<1>1. p \in RowPlaces /\ \E u \in Wanted(c) : index[u] = data.groups[p]
  BY DEF Selected
<1>2. PICK n \in Alike : From(at, p, "geometry") = data.uploads[n][p]
  BY <1>1, ColumnRead
<1>3. data.uploads[n][p].fault = "null"
  BY <1>2 DEF Shape
<1> QED  BY <1>1, <1>3 DEF CauseRead, CauseMade

LEMMA MetadataStep ==
  ASSUME BatchInv, Opened, NEW c \in Calls, CallInv(c), Metadata(c)
  PROVE  CallInv(c)'
<1>1. /\ UNCHANGED <<data, mode, object, index, terminal, upstream, units, refined, lost>>
      /\ pc[c] = "metadata" /\ Finest' = Finest /\ Alike' = Alike
      /\ \A u : LevelOf(u)' = LevelOf(u)
  BY DEF Metadata, Finest, LevelOf, Alike
<1>2. WalkInv(c) /\ upstream[c].at > Len(upstream[c].units) /\ refined[c] = {}
  BY <1>1 DEF CallInv, Walks, Walked, Refines
<1>3. /\ Basin(terminal[c]) = Wanted(c) /\ Wanted(c) \subseteq DOMAIN data.graph
      /\ LevelOf(terminal[c]) = Finest
  BY <1>1, InWalked DEF Walked
<1>4. Selected(c) \in SUBSET RowPlaces /\ Selected(c) \in SUBSET Nat
  BY AlikeRows DEF Selected
<1>5. ASSUME NEW at \in Mixes({"id", "level", "geometry"}),
             NEW refused, refused = {p \in Selected(c) : Shape(at, p).fault = "null"},
             refused # {}, Fail(c, <<"row", Min(refused)>>)
      PROVE  CallInv(c)'
  <2>1. Min(refused) \in refused
    <3>1. refused \in SUBSET Nat
      BY <1>4, <1>5
    <3> QED  BY <1>5, <3>1, MinOfNats
  <2>2. Min(refused) \in Selected(c) /\ Shape(at, Min(refused)).fault = "null"
    BY <1>5, <2>1
  <2>3. CauseRead(c, <<"row", Min(refused)>>) /\ CauseMade(c, <<"row", Min(refused)>>)
    BY <1>3, <2>2, RowCause
  <2> QED  BY <1>1, <1>5, <2>3, FailedFor
<1>6. ASSUME NEW at \in Mixes({"id", "level", "geometry"}), Goto(c, "geometry"),
             meta' = [meta EXCEPT ![c] =
               [u \in Wanted(c) \cap Ids(at, Selected(c)) |->
                  LevelAt(at, LastPlace(at, Selected(c), u))]]
      PROVE  CallInv(c)'
  <2>1. pc'[c] = "geometry" /\ refined'[c] = {}
    BY <1>1, <1>2, <1>6 DEF BatchInv, Domains, Goto
  <2>2. /\ DOMAIN meta'[c] = Wanted(c) \cap Ids(at, Selected(c))
        /\ \A u \in Wanted(c) \cap Ids(at, Selected(c)) :
             meta'[c][u] = LevelAt(at, LastPlace(at, Selected(c), u))
    BY <1>6 DEF BatchInv, Domains
  <2>3. ASSUME NEW u \in DOMAIN meta'[c] PROVE LevelRead(u, meta'[c][u])
    <3> DEFINE p == LastPlace(at, Selected(c), u)
    <3>1. p \in Selected(c) /\ Id(at, p) = u
      BY <1>4, <2>2, LastIsHeld
    <3>2. From(at, p, "level") \in Readable(u)
      BY <1>4, <3>1, RowRead
    <3>3. meta'[c][u] = From(at, p, "level").level
      BY <2>2 DEF LevelAt
    <3> QED  BY <3>2, <3>3 DEF LevelRead
  <2>4. ASSUME NEW u \in Wanted(c) \ DOMAIN meta'[c] PROVE Displaced(u)
    <3>1. u \in DOMAIN data.graph /\ u \notin Ids(at, Selected(c))
      BY <1>3, <2>2
    <3> QED  BY <3>1, MissingDisplaced
  <2>5. Metas(c)'
    <3>1. Wanted(c)' = Wanted(c)
      BY <1>1 DEF Wanted
    <3>2. \A u, lv : LevelRead(u, lv)' = LevelRead(u, lv)
      BY <1>1 DEF LevelRead, Readable, RowPlaces
    <3>3. \A u : Displaced(u)' = Displaced(u)
      BY <1>1 DEF Displaced, Readable, RowPlaces
    <3> QED  BY <2>3, <2>4, <3>1, <3>2, <3>3 DEF Metas
  <2>6. WalkInv(c)'
    BY <1>1, <1>2, SameWalk
  <2>7. Staged(c)'
    BY <1>1, <2>1 DEF CallInv, Staged, Stages, Walked
  <2>8. Walks(c)' /\ Reads(c)' /\ Refines(c)' /\ Ends(c)'
    BY <1>1, <1>2, <1>3, <2>1, <2>5, <2>6 DEF Walks, Walked, Reads, Joins, Refines, Ends
  <2> QED  BY <2>7, <2>8 DEF CallInv
<1>7. \E at \in Mixes({"id", "level", "geometry"}) :
        LET refused == {p \in Selected(c) : Shape(at, p).fault = "null"} IN
        \/ refused # {} /\ Fail(c, <<"row", Min(refused)>>)
        \/ /\ meta' = [meta EXCEPT ![c] =
                [u \in Wanted(c) \cap Ids(at, Selected(c)) |->
                   LevelAt(at, LastPlace(at, Selected(c), u))]]
           /\ Goto(c, "geometry")
  BY DEF Metadata
<1> QED  BY <1>5, <1>6, <1>7

-----------------------------------------------------------------------------
(* The second query.                                                       *)

(* A unit that cannot be joined: another upload has taken its place, or    *)
(* has given it another level.                                             *)
LEMMA MisfitCause ==
  ASSUME BatchInv, Opened, NEW c, Metas(c), NEW found, NEW u \in Wanted(c), ~Fit(c, found, u),
         u \notin found => Displaced(u), LevelOf(u) = Finest, Basin(terminal[c]) = Wanted(c)
  PROVE  CauseRead(c, Misfit(c, u)) /\ CauseMade(c, Misfit(c, u)) /\ Misfit(c, u) # << >>
<1>1. CASE u \in DOMAIN meta[c] /\ meta[c][u] # Finest
  <2>1. Misfit(c, u) = <<"level", u>>
    BY <1>1 DEF Misfit
  <2>2. LevelRead(u, meta[c][u])
    BY <1>1 DEF Metas
  <2>3. Relevelled(u)
    BY <1>1, <2>2, RelevelledBy
  <2> QED  BY <2>1, <2>3 DEF CauseRead, CauseMade
<1>2. CASE ~(u \in DOMAIN meta[c] /\ meta[c][u] # Finest)
  <2>1. Misfit(c, u) = <<"fetch", u>>
    BY <1>2 DEF Misfit
  <2>2. u \notin DOMAIN meta[c] \/ u \notin found
    BY <1>2 DEF Fit
  <2>3. Displaced(u)
    BY <2>2 DEF Metas
  <2> QED  BY <2>1, <2>3 DEF CauseRead, CauseMade
<1> QED  BY <1>1, <1>2

LEMMA FaultyCause ==
  ASSUME BatchInv, NEW c, Basin(terminal[c]) = Wanted(c), NEW at \in Mixes({"id", "geometry"}),
         NEW p \in Selected(c), Id(at, p) \in Wanted(c), Shape(at, p).fault # "none"
  PROVE  CauseRead(c, Faulty(at, p)) /\ CauseMade(c, Faulty(at, p)) /\ Faulty(at, p) # << >>
<1>1. CASE Shape(at, p).fault = "null"
  <2>1. Faulty(at, p) = <<"row", p>>
    BY <1>1 DEF Faulty
  <2>2. CauseRead(c, <<"row", p>>) /\ CauseMade(c, <<"row", p>>)
    BY <1>1, RowCause
  <2> QED  BY <2>1, <2>2
<1>2. CASE Shape(at, p).fault # "null"
  <2>1. Faulty(at, p) = <<"decode", Id(at, p)>>
    BY <1>2 DEF Faulty
  <2>2. p \in RowPlaces
    BY DEF Selected
  <2>3. PICK n \in Alike : From(at, p, "geometry") = data.uploads[n][p]
    BY <2>2, ColumnRead
  <2>4. Shape(at, p).fault = "wkb"
    BY <1>2, <2>2, <2>3, AlikeRows DEF Shape
  <2>5. Shape(at, p) \in Readable(Id(at, p))
    BY <2>2, RowRead DEF Shape
  <2> QED  BY <2>1, <2>4, <2>5 DEF CauseRead, CauseMade
<1> QED  BY <1>1, <1>2

LEMMA JoinedStep ==
  ASSUME BatchInv, NEW c \in Calls, Metas(c), NEW at \in Mixes({"id", "geometry"}),
         NEW got \in SUBSET RowPlaces, \A u \in Wanted(c) : Fit(c, Ids(at, got), u),
         units' = [units EXCEPT ![c] =
           [u \in Wanted(c) |-> Shape(at, LastPlace(at, got, u)).cells]],
         UNCHANGED <<data, object, upstream>>
  PROVE  Joined(c)'
<1>1. /\ DOMAIN units'[c] = Wanted(c)
      /\ \A u \in Wanted(c) : units'[c][u] = Shape(at, LastPlace(at, got, u)).cells
  BY DEF BatchInv, Domains
<1>2. ASSUME NEW u \in Wanted(c)
      PROVE  CellsRead(u, units'[c][u]) /\ LevelRead(u, Finest)
  <2> DEFINE p == LastPlace(at, got, u)
  <2>1. u \in Ids(at, got) /\ u \in DOMAIN meta[c] /\ meta[c][u] = Finest
    BY DEF Fit
  <2>2. p \in got /\ Id(at, p) = u
    BY <2>1, LastIsHeld
  <2>3. Shape(at, p) \in Readable(u)
    BY <2>2, RowRead DEF Shape
  <2>4. CellsRead(u, units'[c][u])
    BY <1>1, <2>3 DEF CellsRead
  <2>5. LevelRead(u, Finest)
    BY <2>1 DEF Metas
  <2> QED  BY <2>4, <2>5
<1>3. Wanted(c)' = Wanted(c) /\ Finest' = Finest
  BY DEF Wanted, Finest, LevelOf
<1>4. \A u, x : LevelRead(u, x)' = LevelRead(u, x) /\ CellsRead(u, x)' = CellsRead(u, x)
  BY DEF LevelRead, CellsRead, Readable, RowPlaces, Alike
<1> QED  BY <1>1, <1>2, <1>3, <1>4 DEF Joined

LEMMA GeometryStep ==
  ASSUME BatchInv, Opened, NEW c \in Calls, CallInv(c), Geometry(c)
  PROVE  CallInv(c)'
<1> DEFINE ids == upstream[c].units
           next == CASE mode[c] = "reaches" -> "reaches"
                     [] mode[c] = "units" -> "collect"
                     [] OTHER -> "refine"
<1>1. /\ UNCHANGED <<data, mode, object, index, terminal, upstream, meta, refined, lost>>
      /\ pc[c] = "geometry" /\ Finest' = Finest /\ Alike' = Alike
      /\ \A u : LevelOf(u)' = LevelOf(u)
  BY DEF Geometry, Finest, LevelOf, Alike
<1>2. WalkInv(c) /\ refined[c] = {} /\ upstream[c].at > Len(upstream[c].units) /\ Metas(c)
  BY <1>1 DEF CallInv, Walks, Walked, Reads, Refines
<1>3. /\ Basin(terminal[c]) = Wanted(c) /\ Wanted(c) \subseteq DOMAIN data.graph
      /\ LevelOf(terminal[c]) = Finest /\ \A u \in Wanted(c) : LevelOf(u) = Finest
  BY <1>1, InWalked DEF Walked
<1>4. /\ DOMAIN ids = 1..Len(ids) /\ Len(ids) \in Nat
      /\ \A u : u \in Wanted(c) <=> \E n \in 1..Len(ids) : u = ids[n]
  <2>1. Order(c)
    BY <1>2 DEF WalkInv
  <2> QED  BY <2>1, WalkPlaces DEF Wanted
<1>5. PICK at \in Mixes({"id", "geometry"}) :
        LET got == {p \in Selected(c) : Id(at, p) \in Wanted(c)}
            faulty == {p \in got : Shape(at, p).fault # "none"}
            unfit == {n \in DOMAIN ids : ~Fit(c, Ids(at, got), ids[n])}
        IN \/ faulty # {} /\ Fail(c, Faulty(at, Min(faulty)))
           \/ unfit # {} /\ Fail(c, Misfit(c, ids[Min(unfit)]))
           \/ /\ unfit = {} /\ Goto(c, next)
              /\ units' = [units EXCEPT ![c] =
                   [u \in Wanted(c) |-> Shape(at, LastPlace(at, got, u)).cells]]
  BY DEF Geometry
<1> DEFINE got == {p \in Selected(c) : Id(at, p) \in Wanted(c)}
           faulty == {p \in got : Shape(at, p).fault # "none"}
           unfit == {n \in DOMAIN ids : ~Fit(c, Ids(at, got), ids[n])}
<1>6. got \subseteq Selected(c) /\ Selected(c) \in SUBSET RowPlaces /\ RowPlaces \in SUBSET Nat
  BY AlikeRows DEF Selected
<1>7. ASSUME faulty # {}, Fail(c, Faulty(at, Min(faulty))) PROVE CallInv(c)'
  <2>1. faulty \in SUBSET Nat
    BY <1>6
  <2>2. PICK p : p = Min(faulty) /\ p \in faulty
    BY <1>7, <2>1, MinOfNats
  <2>3. p \in Selected(c) /\ Id(at, p) \in Wanted(c) /\ Shape(at, p).fault # "none"
    BY <2>2
  <2>4. CauseRead(c, Faulty(at, p)) /\ CauseMade(c, Faulty(at, p)) /\ Faulty(at, p) # << >>
    BY <1>3, <2>3, FaultyCause
  <2>5. Fail(c, Faulty(at, p))
    BY <1>7, <2>2
  <2> QED  BY <1>1, <2>4, <2>5, FailedFor
<1>8. ASSUME unfit # {}, Fail(c, Misfit(c, ids[Min(unfit)])) PROVE CallInv(c)'
  <2>1. unfit \in SUBSET Nat
    BY <1>4
  <2>2. Min(unfit) \in unfit
    BY <1>8, <2>1, MinOfNats
  <2>3. PICK u : u = ids[Min(unfit)] /\ u \in Wanted(c) /\ ~Fit(c, Ids(at, got), u)
    BY <1>4, <2>2
  <2>4. u \notin Ids(at, got) => u \notin Ids(at, Selected(c))
    BY <2>3 DEF Ids
  <2> HIDE DEF got
  <2>5. u \notin Ids(at, got) => Displaced(u)
    BY <1>3, <2>3, <2>4, MissingDisplaced
  <2>6. CauseRead(c, Misfit(c, u)) /\ CauseMade(c, Misfit(c, u)) /\ Misfit(c, u) # << >>
    BY <1>2, <1>3, <2>3, <2>5, MisfitCause
  <2>7. Fail(c, Misfit(c, u))
    BY <1>8, <2>3
  <2> QED  BY <1>1, <2>6, <2>7, FailedFor
<1>9. ASSUME unfit = {}, Goto(c, next),
             units' = [units EXCEPT ![c] =
               [u \in Wanted(c) |-> Shape(at, LastPlace(at, got, u)).cells]]
      PROVE  CallInv(c)'
  <2>1. pc'[c] = next
    BY <1>9 DEF BatchInv, Domains, Goto
  <2>2. \A u \in Wanted(c) : Fit(c, Ids(at, got), u)
    BY <1>4, <1>9
  <2>3. got \in SUBSET RowPlaces
    BY <1>6
  <2>4. Joined(c)'
    <3> HIDE DEF got
    <3> QED  BY <1>1, <1>2, <1>9, <2>2, <2>3, JoinedStep
  <2>5. WalkInv(c)'
    BY <1>1, <1>2, SameWalk
  <2>6. /\ next \in {"reaches", "collect", "refine"}
        /\ next = "reaches" => mode[c] = "reaches"
        /\ next = "collect" => mode[c] = "units"
        /\ next = "refine" => mode[c] \in Refining
    <3>1. mode[c] \in Refining \cup {"units", "reaches"}
      BY Typed
    <3> QED  BY <3>1
  <2> HIDE DEF next
  <2>7. Staged(c)'
    BY <1>1, <2>1, <2>6 DEF CallInv, Staged, Stages, Walked, Joins
  <2>8. Walks(c)' /\ Reads(c)' /\ Ends(c)'
    BY <1>1, <1>2, <1>3, <2>1, <2>4, <2>5, <2>6 DEF Walks, Walked, Reads, Joins, Ends
  <2>9. Refines(c)'
    BY <1>1, <1>2, <2>1, <2>6 DEF Refines, Refining
  <2> QED  BY <2>7, <2>8, <2>9 DEF CallInv
<1> QED  BY <1>5, <1>7, <1>8, <1>9

(* A read that is lost is a cause of its own. *)
LEMMA LoseReadStep ==
  ASSUME BatchInv, NEW c \in Calls, LoseRead(c)
  PROVE  CallInv(c)'
<1>1. c \in lost' /\ object' = object /\ Alike' = Alike
  BY DEF LoseRead, Alike
<1>2. c \in Lossy \/ Alike' # 1..object'
  BY <1>1 DEF LoseRead
<1>3. ASSUME NEW e, Fail(c, e), e # << >>, e[1] \in {"fetch", "reach query"}
      PROVE  CallInv(c)'
  <2>1. result'[c].error = e
    BY <1>3 DEF BatchInv, Domains, Fail
  <2>2. CauseRead(c, e)' /\ CauseMade(c, e)'
    BY <1>1, <1>3 DEF CauseRead, CauseMade
  <2>3. Excused(c)'
    BY <1>2, <2>1, <2>2 DEF Excused
  <2> QED  BY <1>3, <2>3, FailStep
<1>4. Fail(c, <<"fetch", terminal[c]>>) => CallInv(c)'
  BY <1>3
<1>5. Fail(c, <<"reach query">>) => CallInv(c)'
  BY <1>3
<1> QED  BY <1>4, <1>5 DEF LoseRead

(* A refined terminal is a part of the whole one.                          *)
LEMMA RefineStep ==
  ASSUME BatchInv, Opened, NEW c \in Calls, CallInv(c), Refine(c)
  PROVE  CallInv(c)'
<1>1. /\ UNCHANGED <<data, mode, object, index, terminal, upstream, meta, units, lost>>
      /\ pc[c] = "refine" /\ Finest' = Finest /\ Alike' = Alike
      /\ \A u : LevelOf(u)' = LevelOf(u)
  BY DEF Refine, Finest, LevelOf, Alike
<1>2. /\ WalkInv(c) /\ refined[c] = {} /\ upstream[c].at > Len(upstream[c].units)
      /\ Joined(c) /\ mode[c] \in Refining /\ LevelOf(terminal[c]) = Finest
  BY <1>1 DEF CallInv, Walks, Walked, Joins, Reads, Refines
<1>3. ASSUME Fail(c, <<"refinement">>), mode[c] = "require_d8"
      PROVE  CallInv(c)'
  <2>1. CauseRead(c, <<"refinement">>) /\ CauseMade(c, <<"refinement">>)
    BY <1>3 DEF CauseRead, CauseMade
  <2> QED  BY <1>1, <1>3, <2>1, FailedFor
<1>4. ASSUME Goto(c, "dissolve"), refined'[c] \subseteq units[c][terminal[c]],
             mode[c] = "require_d8" => refined'[c] # {}
      PROVE  CallInv(c)'
  <2>1. pc'[c] = "dissolve"
    BY <1>4 DEF BatchInv, Domains, Goto
  <2>2. WalkInv(c)' /\ Joined(c)'
    <3>1. WalkInv(c)'
      BY <1>1, <1>2, SameWalk
    <3>2. \A u, x : LevelRead(u, x)' = LevelRead(u, x) /\ CellsRead(u, x)' = CellsRead(u, x)
      BY <1>1 DEF LevelRead, CellsRead, Readable, RowPlaces
    <3> QED  BY <1>1, <1>2, <3>1, <3>2 DEF Joined, Wanted
  <2>3. Staged(c)'
    BY <1>1, <2>1 DEF CallInv, Staged, Stages, Walked, Joins
  <2>4. Walks(c)' /\ Reads(c)' /\ Ends(c)'
    BY <1>1, <1>2, <2>1, <2>2 DEF Walks, Walked, Reads, Joins, Ends
  <2>5. Refines(c)'
    BY <1>1, <1>2, <1>4, <2>1 DEF Refines, Refining
  <2> QED  BY <2>3, <2>4, <2>5 DEF CallInv
<1>5. ASSUME NEW part \in (SUBSET units[c][terminal[c]]) \ {{}},
             refined' = [refined EXCEPT ![c] = part], Goto(c, "dissolve")
      PROVE  CallInv(c)'
  <2>1. refined'[c] = part
    BY <1>5 DEF BatchInv, Domains
  <2> QED  BY <1>4, <1>5, <2>1
<1>6. ASSUME mode[c] # "require_d8", Goto(c, "dissolve"), UNCHANGED refined
      PROVE  CallInv(c)'
  <2>1. refined'[c] = {}
    BY <1>2, <1>6
  <2>2. refined'[c] \subseteq units[c][terminal[c]]
    BY <2>1
  <2> QED  BY <1>4, <1>6, <2>2
<1>7. \/ \E part \in (SUBSET units[c][terminal[c]]) \ {{}} :
            refined' = [refined EXCEPT ![c] = part] /\ Goto(c, "dissolve")
      \/ mode[c] = "require_d8" /\ Fail(c, <<"refinement">>)
      \/ mode[c] # "require_d8" /\ Goto(c, "dissolve") /\ UNCHANGED refined
  BY DEF Refine
<1> QED  BY <1>3, <1>5, <1>6, <1>7

-----------------------------------------------------------------------------
(* A call that answers.                                                    *)
LEMMA LenOfMap ==
  ASSUME NEW n \in Nat, NEW f, f = [i \in 1..n |-> f[i]]
  PROVE  Len(f) = n /\ DOMAIN f = 1..n /\ Range(f) = {f[i] : i \in 1..n}
<1>1. DOMAIN f = 1..n
  OBVIOUS
<1>2. Len(f) = n
  BY <1>1
<1> QED  BY <1>1, <1>2 DEF Range

LEMMA MembersDrain ==
  ASSUME BatchInv, NEW c, CallInv(c), pc[c] \in Joins
  PROVE  LET basin == Basin(terminal[c])
             m == Members(c)
         IN /\ {x.id : x \in Range(m)} = basin /\ Len(m) = Cardinality(basin)
            /\ m[1].id = terminal[c]
            /\ \A u \in basin : LevelOf(u) = Finest /\ LevelRead(u, Finest)
            /\ \A n \in 2..Len(m) :
                 /\ m[n].downstream \in {m[k].id : k \in 1..(n - 1)}
                 /\ m[n].id \in Range(data.graph[m[n].downstream].upstream)
<1> DEFINE basin == Basin(terminal[c])
           m == Members(c)
           ids == upstream[c].units
           len == Len(ids)
<1>1. /\ basin = Wanted(c) /\ Cardinality(basin) = len
      /\ WalkInv(c) /\ \A u \in basin : LevelOf(u) = Finest
  BY InWalked DEF Walked
<1>2. Order(c) /\ Drains(c)
  BY <1>1 DEF WalkInv
<1>3. /\ len \in Nat \ {0} /\ DOMAIN ids = 1..len
      /\ \A v : v \in basin <=> \E n \in 1..len : v = ids[n]
  <2>1. /\ len \in Nat \ {0} /\ DOMAIN ids = 1..len
        /\ \A v : v \in Range(ids) <=> \E n \in 1..len : v = ids[n]
    BY <1>2, WalkPlaces
  <2>2. basin = Range(ids)
    BY <1>1 DEF Wanted
  <2> HIDE DEF basin, ids, len
  <2> QED  BY <2>1, <2>2
<1>4. ids[1] = terminal[c] /\ \A i, j \in 1..len : ids[i] = ids[j] => i = j
  BY <1>2, <1>3 DEF Order
<1>5. m = [n \in 1..len |-> [id |-> ids[n],
             downstream |-> IF ids[n] = terminal[c] THEN None ELSE upstream[c].down[ids[n]]]]
  BY <1>3 DEF Members
<1>6. \A n \in 1..len : m[n].id = ids[n]
  BY <1>5
<1>7. \A n \in 1..len : ids[n] # terminal[c] => m[n].downstream = upstream[c].down[ids[n]]
  BY <1>5
<1>8. Len(m) = len /\ Range(m) = {m[n] : n \in 1..len}
  <2>1. m = [n \in 1..len |-> m[n]] /\ len \in Nat
    BY <1>3, <1>5
  <2> HIDE DEF m, len
  <2> QED  BY <2>1, LenOfMap
<1>9. \A u \in basin : LevelOf(u) = Finest /\ LevelRead(u, Finest)
  <2>1. Joined(c)
    BY DEF CallInv, Reads
  <2> QED  BY <1>1, <2>1 DEF Joined
<1>10. {x.id : x \in Range(m)} = basin
  <2> HIDE DEF m, len, ids, basin
  <2> QED  BY <1>3, <1>6, <1>8
<1>11. ASSUME NEW n \in 2..len
       PROVE  /\ m[n].downstream \in {m[k].id : k \in 1..(n - 1)}
              /\ m[n].id \in Range(data.graph[m[n].downstream].upstream)
  <2>1. n \in 1..len /\ n > 1 /\ 1 \in 1..len
    <3> HIDE DEF len
    <3> QED  BY <1>3
  <2>2. ids[n] # terminal[c]
    BY <1>4, <2>1
  <2>3. m[n].id = ids[n] /\ m[n].downstream = upstream[c].down[ids[n]]
    BY <1>6, <1>7, <2>1, <2>2
  <2>4. PICK k \in 1..(n - 1) : upstream[c].down[ids[n]] = ids[k]
    BY <1>2, <1>3, <2>1 DEF Drains
  <2>5. ids[n] \in Range(data.graph[upstream[c].down[ids[n]]].upstream)
    BY <1>2, <1>3, <2>1 DEF Drains, UpOf
  <2>6. k \in 1..len
    <3> HIDE DEF len
    <3> QED  BY <1>3, <2>1
  <2>7. m[k].id = ids[k]
    BY <1>6, <2>6
  <2> HIDE DEF m, ids
  <2> QED  BY <2>3, <2>4, <2>5, <2>7
<1>12. 1 \in 1..len /\ Len(m) = Cardinality(basin)
  BY <1>1, <1>3, <1>8
<1>13. m[1].id = terminal[c]
  BY <1>4, <1>6, <1>12
<1> HIDE DEF m, basin, len
<1> QED  BY <1>8, <1>9, <1>10, <1>11, <1>12, <1>13 DEF m, basin

LEMMA AnswerStep ==
  ASSUME BatchInv, NEW c \in Calls, CallInv(c), pc[c] \in Joins,
         UNCHANGED <<data, mode, object, index, terminal, upstream, lost>>,
         pc' = [pc EXCEPT ![c] = "done"], result'[c].error = << >>,
         result'[c].terminal = terminal[c], result'[c].units = Members(c),
         mode[c] \in Refining => CellsDrain(c)',
         mode[c] = "reaches" => ReachesDrain(c)'
  PROVE  CallInv(c)'
<1> DEFINE m == result'[c].units
           basin == Basin(terminal[c])
<1>1. /\ Basin(terminal[c])' = Basin(terminal[c]) /\ Finest' = Finest /\ Alike' = Alike
      /\ \A u : LevelOf(u)' = LevelOf(u) /\ Readable(u)' = Readable(u)
  BY DEF Basin, Finest, LevelOf, Alike, Readable, RowPlaces
<1>2. /\ {x.id : x \in Range(m)} = basin /\ Len(m) = Cardinality(basin)
      /\ m[1].id = terminal[c]
      /\ \A u \in basin : LevelOf(u) = Finest /\ LevelRead(u, Finest)
      /\ \A n \in 2..Len(m) :
           /\ m[n].downstream \in {m[k].id : k \in 1..(n - 1)}
           /\ m[n].id \in Range(data.graph[m[n].downstream].upstream)
  <2> DEFINE n0 == Members(c)
  <2>1. /\ {x.id : x \in Range(n0)} = Basin(terminal[c]) /\ Len(n0) = Cardinality(Basin(terminal[c]))
        /\ n0[1].id = terminal[c]
        /\ \A u \in Basin(terminal[c]) : LevelOf(u) = Finest /\ LevelRead(u, Finest)
        /\ \A n \in 2..Len(n0) :
             /\ n0[n].downstream \in {n0[k].id : k \in 1..(n - 1)}
             /\ n0[n].id \in Range(data.graph[n0[n].downstream].upstream)
    BY MembersDrain
  <2>2. m = n0
    OBVIOUS
  <2> HIDE DEF m, n0
  <2> QED  BY <2>1, <2>2
<1>3. UnitsDrain(c)'
  <2>1. data' = data /\ terminal' = terminal /\ result'[c].terminal = terminal[c]
    OBVIOUS
  <2> HIDE DEF m, basin
  <2>2. \A u \in basin : LevelOf(u)' = Finest' /\ \E row \in Readable(u)' : row.level = Finest'
    BY <1>1, <1>2, <2>1 DEF LevelRead
  <2>3. \A n \in 2..Len(m) :
          /\ m[n].downstream \in {m[k].id : k \in 1..(n - 1)}
          /\ m[n].id \in Range(data'.graph[m[n].downstream].upstream)
    BY <1>2, <2>1
  <2>4. basin = Basin(terminal[c])' /\ m[1].id = terminal'[c] /\ result'[c].terminal = terminal'[c]
    BY <1>1, <1>2, <2>1 DEF basin
  <2>5. m = result'[c].units
    BY DEF m
  <2> QED  BY <1>2, <2>2, <2>3, <2>4, <2>5 DEF UnitsDrain
<1>4. Answers(c)'
  BY <1>3 DEF Answers, Refining
<1>5. Verdict(c)' /\ pc'[c] = "done"
  BY <1>4 DEF Verdict, BatchInv, Domains
<1>6. c \in lost' => c \in Lossy \/ Alike' # 1..object'
  BY <1>1 DEF CallInv, Staged
<1> QED  BY <1>5, <1>6, EndStep

LEMMA CollectStep ==
  ASSUME BatchInv, NEW c \in Calls, CallInv(c), Collect(c)
  PROVE  CallInv(c)'
<1>1. /\ UNCHANGED <<data, mode, object, index, terminal, upstream, lost>>
      /\ pc[c] = "collect" /\ pc' = [pc EXCEPT ![c] = "done"]
  BY DEF Collect, calls
<1>2. pc[c] \in Joins /\ mode[c] = "units"
  BY <1>1 DEF CallInv, Joins, Refines
<1>3. result'[c] = [error |-> << >>, terminal |-> terminal[c], units |-> Members(c)]
  BY DEF Collect, BatchInv, Domains
<1>4. result'[c].error = << >> /\ result'[c].terminal = terminal[c] /\ result'[c].units = Members(c)
  BY <1>3
<1>5. mode[c] \notin Refining /\ mode[c] # "reaches"
  BY <1>2 DEF Refining
<1> QED  BY <1>1, <1>2, <1>4, <1>5, AnswerStep

(* Two areas that share a cell have bounds that meet.                      *)
LEMMA BoundsOfArea ==
  ASSUME NEW cells, Area(cells), NEW p \in cells
  PROVE  LET b == Bounds(cells)
         IN /\ p[1] \in Int /\ p[2] \in Int
            /\ b.west \in Int /\ b.east \in Int /\ b.south \in Int /\ b.north \in Int
            /\ b.west <= p[1] /\ p[1] <= b.east /\ b.south <= p[2] /\ p[2] <= b.north
<1> DEFINE X == {q[1] : q \in cells}
           Y == {q[2] : q \in cells}
           E == {q[1] + 1 : q \in cells}
           N == {q[2] + 1 : q \in cells}
<1>1. cells \subseteq Int \X Int /\ IsFiniteSet(cells)
  BY DEF Area
<1>2. /\ X \in SUBSET Int /\ Y \in SUBSET Int /\ p[1] \in X /\ p[2] \in Y
      /\ E \in SUBSET Int /\ N \in SUBSET Int /\ p[1] + 1 \in E /\ p[2] + 1 \in N
  BY <1>1
<1>3. IsFiniteSet(X) /\ IsFiniteSet(Y) /\ IsFiniteSet(E) /\ IsFiniteSet(N)
  <2>1. [q \in cells |-> q[1]] \in Surjection(cells, X)
    BY DEF Surjection
  <2>2. [q \in cells |-> q[2]] \in Surjection(cells, Y)
    BY DEF Surjection
  <2>3. [q \in cells |-> q[1] + 1] \in Surjection(cells, E)
    BY DEF Surjection
  <2>4. [q \in cells |-> q[2] + 1] \in Surjection(cells, N)
    BY DEF Surjection
  <2> HIDE DEF X, Y, E, N
  <2> QED  BY <1>1, <2>1, <2>2, <2>3, <2>4, FS_Surjection
<1> HIDE DEF X, Y, E, N
<1>4. p[1] \in Int /\ p[2] \in Int
  BY <1>2
<1>5. Min(X) \in Int /\ Min(X) <= p[1] /\ Max(E) \in Int /\ p[1] + 1 <= Max(E)
  BY <1>2, <1>3, FiniteBounds
<1>6. Min(Y) \in Int /\ Min(Y) <= p[2] /\ Max(N) \in Int /\ p[2] + 1 <= Max(N)
  BY <1>2, <1>3, FiniteBounds
<1>7. Bounds(cells) = [west |-> Min(X), east |-> Max(E), south |-> Min(Y), north |-> Max(N)]
  BY DEF Bounds, X, Y, E, N
<1> DEFINE b == Bounds(cells)
<1>8. b.west = Min(X) /\ b.east = Max(E) /\ b.south = Min(Y) /\ b.north = Max(N)
  BY <1>7
<1> HIDE DEF b
<1>9. /\ p[1] \in Int /\ p[2] \in Int
      /\ b.west \in Int /\ b.east \in Int /\ b.south \in Int /\ b.north \in Int
      /\ b.west <= p[1] /\ p[1] <= b.east /\ b.south <= p[2] /\ p[2] <= b.north
  BY <1>4, <1>5, <1>6, <1>8
<1> QED  BY <1>9 DEF b

LEMMA SharedMeet ==
  ASSUME NEW a, NEW b, Area(a), Area(b), NEW p \in a \cap b
  PROVE  Meet(Bounds(a), Bounds(b))
<1> DEFINE A == Bounds(a)
           B == Bounds(b)
<1>1. /\ p[1] \in Int /\ p[2] \in Int
      /\ A.west \in Int /\ A.east \in Int /\ A.south \in Int /\ A.north \in Int
      /\ A.west <= p[1] /\ p[1] <= A.east /\ A.south <= p[2] /\ p[2] <= A.north
  BY BoundsOfArea
<1>2. /\ B.west \in Int /\ B.east \in Int /\ B.south \in Int /\ B.north \in Int
      /\ B.west <= p[1] /\ p[1] <= B.east /\ B.south <= p[2] /\ p[2] <= B.north
  BY BoundsOfArea
<1> HIDE DEF A, B
<1>3. A.west <= B.east /\ B.west <= A.east
  BY <1>1, <1>2
<1>4. A.south <= B.north /\ B.south <= A.north
  BY <1>1, <1>2
<1> QED  BY <1>3, <1>4 DEF Meet, A, B

(* The joined geometries are those of the basin, each as a read may have   *)
(* got it.                                                                 *)
LEMMA JoinedUnits ==
  ASSUME BatchInv, NEW c, CallInv(c), pc[c] \in Joins
  PROVE  /\ DOMAIN units[c] = Basin(terminal[c]) /\ terminal[c] \in Basin(terminal[c])
         /\ Basin(terminal[c]) \in SUBSET Int /\ IsFiniteSet(Basin(terminal[c]))
         /\ \A u \in Basin(terminal[c]) :
              Area(units[c][u]) /\ \E row \in Readable(u) : row.cells = units[c][u]
<1>1. /\ Basin(terminal[c]) = Wanted(c) /\ terminal[c] \in Wanted(c)
      /\ Wanted(c) \in SUBSET DOMAIN data.graph
  BY InWalked DEF Walked
<1>2. DOMAIN data.graph \subseteq Int /\ IsFiniteSet(DOMAIN data.graph)
  BY Typed DEF Dataset
<1>3. IsFiniteSet(Wanted(c)) /\ Wanted(c) \in SUBSET Int
  BY <1>1, <1>2, FS_Subset
<1>4. Joined(c)
  BY DEF CallInv, Reads
<1>5. ASSUME NEW u \in Wanted(c)
      PROVE  Area(units[c][u]) /\ \E row \in Readable(u) : row.cells = units[c][u]
  <2>1. PICK row \in Readable(u) : row.cells = units[c][u]
    BY <1>4 DEF Joined, CellsRead
  <2>2. PICK n \in Alike, p \in RowPlaces : row = data.uploads[n][p]
    BY DEF Readable
  <2>3. Area(row.cells)
    BY <2>2, AlikeRows
  <2> QED  BY <2>1, <2>3
<1> QED  BY <1>1, <1>3, <1>4, <1>5 DEF Joined

LEMMA DissolveStep ==
  ASSUME BatchInv, NEW c \in Calls, CallInv(c), Dissolve(c)
  PROVE  CallInv(c)'
<1> DEFINE basin == Basin(terminal[c])
           empty == {u \in DOMAIN units[c] : Pieces(c)[u] = {}}
           cells == UNION {Pieces(c)[u] : u \in DOMAIN units[c]}
<1>1. /\ UNCHANGED <<data, mode, object, index, terminal, upstream, meta, units, refined, lost>>
      /\ pc[c] = "dissolve"
  BY DEF Dissolve, calls
<1>2. /\ pc[c] \in Joins
      /\ mode[c] \in Refining /\ refined[c] \subseteq units[c][terminal[c]]
      /\ mode[c] = "require_d8" => refined[c] # {}
  BY <1>1 DEF CallInv, Joins, Refines
<1>3. /\ DOMAIN units[c] = basin /\ terminal[c] \in basin
      /\ basin \in SUBSET Int /\ IsFiniteSet(basin)
      /\ \A u \in basin : \E row \in Readable(u) : row.cells = units[c][u]
  BY <1>2, JoinedUnits
<1> HIDE DEF basin
<1>4. \A u \in basin : /\ Pieces(c)[u] \subseteq units[c][u]
                       /\ u # terminal[c] => Pieces(c)[u] = units[c][u]
                       /\ Pieces(c)[u] = {} => units[c][u] = {}
                       /\ u = terminal[c] /\ refined[c] # {} => Pieces(c)[u] = refined[c]
  BY <1>2, <1>3 DEF Pieces
<1>5. ASSUME empty # {}, Fail(c, <<"assembly", Min(empty)>>)
      PROVE  CallInv(c)'
  <2>1. empty \in SUBSET Int /\ empty \in SUBSET basin
    BY <1>3
  <2>2. IsFiniteSet(empty)
    BY <1>3, <2>1, FS_Subset
  <2> HIDE DEF empty
  <2>3. PICK u \in empty : u = Min(empty)
    BY <1>5, <2>1, <2>2, FiniteBounds
  <2>4. u \in basin /\ units[c][u] = {}
    BY <1>3, <1>4, <2>1, <2>3 DEF empty
  <2>5. \E row \in Readable(u) : row.cells = {}
    BY <1>3, <2>4
  <2>6. CauseRead(c, <<"assembly", u>>) /\ CauseMade(c, <<"assembly", u>>)
    BY <2>4, <2>5 DEF CauseRead, CauseMade, basin
  <2> QED  BY <1>1, <1>5, <2>3, <2>6, FailedFor
<1>6. ASSUME pc' = [pc EXCEPT ![c] = "done"],
             result' = [result EXCEPT ![c] =
               [error |-> << >>, terminal |-> terminal[c], units |-> Members(c),
                applied |-> refined[c] # {}, cells |-> cells]]
      PROVE  CallInv(c)'
  <2> DEFINE r == result'[c]
  <2>1. r = [error |-> << >>, terminal |-> terminal[c], units |-> Members(c),
             applied |-> refined[c] # {}, cells |-> cells]
    BY <1>6 DEF BatchInv, Domains
  <2>2. /\ r.error = << >> /\ r.terminal = terminal[c] /\ r.units = Members(c)
        /\ r.applied = (refined[c] # {}) /\ r.cells = cells
    BY <2>1
  <2>3. \A p : p \in cells <=> \E u \in basin : p \in Pieces(c)[u]
    BY <1>3
  <2> HIDE DEF r, cells
  <2>4. mode[c] = "require_d8" => r.applied
    BY <1>2, <2>2
  <2>5. \A p \in r.cells : \E u \in basin : \E row \in Readable(u) : p \in row.cells
    <3>1. SUFFICES ASSUME NEW p \in cells
                   PROVE  \E u \in basin : \E row \in Readable(u) : p \in row.cells
      BY <2>2
    <3>2. PICK u \in basin : p \in units[c][u]
      BY <1>4, <2>3
    <3>3. PICK row \in Readable(u) : row.cells = units[c][u]
      BY <1>3
    <3> QED  BY <3>2, <3>3
  <2>6. \A u \in basin \ {terminal[c]} : \E row \in Readable(u) : row.cells \subseteq r.cells
    <3>1. SUFFICES ASSUME NEW u \in basin \ {terminal[c]}
                   PROVE  \E row \in Readable(u) : row.cells \subseteq cells
      BY <2>2
    <3>2. PICK row \in Readable(u) : row.cells = units[c][u]
      BY <1>3
    <3>3. Pieces(c)[u] = units[c][u]
      BY <1>4
    <3> QED  BY <2>3, <3>2, <3>3
  <2>7. r.applied => \A p \in r.cells \ refined[c] :
          \E u \in basin \ {terminal[c]} : \E row \in Readable(u) : p \in row.cells
    <3>1. SUFFICES ASSUME refined[c] # {}, NEW p \in cells \ refined[c]
                   PROVE  \E u \in basin \ {terminal[c]} : \E row \in Readable(u) : p \in row.cells
      BY <2>2
    <3>2. PICK u \in basin : p \in Pieces(c)[u]
      BY <2>3
    <3>3. u # terminal[c]
      BY <1>4, <3>1, <3>2
    <3>4. p \in units[c][u]
      BY <1>4, <3>2
    <3>5. PICK row \in Readable(u) : row.cells = units[c][u]
      BY <1>3
    <3> QED  BY <3>3, <3>4, <3>5
  <2>8. CellsDrain(c)'
    <3>1. /\ Basin(terminal[c])' = basin /\ \A u : Readable(u)' = Readable(u)
          /\ mode'[c] = mode[c] /\ refined'[c] = refined[c] /\ terminal'[c] = terminal[c]
      BY <1>1 DEF Basin, Readable, RowPlaces, Alike, basin
    <3>2. \A p \in r.cells : \E u \in basin : \E row \in Readable(u)' : p \in row.cells
      BY <2>5, <3>1
    <3>3. \A u \in basin \ {terminal'[c]} : \E row \in Readable(u)' : row.cells \subseteq r.cells
      BY <2>6, <3>1
    <3>4. r.applied => \A p \in r.cells \ refined'[c] :
            \E u \in basin \ {terminal'[c]} : \E row \in Readable(u)' : p \in row.cells
      BY <2>7, <3>1
    <3>5. mode'[c] = "require_d8" => r.applied
      BY <2>4, <3>1
    <3> QED  BY <3>1, <3>2, <3>3, <3>4, <3>5 DEF CellsDrain, r
  <2>9. mode[c] # "reaches"
    BY <1>2 DEF Refining
  <2>10. r.error = << >> /\ r.terminal = terminal[c] /\ r.units = Members(c)
    BY <2>2
  <2> QED  BY <1>1, <1>2, <1>6, <2>8, <2>9, <2>10, AnswerStep DEF r
<1> QED  BY <1>5, <1>6 DEF Dissolve

LEMMA SnapRows ==
  ASSUME BatchInv, data.snap # None
  PROVE  /\ DOMAIN data.snap.rows \in SUBSET Nat /\ IsFiniteSet(Range(data.snap.rows))
         /\ \A n \in DOMAIN data.snap.rows : data.snap.rows[n] \in Range(data.snap.rows)
         /\ \A s \in Range(data.snap.rows) : Area(s.cells)
<1>1. data.snap.rows \in Seq(Range(data.snap.rows)) /\ \A s \in Range(data.snap.rows) : Area(s.cells)
  BY Typed DEF Dataset
<1> DEFINE snaps == data.snap.rows
           len == Len(snaps)
<1>2. len \in Nat /\ DOMAIN snaps = 1..len
  BY <1>1
<1>3. IsFiniteSet(1..len)
  BY <1>2, FS_Interval
<1>4. [n \in 1..len |-> snaps[n]] \in Surjection(1..len, Range(snaps))
  BY <1>2 DEF Surjection, Range
<1>5. IsFiniteSet(Range(snaps))
  BY <1>3, <1>4, FS_Surjection
<1>6. \A n \in DOMAIN snaps : snaps[n] \in Range(snaps)
  BY DEF Range
<1> QED  BY <1>1, <1>2, <1>5, <1>6

(* A row group is read if a row of it with a bbox is in the area.          *)
LEMMA GroupMet ==
  ASSUME BatchInv, data.snap # None, NEW area, Area(area),
         NEW s \in Range(data.snap.rows), s.boxed, NEW p \in s.cells \cap area
  PROVE  GroupRead(s.group, area)
<1> DEFINE boxed == {x \in Range(data.snap.rows) : x.group = s.group /\ x.boxed}
           all == {x.cells : x \in boxed}
<1>1. IsFiniteSet(boxed) /\ s \in boxed
  BY SnapRows, FS_Subset
<1>2. IsFiniteSet(all)
  <2>1. [x \in boxed |-> x.cells] \in Surjection(boxed, all)
    BY DEF Surjection
  <2> QED  BY <1>1, <2>1, FS_Surjection
<1>3. \A cells \in all : cells \subseteq Int \X Int /\ IsFiniteSet(cells)
  BY SnapRows DEF Area
<1>4. s.cells \in all
  BY <1>1
<1> DEFINE whole == UNION all
<1> HIDE DEF boxed, all
<1>5. IsFiniteSet(whole) /\ whole \subseteq Int \X Int
  BY <1>2, <1>3, FS_UNION
<1>6. Area(whole) /\ p \in whole \cap area
  BY <1>4, <1>5 DEF Area
<1> HIDE DEF whole
<1>7. Meet(Bounds(whole), Bounds(area))
  BY <1>6, SharedMeet
<1> QED  BY <1>7 DEF GroupRead, whole, all, boxed

(* A snap in the area is found, or else it is overlooked.                  *)
LEMMA InArea ==
  ASSUME BatchInv, data.snap # None, NEW area, Area(area), NEW n \in DOMAIN data.snap.rows,
         data.snap.rows[n].cells \cap area # {}
  PROVE  n \in SnapsFound(area) \/ Overlooked(data.snap.rows[n], area)
<1> DEFINE s == data.snap.rows[n]
<1>1. s \in Range(data.snap.rows) /\ Area(s.cells)
  BY SnapRows
<1>2. PICK p : p \in s.cells \cap area
  OBVIOUS
<1>3. Near(s, area)
  BY <1>1, <1>2, SharedMeet DEF Near
<1>4. ASSUME GroupRead(s.group, area) PROVE n \in SnapsFound(area)
  BY <1>3, <1>4 DEF SnapsFound, SnapsRead
<1>5. CASE s.boxed
  BY <1>1, <1>2, <1>4, <1>5, GroupMet
<1>6. ASSUME ~s.boxed, NEW x \in Range(data.snap.rows), x.group = s.group, x.boxed,
             NEW q \in x.cells \cap area
      PROVE  n \in SnapsFound(area)
  BY <1>4, <1>6, GroupMet
<1>7. ASSUME ~\E x \in Range(data.snap.rows) : x.group = s.group /\ x.boxed
      PROVE  n \in SnapsFound(area)
  BY <1>4, <1>7 DEF GroupRead
<1> HIDE DEF s
<1>8. CASE ~s.boxed
  BY <1>6, <1>7, <1>8 DEF Overlooked, s
<1> QED  BY <1>5, <1>8 DEF s

LEMMA ReachesStep ==
  ASSUME BatchInv, NEW c \in Calls, CallInv(c), Reaches(c)
  PROVE  CallInv(c)'
<1> DEFINE basin == Basin(terminal[c])
           area == UNION Range(units[c])
           found == {n \in SnapsFound(area) : data.snap.rows[n].unit \in DOMAIN units[c]}
           points == {n \in found : data.snap.rows[n].fault = "point"}
<1>1. /\ UNCHANGED <<data, mode, object, index, terminal, upstream, meta, units, refined, lost>>
      /\ pc[c] = "reaches"
  BY DEF Reaches, calls
<1>2. pc[c] \in Joins /\ mode[c] = "reaches" /\ mode[c] \notin Refining
  BY <1>1 DEF CallInv, Joins, Refines, Refining
<1>3. /\ DOMAIN units[c] = basin /\ IsFiniteSet(basin)
      /\ \A u \in basin : Area(units[c][u])
  BY <1>2, JoinedUnits
<1>4. Area(area)
  <2>1. [u \in basin |-> units[c][u]] \in Surjection(basin, Range(units[c]))
    BY <1>3 DEF Surjection, Range
  <2>2. IsFiniteSet(Range(units[c]))
    BY <1>3, <2>1, FS_Surjection
  <2>3. \A cells \in Range(units[c]) : cells \subseteq Int \X Int /\ IsFiniteSet(cells)
    BY <1>3 DEF Range, Area
  <2>4. IsFiniteSet(area)
    BY <2>2, <2>3, FS_UNION
  <2> QED  BY <2>3, <2>4 DEF Area
<1> HIDE DEF basin, area
<1>5. Fail(c, <<"no snap">>) => CallInv(c)'
  <2>1. CauseRead(c, <<"no snap">>) /\ CauseMade(c, <<"no snap">>)
    BY DEF CauseRead, CauseMade
  <2> QED  BY <1>1, <2>1, FailedFor
<1>6. ASSUME HasSnaps, SnapsRefused(area) # {}, Fail(c, <<"reach query", Min(SnapsRefused(area))>>)
      PROVE  CallInv(c)'
  <2>1. SnapsRefused(area) \in SUBSET Nat
    BY <1>6, SnapRows DEF SnapsRefused, SnapsRead, HasSnaps
  <2>2. PICK n \in SnapsRefused(area) : n = Min(SnapsRefused(area))
    BY <1>6, <2>1, MinOfNats
  <2>3. data.snap.rows[n].fault \in {"corrupt", "value"}
    BY DEF SnapsRefused
  <2>4. CauseRead(c, <<"reach query", n>>) /\ CauseMade(c, <<"reach query", n>>)
    BY <2>3 DEF CauseRead, CauseMade
  <2> QED  BY <1>1, <1>6, <2>2, <2>4, FailedFor
<1>7. ASSUME HasSnaps, points # {}, Fail(c, <<"reach", Min(points)>>)
      PROVE  CallInv(c)'
  <2>1. points \in SUBSET Nat
    BY <1>7, SnapRows DEF SnapsFound, SnapsRead, HasSnaps
  <2>2. PICK n \in points : n = Min(points)
    BY <1>7, <2>1, MinOfNats
  <2>3. data.snap.rows[n].fault = "point" /\ data.snap.rows[n].unit \in basin
    BY <1>3, <2>2
  <2>4. CauseRead(c, <<"reach", n>>) /\ CauseMade(c, <<"reach", n>>)
    BY <2>3 DEF CauseRead, CauseMade, basin
  <2> QED  BY <1>1, <1>7, <2>2, <2>4, FailedFor
<1>8. ASSUME NEW reaches, Reached(c, reaches),
             \A n \in DOMAIN data.snap.rows :
               LET s == data.snap.rows[n] IN
               /\ n \in reaches => s.unit \in basin
               /\ s.unit \in basin /\ s.cells \cap area # {} =>
                    n \in reaches \/ Overlooked(s, area)
      PROVE  CallInv(c)'
  <2> DEFINE r == result'[c]
  <2>1. /\ r = [error |-> << >>, terminal |-> terminal[c], units |-> Members(c), reaches |-> reaches]
        /\ pc' = [pc EXCEPT ![c] = "done"]
    BY <1>8 DEF Reached, BatchInv, Domains
  <2>2. r.error = << >> /\ r.terminal = terminal[c] /\ r.units = Members(c) /\ r.reaches = reaches
    BY <2>1
  <2>3. ReachesDrain(c)'
    <3>1. /\ Basin(terminal[c])' = basin /\ data' = data
          /\ terminal'[c] = terminal[c] /\ units'[c] = units[c]
      BY <1>1 DEF Basin, basin
    <3> HIDE DEF r
    <3>2. \A n \in DOMAIN data.snap.rows :
            LET s == data.snap.rows[n] IN
            /\ n \in r.reaches => s.unit \in basin
            /\ s.unit \in basin /\ s.cells \cap UNION Range(units[c]) # {} =>
                 \/ n \in r.reaches
                 \/ /\ ~s.boxed /\ \E x \in Range(data.snap.rows) : x.group = s.group /\ x.boxed
                    /\ \A x \in Range(data.snap.rows) :
                         x.group = s.group /\ x.boxed => x.cells \cap UNION Range(units[c]) = {}
      BY <1>8, <2>2 DEF area, Overlooked
    <3> QED  BY <3>1, <3>2 DEF ReachesDrain, Overlooked, r
  <2>4. r.error = << >> /\ r.terminal = terminal[c] /\ r.units = Members(c)
    BY <2>2
  <2> QED  BY <1>1, <1>2, <2>1, <2>3, <2>4, AnswerStep DEF r
<1>9. ASSUME area = {}, Reached(c, {})
      PROVE  CallInv(c)'
  BY <1>8, <1>9
<1>10. ASSUME HasSnaps, Reached(c, found)
       PROVE  CallInv(c)'
  <2>1. ASSUME NEW n \in DOMAIN data.snap.rows
        PROVE  LET s == data.snap.rows[n] IN
               /\ n \in found => s.unit \in basin
               /\ s.unit \in basin /\ s.cells \cap area # {} => n \in found \/ Overlooked(s, area)
    BY <1>3, <1>4, <1>10, InArea DEF HasSnaps
  <2> HIDE DEF found
  <2> QED  BY <1>8, <1>10, <2>1
<1> QED  BY <1>5, <1>6, <1>7, <1>9, <1>10 DEF Reaches, area

-----------------------------------------------------------------------------
(* A step of a batch is one of these; exporting leaves the batch alone.    *)
LEMMA StageStep ==
  ASSUME BatchInv, Opened, NEW c \in Calls, CallInv(c), Stage(c)
  PROVE  CallInv(c)'
BY ResolveStep, BeginStep, WalkStep, TraversedStep, MetadataStep, GeometryStep, LoseReadStep,
   RefineStep, DissolveStep, CollectStep, ReachesStep DEF Stage

LEMMA StageEnabled ==
  ASSUME NEW c \in Calls, Stage(c)
  PROVE  pc[c] # "closed" /\ pc[c] # "done"
BY DEF Stage, Resolve, Begin, Walk, Traversed, Metadata, Geometry, LoseRead, Refine, Dissolve,
       Collect, Reaches

LEMMA CallsStep ==
  ASSUME BatchInv, NEW c \in Calls, Stage(c)
  PROVE  BatchInv'
<1>1. /\ UNCHANGED <<data, mode, object, index>> /\ lost \subseteq lost' /\ Domains'
      /\ \A d \in Calls \ {c} : d \in lost' => d \in lost
      /\ \A d \in Calls \ {c} : Own(d)' = Own(d)
  BY StageFrame
<1>2. object' \in Nat /\ object <= object'
  BY <1>1, Typed
<1>3. Running
  BY StageEnabled DEF BatchInv, Closed, Refused
<1>4. Opened'
  BY <1>1, <1>2, <1>3, OpenedKept DEF Running
<1>5. ASSUME NEW d \in Calls PROVE CallInv(d)'
  <2>1. CASE d = c
    BY <1>3, <2>1, StageStep DEF Running
  <2>2. CASE d # c
    BY <1>1, <1>2, <1>3, <2>2, Kept DEF Running
  <2> QED  BY <2>1, <2>2
<1>6. Running'
  BY <1>4, <1>5 DEF Running
<1> QED  BY <1>1, <1>3, <1>6 DEF BatchInv

LEMMA BatchStep ==
  ASSUME BatchInv, [WatershedNext]_vars
  PROVE  BatchInv'
<1>1. BatchNext \/ UNCHANGED batchVars
  BY DEF WatershedNext, ExportBatch, vars
<1>2. ASSUME BatchNext PROVE BatchInv'
  BY <1>2, OpenStep, RefuseStep, OverwriteStep, CallsStep DEF BatchNext
<1> QED  BY <1>1, <1>2, OverwriteStep

(* A batch of Engine::delineate_batch, on any dataset, in any interleaving *)
(* of its calls and however the catchment file is overwritten meanwhile,   *)
(* keeps its invariant: an open session, walks that have found what must   *)
(* be found, rows that reads of the uploads so far may have got, and       *)
(* verdicts that hold.                                                     *)
THEOREM BatchInvariant == Spec => []BatchInv
<1>1. WatershedInit => BatchInv
  BY InitBatch DEF WatershedInit
<1>2. BatchInv /\ [WatershedNext]_vars => BatchInv'
  BY BatchStep
<1> QED  BY <1>1, <1>2, PTL DEF Spec

(* Every call ends with the watershed of its outlet, or with an error that *)
(* has a cause, on any dataset, however the catchment file is overwritten  *)
(* and its reads mix the uploads, and whatever snaps are refused.          *)
THEOREM ResultsAreWatershedsHolds == Spec => []ResultsAreWatersheds
<1>1. BatchInv => ResultsAreWatersheds
  <2> SUFFICES ASSUME BatchInv, NEW c \in Calls, pc[c] = "done" PROVE Verdict(c)
    BY DEF ResultsAreWatersheds, Verdict
  <2>1. CASE Refused
    <3>1. result[c].error = <<"integrity">>
      BY <2>1 DEF Refused
    <3>2. Excused(c)
      BY <2>1, <3>1 DEF Excused, CauseRead, CauseMade, Refused
    <3> QED  BY <3>1, <3>2 DEF Verdict
  <2>2. ASSUME Running PROVE Verdict(c)
    BY <2>2 DEF Running, CallInv, Ends
  <2>3. ~Closed
    BY DEF Closed
  <2> QED  BY <2>1, <2>2, <2>3 DEF BatchInv
<1> QED  BY <1>1, BatchInvariant, PTL

-----------------------------------------------------------------------------
(* The curve.  Its layers are functions of the bits, each made of the last; *)
(* that there are such functions is shown of the least number of bits that  *)
(* would have none, and then that their places are integers.                *)

Doubled(f, n) == f = [k \in 0..n |-> IF k = 0 THEN 1 ELSE 2 * f[k - 1]]

LEMMA DoubledExists ==
  ASSUME NEW n \in Nat
  PROVE  \E f : Doubled(f, n)
<1> DEFINE Missing == {m \in Nat : ~\E f : Doubled(f, m)}
<1>1. Missing = {}
  <2> SUFFICES ASSUME Missing # {} PROVE FALSE
    OBVIOUS
  <2>1. PICK m \in Missing : \A j \in Missing : m <= j
    <3>1. Missing \in SUBSET Nat
      OBVIOUS
    <3> HIDE DEF Missing
    <3> QED  BY <3>1, LeastNatural
  <2>2. m \in Nat /\ ~\E f : Doubled(f, m)
    BY <2>1
  <2>3. m # 0
    <3> DEFINE f == [k \in {0} |-> 1]
    <3>1. Doubled(f, 0)
      <4>1. 0..0 = {0}
        OBVIOUS
      <4> QED  BY <4>1 DEF Doubled
    <3> QED  BY <2>2, <3>1
  <2>4. PICK f : Doubled(f, m - 1)
    BY <2>1, <2>2, <2>3
  <2> DEFINE g == [k \in 0..m |-> IF k = m THEN 2 * f[m - 1] ELSE f[k]]
  <2>5. Doubled(g, m)
    <3>1. ASSUME NEW k \in 0..m PROVE g[k] = IF k = 0 THEN 1 ELSE 2 * g[k - 1]
      <4>1. CASE k = m
        <5>1. g[k - 1] = f[m - 1] /\ k # 0
          BY <2>2, <2>3, <4>1
        <5> QED  BY <4>1, <5>1
      <4>2. CASE k # m
        <5>1. k \in 0..(m - 1)
          BY <2>2, <4>2
        <5>2. f[k] = IF k = 0 THEN 1 ELSE 2 * f[k - 1]
          BY <2>4, <5>1 DEF Doubled
        <5>3. k # 0 => g[k - 1] = f[k - 1]
          BY <2>2, <5>1
        <5> QED  BY <4>2, <5>1, <5>2, <5>3
      <4> QED  BY <4>1, <4>2
    <3> HIDE DEF g
    <3>2. [k \in 0..m |-> g[k]] = [k \in 0..m |-> IF k = 0 THEN 1 ELSE 2 * g[k - 1]]
      BY <3>1
    <3>3. g = [k \in 0..m |-> g[k]]
      BY DEF g
    <3> QED  BY <3>2, <3>3 DEF Doubled
  <2> QED  BY <2>2, <2>5
<1> QED  BY <1>1

LEMMA SideIs ==
  /\ Export!Side[0] = 1
  /\ \A k \in 1..Bits : Export!Side[k] = 2 * Export!Side[k - 1]
<1>1. Bits \in Nat \ {0}
  BY WatershedExportAssumption DEF Export!ExportAssumption
<1>2. Doubled(Export!Side, Bits)
  <2>1. \E f : Doubled(f, Bits)
    BY <1>1, DoubledExists
  <2> QED  BY <2>1 DEF Doubled, Export!Side
<1> DEFINE side == Export!Side
<1>3. \A k \in 0..Bits : side[k] = IF k = 0 THEN 1 ELSE 2 * side[k - 1]
  BY <1>2 DEF Doubled
<1> HIDE DEF side
<1>4. side[0] = 1 /\ \A k \in 1..Bits : side[k] = 2 * side[k - 1]
  BY <1>1, <1>3
<1> QED  BY <1>4 DEF side

LEMMA SideType == \A k \in 0..Bits : Export!Side[k] \in Nat \ {0}
<1> DEFINE side == Export!Side
           Odd == {k \in 0..Bits : side[k] \notin Nat \ {0}}
<1>1. Bits \in Nat \ {0}
  BY WatershedExportAssumption DEF Export!ExportAssumption
<1>2. side[0] = 1 /\ \A k \in 1..Bits : side[k] = 2 * side[k - 1]
  BY SideIs
<1> HIDE DEF side
<1>3. Odd = {}
  <2> SUFFICES ASSUME Odd # {} PROVE FALSE
    OBVIOUS
  <2>1. PICK k \in Odd : \A j \in Odd : k <= j
    <3>1. Odd \in SUBSET Nat
      BY <1>1
    <3> HIDE DEF Odd
    <3> QED  BY <3>1, LeastNatural
  <2>2. k \in 0..Bits /\ side[k] \notin Nat \ {0} /\ k # 0
    BY <1>2, <2>1
  <2>3. k - 1 \in 0..Bits /\ k - 1 \notin Odd /\ k \in 1..Bits
    BY <1>1, <2>1, <2>2
  <2>4. side[k - 1] \in Nat \ {0} /\ side[k] = 2 * side[k - 1]
    BY <1>2, <2>3
  <2> QED  BY <2>2, <2>4
<1> QED  BY <1>3 DEF side

Quarter(last, k, p) ==
  LET half == Export!Side[k - 1] IN
  CASE p[1] < half /\ p[2] < half -> last[<<p[2], p[1]>>]
    [] p[1] < half /\ p[2] >= half -> half * half + last[<<p[1], p[2] - half>>]
    [] p[1] >= half /\ p[2] >= half -> 2 * half * half + last[<<p[1] - half, p[2] - half>>]
    [] OTHER -> 3 * half * half + last[<<half - 1 - p[2], half - 1 - (p[1] - half)>>]

Layer(last, k) == [p \in Export!Square(k) |-> IF k = 0 THEN 0 ELSE Quarter(last, k, p)]

Layered(f, n) == f = [k \in 0..n |-> Layer(f[k - 1], k)]

LEMMA LayeredExists ==
  ASSUME NEW n \in Nat
  PROVE  \E f : Layered(f, n)
<1> DEFINE Missing == {m \in Nat : ~\E f : Layered(f, m)}
<1>1. Missing = {}
  <2> SUFFICES ASSUME Missing # {} PROVE FALSE
    OBVIOUS
  <2>1. PICK m \in Missing : \A j \in Missing : m <= j
    <3>1. Missing \in SUBSET Nat
      OBVIOUS
    <3> HIDE DEF Missing
    <3> QED  BY <3>1, LeastNatural
  <2>2. m \in Nat /\ ~\E f : Layered(f, m)
    BY <2>1
  <2>3. \A x, y : Layer(x, 0) = Layer(y, 0)
    BY DEF Layer
  <2>4. m # 0
    <3> DEFINE f == [k \in {0} |-> Layer(0, 0)]
    <3>1. Layered(f, 0)
      <4>1. 0..0 = {0} /\ Layer(f[0 - 1], 0) = Layer(0, 0)
        BY <2>3
      <4> HIDE DEF Layer
      <4>2. f = [k \in {0} |-> Layer(f[k - 1], k)]
        BY <4>1
      <4> QED  BY <4>1, <4>2 DEF Layered
    <3> QED  BY <2>2, <3>1
  <2>5. PICK f : Layered(f, m - 1)
    BY <2>1, <2>2, <2>4
  <2> DEFINE g == [k \in 0..m |-> IF k = m THEN Layer(f[m - 1], m) ELSE f[k]]
  <2>6. Layered(g, m)
    <3>1. ASSUME NEW k \in 0..m PROVE g[k] = Layer(g[k - 1], k)
      <4>1. CASE k = m
        <5>1. g[k - 1] = f[m - 1]
          BY <2>2, <2>4, <4>1
        <5> QED  BY <4>1, <5>1
      <4>2. CASE k # m
        <5>1. k \in 0..(m - 1)
          BY <2>2, <4>2
        <5>2. f[k] = Layer(f[k - 1], k)
          BY <2>5, <5>1 DEF Layered
        <5>3. k # 0 => g[k - 1] = f[k - 1]
          BY <2>2, <5>1
        <5>4. Layer(g[k - 1], k) = Layer(f[k - 1], k)
          <6>1. k = 0 => Layer(g[k - 1], k) = Layer(f[k - 1], k)
            BY <2>3
          <6> HIDE DEF g
          <6> QED  BY <5>3, <6>1
        <5> QED  BY <4>2, <5>1, <5>2, <5>4
      <4> QED  BY <4>1, <4>2
    <3> HIDE DEF g
    <3>2. [k \in 0..m |-> g[k]] = [k \in 0..m |-> Layer(g[k - 1], k)]
      BY <3>1
    <3>3. g = [k \in 0..m |-> g[k]]
      BY DEF g
    <3> QED  BY <3>2, <3>3 DEF Layered
  <2> QED  BY <2>2, <2>6
<1> QED  BY <1>1

LEMMA CurveIs ==
  \A k \in 0..Bits : Export!Curve[k] = Layer(Export!Curve[k - 1], k)
<1>1. Bits \in Nat \ {0}
  BY WatershedExportAssumption DEF Export!ExportAssumption
<1>2. Layered(Export!Curve, Bits)
  <2>1. \E f : Layered(f, Bits)
    BY <1>1, LayeredExists
  <2> QED  BY <2>1 DEF Layered, Layer, Quarter, Export!Curve
<1> DEFINE curve == Export!Curve
<1> HIDE DEF curve
<1>3. curve = [k \in 0..Bits |-> Layer(curve[k - 1], k)]
  BY <1>2 DEF Layered, curve
<1> HIDE DEF Layer
<1>4. \A k \in 0..Bits : curve[k] = Layer(curve[k - 1], k)
  BY <1>3
<1> QED  BY <1>4 DEF curve

LEMMA QuarterType ==
  ASSUME NEW k \in 1..Bits, NEW last \in [Export!Square(k - 1) -> Int], NEW p \in Export!Square(k)
  PROVE  Quarter(last, k, p) \in Int
<1> DEFINE half == Export!Side[k - 1]
           a == p[1]
           b == p[2]
<1>1. Bits \in Nat \ {0}
  BY WatershedExportAssumption DEF Export!ExportAssumption
<1>2. half \in Nat \ {0} /\ Export!Side[k] = 2 * half
  <2>1. k - 1 \in 0..Bits
    BY <1>1
  <2> QED  BY <2>1, SideType, SideIs
<1>3. a \in 0..((2 * half) - 1) /\ b \in 0..((2 * half) - 1)
  BY <1>2 DEF Export!Square
<1>4. \A x, y \in 0..(half - 1) : last[<<x, y>>] \in Int
  BY DEF Export!Square
<1> DEFINE Q == Quarter(last, k, p)
<1>5. Q = CASE a < half /\ b < half -> last[<<b, a>>]
            [] a < half /\ b >= half -> half * half + last[<<a, b - half>>]
            [] a >= half /\ b >= half -> 2 * half * half + last[<<a - half, b - half>>]
            [] OTHER -> 3 * half * half + last[<<half - 1 - b, half - 1 - (a - half)>>]
  BY DEF Quarter
<1> HIDE DEF Q, half, a, b
<1>6. half * half \in Int /\ 2 * half * half \in Int /\ 3 * half * half \in Int
  BY <1>2
<1>7. ASSUME a < half /\ b < half PROVE Q \in Int
  <2>1. a \in 0..(half - 1) /\ b \in 0..(half - 1)
    BY <1>2, <1>3, <1>7
  <2>2. Q = last[<<b, a>>]
    BY <1>2, <1>5, <1>7, <2>1
  <2>3. last[<<b, a>>] \in Int
    BY <1>4, <2>1, Zenon
  <2> QED  BY <2>2, <2>3
<1>8. ASSUME a < half /\ ~(b < half) PROVE Q \in Int
  <2>1. a \in 0..(half - 1) /\ b - half \in 0..(half - 1) /\ b >= half
    BY <1>2, <1>3, <1>8
  <2>2. Q = half * half + last[<<a, b - half>>]
    BY <1>2, <1>3, <1>5, <1>8
  <2>3. last[<<a, b - half>>] \in Int
    BY <1>4, <2>1, Zenon
  <2> QED  BY <1>6, <2>2, <2>3
<1>9. ASSUME ~(a < half) /\ ~(b < half) PROVE Q \in Int
  <2>1. a - half \in 0..(half - 1) /\ b - half \in 0..(half - 1) /\ b >= half /\ a >= half
    BY <1>2, <1>3, <1>9
  <2>2. Q = 2 * half * half + last[<<a - half, b - half>>]
    BY <1>5, <1>9, <2>1
  <2>3. last[<<a - half, b - half>>] \in Int
    BY <1>4, <2>1
  <2> QED  BY <1>6, <2>2, <2>3
<1>10. ASSUME ~(a < half) /\ b < half PROVE Q \in Int
  <2>1. half - 1 - b \in 0..(half - 1) /\ half - 1 - (a - half) \in 0..(half - 1) /\ ~(b >= half)
    BY <1>2, <1>3, <1>10
  <2>2. Q = 3 * half * half + last[<<half - 1 - b, half - 1 - (a - half)>>]
    BY <1>5, <1>10, <2>1
  <2>3. last[<<half - 1 - b, half - 1 - (a - half)>>] \in Int
    BY <1>4, <2>1
  <2> QED  BY <1>6, <2>2, <2>3
<1>11. Q \in Int
  BY <1>7, <1>8, <1>9, <1>10
<1> QED  BY <1>11 DEF Q

LEMMA CurveType == Export!Curve[Bits] \in [Export!Square(Bits) -> Int]
<1> DEFINE curve == Export!Curve
           Odd == {k \in 0..Bits : curve[k] \notin [Export!Square(k) -> Int]}
<1>1. Bits \in Nat \ {0}
  BY WatershedExportAssumption DEF Export!ExportAssumption
<1>2. \A k \in 0..Bits : curve[k] = Layer(curve[k - 1], k)
  BY CurveIs
<1> HIDE DEF curve
<1>3. Odd = {}
  <2> SUFFICES ASSUME Odd # {} PROVE FALSE
    OBVIOUS
  <2>1. PICK k \in Odd : \A j \in Odd : k <= j
    <3>1. Odd \in SUBSET Nat
      BY <1>1
    <3> HIDE DEF Odd
    <3> QED  BY <3>1, LeastNatural
  <2>2. k \in 0..Bits /\ curve[k] \notin [Export!Square(k) -> Int] /\ curve[k] = Layer(curve[k - 1], k)
    BY <1>2, <2>1
  <2>3. k # 0
    <3>1. Layer(curve[0 - 1], 0) \in [Export!Square(0) -> Int]
      BY DEF Layer
    <3> QED  BY <2>2, <3>1
  <2>4. k - 1 \in 0..Bits /\ k - 1 \notin Odd /\ k \in 1..Bits
    BY <1>1, <2>1, <2>2, <2>3
  <2>5. curve[k - 1] \in [Export!Square(k - 1) -> Int]
    BY <2>4
  <2>6. \A p \in Export!Square(k) : Quarter(curve[k - 1], k, p) \in Int
    BY <2>4, <2>5, QuarterType
  <2>7. Layer(curve[k - 1], k) \in [Export!Square(k) -> Int]
    BY <2>3, <2>6 DEF Layer
  <2> QED  BY <2>2, <2>7
<1>4. Bits \in 0..Bits
  BY <1>1
<1> QED  BY <1>3, <1>4 DEF curve

-----------------------------------------------------------------------------
(* Sums over cells, in the same way by the number of cells. *)

(* f sums, over subsets s of S of at most n cells. *)
Small(S, n) == {s \in SUBSET S : Cardinality(s) <= n}

Summand(p, axis) == (2 * (p[axis] - Low)) + 1

Summing(f, S, domain, axis) ==
  f = [s \in domain |-> IF s = {} THEN 0
                        ELSE LET p == CHOOSE q \in s : TRUE IN Summand(p, axis) + f[s \ {p}]]

LEMMA SummingExists ==
  ASSUME NEW S, IsFiniteSet(S), NEW axis
  PROVE  \A n \in Nat : \E f : Summing(f, S, Small(S, n), axis)
<1> DEFINE Missing == {m \in Nat : ~\E f : Summing(f, S, Small(S, m), axis)}
<1>1. \A s \in SUBSET S : /\ IsFiniteSet(s) /\ Cardinality(s) \in Nat /\ (Cardinality(s) = 0 <=> s = {})
                          /\ \A q \in s : Cardinality(s \ {q}) = Cardinality(s) - 1
  BY FS_Subset, FS_CardinalityType, FS_EmptySet, FS_RemoveElement
<1>2. Missing = {}
  <2> SUFFICES ASSUME Missing # {} PROVE FALSE
    OBVIOUS
  <2>1. PICK m \in Missing : \A j \in Missing : m <= j
    <3>1. Missing \in SUBSET Nat
      OBVIOUS
    <3> HIDE DEF Missing
    <3> QED  BY <3>1, LeastNatural
  <2>2. m \in Nat /\ ~\E f : Summing(f, S, Small(S, m), axis)
    BY <2>1
  <2>3. m # 0
    <3> DEFINE f == [s \in {{}} |-> 0]
    <3>1. Small(S, 0) = {{}}
      BY <1>1 DEF Small
    <3>2. Summing(f, S, {{}}, axis)
      BY DEF Summing
    <3> HIDE DEF f
    <3> QED  BY <2>2, <3>1, <3>2
  <2>4. PICK f : Summing(f, S, Small(S, m - 1), axis)
    BY <2>1, <2>2, <2>3
  <2> DEFINE Next(h, s) == IF s = {} THEN 0
                           ELSE LET p == CHOOSE q \in s : TRUE IN Summand(p, axis) + h[s \ {p}]
             g == [s \in Small(S, m) |-> Next(f, s)]
  <2>5. ASSUME NEW s \in Small(S, m) PROVE Next(f, s) = Next(g, s)
    <3>1. CASE s = {}
      BY <3>1
    <3>2. CASE s # {}
      <4> DEFINE p == CHOOSE q \in s : TRUE
      <4>1. p \in s
        BY <3>2
      <4>2. Cardinality(s \ {p}) = Cardinality(s) - 1 /\ Cardinality(s) <= m /\ Cardinality(s) \in Nat
        BY <1>1, <4>1 DEF Small
      <4>3. s \ {p} \in Small(S, m - 1) /\ s \ {p} \in Small(S, m)
        <5> HIDE DEF p
        <5>1. s \ {p} \in SUBSET S
          BY DEF Small
        <5>2. Cardinality(s \ {p}) <= m - 1 /\ Cardinality(s \ {p}) <= m
          BY <2>2, <4>2
        <5> QED  BY <5>1, <5>2 DEF Small
      <4>4. f[s \ {p}] = Next(f, s \ {p})
        BY <2>4, <4>3 DEF Summing
      <4>5. g[s \ {p}] = Next(f, s \ {p})
        BY <4>3
      <4> HIDE DEF g
      <4> QED  BY <4>4, <4>5
    <3> QED  BY <3>1, <3>2
  <2>6. Summing(g, S, Small(S, m), axis)
    <3>1. g = [s \in Small(S, m) |-> Next(g, s)]
      <4>1. [s \in Small(S, m) |-> Next(f, s)] = [s \in Small(S, m) |-> Next(g, s)]
        <5> HIDE DEF g, Next
        <5> QED  BY <2>5
      <4> QED  BY <4>1
    <3> HIDE DEF g
    <3> QED  BY <3>1 DEF Summing
  <2> QED  BY <2>2, <2>6
<1> QED  BY <1>2

LEMMA SumIs ==
  ASSUME NEW S, IsFiniteSet(S), NEW axis
  PROVE  \E f : /\ Summing(f, S, SUBSET S, axis)
                /\ Export!Middles(S, axis) = f[S]
<1>1. Small(S, Cardinality(S)) = SUBSET S /\ Cardinality(S) \in Nat
  BY FS_Subset, FS_CardinalityType DEF Small
<1>2. \E f : Summing(f, S, SUBSET S, axis)
  <2>1. \E f : Summing(f, S, Small(S, Cardinality(S)), axis)
    BY <1>1, SummingExists
  <2> QED  BY <1>1, <2>1
<1> DEFINE f == CHOOSE h : h = [s \in SUBSET S |->
                  IF s = {} THEN 0
                  ELSE ((2 * ((CHOOSE q \in s : TRUE)[axis] - Low)) + 1) + h[s \ {CHOOSE q \in s : TRUE}]]
<1>3. Summing(f, S, SUBSET S, axis)
  BY <1>2 DEF Summing, Summand
<1>4. Export!Middles(S, axis) = f[S]
  BY DEF Export!Middles, Export!MapThenSumSet, Export!MapThenFoldSet
<1> QED  BY <1>3, <1>4

LEMMA SumType ==
  ASSUME NEW S, IsFiniteSet(S), NEW axis, \A p \in S : p[axis] \in Int
  PROVE  Export!Middles(S, axis) \in Int
<1>1. PICK f : /\ Summing(f, S, SUBSET S, axis)
               /\ Export!Middles(S, axis) = f[S]
  BY SumIs
<1> DEFINE Odd == {n \in Nat : \E s \in SUBSET S : Cardinality(s) = n /\ f[s] \notin Int}
<1>2. Odd = {}
  <2> SUFFICES ASSUME Odd # {} PROVE FALSE
    OBVIOUS
  <2>1. PICK n \in Odd : \A j \in Odd : n <= j
    <3>1. Odd \in SUBSET Nat
      OBVIOUS
    <3> HIDE DEF Odd
    <3> QED  BY <3>1, LeastNatural
  <2>2. PICK s \in SUBSET S : Cardinality(s) = n /\ f[s] \notin Int
    BY <2>1
  <2>3. f[s] = IF s = {} THEN 0
               ELSE LET p == CHOOSE q \in s : TRUE IN Summand(p, axis) + f[s \ {p}]
    BY <1>1 DEF Summing
  <2>4. s # {}
    BY <2>2, <2>3
  <2> DEFINE p == CHOOSE q \in s : TRUE
  <2>5. p \in s
    BY <2>4
  <2>6. f[s] = Summand(p, axis) + f[s \ {p}]
    BY <2>3, <2>4
  <2> HIDE DEF p
  <2>7. IsFiniteSet(s) /\ Cardinality(s) \in Nat
    BY FS_Subset, FS_CardinalityType
  <2>8. s \ {p} \in SUBSET S /\ Cardinality(s \ {p}) = n - 1 /\ n - 1 \in Nat
    <3>1. Cardinality(s \ {p}) = n - 1
      BY <2>2, <2>5, <2>7, FS_RemoveElement
    <3>2. n # 0
      BY <2>2, <2>5, <2>7, FS_EmptySet
    <3> QED  BY <2>2, <2>7, <3>1, <3>2
  <2>9. n - 1 \notin Odd
    BY <2>1, <2>8
  <2>10. f[s \ {p}] \in Int
    BY <2>8, <2>9
  <2>11. Summand(p, axis) \in Int
    <3>1. p[axis] \in Int /\ Low \in Int
      BY <2>5, WatershedExportAssumption DEF Export!ExportAssumption
    <3> QED  BY <3>1 DEF Summand
  <2> QED  BY <2>2, <2>6, <2>10, <2>11
<1>3. Cardinality(S) \in Nat
  BY FS_CardinalityType
<1> QED  BY <1>1, <1>2, <1>3

(* A centroid lies at a place of the curve. *)
LEMMA QuantizedType ==
  ASSUME NEW cells, IsFiniteSet(cells), cells # {}, NEW axis, \A p \in cells : p[axis] \in Int
  PROVE  Export!Quantized(cells, axis) \in 0..(Export!Side[Bits] - 1)
<1> DEFINE n == Cardinality(cells)
           over == 2 * n * Span
           twice == Export!Middles(cells, axis)
           clamped == IF twice < 0 THEN 0 ELSE IF twice > over THEN over ELSE twice
           top == Export!Side[Bits] - 1
<1>1. n \in Nat \ {0} /\ Span \in Nat \ {0}
  BY FS_CardinalityType, FS_EmptySet, WatershedExportAssumption DEF Export!ExportAssumption
<1>2. over \in Nat \ {0}
  <2>1. n * Span \in Nat \ {0}
    BY <1>1, Z3
  <2> QED  BY <1>1, <2>1
<1>3. top \in Nat
  <2>1. Bits \in 0..Bits
    BY WatershedExportAssumption DEF Export!ExportAssumption
  <2> QED  BY <2>1, SideType
<1>4. twice \in Int
  BY SumType
<1>5. Export!Quantized(cells, axis) = ((2 * (clamped * top)) + over) \div (2 * over)
  BY Same DEF Export!Quantized
<1> HIDE DEF n, over, twice, top
<1>6. clamped \in 0..over
  BY <1>2, <1>4
<1> HIDE DEF clamped
<1>7. ASSUME NEW o \in Nat \ {0}, NEW c \in 0..o, NEW t \in Nat
      PROVE  ((2 * (c * t)) + o) \div (2 * o) \in 0..t
  <2> DEFINE q == ((2 * (c * t)) + o) \div (2 * o)
             r == ((2 * (c * t)) + o) % (2 * o)
  <2>1. c * t \in Nat /\ o * t \in Nat /\ c * t <= o * t
    BY <1>7, Z3
  <2>2. q \in Int /\ r \in 0..((2 * o) - 1) /\ (2 * (c * t)) + o = ((2 * o) * q) + r
    <3>1. (2 * (c * t)) + o \in Int /\ 2 * o \in Nat \ {0}
      BY <1>7, <2>1
    <3> QED  BY <3>1, IntDivMod
  <2> HIDE DEF q, r
  <2>3. q >= 0
    <3> SUFFICES ASSUME q <= -1 PROVE FALSE
      BY <2>2
    <3>1. (2 * o) * q <= -(2 * o)
      BY <1>7, <2>2, Z3
    <3> QED  BY <1>7, <2>1, <2>2, <3>1
  <2>4. q <= t
    <3> SUFFICES ASSUME q >= t + 1 PROVE FALSE
      BY <2>2, <1>7
    <3>1. (2 * o) * q >= (2 * (o * t)) + (2 * o)
      BY <1>7, <2>2, Z3
    <3> QED  BY <1>7, <2>1, <2>2, <3>1
  <2> QED  BY <1>7, <2>2, <2>3, <2>4 DEF q
<1>8. Export!Quantized(cells, axis) \in 0..top
  BY <1>2, <1>3, <1>5, <1>6, <1>7
<1> QED  BY <1>8 DEF top

LEMMA HilbertType ==
  ASSUME NEW cells, Area(cells), cells # {}
  PROVE  Export!Hilbert(Export!Quantized(cells, 1), Export!Quantized(cells, 2)) \in Int
<1>1. IsFiniteSet(cells) /\ \A p \in cells : p[1] \in Int /\ p[2] \in Int
  BY DEF Area
<1>2. /\ Export!Quantized(cells, 1) \in 0..(Export!Side[Bits] - 1)
      /\ Export!Quantized(cells, 2) \in 0..(Export!Side[Bits] - 1)
  BY <1>1, QuantizedType
<1>3. <<Export!Quantized(cells, 1), Export!Quantized(cells, 2)>> \in Export!Square(Bits)
  BY <1>2 DEF Export!Square
<1> QED  BY <1>3, CurveType DEF Export!Hilbert

-----------------------------------------------------------------------------
(* Bounds. *)

(* An f32 bound lies less than one f32 outside of the value. *)
LEMMA Rounding ==
  ASSUME NEW v \in Int
  PROVE  /\ Export!RoundedDown(v) \in Int /\ v - Export!RoundedDown(v) \in 0..(Step - 1)
         /\ Export!RoundedUp(v) \in Int /\ Export!RoundedUp(v) - v \in 0..(Step - 1)
<1> DEFINE below == (v \div Step) * Step
           over == v - below
           near == Export!Nearest(v)
<1>1. Step \in Nat \ {0}
  BY WatershedExportAssumption DEF Export!ExportAssumption
<1>2. below \in Int /\ over \in 0..(Step - 1)
  <2>1. v \div Step \in Int /\ v % Step \in 0..(Step - 1) /\ v = (Step * (v \div Step)) + (v % Step)
    BY <1>1, IntDivMod
  <2>2. below = Step * (v \div Step)
    BY <1>1, <2>1
  <2>3. below \in Int
    BY <1>1, <2>1
  <2> DEFINE product == Step * (v \div Step)
             rest == v % Step
  <2> HIDE DEF below, product, rest
  <2>4. rest \in 0..(Step - 1) /\ v = product + rest /\ below = product
    BY <2>1, <2>2 DEF product, rest
  <2> QED  BY <1>1, <2>3, <2>4
<1>3. /\ near \in {below, below + Step} /\ (over = 0 => near = below)
  <2>1. near = IF 2 * over < Step \/ (2 * over = Step /\ (below \div Step) % 2 = 0)
               THEN below ELSE below + Step
    BY DEF Export!Nearest
  <2> HIDE DEF near, below, over
  <2> QED  BY <1>1, <1>2, <2>1
<1>4. Export!RoundedDown(v) = IF near <= v THEN near ELSE near - Step
  BY DEF Export!RoundedDown
<1>5. Export!RoundedUp(v) = IF near >= v THEN near ELSE near + Step
  BY DEF Export!RoundedUp
<1>6. v = below + over
  BY <1>2
<1> HIDE DEF near, below, over
<1>7. near \in Int
  BY <1>1, <1>2, <1>3
<1>8. Export!RoundedDown(v) = below
  BY <1>1, <1>2, <1>3, <1>4, <1>6
<1>9. Export!RoundedUp(v) = IF over = 0 THEN below ELSE below + Step
  BY <1>1, <1>2, <1>3, <1>5, <1>6
<1> QED  BY <1>1, <1>2, <1>6, <1>8, <1>9

(* A box goes from its least cell to its greatest. *)
LEMMA BoxIs ==
  ASSUME NEW cells, Area(cells), cells # {}
  PROVE  LET b == Export!Box(cells) IN
         /\ b.minx \in Int /\ b.maxx \in Int /\ b.miny \in Int /\ b.maxy \in Int
         /\ \A p \in cells : /\ p[1] \in Int /\ b.minx <= p[1] /\ p[1] + 1 <= b.maxx
                             /\ p[2] \in Int /\ b.miny <= p[2] /\ p[2] + 1 <= b.maxy
         /\ \E p \in cells : p[1] = b.minx
         /\ \E p \in cells : p[1] + 1 = b.maxx
         /\ \E p \in cells : p[2] = b.miny
         /\ \E p \in cells : p[2] + 1 = b.maxy
<1> DEFINE X == {q[1] : q \in cells}
           Y == {q[2] : q \in cells}
<1>1. cells \subseteq Int \X Int /\ IsFiniteSet(cells)
  BY DEF Area
<1>2. X \in SUBSET Int /\ Y \in SUBSET Int
  BY <1>1
<1>3. IsFiniteSet(X)
  <2>1. [q \in cells |-> q[1]] \in Surjection(cells, X)
    BY DEF Surjection
  <2> QED  BY <1>1, <2>1, FS_Surjection
<1>4. IsFiniteSet(Y)
  <2>1. [q \in cells |-> q[2]] \in Surjection(cells, Y)
    BY DEF Surjection
  <2> QED  BY <1>1, <2>1, FS_Surjection
<1>5. \A x \in X : Min(X) \in X /\ Max(X) \in X /\ Min(X) \in Int /\ Max(X) \in Int /\ Min(X) <= x /\ x <= Max(X)
  <2> HIDE DEF X
  <2> QED  BY <1>2, <1>3, FiniteBounds
<1>6. \A y \in Y : Min(Y) \in Y /\ Max(Y) \in Y /\ Min(Y) \in Int /\ Max(Y) \in Int /\ Min(Y) <= y /\ y <= Max(Y)
  <2> HIDE DEF Y
  <2> QED  BY <1>2, <1>4, FiniteBounds
<1> DEFINE b == Export!Box(cells)
<1>7. b = [minx |-> Min(X), maxx |-> Max(X) + 1, miny |-> Min(Y), maxy |-> Max(Y) + 1]
  BY Same DEF Export!Box
<1>8. PICK q \in cells : TRUE
  OBVIOUS
<1>9. /\ \A p \in cells : p[1] \in X /\ p[2] \in Y /\ p[1] \in Int /\ p[2] \in Int
      /\ \A x \in X : \E p \in cells : p[1] = x
      /\ \A y \in Y : \E p \in cells : p[2] = y
  BY <1>1
<1> HIDE DEF b, X, Y
<1>10. Min(X) \in X /\ Max(X) \in X /\ Min(X) \in Int /\ Max(X) \in Int
  BY <1>5, <1>8, <1>9
<1>11. Min(Y) \in Y /\ Max(Y) \in Y /\ Min(Y) \in Int /\ Max(Y) \in Int
  BY <1>6, <1>8, <1>9
<1>12. /\ b.minx = Min(X) /\ b.maxx = Max(X) + 1 /\ b.miny = Min(Y) /\ b.maxy = Max(Y) + 1
  BY <1>7
<1>13. /\ b.minx \in Int /\ b.maxx \in Int /\ b.miny \in Int /\ b.maxy \in Int
  BY <1>10, <1>11, <1>12
<1>14. ASSUME NEW p \in cells
       PROVE  /\ p[1] \in Int /\ b.minx <= p[1] /\ p[1] + 1 <= b.maxx
              /\ p[2] \in Int /\ b.miny <= p[2] /\ p[2] + 1 <= b.maxy
  <2>1. p[1] \in Int /\ Min(X) <= p[1] /\ p[1] <= Max(X)
    BY <1>5, <1>9
  <2>2. p[2] \in Int /\ Min(Y) <= p[2] /\ p[2] <= Max(Y)
    BY <1>6, <1>9
  <2> QED  BY <1>10, <1>11, <1>12, <2>1, <2>2
<1>15. /\ \E p \in cells : p[1] = b.minx
       /\ \E p \in cells : p[1] + 1 = b.maxx
  BY <1>9, <1>10, <1>12
<1>16. /\ \E p \in cells : p[2] = b.miny
       /\ \E p \in cells : p[2] + 1 = b.maxy
  BY <1>9, <1>11, <1>12
<1> QED  BY <1>13, <1>14, <1>15, <1>16 DEF b

(* The narrowed bounds hold the cells and waste less than one f32 a side. *)
LEMMA OutwardHolds ==
  ASSUME NEW cells, Area(cells), cells # {}
  PROVE  LET b == Export!Outward(Export!Box(cells)) IN
         /\ \A p \in cells : /\ b.minx <= p[1] /\ p[1] + 1 <= b.maxx
                             /\ b.miny <= p[2] /\ p[2] + 1 <= b.maxy
         /\ \E p \in cells : p[1] < b.minx + Step
         /\ \E p \in cells : p[1] + 1 > b.maxx - Step
         /\ \E p \in cells : p[2] < b.miny + Step
         /\ \E p \in cells : p[2] + 1 > b.maxy - Step
<1> DEFINE box == Export!Box(cells)
           b == Export!Outward(box)
<1>1. Step \in Nat \ {0}
  BY WatershedExportAssumption DEF Export!ExportAssumption
<1>2. /\ box.minx \in Int /\ box.maxx \in Int /\ box.miny \in Int /\ box.maxy \in Int
      /\ \A p \in cells : /\ p[1] \in Int /\ box.minx <= p[1] /\ p[1] + 1 <= box.maxx
                          /\ p[2] \in Int /\ box.miny <= p[2] /\ p[2] + 1 <= box.maxy
      /\ \E p \in cells : p[1] = box.minx
      /\ \E p \in cells : p[1] + 1 = box.maxx
      /\ \E p \in cells : p[2] = box.miny
      /\ \E p \in cells : p[2] + 1 = box.maxy
  BY BoxIs
<1>3. /\ b.minx = Export!RoundedDown(box.minx) /\ b.maxx = Export!RoundedUp(box.maxx)
      /\ b.miny = Export!RoundedDown(box.miny) /\ b.maxy = Export!RoundedUp(box.maxy)
  BY DEF Export!Outward
<1> HIDE DEF box, b
<1>4. /\ b.minx \in Int /\ box.minx - b.minx \in 0..(Step - 1)
      /\ b.miny \in Int /\ box.miny - b.miny \in 0..(Step - 1)
      /\ b.maxx \in Int /\ b.maxx - box.maxx \in 0..(Step - 1)
      /\ b.maxy \in Int /\ b.maxy - box.maxy \in 0..(Step - 1)
  BY <1>2, <1>3, Rounding
<1>5. \A p \in cells : /\ b.minx <= p[1] /\ p[1] + 1 <= b.maxx
                       /\ b.miny <= p[2] /\ p[2] + 1 <= b.maxy
  BY <1>1, <1>2, <1>4
<1>6. \E p \in cells : p[1] < b.minx + Step
  BY <1>1, <1>2, <1>4
<1>7. \E p \in cells : p[1] + 1 > b.maxx - Step
  BY <1>1, <1>2, <1>4
<1>8. \E p \in cells : p[2] < b.miny + Step
  BY <1>1, <1>2, <1>4
<1>9. \E p \in cells : p[2] + 1 > b.maxy - Step
  BY <1>1, <1>2, <1>4
<1> QED  BY <1>5, <1>6, <1>7, <1>8, <1>9 DEF b, box

-----------------------------------------------------------------------------
(* The rows of inputs that are in order. *)

Shapes == {c \in SUBSET (Int \X Int) : IsFiniteSet(c)}

InputType ==
  [id : Int, defaulted : BOOLEAN, origin : Calls, label : Int \cup {None}, terminal : Int,
   status : {"applied", "best_effort_skipped", "disabled"}, items : Seq([id : Int, cells : Shapes])]

InputsTyped == inputs \in Seq(InputType)

Clean == InputsTyped /\ inputs # << >> /\ \A n \in DOMAIN inputs : Export!Trouble(n) = None

Earlier(a, b) == a[1] < b[1] \/ (a[1] = b[1] /\ a[2] < b[2])

LEMMA PlacesAre ==
  ASSUME InputsTyped
  PROVE  /\ IsFiniteSet(Export!Places) /\ Cardinality(Export!Places) \in Nat
         /\ \A n \in DOMAIN inputs : \A k \in DOMAIN inputs[n].items : <<n, k>> \in Export!Places
         /\ \A a \in Export!Places :
              /\ a = <<a[1], a[2]>> /\ a[1] \in Nat \ {0} /\ a[2] \in Nat \ {0}
              /\ a[1] \in DOMAIN inputs /\ a[2] \in DOMAIN inputs[a[1]].items
              /\ inputs[a[1]] \in InputType /\ inputs[a[1]].items[a[2]] \in [id : Int, cells : Shapes]
              /\ Export!Id(a) \in Int
<1> DEFINE Line(n) == {<<n, k>> : k \in DOMAIN inputs[n].items}
           All == {Line(n) : n \in DOMAIN inputs}
<1>1. DOMAIN inputs = 1..Len(inputs) /\ Len(inputs) \in Nat /\ \A n \in DOMAIN inputs : inputs[n] \in InputType
  BY DEF InputsTyped
<1>2. \A n \in DOMAIN inputs :
        /\ DOMAIN inputs[n].items = 1..Len(inputs[n].items) /\ Len(inputs[n].items) \in Nat
        /\ \A k \in DOMAIN inputs[n].items : inputs[n].items[k] \in [id : Int, cells : Shapes]
  <2> TAKE n \in DOMAIN inputs
  <2>1. inputs[n].items \in Seq([id : Int, cells : Shapes])
    BY <1>1 DEF InputType
  <2> DEFINE items == inputs[n].items
             Item == [id : Int, cells : Shapes]
  <2> HIDE DEF items, Item
  <2>2. items \in Seq(Item)
    BY <2>1 DEF items, Item
  <2>3. DOMAIN items = 1..Len(items) /\ Len(items) \in Nat /\ \A k \in DOMAIN items : items[k] \in Item
    BY <2>2
  <2> QED  BY <2>3 DEF items, Item
<1>3. Export!Places = UNION All
  BY DEF Export!Places
<1>4. \A n \in DOMAIN inputs : IsFiniteSet(Line(n))
  <2> TAKE n \in DOMAIN inputs
  <2>1. IsFiniteSet(DOMAIN inputs[n].items)
    BY <1>2, FS_Interval
  <2>2. [k \in DOMAIN inputs[n].items |-> <<n, k>>] \in Surjection(DOMAIN inputs[n].items, Line(n))
    BY DEF Surjection
  <2> QED  BY <2>1, <2>2, FS_Surjection
<1>5. IsFiniteSet(All)
  <2>1. IsFiniteSet(DOMAIN inputs)
    BY <1>1, FS_Interval
  <2>2. [n \in DOMAIN inputs |-> Line(n)] \in Surjection(DOMAIN inputs, All)
    <3> HIDE DEF Line
    <3> QED  BY DEF Surjection
  <2> HIDE DEF All
  <2> QED  BY <2>1, <2>2, FS_Surjection
<1>6. IsFiniteSet(Export!Places)
  <2>1. \A T \in All : IsFiniteSet(T)
    <3> HIDE DEF Line
    <3> QED  BY <1>4
  <2> HIDE DEF All
  <2> QED  BY <1>3, <1>5, <2>1, FS_UNION
<1>7. \A n \in DOMAIN inputs : \A k \in DOMAIN inputs[n].items : <<n, k>> \in Export!Places
  BY DEF Export!Places
<1>8. ASSUME NEW a \in Export!Places
      PROVE  /\ a = <<a[1], a[2]>> /\ a[1] \in Nat \ {0} /\ a[2] \in Nat \ {0}
             /\ a[1] \in DOMAIN inputs /\ a[2] \in DOMAIN inputs[a[1]].items
             /\ inputs[a[1]] \in InputType /\ inputs[a[1]].items[a[2]] \in [id : Int, cells : Shapes]
             /\ Export!Id(a) \in Int
  <2>1. PICK n \in DOMAIN inputs : \E k \in DOMAIN inputs[n].items : a = <<n, k>>
    BY DEF Export!Places
  <2>2. PICK k \in DOMAIN inputs[n].items : a = <<n, k>>
    BY <2>1
  <2>3. a[1] = n /\ a[2] = k
    BY <2>2
  <2>4. inputs[n] \in InputType /\ inputs[n].items[k] \in [id : Int, cells : Shapes]
    BY <1>1, <1>2
  <2>5. inputs[n].id \in Int /\ inputs[n].items[k].id \in Int
    BY <2>4 DEF InputType
  <2>6. Export!Id(a) \in Int
    BY <2>3, <2>5 DEF Export!Id
  <2>7. n \in Nat \ {0} /\ k \in Nat \ {0}
    BY <1>1, <1>2
  <2> QED  BY <2>2, <2>3, <2>4, <2>6, <2>7
<1>9. Cardinality(Export!Places) \in Nat
  BY <1>6, FS_CardinalityType
<1> QED  BY <1>6, <1>7, <1>8, <1>9

(* What a clean input is spared. *)
LEMMA CleanIs ==
  ASSUME Clean, NEW n \in DOMAIN inputs
  PROVE  /\ inputs[n].items # << >> /\ inputs[n].label \in Int
         /\ \A k \in DOMAIN inputs[n].items : Export!RowTrouble(n, k) = None
<1> DEFINE in == inputs[n]
           bad == {k \in DOMAIN in.items : Export!RowTrouble(n, k) # None}
           clash == in.defaulted /\ \E m \in 1..(n - 1) :
                      inputs[m].defaulted /\ inputs[m].id = in.id /\ inputs[m].origin # in.origin
           T == Export!RowTrouble(n, Min(bad))
<1>1. in \in InputType /\ DOMAIN in.items \subseteq Nat
  <2>1. in \in InputType
    BY DEF Clean, InputsTyped
  <2>2. in.items \in Seq([id : Int, cells : Shapes])
    BY <2>1 DEF InputType
  <2> QED  BY <2>1, <2>2
<1>2. Export!Trouble(n) = None
  BY DEF Clean
<1>3. None \notin {"empty", "version", "collision", "duplicate", "bbox"}
  BY WatershedExportAssumption DEF Export!ExportAssumption
<1>4. Export!Trouble(n) = IF in.items = << >> THEN "empty"
                          ELSE IF in.label = None THEN "version"
                          ELSE IF clash THEN "collision"
                          ELSE IF bad = {} THEN None ELSE T
  BY Same DEF Export!Trouble
<1>5. in.items # << >> /\ in.label # None /\ (bad = {} \/ T = None)
  <2> HIDE DEF in, bad, clash, T
  <2> QED  BY <1>2, <1>3, <1>4
<1>6. bad = {}
  <2> SUFFICES ASSUME bad # {} PROVE FALSE
    OBVIOUS
  <2>1. bad \in SUBSET Nat
    BY <1>1
  <2>2. Min(bad) \in bad
    <3> HIDE DEF bad
    <3> QED  BY <2>1, MinOfNats
  <2>3. T # None
    BY <2>2
  <2> QED  BY <1>5, <2>3
<1>7. in.label \in Int
  BY <1>1, <1>5 DEF InputType
<1> QED  BY <1>5, <1>6, <1>7

LEMMA CleanRow ==
  ASSUME Clean, NEW a \in Export!Places
  PROVE  LET r == Export!RowOf(a)
             cells == inputs[a[1]].items[a[2]].cells
         IN /\ r.id = Export!Id(a) /\ r.id \in Int
            /\ r.label = inputs[a[1]].label /\ r.label \in Int
            /\ r.cells = cells /\ Area(cells) /\ cells # {}
            /\ r.terminal = inputs[a[1]].terminal /\ r.status = inputs[a[1]].status
            /\ r.place \in Int /\ r.bounds = Export!Outward(Export!Box(cells))
<1> DEFINE cells == inputs[a[1]].items[a[2]].cells
<1>1. /\ a[1] \in DOMAIN inputs /\ a[2] \in DOMAIN inputs[a[1]].items
      /\ inputs[a[1]].items[a[2]] \in [id : Int, cells : Shapes] /\ Export!Id(a) \in Int
  BY PlacesAre DEF Clean
<1>2. inputs[a[1]].label \in Int /\ Export!RowTrouble(a[1], a[2]) = None
  BY <1>1, CleanIs
<1>3. Area(cells)
  BY <1>1 DEF Area, Shapes
<1>4. cells # {}
  <2>1. None # "bbox" /\ None # "duplicate"
    BY WatershedExportAssumption DEF Export!ExportAssumption
  <2> QED  BY <1>2, <2>1 DEF Export!RowTrouble
<1> DEFINE place == Export!Hilbert(Export!Quantized(cells, 1), Export!Quantized(cells, 2))
<1>5. place \in Int
  BY <1>3, <1>4, HilbertType
<1>6. Export!RowOf(a) = [id |-> Export!Id(a), label |-> inputs[a[1]].label, cells |-> cells,
                         terminal |-> inputs[a[1]].terminal, status |-> inputs[a[1]].status,
                         place |-> place, bounds |-> Export!Outward(Export!Box(cells))]
  BY DEF Export!RowOf
<1> HIDE DEF place, cells
<1> QED  BY <1>1, <1>2, <1>3, <1>4, <1>5, <1>6 DEF cells

LEMMA CleanDistinct ==
  ASSUME Clean, NEW a \in Export!Places, NEW b \in Export!Places, a # b
  PROVE  Export!Id(a) # Export!Id(b) \/ inputs[a[1]].label # inputs[b[1]].label
<1>1. None # "duplicate"
  BY WatershedExportAssumption DEF Export!ExportAssumption
<1>2. ASSUME NEW c \in Export!Places, NEW d \in Export!Places, Earlier(c, d)
      PROVE  Export!Id(c) # Export!Id(d) \/ inputs[c[1]].label # inputs[d[1]].label
  <2>1. d = <<d[1], d[2]>> /\ d[1] \in DOMAIN inputs /\ d[2] \in DOMAIN inputs[d[1]].items
    BY PlacesAre DEF Clean
  <2>2. Export!RowTrouble(d[1], d[2]) = None
    BY <2>1, CleanIs
  <2> QED  BY <1>1, <1>2, <2>1, <2>2 DEF Export!RowTrouble, Earlier
<1>3. Earlier(a, b) \/ Earlier(b, a)
  <2>1. /\ a = <<a[1], a[2]>> /\ a[1] \in Nat /\ a[2] \in Nat
        /\ b = <<b[1], b[2]>> /\ b[1] \in Nat /\ b[2] \in Nat
    BY PlacesAre DEF Clean
  <2>2. a[1] # b[1] \/ a[2] # b[2]
    BY <2>1
  <2> QED  BY <2>1, <2>2 DEF Earlier
<1> QED  BY <1>2, <1>3

(* The ranks of the rows are 1 to their number, each once, in their order. *)
LEMMA BeforeOrders ==
  ASSUME Clean, NEW a \in Export!Places, NEW b \in Export!Places
  PROVE  /\ ~Export!Before(Export!RowOf(a), Export!RowOf(a))
         /\ a # b => \/ Export!Before(Export!RowOf(a), Export!RowOf(b))
                     \/ Export!Before(Export!RowOf(b), Export!RowOf(a))
         /\ \A c \in Export!Places :
              Export!Before(Export!RowOf(a), Export!RowOf(b)) /\ Export!Before(Export!RowOf(b), Export!RowOf(c))
                => Export!Before(Export!RowOf(a), Export!RowOf(c))
<1> DEFINE R(x) == Export!RowOf(x)
<1>1. \A x \in Export!Places : R(x).id \in Int /\ R(x).label \in Int /\ R(x).place \in Int
  BY CleanRow
<1>2. a # b => R(a).id # R(b).id \/ R(a).label # R(b).label
  BY CleanRow, CleanDistinct
<1> HIDE DEF R
<1>3. ~Export!Before(R(a), R(a))
  BY <1>1 DEF Export!Before
<1>4. a # b => Export!Before(R(a), R(b)) \/ Export!Before(R(b), R(a))
  BY <1>1, <1>2 DEF Export!Before
<1>5. \A c \in Export!Places : Export!Before(R(a), R(b)) /\ Export!Before(R(b), R(c)) => Export!Before(R(a), R(c))
  BY <1>1 DEF Export!Before
<1> QED  BY <1>3, <1>4, <1>5 DEF R

LEMMA RankGrows ==
  ASSUME Clean, NEW a \in Export!Places
  PROVE  /\ Export!Rank(a) \in 1..Cardinality(Export!Places)
         /\ \A b \in Export!Places :
              Export!Before(Export!RowOf(a), Export!RowOf(b)) => Export!Rank(a) < Export!Rank(b)
<1> DEFINE P == Export!Places
           Less(x) == {b \in P : Export!Before(Export!RowOf(b), Export!RowOf(x))}
<1>1. IsFiniteSet(P) /\ Cardinality(P) \in Nat
  BY PlacesAre DEF Clean
<1>2. \A x \in P : Export!Rank(x) = 1 + Cardinality(Less(x))
  BY Same DEF Export!Rank
<1>3. \A x \in P : /\ Less(x) \subseteq P /\ x \notin Less(x)
  BY BeforeOrders
<1>4. \A x \in P : /\ IsFiniteSet(Less(x)) /\ Cardinality(Less(x)) \in Nat
                   /\ IsFiniteSet(Less(x) \cup {x}) /\ Cardinality(Less(x) \cup {x}) = Cardinality(Less(x)) + 1
  <2> TAKE x \in P
  <2> HIDE DEF Less, P
  <2>1. IsFiniteSet(Less(x))
    BY <1>1, <1>3, FS_Subset
  <2> QED  BY <1>3, <2>1, FS_CardinalityType, FS_AddElement
<1>5. \A b \in P : Export!Before(Export!RowOf(a), Export!RowOf(b)) => Less(a) \cup {a} \subseteq Less(b)
  BY BeforeOrders
<1> HIDE DEF P, Less
<1>6. a \in P
  BY DEF P
<1>7. Cardinality(Less(a)) + 1 <= Cardinality(P)
  <2>1. Less(a) \cup {a} \in SUBSET P
    BY <1>3, <1>6
  <2> QED  BY <1>1, <1>4, <1>6, <2>1, FS_Subset
<1>8. \A x \in P : Export!Rank(x) = 1 + Cardinality(Less(x)) /\ Cardinality(Less(x)) \in Nat
  BY <1>2, <1>4
<1> DEFINE least == Cardinality(Less(a))
<1>10. Export!Rank(a) = 1 + least /\ least \in Nat /\ least + 1 <= Cardinality(P)
  BY <1>6, <1>7, <1>8
<1> HIDE DEF least
<1>11. Export!Rank(a) \in 1..Cardinality(P)
  BY <1>1, <1>10
<1>9. ASSUME NEW b \in P, Export!Before(Export!RowOf(a), Export!RowOf(b))
      PROVE  Export!Rank(a) < Export!Rank(b)
  <2>1. Less(a) \cup {a} \in SUBSET Less(b)
    BY <1>5, <1>9
  <2>2. IsFiniteSet(Less(b)) /\ Cardinality(Less(a) \cup {a}) = least + 1
    BY <1>4, <1>6 DEF least
  <2> DEFINE more == Cardinality(Less(b))
  <2>3. least + 1 <= more
    BY <2>1, <2>2, FS_Subset
  <2>4. Export!Rank(b) = 1 + more /\ more \in Nat
    BY <1>8
  <2> HIDE DEF more
  <2> QED  BY <1>10, <2>3, <2>4
<1> QED  BY <1>9, <1>11 DEF P

LEMMA SortedIs ==
  ASSUME Clean
  PROVE  LET N == Cardinality(Export!Places) IN
         /\ N \in Nat \ {0} /\ DOMAIN Export!Sorted = 1..N /\ Len(Export!Sorted) = N
         /\ Export!Sorted = [r \in 1..N |-> Export!Sorted[r]]
         /\ \A r \in 1..N : \E a \in Export!Places : Export!Rank(a) = r /\ Export!Sorted[r] = Export!RowOf(a)
         /\ \A a \in Export!Places : Export!Sorted[Export!Rank(a)] = Export!RowOf(a)
         /\ \A r, s \in 1..N : r < s => Export!Before(Export!Sorted[r], Export!Sorted[s])
<1> DEFINE P == Export!Places
           N == Cardinality(P)
           rank == [a \in P |-> Export!Rank(a)]
           At(r) == CHOOSE a \in P : Export!Rank(a) = r
<1>1. IsFiniteSet(P) /\ N \in Nat
  BY PlacesAre DEF Clean
<1>2. N # 0
  <2>1. PICK n \in DOMAIN inputs : TRUE
    <3>1. inputs # << >> /\ inputs \in Seq(InputType)
      BY DEF Clean, InputsTyped
    <3>2. DOMAIN inputs = 1..Len(inputs) /\ Len(inputs) \in Nat \ {0}
      BY <3>1
    <3> QED  BY <3>2
  <2>2. inputs[n].items # << >> /\ inputs[n].items \in Seq([id : Int, cells : Shapes])
    <3>1. inputs[n] \in InputType
      BY DEF Clean, InputsTyped
    <3> QED  BY <3>1, CleanIs DEF InputType
  <2>3. PICK k \in DOMAIN inputs[n].items : TRUE
    <3> DEFINE items == inputs[n].items
               Item == [id : Int, cells : Shapes]
    <3> HIDE DEF items, Item
    <3>1. items # << >> /\ items \in Seq(Item)
      BY <2>2 DEF items, Item
    <3>2. \E k \in DOMAIN items : TRUE
      BY <3>1
    <3> QED  BY <3>2 DEF items
  <2>4. <<n, k>> \in P
    BY <2>3, PlacesAre DEF Clean
  <2> QED  BY <1>1, <2>4, FS_EmptySet
<1>3. \A a \in P : Export!Rank(a) \in 1..N
  BY RankGrows
<1>4. \A a, b \in P : a # b => Export!Rank(a) # Export!Rank(b)
  <2> SUFFICES ASSUME NEW a \in P, NEW b \in P, a # b PROVE Export!Rank(a) # Export!Rank(b)
    OBVIOUS
  <2>1. Export!Rank(a) \in Int /\ Export!Rank(b) \in Int
    BY <1>1, <1>3
  <2>2. CASE Export!Before(Export!RowOf(a), Export!RowOf(b))
    BY <2>1, <2>2, RankGrows
  <2>3. CASE Export!Before(Export!RowOf(b), Export!RowOf(a))
    BY <2>1, <2>3, RankGrows
  <2> QED  BY <2>2, <2>3, BeforeOrders
<1>5. \A r \in 1..N : \E a \in P : Export!Rank(a) = r
  <2> HIDE DEF P, N
  <2>1. rank \in Injection(P, 1..N)
    BY <1>3, <1>4 DEF Injection, IsInjective
  <2>2. IsFiniteSet(1..N) /\ Cardinality(1..N) = N
    BY <1>1, FS_Interval
  <2>3. rank \in Surjection(P, 1..N)
    <3> HIDE DEF rank
    <3> QED  BY <2>1, <2>2, FS_Injection DEF N
  <2> QED  BY <2>3 DEF Surjection
<1>6. Export!Sorted = [r \in 1..N |-> Export!RowOf(At(r))]
  BY Same DEF Export!Sorted
<1>7. \A r \in 1..N : At(r) \in P /\ Export!Rank(At(r)) = r
  BY <1>5
<1>8. \A a \in P : At(Export!Rank(a)) = a
  <2> TAKE a \in P
  <2>1. At(Export!Rank(a)) \in P /\ Export!Rank(At(Export!Rank(a))) = Export!Rank(a)
    BY <1>3, <1>7
  <2> QED  BY <1>4, <2>1
<1>9. \A r, s \in 1..N : r < s => Export!Before(Export!Sorted[r], Export!Sorted[s])
  <2> SUFFICES ASSUME NEW r \in 1..N, NEW s \in 1..N, r < s
               PROVE  Export!Before(Export!Sorted[r], Export!Sorted[s])
    OBVIOUS
  <2> DEFINE a == At(r)
             b == At(s)
  <2>1. a \in P /\ b \in P /\ Export!Rank(a) = r /\ Export!Rank(b) = s
    BY <1>7
  <2>2. Export!Sorted[r] = Export!RowOf(a) /\ Export!Sorted[s] = Export!RowOf(b)
    BY <1>6
  <2> HIDE DEF a, b, N
  <2>3. a # b /\ ~(s < r)
    BY <1>1, <2>1
  <2>4. ~Export!Before(Export!RowOf(b), Export!RowOf(a))
    BY <2>1, <2>3, RankGrows
  <2> QED  BY <2>1, <2>2, <2>3, <2>4, BeforeOrders
<1> HIDE DEF At, N
<1>10. \A r \in 1..N : \E a \in P : Export!Rank(a) = r /\ Export!Sorted[r] = Export!RowOf(a)
  BY <1>6, <1>7
<1>11. \A a \in P : Export!Sorted[Export!Rank(a)] = Export!RowOf(a)
  BY <1>3, <1>6, <1>8
<1>12. DOMAIN Export!Sorted = 1..N /\ Len(Export!Sorted) = N
  <2>1. Export!Sorted \in Seq({Export!RowOf(At(r)) : r \in 1..N}) /\ DOMAIN Export!Sorted = 1..N
    BY <1>1, <1>6
  <2> QED  BY <1>1, <2>1
<1>13. Export!Sorted = [r \in 1..N |-> Export!Sorted[r]]
  BY <1>6
<1> QED  BY <1>1, <1>2, <1>9, <1>10, <1>11, <1>12, <1>13 DEF N

(* The rows of a writer that has sorted them: every place's row at its     *)
(* rank, and so each before the next.                                      *)
InOrder ==
  LET N == Cardinality(Export!Places) IN
  /\ N \in Nat \ {0} /\ DOMAIN rows = 1..N /\ Len(rows) = N
  /\ rows = [r \in 1..N |-> rows[r]]
  /\ \A r \in 1..N : \E a \in Export!Places : Export!Rank(a) = r /\ rows[r] = Export!RowOf(a)
  /\ \A a \in Export!Places : rows[Export!Rank(a)] = Export!RowOf(a)
  /\ \A r, s \in 1..N : r < s => Export!Before(rows[r], rows[s])

-----------------------------------------------------------------------------
(* The rows of a file's groups. *)

LEMMA SamePlan ==
  \A n, g : /\ Export!GroupCount(n) = GroupCount(n) /\ Export!FirstRow(n, g) = FirstRow(n, g)
            /\ Export!LastRow(n, g) = LastRow(n, g) /\ Export!Legal(n) = Legal(n)
<1>1. \A n : Export!GroupCount(n) = GroupCount(n)
  BY DEF Export!GroupCount, GroupCount
<1>2. \A n : Export!Sizes(n) = Sizes(n)
  BY <1>1 DEF Export!Sizes, Sizes
<1>3. \A n, g : Export!FirstRow(n, g) = FirstRow(n, g)
  BY <1>1 DEF Export!FirstRow, FirstRow
<1>4. \A n, g : Export!LastRow(n, g) = LastRow(n, g)
  BY <1>2, <1>3 DEF Export!LastRow, LastRow
<1>5. \A n : Export!Legal(n) = Legal(n)
  BY <1>1, <1>2 DEF Export!Legal, Legal
<1> QED  BY <1>1, <1>3, <1>4, <1>5

(* No group is empty, none overlaps another, and each row is in one. *)
LEMMA PlanCovers ==
  ASSUME NEW n \in Nat \ {0}
  PROVE  /\ GroupCount(n) \in Nat \ {0}
         /\ \A g \in 1..GroupCount(n) :
              /\ FirstRow(n, g) \in 1..n /\ LastRow(n, g) \in 1..n /\ FirstRow(n, g) <= LastRow(n, g)
              /\ n >= Smallest => LastRow(n, g) - FirstRow(n, g) + 1 \in Smallest..Target
         /\ \A g, h \in 1..GroupCount(n) : g < h => LastRow(n, g) < FirstRow(n, h)
         /\ \A j \in 1..n : \E g \in 1..GroupCount(n) : FirstRow(n, g) <= j /\ j <= LastRow(n, g)
<1> DEFINE count == GroupCount(n)
           first(g) == FirstRow(n, g)
           last(g) == LastRow(n, g)
<1>1. Smallest \in Nat \ {0} /\ Target \in Nat
  BY RowGroupsAssumption
<1>2. count \in Nat \ {0}
  <2>1. CASE n < Smallest
    BY <2>1 DEF GroupCount
  <2>2. CASE n >= Smallest
    BY <2>2, GroupCountBounds
  <2> QED  BY <1>1, <2>1, <2>2
<1>3. \A g \in 1..count : Sizes(n)[g] \in Nat \ {0} /\ (n >= Smallest => Sizes(n)[g] \in Smallest..Target)
  <2>1. CASE n < Smallest
    <3>1. count = 1
      BY <2>1 DEF GroupCount
    <3>2. n \div 1 = n /\ n % 1 = 0
      OBVIOUS
    <3>3. Sizes(n)[1] = n
      BY <3>1, <3>2 DEF Sizes
    <3> QED  BY <1>1, <2>1, <3>1, <3>3
  <2>2. CASE n >= Smallest
    <3>1. Legal(n)
      BY PlanIsLegal
    <3>2. \A g \in 1..count : Sizes(n)[g] \in Smallest..Target
      BY <1>1, <2>2, <3>1 DEF Legal
    <3> QED  BY <1>1, <3>2
  <2> QED  BY <1>1, <2>1, <2>2
<1>4. ASSUME NEW g \in 1..count PROVE first(g) \in Int /\ last(g) = first(g) + Sizes(n)[g] - 1
  <2>1. n \div count \in Nat /\ n % count \in 0..(count - 1)
    BY <1>2, DivMod
  <2> DEFINE base == n \div count
             rest == n % count
  <2>2. first(g) = ((g - 1) * base) + (IF g - 1 <= rest THEN g - 1 ELSE rest) + 1
    BY DEF FirstRow
  <2> HIDE DEF base, rest, first
  <2>3. base \in Nat /\ rest \in Nat
    BY <1>2, <2>1 DEF base, rest
  <2>4. (g - 1) * base \in Int
    BY <1>2, <2>3
  <2>5. first(g) \in Int
    BY <1>2, <2>2, <2>3, <2>4
  <2> QED  BY <2>5 DEF LastRow, first
<1>5. /\ first(1) = 1 /\ last(count) = n
      /\ \A g \in 1..(count - 1) : first(g + 1) = last(g) + 1
  BY PlanTiles
<1> HIDE DEF count, first, last
<1>6. \A g \in 1..count : first(g) \in Int /\ last(g) \in Int /\ first(g) <= last(g)
  BY <1>3, <1>4
<1>7. ASSUME NEW g \in 1..count, NEW h \in 1..count, g < h PROVE last(g) < first(h)
  <2> DEFINE Wrong == {k \in 1..count : g < k /\ ~(last(g) < first(k))}
  <2>1. Wrong = {}
    <3> SUFFICES ASSUME Wrong # {} PROVE FALSE
      OBVIOUS
    <3>1. PICK k \in Wrong : \A j \in Wrong : k <= j
      <4>1. Wrong \in SUBSET Nat
        BY <1>2
      <4> HIDE DEF Wrong
      <4> QED  BY <4>1, LeastNatural
    <3>2. k \in 1..count /\ g < k /\ ~(last(g) < first(k))
      BY <3>1
    <3>3. k - 1 \in 1..(count - 1) /\ k - 1 \in 1..count /\ k - 1 \notin Wrong /\ (k - 1) + 1 = k
      BY <1>2, <3>1, <3>2
    <3>4. first(k) = last(k - 1) + 1
      BY <1>5, <3>3
    <3>5. last(g) <= last(k - 1)
      <4>1. CASE k - 1 = g
        BY <1>6, <4>1
      <4>2. CASE g < k - 1
        <5>1. last(g) < first(k - 1)
          BY <3>3, <4>2
        <5> QED  BY <1>6, <3>3, <5>1
      <4> QED  BY <1>2, <3>2, <4>1, <4>2
    <3> QED  BY <1>6, <3>2, <3>3, <3>4, <3>5
  <2> QED  BY <1>7, <2>1
<1>8. \A g \in 1..count : first(g) \in 1..n /\ last(g) \in 1..n
  <2> TAKE g \in 1..count
  <2>1. 1 \in 1..count /\ count \in 1..count
    BY <1>2
  <2>2. first(g) >= 1
    <3>1. CASE g = 1
      BY <1>5, <3>1
    <3>2. CASE 1 < g
      <4>1. last(1) < first(g)
        BY <1>7, <2>1, <3>2
      <4> QED  BY <1>5, <1>6, <2>1, <4>1
    <3> QED  BY <1>2, <3>1, <3>2
  <2>3. last(g) <= n
    <3>1. CASE g = count
      BY <1>5, <3>1
    <3>2. CASE g < count
      <4>1. last(g) < first(count)
        BY <1>7, <2>1, <3>2
      <4> QED  BY <1>5, <1>6, <2>1, <4>1
    <3> QED  BY <1>2, <3>1, <3>2
  <2> QED  BY <1>6, <2>2, <2>3
<1>9. ASSUME NEW j \in 1..n PROVE \E g \in 1..count : first(g) <= j /\ j <= last(g)
  <2> DEFINE Reach == {g \in 1..count : j <= last(g)}
  <2>1. count \in Reach
    BY <1>2, <1>5
  <2>2. PICK g \in Reach : \A h \in Reach : g <= h
    <3>1. Reach \in SUBSET Nat
      BY <1>2
    <3> HIDE DEF Reach
    <3> QED  BY <2>1, <3>1, LeastNatural
  <2>3. g \in 1..count /\ j <= last(g)
    BY <2>2
  <2>4. first(g) <= j
    <3>1. CASE g = 1
      BY <1>5, <3>1
    <3>2. CASE g # 1
      <4>1. g - 1 \in 1..(count - 1) /\ g - 1 \in 1..count /\ g - 1 \notin Reach /\ (g - 1) + 1 = g
        BY <1>2, <2>2, <2>3, <3>2
      <4>2. last(g - 1) < j /\ first(g) = last(g - 1) + 1
        BY <1>5, <1>6, <4>1
      <4> QED  BY <1>6, <4>1, <4>2
    <3> QED  BY <3>1, <3>2
  <2> QED  BY <2>3, <2>4
<1>10. \A g \in 1..count : n >= Smallest => last(g) - first(g) + 1 \in Smallest..Target
  <2> TAKE g \in 1..count
  <2>1. last(g) = first(g) + Sizes(n)[g] - 1 /\ first(g) \in Int /\ Sizes(n)[g] \in Nat
    BY <1>3, <1>4
  <2>2. last(g) - first(g) + 1 = Sizes(n)[g]
    BY <2>1
  <2> QED  BY <1>3, <2>2
<1>11. \A g \in 1..count : /\ first(g) \in 1..n /\ last(g) \in 1..n /\ first(g) <= last(g)
                           /\ n >= Smallest => last(g) - first(g) + 1 \in Smallest..Target
  BY <1>6, <1>8, <1>10
<1>12. \A g, h \in 1..count : g < h => last(g) < first(h)
  BY <1>7
<1>13. \A j \in 1..n : \E g \in 1..count : first(g) <= j /\ j <= last(g)
  BY <1>9
<1> QED  BY <1>2, <1>11, <1>12, <1>13 DEF count, first, last

GroupsCut(n) ==
  /\ DOMAIN file.groups = 1..GroupCount(n)
  /\ \A g \in 1..GroupCount(n) : file.groups[g] = SubSeq(rows, FirstRow(n, g), LastRow(n, g))

(* The row of the file at place w of its groups. *)
Pos(n, w) == FirstRow(n, w[1]) + w[2] - 1

LEMMA WrittenIs ==
  ASSUME NEW T, NEW n \in Nat \ {0}, rows \in Seq(T), Len(rows) = n, GroupsCut(n)
  PROVE  /\ \A w \in Export!Written : /\ Pos(n, w) \in 1..n /\ Export!RowAt(w) = rows[Pos(n, w)]
                                      /\ w[1] \in Nat /\ w[2] \in Nat
         /\ \A v, w \in Export!Written : Earlier(v, w) => Pos(n, v) < Pos(n, w)
         /\ \A j \in 1..n : \E w \in Export!Written : Pos(n, w) = j
         /\ IsFiniteSet(Export!Written) /\ Cardinality(Export!Written) = n
         /\ n >= Smallest => \A g \in DOMAIN file.groups : Len(file.groups[g]) \in Smallest..Target
<1> DEFINE count == GroupCount(n)
           first(g) == FirstRow(n, g)
           last(g) == LastRow(n, g)
           W == Export!Written
           size(g) == last(g) - first(g) + 1
<1>1. /\ count \in Nat \ {0}
      /\ \A g \in 1..count :
           /\ first(g) \in 1..n /\ last(g) \in 1..n /\ first(g) <= last(g)
           /\ n >= Smallest => size(g) \in Smallest..Target
      /\ \A g, h \in 1..count : g < h => last(g) < first(h)
      /\ \A j \in 1..n : \E g \in 1..count : first(g) <= j /\ j <= last(g)
  BY PlanCovers
<1>2. \A g \in 1..count : file.groups[g] = SubSeq(rows, first(g), last(g))
  BY DEF GroupsCut
<1>3. DOMAIN file.groups = 1..count
  BY DEF GroupsCut
<1> HIDE DEF count, first, last
<1>4. ASSUME NEW g \in 1..count
      PROVE  /\ Len(file.groups[g]) = size(g) /\ DOMAIN file.groups[g] = 1..size(g)
             /\ \A i \in 1..size(g) : file.groups[g][i] = rows[first(g) + i - 1]
  <2>1. first(g) \in 1..n /\ last(g) \in 1..n /\ first(g) <= last(g)
    BY <1>1
  <2> DEFINE a == first(g)
             b == last(g)
  <2> HIDE DEF a, b
  <2>2. a \in 1..Len(rows) /\ b \in 1..Len(rows) /\ a <= b
    BY <2>1 DEF a, b
  <2>3. /\ Len(SubSeq(rows, a, b)) = b - a + 1 /\ DOMAIN SubSeq(rows, a, b) = 1..(b - a + 1)
        /\ \A i \in 1..(b - a + 1) : SubSeq(rows, a, b)[i] = rows[a + i - 1]
    BY <2>2
  <2> QED  BY <1>2, <2>3 DEF a, b
<1>5. \A w : w \in W <=> \E g \in 1..count : \E i \in 1..size(g) : w = <<g, i>>
  <2>1. W = UNION {{<<g, i>> : i \in DOMAIN file.groups[g]} : g \in 1..count}
    BY <1>3 DEF Export!Written
  <2> HIDE DEF W, size
  <2> QED  BY <1>4, <2>1
<1> HIDE DEF W
<1>6. ASSUME NEW w \in W
      PROVE  /\ w[1] \in 1..count /\ w[2] \in 1..size(w[1]) /\ w = <<w[1], w[2]>>
             /\ w[2] \in Nat /\ Pos(n, w) = first(w[1]) + w[2] - 1
             /\ first(w[1]) <= Pos(n, w) /\ Pos(n, w) <= last(w[1]) /\ Pos(n, w) \in 1..n
             /\ Export!RowAt(w) = rows[Pos(n, w)]
  <2>1. PICK g \in 1..count : \E i \in 1..size(g) : w = <<g, i>>
    BY <1>5
  <2>2. PICK i \in 1..size(g) : w = <<g, i>>
    BY <2>1
  <2>3. w[1] = g /\ w[2] = i
    BY <2>2
  <2>4. Pos(n, w) = first(g) + i - 1
    BY <2>3 DEF Pos, first
  <2>5. first(g) \in 1..n /\ last(g) \in 1..n
    BY <1>1
  <2>6. i \in Nat /\ first(g) <= first(g) + i - 1 /\ first(g) + i - 1 <= last(g) /\ first(g) + i - 1 \in 1..n
    BY <2>5
  <2>7. Export!RowAt(w) = rows[first(g) + i - 1]
    BY <1>4, <2>3 DEF Export!RowAt
  <2> HIDE DEF size
  <2> QED  BY <2>2, <2>3, <2>4, <2>6, <2>7
<1>7. ASSUME NEW v \in W, NEW w \in W, Earlier(v, w) PROVE Pos(n, v) < Pos(n, w)
  <2>1. CASE v[1] < w[1]
    <3>1. last(v[1]) < first(w[1])
      BY <1>1, <1>6, <2>1
    <3>2. /\ Pos(n, v) \in Int /\ Pos(n, w) \in Int /\ Pos(n, v) <= last(v[1]) /\ first(w[1]) <= Pos(n, w)
          /\ last(v[1]) \in Int /\ first(w[1]) \in Int
      BY <1>1, <1>6
    <3> QED  BY <3>1, <3>2
  <2>2. CASE v[1] = w[1] /\ v[2] < w[2]
    <3>1. first(v[1]) \in Int /\ v[2] \in Nat /\ w[2] \in Nat
      BY <1>1, <1>6
    <3>2. Pos(n, v) = first(v[1]) + v[2] - 1 /\ Pos(n, w) = first(v[1]) + w[2] - 1
      BY <1>6, <2>2
    <3> QED  BY <2>2, <3>1, <3>2
  <2> QED  BY <1>7, <2>1, <2>2 DEF Earlier
<1>8. ASSUME NEW j \in 1..n PROVE \E w \in W : Pos(n, w) = j
  <2>1. PICK g \in 1..count : first(g) <= j /\ j <= last(g)
    BY <1>1
  <2> DEFINE i == j - first(g) + 1
  <2>2. first(g) \in 1..n /\ last(g) \in 1..n
    BY <1>1
  <2>3. i \in 1..size(g)
    BY <2>1, <2>2
  <2>4. <<g, i>> \in W
    <3> HIDE DEF i, size
    <3> QED  BY <1>5, <2>3
  <2>5. Pos(n, <<g, i>>) = first(g) + i - 1
    BY DEF Pos, first
  <2>6. first(g) + i - 1 = j
    BY <2>2
  <2> QED  BY <2>4, <2>5, <2>6
<1>9. IsFiniteSet(W) /\ Cardinality(W) = n
  <2> DEFINE pos == [w \in W |-> Pos(n, w)]
  <2>1. pos \in [W -> 1..n]
    BY <1>6
  <2>2. \A v, w \in W : v # w => Pos(n, v) # Pos(n, w)
    <3> SUFFICES ASSUME NEW v \in W, NEW w \in W, v # w PROVE Pos(n, v) # Pos(n, w)
      OBVIOUS
    <3>1. Pos(n, v) \in Int /\ Pos(n, w) \in Int
      BY <1>6
    <3>2. v = <<v[1], v[2]>> /\ w = <<w[1], w[2]>>
      BY <1>6
    <3>3. v[1] \in Int /\ v[2] \in Int /\ w[1] \in Int /\ w[2] \in Int
      BY <1>6
    <3>4. v[1] # w[1] \/ v[2] # w[2]
      BY <3>2
    <3>5. Earlier(v, w) \/ Earlier(w, v)
      BY <3>3, <3>4 DEF Earlier
    <3> QED  BY <1>7, <3>1, <3>5
  <2>3. pos \in Injection(W, 1..n)
    BY <2>1, <2>2 DEF Injection, IsInjective
  <2>4. pos \in Surjection(W, 1..n)
    BY <1>8, <2>1 DEF Surjection
  <2>5. IsFiniteSet(1..n) /\ Cardinality(1..n) = n
    BY FS_Interval
  <2> HIDE DEF pos
  <2> QED  BY <2>3, <2>4, <2>5, FS_Injection
<1>10. n >= Smallest => \A g \in DOMAIN file.groups : Len(file.groups[g]) \in Smallest..Target
  <2> SUFFICES ASSUME n >= Smallest, NEW g \in 1..count PROVE Len(file.groups[g]) \in Smallest..Target
    BY <1>3
  <2>1. size(g) \in Smallest..Target
    BY <1>1
  <2>2. Len(file.groups[g]) = size(g)
    BY <1>4
  <2> QED  BY <2>1, <2>2
<1>11. \A w \in W : /\ Pos(n, w) \in 1..n /\ Export!RowAt(w) = rows[Pos(n, w)]
                    /\ w[1] \in Nat /\ w[2] \in Nat
  BY <1>1, <1>6
<1> QED  BY <1>7, <1>8, <1>9, <1>10, <1>11 DEF W

-----------------------------------------------------------------------------
(* A finished file is exact. *)

LEMMA AskedIs ==
  ASSUME InputsTyped
  PROVE  Export!Asked = {LET r == Export!RowOf(a)
                         IN [id |-> r.id, label |-> r.label, cells |-> r.cells,
                             terminal |-> r.terminal, status |-> r.status] : a \in Export!Places}
<1> DEFINE Want(n, k) ==
             [id |-> IF kind = "basin" THEN inputs[n].id ELSE inputs[n].items[k].id,
              label |-> inputs[n].label, cells |-> inputs[n].items[k].cells,
              terminal |-> inputs[n].terminal, status |-> inputs[n].status]
           Have(a) == LET r == Export!RowOf(a)
                      IN [id |-> r.id, label |-> r.label, cells |-> r.cells,
                          terminal |-> r.terminal, status |-> r.status]
<1>1. \A a \in Export!Places : Have(a) = Want(a[1], a[2])
  <2> TAKE a \in Export!Places
  <2>1. Export!Id(a) = IF kind = "basin" THEN inputs[a[1]].id ELSE inputs[a[1]].items[a[2]].id
    BY DEF Export!Id
  <2> QED  BY <2>1 DEF Export!RowOf
<1>2. \A x : x \in Export!Asked <=> \E n \in DOMAIN inputs : \E k \in DOMAIN inputs[n].items : x = Want(n, k)
  BY Same DEF Export!Asked, Range
<1>3. \A n \in DOMAIN inputs : \A k \in DOMAIN inputs[n].items : <<n, k>> \in Export!Places
  BY PlacesAre
<1>4. \A a \in Export!Places : a[1] \in DOMAIN inputs /\ a[2] \in DOMAIN inputs[a[1]].items
  BY PlacesAre
<1> HIDE DEF Want, Have
<1>5. \A x : x \in Export!Asked <=> \E a \in Export!Places : x = Have(a)
  <2> SUFFICES ASSUME NEW x PROVE x \in Export!Asked <=> \E a \in Export!Places : x = Have(a)
    OBVIOUS
  <2>1. ASSUME x \in Export!Asked PROVE \E a \in Export!Places : x = Have(a)
    <3>1. PICK n \in DOMAIN inputs : \E k \in DOMAIN inputs[n].items : x = Want(n, k)
      BY <1>2, <2>1
    <3>2. PICK k \in DOMAIN inputs[n].items : x = Want(n, k)
      BY <3>1
    <3>3. <<n, k>> \in Export!Places /\ <<n, k>>[1] = n /\ <<n, k>>[2] = k
      BY <1>3
    <3>4. Have(<<n, k>>) = Want(n, k)
      BY <1>1, <3>3
    <3> QED  BY <3>2, <3>3, <3>4
  <2>2. ASSUME NEW a \in Export!Places, x = Have(a) PROVE x \in Export!Asked
    BY <1>1, <1>2, <1>4, <2>2
  <2> QED  BY <2>1, <2>2
<1>6. Export!Asked = {Have(a) : a \in Export!Places}
  BY <1>5
<1> QED  BY <1>6 DEF Have

LEMMA KeysDiffer ==
  ASSUME Clean
  PROVE  Cardinality({<<Export!RowOf(a).id, Export!RowOf(a).label>> : a \in Export!Places})
           = Cardinality(Export!Places)
<1> DEFINE Key(a) == <<Export!RowOf(a).id, Export!RowOf(a).label>>
           P == Export!Places
           K == {Key(a) : a \in P}
           key == [a \in P |-> Key(a)]
<1>1. IsFiniteSet(P)
  BY PlacesAre DEF Clean
<1>2. \A a, b \in P : a # b => Key(a) # Key(b)
  <2> SUFFICES ASSUME NEW a \in P, NEW b \in P, a # b PROVE Key(a) # Key(b)
    OBVIOUS
  <2>1. Export!RowOf(a).id # Export!RowOf(b).id \/ Export!RowOf(a).label # Export!RowOf(b).label
    BY CleanRow, CleanDistinct
  <2> QED  BY <2>1
<1> HIDE DEF P, Key
<1>3. key \in Surjection(P, K)
  BY DEF Surjection
<1>4. key \in Injection(P, K)
  BY <1>2 DEF Injection, IsInjective
<1> HIDE DEF key, K
<1>5. Cardinality(K) = Cardinality(P)
  BY <1>1, <1>3, <1>4, FS_Surjection
<1> QED  BY <1>5 DEF K, P, Key

Finished ==
  /\ Clean /\ InOrder /\ GroupsCut(Len(rows))
  /\ file.footer = Export!Box(UNION {r.cells : r \in Range(rows)})

LEMMA FileIs ==
  ASSUME Finished
  PROVE  LET n == Cardinality(Export!Places) IN
         /\ n \in Nat \ {0} /\ DOMAIN rows = 1..n /\ GroupsCut(n)
         /\ \A w \in Export!Written : /\ Pos(n, w) \in 1..n /\ Export!RowAt(w) = rows[Pos(n, w)]
                                      /\ w[1] \in Nat /\ w[2] \in Nat
         /\ \A v, w \in Export!Written : Earlier(v, w) => Pos(n, v) < Pos(n, w)
         /\ \A j \in 1..n : \E w \in Export!Written : Pos(n, w) = j
         /\ Cardinality(Export!Written) = n
         /\ n >= Smallest => \A g \in DOMAIN file.groups : Len(file.groups[g]) \in Smallest..Target
<1> DEFINE n == Cardinality(Export!Places)
           T == {Export!RowOf(a) : a \in Export!Places}
<1>1. /\ n \in Nat \ {0} /\ DOMAIN rows = 1..n /\ Len(rows) = n
      /\ \A r \in 1..n : \E a \in Export!Places : rows[r] = Export!RowOf(a)
  BY DEF Finished, InOrder
<1>2. rows = [r \in 1..n |-> rows[r]]
  BY DEF Finished, InOrder
<1> HIDE DEF n
<1>3. rows \in Seq(T)
  <2>1. \A r \in 1..n : rows[r] \in T
    BY <1>1
  <2> HIDE DEF T
  <2> QED  BY <1>1, <1>2, <2>1
<1>4. GroupsCut(n)
  BY <1>1 DEF Finished
<1> HIDE DEF T
<1>5. /\ \A w \in Export!Written : /\ Pos(n, w) \in 1..n /\ Export!RowAt(w) = rows[Pos(n, w)]
                                   /\ w[1] \in Nat /\ w[2] \in Nat
      /\ \A v, w \in Export!Written : Earlier(v, w) => Pos(n, v) < Pos(n, w)
      /\ \A j \in 1..n : \E w \in Export!Written : Pos(n, w) = j
      /\ Cardinality(Export!Written) = n
      /\ n >= Smallest => \A g \in DOMAIN file.groups : Len(file.groups[g]) \in Smallest..Target
  BY <1>1, <1>3, <1>4, WrittenIs
<1> QED  BY <1>1, <1>4, <1>5 DEF n

LEMMA FinishedRows ==
  ASSUME Finished
  PROVE  /\ {Export!RowAt(w) : w \in Export!Written} = {Export!RowOf(a) : a \in Export!Places}
         /\ Export!RowsExact
<1> DEFINE n == Cardinality(Export!Places)
           all == {Export!RowAt(w) : w \in Export!Written}
           every == {Export!RowOf(a) : a \in Export!Places}
<1>1. Clean /\ InOrder
  BY DEF Finished
<1>2. /\ n \in Nat \ {0} /\ DOMAIN rows = 1..n
      /\ \A w \in Export!Written : /\ Pos(n, w) \in 1..n /\ Export!RowAt(w) = rows[Pos(n, w)]
                                   /\ w[1] \in Nat /\ w[2] \in Nat
      /\ \A v, w \in Export!Written : Earlier(v, w) => Pos(n, v) < Pos(n, w)
      /\ \A j \in 1..n : \E w \in Export!Written : Pos(n, w) = j
      /\ Cardinality(Export!Written) = n
  BY FileIs
<1>3. /\ \A r \in 1..n : \E a \in Export!Places : rows[r] = Export!RowOf(a)
      /\ \A a \in Export!Places : rows[Export!Rank(a)] = Export!RowOf(a) /\ Export!Rank(a) \in 1..n
      /\ \A r, s \in 1..n : r < s => Export!Before(rows[r], rows[s])
  BY <1>1, RankGrows DEF InOrder
<1> HIDE DEF n
<1>4. all = every
  <2>1. \A w \in Export!Written : \E a \in Export!Places : Export!RowAt(w) = Export!RowOf(a)
    BY <1>2, <1>3
  <2>2. \A a \in Export!Places : \E w \in Export!Written : Export!RowAt(w) = Export!RowOf(a)
    <3> TAKE a \in Export!Places
    <3>1. PICK w \in Export!Written : Pos(n, w) = Export!Rank(a)
      BY <1>2, <1>3
    <3> QED  BY <1>2, <1>3, <3>1
  <2> QED  BY <2>1, <2>2
<1>5. {[id |-> r.id, label |-> r.label, cells |-> r.cells,
        terminal |-> r.terminal, status |-> r.status] : r \in every} = Export!Asked
  BY <1>1, AskedIs DEF Clean
<1>6. Cardinality({<<r.id, r.label>> : r \in every}) = n
  <2>1. {<<r.id, r.label>> : r \in every} = {<<Export!RowOf(a).id, Export!RowOf(a).label>> : a \in Export!Places}
    OBVIOUS
  <2> HIDE DEF every
  <2> QED  BY <1>1, <2>1, KeysDiffer DEF n
<1>7. \A v, w \in Export!Written :
        v[1] < w[1] \/ (v[1] = w[1] /\ v[2] < w[2]) => Export!Before(Export!RowAt(v), Export!RowAt(w))
  BY <1>2, <1>3 DEF Earlier
<1>8. Export!RowCount = n
  BY Same DEF Export!RowCount, n
<1> HIDE DEF all, every
<1>9. Export!RowsExact
  <2>1. {[id |-> r.id, label |-> r.label, cells |-> r.cells,
          terminal |-> r.terminal, status |-> r.status] : r \in all} = Export!Asked
    BY <1>4, <1>5
  <2>2. Export!Cardinality(Export!Written) = Export!RowCount
    BY <1>2, <1>8, Same
  <2>3. Export!Cardinality({<<r.id, r.label>> : r \in all}) = Export!RowCount
    BY <1>4, <1>6, <1>8, Same
  <2> QED  BY <1>7, <2>1, <2>2, <2>3 DEF Export!RowsExact, all
<1> QED  BY <1>4, <1>9 DEF all, every

LEMMA FinishedGroups ==
  ASSUME Finished
  PROVE  Export!GroupsExact
<1>1. LET n == Cardinality(Export!Places)
      IN n >= Smallest => \A g \in DOMAIN file.groups : Len(file.groups[g]) \in Smallest..Target
  BY FileIs
<1> QED  BY <1>1, Same, SameSeqs DEF Export!GroupsExact, Export!RowCount

LEMMA FinishedBounds ==
  ASSUME Finished
  PROVE  Export!BoundsExact
<1> DEFINE whole == UNION {r.cells : r \in Range(rows)}
           n == Cardinality(Export!Places)
<1>1. Clean
  BY DEF Finished
<1>2. /\ n \in Nat \ {0} /\ DOMAIN rows = 1..n
      /\ \A w \in Export!Written : Pos(n, w) \in 1..n /\ Export!RowAt(w) = rows[Pos(n, w)]
  BY FileIs
<1>3. \A r \in 1..n : \E a \in Export!Places : rows[r] = Export!RowOf(a)
  BY DEF Finished, InOrder
<1>4. ASSUME NEW r \in 1..n
      PROVE  /\ Area(rows[r].cells) /\ rows[r].cells # {}
             /\ rows[r].bounds = Export!Outward(Export!Box(rows[r].cells))
  <2>1. PICK a \in Export!Places : rows[r] = Export!RowOf(a)
    BY <1>3
  <2> QED  BY <1>1, <2>1, CleanRow
<1> HIDE DEF n
<1>5. whole = UNION {rows[r].cells : r \in 1..n}
  BY <1>2 DEF Range
<1>6. Area(whole)
  <2>1. \A r \in 1..n : IsFiniteSet(rows[r].cells) /\ rows[r].cells \subseteq Int \X Int
    BY <1>4 DEF Area
  <2>2. IsFiniteSet({rows[r].cells : r \in 1..n})
    <3>1. [r \in 1..n |-> rows[r].cells] \in Surjection(1..n, {rows[r].cells : r \in 1..n})
      BY DEF Surjection
    <3>2. IsFiniteSet(1..n)
      BY <1>2, FS_Interval
    <3> QED  BY <3>1, <3>2, FS_Surjection
  <2>3. IsFiniteSet(UNION {rows[r].cells : r \in 1..n})
    <3> DEFINE S == {rows[r].cells : r \in 1..n}
    <3>1. IsFiniteSet(S) /\ \A t \in S : IsFiniteSet(t)
      BY <2>1, <2>2
    <3> HIDE DEF S
    <3>2. IsFiniteSet(UNION S)
      BY <3>1, FS_UNION
    <3> QED  BY <3>2 DEF S
  <2>4. UNION {rows[r].cells : r \in 1..n} \subseteq Int \X Int
    BY <2>1
  <2> QED  BY <1>5, <2>3, <2>4 DEF Area
<1>7. \A r \in 1..n : rows[r].cells \subseteq whole
  BY <1>5
<1> HIDE DEF whole
<1>8. file.footer = Export!Box(whole)
  BY DEF Finished, whole
<1> SUFFICES ASSUME NEW w \in Export!Written
             PROVE  LET r == Export!RowAt(w) IN
                    /\ \A p \in r.cells : /\ r.bounds.minx <= p[1] /\ p[1] + 1 <= r.bounds.maxx
                                          /\ r.bounds.miny <= p[2] /\ p[2] + 1 <= r.bounds.maxy
                                          /\ file.footer.minx <= p[1] /\ p[1] + 1 <= file.footer.maxx
                                          /\ file.footer.miny <= p[2] /\ p[2] + 1 <= file.footer.maxy
                    /\ \E p \in r.cells : p[1] < r.bounds.minx + Step
                    /\ \E p \in r.cells : p[1] + 1 > r.bounds.maxx - Step
                    /\ \E p \in r.cells : p[2] < r.bounds.miny + Step
                    /\ \E p \in r.cells : p[2] + 1 > r.bounds.maxy - Step
  BY DEF Export!BoundsExact
<1> DEFINE r == Export!RowAt(w)
           b == r.bounds
           f == file.footer
<1>9. Area(r.cells) /\ r.cells # {} /\ b = Export!Outward(Export!Box(r.cells)) /\ r.cells \subseteq whole
  BY <1>2, <1>4, <1>7
<1> HIDE DEF r
<1>10. /\ \A p \in r.cells : /\ b.minx <= p[1] /\ p[1] + 1 <= b.maxx
                             /\ b.miny <= p[2] /\ p[2] + 1 <= b.maxy
       /\ \E p \in r.cells : p[1] < b.minx + Step
       /\ \E p \in r.cells : p[1] + 1 > b.maxx - Step
       /\ \E p \in r.cells : p[2] < b.miny + Step
       /\ \E p \in r.cells : p[2] + 1 > b.maxy - Step
  BY <1>9, OutwardHolds
<1>11. \A p \in whole : /\ f.minx <= p[1] /\ p[1] + 1 <= f.maxx
                        /\ f.miny <= p[2] /\ p[2] + 1 <= f.maxy
  <2>1. whole # {}
    BY <1>9
  <2> QED  BY <1>6, <1>8, <2>1, BoxIs
<1> QED  BY <1>9, <1>10, <1>11 DEF r

-----------------------------------------------------------------------------
(* A refused write has a cause. *)

Refusals == {"empty", "version", "collision", "duplicate", "bbox"}

LEMMA TroubleHas ==
  ASSUME InputsTyped, NEW n \in DOMAIN inputs, Export!Trouble(n) # None
  PROVE  Export!Trouble(n) \in Refusals /\ Export!RefusedFor
<1> DEFINE in == inputs[n]
           bad == {k \in DOMAIN in.items : Export!RowTrouble(n, k) # None}
           clash == in.defaulted /\ \E m \in 1..(n - 1) :
                      inputs[m].defaulted /\ inputs[m].id = in.id /\ inputs[m].origin # in.origin
           T == Export!RowTrouble(n, Min(bad))
<1>1. n \in Nat \ {0} /\ n \in 1..Len(inputs) /\ DOMAIN inputs = 1..Len(inputs) /\ Len(inputs) \in Nat
  BY DEF InputsTyped
<1>2. DOMAIN in.items \subseteq Nat
  <2>1. in \in InputType
    BY DEF InputsTyped
  <2>2. in.items \in Seq([id : Int, cells : Shapes])
    BY <2>1 DEF InputType
  <2> QED  BY <2>2
<1>3. in \in Range(inputs)
  BY DEF Range
<1>4. Export!Trouble(n) = IF in.items = << >> THEN "empty"
                          ELSE IF in.label = None THEN "version"
                          ELSE IF clash THEN "collision"
                          ELSE IF bad = {} THEN None ELSE T
  BY Same DEF Export!Trouble
<1>5. CASE in.items = << >>
  <2>1. Export!RefusedFor
    BY <1>3, <1>5, Same DEF Export!RefusedFor
  <2>2. Export!Trouble(n) = "empty"
    BY <1>4, <1>5
  <2> QED  BY <2>1, <2>2 DEF Refusals
<1>6. CASE in.items # << >> /\ in.label = None
  <2>1. Export!RefusedFor
    BY <1>3, <1>6, Same DEF Export!RefusedFor
  <2>2. Export!Trouble(n) = "version"
    BY <1>4, <1>6
  <2> QED  BY <2>1, <2>2 DEF Refusals
<1>7. CASE in.items # << >> /\ in.label # None /\ clash
  <2>1. PICK m \in 1..(n - 1) : inputs[m].id = in.id /\ inputs[m].origin # in.origin
    BY <1>7
  <2>2. m \in DOMAIN inputs /\ m # n
    BY <1>1
  <2>3. Export!RefusedFor
    BY <2>1, <2>2 DEF Export!RefusedFor
  <2>4. Export!Trouble(n) = "collision"
    <3> HIDE DEF clash, in
    <3> QED  BY <1>4, <1>7
  <2> QED  BY <2>3, <2>4 DEF Refusals
<1>8. CASE in.items # << >> /\ in.label # None /\ ~clash
  <2>1. bad # {} /\ Export!Trouble(n) = T
    <3> HIDE DEF clash, in, bad, T
    <3> QED  BY <1>4, <1>8
  <2> DEFINE k == Min(bad)
  <2>2. k \in bad
    <3>1. bad \in SUBSET Nat
      BY <1>2
    <3> HIDE DEF bad
    <3> QED  BY <2>1, <3>1, MinOfNats
  <2> HIDE DEF k
  <2>3. k \in DOMAIN in.items /\ Export!RowTrouble(n, k) # None
    BY <2>2
  <2> DEFINE here == <<n, k>>
             Twin(a) == /\ a[1] < n \/ (a[1] = n /\ a[2] < k)
                        /\ Export!Id(a) = Export!Id(here) /\ inputs[a[1]].label = in.label
  <2>4. Export!RowTrouble(n, k) = IF \E a \in Export!Places : Twin(a) THEN "duplicate"
                                  ELSE IF in.items[k].cells = {} THEN "bbox" ELSE None
    BY DEF Export!RowTrouble
  <2>5. here \in Export!Places
    BY <2>3, PlacesAre
  <2> DEFINE r == Export!RowOf(here)
             want == [id |-> r.id, label |-> r.label, cells |-> r.cells,
                      terminal |-> r.terminal, status |-> r.status]
  <2>6. CASE \E a \in Export!Places : Twin(a)
    <3> DEFINE P == Export!Places
               Key(a) == <<Export!RowOf(a).id, Export!RowOf(a).label>>
               K == {Key(a) : a \in P}
               key == [a \in P |-> Key(a)]
    <3>1. PICK a \in P : Twin(a)
      BY <2>6
    <3>2. a # here
      BY <1>1, <1>2, <2>3, <3>1
    <3>3. \A b \in P : Key(b) = <<Export!Id(b), inputs[b[1]].label>>
      BY DEF Export!RowOf
    <3>4. Key(a) = Key(here)
      <4>1. here[1] = n
        OBVIOUS
      <4> HIDE DEF Key
      <4> QED  BY <2>5, <3>1, <3>3, <4>1
    <3>5. IsFiniteSet(P)
      BY PlacesAre
    <3> HIDE DEF Key, P, here
    <3>6. key \in Surjection(P, K)
      BY DEF Surjection
    <3>7. key \notin Injection(P, K)
      BY <2>5, <3>1, <3>2, <3>4 DEF Injection, IsInjective, P
    <3> HIDE DEF key, K
    <3>8. Cardinality(K) <= Cardinality(P) /\ Cardinality(K) # Cardinality(P) /\ IsFiniteSet(K)
      BY <3>5, <3>6, <3>7, FS_Surjection
    <3>9. Cardinality(K) < Cardinality(P)
      <4>1. Cardinality(K) \in Nat /\ Cardinality(P) \in Nat
        BY <3>5, <3>8, FS_CardinalityType
      <4> QED  BY <3>8, <4>1
    <3>10. {<<x.id, x.label>> : x \in Export!Asked} = K
      <4>1. Export!Asked = {LET s == Export!RowOf(b)
                            IN [id |-> s.id, label |-> s.label, cells |-> s.cells,
                                terminal |-> s.terminal, status |-> s.status] : b \in Export!Places}
        BY AskedIs
      <4> DEFINE Have(b) == LET s == Export!RowOf(b)
                            IN [id |-> s.id, label |-> s.label, cells |-> s.cells,
                                terminal |-> s.terminal, status |-> s.status]
      <4>2. \A b : Have(b).id = Export!RowOf(b).id /\ Have(b).label = Export!RowOf(b).label
        OBVIOUS
      <4>3. Export!Asked = {Have(b) : b \in P}
        BY <4>1 DEF P
      <4>4. \A b : <<Have(b).id, Have(b).label>> = Key(b)
        BY <4>2 DEF Key
      <4> HIDE DEF Have
      <4>5. {<<x.id, x.label>> : x \in Export!Asked} = {<<Have(b).id, Have(b).label>> : b \in P}
        BY <4>3
      <4> QED  BY <4>4, <4>5 DEF K
    <3>11. Export!RefusedFor
      BY <3>9, <3>10, Same DEF Export!RefusedFor, Export!RowCount, P
    <3>12. Export!RowTrouble(n, k) = "duplicate"
      BY <2>4, <2>6
    <3> QED  BY <2>1, <3>11, <3>12 DEF Refusals, k
  <2>7. CASE ~\E a \in Export!Places : Twin(a)
    <3>1. in.items[k].cells = {} /\ Export!RowTrouble(n, k) = "bbox"
      <4> HIDE DEF Twin
      <4> QED  BY <2>3, <2>4, <2>7
    <3>2. want \in Export!Asked
      <4>1. Export!Asked = {LET s == Export!RowOf(b)
                            IN [id |-> s.id, label |-> s.label, cells |-> s.cells,
                                terminal |-> s.terminal, status |-> s.status] : b \in Export!Places}
        BY AskedIs
      <4> HIDE DEF here
      <4> QED  BY <2>5, <4>1
    <3>3. want.cells = {}
      BY <3>1 DEF Export!RowOf
    <3> HIDE DEF want
    <3>4. Export!RefusedFor
      BY <3>2, <3>3 DEF Export!RefusedFor
    <3> QED  BY <2>1, <3>1, <3>4 DEF Refusals, k
  <2> QED  BY <2>6, <2>7
<1> QED  BY <1>5, <1>6, <1>7, <1>8

-----------------------------------------------------------------------------
(* What a batch answers can be exported: a terminal, units and their       *)
(* geometries.                                                             *)
Answered(c) ==
  pc[c] = "done" /\ result[c].error = << >> =>
    /\ result[c].terminal \in Int /\ upstream[c].units \in Seq(Int)
    /\ \A n \in DOMAIN upstream[c].units : Area(units[c][upstream[c].units[n]])
    /\ mode[c] \in Refining => Area(result[c].cells)

AnsweredInv == \A c \in Calls : Answered(c)

LEMMA AnsweredKept ==
  ASSUME NEW c, Answered(c), mode' = mode, Own(c)' = Own(c)
  PROVE  Answered(c)'
BY DEF Answered, Own

LEMMA FailedAnswers ==
  ASSUME BatchInv, NEW c \in Calls, NEW e, e # << >>, Fail(c, e)
  PROVE  result'[c].error # << >>
<1>1. result'[c] = [error |-> e]
  BY DEF Fail, BatchInv, Domains
<1> QED  BY <1>1

(* Only the last stage of each kind of call answers. *)
LEMMA AnsweringStage ==
  ASSUME BatchInv, NEW c \in Calls, Stage(c), pc'[c] = "done", result'[c].error = << >>
  PROVE  Dissolve(c) \/ Collect(c) \/ Reaches(c)
<1>1. ASSUME NEW e, e # << >>, Fail(c, e) PROVE FALSE
  BY <1>1, FailedAnswers
<1>2. ASSUME NEW s, s # "done", Goto(c, s) PROVE FALSE
  BY <1>2 DEF Goto, BatchInv, Domains
<1>3. CASE Resolve(c)
  BY <1>1, <1>2, <1>3 DEF Resolve
<1>4. CASE Begin(c)
  BY <1>1, <1>2, <1>4 DEF Begin
<1>5. CASE Walk(c)
  <2>1. UNCHANGED pc \/ Fail(c, <<"traversal">>)
    BY <1>5 DEF Walk
  <2> QED  BY <1>1, <1>5, <2>1 DEF Walk
<1>6. CASE Traversed(c)
  <2>1. (\E u : Fail(c, <<"level", u>>)) \/ Goto(c, "metadata")
    BY <1>6 DEF Traversed
  <2> QED  BY <1>1, <1>2, <2>1
<1>7. CASE Metadata(c)
  <2>1. (\E p : Fail(c, <<"row", p>>)) \/ Goto(c, "geometry")
    BY <1>7 DEF Metadata
  <2> QED  BY <1>1, <1>2, <2>1
<1>8. CASE Geometry(c)
  <2>1. \/ \E at, p, u : Fail(c, Faulty(at, p)) \/ Fail(c, Misfit(c, u))
        \/ Goto(c, "reaches") \/ Goto(c, "collect") \/ Goto(c, "refine")
    BY <1>8 DEF Geometry
  <2>2. \A at, p, u : Misfit(c, u) # << >> /\ Faulty(at, p) # << >>
    BY DEF Misfit, Faulty
  <2> QED  BY <1>1, <1>2, <2>1, <2>2
<1>9. CASE LoseRead(c)
  BY <1>1, <1>9 DEF LoseRead
<1>10. CASE Refine(c)
  <2>1. Goto(c, "dissolve") \/ Fail(c, <<"refinement">>)
    BY <1>10 DEF Refine
  <2> QED  BY <1>1, <1>2, <2>1
<1> QED  BY <1>3, <1>4, <1>5, <1>6, <1>7, <1>8, <1>9, <1>10 DEF Stage

LEMMA AnsweringStep ==
  ASSUME BatchInv, NEW c \in Calls, CallInv(c), Stage(c)
  PROVE  Answered(c)'
<1> SUFFICES ASSUME pc'[c] = "done", result'[c].error = << >>
             PROVE  /\ result'[c].terminal \in Int /\ upstream'[c].units \in Seq(Int)
                    /\ \A n \in DOMAIN upstream'[c].units : Area(units'[c][upstream'[c].units[n]])
                    /\ mode'[c] \in Refining => Area(result'[c].cells)
  BY DEF Answered, Area
<1>1. Dissolve(c) \/ Collect(c) \/ Reaches(c)
  BY AnsweringStage
<1>2. /\ UNCHANGED <<mode, upstream, units>>
      /\ pc[c] \in Joins
  BY <1>1 DEF Dissolve, Collect, Reaches, calls, Joins
<1>3. WalkInv(c) /\ Joined(c)
  BY <1>2 DEF CallInv, Walks, Walked, Reads
<1> DEFINE basin == Basin(terminal[c])
<1>4. /\ DOMAIN units[c] = basin /\ terminal[c] \in basin
      /\ basin \in SUBSET Int /\ IsFiniteSet(basin)
      /\ \A u \in basin : Area(units[c][u])
  BY <1>2, JoinedUnits
<1> DEFINE ids == upstream[c].units
<1>5. ids \in Seq(Int) /\ \A n \in DOMAIN ids : Area(units[c][ids[n]])
  <2>1. ids \in Seq(DOMAIN data.graph)
    BY <1>3 DEF WalkInv, Order
  <2>2. DOMAIN data.graph \subseteq Int
    BY Typed DEF Dataset
  <2>3. \A n \in DOMAIN ids : ids[n] \in DOMAIN units[c]
    <3>1. DOMAIN units[c] = Range(ids)
      BY <1>3 DEF Joined, Wanted
    <3> QED  BY <3>1 DEF Range
  <2> HIDE DEF ids, basin
  <2>4. ids \in Seq(Int)
    BY <2>1, <2>2
  <2> QED  BY <1>4, <2>3, <2>4
<1> HIDE DEF basin
<1>6. result'[c].terminal = terminal[c]
  <2>1. CASE Dissolve(c)
    <3>1. \A e : ~Fail(c, <<"assembly", e>>)
      BY FailedAnswers
    <3> QED  BY <2>1, <3>1 DEF Dissolve, BatchInv, Domains
  <2>2. CASE Collect(c)
    BY <2>2 DEF Collect, BatchInv, Domains
  <2>3. CASE Reaches(c)
    <3>1. ASSUME NEW e, e # << >>, Fail(c, e) PROVE FALSE
      BY <3>1, FailedAnswers
    <3>2. \/ \E n : Fail(c, <<"reach", n>>) \/ Fail(c, <<"reach query", n>>)
          \/ Fail(c, <<"no snap">>)
          \/ \E reaches : Reached(c, reaches)
      BY <2>3 DEF Reaches
    <3>3. PICK reaches : Reached(c, reaches)
      BY <3>1, <3>2
    <3> QED  BY <3>3 DEF Reached, BatchInv, Domains
  <2> QED  BY <1>1, <2>1, <2>2, <2>3
<1>7. ASSUME mode[c] \in Refining PROVE Area(result'[c].cells)
  <2>1. Dissolve(c)
    <3>1. mode[c] # "units" /\ mode[c] # "reaches"
      BY <1>7 DEF Refining
    <3>2. pc[c] # "collect" /\ pc[c] # "reaches"
      BY <3>1 DEF CallInv, Refines
    <3> QED  BY <1>1, <3>2 DEF Collect, Reaches
  <2> DEFINE all == UNION {Pieces(c)[u] : u \in DOMAIN units[c]}
  <2>2. \A e : ~Fail(c, <<"assembly", e>>)
    BY FailedAnswers
  <2>3. result'[c].cells = all
    BY <2>1, <2>2 DEF Dissolve, BatchInv, Domains
  <2>4. refined[c] \subseteq units[c][terminal[c]]
    BY <2>1 DEF Dissolve, CallInv, Refines
  <2>5. \A u \in basin : Area(Pieces(c)[u])
    <3> TAKE u \in basin
    <3>1. Pieces(c)[u] \subseteq units[c][u]
      BY <1>4, <2>4 DEF Pieces
    <3>2. Area(units[c][u])
      BY <1>4
    <3> QED  BY <3>1, <3>2, FS_Subset DEF Area
  <2> DEFINE S == {Pieces(c)[u] : u \in basin}
  <2>6. IsFiniteSet(S)
    <3>1. [u \in basin |-> Pieces(c)[u]] \in Surjection(basin, S)
      BY DEF Surjection
    <3> HIDE DEF S
    <3> QED  BY <1>4, <3>1, FS_Surjection
  <2>7. \A t \in S : IsFiniteSet(t) /\ t \subseteq Int \X Int
    BY <2>5 DEF Area
  <2>8. all = UNION S
    BY <1>4
  <2> HIDE DEF S, all
  <2>9. IsFiniteSet(UNION S)
    BY <2>6, <2>7, FS_UNION
  <2> QED  BY <2>3, <2>7, <2>8, <2>9 DEF Area
<1>8. terminal[c] \in Int
  BY <1>4
<1> QED  BY <1>2, <1>5, <1>6, <1>7, <1>8

LEMMA AnswersStep ==
  ASSUME BatchInv, AnsweredInv, [WatershedNext]_vars
  PROVE  AnsweredInv'
<1> SUFFICES ASSUME NEW d \in Calls PROVE Answered(d)'
  BY DEF AnsweredInv
<1>1. Answered(d)
  BY DEF AnsweredInv
<1>2. BatchNext \/ UNCHANGED batchVars
  BY DEF WatershedNext, ExportBatch, vars
<1>3. CASE UNCHANGED batchVars \/ Overwrite
  <2>1. mode' = mode /\ Own(d)' = Own(d)
    BY <1>3 DEF batchVars, calls, Own, Overwrite
  <2> QED  BY <1>1, <2>1, AnsweredKept
<1>4. CASE Open
  <2>1. pc'[d] # "done"
    BY <1>4 DEF Open
  <2> QED  BY <2>1 DEF Answered
<1>5. CASE Refuse
  <2>1. result'[d].error # << >>
    BY <1>5 DEF Refuse
  <2> QED  BY <2>1 DEF Answered
<1>6. ASSUME NEW c \in Calls, Stage(c) PROVE Answered(d)'
  <2>1. CASE d = c
    <3>1. Running
      BY <1>6, StageEnabled DEF BatchInv, Closed, Refused
    <3> QED  BY <1>6, <2>1, <3>1, AnsweringStep DEF Running
  <2>2. CASE d # c
    <3>1. mode' = mode /\ Own(d)' = Own(d)
      BY <1>6, <2>2, StageFrame
    <3> QED  BY <1>1, <3>1, AnsweredKept
  <2> QED  BY <2>1, <2>2
<1> QED  BY <1>2, <1>3, <1>4, <1>5, <1>6 DEF BatchNext

-----------------------------------------------------------------------------
(* The invariant of an export: how far the file is, and that what it holds *)
(* is cut from the sorted rows.                                            *)
Cut(g) == SubSeq(rows, FirstRow(Len(rows), g), LastRow(Len(rows), g))

Partial ==
  /\ file.groups \in Seq({Cut(g) : g \in 1..GroupCount(Len(rows))})
  /\ Len(file.groups) <= GroupCount(Len(rows))
  /\ \A g \in 1..Len(file.groups) : file.groups[g] = Cut(g)

ExportInv ==
  /\ stage \in {"idle", "rows", "writing", "ok", "sink"} \cup Refusals
  /\ file = [groups |-> file.groups, footer |-> file.footer]
  /\ stage # "idle" => InputsTyped
  /\ stage # "ok" => file.footer = None
  /\ stage \in {"idle", "rows"} \cup Refusals => file.groups = << >>
  /\ stage \in Refusals => Export!RefusedFor
  /\ stage = "writing" => Clean /\ InOrder /\ Partial
  /\ stage = "ok" => Finished

(* What depends on the inputs alone stays while they stay. *)
LEMMA InputsKept ==
  ASSUME UNCHANGED <<kind, inputs>>
  PROVE  /\ InputsTyped' <=> InputsTyped
         /\ Clean' <=> Clean
         /\ Export!Places' = Export!Places
         /\ \A a : Export!RowOf(a)' = Export!RowOf(a) /\ Export!Rank(a)' = Export!Rank(a)
         /\ Export!RefusedFor' <=> Export!RefusedFor
<1>1. InputsTyped' <=> InputsTyped
  BY DEF InputsTyped
<1>2. Export!Places' = Export!Places
  BY DEF Export!Places
<1>3. \A a : Export!Id(a)' = Export!Id(a)
  BY DEF Export!Id
<1>4. \A a : Export!RowOf(a)' = Export!RowOf(a)
  BY <1>3 DEF Export!RowOf
<1>5. \A a : Export!Rank(a)' = Export!Rank(a)
  BY <1>2, <1>4 DEF Export!Rank, Export!Before
<1>7. \A n, k : Export!RowTrouble(n, k)' = Export!RowTrouble(n, k)
  BY <1>2, <1>3 DEF Export!RowTrouble
<1>8. \A n : Export!Trouble(n)' = Export!Trouble(n)
  BY <1>7 DEF Export!Trouble
<1>9. Clean' <=> Clean
  BY <1>1, <1>8 DEF Clean
<1>10. Export!Asked' = Export!Asked /\ Export!RowCount' = Export!RowCount
  BY <1>2 DEF Export!Asked, Export!RowCount
<1>11. Export!RefusedFor' <=> Export!RefusedFor
  BY <1>10 DEF Export!RefusedFor
<1> QED  BY <1>1, <1>2, <1>4, <1>5, <1>9, <1>11

(* Rows in order stay so while they and the inputs stay, and so do rows    *)
(* that become those of a sort.                                            *)
LEMMA OrderKept ==
  ASSUME UNCHANGED <<kind, inputs>>
  PROVE  /\ UNCHANGED rows /\ InOrder => InOrder'
         /\ Clean /\ rows' = Export!Sorted => InOrder'
<1>1. /\ Export!Places' = Export!Places
      /\ \A a : Export!RowOf(a)' = Export!RowOf(a) /\ Export!Rank(a)' = Export!Rank(a)
  BY InputsKept
<1>2. ASSUME UNCHANGED rows, InOrder PROVE InOrder'
  BY <1>1, <1>2 DEF InOrder, Export!Before
<1>3. ASSUME Clean, rows' = Export!Sorted PROVE InOrder'
  <2> DEFINE N == Cardinality(Export!Places)
             sorted == Export!Sorted
  <2>1. /\ N \in Nat \ {0} /\ DOMAIN sorted = 1..N /\ Len(sorted) = N
        /\ sorted = [r \in 1..N |-> sorted[r]]
        /\ \A r \in 1..N : \E a \in Export!Places : Export!Rank(a) = r /\ sorted[r] = Export!RowOf(a)
        /\ \A a \in Export!Places : sorted[Export!Rank(a)] = Export!RowOf(a)
        /\ \A r, s \in 1..N : r < s => Export!Before(sorted[r], sorted[s])
    BY <1>3, SortedIs
  <2>2. rows' = sorted
    BY <1>3
  <2> HIDE DEF sorted
  <2> QED  BY <1>1, <2>1, <2>2 DEF InOrder, Export!Before
<1> QED  BY <1>2, <1>3

LEMMA ExportKept ==
  ASSUME ExportInv, UNCHANGED exportVars
  PROVE  ExportInv'
<1>1. UNCHANGED <<kind, inputs, stage, rows, file>>
  BY DEF exportVars
<1>2. /\ InputsTyped' <=> InputsTyped
      /\ Clean' <=> Clean
      /\ Export!RefusedFor' <=> Export!RefusedFor
      /\ InOrder => InOrder'
  BY <1>1, InputsKept, OrderKept
<1>3. Partial' <=> Partial
  <2>1. \A g : Cut(g)' = Cut(g)
    BY <1>1 DEF Cut
  <2> QED  BY <1>1, <2>1 DEF Partial
<1>4. Finished => Finished'
  BY <1>1, <1>2 DEF Finished, GroupsCut, Export!Box
<1> QED  BY <1>1, <1>2, <1>3, <1>4 DEF ExportInv, Refusals

(* The inputs a batch hands over. *)
LEMMA InputOf ==
  ASSUME BatchInv, AnsweredInv, BatchDone, NEW what \in {"basin", "bundle"},
         NEW item \in [call : Calls, name : Int \cup {None}, method : Int],
         IF what = "basin" THEN Dissolved(item.call) ELSE result[item.call].error = << >>
  PROVE  Input(what, item) \in InputType
<1> DEFINE c == item.call
           ids == upstream[c].units
           Item == [id : Int, cells : Shapes]
           items == IF what = "basin" THEN <<[id |-> result[c].terminal, cells |-> result[c].cells]>>
                    ELSE [n \in DOMAIN upstream[c].units |->
                            [id |-> upstream[c].units[n], cells |-> units[c][upstream[c].units[n]]]]
<1>1. c \in Calls /\ item.name \in Int \cup {None} /\ item.method \in Int
  OBVIOUS
<1>2. result[c].error = << >>
  BY DEF Dissolved
<1>3. /\ result[c].terminal \in Int /\ ids \in Seq(Int)
      /\ \A n \in DOMAIN ids : Area(units[c][ids[n]])
      /\ mode[c] \in Refining => Area(result[c].cells)
  BY <1>1, <1>2 DEF AnsweredInv, Answered, BatchDone
<1>4. items \in Seq(Item)
  <2>1. CASE what = "basin"
    <3>1. mode[c] \in Refining
      BY <1>1, <2>1, Typed DEF Dissolved, Refining
    <3>2. result[c].cells \in Shapes
      BY <1>3, <3>1 DEF Area, Shapes
    <3>3. [id |-> result[c].terminal, cells |-> result[c].cells] \in Item
      BY <1>3, <3>2
    <3> HIDE DEF Item
    <3> QED  BY <2>1, <3>3
  <2>2. CASE what # "basin"
    <3>1. ids \in Seq(Int)
      BY <1>3
    <3>2. DOMAIN ids = 1..Len(ids) /\ Len(ids) \in Nat /\ \A n \in DOMAIN ids : ids[n] \in Int
      <4> HIDE DEF ids
      <4> QED  BY <3>1
    <3>3. \A n \in DOMAIN ids : [id |-> ids[n], cells |-> units[c][ids[n]]] \in Item
      <4>1. \A n \in DOMAIN ids : units[c][ids[n]] \in Shapes
        BY <1>3 DEF Area, Shapes
      <4> HIDE DEF ids
      <4> QED  BY <3>2, <4>1
    <3> DEFINE Entry(n) == [id |-> ids[n], cells |-> units[c][ids[n]]]
    <3>4. items = [n \in DOMAIN ids |-> Entry(n)]
      BY <2>2
    <3> HIDE DEF Item, Entry, ids, items
    <3>5. \A n \in 1..Len(ids) : Entry(n) \in Item
      BY <3>2, <3>3 DEF Entry
    <3>6. [n \in 1..Len(ids) |-> Entry(n)] \in Seq(Item)
      BY <3>2, <3>5
    <3> QED  BY <3>2, <3>4, <3>6
  <2> QED  BY <2>1, <2>2
<1>5. Status(c) \in {"applied", "best_effort_skipped", "disabled"}
  BY DEF Status
<1> DEFINE id == IF item.name = None THEN result[c].terminal ELSE item.name
           defaulted == what = "basin" /\ item.name = None
           label == IF data.version THEN item.method ELSE None
<1>6. id \in Int /\ defaulted \in BOOLEAN /\ label \in Int \cup {None}
  BY <1>1, <1>3
<1>7. Input(what, item) = [id |-> id, defaulted |-> defaulted, origin |-> c, label |-> label,
                           terminal |-> result[c].terminal, status |-> Status(c), items |-> items]
  BY DEF Input
<1>8. InputType = [id : Int, defaulted : BOOLEAN, origin : Calls, label : Int \cup {None}, terminal : Int,
                   status : {"applied", "best_effort_skipped", "disabled"}, items : Seq(Item)]
  BY DEF InputType
<1> HIDE DEF items, Item, id, defaulted, label, c
<1> QED  BY <1>1, <1>3, <1>4, <1>5, <1>6, <1>7, <1>8

LEMMA ExportBatchStep ==
  ASSUME BatchInv, AnsweredInv, ExportInv, ExportBatch
  PROVE  ExportInv'
<1>1. PICK what \in {"basin", "bundle"}, request \in Requests :
        /\ \A n \in DOMAIN request :
             LET c == request[n].call IN
             IF what = "basin" THEN Dissolved(c) ELSE result[c].error = << >>
        /\ Export!Write(what, [n \in DOMAIN request |-> Input(what, request[n])])
  BY DEF ExportBatch
<1> DEFINE Request == [call : Calls, name : Int \cup {None}, method : Int]
<1>2. stage = "idle" /\ stage' = "rows" /\ UNCHANGED <<rows, file>>
      /\ inputs' = [n \in DOMAIN request |-> Input(what, request[n])]
  BY <1>1 DEF Export!Write
<1>3. request \in Seq(Request)
  BY WatershedExportAssumption
<1>4. DOMAIN request = 1..Len(request) /\ Len(request) \in Nat /\ \A n \in DOMAIN request : request[n] \in Request
  <2> HIDE DEF Request
  <2> QED  BY <1>3
<1>5. \A n \in 1..Len(request) : Input(what, request[n]) \in InputType
  <2> TAKE n \in 1..Len(request)
  <2>1. request[n] \in Request
    BY <1>4
  <2>2. IF what = "basin" THEN Dissolved(request[n].call) ELSE result[request[n].call].error = << >>
    BY <1>1, <1>4
  <2> QED  BY <2>1, <2>2, InputOf DEF ExportBatch
<1>6. InputsTyped'
  <2> DEFINE In(n) == Input(what, request[n])
  <2> HIDE DEF In, Request
  <2>1. inputs' = [n \in 1..Len(request) |-> In(n)] /\ \A n \in 1..Len(request) : In(n) \in InputType
    BY <1>2, <1>4, <1>5 DEF In
  <2>2. inputs' \in Seq(InputType)
    BY <1>4, <2>1
  <2> QED  BY <2>2 DEF InputsTyped
<1> QED  BY <1>2, <1>6 DEF ExportInv, Refusals

LEMMA MaterializeStep ==
  ASSUME ExportInv, Export!Materialize
  PROVE  ExportInv'
<1> DEFINE bad == {n \in DOMAIN inputs : Export!Trouble(n) # None}
<1>1. stage = "rows" /\ UNCHANGED <<kind, inputs, file>>
  BY DEF Export!Materialize
<1>2. /\ InputsTyped /\ file.groups = << >> /\ file.footer = None
      /\ file = [groups |-> file.groups, footer |-> file.footer]
  BY <1>1 DEF ExportInv
<1>3. InputsTyped' /\ (Clean' <=> Clean) /\ (Export!RefusedFor' <=> Export!RefusedFor)
  BY <1>1, <1>2, InputsKept
<1>4. CASE inputs = << >>
  <2>1. stage' = "empty"
    BY <1>4 DEF Export!Materialize
  <2>2. Export!RefusedFor
    BY <1>4 DEF Export!RefusedFor
  <2> QED  BY <1>1, <1>2, <1>3, <2>1, <2>2 DEF ExportInv, Refusals
<1>5. CASE inputs # << >> /\ bad # {}
  <2> DEFINE n == Min(bad)
  <2>1. stage' = Export!Trouble(n)
    BY <1>5, Same DEF Export!Materialize
  <2>2. n \in bad
    <3>1. bad \in SUBSET Nat
      BY <1>2 DEF InputsTyped
    <3> HIDE DEF bad
    <3> QED  BY <1>5, <3>1, MinOfNats
  <2> HIDE DEF n
  <2>3. stage' \in Refusals /\ Export!RefusedFor
    BY <1>2, <2>1, <2>2, TroubleHas
  <2> QED  BY <1>1, <1>2, <1>3, <2>3 DEF ExportInv, Refusals
<1>6. CASE inputs # << >> /\ bad = {}
  <2>1. rows' = Export!Sorted /\ stage' = "writing"
    <3> HIDE DEF bad
    <3>1. IF inputs = << >> \/ bad # {}
          THEN /\ stage' = IF inputs = << >> THEN "empty" ELSE Export!Trouble(Export!Min(bad))
               /\ UNCHANGED rows
          ELSE rows' = Export!Sorted /\ stage' = "writing"
      BY DEF Export!Materialize, bad
    <3> QED  BY <1>6, <3>1
  <2>2. Clean
    BY <1>2, <1>6 DEF Clean
  <2>3. Len(Export!Sorted) \in Nat \ {0}
    BY <2>2, SortedIs
  <2>4. Partial'
    <3>1. GroupCount(Len(rows')) \in Nat
      BY <2>1, <2>3, PlanCovers
    <3>2. file'.groups = << >>
      BY <1>1, <1>2
    <3> QED  BY <3>1, <3>2 DEF Partial
  <2>5. InOrder'
    BY <1>1, <2>1, <2>2, OrderKept
  <2> QED  BY <1>1, <1>2, <1>3, <2>1, <2>2, <2>4, <2>5 DEF ExportInv, Refusals
<1> QED  BY <1>4, <1>5, <1>6

LEMMA WriteGroupStep ==
  ASSUME ExportInv, Export!WriteGroup
  PROVE  ExportInv'
<1> DEFINE count == GroupCount(Len(rows))
           k == Len(file.groups)
           Cuts == {Cut(g) : g \in 1..count}
<1>1. stage = "writing" /\ UNCHANGED <<kind, inputs, rows>> /\ k < count
  BY SamePlan, SameSeqs DEF Export!WriteGroup
<1>2. /\ InputsTyped /\ file = [groups |-> file.groups, footer |-> file.footer] /\ file.footer = None
      /\ Clean /\ InOrder /\ Partial
  BY <1>1 DEF ExportInv
<1>3. InputsTyped' /\ Clean' /\ InOrder'
  BY <1>1, <1>2, InputsKept, OrderKept
<1>4. Len(rows) \in Nat \ {0}
  BY <1>2 DEF InOrder
<1>5. count \in Nat
  BY <1>4, PlanCovers
<1>6. Legal(Len(rows))
  BY <1>4, PlanIsLegal
<1>7. stage' = "writing" /\ file' = [file EXCEPT !.groups = Append(@, Cut(k + 1))]
  BY <1>1, <1>6, SamePlan, SameSeqs DEF Export!WriteGroup, Cut
<1> DEFINE groups == file.groups
<1>8. file'.groups = Append(groups, Cut(k + 1)) /\ file'.footer = None
      /\ file' = [groups |-> file'.groups, footer |-> file'.footer]
  BY <1>2, <1>7
<1>9. Partial'
  <2>1. \A g : Cut(g)' = Cut(g)
    BY <1>1 DEF Cut
  <2>2. groups \in Seq(Cuts) /\ \A g \in 1..k : groups[g] = Cut(g)
    BY <1>2 DEF Partial
  <2> HIDE DEF count, groups
  <2>3. k \in Nat /\ k = Len(groups)
    BY <2>2 DEF groups
  <2>4. k + 1 \in 1..count
    BY <1>1, <1>5, <2>3
  <2>5. Cut(k + 1) \in Cuts
    BY <2>4
  <2> HIDE DEF Cuts, k
  <2>6. /\ file'.groups \in Seq(Cuts) /\ Len(file'.groups) = k + 1
        /\ \A g \in 1..(k + 1) : file'.groups[g] = Cut(g)
    <3>1. file'.groups \in Seq(Cuts) /\ Len(file'.groups) = k + 1
      BY <1>8, <2>2, <2>3, <2>5
    <3>2. \A g \in 1..(k + 1) : file'.groups[g] = IF g = k + 1 THEN Cut(k + 1) ELSE groups[g]
      BY <1>8, <2>2, <2>3, <2>5
    <3> QED  BY <2>2, <2>3, <3>1, <3>2
  <2>7. GroupCount(Len(rows))' = count
    BY <1>1 DEF count
  <2> QED  BY <2>1, <2>3, <2>4, <2>6, <2>7 DEF Partial, Cuts
<1> QED  BY <1>1, <1>2, <1>3, <1>7, <1>8, <1>9 DEF ExportInv, Refusals

LEMMA CloseStep ==
  ASSUME ExportInv, Export!Close
  PROVE  ExportInv'
<1>1. /\ stage = "writing" /\ stage' = "ok" /\ UNCHANGED <<kind, inputs, rows>>
      /\ Len(file.groups) = GroupCount(Len(rows))
      /\ file' = [file EXCEPT !.footer = Export!Box(UNION {r.cells : r \in Range(rows)})]
  BY Same, SamePlan, SameSeqs DEF Export!Close
<1>2. /\ InputsTyped /\ file = [groups |-> file.groups, footer |-> file.footer]
      /\ Clean /\ InOrder /\ Partial
  BY <1>1 DEF ExportInv
<1>3. InputsTyped' /\ Clean' /\ InOrder'
  BY <1>1, <1>2, InputsKept, OrderKept
<1>4. /\ file'.groups = file.groups /\ file' = [groups |-> file'.groups, footer |-> file'.footer]
      /\ file'.footer = Export!Box(UNION {r.cells : r \in Range(rows)})
  BY <1>1, <1>2
<1>5. GroupsCut(Len(rows))'
  <2>1. DOMAIN file.groups = 1..GroupCount(Len(rows))
    <3> DEFINE groups == file.groups
               Cuts == {Cut(g) : g \in 1..GroupCount(Len(rows))}
    <3>1. groups \in Seq(Cuts)
      BY <1>2 DEF Partial
    <3> HIDE DEF groups, Cuts
    <3>2. DOMAIN groups = 1..Len(groups)
      BY <3>1
    <3> QED  BY <1>1, <3>2 DEF groups
  <2>2. \A g \in 1..GroupCount(Len(rows)) : file.groups[g] = Cut(g)
    BY <1>1, <1>2 DEF Partial
  <2> QED  BY <1>1, <1>4, <2>1, <2>2 DEF GroupsCut, Cut
<1>6. Finished'
  <2>1. (Export!Box(UNION {r.cells : r \in Range(rows)}))' = Export!Box(UNION {r.cells : r \in Range(rows)})
    BY <1>1 DEF Export!Box
  <2> QED  BY <1>1, <1>2, <1>3, <1>4, <1>5, <2>1 DEF Finished
<1> QED  BY <1>1, <1>3, <1>4, <1>6 DEF ExportInv, Refusals

LEMMA LoseSinkStep ==
  ASSUME ExportInv, Export!LoseSink
  PROVE  ExportInv'
<1>1. stage = "writing" /\ stage' = "sink" /\ UNCHANGED <<kind, inputs, rows, file>>
  BY DEF Export!LoseSink
<1>2. InputsTyped' <=> InputsTyped
  BY <1>1, InputsKept
<1> QED  BY <1>1, <1>2 DEF ExportInv, Refusals

(* A finished file holds each row its inputs ask for once, under an        *)
(* identity no other row has, in the order of the curve and then of the    *)
(* identities; its groups have the sizes of the policy, and the bounds of  *)
(* its rows and of its footer hold their geometries and are tight; a       *)
(* refused write has a cause and has written nothing.  For any dataset,    *)
(* batch and request, and wherever the sink fails.                         *)
THEOREM ExportExactHolds == Spec => []ExportExact
<1> DEFINE Inv == BatchInv /\ AnsweredInv /\ ExportInv
<1>1. WatershedInit => Inv
  <2> SUFFICES ASSUME WatershedInit PROVE Inv
    OBVIOUS
  <2>1. BatchInv
    BY InitBatch DEF WatershedInit
  <2>2. AnsweredInv
    BY DEF WatershedInit, Init, AnsweredInv, Answered
  <2>3. ExportInv
    BY DEF WatershedInit, Export!Idle, ExportInv, Refusals
  <2> QED  BY <2>1, <2>2, <2>3
<1>2. Inv /\ [WatershedNext]_vars => Inv'
  <2> SUFFICES ASSUME Inv, [WatershedNext]_vars PROVE Inv'
    OBVIOUS
  <2>1. BatchInv' /\ AnsweredInv'
    BY BatchStep, AnswersStep
  <2>2. CASE UNCHANGED exportVars
    BY <2>1, <2>2, ExportKept
  <2>3. CASE ExportBatch
    BY <2>1, <2>3, ExportBatchStep
  <2>4. CASE Export!ExportNext
    BY <2>1, <2>4, MaterializeStep, WriteGroupStep, CloseStep, LoseSinkStep DEF Export!ExportNext
  <2> QED  BY <2>1, <2>2, <2>3, <2>4 DEF WatershedNext, vars
<1>3. Inv => ExportExact
  <2> SUFFICES ASSUME ExportInv PROVE Export!ExportExact
    BY DEF ExportExact
  <2>1. stage = "ok" => Export!RowsExact /\ Export!GroupsExact /\ Export!BoundsExact
    BY FinishedRows, FinishedGroups, FinishedBounds DEF ExportInv
  <2>2. stage \notin {"idle", "rows", "writing", "ok", "sink"} => file.groups = << >> /\ Export!RefusedFor
    BY DEF ExportInv
  <2> QED  BY <2>1, <2>2 DEF Export!ExportExact
<1> HIDE DEF Inv
<1> QED  BY <1>1, <1>2, <1>3, PTL DEF Spec

=============================================================================
