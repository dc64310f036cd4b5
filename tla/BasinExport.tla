---------------------------- MODULE BasinExport ----------------------------
(***************************************************************************)
(* BasinGeoParquetWriter::write and UnitBundleGeoParquetWriter::write: the *)
(* inputs are turned into rows, the rows sorted along a Hilbert curve and  *)
(* cut into balanced row groups, and the groups written to a sink that may *)
(* fail at any of them; the footer comes last.                             *)
(*                                                                         *)
(* Both writers run the same protocol.  kind says which one it is: a basin *)
(* input is one row, a bundle has a row for each of its units.  A geometry *)
(* is a set of unit cells <<column, row>>, an f32 a multiple of Step;      *)
(* ids and labels are numbers in the order of their bytes.                 *)
(***************************************************************************)
EXTENDS RowGroups, Sequences, FiniteSets, SequencesExt, FiniteSetsExt

CONSTANTS
  Bits,          \* bits per axis of the Hilbert curve
  Low, Span,     \* both axes go from Low to Low + Span
  Step,          \* distance of two neighbouring f32
  None

ExportAssumption ==
  /\ Bits \in Nat \ {0} /\ Low \in Int /\ Span \in Nat \ {0} /\ Step \in Nat \ {0}
  /\ None \notin {"empty", "version", "collision", "duplicate", "bbox"}

VARIABLES
  kind,     \* "basin" or "bundle"
  inputs,   \* [id, defaulted, origin, label, terminal, status, items]
  stage,    \* "idle", "rows", "writing", "ok", "sink" or a refusal
  rows,     \* the rows, sorted
  file      \* [groups, footer]: what the sink holds

exportVars == <<kind, inputs, stage, rows, file>>

Idle ==
  /\ kind = None /\ inputs = << >> /\ stage = "idle" /\ rows = << >>
  /\ file = [groups |-> << >>, footer |-> None]

-----------------------------------------------------------------------------

(* basin_bbox, of cells that have an area *)
Box(cells) ==
  [minx |-> Min({p[1] : p \in cells}), maxx |-> Max({p[1] : p \in cells}) + 1,
   miny |-> Min({p[2] : p \in cells}), maxy |-> Max({p[2] : p \in cells}) + 1]

(* value as f32: to the nearest, a tie to the even one *)
Nearest(value) ==
  LET below == (value \div Step) * Step
      over == value - below
  IN IF 2 * over < Step \/ (2 * over = Step /\ (below \div Step) % 2 = 0)
     THEN below ELSE below + Step

(* round_f32_toward_negative_infinity, round_f32_toward_positive_infinity *)
RoundedDown(value) == IF Nearest(value) <= value THEN Nearest(value) ELSE Nearest(value) - Step
RoundedUp(value) == IF Nearest(value) >= value THEN Nearest(value) ELSE Nearest(value) + Step

(* Mutant of Outward: the bounds are only narrowed to f32. *)
OutwardNearest(box) ==
  [minx |-> Nearest(box.minx), maxx |-> Nearest(box.maxx),
   miny |-> Nearest(box.miny), maxy |-> Nearest(box.maxy)]

(* outward_f32_bbox *)
Outward(box) ==
  [minx |-> RoundedDown(box.minx), maxx |-> RoundedUp(box.maxx),
   miny |-> RoundedDown(box.miny), maxy |-> RoundedUp(box.maxy)]

(* HILBERT_AXIS_SIZE: 2^bits, the places on a side of the curve. *)
Side[bits \in 0..Bits] == IF bits = 0 THEN 1 ELSE 2 * Side[bits - 1]

(* Twice the distances from Low of the middles of the cells, on one axis. *)
Middles(cells, axis) == MapThenSumSet(LAMBDA p : (2 * (p[axis] - Low)) + 1, cells)

(* quantize_axis, of the centroid of the cells on one axis: the mean of    *)
(* their middles, clamped to Low and Low + Span, the nearest of the places *)
(* between them.                                                           *)
Quantized(cells, axis) ==
  LET over == 2 * Cardinality(cells) * Span
      twice == Middles(cells, axis)
      clamped == IF twice < 0 THEN 0 ELSE IF twice > over THEN over ELSE twice
  IN ((2 * (clamped * (Side[Bits] - 1))) + over) \div (2 * over)

(* xy_to_hilbert_index: the curve of 2^bits places a side is made of four  *)
(* of half the side.                                                       *)
Square(bits) == (0..(Side[bits] - 1)) \X (0..(Side[bits] - 1))

Curve[bits \in 0..Bits] ==
  [p \in Square(bits) |->
     IF bits = 0 THEN 0
     ELSE LET half == Side[bits - 1] IN
          CASE p[1] < half /\ p[2] < half -> Curve[bits - 1][<<p[2], p[1]>>]
            [] p[1] < half /\ p[2] >= half -> half * half + Curve[bits - 1][<<p[1], p[2] - half>>]
            [] p[1] >= half /\ p[2] >= half ->
                 2 * half * half + Curve[bits - 1][<<p[1] - half, p[2] - half>>]
            [] OTHER ->
                 3 * half * half + Curve[bits - 1][<<half - 1 - p[2], half - 1 - (p[1] - half)>>]]

Hilbert(x, y) == Curve[Bits][<<x, y>>]

(* Row k of input n is at <<n, k>>: its identity, its place on the curve,  *)
(* its bounds, true and narrowed.                                          *)
Places == UNION {{<<n, k>> : k \in DOMAIN inputs[n].items} : n \in DOMAIN inputs}

Id(at) == IF kind = "basin" THEN inputs[at[1]].id ELSE inputs[at[1]].items[at[2]].id

RowOf(at) ==
  LET input == inputs[at[1]]
      cells == input.items[at[2]].cells
  IN [id |-> Id(at), label |-> input.label, cells |-> cells,
      terminal |-> input.terminal, status |-> input.status,
      place |-> Hilbert(Quantized(cells, 1), Quantized(cells, 2)), bounds |-> Outward(Box(cells))]

(* The sort key: place, then id, then label. *)
Before(r, s) ==
  \/ r.place < s.place
  \/ r.place = s.place /\ r.id < s.id
  \/ r.place = s.place /\ r.id = s.id /\ r.label < s.label

(* The rows by their keys, no two of which are the same. *)
Rank(at) == 1 + Cardinality({b \in Places : Before(RowOf(b), RowOf(at))})

Sorted == [r \in 1..Cardinality(Places) |-> RowOf(CHOOSE at \in Places : Rank(at) = r)]

(* What ends materialize_rows at row k of input n: a (id, label) that an   *)
(* earlier row has, or a geometry without an area.                         *)
RowTrouble(n, k) ==
  IF \E at \in Places : /\ at[1] < n \/ (at[1] = n /\ at[2] < k)
                        /\ Id(at) = Id(<<n, k>>) /\ inputs[at[1]].label = inputs[n].label
  THEN "duplicate"
  ELSE IF inputs[n].items[k].cells = {} THEN "bbox" ELSE None

(* resolve_input_identity and the loop bodies of materialize_rows.  Of the *)
(* origins of a default id only the last is kept: it is that of all.       *)
Trouble(n) ==
  LET in == inputs[n]
      bad == {k \in DOMAIN in.items : RowTrouble(n, k) # None}
  IN IF in.items = << >> THEN "empty"
     ELSE IF in.label = None THEN "version"
     ELSE IF in.defaulted /\ \E m \in 1..(n - 1) :
                inputs[m].defaulted /\ inputs[m].id = in.id /\ inputs[m].origin # in.origin
     THEN "collision"
     ELSE IF bad = {} THEN None ELSE RowTrouble(n, Min(bad))

(* write, with what a caller passes *)
Write(what, given) ==
  /\ stage = "idle" /\ kind' = what /\ inputs' = given /\ stage' = "rows"
  /\ UNCHANGED <<rows, file>>

(* The rows are materialized and sorted before the sink is touched. *)
Materialize ==
  /\ stage = "rows"
  /\ LET bad == {n \in DOMAIN inputs : Trouble(n) # None} IN
     IF inputs = << >> \/ bad # {}
     THEN /\ stage' = IF inputs = << >> THEN "empty" ELSE Trouble(Min(bad))
          /\ UNCHANGED rows
     ELSE rows' = Sorted /\ stage' = "writing"
  /\ UNCHANGED <<kind, inputs, file>>

(* build_record_batch, write and flush of the next group of the plan *)
WriteGroup ==
  /\ stage = "writing" /\ Len(file.groups) < GroupCount(Len(rows))
  /\ LET g == Len(file.groups) + 1 IN
     IF Legal(Len(rows))
     THEN /\ file' = [file EXCEPT !.groups =
                        Append(@, SubSeq(rows, FirstRow(Len(rows), g), LastRow(Len(rows), g)))]
          /\ UNCHANGED stage
     ELSE stage' = "plan" /\ UNCHANGED file
  /\ UNCHANGED <<kind, inputs, rows>>

(* close, with the dataset_bbox of the geo key *)
Close ==
  /\ stage = "writing" /\ Len(file.groups) = GroupCount(Len(rows))
  /\ file' = [file EXCEPT !.footer = Box(UNION {r.cells : r \in Range(rows)})]
  /\ stage' = "ok"
  /\ UNCHANGED <<kind, inputs, rows>>

(* The sink fails: in a group, or in the footer. *)
LoseSink ==
  /\ stage = "writing" /\ stage' = "sink"
  /\ UNCHANGED <<kind, inputs, rows, file>>

ExportNext == Materialize \/ WriteGroup \/ Close \/ LoseSink

-----------------------------------------------------------------------------
(* The rows the inputs ask for, whatever their order. *)
Asked ==
  UNION {{[id |-> IF kind = "basin" THEN in.id ELSE item.id, label |-> in.label, cells |-> item.cells,
           terminal |-> in.terminal, status |-> in.status] : item \in Range(in.items)} : in \in Range(inputs)}

RowCount == Cardinality(Places)

(* A finished file holds each row asked for once, under an identity no     *)
(* other row has, in one order whatever the order of the inputs: along the *)
(* curve and then by identity.  Its groups keep the policy sizes, a row's  *)
(* f32 bounds hold its geometry and waste less than one f32 a side, and    *)
(* the footer's bounds hold all.  A refused write has a cause and has      *)
(* written nothing.                                                        *)
Written == UNION {{<<g, i>> : i \in DOMAIN file.groups[g]} : g \in DOMAIN file.groups}
RowAt(at) == file.groups[at[1]][at[2]]

RowsExact ==
  LET all == {RowAt(at) : at \in Written} IN
  /\ {[id |-> r.id, label |-> r.label, cells |-> r.cells,
       terminal |-> r.terminal, status |-> r.status] : r \in all} = Asked
  /\ Cardinality(Written) = RowCount /\ Cardinality({<<r.id, r.label>> : r \in all}) = RowCount
  /\ \A a, b \in Written :
       a[1] < b[1] \/ (a[1] = b[1] /\ a[2] < b[2]) => Before(RowAt(a), RowAt(b))

GroupsExact ==
  RowCount >= Smallest =>
    \A g \in DOMAIN file.groups : Len(file.groups[g]) \in Smallest..Target

BoundsExact ==
  \A at \in Written :
    LET r == RowAt(at) IN
    /\ \A p \in r.cells : /\ r.bounds.minx <= p[1] /\ p[1] + 1 <= r.bounds.maxx
                          /\ r.bounds.miny <= p[2] /\ p[2] + 1 <= r.bounds.maxy
                          /\ file.footer.minx <= p[1] /\ p[1] + 1 <= file.footer.maxx
                          /\ file.footer.miny <= p[2] /\ p[2] + 1 <= file.footer.maxy
    /\ \E p \in r.cells : p[1] < r.bounds.minx + Step
    /\ \E p \in r.cells : p[1] + 1 > r.bounds.maxx - Step
    /\ \E p \in r.cells : p[2] < r.bounds.miny + Step
    /\ \E p \in r.cells : p[2] + 1 > r.bounds.maxy - Step

RefusedFor ==
  \/ inputs = << >>
  \/ \E in \in Range(inputs) : in.items = << >> \/ in.label = None
  \/ \E m, n \in DOMAIN inputs : m # n /\ inputs[m].id = inputs[n].id
       /\ (inputs[m].label = inputs[n].label \/ inputs[m].origin # inputs[n].origin)
  \/ \E r \in Asked : r.cells = {}
  \/ Cardinality({<<r.id, r.label>> : r \in Asked}) < RowCount

ExportExact ==
  /\ stage = "ok" => RowsExact /\ GroupsExact /\ BoundsExact
  /\ stage \notin {"idle", "rows", "writing", "ok", "sink"} => file.groups = << >> /\ RefusedFor
=============================================================================
