---------------------------- MODULE CellPolygons ----------------------------
(***************************************************************************)
(* From cells to polygons and back: polygonize follows the border of a     *)
(* mask, and rasterize_multi_polygon takes the cells whose centre polygons *)
(* hold.                                                                   *)
(*                                                                         *)
(* A vertex is <<row, column>> in quarter cells, so that cell <<r, c>> has *)
(* its centre at <<4 * r + 2, 4 * c + 2>>; a ring repeats its first vertex *)
(* and a polygon is a sequence of rings: its exterior, then its holes.     *)
(* Which way around a finished ring is listed is left out.                 *)
(***************************************************************************)
EXTENDS Integers, Sequences, SequencesExt, FiniteSets

(* Row-major order of cells and of corners. *)
Before(a, b) == a[1] < b[1] \/ (a[1] = b[1] /\ a[2] < b[2])

-----------------------------------------------------------------------------
(* polygonize *)

(* The sides of a cell, each with the cell to the right of its direction,  *)
(* and the neighbour beyond it.                                            *)
Sides(cell) ==
  LET n == 4 * cell[1]  s == n + 4  w == 4 * cell[2]  e == w + 4
      Side(a, b, dr, dc) ==
        [of |-> cell, from |-> a, to |-> b, beyond |-> <<cell[1] + dr, cell[2] + dc>>]
  IN {Side(<<n, w>>, <<n, e>>, -1, 0), Side(<<s, e>>, <<s, w>>, 1, 0),
      Side(<<s, w>>, <<n, w>>, 0, -1), Side(<<n, e>>, <<s, e>>, 0, 1)}

(* extract_edges: the sides on the border of the mask. *)
Edges(mask) == {side \in UNION {Sides(c) : c \in mask} : side.beyond \notin mask}

(* Mutant of LastPushed: the edge pushed first. *)
FirstPushed(edges) == CHOOSE e \in edges : \A d \in edges : ~Before(d.of, e.of)

(* The edge pushed last, which is popped first. *)
LastPushed(edges) == CHOOSE e \in edges : \A d \in edges : ~Before(e.of, d.of)

(* One turn of assemble_rings: a ring begins at the first corner with an   *)
(* edge left, goes on by the edge pushed last of those that leave its end, *)
(* and is closed when it comes back to where it began.                     *)
Follow(w) ==
  LET first == CHOOSE e \in w.left : \A d \in w.left : ~Before(d.from, e.from)
      at == IF w.ring = << >> THEN first.from ELSE Last(w.ring)
      edge == LastPushed({e \in w.left : e.from = at})
      ring == (IF w.ring = << >> THEN <<at>> ELSE w.ring) \o <<edge.to>>
  IN [left |-> w.left \ {edge},
      ring |-> IF edge.to = ring[1] THEN << >> ELSE ring,
      rings |-> IF edge.to = ring[1] THEN Append(w.rings, ring) ELSE w.rings]

(* assemble_rings: every turn uses up one edge. *)
Rings(edges) ==
  LET walk[n \in 0..Cardinality(edges)] ==
        IF n = 0 THEN [left |-> edges, ring |-> << >>, rings |-> << >>]
        ELSE Follow(walk[n - 1])
  IN walk[Cardinality(edges)].rings

(* shoelace_area, twice: the sum over the legs of a ring. *)
Area(ring) ==
  LET sum[n \in 0..(Len(ring) - 1)] ==
        IF n = 0 THEN 0
        ELSE sum[n - 1] + ring[n][2] * ring[n + 1][1] - ring[n + 1][2] * ring[n][1]
  IN sum[Len(ring) - 1]

(* The scan line of fill_row_multi, from y, x to lesser columns: the side  *)
(* from a to b counts at its lower end and not at its upper, nor if level. *)
Crosses(a, b, y, x) ==
  /\ (a[1] < y) # (b[1] < y)
  /\ LET across == (y - a[1]) * (b[2] - a[2])
         beside == (x - a[2]) * (b[1] - a[1])
     IN IF a[1] < b[1] THEN across <= beside ELSE across >= beside

Crossings(ring, y, x) == {i \in 1..(Len(ring) - 1) : Crosses(ring[i], ring[i + 1], y, x)}

Inside(ring, y, x) == Cardinality(Crossings(ring, y, x)) % 2 = 1

(* Polygon::contains of geo, for a corner of cells and a ring along their  *)
(* sides: strictly inside, with no cell around it on the other side.       *)
Encloses(ring, corner) ==
  \A y \in {corner[1] - 2, corner[1] + 2}, x \in {corner[2] - 2, corner[2] + 2} :
    Inside(ring, y, x)

(* The elements of seq at the places given, in order: a loop that pushes.  *)
Picked(seq, places) ==
  LET upto[n \in 0..Len(seq)] ==
        IF n = 0 THEN << >>
        ELSE IF n \in places THEN Append(upto[n - 1], seq[n]) ELSE upto[n - 1]
  IN upto[Len(seq)]

(* The holes of the nth polygon: those whose first vertex no polygon       *)
(* before it contains; one that none contains is dropped.                  *)
Holes(n, exteriors, holes) ==
  Picked(holes, {q \in DOMAIN holes :
    /\ Encloses(exteriors[n], holes[q][1])
    /\ \A m \in 1..(n - 1) : ~Encloses(exteriors[m], holes[q][1])})

(* polygonize: a ring of positive area is an exterior, others are holes. *)
Polygonized(mask) ==
  LET rings == Rings(Edges(mask))
      exteriors == Picked(rings, {j \in DOMAIN rings : Area(rings[j]) >= 0})
      holes == Picked(rings, {j \in DOMAIN rings : Area(rings[j]) < 0})
  IN [n \in DOMAIN exteriors |-> <<exteriors[n]>> \o Holes(n, exteriors, holes)]

-----------------------------------------------------------------------------
(* rasterize_multi_polygon: the cells whose centre is inside by the        *)
(* even-odd rule over all rings of all polygons together.                  *)
Rasterized(polygons, cells) ==
  LET Around(c) == UNION {{<<p, r>> : r \in {q \in DOMAIN polygons[p] :
                             Inside(polygons[p][q], 4 * c[1] + 2, 4 * c[2] + 2)}} :
                           p \in DOMAIN polygons}
  IN {c \in cells : Cardinality(Around(c)) % 2 = 1}
=============================================================================
