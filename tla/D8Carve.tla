------------------------------ MODULE D8Carve ------------------------------
(***************************************************************************)
(* refine_terminal of algo/refine.rs: the terminal polygon is rasterized   *)
(* and masks a flow-direction and an accumulation tile, a seed cell is     *)
(* taken from the outlet, and the cells that drain to it are traced.       *)
(*                                                                         *)
(* What the tiles hold is picked when they are loaded, and where the       *)
(* terminal polygon and the outlet lie on them when those are looked at.   *)
(* A coordinate is counted in quarter cells from the tile's upper left     *)
(* corner, as in CellPolygons.                                             *)
(***************************************************************************)
EXTENDS Integers, Sequences, Functions, CellPolygons

CONSTANTS
  Rows, Cols,  \* dimensions of both tiles
  Tiles,       \* the pairs of tiles considered
  Sites,       \* the ways terminal and outlet may lie on them
  NoValue,     \* an accumulation of NaN
  Threshold,   \* the effective threshold, in the declared units
  Alignments   \* how the two tiles may fit together

(* FlowDir::ALL, as steps <<down, right>>: E, SE, S, SW, W, NW, N, NE. *)
D8 == <<<<0, 1>>, <<1, 1>>, <<1, 0>>, <<1, -1>>,
        <<0, -1>>, <<-1, -1>>, <<-1, 0>>, <<-1, 1>>>>

(* DecodedFlowCell: no direction at all, and a GRASS sink or exit. *)
Undefined == << >>
Sink == <<0, 0>>

Cells == (0 .. Rows - 1) \X (0 .. Cols - 1)

(* What the cells of the flow-direction and the accumulation tile hold.    *)
Tile == [flow : [Cells -> Range(D8) \cup {Undefined, Sink}],
         acc : [Cells -> Int \cup {NoValue}]]

(* The terminal, a sequence of polygons, and the RasterOutlet. *)
Site == [terminal : Seq(Seq(Seq(Int \X Int))),
         outlet : [kind : {"vector", "unit"}, row : Int, col : Int]]

CarveAssumption ==
  /\ Rows \in Nat \ {0} /\ Cols \in Nat \ {0}
  /\ Tiles \subseteq Tile /\ Sites \subseteq Site /\ NoValue \notin Int
  /\ Threshold \in Int
  /\ Alignments \subseteq {"aligned", "units", "dims", "geo"}

VARIABLES
  tiles,    \* the two tiles
  site,     \* the terminal polygon and the outlet on them
  mask,     \* the cells of the terminal
  pc,       \* the next step of the call, "done" or "failed", or "idle"
  seed,     \* the seed cell
  visited,  \* cells traced
  stack,    \* traced cells whose neighbours are not yet looked at
  why       \* the error of a failed call

problem == <<tiles, site, mask>>
vars == <<problem, pc, seed, visited, stack, why>>

flow == tiles.flow
acc == tiles.acc
outlet == site.outlet

Init ==
  /\ tiles = << >> /\ site = << >> /\ mask = {}
  /\ pc = "idle" /\ seed = << >> /\ visited = {} /\ stack = << >>
  /\ why = "none"

-----------------------------------------------------------------------------

(* The two tiles are loaded. *)
Enter ==
  /\ pc = "idle"
  /\ tiles' \in Tiles
  /\ pc' = "align"
  /\ UNCHANGED <<site, mask, seed, visited, stack, why>>

(* quantize_grid_cell: the half-open bounds, and the cell of a coordinate. *)
InTile == outlet.row \in 0 .. 4 * Rows - 1 /\ outlet.col \in 0 .. 4 * Cols - 1
Cell == <<outlet.row \div 4, outlet.col \div 4>>

Fail(error) ==
  /\ pc' = "failed" /\ why' = error
  /\ UNCHANGED <<problem, seed, visited, stack>>

(* The declaration and the two tiles must agree and the mask hold a cell. *)
AlignError(a) ==
  IF a = "units" THEN "geographicKm2"
  ELSE IF a = "dims" THEN "dimensionMismatch"
  ELSE IF a = "geo" THEN "geoTransformMismatch"
  ELSE IF mask' = {} THEN "emptyMask" ELSE "none"

Align ==
  /\ pc = "align"
  /\ site' \in Sites
  /\ mask' = Rasterized(site'.terminal, Cells)
  /\ \E a \in Alignments :
       /\ why' = AlignError(a)
       /\ pc' = IF AlignError(a) = "none" THEN "seed" ELSE "failed"
  /\ UNCHANGED <<tiles, seed, visited, stack>>

-----------------------------------------------------------------------------
(* The seed. *)

Plant(c) ==
  /\ seed' = c /\ visited' = {c} /\ stack' = <<c>> /\ pc' = "trace"
  /\ UNCHANGED <<problem, why>>

(* Mutant of VectorError: the threshold itself is not enough. *)
VectorErrorStrict ==
  IF ~ InTile THEN "gridMapping"
  ELSE IF Cell \notin mask THEN "outsideMask"
  ELSE IF flow[Cell] = Undefined THEN "undefinedFlow"
  ELSE IF acc[Cell] = NoValue THEN "undefinedAccumulation"
  ELSE IF acc[Cell] <= Threshold THEN "belowThreshold" ELSE "none"

(* Mutant of VectorError: an outlet off the grid is told as a failed snap. *)
VectorErrorAsSnap ==
  IF ~ InTile THEN "outOfBounds"
  ELSE IF Cell \notin mask THEN "outsideMask"
  ELSE IF flow[Cell] = Undefined THEN "undefinedFlow"
  ELSE IF acc[Cell] = NoValue THEN "undefinedAccumulation"
  ELSE IF acc[Cell] < Threshold THEN "belowThreshold" ELSE "none"

(* The first guard that the vector outlet's cell fails. *)
VectorError ==
  IF ~ InTile THEN "gridMapping"
  ELSE IF Cell \notin mask THEN "outsideMask"
  ELSE IF flow[Cell] = Undefined THEN "undefinedFlow"
  ELSE IF acc[Cell] = NoValue THEN "undefinedAccumulation"
  ELSE IF acc[Cell] < Threshold THEN "belowThreshold" ELSE "none"

(* A vector point keeps its cell or fails. *)
SeedVector ==
  /\ pc = "seed" /\ outlet.kind = "vector"
  /\ IF VectorError # "none" THEN Fail(VectorError) ELSE Plant(Cell)

(* raster_seed_candidates on the masked accumulation tile. *)
Candidates == {c \in mask : acc[c] # NoValue /\ acc[c] >= Threshold}

Distance(c) == (4 * c[1] + 2 - outlet.row) * (4 * c[1] + 2 - outlet.row)
             + (4 * c[2] + 2 - outlet.col) * (4 * c[2] + 2 - outlet.col)

(* Mutant of Nearer: accumulation before distance. *)
NearerByFlow(a, b) ==
  \/ acc[a] > acc[b]
  \/ acc[a] = acc[b] /\ Distance(a) < Distance(b)
  \/ /\ acc[a] = acc[b] /\ Distance(a) = Distance(b)
     /\ a[1] < b[1] \/ (a[1] = b[1] /\ a[2] <= b[2])

(* The ranker's order: distance, accumulation, row, column. *)
Nearer(a, b) ==
  \/ Distance(a) < Distance(b)
  \/ Distance(a) = Distance(b) /\ acc[a] > acc[b]
  \/ /\ Distance(a) = Distance(b) /\ acc[a] = acc[b]
     /\ a[1] < b[1] \/ (a[1] = b[1] /\ a[2] <= b[2])

(* snap_pour_point: a unit's outlet goes to the ranked first candidate. *)
SeedUnit ==
  /\ pc = "seed" /\ outlet.kind = "unit"
  /\ IF ~ InTile THEN Fail("outOfBounds")
     ELSE IF Candidates = {} THEN Fail("noCell")
     ELSE \E c \in Candidates :
            (\A d \in Candidates : Nearer(c, d)) /\ Plant(c)

-----------------------------------------------------------------------------
(* trace_upstream on the masked flow directions. *)

(* Mutant of DrainsTo: the trace runs on the unmasked tile. *)
DrainsToUnmasked(n, c) ==
  \E i \in 1..8 : n = <<c[1] + D8[i][1], c[2] + D8[i][2]>> /\
                  n \in Cells /\ flow[n] = <<-D8[i][1], -D8[i][2]>>

(* get_checked(n) points the opposite way of the step from c to n. *)
DrainsTo(n, c) ==
  \E i \in 1..8 : n = <<c[1] + D8[i][1], c[2] + D8[i][2]>> /\
                  n \in mask /\ flow[n] = <<-D8[i][1], -D8[i][2]>>

Top == stack[Len(stack)]
Rest == SubSeq(stack, 1, Len(stack) - 1)

(* Mutant of Pushed: a cell is new when it is not on the stack. *)
PushedAgain(c, i) ==
  LET n == <<c[1] + D8[i][1], c[2] + D8[i][2]>>
  IN IF DrainsTo(n, c) /\ n \notin Range(stack) THEN <<n>> ELSE << >>

(* The neighbour of c in the i-th direction, if it drains to c and is new. *)
Pushed(c, i) ==
  LET n == <<c[1] + D8[i][1], c[2] + D8[i][2]>>
  IN IF DrainsTo(n, c) /\ n \notin visited THEN <<n>> ELSE << >>

(* The unvisited neighbours that drain to a cell, in the order of D8. *)
Upslope(c) == Pushed(c, 1) \o Pushed(c, 2) \o Pushed(c, 3) \o Pushed(c, 4)
           \o Pushed(c, 5) \o Pushed(c, 6) \o Pushed(c, 7) \o Pushed(c, 8)

(* One turn of the loop: pop a cell, mark and push what drains to it. *)
Trace ==
  /\ pc = "trace" /\ stack # << >>
  /\ visited' = visited \cup Range(Upslope(Top))
  /\ stack' = Rest \o Upslope(Top)
  /\ UNCHANGED <<problem, pc, seed, why>>

(* The polygons of the traced cells. *)
Polygon == Polygonized(visited)

(* The carve ends with its polygons. *)
Polygonize ==
  /\ pc = "trace" /\ stack = << >>
  /\ pc' = "done"
  /\ UNCHANGED <<problem, seed, visited, stack, why>>

Next == Enter \/ Align \/ SeedVector \/ SeedUnit \/ Trace \/ Polygonize

-----------------------------------------------------------------------------
(* Reference definitions. *)

(* The cell that a cell of the mask drains to. *)
Below(c) == IF flow[c] = Undefined THEN c ELSE <<c[1] + flow[c][1], c[2] + flow[c][2]>>

(* The cells of the mask from which n steps down lead to the seed, or less. *)
Drained[n \in 0..Cardinality(mask)] ==
  IF n = 0 THEN {seed}
  ELSE LET below == Drained[n - 1]
       IN below \cup {c \in mask : Below(c) \in below}

(* The cells of the mask whose way down leads to the seed inside it. *)
Catchment == Drained[Cardinality(mask)]

(* What a vector outlet needs of its cell. *)
Usable == /\ InTile /\ Cell \in Candidates /\ flow[Cell] # Undefined

-----------------------------------------------------------------------------
(* Properties. *)

(* The seed of a vector outlet is the cell that holds it, whatever its     *)
(* neighbours offer; only a unit's outlet is moved, and then to the        *)
(* nearest masked cell above the threshold, the larger accumulation and    *)
(* the row-major order deciding between equals.                            *)
SeedHonoursAuthority ==
  pc \in {"trace", "done"} =>
    /\ seed \in Candidates
    /\ outlet.kind = "vector" => seed = Cell
    /\ outlet.kind = "unit" =>
         \A c \in Candidates \ {seed} :
           \/ Distance(seed) < Distance(c)
           \/ /\ Distance(seed) = Distance(c)
              /\ acc[seed] > acc[c] \/
                 (acc[seed] = acc[c] /\
                   seed[1] * Cols + seed[2] < c[1] * Cols + c[2])

(* On aligned tiles a call fails only for want of a seed: a vector outlet  *)
(* whose own cell is unusable, a unit without a candidate or outside.      *)
FailsForWantOfSeed ==
  pc = "failed" /\ why \notin {"geographicKm2", "dimensionMismatch",
                               "geoTransformMismatch"} =>
    IF outlet.kind = "vector" THEN ~ Usable
    ELSE ~ InTile \/ Candidates = {}

(* The carve is exactly what drains to the seed inside the mask, on any    *)
(* tile, flow cycles included.                                             *)
CarveExact == pc = "done" => visited = Catchment /\ visited \subseteq mask

(* The polygons made of it lose no hole and no cell: rasterized, they give *)
(* the carve again.                                                        *)
PolygonsExact == pc = "done" => Rasterized(Polygon, Cells) = visited
=============================================================================
