--------------------------- MODULE MCTerminalCarve ---------------------------
(* Instances of TerminalCarve for TLC. *)
EXTENDS TerminalCarve, SequencesExt, TLC

To == INSTANCE CellPolygons

AllCarveErrors ==
  {"GeographicKm2Unsupported", "DimensionMismatch", "GeoTransformMismatch",
   "EmptyRasterMask", "SnapFailed", "InverseProjection",
   "EmptyPolygonization", "VectorOutletUnusable"}

Cells == (0 .. Rows - 1) \X (0 .. Cols - 1)
Corner == (0 .. 1) \X (0 .. 1)
InCorner(f, other) == f @@ [c \in Cells \ Corner |-> other]

(* A rectangle over cell c that reaches so many quarters into its rows. *)
Patch(c, quarters) ==
  LET n == 4 * c[1]  s == n + quarters  w == 4 * c[2]  e == w + 4
  IN << <<<<n, w>>, <<n, e>>, <<s, e>>, <<s, w>>, <<n, w>>>> >>

Patches(cover) ==
  LET cells == SetToSeq({c \in DOMAIN cover : cover[c] > 0})
  IN << >> \o [n \in DOMAIN cells |-> Patch(cells[n], cover[cells[n]])]

(* Flows that make cycles of three and of two cells. *)
Turning == {<<0, 1>>, <<1, 0>>, <<-1, -1>>}
ToAndFro == {<<0, 1>>, <<0, -1>>}

(* Any flow in one corner of the tile under an accumulation that suits     *)
(* every cell of it, with any mask and from the centre of every cell.      *)
TraceTiles ==
  {[flow |-> InCorner(f, << >>), acc |-> InCorner([c \in Corner |-> Threshold], NoValue)] :
     f \in [Corner -> Turning] \cup [Corner -> ToAndFro]}
SitesOf(terminals, outlets) ==
  {[terminal |-> t, outlet |-> o] : t \in terminals, o \in outlets}
TraceSites ==
  SitesOf({Patches([c \in cells |-> 3]) : cells \in SUBSET Corner},
          [kind : {"unit"}, row : {2, 6}, col : {2, 6}])

(* Any accumulation and a first cell without a direction or a sink, with a *)
(* mask of at least the second column and outlets on borders, between      *)
(* centres and outside; a terminal that ends in the centre of a cell holds *)
(* it and one that begins there does not.                                  *)
SeedTiles ==
  {[flow |-> InCorner([c \in Corner |-> IF c = <<0, 0>> THEN d ELSE <<0, -1>>], << >>),
    acc |-> InCorner(a, NoValue)] :
     d \in {<< >>, <<0, 0>>},
     a \in {b \in [Corner -> {Threshold - 1, Threshold, Threshold + 1, NoValue}] :
              b[<<1, 1>>] \in {Threshold, NoValue}}}
SeedSites ==
  SitesOf({Patches([c \in Corner |-> IF c[2] = 1 THEN 4 ELSE IF c \in in THEN 2 ELSE 1]) :
             in \in SUBSET {<<0, 0>>, <<1, 0>>}},
          [kind : {"vector", "unit"}, row : {2, 3}, col : {2, 4}] \cup
          [kind : {"vector", "unit"}, row : {2}, col : {-1}] \cup
          [kind : {"vector", "unit"}, row : {4 * Rows}, col : {4}])

(* Masks of all shapes, rings and lakes with joints at corners among them, *)
(* each with a flow that leads from every cell of it to the first.         *)
Steps == {s \in (-1 .. 1) \X (-1 .. 1) : s # <<0, 0>>}
Onward(c, reached) == {s \in Steps : <<c[1] + s[1], c[2] + s[2]>> \in reached}
Grow(cells, f) ==
  f @@ [c \in {d \in cells \ DOMAIN f : Onward(d, DOMAIN f) # {}} |->
          CHOOSE s \in Onward(c, DOMAIN f) : TRUE]
FlowOver(cells) ==
  LET first == CHOOSE c \in cells : \A d \in cells : ~To!Before(d, c)
      flow[n \in 0 .. Rows + Cols + 2] ==
        IF n = 0 THEN first :> <<0, 0>> ELSE Grow(cells, flow[n - 1])
  IN flow[Rows + Cols + 2]
Square == (0 .. 2) \X (0 .. 2)
Frame == {c \in Cells : c[1] \in {0, Rows - 1} \/ c[2] \in {0, Cols - 1}}
Shapes == (SUBSET Square \ {{}}) \cup {Frame \cup i : i \in SUBSET (Cells \ Frame)}
ShapeTiles ==
  {[flow |-> f @@ [c \in Cells |-> << >>],
    acc |-> [c \in {d \in DOMAIN f : f[d] = <<0, 0>>} |-> Threshold] @@ [c \in Cells |-> 1]] :
     f \in {FlowOver(cells) : cells \in Shapes}}

(* A triangle that holds every centre, within and beyond the tile. *)
Triangle ==
  << << <<<<-1, -1>>, <<-1, 8 * Cols>>, <<8 * Rows, -1>>, <<-1, -1>>>> >> >>
ShapeSites == SitesOf({Triangle}, {[kind |-> "unit", row |-> 2, col |-> 2]})

(* Tiles of which one succeeds and one fails. *)
FewTiles == {[flow |-> << >> @@ [c \in Cells |-> <<0, -1>>], acc |-> << >> @@ [c \in Cells |-> v]] :
              v \in {Threshold, NoValue}}
FewSites == SitesOf({<<Patch(<<0, 0>>, 4)>>},
                    [kind : {"vector", "unit"}, row : {2}, col : {2}])

(* In sets that TLC lists once. *)
AllTiles == TraceTiles \cup SeedTiles \cup ShapeTiles \cup FewTiles
AllSites == TraceSites \cup SeedSites \cup ShapeSites \cup FewSites
SomeTiles == AllTiles
SomeSites == AllSites

(* All carves are run in strict mode for a single declaration; for other   *)
(* calls that get as far, one that succeeds and one that fails; only these *)
(* are also run on tiles that do not fit together.                         *)
AnyCarve ==
  call.mode = "RequireD8" /\ ~ call.unreadable
    /\ decls = <<[crs |-> "supported", dir |-> "covers", acc |-> "covers"]>>

TilesOfCall == IF ~ AnyCarve THEN FewTiles
               ELSE IF OutletKind = "vector" THEN SeedTiles ELSE SomeTiles
SitesOfCall == IF ~ AnyCarve THEN FewSites
               ELSE IF OutletKind = "unit" /\ tiles \in TraceTiles
               THEN TraceSites
               ELSE IF OutletKind = "unit" /\ tiles \in ShapeTiles THEN ShapeSites
               ELSE SeedSites

Loading == pc = "carve" /\ carvePc = "idle"
Aligning == pc = "carve" /\ carvePc = "align"

BoundedNext ==
  \/ ~ Loading /\ ~ Aligning /\ CarveNext
  \/ Loading /\ tiles' \in TilesOfCall /\ CarveStep
  \/ /\ Aligning /\ site' \in SitesOfCall /\ CarveStep
     /\ tiles \in FewTiles \/ why' \in {"none", "emptyMask"}

BoundedSpec == CarveInit /\ [][BoundedNext]_<<vars, carveVars>>
                         /\ WF_<<vars, carveVars>>(BoundedNext)
=============================================================================
