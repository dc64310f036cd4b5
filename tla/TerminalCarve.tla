---------------------------- MODULE TerminalCarve ----------------------------
(***************************************************************************)
(* Engine::refine_terminal down to the cells: TerminalRefinement with its  *)
(* one-step carve replaced by the procedure of D8Carve on the two tiles    *)
(* that were loaded.                                                       *)
(***************************************************************************)
EXTENDS TerminalRefinement

CONSTANTS Rows, Cols, Tiles, Sites, NoValue, Threshold, Alignments

VARIABLES tiles, site, mask, carvePc, seed, visited, stack, why

carveVars == <<tiles, site, mask, carvePc, seed, visited, stack, why>>

D8 == INSTANCE D8Carve WITH pc <- carvePc

ASSUME D8Assumption == D8!CarveAssumption

CarveInit == Init /\ D8!Init

(* Everything before the carve, as in TerminalRefinement. *)
Stages ==
  \/ Disabled \/ NoDeclaration \/ Begin \/ Examine \/ Choose
  \/ NoSource \/ WithSource \/ LocalizeDir \/ LocalizeAcc \/ Load

(* The kind of RasterOutlet that the authority of the outlet makes. *)
OutletKind == IF call.authority = "VectorPoint" THEN "vector" ELSE "unit"

(* One step of refine_terminal, with an outlet of that kind. *)
CarveStep ==
  /\ pc = "carve"
  /\ D8!Next
  /\ carvePc = "align" => site'.outlet.kind = OutletKind
  /\ UNCHANGED vars

(* The RefinementError that a failed carve returns. *)
ErrorOf(reason) ==
  CASE reason = "geographicKm2" -> "GeographicKm2Unsupported"
    [] reason = "dimensionMismatch" -> "DimensionMismatch"
    [] reason = "geoTransformMismatch" -> "GeoTransformMismatch"
    [] reason = "emptyMask" -> "EmptyRasterMask"
    [] reason \in {"outOfBounds", "noCell"} -> "SnapFailed"
    [] OTHER -> "VectorOutletUnusable"

(* The provenance names the way the seed was found. *)
SeedReason ==
  IF site.outlet.kind = "vector" THEN "VectorOutletQuantized"
  ELSE "RasterOutletRanked"

(* The carve failed, or its polygon is projected back and applied; there   *)
(* is no polygon without an edge.                                          *)
CarveEnds ==
  /\ pc = "carve" /\ UNCHANGED <<read, carveVars>>
  /\ \/ carvePc = "failed" /\ Return(Failure(ErrorOf(why)))
     \/ /\ carvePc = "done"
        /\ IF D8!Edges(visited) = {} THEN Return(Failure("EmptyPolygonization"))
           ELSE \/ Return(Applied(SeedReason, Chosen))
                \/ Return(Failure("InverseProjection"))

CarveNext ==
  \/ Stages /\ UNCHANGED carveVars
  \/ CarveStep
  \/ CarveEnds

CarveSpec == CarveInit /\ [][CarveNext]_<<vars, carveVars>>
                       /\ WF_<<vars, carveVars>>(CarveNext)

-----------------------------------------------------------------------------
(* Properties. *)

(* The seed of a vector outlet is the cell that holds it, whatever its     *)
(* neighbours offer, and of a unit's the nearest candidate; and a carve on *)
(* aligned tiles fails only for want of a seed of that kind.               *)
SeedHonoursAuthority ==
  pc = "carve" /\ carvePc \notin {"idle", "align"} =>
    D8!SeedHonoursAuthority /\ D8!FailsForWantOfSeed

(* What is applied is exactly what drains to the seed inside the terminal, *)
(* on any tile, flow cycles included: never empty, never outside the mask. *)
CarveExact ==
  /\ pc = "carve" /\ carvePc = "done" => D8!CarveExact
  /\ result.why # "EmptyPolygonization"

(* And it is applied as polygons of the same cells. *)
PolygonsExact == pc = "carve" /\ carvePc = "done" => D8!PolygonsExact

(* To the engine the procedure on cells is the one step it was taken for:  *)
(* every behaviour is one of TerminalRefinement.                           *)
ImplementsRefinement == Init /\ [][Next]_vars

(* Every call returns, the trace of a cyclic flow included. *)
Returns == <>(pc = "returned")
=============================================================================
