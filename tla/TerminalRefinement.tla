------------------------- MODULE TerminalRefinement -------------------------
(***************************************************************************)
(* Engine::refine_terminal with the built-in strategy: the mode decides    *)
(* whether to try at all, the session chooses the D8 declaration that      *)
(* covers the terminal, its two raster windows are localized and loaded,   *)
(* the carve runs (module D8Carve), and the mode decides what a failure    *)
(* means.                                                                  *)
(*                                                                         *)
(* The call, the declarations and how their extents lie to the terminal    *)
(* are picked in Init; what the later stages meet is picked as they run.   *)
(***************************************************************************)
EXTENDS Integers, FiniteSets, Sequences

CONSTANTS
  MaxDecls,    \* bound: D8 declarations in the manifest
  Crs,         \* what d8_crs makes of a declared CRS
  Extents,     \* how a raster's extent lies to the terminal's rectangle
  CarveErrors  \* the errors of refine_terminal, a set of names

(* The errors of each stage, by the category of their skip. *)
Unavailable == {"NoCoveringD8Tile", "TerminalSpansD8Tiles",
                "CogExtentHeaderRead", "Cache", "RasterSourceRead"}
Misdeclared == {"D8CrsIdentifierOutOfRange", "UnsupportedD8Crs",
                "InvalidFlowDirectionNodata", "GeographicKm2Unsupported",
                "DimensionMismatch", "GeoTransformMismatch"}
Unsound == {"IntegrityViolation", "TileConstruction", "EmptyRasterMask",
            "SnapFailed", "InverseProjection", "DegenerateTerminalPolygon",
            "EmptyPolygonization"}

ASSUME RefinementAssumption ==
  /\ MaxDecls \in Nat
  /\ Crs \subseteq {"supported", "D8CrsIdentifierOutOfRange",
                    "UnsupportedD8Crs"}
  /\ Extents \subseteq {"covers", "touches", "apart", "unreadable"}
  /\ CarveErrors \subseteq {"GeographicKm2Unsupported", "DimensionMismatch",
       "GeoTransformMismatch", "EmptyRasterMask", "SnapFailed",
       "InverseProjection", "EmptyPolygonization", "VectorOutletUnusable"}

Declarations == [crs: Crs, dir: Extents, acc: Extents]
Calls == [mode: {"Disabled", "BestEffort", "RequireD8"},
          authority: {"VectorPoint", "UnitContainment"},
          bounded: BOOLEAN,  \* the terminal polygon has a bounding rectangle
          source: BOOLEAN,   \* a raster source is attached
          unreadable: BOOLEAN]  \* a D8 declaration of an unknown version

VARIABLES
  call,         \* what the caller asked, with the session's other facts
  decls,        \* the D8 declarations, in manifest order
  pc,           \* the next step
  next,         \* the declaration to examine next
  intersecting, \* declarations both of whose rasters meet the terminal
  covering,     \* declarations both of whose rasters cover it
  read,         \* the raster headers and windows read: <<declaration, what>>
  result        \* the TerminalRefinement or error returned

vars == <<call, decls, pc, next, intersecting, covering, read, result>>

Pending == [outcome |-> "none", why |-> "none", category |-> "none", decl |-> 0]

Kinds == {"dir", "acc"}
Windows == {"dirWindow", "accWindow"}

TypeOK ==
  /\ call \in Calls /\ decls \in UNION {[1..n -> Declarations] : n \in 0..MaxDecls}
  /\ pc \in {"mode", "select", "choose", "source", "localizeDir",
             "localizeAcc", "load", "carve", "returned"}
  /\ next \in 1 .. Len(decls) + 1
  /\ intersecting \in Seq(1 .. Len(decls))
  /\ covering \in Seq(1 .. Len(decls))
  /\ read \subseteq (1 .. Len(decls)) \X (Kinds \cup Windows)
  /\ result.outcome \in (IF pc = "returned" THEN {"Applied", "Error",
                            "BestEffortSkipped", "Disabled"} ELSE {"none"})

Init ==
  /\ call \in Calls
  /\ decls \in UNION {[1..n -> Declarations] : n \in 0..MaxDecls}
  /\ pc = "mode" /\ next = 1 /\ intersecting = << >> /\ covering = << >>
  /\ read = {} /\ result = Pending

-----------------------------------------------------------------------------
(* Outcomes. *)

Return(r) ==
  /\ pc' = "returned" /\ result' = r
  /\ UNCHANGED <<call, decls, next, intersecting, covering>>

Applied(kind, decl) ==
  [Pending EXCEPT !.outcome = "Applied", !.why = kind, !.decl = decl]
Skipped(why, category) ==
  [Pending EXCEPT !.outcome = "BestEffortSkipped", !.why = why,
                  !.category = category]
Error(why) == [Pending EXCEPT !.outcome = "Error", !.why = why]

(* best_effort_skip_reason and BestEffortSkipReason::category. *)
Category(error) ==
  IF error \in Unavailable THEN "Availability"
  ELSE IF error \in Misdeclared THEN "MisDeclaration"
  ELSE "DataGeometryIntegrity"

(* What the engine makes of an error of the strategy. *)
Failure(error) ==
  IF call.mode = "BestEffort" THEN Skipped(error, Category(error))
  ELSE Error(error)

-----------------------------------------------------------------------------
(* The mode. *)

Disabled == pc = "mode" /\ call.mode = "Disabled"
            /\ Return([Pending EXCEPT !.outcome = "Disabled"]) /\ UNCHANGED read

(* Mutant of NoDeclaration: absence is reported before what is unreadable. *)
NoDeclarationFirst ==
  /\ pc = "mode" /\ call.mode # "Disabled" /\ decls = << >>
  /\ Return(IF call.mode = "RequireD8" THEN Error("MissingRequiredD8Aux")
            ELSE IF call.authority = "VectorPoint"
                 THEN Skipped("NoD8AuxDeclared", "Availability")
                 ELSE Skipped("CoarseUnitOnlyNoD8AuxDeclared", "Availability"))
  /\ UNCHANGED read

(* Nothing readable is declared. *)
NoDeclaration ==
  /\ pc = "mode" /\ call.mode # "Disabled" /\ decls = << >>
  /\ Return(IF call.mode = "RequireD8" THEN Error("MissingRequiredD8Aux")
            ELSE IF call.unreadable
                 THEN Skipped("UnreadableD8AuxDeclared", "MisDeclaration")
            ELSE IF call.authority = "VectorPoint"
                 THEN Skipped("NoD8AuxDeclared", "Availability")
                 ELSE Skipped("CoarseUnitOnlyNoD8AuxDeclared", "Availability"))
  /\ UNCHANGED read

Begin ==
  /\ pc = "mode" /\ call.mode # "Disabled" /\ decls # << >>
  /\ IF call.bounded
     THEN pc' = "select" /\ UNCHANGED <<call, decls, next, intersecting,
                                        covering, read, result>>
     ELSE Return(Failure("DegenerateTerminalPolygon")) /\ UNCHANGED read

-----------------------------------------------------------------------------
(* select_d8_raster_for_terminal. *)

(* Mutant of Goes: a declaration is stepped over. *)
GoesTwice(i) == /\ next' = i + 2
                /\ pc' = IF i + 1 >= Len(decls) THEN "choose" ELSE "select"
                /\ UNCHANGED <<call, decls, result>>

(* On to the next declaration, or out of the loop. *)
Goes(i) == /\ next' = i + 1
           /\ pc' = IF i = Len(decls) THEN "choose" ELSE "select"
           /\ UNCHANGED <<call, decls, result>>

(* Mutant of Examine: the accumulation raster's extent is not looked at. *)
ExamineDirOnly ==
  /\ pc = "select"
  /\ LET d == decls[next] IN
     IF d.crs # "supported" THEN Return(Failure(d.crs)) /\ UNCHANGED read
     ELSE /\ read' = read \cup {<<next, "dir">>}
          /\ IF d.dir = "unreadable" THEN Return(Failure("CogExtentHeaderRead"))
             ELSE /\ Goes(next)
                  /\ intersecting' = IF d.dir = "apart" THEN intersecting
                                     ELSE Append(intersecting, next)
                  /\ covering' = IF d.dir = "covers" THEN Append(covering, next)
                                 ELSE covering

(* One declaration: its CRS, the extent of its flow-direction raster and,  *)
(* only if that meets the terminal, of its accumulation raster.            *)
Examine ==
  /\ pc = "select"
  /\ LET d == decls[next] IN
     IF d.crs # "supported" THEN Return(Failure(d.crs)) /\ UNCHANGED read
     ELSE IF d.dir \in {"apart", "unreadable"}
     THEN /\ read' = read \cup {<<next, "dir">>}
          /\ IF d.dir = "unreadable" THEN Return(Failure("CogExtentHeaderRead"))
             ELSE Goes(next) /\ UNCHANGED <<intersecting, covering>>
     ELSE /\ read' = read \cup {<<next, "dir">>, <<next, "acc">>}
          /\ IF d.acc = "unreadable" THEN Return(Failure("CogExtentHeaderRead"))
             ELSE /\ Goes(next)
                  /\ intersecting' = IF d.acc = "apart" THEN intersecting
                                     ELSE Append(intersecting, next)
                  /\ covering' = IF d.dir = "covers" /\ d.acc = "covers"
                                 THEN Append(covering, next) ELSE covering

(* Mutant of Chosen: the last of them. *)
ChosenLast == covering[Len(covering)]

(* The manifest-first covering declaration. *)
Chosen == covering[1]

(* Mutant of Choose: one declaration that meets the terminal is a span.    *)
ChooseSpanOfOne ==
  /\ pc = "choose" /\ UNCHANGED read
  /\ IF covering # << >>
     THEN pc' = "source" /\ UNCHANGED <<call, decls, next, intersecting,
                                        covering, result>>
     ELSE Return(Failure(IF intersecting # << >> THEN "TerminalSpansD8Tiles"
                         ELSE "NoCoveringD8Tile"))

Choose ==
  /\ pc = "choose" /\ UNCHANGED read
  /\ IF covering # << >>
     THEN pc' = "source" /\ UNCHANGED <<call, decls, next, intersecting,
                                        covering, result>>
     ELSE Return(Failure(IF Len(intersecting) > 1 THEN "TerminalSpansD8Tiles"
                         ELSE "NoCoveringD8Tile"))

-----------------------------------------------------------------------------
(* The strategy, on the chosen declaration. *)

Advance(to) == pc' = to /\ UNCHANGED <<call, decls, next, intersecting,
                                       covering, result>>

(* Mutant of NoSource: the strategy's skip is returned in every mode. *)
NoSourceSkips ==
  /\ pc = "source" /\ ~ call.source /\ UNCHANGED read
  /\ Return(Skipped("NoRasterSourceProvided", "Availability"))

(* Without a raster source the strategy decides to skip, which             *)
(* terminal_refinement_from_decision turns into an error in strict mode.   *)
NoSource ==
  /\ pc = "source" /\ ~ call.source /\ UNCHANGED read
  /\ Return(IF call.mode = "BestEffort"
            THEN Skipped("NoRasterSourceProvided", "Availability")
            ELSE Error("RequiredD8RasterSourceMissing"))

WithSource == pc = "source" /\ call.source /\ Advance("localizeDir")
              /\ UNCHANGED read

(* localize_d8_raster_window: the remote window cache may fail. *)
Localize(what, to) ==
  /\ read' = read \cup {<<Chosen, what>>}
  /\ \/ Advance(to)
     \/ \E error \in {"Cache", "IntegrityViolation"} : Return(Failure(error))

LocalizeDir == pc = "localizeDir" /\ Localize("dirWindow", "localizeAcc")
LocalizeAcc == pc = "localizeAcc" /\ Localize("accWindow", "load")

(* Both tiles are loaded from the localized windows. *)
Load ==
  /\ pc = "load" /\ UNCHANGED read
  /\ \/ Advance("carve")
     \/ \E error \in {"RasterSourceRead", "InvalidFlowDirectionNodata",
                      "TileConstruction"} : Return(Failure(error))

SeedKind == IF call.authority = "VectorPoint" THEN {"VectorOutletQuantized"}
            ELSE {"RasterOutletRanked"}

(* Only a vector outlet fails a guard, and only a unit's fails to snap. *)
CarveError(error) ==
  /\ error = "VectorOutletUnusable" => call.authority = "VectorPoint"
  /\ error = "SnapFailed" => call.authority = "UnitContainment"

Carve ==
  /\ pc = "carve" /\ UNCHANGED read
  /\ \/ \E kind \in SeedKind : Return(Applied(kind, Chosen))
     \/ \E error \in CarveErrors :
          CarveError(error) /\ Return(Failure(error))

Next == \/ Disabled \/ NoDeclaration \/ Begin \/ Examine \/ Choose
        \/ NoSource \/ WithSource \/ LocalizeDir \/ LocalizeAcc
        \/ Load \/ Carve

Spec == Init /\ [][Next]_vars

-----------------------------------------------------------------------------
(* Reference definitions. *)

Covers(i) == decls[i].dir = "covers" /\ decls[i].acc = "covers"
Meets(i) == /\ decls[i].dir \in {"covers", "touches"}
            /\ decls[i].acc \in {"covers", "touches"}

(* The declaration cannot be judged: it fails the selection, even when     *)
(* another one covers the terminal.                                        *)
Broken(i) == \/ decls[i].crs # "supported"
             \/ decls[i].dir = "unreadable"
             \/ decls[i].dir # "apart" /\ decls[i].acc = "unreadable"

Returned == pc = "returned"

-----------------------------------------------------------------------------
(* Properties. *)

(* RequireD8 applies the refinement or fails; it never returns the coarse  *)
(* terminal, whatever stage gave up.  Nor does it pretend to have skipped. *)
StrictNeverCoarse ==
  Returned /\ call.mode = "RequireD8" => result.outcome \in {"Applied", "Error"}

(* BestEffort never loses a delineation to its refinement: every failure   *)
(* is a skip, filed under the category of its cause.                       *)
BestEffortSkips ==
  Returned /\ call.mode = "BestEffort" =>
    /\ result.outcome \in {"Applied", "BestEffortSkipped"}
    /\ result.outcome = "BestEffortSkipped" =>
         result.category = IF result.why \in {"UnreadableD8AuxDeclared"} \cup Misdeclared
                     THEN "MisDeclaration"
                     ELSE IF result.why \in Unsound \cup {"VectorOutletUnusable"}
                     THEN "DataGeometryIntegrity" ELSE "Availability"
    /\ (decls = << >> /\ call.unreadable) = (result.why = "UnreadableD8AuxDeclared")

(* The raster that is carved is the manifest-first one whose two extents   *)
(* both cover the terminal, and every declaration could be judged.         *)
ManifestFirstCovers ==
  Returned /\ result.outcome = "Applied" =>
    /\ Covers(result.decl)
    /\ \A i \in 1 .. result.decl - 1 : ~ Covers(i)
    /\ \A i \in 1 .. Len(decls) : ~ Broken(i)

(* A selection fails for the reason its declarations give: a broken one,   *)
(* or none that covers, told apart by how many meet the terminal.          *)
SelectionExact ==
  /\ Returned /\ result.why = "TerminalSpansD8Tiles" =>
       /\ \A i \in 1 .. Len(decls) : ~ Covers(i) /\ ~ Broken(i)
       /\ \E i, j \in 1 .. Len(decls) : i # j /\ Meets(i) /\ Meets(j)
  /\ Returned /\ result.why = "NoCoveringD8Tile" =>
       /\ \A i \in 1 .. Len(decls) : ~ Covers(i) /\ ~ Broken(i)
       /\ \A i, j \in 1 .. Len(decls) : Meets(i) /\ Meets(j) => i = j
  /\ Returned /\ result.why \in {"CogExtentHeaderRead"} \cup (Crs \ {"supported"}) =>
       \E i \in 1 .. Len(decls) : Broken(i)

(* Windows are fetched for one declaration only, the chosen one, once the  *)
(* whole selection is over and a raster source is there to read them.      *)
FetchesOnlyChosen ==
  \A i \in 1 .. Len(decls) : \A w \in Windows :
    <<i, w>> \in read =>
      /\ call.source /\ call.mode # "Disabled"
      /\ Covers(i) /\ \A j \in 1 .. i - 1 : ~ Covers(j)
      /\ \A j \in 1 .. Len(decls) : ~ Broken(j)
=============================================================================
