------------------------ MODULE TerminalCarveProofs ------------------------
(***************************************************************************)
(* Proofs about the refinement of a terminal, for any number of            *)
(* declarations and tiles of any size and content.                         *)
(*                                                                         *)
(* First TerminalRefinement, where the carve is one step: the strict mode  *)
(* never yields a coarse terminal and best effort never fails, the raster  *)
(* carved is the manifest-first one that covers, windows are fetched for   *)
(* that one only, and a failed selection has the reason it gives.  Then    *)
(* TerminalCarve: the seed, the cells traced, and that the carve on cells  *)
(* implements the one step, so that all of it holds of the whole call.     *)
(* Last CellPolygons: the polygons made of a mask of any shape hold just   *)
(* its cells, by how often their rings wind around a cell.                 *)
(***************************************************************************)
EXTENDS TerminalCarve, CellPolygons, FiniteSetTheorems, TLAPS

Chosens == {"source", "localizeDir", "localizeAcc", "load", "carve"}

(* What the loop over the declarations has established so far. *)
Judged == \A i \in 1 .. next - 1 : ~ Broken(i)

CoveringScanned ==
  /\ covering = << >> => \A i \in 1 .. next - 1 : ~ Covers(i)
  /\ covering # << >> =>
       /\ covering[1] \in 1 .. next - 1 /\ Covers(covering[1])
       /\ \A i \in 1 .. covering[1] - 1 : ~ Covers(i)

IntersectingScanned ==
  /\ intersecting = << >> => \A i \in 1 .. next - 1 : ~ Meets(i)
  /\ intersecting # << >> => intersecting[1] \in 1 .. next - 1 /\ Meets(intersecting[1])
  /\ Len(intersecting) = 1 =>
       \A i \in 1 .. next - 1 : Meets(i) => i = intersecting[1]
  /\ Len(intersecting) > 1 =>
       /\ intersecting[2] \in 1 .. next - 1 /\ Meets(intersecting[2])
       /\ intersecting[2] # intersecting[1]

(* Where the call stands. *)
Staged ==
  /\ pc = "select" => next <= Len(decls)
  /\ pc \in {"choose"} \cup Chosens => next = Len(decls) + 1
  /\ pc \in Chosens => covering # << >>
  /\ pc \in Chosens \ {"source"} => call.source
  /\ pc \notin {"mode", "returned"} => call.mode # "Disabled"
  /\ pc = "mode" => next = 1
  /\ pc # "returned" => result = Pending

(* The inductive invariant.  The loop's two vectors only say what they     *)
(* seem to say together with the index reached, and the windows read only  *)
(* because selection is over by then.                                      *)
IInv == /\ TypeOK /\ Judged /\ CoveringScanned /\ IntersectingScanned /\ Staged
        /\ StrictNeverCoarse /\ ManifestFirstCovers /\ SelectionExact
        /\ FetchesOnlyChosen

(* The call and the declarations never change. *)
LEMMA Fixed == [Next]_vars => call' = call /\ decls' = decls
BY DEF Next, vars, Disabled, NoDeclaration, Begin, Examine, Choose, NoSource,
   WithSource, LocalizeDir, LocalizeAcc, Load, Carve, Localize, Return, Goes,
   Advance

(* The initial states satisfy the invariant. *)
LEMMA InitIInv == Init => IInv
BY DEF Init, IInv, TypeOK, Judged, CoveringScanned, IntersectingScanned, Staged,
   StrictNeverCoarse, ManifestFirstCovers, SelectionExact, FetchesOnlyChosen,
   Pending, Chosens, Returned, Windows, Kinds

(* What a failing stage returns. *)
LEMMA FailureShape ==
  ASSUME NEW error
  PROVE  /\ Failure(error).why = error
         /\ Failure(error).outcome =
              IF call.mode = "BestEffort" THEN "BestEffortSkipped" ELSE "Error"
BY DEF Failure, Skipped, Error, Pending

(* An action that leaves the loop's variables alone keeps what it found. *)
LEMMA ScanKept ==
  Judged /\ CoveringScanned /\ IntersectingScanned
  /\ UNCHANGED <<call, decls, next, covering, intersecting>>
    => Judged' /\ CoveringScanned' /\ IntersectingScanned'
BY DEF Judged, CoveringScanned, IntersectingScanned, Broken, Covers, Meets

(* Returning a failure for an error that selection does not raise. *)
LEMMA FailsAfterSelection ==
  ASSUME IInv, NEW error, Return(Failure(error)), call.mode # "Disabled",
         read' \subseteq (1 .. Len(decls)) \X (Kinds \cup Windows),
         FetchesOnlyChosen',
         error \notin {"TerminalSpansD8Tiles", "NoCoveringD8Tile",
                       "CogExtentHeaderRead"} \cup Crs
  PROVE  IInv'
<1>1. /\ call' = call /\ decls' = decls /\ pc' = "returned"
      /\ UNCHANGED <<next, covering, intersecting>>
      /\ result' = Failure(error)
  BY DEF Return
<1>2. /\ result'.why = error
      /\ result'.outcome \in {"BestEffortSkipped", "Error"}
      /\ call.mode = "RequireD8" => result'.outcome = "Error"
  BY <1>1, FailureShape
<1>3. Judged' /\ CoveringScanned' /\ IntersectingScanned'
  BY <1>1, ScanKept DEF IInv
<1>4. TypeOK'
  BY <1>1, <1>2 DEF IInv, TypeOK
<1>5. Staged'
  BY <1>1 DEF Staged, Chosens
<1>6. StrictNeverCoarse' /\ ManifestFirstCovers' /\ SelectionExact'
  BY <1>1, <1>2 DEF StrictNeverCoarse, ManifestFirstCovers, SelectionExact, Returned
<1> QED
  BY <1>3, <1>4, <1>5, <1>6 DEF IInv

(* Returning anything that is neither an applied refinement nor an error   *)
(* of the selection.                                                       *)
LEMMA PlainReturn ==
  ASSUME IInv, NEW r, Return(r), UNCHANGED read,
         r.outcome \in {"Disabled", "BestEffortSkipped", "Error"},
         call.mode = "RequireD8" => r.outcome = "Error",
         r.why \notin {"TerminalSpansD8Tiles", "NoCoveringD8Tile",
                       "CogExtentHeaderRead"} \cup (Crs \ {"supported"})
  PROVE  IInv'
<1>1. /\ call' = call /\ decls' = decls /\ pc' = "returned"
      /\ UNCHANGED <<next, covering, intersecting, read>>
      /\ result' = r
  BY DEF Return
<1>2. Judged' /\ CoveringScanned' /\ IntersectingScanned'
  BY <1>1, ScanKept DEF IInv
<1>3. TypeOK'
  BY <1>1 DEF IInv, TypeOK
<1>4. Staged'
  BY <1>1 DEF Staged, Chosens
<1>5. StrictNeverCoarse' /\ ManifestFirstCovers' /\ SelectionExact'
  BY <1>1 DEF StrictNeverCoarse, ManifestFirstCovers, SelectionExact, Returned
<1>6. FetchesOnlyChosen'
  BY <1>1 DEF IInv, FetchesOnlyChosen, Covers, Broken
<1> QED
  BY <1>2, <1>3, <1>4, <1>5, <1>6 DEF IInv

(* Before the selection: the mode and the declarations decide. *)
LEMMA ModeStep ==
  ASSUME IInv, Disabled \/ NoDeclaration \/ Begin
  PROVE  IInv'
<1>1. CASE Disabled
  <2> DEFINE r == [Pending EXCEPT !.outcome = "Disabled"]
  <2>1. r.outcome = "Disabled" /\ r.why = "none"
    BY DEF Pending
  <2>2. "none" \notin Crs
    BY RefinementAssumption
  <2>3. Return(r) /\ UNCHANGED read /\ call.mode = "Disabled"
    BY <1>1 DEF Disabled
  <2> HIDE DEF r
  <2> QED
    BY <2>1, <2>2, <2>3, PlainReturn
<1>2. CASE NoDeclaration
  <2> DEFINE r == IF call.mode = "RequireD8" THEN Error("MissingRequiredD8Aux")
            ELSE IF call.unreadable
                 THEN Skipped("UnreadableD8AuxDeclared", "MisDeclaration")
            ELSE IF call.authority = "VectorPoint"
                 THEN Skipped("NoD8AuxDeclared", "Availability")
                 ELSE Skipped("CoarseUnitOnlyNoD8AuxDeclared", "Availability")
  <2>1. /\ r.outcome \in {"BestEffortSkipped", "Error"}
        /\ call.mode = "RequireD8" => r.outcome = "Error"
        /\ r.why \in {"MissingRequiredD8Aux", "UnreadableD8AuxDeclared",
                      "NoD8AuxDeclared", "CoarseUnitOnlyNoD8AuxDeclared"}
    BY DEF Error, Skipped, Pending
  <2>2. r.why \notin Crs
    BY <2>1, RefinementAssumption
  <2>3. Return(r) /\ UNCHANGED read
    BY <1>2 DEF NoDeclaration
  <2> HIDE DEF r
  <2> QED
    BY <2>1, <2>2, <2>3, PlainReturn
<1>3. CASE Begin
  <2>1. CASE ~ call.bounded
    <3>1. "DegenerateTerminalPolygon" \notin Crs
      BY RefinementAssumption
    <3>2. Return(Failure("DegenerateTerminalPolygon")) /\ UNCHANGED read
          /\ call.mode # "Disabled"
      BY <1>3, <2>1 DEF Begin
    <3> QED
      BY <3>1, <3>2, FailureShape, PlainReturn
  <2>2. CASE call.bounded
    <3>1. /\ pc = "mode" /\ pc' = "select" /\ decls # << >> /\ call.mode # "Disabled"
          /\ UNCHANGED <<call, decls, next, intersecting, covering, read, result>>
      BY <1>3, <2>2 DEF Begin
    <3>2. Judged' /\ CoveringScanned' /\ IntersectingScanned'
      BY <3>1, ScanKept DEF IInv
    <3>3. TypeOK'
      BY <3>1 DEF IInv, TypeOK
    <3>4. Len(decls) >= 1
      BY <3>1 DEF IInv, TypeOK
    <3>5. Staged'
      BY <3>1, <3>4 DEF IInv, Staged, Chosens
    <3> QED
      BY <3>1, <3>2, <3>3, <3>5 DEF IInv, StrictNeverCoarse, ManifestFirstCovers,
         SelectionExact, FetchesOnlyChosen, Returned, Covers, Broken
  <2> QED
    BY <2>1, <2>2
<1> QED
  BY <1>1, <1>2, <1>3

(* A broken declaration ends the selection. *)
LEMMA BreakStep ==
  ASSUME IInv, pc = "select", NEW error, Return(Failure(error)),
         error \in {"CogExtentHeaderRead"} \cup (Crs \ {"supported"}),
         Broken(next), NEW what \in SUBSET Kinds,
         read' = read \cup {<<next, w>> : w \in what}
  PROVE  IInv'
<1>1. /\ call' = call /\ decls' = decls /\ pc' = "returned"
      /\ UNCHANGED <<next, covering, intersecting>>
      /\ result' = Failure(error)
  BY DEF Return
<1>2. /\ result'.why = error
      /\ result'.outcome \in {"BestEffortSkipped", "Error"}
      /\ call.mode = "RequireD8" => result'.outcome = "Error"
  BY <1>1, FailureShape
<1>3. Judged' /\ CoveringScanned' /\ IntersectingScanned'
  BY <1>1, ScanKept DEF IInv
<1>4. next \in 1 .. Len(decls)
  BY DEF IInv, TypeOK, Staged
<1>5. TypeOK'
  BY <1>1, <1>2, <1>4 DEF IInv, TypeOK
<1>6. Staged'
  BY <1>1 DEF Staged, Chosens
<1>7. error \notin {"TerminalSpansD8Tiles", "NoCoveringD8Tile"}
  BY RefinementAssumption
<1>8. \E i \in 1 .. Len(decls) : Broken(i)'
  BY <1>1, <1>4 DEF Broken
<1>9. SelectionExact'
  BY <1>1, <1>2, <1>7, <1>8 DEF SelectionExact, Returned
<1>10. StrictNeverCoarse' /\ ManifestFirstCovers'
  BY <1>1, <1>2 DEF StrictNeverCoarse, ManifestFirstCovers, Returned
<1>11. FetchesOnlyChosen'
  <2>1. \A i, w : w \in Windows /\ <<i, w>> \in read' => <<i, w>> \in read
    BY DEF Windows, Kinds
  <2> QED
    BY <2>1, <1>1 DEF IInv, FetchesOnlyChosen, Covers, Broken
<1> QED
  BY <1>3, <1>5, <1>6, <1>9, <1>10, <1>11 DEF IInv

(* A sound declaration is scanned: the three outcomes of one loop turn. *)
LEMMA ScanStep ==
  ASSUME IInv, pc = "select", Goes(next), ~ Broken(next),
         intersecting' = IF Meets(next) THEN Append(intersecting, next)
                         ELSE intersecting,
         covering' = IF Covers(next) THEN Append(covering, next) ELSE covering,
         NEW what \in SUBSET Kinds,
         read' = read \cup {<<next, w>> : w \in what}
  PROVE  IInv'
<1>1. /\ call' = call /\ decls' = decls /\ result' = result /\ next' = next + 1
      /\ pc' = IF next = Len(decls) THEN "choose" ELSE "select"
  BY DEF Goes
<1>2. /\ next \in 1 .. Len(decls) /\ Len(decls) \in Nat
      /\ covering \in Seq(1 .. Len(decls)) /\ intersecting \in Seq(1 .. Len(decls))
  BY DEF IInv, TypeOK, Staged
<1>3. /\ covering' \in Seq(1 .. Len(decls))
      /\ intersecting' \in Seq(1 .. Len(decls))
  <2> DEFINE S == 1 .. Len(decls)
  <2>1. \A q \in Seq(S) : Append(q, next) \in Seq(S)
    BY <1>2
  <2> QED
    BY <1>2, <2>1
<1>4. TypeOK'
  BY <1>1, <1>2, <1>3 DEF IInv, TypeOK
<1>5. Judged'
  <2>1. \A i \in 1 .. next : ~ Broken(i)
    BY <1>2 DEF IInv, Judged
  <2> QED
    BY <2>1, <1>1, <1>2 DEF Judged, Broken
<1>6. CoveringScanned'
  <2>1. CASE Covers(next) /\ covering = << >>
    <3>1. covering' = <<next>>
      BY <2>1, <1>2
    <3>2. \A i \in 1 .. next - 1 : ~ Covers(i)
      BY <2>1 DEF IInv, CoveringScanned
    <3> QED
      BY <3>1, <3>2, <2>1, <1>1, <1>2 DEF CoveringScanned, Covers
  <2>2. CASE Covers(next) /\ covering # << >>
    <3>1. covering'[1] = covering[1] /\ covering' # << >>
      BY <2>2, <1>2
    <3>2. /\ covering[1] \in 1 .. next /\ Covers(covering[1])
          /\ \A i \in 1 .. covering[1] - 1 : ~ Covers(i)
      BY <2>2, <1>2 DEF IInv, CoveringScanned
    <3>3. decls' = decls /\ next' - 1 = next
      BY <1>1, <1>2
    <3> QED
      BY <3>1, <3>2, <3>3 DEF CoveringScanned, Covers
  <2>3. CASE ~ Covers(next)
    <3>1. covering' = covering
      BY <2>3
    <3>2. covering = << >> => \A i \in 1 .. next : ~ Covers(i)
      BY <2>3, <1>2 DEF IInv, CoveringScanned
    <3>3. covering # << >> =>
            /\ covering[1] \in 1 .. next /\ Covers(covering[1])
            /\ \A i \in 1 .. covering[1] - 1 : ~ Covers(i)
      BY <1>2 DEF IInv, CoveringScanned
    <3> QED
      BY <3>1, <3>2, <3>3, <1>1, <1>2 DEF CoveringScanned, Covers
  <2> QED
    BY <2>1, <2>2, <2>3
<1>7. IntersectingScanned'
  <2>1. CASE Meets(next) /\ intersecting = << >>
    <3>1. intersecting' = <<next>>
      BY <2>1, <1>2
    <3>2. \A i \in 1 .. next - 1 : ~ Meets(i)
      BY <2>1 DEF IInv, IntersectingScanned
    <3> QED
      BY <3>1, <3>2, <2>1, <1>1, <1>2 DEF IntersectingScanned, Meets
  <2>2. CASE Meets(next) /\ intersecting # << >>
    <3>1. /\ Len(intersecting') = Len(intersecting) + 1
          /\ intersecting'[1] = intersecting[1] /\ intersecting' # << >>
          /\ Len(intersecting) > 1 => intersecting'[2] = intersecting[2]
          /\ Len(intersecting) = 1 => intersecting'[2] = next
          /\ Len(intersecting) >= 1
      BY <2>2, <1>2
    <3>2. intersecting[1] \in 1 .. next - 1 /\ Meets(intersecting[1])
      BY <2>2 DEF IInv, IntersectingScanned
    <3>3. Len(intersecting) > 1 =>
            /\ intersecting[2] \in 1 .. next - 1 /\ Meets(intersecting[2])
            /\ intersecting[2] # intersecting[1]
      BY <2>2 DEF IInv, IntersectingScanned
    <3>4. /\ intersecting'[2] \in 1 .. next /\ Meets(intersecting'[2])
          /\ intersecting'[2] # intersecting'[1]
      BY <3>1, <3>2, <3>3, <2>2, <1>2
    <3> QED
      BY <3>1, <3>2, <3>4, <1>1, <1>2 DEF IntersectingScanned, Meets
  <2>3. CASE ~ Meets(next)
    <3>1. intersecting' = intersecting
      BY <2>3
    <3>2. /\ intersecting = << >> => \A i \in 1 .. next : ~ Meets(i)
          /\ Len(intersecting) = 1 =>
               \A i \in 1 .. next : Meets(i) => i = intersecting[1]
      BY <2>3, <1>2 DEF IInv, IntersectingScanned
    <3>3. /\ intersecting # << >> =>
               intersecting[1] \in 1 .. next /\ Meets(intersecting[1])
          /\ Len(intersecting) > 1 =>
               /\ intersecting[2] \in 1 .. next /\ Meets(intersecting[2])
               /\ intersecting[2] # intersecting[1]
      BY <1>2 DEF IInv, IntersectingScanned
    <3> QED
      BY <3>1, <3>2, <3>3, <1>1, <1>2 DEF IntersectingScanned, Meets
  <2> QED
    BY <2>1, <2>2, <2>3
<1>8. Staged'
  BY <1>1, <1>2 DEF IInv, Staged, Chosens
<1>9. StrictNeverCoarse' /\ ManifestFirstCovers' /\ SelectionExact'
  BY <1>1 DEF StrictNeverCoarse, ManifestFirstCovers, SelectionExact, Returned
<1>10. FetchesOnlyChosen'
  <2>1. \A i, w : w \in Windows /\ <<i, w>> \in read' => <<i, w>> \in read
    BY DEF Windows, Kinds
  <2> QED
    BY <2>1, <1>1 DEF IInv, FetchesOnlyChosen, Covers, Broken
<1> QED
  BY <1>4, <1>5, <1>6, <1>7, <1>8, <1>9, <1>10 DEF IInv

(* select_d8_raster_for_terminal examines one declaration. *)
LEMMA ExamineStep ==
  ASSUME IInv, Examine
  PROVE  IInv'
<1> DEFINE d == decls[next]
<1>1. next \in 1 .. Len(decls) /\ pc = "select"
  BY DEF IInv, TypeOK, Staged, Examine
<1>2. d \in Declarations
  BY <1>1 DEF IInv, TypeOK
<1>3. CASE d.crs # "supported"
  <2>1. Return(Failure(d.crs)) /\ read' = read \cup {<<next, w>> : w \in {}}
    BY <1>3 DEF Examine
  <2>2. /\ Broken(next) /\ d.crs \in Crs \ {"supported"}
        /\ {} \in SUBSET Kinds
    BY <1>2, <1>3 DEF Broken, Declarations
  <2> HIDE DEF d
  <2> QED
    BY <2>1, <2>2, <1>1, BreakStep
<1>4. CASE d.crs = "supported" /\ d.dir = "unreadable"
  <2>1. /\ Return(Failure("CogExtentHeaderRead"))
        /\ read' = read \cup {<<next, w>> : w \in {"dir"}}
    BY <1>4 DEF Examine
  <2>2. Broken(next) /\ {"dir"} \in SUBSET Kinds
    BY <1>4 DEF Broken, Kinds
  <2> QED
    BY <2>1, <2>2, <1>1, BreakStep
<1>5. CASE d.crs = "supported" /\ d.dir = "apart"
  <2>1. /\ Goes(next) /\ UNCHANGED <<intersecting, covering>>
        /\ read' = read \cup {<<next, w>> : w \in {"dir"}}
    BY <1>5 DEF Examine
  <2>2. /\ ~ Broken(next) /\ ~ Meets(next) /\ ~ Covers(next)
        /\ {"dir"} \in SUBSET Kinds
    BY <1>5 DEF Broken, Meets, Covers, Kinds
  <2> QED
    BY <2>1, <2>2, <1>1, ScanStep
<1>6. CASE d.crs = "supported" /\ d.dir \notin {"apart", "unreadable"}
  <2>1. /\ read' = read \cup {<<next, w>> : w \in {"dir", "acc"}}
        /\ {"dir", "acc"} \in SUBSET Kinds
    BY <1>6 DEF Examine, Kinds
  <2>2. d.dir \in {"covers", "touches"}
    BY <1>2, <1>6, RefinementAssumption DEF Declarations
  <2>3. CASE d.acc = "unreadable"
    <3>1. Return(Failure("CogExtentHeaderRead")) /\ Broken(next)
      BY <1>6, <2>3 DEF Examine, Broken
    <3> QED
      BY <3>1, <2>1, <1>1, BreakStep
  <2>4. CASE d.acc # "unreadable"
    <3>1. /\ Goes(next)
          /\ intersecting' = IF d.acc = "apart" THEN intersecting
                             ELSE Append(intersecting, next)
          /\ covering' = IF d.dir = "covers" /\ d.acc = "covers"
                         THEN Append(covering, next) ELSE covering
      BY <1>6, <2>4 DEF Examine
    <3>2. d.acc \in {"covers", "touches", "apart"}
      BY <1>2, <2>4, RefinementAssumption DEF Declarations
    <3>3. /\ ~ Broken(next)
          /\ Meets(next) = (d.acc # "apart")
          /\ Covers(next) = (d.dir = "covers" /\ d.acc = "covers")
      BY <1>6, <2>2, <2>4, <3>2 DEF Broken, Meets, Covers
    <3>4. /\ intersecting' = IF Meets(next) THEN Append(intersecting, next)
                             ELSE intersecting
          /\ covering' = IF Covers(next) THEN Append(covering, next) ELSE covering
      BY <3>1, <3>3
    <3> HIDE DEF d
    <3> QED
      BY <3>1, <3>3, <3>4, <2>1, <1>1, ScanStep
  <2> QED
    BY <2>3, <2>4
<1> QED
  BY <1>3, <1>4, <1>5, <1>6

(* The end of the selection: a covering declaration, or why there is none. *)
LEMMA ChooseStep ==
  ASSUME IInv, Choose
  PROVE  IInv'
<1>1. /\ pc = "choose" /\ next = Len(decls) + 1 /\ Len(decls) \in Nat
      /\ call.mode # "Disabled" /\ read' = read
      /\ intersecting \in Seq(1 .. Len(decls))
  BY DEF Choose, IInv, Staged, TypeOK
<1>2. CASE covering # << >>
  <2>1. /\ pc' = "source"
        /\ UNCHANGED <<call, decls, next, intersecting, covering, read, result>>
    BY <1>1, <1>2 DEF Choose
  <2>2. Judged' /\ CoveringScanned' /\ IntersectingScanned'
    BY <2>1, ScanKept DEF IInv
  <2>3. TypeOK'
    BY <2>1, <1>1 DEF IInv, TypeOK
  <2>4. Staged'
    BY <2>1, <1>1, <1>2 DEF IInv, Staged, Chosens
  <2> QED
    BY <2>1, <2>2, <2>3, <2>4, <1>1 DEF IInv, StrictNeverCoarse,
       ManifestFirstCovers, SelectionExact, FetchesOnlyChosen, Returned,
       Covers, Broken
<1>3. CASE covering = << >>
  <2> DEFINE error == IF Len(intersecting) > 1 THEN "TerminalSpansD8Tiles"
                      ELSE "NoCoveringD8Tile"
  <2>1. Return(Failure(error))
    BY <1>3 DEF Choose
  <2>2. /\ call' = call /\ decls' = decls /\ pc' = "returned"
        /\ UNCHANGED <<next, covering, intersecting>>
        /\ result' = Failure(error)
    BY <2>1 DEF Return
  <2>3. /\ result'.why = error
        /\ result'.outcome \in {"BestEffortSkipped", "Error"}
        /\ call.mode = "RequireD8" => result'.outcome = "Error"
    BY <2>2, FailureShape
  <2>4. Judged' /\ CoveringScanned' /\ IntersectingScanned'
    BY <2>2, ScanKept DEF IInv
  <2>5. TypeOK'
    BY <1>1, <2>2, <2>3 DEF IInv, TypeOK
  <2>6. Staged'
    BY <2>2 DEF Staged, Chosens
  <2>7. \A i \in 1 .. Len(decls) : ~ Covers(i) /\ ~ Broken(i)
    BY <1>1, <1>3 DEF IInv, Judged, CoveringScanned
  <2>8. Len(intersecting) > 1 =>
          \E i, j \in 1 .. Len(decls) : i # j /\ Meets(i) /\ Meets(j)
    <3>1. SUFFICES ASSUME Len(intersecting) > 1
                   PROVE  \E i, j \in 1 .. Len(decls) :
                            i # j /\ Meets(i) /\ Meets(j)
      OBVIOUS
    <3>2. /\ intersecting[1] \in 1 .. Len(decls) /\ Meets(intersecting[1])
          /\ intersecting[2] \in 1 .. Len(decls) /\ Meets(intersecting[2])
          /\ intersecting[2] # intersecting[1]
      BY <1>1, <3>1 DEF IInv, IntersectingScanned
    <3> QED
      BY <3>2
  <2>9. ~ Len(intersecting) > 1 =>
          \A i, j \in 1 .. Len(decls) : Meets(i) /\ Meets(j) => i = j
    <3>1. CASE intersecting = << >>
      BY <1>1, <3>1 DEF IInv, IntersectingScanned
    <3>2. CASE Len(intersecting) = 1
      BY <1>1, <3>2 DEF IInv, IntersectingScanned
    <3>3. Len(intersecting) \in Nat
      BY <1>1
    <3>4. Len(intersecting) = 0 => intersecting = << >>
      BY <1>1
    <3>5. CASE Len(intersecting) = 0
      BY <3>1, <3>4, <3>5
    <3>6. Len(intersecting) > 1 \/ Len(intersecting) = 0 \/ Len(intersecting) = 1
      <4> DEFINE n == Len(intersecting)
      <4>1. n \in Nat
        BY <3>3
      <4> HIDE DEF n
      <4>2. n > 1 \/ n = 0 \/ n = 1
        BY <4>1
      <4> QED
        BY <4>2 DEF n
    <3> QED
      BY <3>2, <3>5, <3>6
  <2>10. error \notin {"CogExtentHeaderRead"} \cup (Crs \ {"supported"})
    BY RefinementAssumption
  <2>11. SelectionExact'
    BY <2>2, <2>3, <2>7, <2>8, <2>9, <2>10
       DEF SelectionExact, Returned, Covers, Broken, Meets
  <2>12. StrictNeverCoarse' /\ ManifestFirstCovers'
    BY <2>2, <2>3 DEF StrictNeverCoarse, ManifestFirstCovers, Returned
  <2>13. FetchesOnlyChosen'
    BY <2>2, <1>1 DEF IInv, FetchesOnlyChosen, Covers, Broken
  <2> QED
    BY <2>4, <2>5, <2>6, <2>11, <2>12, <2>13 DEF IInv
<1> QED
  BY <1>2, <1>3

(* A stage of the strategy that succeeds. *)
LEMMA AdvanceStep ==
  ASSUME IInv, pc \in Chosens, NEW to \in Chosens \ {"source"}, Advance(to),
         pc = "source" => call.source,
         read' \subseteq (1 .. Len(decls)) \X (Kinds \cup Windows),
         FetchesOnlyChosen'
  PROVE  IInv'
<1>1. /\ pc' = to
      /\ UNCHANGED <<call, decls, next, intersecting, covering, result>>
  BY DEF Advance
<1>2. Judged' /\ CoveringScanned' /\ IntersectingScanned'
  BY <1>1, ScanKept DEF IInv
<1>3. TypeOK'
  BY <1>1 DEF IInv, TypeOK, Chosens
<1>4. Staged'
  BY <1>1 DEF IInv, Staged, Chosens
<1>5. StrictNeverCoarse' /\ ManifestFirstCovers' /\ SelectionExact'
  BY <1>1 DEF StrictNeverCoarse, ManifestFirstCovers, SelectionExact, Returned,
     Chosens
<1> QED
  BY <1>2, <1>3, <1>4, <1>5 DEF IInv

(* What is known of the chosen declaration. *)
LEMMA ChosenIsFirst ==
  ASSUME IInv, pc \in Chosens
  PROVE  /\ Chosen \in 1 .. Len(decls) /\ Covers(Chosen)
         /\ \A j \in 1 .. Chosen - 1 : ~ Covers(j)
         /\ \A j \in 1 .. Len(decls) : ~ Broken(j)
         /\ call.mode # "Disabled"
BY DEF IInv, TypeOK, Staged, Chosens, CoveringScanned, Judged, Chosen

(* A window of the chosen declaration is localized, or is not. *)
LEMMA LocalizeStep ==
  ASSUME IInv, pc \in {"localizeDir", "localizeAcc"}, NEW what \in Windows,
         NEW to \in {"localizeAcc", "load"}, Localize(what, to)
  PROVE  IInv'
<1>1. read' = read \cup {<<Chosen, what>>} /\ pc \in Chosens /\ call.source
  BY DEF Localize, IInv, Staged, Chosens
<1>2. /\ Chosen \in 1 .. Len(decls) /\ Covers(Chosen)
      /\ \A j \in 1 .. Chosen - 1 : ~ Covers(j)
      /\ \A j \in 1 .. Len(decls) : ~ Broken(j)
      /\ call.mode # "Disabled"
  BY <1>1, ChosenIsFirst
<1>3. read' \subseteq (1 .. Len(decls)) \X (Kinds \cup Windows)
  BY <1>1, <1>2 DEF IInv, TypeOK
<1>4. call' = call /\ decls' = decls
  BY DEF Localize, Advance, Return
<1>5. FetchesOnlyChosen'
  BY <1>1, <1>2, <1>4 DEF IInv, FetchesOnlyChosen, Covers, Broken
<1>6. CASE Advance(to)
  BY <1>1, <1>3, <1>5, <1>6, AdvanceStep DEF Chosens
<1>7. ASSUME NEW error \in {"Cache", "IntegrityViolation"}, Return(Failure(error))
      PROVE  IInv'
  <2>1. error \notin {"TerminalSpansD8Tiles", "NoCoveringD8Tile",
                      "CogExtentHeaderRead"} \cup Crs
    BY RefinementAssumption
  <2> QED
    BY <1>2, <1>3, <1>5, <1>7, <2>1, FailsAfterSelection
<1> QED
  BY <1>6, <1>7 DEF Localize

(* Reading the tiles and carving the terminal. *)
LEMMA CarveInOneStep ==
  ASSUME IInv, NoSource \/ WithSource \/ Load \/ Carve
  PROVE  IInv'
<1>1. /\ pc \in Chosens /\ UNCHANGED read
      /\ call' = call /\ decls' = decls
  BY DEF NoSource, WithSource, Load, Carve, Chosens, Advance, Return
<1>2. /\ FetchesOnlyChosen'
      /\ read' \subseteq (1 .. Len(decls)) \X (Kinds \cup Windows)
  BY <1>1 DEF IInv, FetchesOnlyChosen, Covers, Broken, TypeOK
<1>3. /\ Chosen \in 1 .. Len(decls) /\ Covers(Chosen)
      /\ \A j \in 1 .. Chosen - 1 : ~ Covers(j)
      /\ \A j \in 1 .. Len(decls) : ~ Broken(j)
      /\ call.mode # "Disabled"
  BY <1>1, ChosenIsFirst
<1>4. CASE NoSource
  <2> DEFINE r == IF call.mode = "BestEffort"
                  THEN Skipped("NoRasterSourceProvided", "Availability")
                  ELSE Error("RequiredD8RasterSourceMissing")
  <2>1. /\ r.outcome \in {"BestEffortSkipped", "Error"}
        /\ call.mode = "RequireD8" => r.outcome = "Error"
        /\ r.why \in {"NoRasterSourceProvided", "RequiredD8RasterSourceMissing"}
    BY DEF Error, Skipped, Pending
  <2>2. r.why \notin Crs
    BY <2>1, RefinementAssumption
  <2>3. Return(r) /\ UNCHANGED read
    BY <1>4 DEF NoSource
  <2> HIDE DEF r
  <2> QED
    BY <2>1, <2>2, <2>3, PlainReturn
<1>5. CASE WithSource
  <2>1. Advance("localizeDir") /\ call.source
    BY <1>5 DEF WithSource
  <2> QED
    BY <2>1, <1>1, <1>2, AdvanceStep DEF Chosens
<1>6. ASSUME NEW error, Return(Failure(error)),
             error \in {"RasterSourceRead", "InvalidFlowDirectionNodata",
                        "TileConstruction"} \cup CarveErrors
      PROVE  IInv'
  <2>1. error \notin {"TerminalSpansD8Tiles", "NoCoveringD8Tile",
                      "CogExtentHeaderRead"} \cup Crs
    BY <1>6, RefinementAssumption
  <2> QED
    BY <1>2, <1>3, <1>6, <2>1, FailsAfterSelection
<1>7. CASE Load
  <2>1. CASE Advance("carve")
    <3>1. pc # "source"
      BY <1>7 DEF Load
    <3> QED
      BY <2>1, <3>1, <1>1, <1>2, AdvanceStep DEF Chosens
  <2> QED
    BY <2>1, <1>6, <1>7 DEF Load
<1>8. ASSUME NEW kind \in SeedKind, Return(Applied(kind, Chosen))
      PROVE  IInv'
  <2>1. /\ pc' = "returned" /\ result' = Applied(kind, Chosen)
        /\ UNCHANGED <<call, decls, next, intersecting, covering>>
    BY <1>8 DEF Return
  <2>2. /\ result'.outcome = "Applied" /\ result'.why = kind
        /\ result'.decl = Chosen
    BY <2>1 DEF Applied, Pending
  <2>3. kind \notin {"TerminalSpansD8Tiles", "NoCoveringD8Tile",
                     "CogExtentHeaderRead"} \cup Crs
    BY RefinementAssumption DEF SeedKind
  <2>4. Judged' /\ CoveringScanned' /\ IntersectingScanned'
    BY <2>1, ScanKept DEF IInv
  <2>5. TypeOK'
    BY <2>1, <2>2, <1>2 DEF IInv, TypeOK
  <2>6. Staged'
    BY <2>1 DEF Staged, Chosens
  <2>7. ManifestFirstCovers'
    BY <2>1, <2>2, <1>3 DEF ManifestFirstCovers, Covers, Broken
  <2>8. StrictNeverCoarse' /\ SelectionExact'
    BY <2>1, <2>2, <2>3 DEF StrictNeverCoarse, SelectionExact, Returned
  <2> QED
    BY <2>4, <2>5, <2>6, <2>7, <2>8, <1>2 DEF IInv
<1>9. CASE Carve
  BY <1>6, <1>8, <1>9 DEF Carve
<1> QED
  BY <1>4, <1>5, <1>7, <1>9

-----------------------------------------------------------------------------

(* The invariant is inductive. *)
LEMMA IInvStep == IInv /\ [Next]_vars => IInv'
<1> SUFFICES ASSUME IInv, [Next]_vars PROVE IInv'
  OBVIOUS
<1>1. CASE UNCHANGED vars
  <2>1. Judged' /\ CoveringScanned' /\ IntersectingScanned'
    BY <1>1, ScanKept DEF vars, IInv
  <2>2. TypeOK' /\ Staged'
    BY <1>1 DEF vars, IInv, TypeOK, Staged
  <2>3. StrictNeverCoarse' /\ ManifestFirstCovers' /\ FetchesOnlyChosen'
    BY <1>1 DEF vars, IInv, StrictNeverCoarse, ManifestFirstCovers,
       FetchesOnlyChosen, Returned, Broken, Covers
  <2>4. SelectionExact'
    BY <1>1 DEF vars, IInv, SelectionExact, Returned, Broken, Covers, Meets
  <2> QED
    BY <2>1, <2>2, <2>3, <2>4 DEF IInv
<1>2. CASE Disabled \/ NoDeclaration \/ Begin
  BY <1>2, ModeStep
<1>3. CASE Examine
  BY <1>3, ExamineStep
<1>4. CASE Choose
  BY <1>4, ChooseStep
<1>5. CASE LocalizeDir
  BY <1>5, LocalizeStep DEF LocalizeDir, Windows
<1>6. CASE LocalizeAcc
  BY <1>6, LocalizeStep DEF LocalizeAcc, Windows
<1>7. CASE NoSource \/ WithSource \/ Load \/ Carve
  BY <1>7, CarveInOneStep
<1> QED
  BY <1>1, <1>2, <1>3, <1>4, <1>5, <1>6, <1>7 DEF Next

(* The invariant holds of every reachable state. *)
LEMMA InvariantHolds == Spec => []IInv
BY InitIInv, IInvStep, PTL DEF Spec

(* The variables of the call keep their types for any declarations. *)
THEOREM TypeCorrect == Spec => []TypeOK
BY InvariantHolds, PTL DEF IInv

(* RequireD8 never returns the coarse terminal, at whatever stage the      *)
(* refinement gave up and however many declarations there are.             *)
THEOREM StrictNeverCoarseHolds == Spec => []StrictNeverCoarse
BY InvariantHolds, PTL DEF IInv

(* The raster carved is the manifest-first one covering the terminal.      *)
THEOREM ManifestFirstCoversHolds == Spec => []ManifestFirstCovers
BY InvariantHolds, PTL DEF IInv

(* A failed selection gives the reason its declarations give.              *)
THEOREM SelectionExactHolds == Spec => []SelectionExact
BY InvariantHolds, PTL DEF IInv

(* Raster windows are fetched for the chosen declaration only.             *)
THEOREM FetchesOnlyChosenHolds == Spec => []FetchesOnlyChosen
BY InvariantHolds, PTL DEF IInv

-----------------------------------------------------------------------------
(* Best effort. *)

(* Every error a stage can give the strategy, none of them the one name    *)
(* kept for declarations that cannot be read.                              *)
StageErrors == Unavailable \cup Misdeclared \cup Unsound \cup {"VectorOutletUnusable"}

(* The inductive invariant: past the mode there is a declaration. *)
SkipInv ==
  /\ call.mode \in {"Disabled", "BestEffort", "RequireD8"}
  /\ pc \notin {"mode", "returned"} => decls # << >> /\ call.mode # "Disabled"
  /\ BestEffortSkips

LEMMA SkipOfStage ==
  ASSUME call.mode = "BestEffort", NEW error \in StageErrors
  PROVE  /\ Failure(error).outcome = "BestEffortSkipped"
         /\ Failure(error).why = error /\ error # "UnreadableD8AuxDeclared"
         /\ Failure(error).category =
              IF error \in Misdeclared THEN "MisDeclaration"
              ELSE IF error \in Unsound \cup {"VectorOutletUnusable"}
              THEN "DataGeometryIntegrity" ELSE "Availability"
<1>1. error # "UnreadableD8AuxDeclared"
  BY DEF StageErrors, Unavailable, Misdeclared, Unsound
<1>2. /\ error \in Unavailable => error \notin Misdeclared \cup Unsound \cup {"VectorOutletUnusable"}
      /\ error \in Misdeclared => error \notin Unsound \cup {"VectorOutletUnusable"}
  BY DEF Unavailable, Misdeclared, Unsound
<1>3. Failure(error) = Skipped(error, Category(error))
  BY DEF Failure
<1>4. /\ Failure(error).outcome = "BestEffortSkipped"
      /\ Failure(error).why = error /\ Failure(error).category = Category(error)
  BY <1>3 DEF Skipped, Pending
<1> QED  BY <1>1, <1>2, <1>4 DEF StageErrors, Category

(* Any stage that fails past the mode is skipped as its error says. *)
LEMMA StageFails ==
  ASSUME SkipInv, decls # << >>, NEW error \in StageErrors, Return(Failure(error))
  PROVE  SkipInv'
<1>1. /\ call' = call /\ decls' = decls /\ pc' = "returned"
      /\ result' = Failure(error)
  BY DEF Return
<1>2. call.mode = "BestEffort" => BestEffortSkips'
  <2> SUFFICES ASSUME call.mode = "BestEffort" PROVE BestEffortSkips'
    OBVIOUS
  <2>1. error \in {"UnreadableD8AuxDeclared"} \cup Misdeclared <=> error \in Misdeclared
    BY SkipOfStage
  <2> QED  BY <1>1, <2>1, SkipOfStage DEF BestEffortSkips
<1> QED  BY <1>1, <1>2 DEF SkipInv, BestEffortSkips, Returned

(* A step that does not return. *)
LEMMA StageGoes ==
  ASSUME SkipInv, call' = call, decls' = decls, decls # << >>,
         call.mode # "Disabled", pc' # "returned"
  PROVE  SkipInv'
BY DEF SkipInv, BestEffortSkips, Returned

LEMMA SkipStep == IInv /\ SkipInv /\ [Next]_vars => SkipInv'
<1> SUFFICES ASSUME IInv, SkipInv, [Next]_vars PROVE SkipInv'
  OBVIOUS
<1>1. CASE UNCHANGED vars
  BY <1>1 DEF vars, SkipInv, BestEffortSkips, Returned
<1>2. CASE Disabled
  BY <1>2 DEF Disabled, Return, SkipInv, BestEffortSkips, Returned
<1>3. CASE NoDeclaration
  <2>1. /\ call' = call /\ decls' = decls /\ pc' = "returned" /\ decls = << >>
    BY <1>3 DEF NoDeclaration, Return
  <2>2. CASE call.mode # "BestEffort"
    BY <2>1, <2>2 DEF SkipInv, BestEffortSkips
  <2>3. CASE call.mode = "BestEffort" /\ call.unreadable
    <3>1. result' = Skipped("UnreadableD8AuxDeclared", "MisDeclaration")
      BY <1>3, <2>3 DEF NoDeclaration, Return
    <3> QED  BY <2>1, <2>3, <3>1 DEF SkipInv, BestEffortSkips, Skipped, Pending
  <2>4. CASE call.mode = "BestEffort" /\ ~ call.unreadable
    <3>1. PICK name \in {"NoD8AuxDeclared", "CoarseUnitOnlyNoD8AuxDeclared"} :
            result' = Skipped(name, "Availability")
      BY <1>3, <2>4 DEF NoDeclaration, Return
    <3>2. name \notin {"UnreadableD8AuxDeclared", "VectorOutletUnusable"}
                       \cup Misdeclared \cup Unsound
      BY DEF Misdeclared, Unsound
    <3> QED  BY <2>1, <2>4, <3>1, <3>2 DEF SkipInv, BestEffortSkips, Skipped, Pending
  <2> QED  BY <2>2, <2>3, <2>4
<1>4. CASE Begin
  <2>1. "DegenerateTerminalPolygon" \in StageErrors
    BY DEF StageErrors, Unsound
  <2> QED  BY <1>4, <2>1, StageFails, StageGoes DEF Begin
<1>5. pc \notin {"mode", "returned"} => decls # << >> /\ call.mode # "Disabled"
  BY DEF SkipInv
<1>6. CASE Examine
  <2>1. /\ pc = "select" /\ decls[next].crs \in Crs
    BY <1>6 DEF Examine, IInv, Staged, TypeOK, Declarations
  <2>2. decls[next].crs # "supported" => decls[next].crs \in StageErrors
    BY <2>1, RefinementAssumption DEF StageErrors, Misdeclared
  <2>3. "CogExtentHeaderRead" \in StageErrors
    BY DEF StageErrors, Unavailable
  <2>4. CASE Return(Failure(decls[next].crs)) /\ decls[next].crs # "supported"
    BY <1>5, <2>1, <2>2, <2>4, StageFails
  <2>5. CASE Return(Failure("CogExtentHeaderRead"))
    BY <1>5, <2>1, <2>3, <2>5, StageFails
  <2>6. CASE Goes(next)
    BY <1>5, <2>1, <2>6, StageGoes DEF Goes
  <2> QED  BY <1>6, <2>4, <2>5, <2>6 DEF Examine
<1>7. CASE Choose
  <2>1. {"TerminalSpansD8Tiles", "NoCoveringD8Tile"} \subseteq StageErrors
    BY DEF StageErrors, Unavailable
  <2>2. pc = "choose"
    BY <1>7 DEF Choose
  <2>3. \/ pc' = "source" /\ UNCHANGED <<call, decls>>
        \/ \E error \in StageErrors : Return(Failure(error))
    BY <1>7, <2>1 DEF Choose
  <2> QED  BY <1>5, <2>2, <2>3, StageFails, StageGoes
<1>8. CASE NoSource
  <2>1. /\ call' = call /\ decls' = decls /\ pc' = "returned" /\ decls # << >>
    BY <1>5, <1>8 DEF NoSource, Return
  <2>2. CASE call.mode = "BestEffort"
    <3>1. result' = Skipped("NoRasterSourceProvided", "Availability")
      BY <1>8, <2>2 DEF NoSource, Return
    <3>2. "NoRasterSourceProvided" \notin {"UnreadableD8AuxDeclared",
              "VectorOutletUnusable"} \cup Misdeclared \cup Unsound
      BY DEF Misdeclared, Unsound
    <3> QED  BY <2>1, <2>2, <3>1, <3>2 DEF SkipInv, BestEffortSkips, Skipped, Pending
  <2> QED  BY <2>1, <2>2 DEF SkipInv, BestEffortSkips
<1>9. CASE WithSource
  BY <1>5, <1>9, StageGoes DEF WithSource, Advance
<1>10. CASE LocalizeDir \/ LocalizeAcc
  <2>1. {"Cache", "IntegrityViolation"} \subseteq StageErrors
    BY DEF StageErrors, Unavailable, Unsound
  <2>2. /\ pc \in {"localizeDir", "localizeAcc"}
        /\ \/ pc' # "returned" /\ UNCHANGED <<call, decls>>
           \/ \E error \in StageErrors : Return(Failure(error))
    BY <1>10, <2>1 DEF LocalizeDir, LocalizeAcc, Localize, Advance
  <2> QED  BY <1>5, <2>2, StageFails, StageGoes
<1>11. CASE Load
  <2>1. {"RasterSourceRead", "InvalidFlowDirectionNodata", "TileConstruction"}
          \subseteq StageErrors
    BY DEF StageErrors, Unavailable, Misdeclared, Unsound
  <2>2. /\ pc = "load"
        /\ \/ pc' # "returned" /\ UNCHANGED <<call, decls>>
           \/ \E error \in StageErrors : Return(Failure(error))
    BY <1>11, <2>1 DEF Load, Advance
  <2> QED  BY <1>5, <2>2, StageFails, StageGoes
<1>12. CASE Carve
  <2>1. CarveErrors \subseteq StageErrors
    BY RefinementAssumption DEF StageErrors, Misdeclared, Unsound
  <2>2. CASE \E error \in CarveErrors : Return(Failure(error))
    BY <1>5, <1>12, <2>1, <2>2, StageFails DEF Carve
  <2>3. ASSUME NEW kind \in SeedKind, Return(Applied(kind, Chosen))
        PROVE  SkipInv'
    <3>1. /\ call' = call /\ decls' = decls /\ pc' = "returned"
          /\ result' = Applied(kind, Chosen) /\ decls # << >>
      BY <1>5, <1>12, <2>3 DEF Carve, Return
    <3>2. result'.outcome = "Applied" /\ result'.why = kind
      BY <3>1 DEF Applied, Pending
    <3>3. kind # "UnreadableD8AuxDeclared"
      BY DEF SeedKind
    <3> QED  BY <3>1, <3>2, <3>3 DEF SkipInv, BestEffortSkips
  <2> QED  BY <1>12, <2>2, <2>3 DEF Carve
<1> QED  BY <1>1, <1>2, <1>3, <1>4, <1>6, <1>7, <1>8, <1>9, <1>10, <1>11, <1>12 DEF Next

(* A best-effort call never fails, whatever the declarations are and       *)
(* wherever its refinement gave up: it is applied, or skipped under the    *)
(* category of what went wrong.                                            *)
THEOREM BestEffortSkipsHolds == Spec => []BestEffortSkips
<1>1. Init => SkipInv
  BY DEF Init, Calls, SkipInv, BestEffortSkips, Returned
<1>2. SkipInv => BestEffortSkips
  BY DEF SkipInv
<1> QED  BY <1>1, <1>2, SkipStep, InvariantHolds, PTL DEF Spec

-----------------------------------------------------------------------------
(* Candidates and their order. *)

LEMMA MaskedCells ==
  ASSUME NEW polygons PROVE D8!Rasterized(polygons, D8!Cells) \subseteq D8!Cells
BY DEF D8!Rasterized

(* The row-major order of cells is that of their rows and columns. *)
LEMMA RowMajor ==
  ASSUME Cols \in Nat \ {0}, NEW a \in Nat, NEW b \in 0 .. Cols - 1,
         NEW c \in Nat, NEW d \in 0 .. Cols - 1, a < c \/ (a = c /\ b < d)
  PROVE  a * Cols + b < c * Cols + d
<1>1. CASE a < c
  <2>1. PICK n \in Nat : c = a + 1 + n
    <3>1. c = a + 1 + (c - a - 1) /\ c - a - 1 \in Nat
      BY <1>1
    <3> QED  BY <3>1
  <2>2. n * Cols \in Nat /\ a * Cols \in Nat
    OBVIOUS
  <2>3. c * Cols = a * Cols + Cols + n * Cols
    BY <2>1
  <2> QED  BY <2>2, <2>3
<1>2. CASE a = c /\ b < d
  BY <1>2
<1> QED  BY <1>1, <1>2

LEMMA CandidateType ==
  ASSUME tiles \in Tiles, mask \subseteq D8!Cells, NEW c \in D8!Candidates
  PROVE  /\ c \in mask /\ c \in D8!Cells /\ tiles.acc[c] \in Int
         /\ c = <<c[1], c[2]>> /\ c[1] \in Nat /\ c[2] \in 0 .. Cols - 1
BY D8Assumption DEF D8!CarveAssumption, D8!Tile, D8!Candidates, D8!Cells, D8!acc

-----------------------------------------------------------------------------
(* The seed. *)

Misfits == {"geographicKm2", "dimensionMismatch", "geoTransformMismatch"}

(* The inductive invariant: with what is loaded, the seed is the one that  *)
(* the outlet asks for, and a failure has its reason.                      *)
SeedInv ==
  /\ carvePc # "idle" => tiles \in Tiles
  /\ carvePc \notin {"idle", "align"} => site \in Sites
  /\ mask \subseteq D8!Cells
  /\ D8!SeedHonoursAuthority /\ D8!FailsForWantOfSeed

LEMMA SeedInit == CarveInit => SeedInv
BY DEF CarveInit, D8!Init, SeedInv, D8!SeedHonoursAuthority, D8!FailsForWantOfSeed

LEMMA EnterKeeps == ASSUME SeedInv, D8!Enter PROVE SeedInv'
BY DEF SeedInv, D8!Enter, D8!SeedHonoursAuthority, D8!FailsForWantOfSeed

(* Without a cell of the terminal there is no candidate. *)
LEMMA AlignKeeps == ASSUME SeedInv, D8!Align PROVE SeedInv'
<1>1. /\ tiles' = tiles /\ site' \in Sites /\ mask' \subseteq D8!Cells
      /\ carvePc = "align" /\ carvePc' \in {"seed", "failed"}
  BY MaskedCells DEF D8!Align
<1>2. carvePc' = "failed" => why' \in Misfits \/ mask' = {}
  BY DEF D8!Align, D8!AlignError, Misfits
<1>3. mask' = {} => D8!Candidates' = {} /\ ~ D8!Usable'
  BY DEF D8!Candidates, D8!Usable
<1>4. D8!FailsForWantOfSeed'
  BY <1>2, <1>3 DEF D8!FailsForWantOfSeed, Misfits
<1> QED  BY <1>1, <1>4 DEF SeedInv, D8!SeedHonoursAuthority

(* The guards of a vector outlet leave a candidate, and it is its cell. *)
LEMMA VectorKeeps == ASSUME SeedInv, D8!SeedVector PROVE SeedInv'
<1> USE DEF SeedInv
<1>1. /\ carvePc = "seed" /\ D8!outlet.kind = "vector"
      /\ UNCHANGED <<tiles, site, mask>> /\ tiles \in Tiles /\ site \in Sites
  BY DEF D8!SeedVector, D8!Fail, D8!Plant, D8!problem
<1>2. mask \subseteq D8!Cells
  OBVIOUS
<1>3. D8!Cell \in mask => D8!acc[D8!Cell] \in Int \cup {NoValue}
  BY <1>1, <1>2, D8Assumption DEF D8!CarveAssumption, D8!Tile, D8!acc
<1>4. /\ D8!outlet' = D8!outlet /\ D8!Candidates' = D8!Candidates
      /\ D8!Cell' = D8!Cell /\ D8!Usable' = D8!Usable
  BY <1>1 DEF D8!outlet, D8!Candidates, D8!Cell, D8!Usable, D8!InTile, D8!acc, D8!flow
<1>5. CASE D8!VectorError # "none"
  <2>1. carvePc' = "failed"
    BY <1>5 DEF D8!SeedVector, D8!Fail
  <2>2. ~ D8!Usable
    BY <1>3, <1>5, D8Assumption
       DEF D8!VectorError, D8!Usable, D8!Candidates, D8!CarveAssumption
  <2> QED  BY <1>1, <1>2, <1>4, <2>1, <2>2
           DEF D8!FailsForWantOfSeed, D8!SeedHonoursAuthority
<1>6. CASE D8!VectorError = "none"
  <2>1. carvePc' = "trace" /\ seed' = D8!Cell
    BY <1>6 DEF D8!SeedVector, D8!Plant
  <2>2. D8!Cell \in D8!Candidates
    BY <1>3, <1>6, D8Assumption DEF D8!VectorError, D8!Candidates, D8!CarveAssumption
  <2> QED  BY <1>1, <1>2, <1>4, <2>1, <2>2
           DEF D8!FailsForWantOfSeed, D8!SeedHonoursAuthority
<1> QED  BY <1>5, <1>6

(* The ranked first candidate is nearest, then largest, then first. *)
LEMMA UnitKeeps == ASSUME SeedInv, D8!SeedUnit PROVE SeedInv'
<1> USE DEF SeedInv
<1>1. /\ carvePc = "seed" /\ D8!outlet.kind = "unit"
      /\ UNCHANGED <<tiles, site, mask>> /\ tiles \in Tiles /\ site \in Sites
  BY DEF D8!SeedUnit, D8!Fail, D8!Plant, D8!problem
<1>2. mask \subseteq D8!Cells
  OBVIOUS
<1>3. /\ D8!outlet' = D8!outlet /\ D8!Candidates' = D8!Candidates
      /\ D8!InTile' = D8!InTile /\ D8!acc' = D8!acc
      /\ \A c \in D8!Candidates : D8!Distance(c)' = D8!Distance(c)
  BY <1>1 DEF D8!outlet, D8!Candidates, D8!InTile, D8!acc, D8!Distance
<1>4. CASE ~ D8!InTile \/ D8!Candidates = {}
  <2>1. carvePc' = "failed"
    BY <1>4 DEF D8!SeedUnit, D8!Fail
  <2> QED  BY <1>1, <1>2, <1>3, <1>4, <2>1
           DEF D8!FailsForWantOfSeed, D8!SeedHonoursAuthority
<1>5. CASE D8!InTile /\ D8!Candidates # {}
  <2>1. PICK c \in D8!Candidates :
          (\A d \in D8!Candidates : D8!Nearer(c, d)) /\ D8!Plant(c)
    BY <1>5 DEF D8!SeedUnit
  <2>2. carvePc' = "trace" /\ seed' = c
    BY <2>1 DEF D8!Plant
  <2>3. ASSUME NEW d \in D8!Candidates \ {c}
        PROVE  \/ D8!Distance(c) < D8!Distance(d)
               \/ /\ D8!Distance(c) = D8!Distance(d)
                  /\ D8!acc[c] > D8!acc[d] \/
                     (D8!acc[c] = D8!acc[d] /\
                       c[1] * Cols + c[2] < d[1] * Cols + d[2])
    <3>1. /\ c = <<c[1], c[2]>> /\ c[1] \in Nat /\ c[2] \in 0 .. Cols - 1
          /\ d = <<d[1], d[2]>> /\ d[1] \in Nat /\ d[2] \in 0 .. Cols - 1
      BY <1>1, <1>2, CandidateType
    <3>2. Cols \in Nat \ {0}
      BY D8Assumption DEF D8!CarveAssumption
    <3>3. c[1] < d[1] \/ (c[1] = d[1] /\ c[2] <= d[2]) =>
            c[1] * Cols + c[2] < d[1] * Cols + d[2]
      <4>1. c[1] = d[1] /\ c[2] <= d[2] => c[2] < d[2]
        BY <2>3, <3>1
      <4> QED  BY <3>1, <3>2, <4>1, RowMajor
    <3>4. D8!Nearer(c, d)
      BY <2>1
    <3> QED  BY <3>3, <3>4 DEF D8!Nearer
  <2>4. D8!SeedHonoursAuthority'
    BY <1>1, <1>3, <2>2, <2>3 DEF D8!SeedHonoursAuthority
  <2> QED  BY <1>1, <1>2, <2>2, <2>4 DEF D8!FailsForWantOfSeed
<1> QED  BY <1>4, <1>5

(* Later steps leave the seed and the tiles alone. *)
LEMMA TraceKeeps ==
  ASSUME SeedInv, D8!Trace \/ D8!Polygonize \/ UNCHANGED carveVars
  PROVE  SeedInv'
<1>1. /\ UNCHANGED <<tiles, site, mask, seed, why>>
      /\ carvePc' = carvePc \/ (carvePc = "trace" /\ carvePc' = "done")
  BY DEF D8!Trace, D8!Polygonize, D8!problem, carveVars
<1>2. /\ D8!outlet' = D8!outlet /\ D8!Candidates' = D8!Candidates
      /\ D8!InTile' = D8!InTile /\ D8!acc' = D8!acc /\ D8!Cell' = D8!Cell
      /\ D8!Usable' = D8!Usable
  BY <1>1 DEF D8!outlet, D8!Candidates, D8!InTile, D8!acc, D8!Cell, D8!Usable, D8!flow
<1>3. \A c \in D8!Candidates : D8!Distance(c)' = D8!Distance(c)
  BY <1>1 DEF D8!Distance, D8!outlet
<1>4. D8!SeedHonoursAuthority'
  BY <1>1, <1>2, <1>3 DEF SeedInv, D8!SeedHonoursAuthority
<1>5. D8!FailsForWantOfSeed'
  BY <1>1, <1>2 DEF SeedInv, D8!FailsForWantOfSeed
<1> QED  BY <1>1, <1>4, <1>5 DEF SeedInv

LEMMA SeedNext == SeedInv /\ [CarveNext]_<<vars, carveVars>> => SeedInv'
<1> SUFFICES ASSUME SeedInv, [CarveNext]_<<vars, carveVars>> PROVE SeedInv'
  OBVIOUS
<1>1. CASE CarveStep
  BY <1>1, EnterKeeps, AlignKeeps, VectorKeeps, UnitKeeps, TraceKeeps
     DEF CarveStep, D8!Next
<1>2. CASE UNCHANGED carveVars
  BY <1>2, TraceKeeps
<1> QED  BY <1>1, <1>2 DEF CarveNext, CarveEnds

(* On tiles of any size and content the seed of a vector outlet is its own *)
(* cell and that of a unit the nearest, largest, first candidate; and a    *)
(* carve of tiles that fit fails only for want of one.                     *)
THEOREM SeedHonoursAuthorityHolds == CarveSpec => []SeedHonoursAuthority
<1>1. SeedInv => SeedHonoursAuthority
  BY DEF SeedInv, SeedHonoursAuthority
<1> QED  BY <1>1, SeedInit, SeedNext, PTL DEF CarveSpec

-----------------------------------------------------------------------------
(* What drains to the seed: the reference of the trace. *)

(* Every set of natural numbers that is not empty has a least element. *)
LEMMA LeastNatural ==
  ASSUME NEW S \in SUBSET Nat, S # {}
  PROVE  \E m \in S : \A n \in S : m <= n
<1> DEFINE R == OpToRel(<, Nat)
<1>1. \A x, y \in Nat : <<x, y>> \in R <=> x < y
  BY DEF OpToRel
<1>2. IsWellFoundedOn(R, Nat)
  BY NatLessThanWellFounded
<1> HIDE DEF R
<1>3. PICK m \in S : \A n \in S : ~ (<<n, m>> \in R)
  BY <1>2, WFMin
<1>4. m \in Nat /\ \A n \in S : n \in Nat /\ ~ (n < m)
  BY <1>1, <1>3
<1>5. \A n \in S : m <= n
  BY <1>4
<1> QED  BY <1>5

(* One step against the flow. *)
Uphill(S) == S \cup {c \in mask : D8!Below(c) \in S}

(* The recursion of Drained, up to k. *)
Levels(f, k) == f = [n \in 0..k |-> IF n = 0 THEN {seed} ELSE Uphill(f[n - 1])]

(* It defines a function. *)
LEMMA LevelsExist == \A k \in Nat : \E f : Levels(f, k)
<1> DEFINE Missing == {k \in Nat : ~ \E f : Levels(f, k)}
<1> SUFFICES ASSUME Missing # {} PROVE FALSE
  OBVIOUS
<1>1. PICK k \in Missing : \A j \in Missing : k <= j
  <2>1. Missing \in SUBSET Nat
    OBVIOUS
  <2> HIDE DEF Missing
  <2> QED  BY <2>1, LeastNatural
<1>2. k \in Nat /\ ~ \E f : Levels(f, k)
  BY <1>1
<1>3. CASE k = 0
  <2>1. Levels([n \in 0..0 |-> {seed}], 0)
    BY DEF Levels
  <2> QED  BY <1>2, <1>3, <2>1
<1>4. CASE k # 0
  <2>1. k - 1 \in Nat /\ k - 1 \notin Missing
    BY <1>1, <1>2, <1>4
  <2>2. PICK g : Levels(g, k - 1)
    BY <2>1
  <2> DEFINE f == [n \in 0..k |-> IF n = k THEN Uphill(g[k - 1]) ELSE g[n]]
  <2>3. ASSUME NEW n \in 0..k
        PROVE  f[n] = IF n = 0 THEN {seed} ELSE Uphill(f[n - 1])
    <3>1. CASE n = k
      BY <1>2, <1>4, <3>1
    <3>2. CASE n # k
      <4>1. n \in 0..(k - 1) /\ f[n] = g[n]
        BY <1>2, <3>2
      <4>2. n # 0 => n - 1 \in 0..k /\ n - 1 # k
        BY <1>2, <4>1
      <4>3. n # 0 => f[n - 1] = g[n - 1]
        BY <4>2
      <4>4. g[n] = IF n = 0 THEN {seed} ELSE Uphill(g[n - 1])
        BY <2>2, <4>1 DEF Levels
      <4> QED  BY <4>1, <4>3, <4>4
    <3> QED  BY <3>1, <3>2
  <2>4. Levels(f, k)
    <3>1. f = [n \in 0..k |-> f[n]]
      OBVIOUS
    <3> HIDE DEF f
    <3> QED  BY <2>3, <3>1 DEF Levels
  <2> QED  BY <1>2, <2>4
<1> QED  BY <1>3, <1>4

LEMMA LevelsStep ==
  ASSUME NEW k \in Nat, NEW f, Levels(f, k)
  PROVE  f[0] = {seed} /\ \A n \in 1..k : f[n] = Uphill(f[n - 1])
<1> DEFINE Level(n) == IF n = 0 THEN {seed} ELSE Uphill(f[n - 1])
<1>1. f = [n \in 0..k |-> Level(n)]
  BY DEF Levels
<1> HIDE DEF Level
<1>2. \A n \in 0..k : f[n] = Level(n)
  BY <1>1
<1> QED  BY <1>2 DEF Level

LEMMA DrainedLevels ==
  ASSUME IsFiniteSet(mask)
  PROVE  /\ Cardinality(mask) \in Nat
         /\ D8!Drained[0] = {seed}
         /\ \A n \in 1..Cardinality(mask) : D8!Drained[n] = Uphill(D8!Drained[n - 1])
<1>1. Cardinality(mask) \in Nat
  BY FS_CardinalityType
<1>2. Levels(D8!Drained, Cardinality(mask))
  <2>1. \E f : Levels(f, Cardinality(mask))
    BY <1>1, LevelsExist
  <2>2. D8!Drained = CHOOSE f :
          f = [n \in 0..Cardinality(mask) |->
                 IF n = 0 THEN {seed}
                 ELSE f[n - 1] \cup {c \in mask : D8!Below(c) \in f[n - 1]}]
    BY DEF D8!Drained, D8!Cardinality, Cardinality
  <2>3. D8!Drained = CHOOSE f : Levels(f, Cardinality(mask))
    BY <2>2 DEF Levels, Uphill
  <2> HIDE DEF D8!Drained
  <2> QED  BY <2>1, <2>3
<1> QED  BY <1>1, <1>2, LevelsStep

(* Every level holds the seed and lies in the mask and above the one before. *)
LEMMA LevelsGrow ==
  ASSUME IsFiniteSet(mask), seed \in mask
  PROVE  /\ \A n \in 0..Cardinality(mask) :
              seed \in D8!Drained[n] /\ D8!Drained[n] \subseteq mask
         /\ \A n \in 1..Cardinality(mask) : D8!Drained[n - 1] \subseteq D8!Drained[n]
<1> DEFINE N == Cardinality(mask)
           D == D8!Drained
           Missing == {n \in 0..N : ~ (seed \in D[n] /\ D[n] \subseteq mask)}
<1>1. N \in Nat /\ D[0] = {seed} /\ \A n \in 1..N : D[n] = Uphill(D[n - 1])
  BY DrainedLevels
<1> HIDE DEF N, D
<1>2. Missing = {}
  <2> SUFFICES ASSUME Missing # {} PROVE FALSE
    OBVIOUS
  <2>1. PICK n \in Missing : \A m \in Missing : n <= m
    <3>1. Missing \in SUBSET Nat
      BY <1>1
    <3> HIDE DEF Missing
    <3> QED  BY <3>1, LeastNatural
  <2>2. n # 0
    BY <1>1, <2>1
  <2>3. n \in 1..N /\ n - 1 \in 0..N /\ n - 1 \notin Missing
    BY <1>1, <2>1, <2>2
  <2>4. seed \in D[n] /\ D[n] \subseteq mask
    BY <1>1, <2>3 DEF Uphill
  <2> QED  BY <2>1, <2>4
<1>3. \A n \in 1..N : D[n - 1] \subseteq D[n]
  BY <1>1 DEF Uphill
<1> QED  BY <1>2, <1>3 DEF N, D

(* A level that is its own next one is reached within the cells there are. *)
LEMMA LevelsEnd ==
  ASSUME IsFiniteSet(mask), seed \in mask
  PROVE  \E n \in 1..Cardinality(mask) : D8!Drained[n] = D8!Drained[n - 1]
<1> DEFINE N == Cardinality(mask)
           D == D8!Drained
           Missing == {n \in 0..N : ~ (Cardinality(D[n]) >= n + 1)}
<1>1. N \in Nat /\ D[0] = {seed}
  BY DrainedLevels
<1>2. /\ \A n \in 0..N : seed \in D[n] /\ D[n] \subseteq mask
      /\ \A n \in 1..N : D[n - 1] \subseteq D[n]
  BY LevelsGrow
<1>3. \A n \in 0..N : /\ IsFiniteSet(D[n]) /\ Cardinality(D[n]) \in Nat
                      /\ Cardinality(D[n]) <= N
  <2> HIDE DEF D
  <2> TAKE n \in 0..N
  <2>1. D[n] \in SUBSET mask
    BY <1>2
  <2> QED  BY <2>1, FS_Subset, FS_CardinalityType
<1> SUFFICES ASSUME \A n \in 1..N : D[n] # D[n - 1] PROVE FALSE
  OBVIOUS
<1> HIDE DEF N, D
<1>4. Missing = {}
  <2> SUFFICES ASSUME Missing # {} PROVE FALSE
    OBVIOUS
  <2>1. PICK n \in Missing : \A m \in Missing : n <= m
    <3>1. Missing \in SUBSET Nat
      BY <1>1
    <3> HIDE DEF Missing
    <3> QED  BY <3>1, LeastNatural
  <2>2. n # 0
    <3>1. Cardinality(D[0]) = 1
      BY <1>1, FS_Singleton
    <3> QED  BY <2>1, <3>1
  <2>3. n \in 1..N /\ n - 1 \in 0..N /\ Cardinality(D[n - 1]) >= (n - 1) + 1
    BY <1>1, <2>1, <2>2
  <2>4. D[n - 1] \in SUBSET D[n] /\ D[n] # D[n - 1]
    BY <1>2, <2>3
  <2>5. /\ Cardinality(D[n - 1]) <= Cardinality(D[n])
        /\ Cardinality(D[n - 1]) # Cardinality(D[n])
    BY <1>3, <2>3, <2>4, FS_Subset
  <2>6. Cardinality(D[n]) \in Nat /\ Cardinality(D[n - 1]) \in Nat
    BY <1>3, <2>3
  <2>7. Cardinality(D[n]) >= n + 1
    BY <2>3, <2>5, <2>6
  <2> QED  BY <2>1, <2>7
<1>5. Cardinality(D[N]) >= N + 1
  BY <1>1, <1>4
<1> QED  BY <1>1, <1>3, <1>5

(* The catchment of the seed is the least set of cells of the mask that    *)
(* holds the seed and what leads into it.                                  *)
LEMMA CatchmentLeast ==
  ASSUME IsFiniteSet(mask), seed \in mask
  PROVE  /\ seed \in D8!Catchment /\ D8!Catchment \subseteq mask
         /\ \A c \in mask : D8!Below(c) \in D8!Catchment => c \in D8!Catchment
         /\ \A S : seed \in S /\ (\A c \in mask : D8!Below(c) \in S => c \in S)
                     => D8!Catchment \subseteq S
<1> DEFINE N == Cardinality(mask)
           D == D8!Drained
<1>1. /\ N \in Nat /\ D[0] = {seed}
      /\ \A n \in 1..N : D[n] = Uphill(D[n - 1])
  BY DrainedLevels
<1>2. \A n \in 0..N : seed \in D[n] /\ D[n] \subseteq mask
  BY LevelsGrow
<1>3. D8!Catchment = D[N]
  BY DEF D8!Catchment, D8!Cardinality, Cardinality
<1>4. PICK n \in 1..N : D[n] = D[n - 1]
  BY LevelsEnd
<1> HIDE DEF N, D
<1>5. D[N] = D[n]
  <2> DEFINE Missing == {m \in n..N : D[m] # D[n]}
  <2>1. Missing = {}
    <3> SUFFICES ASSUME Missing # {} PROVE FALSE
      OBVIOUS
    <3>1. PICK m \in Missing : \A k \in Missing : m <= k
      <4>1. Missing \in SUBSET Nat
        BY <1>1
      <4> HIDE DEF Missing
      <4> QED  BY <4>1, LeastNatural
    <3>2. m # n /\ m \in 1..N
      BY <1>1, <3>1
    <3>3. m - 1 \in n..N /\ m - 1 \notin Missing
      BY <1>1, <3>1, <3>2
    <3>4. D[m] = Uphill(D[n]) /\ D[n] = Uphill(D[n])
      BY <1>1, <1>4, <3>2, <3>3
    <3> QED  BY <3>1, <3>4
  <2> QED  BY <1>1, <2>1
<1>6. D[N] = Uphill(D[N])
  BY <1>1, <1>4, <1>5
<1>7. ASSUME NEW S, seed \in S, \A c \in mask : D8!Below(c) \in S => c \in S
      PROVE  D[N] \subseteq S
  <2> DEFINE Missing == {m \in 0..N : ~ (D[m] \subseteq S)}
  <2>1. Missing = {}
    <3> SUFFICES ASSUME Missing # {} PROVE FALSE
      OBVIOUS
    <3>1. PICK m \in Missing : \A k \in Missing : m <= k
      <4>1. Missing \in SUBSET Nat
        BY <1>1
      <4> HIDE DEF Missing
      <4> QED  BY <4>1, LeastNatural
    <3>2. m # 0
      BY <1>1, <1>7, <3>1
    <3>3. m \in 1..N /\ m - 1 \in 0..N /\ m - 1 \notin Missing
      BY <1>1, <3>1, <3>2
    <3>4. D[m] \subseteq S
      BY <1>1, <1>7, <3>3 DEF Uphill
    <3> QED  BY <3>1, <3>4
  <2> QED  BY <1>1, <2>1
<1>8. seed \in D[N] /\ D[N] \subseteq mask
  BY <1>1, <1>2
<1> QED  BY <1>3, <1>6, <1>7, <1>8 DEF Uphill

-----------------------------------------------------------------------------
(* The trace. *)

(* The cells of the tile are finitely many. *)
LEMMA FiniteMask == ASSUME SeedInv PROVE IsFiniteSet(mask)
<1>1. Rows \in Nat /\ Cols \in Nat
  BY D8Assumption DEF D8!CarveAssumption
<1>2. IsFiniteSet(0 .. Rows - 1) /\ IsFiniteSet(0 .. Cols - 1)
  BY <1>1, FS_Interval
<1>3. IsFiniteSet(D8!Cells)
  BY <1>2, FS_Product DEF D8!Cells
<1> QED  BY <1>3, FS_Subset DEF SeedInv

(* A cell of the mask leads down to another one if it drains to it, or is  *)
(* without a direction and stays.                                          *)
LEMMA BelowIsDrain ==
  ASSUME SeedInv, carvePc # "idle", NEW n \in mask, NEW c, D8!Below(n) = c
  PROVE  n = c \/ D8!DrainsTo(n, c)
<1>1. n \in D8!Cells /\ D8!flow[n] \in D8!Range(D8!D8) \cup {D8!Undefined, D8!Sink}
  BY D8Assumption DEF SeedInv, D8!CarveAssumption, D8!Tile, D8!flow
<1>2. n = <<n[1], n[2]>> /\ n[1] \in Int /\ n[2] \in Int
  BY <1>1, D8Assumption DEF D8!Cells, D8!CarveAssumption
<1>3. CASE D8!flow[n] \in {D8!Undefined, D8!Sink}
  BY <1>2, <1>3 DEF D8!Below, D8!Undefined, D8!Sink
<1>4. CASE D8!flow[n] \in D8!Range(D8!D8)
  <2>1. D8!flow[n] # D8!Undefined
    BY <1>4 DEF D8!Range, D8!D8, D8!Undefined
  <2>2. c = <<n[1] + D8!flow[n][1], n[2] + D8!flow[n][2]>>
    BY <2>1 DEF D8!Below
  <2>3. PICK i \in 1..8 : D8!flow[n] = <<-D8!D8[i][1], -D8!D8[i][2]>>
    BY <1>4 DEF D8!Range, D8!D8
  <2>4. D8!D8[i][1] \in Int /\ D8!D8[i][2] \in Int
    BY DEF D8!D8
  <2>5. n = <<c[1] + D8!D8[i][1], c[2] + D8!D8[i][2]>>
    BY <1>2, <2>2, <2>3, <2>4
  <2> QED  BY <2>3, <2>5 DEF D8!DrainsTo
<1> QED  BY <1>1, <1>3, <1>4

LEMMA DrainIsBelow ==
  ASSUME SeedInv, carvePc # "idle", NEW n, NEW c \in mask, D8!DrainsTo(n, c)
  PROVE  n \in mask /\ D8!Below(n) = c
<1>1. PICK i \in 1..8 : /\ n = <<c[1] + D8!D8[i][1], c[2] + D8!D8[i][2]>>
                        /\ n \in mask
                        /\ D8!flow[n] = <<-D8!D8[i][1], -D8!D8[i][2]>>
  BY DEF D8!DrainsTo
<1>2. c = <<c[1], c[2]>> /\ c[1] \in Int /\ c[2] \in Int
  BY D8Assumption DEF SeedInv, D8!Cells, D8!CarveAssumption
<1>3. D8!D8[i][1] \in Int /\ D8!D8[i][2] \in Int
  BY DEF D8!D8
<1>4. D8!flow[n] # D8!Undefined
  BY <1>1 DEF D8!Undefined
<1>5. D8!Below(n) = <<n[1] + D8!flow[n][1], n[2] + D8!flow[n][2]>>
  BY <1>4 DEF D8!Below
<1> QED  BY <1>1, <1>2, <1>3, <1>5

(* The members of a sequence, and of two after each other. *)
On(q, x) == \E j \in 1..Len(q) : q[j] = x

LEMMA OnConcat ==
  ASSUME NEW T, NEW p \in Seq(T), NEW q \in Seq(T)
  PROVE  /\ p \o q \in Seq(T)
         /\ \A x : On(p \o q, x) <=> On(p, x) \/ On(q, x)
<1>1. p \o q \in Seq(T) /\ Len(p \o q) = Len(p) + Len(q)
  OBVIOUS
<1>2. ASSUME NEW x, On(p, x) PROVE On(p \o q, x)
  <2>1. PICK j \in 1..Len(p) : p[j] = x
    BY <1>2 DEF On
  <2>2. j \in 1..Len(p \o q) /\ (p \o q)[j] = x
    BY <1>1, <2>1
  <2> QED  BY <2>2 DEF On
<1>3. ASSUME NEW x, On(q, x) PROVE On(p \o q, x)
  <2>1. PICK j \in 1..Len(q) : q[j] = x
    BY <1>3 DEF On
  <2>2. j + Len(p) \in 1..Len(p \o q) /\ (p \o q)[j + Len(p)] = x
    BY <1>1, <2>1
  <2> QED  BY <2>2 DEF On
<1>4. ASSUME NEW x, On(p \o q, x) PROVE On(p, x) \/ On(q, x)
  <2>1. PICK j \in 1..Len(p \o q) : (p \o q)[j] = x
    BY <1>4 DEF On
  <2>2. CASE j <= Len(p)
    <3>1. j \in 1..Len(p) /\ p[j] = x
      BY <1>1, <2>1, <2>2
    <3> QED  BY <3>1 DEF On
  <2>3. CASE ~ (j <= Len(p))
    <3>1. j - Len(p) \in 1..Len(q) /\ q[j - Len(p)] = x
      BY <1>1, <2>1, <2>3
    <3> QED  BY <3>1 DEF On
  <2> QED  BY <2>2, <2>3
<1> QED  BY <1>1, <1>2, <1>3, <1>4

(* A turn pushes what drains to the cell and is new, and nothing else. *)
New(c) == {n \in mask : D8!DrainsTo(n, c) /\ n \notin visited}

LEMMA UpslopeCells ==
  ASSUME NEW c
  PROVE  /\ D8!Upslope(c) \in Seq(New(c))
         /\ \A n \in New(c) : On(D8!Upslope(c), n)
<1> DEFINE P(i) == D8!Pushed(c, i)
<1>1. ASSUME NEW i \in 1..8 PROVE P(i) \in Seq(New(c))
  <2> DEFINE n == <<c[1] + D8!D8[i][1], c[2] + D8!D8[i][2]>>
  <2>1. CASE D8!DrainsTo(n, c) /\ n \notin visited
    <3>1. n \in New(c) /\ P(i) = <<n>>
      BY <2>1 DEF New, D8!DrainsTo, D8!Pushed
    <3> HIDE DEF n, P
    <3> QED  BY <3>1
  <2>2. CASE ~ (D8!DrainsTo(n, c) /\ n \notin visited)
    BY <2>2 DEF D8!Pushed
  <2> QED  BY <2>1, <2>2
<1>2. ASSUME NEW n \in New(c) PROVE \E i \in 1..8 : On(P(i), n)
  <2>1. PICK i \in 1..8 : n = <<c[1] + D8!D8[i][1], c[2] + D8!D8[i][2]>>
    BY DEF New, D8!DrainsTo
  <2>2. P(i) = <<n>>
    BY <2>1 DEF New, D8!Pushed
  <2>3. On(<<n>>, n)
    BY DEF On
  <2> QED  BY <2>2, <2>3
<1> DEFINE P2 == P(1) \o P(2)  P3 == P2 \o P(3)  P4 == P3 \o P(4)  P5 == P4 \o P(5)
           P6 == P5 \o P(6)  P7 == P6 \o P(7)  P8 == P7 \o P(8)
<1>3. D8!Upslope(c) = P8
  BY DEF D8!Upslope
<1> HIDE DEF P
<1>4. P2 \in Seq(New(c)) /\ \A x : On(P(1), x) \/ On(P(2), x) => On(P2, x)
  BY <1>1, OnConcat
<1> HIDE DEF P2
<1>5. P3 \in Seq(New(c)) /\ \A x : On(P2, x) \/ On(P(3), x) => On(P3, x)
  BY <1>1, <1>4, OnConcat
<1> HIDE DEF P3
<1>6. P4 \in Seq(New(c)) /\ \A x : On(P3, x) \/ On(P(4), x) => On(P4, x)
  BY <1>1, <1>5, OnConcat
<1> HIDE DEF P4
<1>7. P5 \in Seq(New(c)) /\ \A x : On(P4, x) \/ On(P(5), x) => On(P5, x)
  BY <1>1, <1>6, OnConcat
<1> HIDE DEF P5
<1>8. P6 \in Seq(New(c)) /\ \A x : On(P5, x) \/ On(P(6), x) => On(P6, x)
  BY <1>1, <1>7, OnConcat
<1> HIDE DEF P6
<1>9. P7 \in Seq(New(c)) /\ \A x : On(P6, x) \/ On(P(7), x) => On(P7, x)
  BY <1>1, <1>8, OnConcat
<1> HIDE DEF P7
<1>10. P8 \in Seq(New(c)) /\ \A x : On(P7, x) \/ On(P(8), x) => On(P8, x)
  BY <1>1, <1>9, OnConcat
<1> HIDE DEF P8
<1>11. \A n \in New(c) : On(P8, n)
  <2> TAKE n \in New(c)
  <2>1. PICK i \in {1, 2, 3, 4, 5, 6, 7, 8} : On(P(i), n)
    <3>1. 1..8 = {1, 2, 3, 4, 5, 6, 7, 8}
      OBVIOUS
    <3> QED  BY <1>2, <3>1
  <2> QED  BY <2>1, <1>4, <1>5, <1>6, <1>7, <1>8, <1>9, <1>10
<1> QED  BY <1>3, <1>10, <1>11

(* The inductive invariant of the trace: nothing was visited that does not *)
(* lead to the seed, and a visited cell is on the stack or all that lead   *)
(* into it are visited.                                                    *)
TraceInv ==
  carvePc \in {"trace", "done"} =>
    /\ stack \in Seq(visited) /\ seed \in visited /\ visited \subseteq mask
    /\ \A S : seed \in S /\ (\A c \in mask : D8!Below(c) \in S => c \in S)
                => visited \subseteq S
    /\ \A c \in visited :
         On(stack, c) \/ \A n \in mask : D8!Below(n) = c => n \in visited
    /\ carvePc = "done" => stack = << >>

LEMMA PlantKeeps ==
  ASSUME SeedInv', D8!SeedVector \/ D8!SeedUnit
  PROVE  TraceInv'
<1>1. CASE carvePc' \notin {"trace", "done"}
  BY <1>1 DEF TraceInv
<1>2. CASE carvePc' \in {"trace", "done"}
  <2>1. PICK c : D8!Plant(c)
    BY <1>2 DEF D8!SeedVector, D8!SeedUnit, D8!Fail
  <2>2. seed' = c /\ visited' = {c} /\ stack' = <<c>> /\ carvePc' = "trace"
    BY <2>1 DEF D8!Plant
  <2>3. c \in mask'
    BY <2>2 DEF SeedInv, D8!SeedHonoursAuthority, D8!Candidates
  <2>4. On(stack, c)'
    BY <2>2 DEF On
  <2>5. stack' \in Seq({c})
    BY <2>2
  <2> QED  BY <2>2, <2>3, <2>4, <2>5 DEF TraceInv
<1> QED  BY <1>1, <1>2

LEMMA TurnKeeps ==
  ASSUME SeedInv, TraceInv, D8!Trace
  PROVE  TraceInv'
<1> DEFINE c == D8!Top
           U == D8!Upslope(c)
<1>1. /\ carvePc = "trace" /\ carvePc' = "trace" /\ stack # << >>
      /\ UNCHANGED <<tiles, mask, seed>>
      /\ visited' = visited \cup D8!Range(U) /\ stack' = D8!Rest \o U
  BY DEF D8!Trace, D8!problem
<1>2. /\ stack \in Seq(visited) /\ seed \in visited /\ visited \subseteq mask
      /\ \A S : seed \in S /\ (\A x \in mask : D8!Below(x) \in S => x \in S)
                  => visited \subseteq S
      /\ \A x \in visited :
           On(stack, x) \/ \A n \in mask : D8!Below(n) = x => n \in visited
  BY <1>1 DEF TraceInv
<1>3. /\ Len(stack) \in Nat \ {0} /\ c = stack[Len(stack)] /\ c \in visited /\ c \in mask
      /\ D8!Rest \in Seq(visited)
      /\ \A x : On(stack, x) => x = c \/ On(D8!Rest, x)
  <2>1. /\ Len(stack) \in Nat \ {0} /\ c = stack[Len(stack)] /\ c \in visited
        /\ D8!Rest \in Seq(visited) /\ Len(D8!Rest) = Len(stack) - 1
        /\ \A j \in 1..(Len(stack) - 1) : D8!Rest[j] = stack[j]
    <3>1. Len(stack) \in Nat /\ Len(stack) # 0
      BY <1>1, <1>2
    <3>2. Len(stack) - 1 \in 0..Len(stack)
      BY <3>1
    <3>3. c = stack[Len(stack)] /\ c \in visited
      BY <1>2, <3>1 DEF D8!Top
    <3>4. SubSeq(stack, 1, Len(stack) - 1) = D8!Rest
      BY DEF D8!Rest
    <3> HIDE DEF c
    <3>5. /\ D8!Rest \in Seq(visited) /\ Len(D8!Rest) = Len(stack) - 1
          /\ \A j \in 1..(Len(stack) - 1) : D8!Rest[j] = stack[j]
      BY <1>2, <3>1, <3>2, <3>4
    <3> QED  BY <3>1, <3>3, <3>5
  <2>2. ASSUME NEW x, On(stack, x) PROVE x = c \/ On(D8!Rest, x)
    <3>1. PICK j \in 1..Len(stack) : stack[j] = x
      BY <2>2 DEF On
    <3>2. CASE j = Len(stack)
      BY <2>1, <3>1, <3>2
    <3>3. CASE j # Len(stack)
      BY <2>1, <3>1, <3>3 DEF On
    <3> QED  BY <3>2, <3>3
  <2> QED  BY <1>2, <2>1, <2>2
<1>4. U \in Seq(New(c)) /\ \A n \in New(c) : On(U, n)
  BY UpslopeCells
<1> HIDE DEF c, U
<1>5. D8!Range(U) = New(c)
  <2>1. D8!Range(U) \subseteq New(c) /\ DOMAIN U = 1..Len(U)
    BY <1>4 DEF D8!Range
  <2> QED  BY <1>4, <2>1 DEF D8!Range, On
<1>6. stack' \in Seq(visited') /\ \A x : On(D8!Rest, x) \/ On(U, x) => On(stack, x)'
  <2>1. D8!Rest \in Seq(visited') /\ U \in Seq(visited')
    <3>1. visited \subseteq visited' /\ New(c) \subseteq visited'
      BY <1>1, <1>5
    <3> QED  BY <1>3, <1>4, <3>1
  <2>2. /\ D8!Rest \o U \in Seq(visited')
        /\ \A x : On(D8!Rest \o U, x) <=> On(D8!Rest, x) \/ On(U, x)
    BY <2>1, OnConcat
  <2> QED  BY <1>1, <2>2 DEF On
<1>7. \A x : D8!Below(x)' = D8!Below(x)
  BY <1>1 DEF D8!Below, D8!flow
<1>8. \A n \in New(c) : n \in mask /\ D8!Below(n) = c
  BY <1>1, <1>3, DrainIsBelow DEF New
<1>9. visited' \subseteq mask'
  BY <1>1, <1>2, <1>5, <1>8
<1>10. ASSUME NEW S, seed \in S, \A x \in mask : D8!Below(x) \in S => x \in S
       PROVE  visited' \subseteq S
  <2>1. visited \subseteq S
    BY <1>2, <1>10
  <2>2. New(c) \subseteq S
    BY <1>3, <1>8, <1>10, <2>1
  <2> QED  BY <1>1, <1>5, <2>1, <2>2
<1>11. ASSUME NEW x \in visited', ~ On(stack, x)', NEW n \in mask, D8!Below(n) = x
       PROVE  n \in visited'
  <2>1. x \in visited
    BY <1>1, <1>4, <1>5, <1>6, <1>11
  <2>2. CASE x # c
    BY <1>1, <1>2, <1>3, <1>6, <1>11, <2>1, <2>2
  <2>3. CASE x = c
    <3>1. n = c \/ n \in visited \/ n \in New(c)
      BY <1>1, <1>11, <2>3, BelowIsDrain DEF New
    <3> QED  BY <1>1, <1>3, <1>5, <3>1
  <2> QED  BY <2>2, <2>3
<1> QED  BY <1>1, <1>2, <1>6, <1>7, <1>9, <1>10, <1>11 DEF TraceInv

LEMMA TraceRests ==
  ASSUME TraceInv, D8!Enter \/ D8!Align \/ D8!Polygonize \/ UNCHANGED carveVars
  PROVE  TraceInv'
<1>1. CASE D8!Enter \/ D8!Align
  BY <1>1 DEF D8!Enter, D8!Align, TraceInv
<1>2. CASE D8!Polygonize \/ UNCHANGED carveVars
  <2>1. /\ UNCHANGED <<tiles, mask, seed, visited, stack>>
        /\ carvePc' = carvePc \/ (carvePc = "trace" /\ stack = << >> /\ carvePc' = "done")
    BY <1>2 DEF D8!Polygonize, D8!problem, carveVars
  <2>2. \A x : D8!Below(x)' = D8!Below(x) /\ On(stack, x)' = On(stack, x)
    BY <2>1 DEF D8!Below, D8!flow, On
  <2> QED  BY <2>1, <2>2 DEF TraceInv
<1> QED  BY <1>1, <1>2

(* There is no carve without an edge: the sides above its first row. *)
LEMMA CarveHasEdges ==
  ASSUME SeedInv, TraceInv, carvePc = "done"
  PROVE  D8!Edges(visited) # {}
<1>1. visited \subseteq D8!Cells /\ visited # {}
  BY DEF SeedInv, TraceInv
<1> DEFINE rows == {c[1] : c \in visited}
<1>2. rows \in SUBSET Nat /\ rows # {}
  BY <1>1, D8Assumption DEF D8!Cells, D8!CarveAssumption
<1>3. PICK c \in visited : \A d \in visited : c[1] <= d[1]
  <2> HIDE DEF rows
  <2>1. PICK r \in rows : \A s \in rows : r <= s
    BY <1>2, LeastNatural
  <2> QED  BY <2>1 DEF rows
<1>4. c[1] \in Nat /\ <<c[1] - 1, c[2]>> \notin visited
  <2>1. c[1] \in Nat
    BY <1>2
  <2>2. <<c[1] - 1, c[2]>>[1] = c[1] - 1
    OBVIOUS
  <2>3. ~ (c[1] <= c[1] - 1)
    BY <2>1
  <2> QED  BY <1>3, <2>1, <2>2, <2>3
<1>5. PICK side \in D8!Sides(c) : side.beyond = <<c[1] - 1, c[2]>>
  <2>1. c[2] \in Int
    BY <1>1, D8Assumption DEF D8!Cells, D8!CarveAssumption
  <2>2. [of |-> c, from |-> <<4 * c[1], 4 * c[2]>>, to |-> <<4 * c[1], 4 * c[2] + 4>>,
         beyond |-> <<c[1] + (-1), c[2] + 0>>] \in D8!Sides(c)
    BY DEF D8!Sides
  <2>3. <<c[1] + (-1), c[2] + 0>> = <<c[1] - 1, c[2]>>
    BY <1>4, <2>1
  <2> QED  BY <2>2, <2>3
<1> QED  BY <1>4, <1>5 DEF D8!Edges

LEMMA TraceNext ==
  SeedInv /\ TraceInv /\ [CarveNext]_<<vars, carveVars>> => TraceInv'
<1> SUFFICES ASSUME SeedInv, TraceInv, [CarveNext]_<<vars, carveVars>> PROVE TraceInv'
  OBVIOUS
<1>1. SeedInv'
  BY SeedNext
<1>2. CASE CarveStep
  BY <1>1, <1>2, PlantKeeps, TurnKeeps, TraceRests DEF CarveStep, D8!Next
<1>3. CASE UNCHANGED carveVars
  BY <1>3, TraceRests
<1> QED  BY <1>2, <1>3 DEF CarveNext, CarveEnds

(* Nothing else is called an empty polygonization, as what a declaration   *)
(* fails with is known.                                                    *)
NamesInv ==
  /\ decls \in UNION {[1..n -> Declarations] : n \in 0..MaxDecls}
  /\ pc = "mode" => next = 1
  /\ pc = "select" => next \in 1..Len(decls)
  /\ result.why # "EmptyPolygonization"

LEMMA DeclsLength ==
  ASSUME NamesInv
  PROVE  /\ Len(decls) \in Nat /\ \A i \in 1..Len(decls) : decls[i] \in Declarations
         /\ decls # << >> => Len(decls) # 0
<1>1. PICK n \in 0..MaxDecls : decls \in [1..n -> Declarations]
  BY DEF NamesInv
<1>2. n \in Nat
  BY RefinementAssumption
<1>3. decls \in Seq(Declarations)
  BY <1>1, <1>2
<1> QED  BY <1>3

LEMMA NamedReturn ==
  ASSUME NamesInv, NEW r, Return(r), r.why # "EmptyPolygonization"
  PROVE  NamesInv'
BY DEF NamesInv, Return

LEMMA NamedFailure ==
  ASSUME NamesInv, NEW error, Return(Failure(error)), error # "EmptyPolygonization"
  PROVE  NamesInv'
<1>1. Failure(error).why = error
  BY DEF Failure, Skipped, Error, Pending
<1> QED  BY <1>1, NamedReturn

LEMMA NamesNext ==
  SeedInv /\ TraceInv /\ NamesInv /\ [CarveNext]_<<vars, carveVars>> => NamesInv'
<1> SUFFICES ASSUME SeedInv, TraceInv, NamesInv, [CarveNext]_<<vars, carveVars>>
             PROVE  NamesInv'
  OBVIOUS
<1>1. CASE UNCHANGED vars
  BY <1>1 DEF NamesInv, vars
<1>2. CASE Disabled \/ NoDeclaration
  <2>1. CASE Disabled
    <3>1. [Pending EXCEPT !.outcome = "Disabled"].why # "EmptyPolygonization"
      BY DEF Pending
    <3> QED  BY <2>1, <3>1, NamedReturn DEF Disabled
  <2>2. CASE NoDeclaration
    <3>1. \A e, k : Error(e).why = e /\ Skipped(e, k).why = e
      BY DEF Error, Skipped, Pending
    <3>2. PICK r \in {Error("MissingRequiredD8Aux"),
                      Skipped("UnreadableD8AuxDeclared", "MisDeclaration"),
                      Skipped("NoD8AuxDeclared", "Availability"),
                      Skipped("CoarseUnitOnlyNoD8AuxDeclared", "Availability")} : Return(r)
      BY <2>2 DEF NoDeclaration
    <3>3. r.why # "EmptyPolygonization"
      BY <3>1, <3>2
    <3> QED  BY <3>2, <3>3, NamedReturn
  <2> QED  BY <1>2, <2>1, <2>2
<1>3. CASE Begin
  <2>1. CASE Return(Failure("DegenerateTerminalPolygon"))
    BY <2>1, NamedFailure
  <2>2. CASE pc' = "select" /\ UNCHANGED <<decls, next, result>>
    <3>1. pc = "mode" /\ decls # << >>
      BY <1>3 DEF Begin
    <3>2. next' = 1 /\ 1 \in 1..Len(decls)
      BY <2>2, <3>1, DeclsLength DEF NamesInv
    <3> QED  BY <2>2, <3>2 DEF NamesInv
  <2> QED  BY <1>3, <2>1, <2>2 DEF Begin
<1>4. CASE Examine
  <2>1. next \in 1..Len(decls) /\ Len(decls) \in Nat /\ decls[next].crs \in Crs
    BY <1>4, DeclsLength DEF Examine, NamesInv, Declarations
  <2>2. CASE Goes(next)
    BY <2>1, <2>2 DEF Goes, NamesInv
  <2>3. CASE \E error \in Crs \cup {"CogExtentHeaderRead"} : Return(Failure(error))
    BY <2>3, NamedFailure, RefinementAssumption
  <2> QED  BY <1>4, <2>1, <2>2, <2>3 DEF Examine
<1>5. CASE Choose
  <2>1. CASE \E error \in {"TerminalSpansD8Tiles", "NoCoveringD8Tile"} : Return(Failure(error))
    BY <2>1, NamedFailure
  <2>2. CASE pc' = "source" /\ UNCHANGED <<decls, result>>
    BY <2>2 DEF NamesInv
  <2> QED  BY <1>5, <2>1, <2>2 DEF Choose
<1>6. CASE NoSource
  <2>1. \A e, k : Error(e).why = e /\ Skipped(e, k).why = e
    BY DEF Error, Skipped, Pending
  <2>2. PICK r \in {Skipped("NoRasterSourceProvided", "Availability"),
                    Error("RequiredD8RasterSourceMissing")} : Return(r)
    BY <1>6 DEF NoSource
  <2>3. r.why # "EmptyPolygonization"
    BY <2>1, <2>2
  <2> QED  BY <2>2, <2>3, NamedReturn
<1>7. CASE WithSource \/ LocalizeDir \/ LocalizeAcc \/ Load
  <2>1. CASE pc' \notin {"mode", "select"} /\ UNCHANGED <<decls, result>>
    BY <2>1 DEF NamesInv
  <2>2. CASE \E error \in {"Cache", "IntegrityViolation", "RasterSourceRead",
                           "InvalidFlowDirectionNodata", "TileConstruction"} :
               Return(Failure(error))
    BY <2>2, NamedFailure
  <2> QED  BY <1>7, <2>1, <2>2
           DEF WithSource, LocalizeDir, LocalizeAcc, Load, Localize, Advance
<1>8. CASE CarveEnds
  <2>1. CASE Return(Failure(ErrorOf(why)))
    <3>1. ErrorOf(why) # "EmptyPolygonization"
      BY DEF ErrorOf
    <3> QED  BY <2>1, <3>1, NamedFailure
  <2>2. CASE carvePc = "done"
    <3>1. D8!Edges(visited) # {}
      BY <2>2, CarveHasEdges
    <3>2. CASE Return(Applied(SeedReason, Chosen))
      <4>1. Applied(SeedReason, Chosen).why # "EmptyPolygonization"
        BY DEF Applied, SeedReason, Pending
      <4> QED  BY <3>2, <4>1, NamedReturn
    <3>3. CASE Return(Failure("InverseProjection"))
      BY <3>3, NamedFailure
    <3> QED  BY <1>8, <2>2, <3>1, <3>2, <3>3 DEF CarveEnds
  <2> QED  BY <1>8, <2>1, <2>2 DEF CarveEnds
<1> QED  BY <1>1, <1>2, <1>3, <1>4, <1>5, <1>6, <1>7, <1>8
         DEF CarveNext, Stages, CarveStep

(* On tiles of any size and content, flow cycles included, what is carved  *)
(* is exactly what drains to the seed within the terminal's mask, and is   *)
(* never empty.                                                            *)
THEOREM CarveExactHolds == CarveSpec => []CarveExact
<1>1. SeedInv /\ TraceInv => (pc = "carve" /\ carvePc = "done" => D8!CarveExact)
  <2> SUFFICES ASSUME SeedInv, TraceInv, carvePc = "done"
               PROVE  visited = D8!Catchment /\ visited \subseteq mask
    BY DEF D8!CarveExact
  <2>1. /\ seed \in visited /\ visited \subseteq mask /\ stack = << >>
        /\ \A S : seed \in S /\ (\A c \in mask : D8!Below(c) \in S => c \in S)
                    => visited \subseteq S
    BY DEF TraceInv
  <2>2. \A c \in mask : D8!Below(c) \in visited => c \in visited
    <3>1. \A x : ~ On(stack, x)
      BY <2>1 DEF On
    <3> QED  BY <3>1 DEF TraceInv
  <2>3. IsFiniteSet(mask) /\ seed \in mask
    BY <2>1, FiniteMask
  <2>4. visited \subseteq D8!Catchment
    <3>1. seed \in D8!Catchment
      BY <2>3, CatchmentLeast
    <3>2. \A c \in mask : D8!Below(c) \in D8!Catchment => c \in D8!Catchment
      BY <2>3, CatchmentLeast
    <3> QED  BY <2>1, <3>1, <3>2
  <2>5. D8!Catchment \subseteq visited
    BY <2>1, <2>2, <2>3, CatchmentLeast
  <2> QED  BY <2>1, <2>4, <2>5
<1>2. CarveInit => TraceInv /\ NamesInv
  BY DEF CarveInit, D8!Init, TraceInv, NamesInv, Init, Pending
<1>3. CarveSpec => []SeedInv
  BY SeedInit, SeedNext, PTL DEF CarveSpec
<1>4. CarveSpec => [](TraceInv /\ NamesInv)
  BY <1>2, <1>3, TraceNext, NamesNext, PTL DEF CarveSpec
<1>5. SeedInv /\ TraceInv /\ NamesInv => CarveExact
  BY <1>1 DEF CarveExact, NamesInv
<1> QED  BY <1>3, <1>4, <1>5, PTL

-----------------------------------------------------------------------------
(* The carve on cells implements the carve in one step. *)

(* Every error that a carve may end in is one the engine is told of. *)
ErrorsTold ==
  {"GeographicKm2Unsupported", "DimensionMismatch", "GeoTransformMismatch",
   "EmptyRasterMask", "SnapFailed", "InverseProjection",
   "EmptyPolygonization", "VectorOutletUnusable"} \subseteq CarveErrors

(* The inductive invariant: the outlet is of the kind that its authority   *)
(* makes, and only an outlet of its kind fails for a reason of that kind.  *)
KindInv ==
  /\ call.authority \in {"VectorPoint", "UnitContainment"}
  /\ carvePc \notin {"idle", "align"} => site.outlet.kind = OutletKind
  /\ carvePc = "failed" =>
       /\ ErrorOf(why) = "VectorOutletUnusable" => site.outlet.kind = "vector"
       /\ ErrorOf(why) = "SnapFailed" => site.outlet.kind = "unit"

LEMMA KindInit == CarveInit => KindInv
BY DEF CarveInit, Init, Calls, D8!Init, KindInv

(* The call is the same from beginning to end. *)
LEMMA CallFixed == [CarveNext]_<<vars, carveVars>> => call' = call
BY DEF CarveNext, Stages, CarveStep, CarveEnds, vars, Disabled, NoDeclaration,
   Begin, Examine, Choose, NoSource, WithSource, LocalizeDir, LocalizeAcc, Load,
   Localize, Return, Goes, Advance

LEMMA KindNext == KindInv /\ [CarveNext]_<<vars, carveVars>> => KindInv'
<1> SUFFICES ASSUME KindInv, [CarveNext]_<<vars, carveVars>> PROVE KindInv'
  OBVIOUS
<1>1. call' = call /\ OutletKind' = OutletKind
  BY CallFixed DEF OutletKind
<1>2. CASE UNCHANGED carveVars
  BY <1>1, <1>2 DEF KindInv, carveVars, ErrorOf
<1>3. CASE CarveStep
  <2>1. CASE D8!Enter
    BY <1>1, <2>1 DEF D8!Enter, KindInv
  <2>2. CASE D8!Align
    <3>1. carvePc' \in {"seed", "failed"} /\ site'.outlet.kind = OutletKind
      BY <1>3, <2>2 DEF CarveStep, D8!Align
    <3>2. carvePc' = "failed" => why' \in Misfits \cup {"emptyMask"}
      BY <2>2 DEF D8!Align, D8!AlignError, Misfits
    <3>3. carvePc' = "failed" =>
            ErrorOf(why)' \notin {"VectorOutletUnusable", "SnapFailed"}
      BY <3>2 DEF ErrorOf, Misfits
    <3> QED  BY <1>1, <3>1, <3>3 DEF KindInv
  <2>3. CASE D8!SeedVector
    <3>1. /\ carvePc = "seed" /\ site.outlet.kind = "vector" /\ site' = site
          /\ carvePc' = "failed" => why' = D8!VectorError /\ D8!VectorError # "none"
      BY <2>3 DEF D8!SeedVector, D8!Fail, D8!Plant, D8!problem, D8!outlet
    <3>2. D8!VectorError \in {"none", "gridMapping", "outsideMask", "undefinedFlow",
                              "undefinedAccumulation", "belowThreshold"}
      BY DEF D8!VectorError
    <3>3. carvePc' = "failed" => ErrorOf(why)' # "SnapFailed"
      BY <3>1, <3>2 DEF ErrorOf
    <3> QED  BY <1>1, <3>1, <3>3 DEF KindInv
  <2>4. CASE D8!SeedUnit
    <3>1. /\ carvePc = "seed" /\ site.outlet.kind = "unit" /\ site' = site
          /\ carvePc' = "failed" => why' \in {"outOfBounds", "noCell"}
      BY <2>4 DEF D8!SeedUnit, D8!Fail, D8!Plant, D8!problem, D8!outlet
    <3>2. carvePc' = "failed" => ErrorOf(why)' = "SnapFailed"
      BY <3>1 DEF ErrorOf
    <3> QED  BY <1>1, <3>1, <3>2 DEF KindInv
  <2>5. CASE D8!Trace \/ D8!Polygonize
    BY <1>1, <2>5 DEF D8!Trace, D8!Polygonize, D8!problem, KindInv
  <2> QED  BY <1>3, <2>1, <2>2, <2>3, <2>4, <2>5 DEF CarveStep, D8!Next
<1> QED  BY <1>2, <1>3 DEF CarveNext, CarveEnds

LEMMA StepRefines ==
  ASSUME ErrorsTold
  PROVE  KindInv /\ [CarveNext]_<<vars, carveVars>> => [Next]_vars
<1> SUFFICES ASSUME KindInv, [CarveNext]_<<vars, carveVars>> PROVE [Next]_vars
  OBVIOUS
<1>1. CASE Stages
  BY <1>1 DEF Stages, Next
<1>2. CASE CarveStep \/ UNCHANGED vars
  BY <1>2 DEF CarveStep
<1>3. CASE CarveEnds /\ carvePc = "failed" /\ Return(Failure(ErrorOf(why)))
  <2>1. ErrorOf(why) \in CarveErrors
    BY DEF ErrorOf, ErrorsTold
  <2>2. CarveError(ErrorOf(why))
    BY <1>3 DEF KindInv, OutletKind, CarveError
  <2> QED  BY <1>3, <2>1, <2>2 DEF CarveEnds, Carve, Next
<1>4. CASE CarveEnds /\ carvePc = "done"
  <2>1. CASE Return(Applied(SeedReason, Chosen))
    <3>1. SeedReason \in SeedKind
      BY <1>4 DEF KindInv, OutletKind, SeedReason, SeedKind
    <3> QED  BY <1>4, <2>1, <3>1 DEF CarveEnds, Carve, Next
  <2>2. CASE Return(Failure("EmptyPolygonization")) \/ Return(Failure("InverseProjection"))
    BY <1>4, <2>2 DEF CarveEnds, Carve, CarveError, ErrorsTold, Next
  <2> QED  BY <1>4, <2>1, <2>2 DEF CarveEnds
<1> QED  BY <1>1, <1>2, <1>3, <1>4 DEF CarveNext, CarveEnds

(* To the engine the carve is one step with the errors it is told of: what *)
(* is proved of TerminalRefinement holds with the carve on cells in it.    *)
THEOREM RefinementHolds ==
  ASSUME ErrorsTold
  PROVE  CarveSpec => ImplementsRefinement
<1>1. CarveInit => Init
  BY DEF CarveInit
<1> QED  BY <1>1, KindInit, KindNext, StepRefines, PTL DEF CarveSpec, ImplementsRefinement

(* The whole call, down to the cells, has what the engine's part has: the  *)
(* mode is honoured, the raster is the manifest-first covering one, and    *)
(* nothing else is fetched.                                                *)
THEOREM WholeCallCorrect ==
  ASSUME ErrorsTold
  PROVE  CarveSpec => /\ []StrictNeverCoarse /\ []BestEffortSkips
                      /\ []ManifestFirstCovers /\ []SelectionExact
                      /\ []FetchesOnlyChosen
<1>1. CarveSpec => Spec
  BY RefinementHolds DEF ImplementsRefinement, Spec
<1> QED  BY <1>1, StrictNeverCoarseHolds, BestEffortSkipsHolds,
            ManifestFirstCoversHolds, SelectionExactHolds, FetchesOnlyChosenHolds

-----------------------------------------------------------------------------
(* Sums over a sequence of integers. *)

(* A set that holds 0 and every successor of its members holds them all. *)
LEMMA Climb ==
  ASSUME NEW S, 0 \in S, \A i \in Nat : i \in S => i + 1 \in S
  PROVE  \A i \in Nat : i \in S
<1> DEFINE Rest == {i \in Nat : i \notin S}
<1> SUFFICES ASSUME Rest # {} PROVE FALSE
  OBVIOUS
<1>1. PICK m \in Rest : \A n \in Rest : m <= n
  <2>1. Rest \in SUBSET Nat
    OBVIOUS
  <2> HIDE DEF Rest
  <2> QED  BY <2>1, LeastNatural
<1>2. m \in Nat /\ m \notin S /\ m # 0
  BY <1>1
<1>3. m - 1 \in Nat /\ m - 1 \notin Rest
  BY <1>1, <1>2
<1>4. (m - 1) + 1 = m
  BY <1>2
<1> QED  BY <1>2, <1>3, <1>4

(* s holds the sums of the first elements of f. *)
Partial(f, n, s) ==
  s \in [0..n -> Int] /\ s[0] = 0 /\ \A i \in 1..n : s[i] = s[i - 1] + f[i]

(* The sum of the first n. *)
Total(f, n) == (CHOOSE s : Partial(f, n, s))[n]

LEMMA PartialExists ==
  ASSUME NEW f \in [Nat -> Int], NEW n \in Nat
  PROVE  \E s : Partial(f, n, s)
<1> DEFINE Upto == {j \in Nat : \E s : Partial(f, j, s)}
<1>1. 0 \in Upto
  <2>1. Partial(f, 0, [i \in 0..0 |-> 0])
    BY DEF Partial
  <2> QED  BY <2>1
<1>2. ASSUME NEW j \in Nat, j \in Upto PROVE j + 1 \in Upto
  <2>1. PICK g : Partial(f, j, g)
    BY <1>2
  <2>2. g \in [0..j -> Int] /\ g[0] = 0 /\ \A i \in 1..j : g[i] = g[i - 1] + f[i]
    BY <2>1 DEF Partial
  <2> DEFINE s == [i \in 0..(j + 1) |-> IF i = j + 1 THEN g[j] + f[j + 1] ELSE g[i]]
  <2>3. \A i \in 0..j : s[i] = g[i]
    OBVIOUS
  <2>4. s[j + 1] = g[j] + f[j + 1] /\ g[j] \in Int
    BY <2>2
  <2>5. s \in [0..(j + 1) -> Int]
    BY <2>2, <2>4
  <2> HIDE DEF s
  <2>6. ASSUME NEW i \in 1..(j + 1) PROVE s[i] = s[i - 1] + f[i]
    <3>1. CASE i = j + 1
      <4>1. i - 1 = j /\ j \in 0..j
        BY <3>1
      <4> QED  BY <2>3, <2>4, <3>1, <4>1
    <3>2. CASE i # j + 1
      <4>1. i \in 1..j /\ i \in 0..j /\ i - 1 \in 0..j
        BY <3>2
      <4> QED  BY <2>2, <2>3, <4>1
    <3> QED  BY <3>1, <3>2
  <2>7. s[0] = 0
    BY <2>2, <2>3
  <2>8. Partial(f, j + 1, s)
    BY <2>5, <2>6, <2>7 DEF Partial
  <2> QED  BY <2>8
<1> HIDE DEF Upto
<1>3. n \in Upto
  BY <1>1, <1>2, Climb
<1> QED  BY <1>3 DEF Upto

(* Sums of the first elements do not depend on how many follow. *)
LEMMA PartialUnique ==
  ASSUME NEW f, NEW n \in Nat, NEW m \in Nat, n <= m, NEW s, NEW t,
         Partial(f, n, s), Partial(f, m, t)
  PROVE  \A i \in 0..n : s[i] = t[i]
<1> DEFINE Same == {i \in Nat : i <= n => s[i] = t[i]}
<1>1. 0 \in Same
  BY DEF Partial
<1>2. ASSUME NEW i \in Nat, i \in Same PROVE i + 1 \in Same
  <2> SUFFICES ASSUME i + 1 <= n PROVE s[i + 1] = t[i + 1]
    OBVIOUS
  <2>1. s[i] = t[i] /\ i + 1 \in 1..n /\ i + 1 \in 1..m /\ (i + 1) - 1 = i
    BY <1>2
  <2> QED  BY <2>1 DEF Partial
<1> HIDE DEF Same
<1>3. \A i \in Nat : i \in Same
  BY <1>1, <1>2, Climb
<1> QED  BY <1>3 DEF Same

(* What a sum is. *)
LEMMA TotalIs ==
  ASSUME NEW f \in [Nat -> Int]
  PROVE  /\ Total(f, 0) = 0
         /\ \A n \in Nat : /\ Total(f, n) \in Int
                           /\ Total(f, n + 1) = Total(f, n) + f[n + 1]
<1> DEFINE sums(n) == CHOOSE s : Partial(f, n, s)
<1>1. \A n \in Nat : Partial(f, n, sums(n)) /\ Total(f, n) = sums(n)[n]
  BY PartialExists DEF Total
<1> HIDE DEF sums
<1>2. Total(f, 0) = 0
  BY <1>1 DEF Partial
<1>3. ASSUME NEW n \in Nat
      PROVE  Total(f, n) \in Int /\ Total(f, n + 1) = Total(f, n) + f[n + 1]
  <2>1. Partial(f, n, sums(n)) /\ Partial(f, n + 1, sums(n + 1)) /\ n + 1 \in Nat
    BY <1>1
  <2>2. sums(n)[n] = sums(n + 1)[n]
    BY <2>1, PartialUnique
  <2>3. n + 1 \in 1..(n + 1) /\ (n + 1) - 1 = n /\ n \in 0..n
    OBVIOUS
  <2>4. sums(n)[n] \in Int
    BY <2>1, <2>3 DEF Partial
  <2>5. sums(n + 1)[n + 1] = sums(n + 1)[n] + f[n + 1]
    BY <2>1, <2>3 DEF Partial
  <2> QED  BY <1>1, <2>1, <2>2, <2>4, <2>5
<1> QED  BY <1>2, <1>3

(* Sums are linear. *)
Scales(h, k, f, g, n) == \A i \in 1..n : h[i] = k * f[i] + g[i]

LEMMA TotalLinear ==
  ASSUME NEW f \in [Nat -> Int], NEW g \in [Nat -> Int], NEW h \in [Nat -> Int],
         NEW k \in Int, NEW n \in Nat, Scales(h, k, f, g, n)
  PROVE  Total(h, n) = k * Total(f, n) + Total(g, n)
<1> DEFINE Good == {i \in Nat : i <= n => Total(h, i) = k * Total(f, i) + Total(g, i)}
<1>1. 0 \in Good
  BY TotalIs
<1>2. ASSUME NEW i \in Nat, i \in Good PROVE i + 1 \in Good
  <2> SUFFICES ASSUME i + 1 <= n
               PROVE  Total(h, i + 1) = k * Total(f, i + 1) + Total(g, i + 1)
    OBVIOUS
  <2>1. Total(h, i) = k * Total(f, i) + Total(g, i)
    BY <1>2
  <2>2. h[i + 1] = k * f[i + 1] + g[i + 1]
    BY DEF Scales
  <2>3. /\ Total(h, i + 1) = Total(h, i) + h[i + 1]
        /\ Total(f, i + 1) = Total(f, i) + f[i + 1]
        /\ Total(g, i + 1) = Total(g, i) + g[i + 1]
        /\ Total(f, i) \in Int /\ Total(g, i) \in Int /\ Total(h, i) \in Int
        /\ f[i + 1] \in Int /\ g[i + 1] \in Int
    BY TotalIs
  <2>4. \A a, b \in Int : k * (a + b) = k * a + k * b
    OBVIOUS
  <2>5. \A a, b \in Int : k * a \in Int
    OBVIOUS
  <2>6. k * Total(f, i + 1) = k * Total(f, i) + k * f[i + 1]
    BY <2>3, <2>4
  <2>7. k * Total(f, i) \in Int /\ k * f[i + 1] \in Int
    BY <2>3, <2>5
  <2> QED  BY <2>1, <2>2, <2>3, <2>6, <2>7
<1> HIDE DEF Good
<1>3. \A i \in Nat : i \in Good
  BY <1>1, <1>2, Climb
<1> QED  BY <1>3 DEF Good

Adds(h, f, g, n) == \A i \in 1..n : h[i] = f[i] + g[i]
Takes(h, f, g, n) == \A i \in 1..n : h[i] = f[i] - g[i]


LEMMA TotalSum ==
  ASSUME NEW f \in [Nat -> Int], NEW g \in [Nat -> Int], NEW h \in [Nat -> Int],
         NEW n \in Nat, Adds(h, f, g, n)
  PROVE  Total(h, n) = Total(f, n) + Total(g, n)
<1> PICK k \in Int : k = 1
  OBVIOUS
<1>1. Scales(h, k, f, g, n)
  BY DEF Adds, Scales
<1>2. Total(h, n) = k * Total(f, n) + Total(g, n)
  BY <1>1, TotalLinear
<1> QED  BY <1>2, TotalIs

LEMMA TotalDifference ==
  ASSUME NEW f \in [Nat -> Int], NEW g \in [Nat -> Int], NEW h \in [Nat -> Int],
         NEW n \in Nat, Takes(h, f, g, n)
  PROVE  Total(h, n) = Total(f, n) - Total(g, n)
<1>1. Adds(f, h, g, n)
  <2> SUFFICES ASSUME NEW i \in 1..n PROVE f[i] = h[i] + g[i]
    BY DEF Adds
  <2>1. h[i] = f[i] - g[i] /\ f[i] \in Int /\ g[i] \in Int /\ h[i] \in Int
    BY DEF Takes
  <2> QED  BY <2>1
<1>2. Total(f, n) = Total(h, n) + Total(g, n)
  BY <1>1, TotalSum
<1> QED  BY <1>2, TotalIs

(* The sum of the steps of p is the way from its first value to its last. *)
LEMMA TotalTelescopes ==
  ASSUME NEW f \in [Nat -> Int], NEW p \in [Nat -> Int], NEW n \in Nat,
         \A i \in 1..n : f[i] = p[i + 1] - p[i]
  PROVE  Total(f, n) = p[n + 1] - p[1]
<1> DEFINE Good == {i \in Nat : i <= n => Total(f, i) = p[i + 1] - p[1]}
<1>1. 0 \in Good
  BY TotalIs
<1>2. ASSUME NEW i \in Nat, i \in Good PROVE i + 1 \in Good
  <2> SUFFICES ASSUME i + 1 <= n PROVE Total(f, i + 1) = p[(i + 1) + 1] - p[1]
    OBVIOUS
  <2>1. Total(f, i) = p[i + 1] - p[1] /\ f[i + 1] = p[(i + 1) + 1] - p[i + 1]
    BY <1>2
  <2>2. Total(f, i + 1) = Total(f, i) + f[i + 1]
    BY TotalIs
  <2>3. p[i + 1] \in Int /\ p[1] \in Int /\ p[(i + 1) + 1] \in Int
    OBVIOUS
  <2> QED  BY <2>1, <2>2, <2>3
<1> HIDE DEF Good
<1>3. \A i \in Nat : i \in Good
  BY <1>1, <1>2, Climb
<1> QED  BY <1>3 DEF Good

(* A sum whose terms are zero but for one. *)
LEMMA TotalZero ==
  ASSUME NEW f \in [Nat -> Int], NEW n \in Nat, \A i \in 1..n : f[i] = 0
  PROVE  Total(f, n) = 0
<1> DEFINE p == [i \in Nat |-> 0]
<1>1. p \in [Nat -> Int] /\ \A i \in Nat : p[i] = 0
  OBVIOUS
<1> HIDE DEF p
<1>2. Total(f, n) = p[n + 1] - p[1]
  BY <1>1, TotalTelescopes
<1> QED  BY <1>1, <1>2

(* A sum of which only one term is not 0. *)
LEMMA TotalOnce ==
  ASSUME NEW f \in [Nat -> Int], NEW n \in Nat, NEW j \in 1..n,
         \A i \in 1..n : i # j => f[i] = 0
  PROVE  Total(f, n) = f[j]
<1> DEFINE p == [i \in Nat |-> IF i <= j THEN 0 ELSE f[j]]
<1>1. p \in [Nat -> Int] /\ \A i \in Nat : p[i] = IF i <= j THEN 0 ELSE f[j]
  OBVIOUS
<1> HIDE DEF p
<1>2. \A i \in 1..n : f[i] = p[i + 1] - p[i]
  <2> TAKE i \in 1..n
  <2>1. p[i] = (IF i <= j THEN 0 ELSE f[j]) /\ p[i + 1] = (IF i + 1 <= j THEN 0 ELSE f[j])
    BY <1>1
  <2>2. f[j] \in Int /\ f[i] \in Int
    OBVIOUS
  <2> QED  BY <2>1, <2>2
<1>3. Total(f, n) = p[n + 1] - p[1]
  BY <1>1, <1>2, TotalTelescopes
<1>4. f[j] \in Int
  OBVIOUS
<1> QED  BY <1>1, <1>3, <1>4

(* A positive sum has a positive term. *)
LEMMA TotalPositive ==
  ASSUME NEW f \in [Nat -> Int], NEW n \in Nat, Total(f, n) > 0
  PROVE  \E i \in 1..n : f[i] > 0
<1> SUFFICES ASSUME \A i \in 1..n : ~ (f[i] > 0) PROVE FALSE
  OBVIOUS
<1> DEFINE Good == {i \in Nat : i <= n => Total(f, i) <= 0}
<1>1. 0 \in Good
  BY TotalIs
<1>2. ASSUME NEW i \in Nat, i \in Good PROVE i + 1 \in Good
  <2> SUFFICES ASSUME i + 1 <= n PROVE Total(f, i + 1) <= 0
    OBVIOUS
  <2>1. Total(f, i) <= 0 /\ ~ (f[i + 1] > 0) /\ f[i + 1] \in Int
    BY <1>2
  <2>2. Total(f, i + 1) = Total(f, i) + f[i + 1] /\ Total(f, i) \in Int
    BY TotalIs
  <2> QED  BY <2>1, <2>2
<1> HIDE DEF Good
<1>3. \A i \in Nat : i \in Good
  BY <1>1, <1>2, Climb
<1>4. Total(f, n) <= 0 /\ Total(f, n) \in Int
  BY <1>3, TotalIs DEF Good
<1> QED  BY <1>4

-----------------------------------------------------------------------------
(* The sides of cells. *)

North(r, c) == [of |-> <<r, c>>, from |-> <<4 * r, 4 * c>>,
                to |-> <<4 * r, 4 * c + 4>>, beyond |-> <<r - 1, c>>]
South(r, c) == [of |-> <<r, c>>, from |-> <<4 * r + 4, 4 * c + 4>>,
                to |-> <<4 * r + 4, 4 * c>>, beyond |-> <<r + 1, c>>]
West(r, c) == [of |-> <<r, c>>, from |-> <<4 * r + 4, 4 * c>>,
               to |-> <<4 * r, 4 * c>>, beyond |-> <<r, c - 1>>]
East(r, c) == [of |-> <<r, c>>, from |-> <<4 * r, 4 * c + 4>>,
               to |-> <<4 * r + 4, 4 * c + 4>>, beyond |-> <<r, c + 1>>]

(* The sides of a cell, by name. *)
LEMMA SidesAre ==
  ASSUME NEW r \in Int, NEW c \in Int
  PROVE  Sides(<<r, c>>) = {North(r, c), South(r, c), West(r, c), East(r, c)}
<1>1. r + (-1) = r - 1 /\ c + (-1) = c - 1 /\ r + 0 = r /\ c + 0 = c
  OBVIOUS
<1> QED  BY <1>1 DEF Sides, North, South, West, East

(* An edge of a mask is one of the sides of a cell of the mask whose       *)
(* neighbour there is not in the mask.                                     *)
Borders(M, e, r, c) ==
  /\ <<r, c>> \in M
  /\ \/ e = North(r, c) /\ <<r - 1, c>> \notin M
     \/ e = South(r, c) /\ <<r + 1, c>> \notin M
     \/ e = West(r, c) /\ <<r, c - 1>> \notin M
     \/ e = East(r, c) /\ <<r, c + 1>> \notin M

(* An edge is a side of a cell of the mask, with none beyond it. *)
LEMMA EdgeForms ==
  ASSUME NEW M \in SUBSET (Int \X Int), NEW e \in Edges(M)
  PROVE  \E r, c \in Int : Borders(M, e, r, c)
<1>1. PICK cell \in M : e \in Sides(cell) /\ e.beyond \notin M
  BY DEF Edges
<1>2. PICK r \in Int, c \in Int : cell = <<r, c>>
  OBVIOUS
<1>3. e \in {North(r, c), South(r, c), West(r, c), East(r, c)}
  BY <1>1, <1>2, SidesAre
<1>4. /\ North(r, c).beyond = <<r - 1, c>> /\ South(r, c).beyond = <<r + 1, c>>
      /\ West(r, c).beyond = <<r, c - 1>> /\ East(r, c).beyond = <<r, c + 1>>
  BY DEF North, South, West, East
<1> QED  BY <1>1, <1>2, <1>3, <1>4 DEF Borders

(* Which sides are edges. *)
LEMMA EdgeOf ==
  ASSUME NEW M \in SUBSET (Int \X Int), NEW r \in Int, NEW c \in Int
  PROVE  /\ North(r, c) \in Edges(M) <=> <<r, c>> \in M /\ <<r - 1, c>> \notin M
         /\ South(r, c) \in Edges(M) <=> <<r, c>> \in M /\ <<r + 1, c>> \notin M
         /\ West(r, c) \in Edges(M) <=> <<r, c>> \in M /\ <<r, c - 1>> \notin M
         /\ East(r, c) \in Edges(M) <=> <<r, c>> \in M /\ <<r, c + 1>> \notin M
<1>1. ASSUME NEW e, e.of = <<r, c>>, e \in Edges(M)
      PROVE  <<r, c>> \in M /\ e.beyond \notin M
  <2>1. PICK cell \in M : e \in Sides(cell) /\ e.beyond \notin M
    BY <1>1 DEF Edges
  <2>2. PICK y \in Int, x \in Int : cell = <<y, x>>
    OBVIOUS
  <2>3. e.of = <<y, x>>
    BY <2>1, <2>2, SidesAre DEF North, South, West, East
  <2> QED  BY <1>1, <2>1, <2>2, <2>3
<1>2. ASSUME NEW e \in Sides(<<r, c>>), <<r, c>> \in M, e.beyond \notin M
      PROVE  e \in Edges(M)
  BY <1>2 DEF Edges
<1>3. /\ North(r, c).beyond = <<r - 1, c>> /\ South(r, c).beyond = <<r + 1, c>>
      /\ West(r, c).beyond = <<r, c - 1>> /\ East(r, c).beyond = <<r, c + 1>>
      /\ North(r, c).of = <<r, c>> /\ South(r, c).of = <<r, c>>
      /\ West(r, c).of = <<r, c>> /\ East(r, c).of = <<r, c>>
  BY DEF North, South, West, East
<1>4. /\ North(r, c) \in Sides(<<r, c>>) /\ South(r, c) \in Sides(<<r, c>>)
      /\ West(r, c) \in Sides(<<r, c>>) /\ East(r, c) \in Sides(<<r, c>>)
  BY SidesAre
<1> QED  BY <1>1, <1>2, <1>3, <1>4

(* An edge is known by its two corners. *)
LEMMA EdgeByEnds ==
  ASSUME NEW M \in SUBSET (Int \X Int), NEW e \in Edges(M), NEW d \in Edges(M),
         e.from = d.from, e.to = d.to
  PROVE  e = d
<1>1. PICK r \in Int, c \in Int : Borders(M, e, r, c)
  BY EdgeForms
<1>2. PICK y \in Int, x \in Int : Borders(M, d, y, x)
  BY EdgeForms
<1>3. e.from = d.from /\ e.to = d.to
  OBVIOUS
<1> USE DEF North, South, West, East
<1>4. CASE e = North(r, c)
  <2>1. d = North(y, x) /\ y = r /\ x = c
    BY <1>2, <1>3, <1>4 DEF Borders
  <2> QED  BY <1>4, <2>1
<1>5. CASE e = South(r, c)
  <2>1. d = South(y, x) /\ y = r /\ x = c
    BY <1>2, <1>3, <1>5 DEF Borders
  <2> QED  BY <1>5, <2>1
<1>6. CASE e = West(r, c)
  <2>1. d = West(y, x) /\ y = r /\ x = c
    BY <1>2, <1>3, <1>6 DEF Borders
  <2> QED  BY <1>6, <2>1
<1>7. CASE e = East(r, c)
  <2>1. d = East(y, x) /\ y = r /\ x = c
    BY <1>2, <1>3, <1>7 DEF Borders
  <2> QED  BY <1>7, <2>1
<1> QED  BY <1>1, <1>4, <1>5, <1>6, <1>7 DEF Borders

-----------------------------------------------------------------------------
(* Corners. *)

Corner(r, c) == <<4 * r, 4 * c>>

(* The ends of the sides. *)
LEMMA Ends ==
  ASSUME NEW r \in Int, NEW c \in Int
  PROVE  /\ North(r, c).from = Corner(r, c) /\ North(r, c).to = Corner(r, c + 1)
         /\ South(r, c).from = Corner(r + 1, c + 1) /\ South(r, c).to = Corner(r + 1, c)
         /\ West(r, c).from = Corner(r + 1, c) /\ West(r, c).to = Corner(r, c)
         /\ East(r, c).from = Corner(r, c + 1) /\ East(r, c).to = Corner(r + 1, c + 1)
<1>1. 4 * (r + 1) = 4 * r + 4 /\ 4 * (c + 1) = 4 * c + 4
  OBVIOUS
<1> QED  BY <1>1 DEF North, South, West, East, Corner

LEMMA CornerOf ==
  ASSUME NEW r \in Int, NEW c \in Int, NEW y \in Int, NEW x \in Int,
         Corner(r, c) = Corner(y, x)
  PROVE  r = y /\ c = x
BY DEF Corner

(* The edges that leave a corner, and those that come to it. *)
Leaving(r, c) == {North(r, c), South(r - 1, c - 1), West(r - 1, c), East(r, c - 1)}
Coming(r, c) == {North(r, c - 1), South(r - 1, c), West(r, c), East(r - 1, c - 1)}

(* The sides that leave a corner begin there. *)
LEMMA LeavesCorner ==
  ASSUME NEW r \in Int, NEW c \in Int, NEW e \in Leaving(r, c)
  PROVE  e.from = Corner(r, c)
<1>1. PICK y \in Int, x \in Int : y = r - 1 /\ x = c - 1 /\ y + 1 = r /\ x + 1 = c
  OBVIOUS
<1>2. North(r, c).from = Corner(r, c)
  BY Ends
<1>3. South(y, x).from = Corner(y + 1, x + 1)
  BY Ends
<1>4. West(y, c).from = Corner(y + 1, c)
  BY Ends
<1>5. East(r, x).from = Corner(r, x + 1)
  BY Ends
<1> QED  BY <1>1, <1>2, <1>3, <1>4, <1>5 DEF Leaving

(* The sides that come to a corner end there. *)
LEMMA ComesToCorner ==
  ASSUME NEW r \in Int, NEW c \in Int, NEW e \in Coming(r, c)
  PROVE  e.to = Corner(r, c)
<1>1. PICK y \in Int, x \in Int : y = r - 1 /\ x = c - 1 /\ y + 1 = r /\ x + 1 = c
  OBVIOUS
<1>2. North(r, x).to = Corner(r, x + 1)
  BY Ends
<1>3. South(y, c).to = Corner(y + 1, c)
  BY Ends
<1>4. West(r, c).to = Corner(r, c)
  BY Ends
<1>5. East(y, x).to = Corner(y + 1, x + 1)
  BY Ends
<1> QED  BY <1>1, <1>2, <1>3, <1>4, <1>5 DEF Coming

LEMMA EdgeLeaves ==
  ASSUME NEW M \in SUBSET (Int \X Int), NEW e \in Edges(M)
  PROVE  \E r, c \in Int : e \in Leaving(r, c)
<1>1. PICK r \in Int, c \in Int : Borders(M, e, r, c)
  BY EdgeForms
<1>2. /\ r + 1 \in Int /\ c + 1 \in Int /\ (r + 1) - 1 = r /\ (c + 1) - 1 = c
  OBVIOUS
<1> QED  BY <1>1, <1>2 DEF Leaving, Borders

LEMMA EdgeComes ==
  ASSUME NEW M \in SUBSET (Int \X Int), NEW e \in Edges(M)
  PROVE  \E r, c \in Int : e \in Coming(r, c)
<1>1. PICK r \in Int, c \in Int : Borders(M, e, r, c)
  BY EdgeForms
<1>2. /\ r + 1 \in Int /\ c + 1 \in Int /\ (r + 1) - 1 = r /\ (c + 1) - 1 = c
  OBVIOUS
<1> QED  BY <1>1, <1>2 DEF Coming, Borders

LEMMA LeavingIs ==
  ASSUME NEW M \in SUBSET (Int \X Int), NEW e \in Edges(M),
         NEW r \in Int, NEW c \in Int, e.from = Corner(r, c)
  PROVE  e \in Leaving(r, c)
<1>1. PICK y \in Int, x \in Int : e \in Leaving(y, x)
  BY EdgeLeaves
<1>2. Corner(y, x) = Corner(r, c)
  BY <1>1, LeavesCorner
<1> QED  BY <1>1, <1>2, CornerOf

LEMMA ComingIs ==
  ASSUME NEW M \in SUBSET (Int \X Int), NEW e \in Edges(M),
         NEW r \in Int, NEW c \in Int, e.to = Corner(r, c)
  PROVE  e \in Coming(r, c)
<1>1. PICK y \in Int, x \in Int : e \in Coming(y, x)
  BY EdgeComes
<1>2. Corner(y, x) = Corner(r, c)
  BY <1>1, ComesToCorner
<1> QED  BY <1>1, <1>2, CornerOf

(* How many edges of a set leave a corner, and how many come to it. *)
One(L, e) == IF e \in L THEN 1 ELSE 0
Out(L, r, c) == One(L, North(r, c)) + One(L, South(r - 1, c - 1))
              + One(L, West(r - 1, c)) + One(L, East(r, c - 1))
In(L, r, c) == One(L, North(r, c - 1)) + One(L, South(r - 1, c))
             + One(L, West(r, c)) + One(L, East(r - 1, c - 1))

(* As many edges of a mask come to a corner as leave it. *)
LEMMA MaskBalanced ==
  ASSUME NEW M \in SUBSET (Int \X Int), NEW r \in Int, NEW c \in Int
  PROVE  Out(Edges(M), r, c) = In(Edges(M), r, c)
<1>1. PICK y \in Int, x \in Int : y = r - 1 /\ x = c - 1 /\ y + 1 = r /\ x + 1 = c
  OBVIOUS
<1>2. /\ North(r, c) \in Edges(M) <=> <<r, c>> \in M /\ <<r - 1, c>> \notin M
      /\ West(r, c) \in Edges(M) <=> <<r, c>> \in M /\ <<r, c - 1>> \notin M
  BY EdgeOf
<1>3. /\ South(y, x) \in Edges(M) <=> <<y, x>> \in M /\ <<y + 1, x>> \notin M
      /\ East(y, x) \in Edges(M) <=> <<y, x>> \in M /\ <<y, x + 1>> \notin M
  BY EdgeOf
<1>4. /\ South(y, c) \in Edges(M) <=> <<y, c>> \in M /\ <<y + 1, c>> \notin M
      /\ West(y, c) \in Edges(M) <=> <<y, c>> \in M /\ <<y, c - 1>> \notin M
  BY EdgeOf
<1>5. /\ North(r, x) \in Edges(M) <=> <<r, x>> \in M /\ <<r - 1, x>> \notin M
      /\ East(r, x) \in Edges(M) <=> <<r, x>> \in M /\ <<r, x + 1>> \notin M
  BY EdgeOf
<1> QED  BY <1>1, <1>2, <1>3, <1>4, <1>5 DEF Out, In, One

(* The sides around a corner are different sides. *)
LEMMA Distinct ==
  ASSUME NEW r \in Int, NEW c \in Int
  PROVE  /\ North(r, c) # South(r - 1, c - 1) /\ North(r, c) # West(r - 1, c)
         /\ North(r, c) # East(r, c - 1) /\ South(r - 1, c - 1) # West(r - 1, c)
         /\ South(r - 1, c - 1) # East(r, c - 1) /\ West(r - 1, c) # East(r, c - 1)
         /\ North(r, c - 1) # South(r - 1, c) /\ North(r, c - 1) # West(r, c)
         /\ North(r, c - 1) # East(r - 1, c - 1) /\ South(r - 1, c) # West(r, c)
         /\ South(r - 1, c) # East(r - 1, c - 1) /\ West(r, c) # East(r - 1, c - 1)
<1>1. \A a, b \in Int : /\ North(a, b).of = <<a, b>> /\ South(a, b).of = <<a, b>>
                        /\ West(a, b).of = <<a, b>> /\ East(a, b).of = <<a, b>>
  BY DEF North, South, West, East
<1>2. /\ North(r, c).of = <<r, c>> /\ South(r - 1, c - 1).of = <<r - 1, c - 1>>
      /\ West(r - 1, c).of = <<r - 1, c>> /\ East(r, c - 1).of = <<r, c - 1>>
      /\ North(r, c - 1).of = <<r, c - 1>> /\ South(r - 1, c).of = <<r - 1, c>>
      /\ West(r, c).of = <<r, c>> /\ East(r - 1, c - 1).of = <<r - 1, c - 1>>
  BY <1>1
<1> QED  BY <1>2

(* An edge taken away is missed at its two ends. *)
LEMMA OutDrops ==
  ASSUME NEW M \in SUBSET (Int \X Int), NEW L \in SUBSET Edges(M), NEW e \in L,
         NEW r \in Int, NEW c \in Int
  PROVE  Out(L \ {e}, r, c) = Out(L, r, c) - (IF e.from = Corner(r, c) THEN 1 ELSE 0)
<1>1. e.from = Corner(r, c) <=> e \in Leaving(r, c)
  BY LeavingIs, LeavesCorner
<1> QED  BY <1>1, Distinct DEF Out, One, Leaving

LEMMA InDrops ==
  ASSUME NEW M \in SUBSET (Int \X Int), NEW L \in SUBSET Edges(M), NEW e \in L,
         NEW r \in Int, NEW c \in Int
  PROVE  In(L \ {e}, r, c) = In(L, r, c) - (IF e.to = Corner(r, c) THEN 1 ELSE 0)
<1>1. e.to = Corner(r, c) <=> e \in Coming(r, c)
  BY ComingIs, ComesToCorner
<1> QED  BY <1>1, Distinct DEF In, One, Coming

LEMMA OutHas ==
  ASSUME NEW L, NEW r \in Int, NEW c \in Int
  PROVE  /\ Out(L, r, c) \in Nat /\ In(L, r, c) \in Nat
         /\ Out(L, r, c) >= 1 => \E e \in L : e.from = Corner(r, c)
<1>1. Out(L, r, c) >= 1 => \E e \in L : e \in Leaving(r, c)
  BY DEF Out, One, Leaving
<1>2. Out(L, r, c) \in Nat /\ In(L, r, c) \in Nat
  BY DEF Out, In, One
<1> QED  BY <1>1, <1>2, LeavesCorner

(* The mask lies on a raster, and so its corners. *)
Grid(H, W) == (0..(H - 1)) \X (0..(W - 1))
Corners(H, W) == (0..(4 * H)) \X (0..(4 * W))

(* The cells of a mask are within its raster. *)
LEMMA OnRaster ==
  ASSUME NEW H \in Nat, NEW W \in Nat, NEW M \in SUBSET Grid(H, W)
  PROVE  /\ M \in SUBSET (Int \X Int)
         /\ \A r, c \in Int : <<r, c>> \in M => r \in 0..(H - 1) /\ c \in 0..(W - 1)
BY DEF Grid

LEMMA EdgeEnds ==
  ASSUME NEW H \in Nat, NEW W \in Nat, NEW M \in SUBSET Grid(H, W), NEW e \in Edges(M)
  PROVE  e.from \in Corners(H, W) /\ e.to \in Corners(H, W)
<1>1. PICK r \in Int, c \in Int : Borders(M, e, r, c)
  BY EdgeForms, OnRaster
<1>2. r \in 0..(H - 1) /\ c \in 0..(W - 1)
  BY <1>1, OnRaster DEF Borders
<1>3. e \in {North(r, c), South(r, c), West(r, c), East(r, c)}
  BY <1>1 DEF Borders
<1> QED  BY <1>2, <1>3 DEF North, South, West, East, Corners

(* A mask has finitely many edges, as its corners are on a raster. *)
LEMMA EdgesFinite ==
  ASSUME NEW H \in Nat, NEW W \in Nat, NEW M \in SUBSET Grid(H, W)
  PROVE  IsFiniteSet(Edges(M))
<1> DEFINE V == Corners(H, W)
           f == [e \in Edges(M) |-> <<e.from, e.to>>]
<1>1. IsFiniteSet(V \X V)
  <2>1. IsFiniteSet(0..(4 * H)) /\ IsFiniteSet(0..(4 * W))
    BY FS_Interval
  <2>2. IsFiniteSet(V)
    BY <2>1, FS_Product DEF Corners
  <2> QED  BY <2>2, FS_Product
<1>2. f \in [Edges(M) -> V \X V]
  BY EdgeEnds
<1>3. \A d, e \in Edges(M) : f[d] = f[e] => d = e
  <2> TAKE d \in Edges(M), e \in Edges(M)
  <2>1. f[d] = <<d.from, d.to>> /\ f[e] = <<e.from, e.to>>
    OBVIOUS
  <2> QED  BY <2>1, EdgeByEnds, OnRaster
<1> HIDE DEF f, V
<1>4. f \in Injection(Edges(M), V \X V)
  BY <1>2, <1>3 DEF Injection, IsInjective
<1> QED  BY <1>1, <1>4, FS_Injection

-----------------------------------------------------------------------------
(* The choices of assemble_rings. *)

(* There is a first corner among those that edges leave. *)
LEMMA FirstExists ==
  ASSUME NEW H \in Nat, NEW W \in Nat, NEW M \in SUBSET Grid(H, W),
         NEW L \in SUBSET Edges(M), L # {}
  PROVE  \E e \in L : \A d \in L : ~ Before(d.from, e.from)
<1> DEFINE rows == {e.from[1] : e \in L}
<1>1. \A e \in L : e.from[1] \in Nat /\ e.from[2] \in Nat
  BY EdgeEnds DEF Corners
<1>2. rows \in SUBSET Nat /\ rows # {}
  BY <1>1
<1>3. PICK y \in rows : \A z \in rows : y <= z
  <2> HIDE DEF rows
  <2> QED  BY <1>2, LeastNatural
<1> DEFINE cols == {e.from[2] : e \in {d \in L : d.from[1] = y}}
<1>4. cols \in SUBSET Nat /\ cols # {}
  BY <1>1, <1>3
<1>5. PICK x \in cols : \A z \in cols : x <= z
  <2> HIDE DEF cols
  <2> QED  BY <1>4, LeastNatural
<1>6. PICK e \in L : e.from[1] = y /\ e.from[2] = x
  BY <1>5
<1>7. ASSUME NEW d \in L, Before(d.from, e.from) PROVE FALSE
  <2>1. y <= d.from[1]
    <3>1. d.from[1] \in rows
      OBVIOUS
    <3> HIDE DEF rows
    <3> QED  BY <1>3, <3>1
  <2>2. d.from[1] = y => x <= d.from[2]
    <3>1. d.from[1] = y => d.from[2] \in cols
      OBVIOUS
    <3> HIDE DEF cols
    <3> QED  BY <1>5, <3>1
  <2>3. d.from[1] \in Nat /\ d.from[2] \in Nat /\ y \in Nat /\ x \in Nat
    BY <1>1, <1>6
  <2> HIDE DEF rows, cols
  <2> QED  BY <1>6, <1>7, <2>1, <2>2, <2>3 DEF Before
<1> QED  BY <1>7

(* Of the edges left at a corner one was pushed last. *)
LEMMA LastPushedIs ==
  ASSUME NEW M \in SUBSET (Int \X Int), NEW L \in SUBSET Edges(M),
         NEW r \in Int, NEW c \in Int, NEW at,
         \A e : e \in at <=> e \in L /\ e.from = Corner(r, c), at # {}
  PROVE  /\ LastPushed(at) \in at
         /\ LastPushed(at) = West(r - 1, c) => East(r, c - 1) \notin L
<1> DEFINE P(e) == \A d \in at : ~ Before(e.of, d.of)
<1>1. at \subseteq Leaving(r, c) /\ at # {}
  BY LeavingIs
<1>2. /\ North(r, c).of = <<r, c>> /\ South(r - 1, c - 1).of = <<r - 1, c - 1>>
      /\ West(r - 1, c).of = <<r - 1, c>> /\ East(r, c - 1).of = <<r, c - 1>>
  BY DEF North, South, West, East
<1>3. \E e \in at : P(e)
  <2>1. CASE North(r, c) \in at
    <3>1. P(North(r, c))
      BY <1>1, <1>2 DEF Leaving, Before
    <3> QED  BY <2>1, <3>1
  <2>2. CASE North(r, c) \notin at /\ East(r, c - 1) \in at
    <3>1. P(East(r, c - 1))
      BY <1>1, <1>2, <2>2 DEF Leaving, Before
    <3> QED  BY <2>2, <3>1
  <2>3. CASE North(r, c) \notin at /\ East(r, c - 1) \notin at /\ West(r - 1, c) \in at
    <3>1. P(West(r - 1, c))
      BY <1>1, <1>2, <2>3 DEF Leaving, Before
    <3> QED  BY <2>3, <3>1
  <2>4. CASE at = {South(r - 1, c - 1)}
    <3>1. P(South(r - 1, c - 1))
      BY <1>2, <2>4 DEF Before
    <3> QED  BY <2>4, <3>1
  <2> QED  BY <1>1, <2>1, <2>2, <2>3, <2>4 DEF Leaving
<1>4. LastPushed(at) \in at /\ P(LastPushed(at))
  <2> QED  BY <1>3 DEF LastPushed
<1>5. ASSUME LastPushed(at) = West(r - 1, c), East(r, c - 1) \in L PROVE FALSE
  <2>1. East(r, c - 1).from = Corner(r, c)
    BY LeavesCorner DEF Leaving
  <2>2. East(r, c - 1) \in at
    BY <1>5, <2>1
  <2>3. ~ Before(West(r - 1, c).of, East(r, c - 1).of)
    BY <1>4, <1>5, <2>2
  <2> QED  BY <1>2, <2>3 DEF Before
<1> QED  BY <1>4, <1>5

-----------------------------------------------------------------------------
(* The rings being assembled. *)

(* ring goes along edges of L, along none twice, and starts at the first   *)
(* of its corners.                                                         *)
Trail(L, ring) ==
  /\ ring \in Seq(Int \X Int) /\ Len(ring) >= 1
  /\ \A i \in 1..(Len(ring) - 1) : \E e \in L : e.from = ring[i] /\ e.to = ring[i + 1]
  /\ \A i, j \in 1..(Len(ring) - 1) :
       ring[i] = ring[j] /\ ring[i + 1] = ring[j + 1] => i = j
  /\ \A i \in 1..Len(ring) : ~ Before(ring[i], ring[1])

OnRing(ring, e) == \E i \in 1..(Len(ring) - 1) : e.from = ring[i] /\ e.to = ring[i + 1]

(* A ring that starts downwards beside a cell of the mask has another one  *)
(* across its first corner: it is not one of two strands that touch there. *)
StartsWell(M, ring) ==
  \A r, c \in Int :
    ring[1] = Corner(r, c) /\ ring[2] = Corner(r + 1, c) /\ <<r - 1, c>> \in M =>
      <<r - 1, c - 1>> \in M

Longer(M, L, ring) == Trail(L, ring) /\ Len(ring) >= 2 /\ StartsWell(M, ring)
Loop(M, L, ring) == Longer(M, L, ring) /\ ring[Len(ring)] = ring[1]
Begun(M, L, ring) == Longer(M, L, ring) /\ ring[Len(ring)] # ring[1]

(* Where two cells of the mask touch at a corner, the edge of the lower    *)
(* one leaves it first.                                                    *)
Tied(M, L) ==
  \A r, c \in Int :
    West(r - 1, c) \in Edges(M) /\ East(r, c - 1) \in L => West(r - 1, c) \in L

(* The edges of L and the edges from corner b to corner a make loops.      *)
Balanced(L, a, b) ==
  \A r, c \in Int :
    Out(L, r, c) - In(L, r, c) =
      (IF b = Corner(r, c) THEN 1 ELSE 0) - (IF a = Corner(r, c) THEN 1 ELSE 0)

AllBalanced(w) ==
  IF w.ring = << >> THEN Balanced(w.left, << >>, << >>)
  ELSE Balanced(w.left, w.ring[1], w.ring[Len(w.ring)])

(* Every edge used is on one ring, once. *)
Parted(M, w) ==
  /\ \A e \in Edges(M) \ w.left :
       OnRing(w.ring, e) \/ \E j \in 1..Len(w.rings) : OnRing(w.rings[j], e)
  /\ \A e \in Edges(M), j \in 1..Len(w.rings) :
       OnRing(w.rings[j], e) =>
         /\ ~ OnRing(w.ring, e)
         /\ \A k \in 1..Len(w.rings) : OnRing(w.rings[k], e) => k = j

(* The invariant of the walk. *)
WalkInv(M, w) ==
  /\ w.left \subseteq Edges(M) /\ w.rings \in Seq(Seq(Int \X Int))
  /\ \A j \in 1..Len(w.rings) : Loop(M, Edges(M) \ w.left, w.rings[j])
  /\ w.ring # << >> => /\ Begun(M, Edges(M) \ w.left, w.ring)
                       /\ \A e \in w.left : ~ Before(e.from, w.ring[1])
  /\ AllBalanced(w) /\ Parted(M, w) /\ Tied(M, w.left)

(* At the end of a ring that is not closed an edge is left. *)
GoesOn(L, path) ==
  \E r, c \in Int : path[Len(path)] = Corner(r, c) /\ \E e \in L : e.from = Corner(r, c)

(* What was begun can go on, as long as edges and the gap make loops. *)
LEMMA BegunGoesOn ==
  ASSUME NEW M, M \in SUBSET (Int \X Int), NEW K, K \subseteq Edges(M), NEW L, NEW path,
         Begun(M, K, path), Balanced(L, path[1], path[Len(path)])
  PROVE  GoesOn(L, path)
<1>1. /\ Len(path) >= 2 /\ Len(path) \in Nat
      /\ Trail(K, path) /\ path[Len(path)] # path[1]
  BY DEF Begun, Longer, Trail
<1>2. PICK r \in Int, c \in Int : path[Len(path)] = Corner(r, c)
  <2>1. PICK i \in 1..(Len(path) - 1) : i + 1 = Len(path)
    <3>1. Len(path) - 1 \in 1..(Len(path) - 1) /\ (Len(path) - 1) + 1 = Len(path)
      BY <1>1
    <3> QED  BY <3>1
  <2>2. PICK e \in Edges(M) : e.to = path[i + 1]
    BY <1>1 DEF Trail
  <2>3. PICK r \in Int, c \in Int : e \in Coming(r, c)
    BY EdgeComes
  <2>4. path[i + 1] = path[Len(path)]
    BY <2>1
  <2>5. e.to = Corner(r, c)
    BY <2>3, ComesToCorner
  <2> QED  BY <2>2, <2>4, <2>5
<1>3. Out(L, r, c) - In(L, r, c) = 1
  <2>1. path[1] # Corner(r, c)
    BY <1>1, <1>2
  <2>2. Out(L, r, c) - In(L, r, c) =
          (IF path[Len(path)] = Corner(r, c) THEN 1 ELSE 0)
          - (IF path[1] = Corner(r, c) THEN 1 ELSE 0)
    BY DEF Balanced
  <2> QED  BY <1>2, <2>1, <2>2
<1>4. \E e \in L : e.from = Corner(r, c)
  BY <1>3, OutHas
<1> QED  BY <1>2, <1>4 DEF GoesOn

(* The way so far, and the edge that it goes on by. *)
Ready(M, w, path, edge) ==
  /\ path \in Seq(Int \X Int) /\ Trail(Edges(M) \ w.left, path)
  /\ IF w.ring = << >> THEN Len(path) = 1 ELSE path = w.ring
  /\ \A e \in w.left : ~ Before(e.from, path[1])
  /\ Balanced(w.left, path[1], path[Len(path)])
  /\ edge \in w.left /\ edge.from = path[Len(path)]
  /\ \E r, c \in Int :
       /\ path[Len(path)] = Corner(r, c)
       /\ edge = West(r - 1, c) => East(r, c - 1) \notin w.left

Taken(w, path, edge) ==
  LET ring == path \o <<edge.to>>
  IN  [left |-> w.left \ {edge},
       ring |-> IF edge.to = ring[1] THEN << >> ELSE ring,
       rings |-> IF edge.to = ring[1] THEN Append(w.rings, ring) ELSE w.rings]

(* A turn of the walk takes the first edge, or the one popped at the end. *)
LEMMA FollowIs ==
  ASSUME NEW H \in Nat, NEW W \in Nat, NEW M \in SUBSET Grid(H, W), NEW w,
         WalkInv(M, w), w.left # {}
  PROVE  \E path, edge : Ready(M, w, path, edge) /\ Follow(w) = Taken(w, path, edge)
<1> DEFINE first == CHOOSE e \in w.left : \A d \in w.left : ~ Before(d.from, e.from)
           at == IF w.ring = << >> THEN first.from ELSE Last(w.ring)
           leaving == {e \in w.left : e.from = at}
           edge == LastPushed(leaving)
           path == IF w.ring = << >> THEN <<at>> ELSE w.ring
<1>1. w.left \in SUBSET Edges(M) /\ M \in SUBSET (Int \X Int)
  BY OnRaster DEF WalkInv
<1>2. first \in w.left /\ \A d \in w.left : ~ Before(d.from, first.from)
  BY <1>1, FirstExists
<1>3. CASE w.ring = << >>
  <2>1. at = first.from /\ path = <<at>>
    BY <1>3
  <2>2. PICK r \in Int, c \in Int : at = Corner(r, c)
    <3>1. PICK r \in Int, c \in Int : first \in Leaving(r, c)
      BY <1>1, <1>2, EdgeLeaves
    <3> QED  BY <2>1, <3>1, LeavesCorner
  <2> HIDE DEF at, first
  <2>3. /\ edge \in w.left /\ edge.from = at
        /\ edge = West(r - 1, c) => East(r, c - 1) \notin w.left
    <3>1. /\ \A e : e \in leaving <=> e \in w.left /\ e.from = Corner(r, c)
          /\ leaving # {}
      BY <1>2, <2>1, <2>2
    <3> HIDE DEF leaving
    <3>2. /\ LastPushed(leaving) \in leaving
          /\ LastPushed(leaving) = West(r - 1, c) => East(r, c - 1) \notin w.left
      BY <1>1, <3>1, LastPushedIs
    <3> QED  BY <2>2, <3>1, <3>2
  <2> HIDE DEF edge
  <2>4. at \in Int \X Int /\ ~ Before(at, at)
    BY <2>2 DEF Corner, Before
  <2>5. path \in Seq(Int \X Int) /\ Len(path) = 1 /\ path[1] = at
    BY <2>1, <2>4
  <2> HIDE DEF path
  <2>6. Trail(Edges(M) \ w.left, path)
    BY <2>4, <2>5 DEF Trail
  <2>7. Balanced(w.left, at, at)
    <3>1. \A y, x \in Int : << >> # Corner(y, x)
      BY DEF Corner
    <3>2. Balanced(w.left, << >>, << >>)
      BY <1>3 DEF WalkInv, AllBalanced
    <3> QED  BY <3>1, <3>2 DEF Balanced
  <2>8. path[Len(path)] = at
    BY <2>5
  <2>9. Ready(M, w, path, edge)
    BY <1>2, <1>3, <2>1, <2>2, <2>3, <2>5, <2>6, <2>7, <2>8 DEF Ready
  <2>10. Follow(w) = Taken(w, path, edge)
    BY <1>3 DEF Follow, Taken, at, edge, leaving, path, first
  <2> QED  BY <2>9, <2>10
<1>4. CASE w.ring # << >>
  <2>1. /\ path = w.ring /\ Begun(M, Edges(M) \ w.left, path)
        /\ \A e \in w.left : ~ Before(e.from, path[1])
        /\ Balanced(w.left, path[1], path[Len(path)])
    BY <1>4 DEF WalkInv, AllBalanced
  <2> HIDE DEF path
  <2>2. /\ path \in Seq(Int \X Int) /\ Len(path) >= 2 /\ Len(path) \in Nat
        /\ Trail(Edges(M) \ w.left, path) /\ path[Len(path)] # path[1]
    BY <2>1 DEF Begun, Longer, Trail
  <2>3. at = path[Len(path)]
    BY <1>4, <2>1 DEF Last, path
  <2> HIDE DEF at, first
  <2>4. PICK r \in Int, c \in Int : /\ at = Corner(r, c)
                                    /\ \E e \in w.left : e.from = Corner(r, c)
    <3>1. GoesOn(w.left, path)
      BY <1>1, <2>1, BegunGoesOn
    <3> QED  BY <2>3, <3>1 DEF GoesOn
  <2>5. /\ edge \in w.left /\ edge.from = at
        /\ edge = West(r - 1, c) => East(r, c - 1) \notin w.left
    <3>1. /\ \A e : e \in leaving <=> e \in w.left /\ e.from = Corner(r, c)
          /\ leaving # {}
      BY <2>4
    <3> HIDE DEF leaving
    <3>2. /\ LastPushed(leaving) \in leaving
          /\ LastPushed(leaving) = West(r - 1, c) => East(r, c - 1) \notin w.left
      BY <1>1, <3>1, LastPushedIs
    <3> QED  BY <2>4, <3>1, <3>2
  <2> HIDE DEF edge
  <2>6. Ready(M, w, path, edge)
    BY <1>4, <2>1, <2>2, <2>3, <2>4, <2>5 DEF Ready, path
  <2>7. Follow(w) = Taken(w, path, edge)
    BY <1>4 DEF Follow, Taken, at, edge, leaving, path, first
  <2> QED  BY <2>6, <2>7
<1> QED  BY <1>3, <1>4

(* Taking the edge away keeps the balance, now from where it ends. *)
LEMMA TakenBalanced ==
  ASSUME NEW M \in SUBSET (Int \X Int), NEW L \in SUBSET Edges(M), NEW e \in L, NEW a,
         Balanced(L, a, e.from)
  PROVE  Balanced(L \ {e}, a, e.to)
<1> SUFFICES ASSUME NEW r \in Int, NEW c \in Int
             PROVE  Out(L \ {e}, r, c) - In(L \ {e}, r, c) =
                      (IF e.to = Corner(r, c) THEN 1 ELSE 0)
                      - (IF a = Corner(r, c) THEN 1 ELSE 0)
  BY DEF Balanced
<1>1. Out(L, r, c) - In(L, r, c) = (IF e.from = Corner(r, c) THEN 1 ELSE 0)
                                   - (IF a = Corner(r, c) THEN 1 ELSE 0)
  BY DEF Balanced
<1>2. Out(L \ {e}, r, c) = Out(L, r, c) - (IF e.from = Corner(r, c) THEN 1 ELSE 0)
  BY OutDrops
<1>3. In(L \ {e}, r, c) = In(L, r, c) - (IF e.to = Corner(r, c) THEN 1 ELSE 0)
  BY InDrops
<1>4. Out(L, r, c) \in Int /\ In(L, r, c) \in Int
  BY OutHas
<1> QED  BY <1>1, <1>2, <1>3, <1>4

(* And that of two strands that touch the lower goes first. *)
LEMMA TakenTied ==
  ASSUME NEW M \in SUBSET (Int \X Int), NEW L \in SUBSET Edges(M), NEW e \in L,
         NEW r \in Int, NEW c \in Int, e.from = Corner(r, c),
         e = West(r - 1, c) => East(r, c - 1) \notin L, Tied(M, L)
  PROVE  Tied(M, L \ {e})
<1> SUFFICES ASSUME NEW y \in Int, NEW x \in Int, West(y - 1, x) \in Edges(M),
                    East(y, x - 1) \in L \ {e}, West(y - 1, x) \notin L \ {e}
             PROVE  FALSE
  BY DEF Tied
<1>1. West(y - 1, x) = e
  BY DEF Tied
<1>2. West(y - 1, x).from = Corner(y, x)
  BY LeavesCorner DEF Leaving
<1>3. y = r /\ x = c
  BY <1>1, <1>2, CornerOf
<1> QED  BY <1>1, <1>3

(* A ring of one leg that goes down beside a cell of the mask: were that   *)
(* the second strand at the corner, the first would come from an edge left *)
(* before it.                                                              *)
LEMMA DownwardStart ==
  ASSUME NEW M \in SUBSET (Int \X Int), NEW L \in SUBSET Edges(M), NEW e \in L,
         NEW r \in Int, NEW c \in Int, e.from = Corner(r, c), e.to = Corner(r + 1, c),
         \A d \in L : ~ Before(d.from, Corner(r, c)),
         Balanced(L, Corner(r, c), Corner(r, c)), Tied(M, L), <<r - 1, c>> \in M
  PROVE  <<r - 1, c - 1>> \in M
<1> SUFFICES ASSUME <<r - 1, c - 1>> \notin M PROVE FALSE
  OBVIOUS
<1>1. PICK y \in Int, x \in Int : y = r - 1 /\ x = c - 1 /\ y + 1 = r /\ x + 1 = c
  OBVIOUS
<1>2. e = East(r, x) /\ East(r, x) \in Edges(M)
  <2>1. e \in Leaving(r, c)
    BY LeavingIs
  <2>2. North(r, c).to = Corner(r, c + 1)
    BY Ends
  <2>3. South(y, x).to = Corner(y + 1, x)
    BY Ends
  <2>4. West(y, c).to = Corner(y, c)
    BY Ends
  <2>5. e # North(r, c) /\ e # South(y, x) /\ e # West(y, c)
    BY <1>1, <2>2, <2>3, <2>4 DEF Corner
  <2> QED  BY <1>1, <2>1, <2>5 DEF Leaving
<1>3. East(r, x) \in Edges(M) <=> <<r, x>> \in M /\ <<r, x + 1>> \notin M
  BY EdgeOf
<1>4. West(y, c) \in Edges(M) <=> <<y, c>> \in M /\ <<y, c - 1>> \notin M
  BY EdgeOf
<1>5. West(y, c) \in L /\ East(r, x) \in L
  BY <1>1, <1>2, <1>4 DEF Tied
<1>6. Out(L, r, c) = In(L, r, c) /\ Out(L, r, c) >= 2
  <2>1. Out(L, r, c) - In(L, r, c) = 0
    BY DEF Balanced
  <2>2. Out(L, r, c) >= 2
    BY <1>1, <1>5 DEF Out, One
  <2>3. Out(L, r, c) \in Int /\ In(L, r, c) \in Int
    BY OutHas
  <2> QED  BY <2>1, <2>2, <2>3
<1>7. West(r, c) \notin L /\ East(y, x) \notin L
  <2>1. West(r, c) \in Edges(M) <=> <<r, c>> \in M /\ <<r, c - 1>> \notin M
    BY EdgeOf
  <2>2. East(y, x) \in Edges(M) <=> <<y, x>> \in M /\ <<y, x + 1>> \notin M
    BY EdgeOf
  <2> QED  BY <1>1, <1>2, <1>3, <2>1, <2>2
<1>8. North(r, x) \in L
  BY <1>1, <1>6, <1>7 DEF In, One
<1>9. North(r, x).from = Corner(r, x)
  BY Ends
<1>10. Before(Corner(r, x), Corner(r, c))
  BY <1>1 DEF Before, Corner
<1> QED  BY <1>8, <1>9, <1>10

(* The way with the edge added. *)
Went(M, w, path, edge, L, ring) ==
  /\ ring \in Seq(Int \X Int) /\ ring[1] = path[1] /\ ring[Len(ring)] = edge.to
  /\ Longer(M, Edges(M) \ L, ring) /\ Tied(M, L)
  /\ Balanced(L, ring[1], ring[Len(ring)])
  /\ \A e \in L : ~ Before(e.from, ring[1])
  /\ \A e \in Edges(M) : OnRing(ring, e) <=> OnRing(w.ring, e) \/ e = edge

(* The ring grows by the edge taken, which was on no ring. *)
LEMMA TakenTrail ==
  ASSUME NEW H \in Nat, NEW W \in Nat, NEW M \in SUBSET Grid(H, W), NEW w,
         WalkInv(M, w), NEW path, NEW edge, Ready(M, w, path, edge),
         NEW ring, ring = path \o <<edge.to>>, NEW L, L = w.left \ {edge}
  PROVE  Went(M, w, path, edge, L, ring)
<1> DEFINE n == Len(path)
<1>0. /\ path \in Seq(Int \X Int) /\ Trail(Edges(M) \ w.left, path)
      /\ edge \in w.left /\ edge.from = path[n]
      /\ \A e \in w.left : ~ Before(e.from, path[1])
  BY DEF Ready
<1>1. /\ M \in SUBSET (Int \X Int) /\ w.left \in SUBSET Edges(M) /\ edge \in Edges(M)
      /\ edge.to \in Int \X Int /\ edge.from \in Int \X Int
  <2>1. w.left \in SUBSET Edges(M) /\ edge \in Edges(M)
    BY <1>0 DEF WalkInv
  <2>2. edge.to \in Corners(H, W) /\ edge.from \in Corners(H, W)
    BY <2>1, EdgeEnds
  <2>3. Corners(H, W) \subseteq Int \X Int
    BY DEF Corners
  <2>4. M \in SUBSET (Int \X Int)
    BY OnRaster
  <2> QED  BY <2>1, <2>2, <2>3, <2>4
<1>2. n \in Nat /\ n >= 1
  BY <1>0 DEF Trail
<1>3. /\ ring \in Seq(Int \X Int) /\ Len(ring) = n + 1 /\ ring[n + 1] = edge.to
      /\ \A i \in 1..n : ring[i] = path[i]
  BY <1>0, <1>1, <1>2
<1> HIDE DEF n
<1>4. ring[1] = path[1] /\ ring[n] = edge.from /\ ring[Len(ring)] = edge.to
  BY <1>0, <1>2, <1>3
<1>5. Balanced(L, ring[1], edge.to)
  <2>1. Balanced(w.left, path[1], edge.from)
    BY <1>0 DEF Ready, n
  <2> QED  BY <1>0, <1>1, <1>4, <2>1, TakenBalanced
<1>6. Tied(M, L)
  <2>1. PICK r \in Int, c \in Int : /\ path[n] = Corner(r, c)
                                    /\ edge = West(r - 1, c) => East(r, c - 1) \notin w.left
    BY DEF Ready, n
  <2> QED  BY <1>0, <1>1, <2>1, TakenTied DEF WalkInv
<1>7. \A e \in L : ~ Before(e.from, ring[1])
  BY <1>0, <1>4
<1>8. ~ Before(edge.to, ring[1])
  <2>1. CASE edge.to = ring[1]
    <3>1. ring[1] \in Int \X Int
      BY <1>1, <2>1
    <3> QED  BY <2>1, <3>1 DEF Before
  <2>2. CASE edge.to # ring[1]
    <3>1. PICK r \in Int, c \in Int : edge.to = Corner(r, c)
      <4>1. PICK r \in Int, c \in Int : edge \in Coming(r, c)
        BY <1>1, EdgeComes
      <4> QED  BY <4>1, ComesToCorner
    <3>2. Out(L, r, c) - In(L, r, c) = 1 - 0
      BY <1>5, <2>2, <3>1 DEF Balanced
    <3>3. \E e \in L : e.from = Corner(r, c)
      BY <3>2, OutHas
    <3> QED  BY <1>7, <3>1, <3>3
  <2> QED  BY <2>1, <2>2

<1>9. Trail(Edges(M) \ L, ring)
  <2>1. ASSUME NEW i \in 1..n
        PROVE  /\ i + 1 \in 1..(n + 1)
               /\ i < n => /\ i \in 1..(n - 1) /\ ring[i] = path[i] /\ ring[i + 1] = path[i + 1]
                           /\ \E e \in Edges(M) \ w.left : e.from = ring[i] /\ e.to = ring[i + 1]
               /\ i = n => edge.from = ring[i] /\ edge.to = ring[i + 1]
    <3>1. i + 1 \in 1..(n + 1)
      BY <1>2
    <3>2. ASSUME i < n
          PROVE  /\ i \in 1..(n - 1) /\ ring[i] = path[i] /\ ring[i + 1] = path[i + 1]
                 /\ \E e \in Edges(M) \ w.left : e.from = ring[i] /\ e.to = ring[i + 1]
      <4>1. i \in 1..(n - 1) /\ i \in 1..n /\ i + 1 \in 1..n
        BY <1>2, <3>2
      <4>2. ring[i] = path[i] /\ ring[i + 1] = path[i + 1]
        BY <1>3, <4>1
      <4> QED  BY <1>0, <4>1, <4>2 DEF Trail, n
    <3> QED  BY <1>3, <1>4, <3>1, <3>2
  <2>2. \A i \in 1..n : \E e \in Edges(M) \ L : e.from = ring[i] /\ e.to = ring[i + 1]
    <3> TAKE i \in 1..n
    <3>1. CASE i < n
      BY <2>1, <3>1
    <3>2. CASE i = n
      BY <1>0, <1>1, <2>1, <3>2
    <3>3. i < n \/ i = n
      BY <1>2
    <3> QED  BY <3>1, <3>2, <3>3
  <2>3. ASSUME NEW j \in 1..n, j < n, ring[j] = ring[n], ring[j + 1] = ring[n + 1] PROVE FALSE
    <3>1. PICK e \in Edges(M) \ w.left : e.from = ring[j] /\ e.to = ring[j + 1]
      BY <2>1, <2>3
    <3>2. e.from = edge.from /\ e.to = edge.to
      BY <1>3, <1>4, <2>3, <3>1
    <3>3. e = edge
      BY <1>1, <3>2, EdgeByEnds
    <3> QED  BY <1>0, <3>3
  <2>4. ASSUME NEW i \in 1..n, NEW j \in 1..n, ring[i] = ring[j], ring[i + 1] = ring[j + 1]
        PROVE  i = j
    <3>1. CASE i < n /\ j < n
      <4>1. /\ i \in 1..(n - 1) /\ j \in 1..(n - 1)
            /\ path[i] = path[j] /\ path[i + 1] = path[j + 1]
        BY <2>1, <2>4, <3>1
      <4> QED  BY <1>0, <4>1 DEF Trail, n
    <3>2. CASE i = n /\ j < n
      BY <2>3, <2>4, <3>2
    <3>3. CASE i < n /\ j = n
      BY <2>3, <2>4, <3>3
    <3> QED  BY <1>2, <3>1, <3>2, <3>3
  <2>5. \A i \in 1..(n + 1) : ~ Before(ring[i], ring[1])
    <3> TAKE i \in 1..(n + 1)
    <3>1. CASE i = n + 1
      BY <1>3, <1>8, <3>1
    <3>2. CASE i # n + 1
      <4>1. i \in 1..n
        BY <1>2, <3>2
      <4>2. ~ Before(path[i], path[1])
        BY <1>0, <4>1 DEF Trail, n
      <4> QED  BY <1>3, <1>4, <4>1, <4>2
    <3> QED  BY <3>1, <3>2
  <2>6. Len(ring) >= 1 /\ Len(ring) - 1 = n
    BY <1>2, <1>3
  <2>7. \A i \in 1..(Len(ring) - 1) : \E e \in Edges(M) \ L : e.from = ring[i] /\ e.to = ring[i + 1]
    BY <2>2, <2>6
  <2>8. \A i, j \in 1..(Len(ring) - 1) : ring[i] = ring[j] /\ ring[i + 1] = ring[j + 1] => i = j
    BY <2>4, <2>6
  <2>9. \A i \in 1..Len(ring) : ~ Before(ring[i], ring[1])
    BY <1>3, <2>5
  <2> QED  BY <1>3, <2>6, <2>7, <2>8, <2>9 DEF Trail
<1>10. ASSUME NEW e \in Edges(M)
       PROVE  OnRing(ring, e) <=> OnRing(w.ring, e) \/ e = edge
  <2>1. OnRing(path, e) <=> OnRing(w.ring, e)
    <3>1. CASE w.ring = << >>
      <4>1. Len(path) = 1 /\ Len(w.ring) = 0
        BY <3>1 DEF Ready
      <4> QED  BY <4>1 DEF OnRing
    <3>2. CASE w.ring # << >>
      BY <3>2 DEF Ready
    <3> QED  BY <3>1, <3>2
  <2>2. OnRing(path, e) => OnRing(ring, e)
    <3> SUFFICES ASSUME NEW i \in 1..(n - 1), e.from = path[i], e.to = path[i + 1]
                 PROVE  OnRing(ring, e)
      BY DEF OnRing, n
    <3>1. i \in 1..n /\ i + 1 \in 1..n /\ i \in 1..(Len(ring) - 1)
      <4>1. n \in Nat /\ Len(ring) = n + 1
        BY <1>2, <1>3
      <4>2. Len(ring) - 1 = n
        BY <4>1
      <4> QED  BY <4>1, <4>2
    <3>2. ring[i] = path[i] /\ ring[i + 1] = path[i + 1]
      BY <1>3, <3>1
    <3> QED  BY <3>1, <3>2 DEF OnRing
  <2>3. e = edge => OnRing(ring, e)
    <3>1. n \in 1..(Len(ring) - 1)
      BY <1>2, <1>3
    <3> QED  BY <1>3, <1>4, <3>1 DEF OnRing
  <2>4. ASSUME OnRing(ring, e), e # edge PROVE OnRing(path, e)
    <3>1. PICK i \in 1..(Len(ring) - 1) : e.from = ring[i] /\ e.to = ring[i + 1]
      BY <2>4 DEF OnRing
    <3>2. i \in 1..n
      BY <1>2, <1>3
    <3>3. i # n
      <4> SUFFICES ASSUME i = n PROVE FALSE
        OBVIOUS
      <4>1. e.from = edge.from /\ e.to = edge.to
        BY <1>3, <1>4, <3>1
      <4> QED  BY <1>1, <2>4, <4>1, EdgeByEnds
    <3>4. i \in 1..(n - 1) /\ i + 1 \in 1..n
      BY <1>2, <3>2, <3>3
    <3>5. ring[i] = path[i] /\ ring[i + 1] = path[i + 1]
      BY <1>3, <3>2, <3>4
    <3> QED  BY <3>1, <3>4, <3>5 DEF OnRing, n
  <2> QED  BY <2>1, <2>2, <2>3, <2>4
<1>11. StartsWell(M, ring)
  <2>1. CASE w.ring = << >>
    <3>1. n = 1
      BY <2>1 DEF Ready, n
    <3>2. ring[1] = edge.from /\ ring[2] = edge.to
      BY <1>3, <1>4, <3>1
    <3>3. Balanced(w.left, edge.from, edge.from)
      BY <1>0, <3>1 DEF Ready, n
    <3>4. \A d \in w.left : ~ Before(d.from, edge.from)
      BY <1>0, <3>1
    <3>5. Tied(M, w.left)
      BY DEF WalkInv
    <3> SUFFICES ASSUME NEW r \in Int, NEW c \in Int, edge.from = Corner(r, c),
                        edge.to = Corner(r + 1, c), <<r - 1, c>> \in M
                 PROVE  <<r - 1, c - 1>> \in M
      BY <3>2 DEF StartsWell
    <3> QED  BY <1>0, <1>1, <3>3, <3>4, <3>5, DownwardStart
  <2>2. CASE w.ring # << >>
    <3>1. path = w.ring /\ Len(path) >= 2 /\ StartsWell(M, path)
      BY <2>2 DEF Ready, WalkInv, Begun, Longer
    <3>2. 1 \in 1..n /\ 2 \in 1..n
      BY <1>2, <3>1 DEF n
    <3>3. ring[1] = path[1] /\ ring[2] = path[2]
      BY <1>3, <3>2
    <3> QED  BY <3>1, <3>3 DEF StartsWell
  <2> QED  BY <2>1, <2>2
<1>12. Len(ring) >= 2
  BY <1>2, <1>3
<1> QED  BY <1>3, <1>4, <1>5, <1>6, <1>7, <1>9, <1>10, <1>11, <1>12 DEF Longer, Went

LEMMA LoopGrows ==
  ASSUME NEW M, NEW L, NEW K, L \subseteq K, NEW ring
  PROVE  /\ Loop(M, L, ring) => Loop(M, K, ring)
         /\ Begun(M, L, ring) => Begun(M, K, ring)
<1>1. Trail(L, ring) => Trail(K, ring)
  BY DEF Trail
<1> QED  BY <1>1 DEF Loop, Begun, Longer

(* An edge on a ring is one of those used. *)
LEMMA OnLoop ==
  ASSUME NEW M \in SUBSET (Int \X Int), NEW L \in SUBSET Edges(M), NEW ring, Trail(L, ring),
         NEW e \in Edges(M), OnRing(ring, e)
  PROVE  e \in L
<1>1. PICK i \in 1..(Len(ring) - 1) : e.from = ring[i] /\ e.to = ring[i + 1]
  BY DEF OnRing
<1>2. PICK d \in L : d.from = ring[i] /\ d.to = ring[i + 1]
  BY DEF Trail
<1> QED  BY <1>1, <1>2, EdgeByEnds

(* A turn keeps the invariant of the walk. *)
LEMMA FollowKeeps ==
  ASSUME NEW H \in Nat, NEW W \in Nat, NEW M \in SUBSET Grid(H, W), NEW w,
         WalkInv(M, w), w.left # {}
  PROVE  /\ WalkInv(M, Follow(w))
         /\ \E e \in w.left : Follow(w).left = w.left \ {e}
<1>1. PICK path, edge : Ready(M, w, path, edge) /\ Follow(w) = Taken(w, path, edge)
  BY FollowIs
<1> DEFINE ring == path \o <<edge.to>>
           L == w.left \ {edge}
           v == Follow(w)
           N == Len(w.rings)
<1>2. /\ v.left = L
      /\ v.ring = IF edge.to = ring[1] THEN << >> ELSE ring
      /\ v.rings = IF edge.to = ring[1] THEN Append(w.rings, ring) ELSE w.rings
  BY <1>1 DEF Taken
<1>3. /\ ring \in Seq(Int \X Int) /\ ring[Len(ring)] = edge.to
      /\ Longer(M, Edges(M) \ L, ring) /\ Tied(M, L)
      /\ Balanced(L, ring[1], ring[Len(ring)])
      /\ \A e \in L : ~ Before(e.from, ring[1])
      /\ \A e \in Edges(M) : OnRing(ring, e) <=> OnRing(w.ring, e) \/ e = edge
  <2>1. ring = path \o <<edge.to>> /\ L = w.left \ {edge}
    OBVIOUS
  <2> HIDE DEF ring, L
  <2>2. Went(M, w, path, edge, L, ring)
    BY <1>1, <2>1, TakenTrail
  <2> QED  BY <2>2 DEF Went
<1>4. edge \in w.left
  BY <1>1 DEF Ready
<1> HIDE DEF ring, v
<1>5. /\ M \in SUBSET (Int \X Int) /\ w.left \subseteq Edges(M) /\ w.rings \in Seq(Seq(Int \X Int))
      /\ N \in Nat /\ L \subseteq Edges(M)
  BY OnRaster DEF WalkInv
<1>6. \A j \in 1..N : Loop(M, Edges(M) \ w.left, w.rings[j])
  BY DEF WalkInv
<1>7. \A j \in 1..N : Loop(M, Edges(M) \ L, w.rings[j])
  <2>1. Edges(M) \ w.left \subseteq Edges(M) \ L
    OBVIOUS
  <2> QED  BY <1>6, <2>1, LoopGrows
<1>8. \A j \in 1..N : ~ OnRing(w.rings[j], edge)
  <2> SUFFICES ASSUME NEW j \in 1..N, OnRing(w.rings[j], edge) PROVE FALSE
    OBVIOUS
  <2>1. Trail(Edges(M) \ w.left, w.rings[j])
    BY <1>6 DEF Loop, Longer
  <2>2. edge \in Edges(M) \ w.left
    BY <1>4, <1>5, <2>1, OnLoop
  <2> QED  BY <1>4, <2>2
<1>9. \A e \in Edges(M) \ L : OnRing(ring, e) \/ \E j \in 1..N : OnRing(w.rings[j], e)
  BY <1>3, <1>5 DEF WalkInv, Parted
<1>10. \A e \in Edges(M), j \in 1..N :
         OnRing(w.rings[j], e) => /\ ~ OnRing(ring, e)
                                  /\ \A k \in 1..N : OnRing(w.rings[k], e) => k = j
  BY <1>3, <1>8 DEF WalkInv, Parted
<1> HIDE DEF L, N
<1>11. CASE edge.to = ring[1]
  <2>1. v.left = L /\ v.ring = << >> /\ v.rings = Append(w.rings, ring)
    BY <1>2, <1>11
  <2>2. /\ v.rings \in Seq(Seq(Int \X Int)) /\ Len(v.rings) = N + 1 /\ v.rings[N + 1] = ring
        /\ \A j \in 1..N : v.rings[j] = w.rings[j]
    BY <1>3, <1>5, <2>1 DEF N
  <2>3. \A j \in 1..(N + 1) : j = N + 1 \/ j \in 1..N
    BY <1>5
  <2>4. Loop(M, Edges(M) \ L, ring)
    BY <1>3, <1>11 DEF Loop
  <2>5. \A j \in 1..(N + 1) : Loop(M, Edges(M) \ L, v.rings[j])
    BY <1>7, <2>2, <2>3, <2>4
  <2>6. AllBalanced(v)
    <3>1. Balanced(L, ring[1], ring[1])
      BY <1>3, <1>11
    <3>2. Balanced(L, << >>, << >>)
      <4>1. \A y, x \in Int : << >> # Corner(y, x)
        BY DEF Corner
      <4> QED  BY <3>1, <4>1 DEF Balanced
    <3> QED  BY <2>1, <3>2 DEF AllBalanced
  <2>7. Parted(M, v)
    <3>1. \A e : ~ OnRing(v.ring, e)
      BY <2>1 DEF OnRing
    <3>2. \A e \in Edges(M) \ L : \E j \in 1..(N + 1) : OnRing(v.rings[j], e)
      <4> TAKE e \in Edges(M) \ L
      <4>1. CASE OnRing(ring, e)
        BY <1>5, <2>2, <4>1
      <4>2. CASE \E j \in 1..N : OnRing(w.rings[j], e)
        <5>1. PICK j \in 1..N : OnRing(w.rings[j], e)
          BY <4>2
        <5>2. j \in 1..(N + 1)
          BY <1>5
        <5> QED  BY <2>2, <5>1, <5>2
      <4> QED  BY <1>9, <4>1, <4>2
    <3>3. \A e \in Edges(M), j, k \in 1..(N + 1) :
            OnRing(v.rings[j], e) /\ OnRing(v.rings[k], e) => k = j
      BY <1>10, <2>2, <2>3
    <3> QED  BY <2>1, <2>2, <3>1, <3>2, <3>3 DEF Parted
  <2>8. WalkInv(M, v)
    BY <1>3, <1>5, <2>1, <2>2, <2>5, <2>6, <2>7 DEF WalkInv
  <2> QED  BY <1>2, <1>4, <2>8 DEF v, L
<1>12. CASE edge.to # ring[1]
  <2>1. v.left = L /\ v.ring = ring /\ v.rings = w.rings
    BY <1>2, <1>12
  <2>2. ring # << >>
    <3>1. Len(ring) >= 2
      BY <1>3 DEF Longer
    <3> QED  BY <3>1
  <2>3. Begun(M, Edges(M) \ L, ring)
    BY <1>3, <1>12 DEF Begun
  <2>4. AllBalanced(v)
    BY <1>3, <2>1, <2>2 DEF AllBalanced
  <2>5. Parted(M, v)
    BY <1>9, <1>10, <2>1 DEF Parted, N
  <2>6. WalkInv(M, v)
    BY <1>3, <1>5, <1>7, <2>1, <2>3, <2>4, <2>5 DEF WalkInv, N
  <2> QED  BY <1>2, <1>4, <2>6 DEF v, L
<1> QED  BY <1>11, <1>12

-----------------------------------------------------------------------------
(* All rings. *)

Begins(edges) == [left |-> edges, ring |-> << >>, rings |-> << >>]

(* The recursion of Rings, up to k. *)
Walks(edges, f, k) ==
  f = [n \in 0..k |-> IF n = 0 THEN Begins(edges) ELSE Follow(f[n - 1])]

(* The recursive function that Rings is defined by exists. *)
LEMMA WalksExist == ASSUME NEW edges PROVE \A k \in Nat : \E f : Walks(edges, f, k)
<1> DEFINE Upto == {k \in Nat : \E f : Walks(edges, f, k)}
<1>1. 0 \in Upto
  <2>1. Walks(edges, [n \in 0..0 |-> Begins(edges)], 0)
    BY DEF Walks
  <2> QED  BY <2>1
<1>2. ASSUME NEW j \in Nat, j \in Upto PROVE j + 1 \in Upto
  <2>1. PICK g : Walks(edges, g, j)
    BY <1>2
  <2> DEFINE f == [n \in 0..(j + 1) |-> IF n = j + 1 THEN Follow(g[j]) ELSE g[n]]
  <2>2. ASSUME NEW n \in 0..(j + 1)
        PROVE  f[n] = IF n = 0 THEN Begins(edges) ELSE Follow(f[n - 1])
    <3>1. CASE n = j + 1
      <4>1. n # 0 /\ n - 1 = j /\ j \in 0..(j + 1) /\ j # j + 1
        BY <3>1
      <4> QED  BY <3>1, <4>1
    <3>2. CASE n # j + 1
      <4>1. n \in 0..j /\ f[n] = g[n]
        BY <3>2
      <4>2. n # 0 => n - 1 \in 0..(j + 1) /\ n - 1 # j + 1
        BY <4>1
      <4>3. n # 0 => f[n - 1] = g[n - 1]
        BY <4>2
      <4>4. g[n] = IF n = 0 THEN Begins(edges) ELSE Follow(g[n - 1])
        BY <2>1, <4>1 DEF Walks
      <4> QED  BY <4>1, <4>3, <4>4
    <3> QED  BY <3>1, <3>2
  <2>3. Walks(edges, f, j + 1)
    <3>1. f = [n \in 0..(j + 1) |-> f[n]]
      OBVIOUS
    <3> HIDE DEF f
    <3> QED  BY <2>2, <3>1 DEF Walks
  <2> QED  BY <2>3
<1> HIDE DEF Upto
<1>3. \A k \in Nat : k \in Upto
  BY <1>1, <1>2, Climb
<1> QED  BY <1>3 DEF Upto

(* The invariant holds before the first turn. *)
LEMMA WalkBegins ==
  ASSUME NEW M \in SUBSET (Int \X Int)
  PROVE  WalkInv(M, Begins(Edges(M)))
<1> DEFINE w == Begins(Edges(M))
<1>1. w.left = Edges(M) /\ w.ring = << >> /\ w.rings = << >>
  BY DEF Begins
<1> HIDE DEF w
<1>2. Balanced(Edges(M), << >>, << >>)
  <2>1. \A y, x \in Int : << >> # Corner(y, x)
    BY DEF Corner
  <2>2. ASSUME NEW r \in Int, NEW c \in Int
        PROVE  Out(Edges(M), r, c) - In(Edges(M), r, c) = 0
    <3>1. Out(Edges(M), r, c) \in Nat /\ In(Edges(M), r, c) \in Nat
      BY OutHas
    <3>2. Out(Edges(M), r, c) = In(Edges(M), r, c)
      BY MaskBalanced
    <3> QED  BY <3>1, <3>2
  <2> QED  BY <2>1, <2>2 DEF Balanced
<1>3. Tied(M, Edges(M))
  BY DEF Tied
<1>4. w.rings \in Seq(Seq(Int \X Int)) /\ Len(w.rings) = 0
  BY <1>1
<1>5. Parted(M, w)
  BY <1>1, <1>4 DEF Parted
<1>6. WalkInv(M, w)
  BY <1>1, <1>2, <1>3, <1>4, <1>5 DEF WalkInv, AllBalanced
<1> QED  BY <1>6 DEF w

(* assemble_rings ends with every edge on one ring. *)
LEMMA WalkEnds ==
  ASSUME NEW H \in Nat, NEW W \in Nat, NEW M \in SUBSET Grid(H, W)
  PROVE  \E w : /\ WalkInv(M, w) /\ w.left = {} /\ w.ring = << >>
                /\ w.rings = Rings(Edges(M))
<1> DEFINE E == Edges(M)
           N == Cardinality(E)
           walk == CHOOSE f : Walks(E, f, N)
<1>1. IsFiniteSet(E) /\ N \in Nat /\ M \in SUBSET (Int \X Int)
  BY EdgesFinite, FS_CardinalityType, OnRaster
<1>2. Rings(E) = walk[N].rings
  BY DEF Rings, Walks, Begins
<1> HIDE DEF E, N
<1>3. Walks(E, walk, N)
  BY <1>1, WalksExist
<1> HIDE DEF walk
<1>4. walk[0] = Begins(E) /\ \A n \in 1..N : walk[n] = Follow(walk[n - 1])
  <2> DEFINE Value(n) == IF n = 0 THEN Begins(E) ELSE Follow(walk[n - 1])
  <2>1. walk = [n \in 0..N |-> Value(n)]
    BY <1>3 DEF Walks
  <2> HIDE DEF Value
  <2>2. \A n \in 0..N : walk[n] = Value(n)
    BY <2>1
  <2> QED  BY <1>1, <2>2 DEF Value
<1>5. ASSUME NEW w, WalkInv(M, w), w.left # {}
      PROVE  WalkInv(M, Follow(w)) /\ \E e \in w.left : Follow(w).left = w.left \ {e}
  BY <1>5, FollowKeeps
<1> DEFINE Good == {n \in Nat : n <= N => /\ WalkInv(M, walk[n]) /\ IsFiniteSet(walk[n].left)
                                          /\ Cardinality(walk[n].left) = N - n}
<1>6. 0 \in Good
  <2>1. WalkInv(M, walk[0])
    BY <1>1, <1>4, WalkBegins DEF E
  <2>2. walk[0].left = E
    BY <1>4 DEF Begins
  <2> QED  BY <1>1, <2>1, <2>2 DEF N
<1>7. ASSUME NEW n \in Nat, n \in Good PROVE n + 1 \in Good
  <2> SUFFICES ASSUME n + 1 <= N
               PROVE  /\ WalkInv(M, walk[n + 1]) /\ IsFiniteSet(walk[n + 1].left)
                      /\ Cardinality(walk[n + 1].left) = N - (n + 1)
    OBVIOUS
  <2>1. /\ WalkInv(M, walk[n]) /\ IsFiniteSet(walk[n].left)
        /\ Cardinality(walk[n].left) = N - n
    BY <1>1, <1>7
  <2>2. walk[n].left # {}
    <3>1. Cardinality({}) = 0
      BY FS_EmptySet
    <3>2. N - n # 0
      BY <1>1
    <3> QED  BY <2>1, <3>1, <3>2
  <2>3. walk[n + 1] = Follow(walk[n])
    <3>1. n + 1 \in 1..N /\ (n + 1) - 1 = n
      BY <1>1
    <3> QED  BY <1>4, <3>1
  <2>4. WalkInv(M, walk[n + 1])
    BY <1>5, <2>1, <2>2, <2>3
  <2>5. PICK e \in walk[n].left : walk[n + 1].left = walk[n].left \ {e}
    BY <1>5, <2>1, <2>2, <2>3
  <2>6. /\ IsFiniteSet(walk[n + 1].left)
        /\ Cardinality(walk[n + 1].left) = Cardinality(walk[n].left) - 1
    <3> DEFINE S == walk[n].left
    <3>1. IsFiniteSet(S) /\ e \in S
      BY <2>1
    <3> HIDE DEF S
    <3>2. IsFiniteSet(S \ {e}) /\ Cardinality(S \ {e}) = Cardinality(S) - 1
      BY <3>1, FS_RemoveElement
    <3> QED  BY <2>5, <3>2 DEF S
  <2> QED  BY <1>1, <2>1, <2>4, <2>6
<1> HIDE DEF Good
<1>8. \A n \in Nat : n \in Good
  BY <1>6, <1>7, Climb
<1>9. /\ WalkInv(M, walk[N]) /\ IsFiniteSet(walk[N].left)
      /\ Cardinality(walk[N].left) = 0
  BY <1>1, <1>8 DEF Good
<1>10. walk[N].left = {}
  BY <1>9, FS_EmptySet
<1>11. walk[N].ring = << >>
  <2> SUFFICES ASSUME walk[N].ring # << >> PROVE FALSE
    OBVIOUS
  <2> DEFINE path == walk[N].ring
  <2>1. /\ Begun(M, Edges(M) \ walk[N].left, path)
        /\ Balanced(walk[N].left, path[1], path[Len(path)])
    BY <1>9 DEF WalkInv, AllBalanced
  <2> HIDE DEF path
  <2>2. GoesOn(walk[N].left, path)
    BY <1>1, <2>1, BegunGoesOn
  <2> QED  BY <1>10, <2>2 DEF GoesOn
<1> QED  BY <1>2, <1>9, <1>10, <1>11 DEF E

-----------------------------------------------------------------------------
(* How a ring winds around a cell. *)

(* A leg from one corner to the next. *)
Unit(y, x, v, u) ==
  \/ v = y /\ (u = x + 1 \/ u = x - 1)
  \/ u = x /\ (v = y + 1 \/ v = y - 1)

(* What a leg counts: 1 or -1 up or down the left side of a cell, and      *)
(* right or left along its upper one; up or down a row not right of a      *)
(* cell; and down or up the rows above it or its own not right of it, by   *)
(* how far right it is.                                                    *)
Up(a, b, r, c) ==
  IF a = Corner(r + 1, c) /\ b = Corner(r, c) THEN 1
  ELSE IF a = Corner(r, c) /\ b = Corner(r + 1, c) THEN -1 ELSE 0
Right(a, b, r, c) ==
  IF a = Corner(r, c) /\ b = Corner(r, c + 1) THEN 1
  ELSE IF a = Corner(r, c + 1) /\ b = Corner(r, c) THEN -1 ELSE 0
Turn(a, b, r, c) ==
  IF a[2] # b[2] \/ a[2] > 4 * c THEN 0
  ELSE IF a[1] = 4 * r + 4 /\ b[1] = 4 * r THEN 1
  ELSE IF a[1] = 4 * r /\ b[1] = 4 * r + 4 THEN -1 ELSE 0
Swept(a, b, r, c) ==
  \/ a[1] < 4 * r \/ b[1] < 4 * r
  \/ a[1] + b[1] = 8 * r + 4 /\ a[2] <= 4 * c
Sweep(a, b, r, c) ==
  IF a[2] # b[2] \/ ~ Swept(a, b, r, c) THEN 0
  ELSE IF b[1] < a[1] THEN -a[2] ELSE a[2]

Counted(a, b, r, c) ==
  /\ Up(a, b, r, c) \in Int /\ Right(a, b, r, c) \in Int
  /\ Turn(a, b, r, c) \in {-1, 0, 1} /\ Sweep(a, b, r, c) \in Int
  /\ Turn(a, b, r, c) = Turn(a, b, r, c - 1) + Up(a, b, r, c)
  /\ Sweep(a, b, r, c) = Sweep(a, b, r, c - 1) + (-(4 * c)) * Up(a, b, r, c)
  /\ (IF b = Corner(r, c) THEN 1 ELSE 0) - (IF a = Corner(r, c) THEN 1 ELSE 0)
       = Up(a, b, r, c) - Up(a, b, r - 1, c) + Right(a, b, r, c - 1) - Right(a, b, r, c)

(* How the counts of a leg differ between neighbouring cells. *)
LEMMA LegCounts ==
  ASSUME NEW y \in Int, NEW x \in Int, NEW v \in Int, NEW u \in Int, Unit(y, x, v, u),
         NEW r \in Int, NEW c \in Int, NEW a, NEW b, a = Corner(y, x), b = Corner(v, u)
  PROVE  Counted(a, b, r, c)
<1>1. \A p, q, s, t \in Int : Corner(p, q) = Corner(s, t) <=> p = s /\ q = t
  BY DEF Corner
<1>2. /\ a[1] = 4 * y /\ a[2] = 4 * x /\ b[1] = 4 * v /\ b[2] = 4 * u
  BY DEF Corner
<1>3. /\ Up(a, b, r, c) = IF y = r + 1 /\ x = c /\ v = r /\ u = c THEN 1
                          ELSE IF y = r /\ x = c /\ v = r + 1 /\ u = c THEN -1 ELSE 0
      /\ Up(a, b, r - 1, c) = IF y = r /\ x = c /\ v = r - 1 /\ u = c THEN 1
                              ELSE IF y = r - 1 /\ x = c /\ v = r /\ u = c THEN -1 ELSE 0
      /\ Right(a, b, r, c) = IF y = r /\ x = c /\ v = r /\ u = c + 1 THEN 1
                             ELSE IF y = r /\ x = c + 1 /\ v = r /\ u = c THEN -1 ELSE 0
      /\ Right(a, b, r, c - 1) = IF y = r /\ x = c - 1 /\ v = r /\ u = c THEN 1
                                 ELSE IF y = r /\ x = c /\ v = r /\ u = c - 1 THEN -1 ELSE 0
  <2>1. (r - 1) + 1 = r /\ (c - 1) + 1 = c
    OBVIOUS
  <2>2. Up(a, b, r, c) = IF y = r + 1 /\ x = c /\ v = r /\ u = c THEN 1
                         ELSE IF y = r /\ x = c /\ v = r + 1 /\ u = c THEN -1 ELSE 0
    BY <1>1 DEF Up
  <2>3. Up(a, b, r - 1, c) = IF y = r /\ x = c /\ v = r - 1 /\ u = c THEN 1
                             ELSE IF y = r - 1 /\ x = c /\ v = r /\ u = c THEN -1 ELSE 0
    BY <1>1, <2>1 DEF Up
  <2>4. Right(a, b, r, c) = IF y = r /\ x = c /\ v = r /\ u = c + 1 THEN 1
                            ELSE IF y = r /\ x = c + 1 /\ v = r /\ u = c THEN -1 ELSE 0
    BY <1>1 DEF Right
  <2>5. Right(a, b, r, c - 1) = IF y = r /\ x = c - 1 /\ v = r /\ u = c THEN 1
                                ELSE IF y = r /\ x = c /\ v = r /\ u = c - 1 THEN -1 ELSE 0
    BY <1>1, <2>1 DEF Right
  <2> QED  BY <2>2, <2>3, <2>4, <2>5
<1>4. /\ Up(a, b, r, c) \in Int /\ Right(a, b, r, c) \in Int
      /\ Turn(a, b, r, c) \in {-1, 0, 1} /\ Sweep(a, b, r, c) \in Int
  BY <1>2, <1>3 DEF Turn, Sweep
<1>5. Turn(a, b, r, c) = Turn(a, b, r, c - 1) + Up(a, b, r, c)
  BY <1>2, <1>3 DEF Turn, Unit
<1>6. Sweep(a, b, r, c) = Sweep(a, b, r, c - 1) + (-(4 * c)) * Up(a, b, r, c)
  <2>1. CASE y = r + 1 /\ x = c /\ v = r /\ u = c
    <3>1. Up(a, b, r, c) = 1
      BY <1>3, <2>1
    <3>2. Sweep(a, b, r, c) = -(4 * c) /\ Sweep(a, b, r, c - 1) = 0
      BY <1>2, <2>1 DEF Sweep, Swept
    <3> QED  BY <3>1, <3>2
  <2>2. CASE y = r /\ x = c /\ v = r + 1 /\ u = c
    <3>1. Up(a, b, r, c) = -1
      BY <1>3, <2>2
    <3>2. Sweep(a, b, r, c) = 4 * c /\ Sweep(a, b, r, c - 1) = 0
      BY <1>2, <2>2 DEF Sweep, Swept
    <3> QED  BY <3>1, <3>2
  <2>3. CASE /\ ~ (y = r + 1 /\ x = c /\ v = r /\ u = c)
             /\ ~ (y = r /\ x = c /\ v = r + 1 /\ u = c)
    <3>1. Up(a, b, r, c) = 0
      BY <1>3, <2>3
    <3>2. Sweep(a, b, r, c) = Sweep(a, b, r, c - 1)
      BY <1>2, <2>3 DEF Sweep, Swept, Unit
    <3>3. Sweep(a, b, r, c - 1) \in Int
      BY <1>2 DEF Sweep
    <3> QED  BY <3>1, <3>2, <3>3
  <2> QED  BY <2>1, <2>2, <2>3
<1>7. (IF b = Corner(r, c) THEN 1 ELSE 0) - (IF a = Corner(r, c) THEN 1 ELSE 0)
        = Up(a, b, r, c) - Up(a, b, r - 1, c) + Right(a, b, r, c - 1) - Right(a, b, r, c)
  <2>1. /\ b = Corner(r, c) <=> v = r /\ u = c
        /\ a = Corner(r, c) <=> y = r /\ x = c
    BY <1>1
  <2> QED  BY <1>3, <2>1 DEF Unit
<1> QED  BY <1>4, <1>5, <1>6, <1>7 DEF Counted

(* The edge between two corners. *)
LEMMA EdgeBetween ==
  ASSUME NEW M \in SUBSET (Int \X Int), NEW e \in Edges(M), NEW r \in Int, NEW c \in Int
  PROVE  /\ e.from = Corner(r + 1, c) /\ e.to = Corner(r, c) => e = West(r, c)
         /\ e.from = Corner(r, c) /\ e.to = Corner(r + 1, c) => e = East(r, c - 1)
         /\ e.from = Corner(r, c) /\ e.to = Corner(r, c + 1) => e = North(r, c)
         /\ e.from = Corner(r, c + 1) /\ e.to = Corner(r, c) => e = South(r - 1, c)
<1>1. PICK y \in Int, x \in Int : Borders(M, e, y, x)
  BY EdgeForms
<1>2. e \in {North(y, x), South(y, x), West(y, x), East(y, x)}
  BY <1>1 DEF Borders
<1>3. /\ North(y, x).from = Corner(y, x) /\ North(y, x).to = Corner(y, x + 1)
      /\ South(y, x).from = Corner(y + 1, x + 1) /\ South(y, x).to = Corner(y + 1, x)
      /\ West(y, x).from = Corner(y + 1, x) /\ West(y, x).to = Corner(y, x)
      /\ East(y, x).from = Corner(y, x + 1) /\ East(y, x).to = Corner(y + 1, x + 1)
  BY Ends
<1>4. \A p, q, s, t \in Int : Corner(p, q) = Corner(s, t) => p = s /\ q = t
  BY CornerOf
<1>5. CASE e = North(y, x)
  <2>1. e.from = Corner(y, x) /\ e.to = Corner(y, x + 1)
    BY <1>3, <1>5
  <2> QED  BY <1>4, <1>5, <2>1
<1>6. CASE e = South(y, x)
  <2>1. e.from = Corner(y + 1, x + 1) /\ e.to = Corner(y + 1, x)
    BY <1>3, <1>6
  <2>2. e.from = Corner(r, c + 1) /\ e.to = Corner(r, c) => r - 1 = y /\ c = x
    BY <1>4, <2>1
  <2> QED  BY <1>4, <1>6, <2>1, <2>2
<1>7. CASE e = West(y, x)
  <2>1. e.from = Corner(y + 1, x) /\ e.to = Corner(y, x)
    BY <1>3, <1>7
  <2> QED  BY <1>4, <1>7, <2>1
<1>8. CASE e = East(y, x)
  <2>1. e.from = Corner(y, x + 1) /\ e.to = Corner(y + 1, x + 1)
    BY <1>3, <1>8
  <2>2. e.from = Corner(r, c) /\ e.to = Corner(r + 1, c) => r = y /\ c - 1 = x
    BY <1>4, <2>1
  <2> QED  BY <1>4, <1>8, <2>1, <2>2
<1> QED  BY <1>2, <1>5, <1>6, <1>7, <1>8

(* The leg from a to b of a raster's ring. *)
Leg(H, W, a, b) ==
  \E y, v \in 0..H, x, u \in 0..W : a = Corner(y, x) /\ b = Corner(v, u) /\ Unit(y, x, v, u)

(* An edge goes from a corner to the next. *)
LEMMA EdgeLeg ==
  ASSUME NEW H \in Nat, NEW W \in Nat, NEW M \in SUBSET Grid(H, W), NEW e \in Edges(M)
  PROVE  Leg(H, W, e.from, e.to)
<1>1. PICK r \in Int, c \in Int : Borders(M, e, r, c)
  BY EdgeForms, OnRaster
<1>2. r \in 0..(H - 1) /\ c \in 0..(W - 1)
  BY <1>1, OnRaster DEF Borders
<1>3. r \in 0..H /\ r + 1 \in 0..H /\ c \in 0..W /\ c + 1 \in 0..W
  BY <1>2
<1>4. e \in {North(r, c), South(r, c), West(r, c), East(r, c)}
  BY <1>1 DEF Borders
<1>5. \/ e.from = Corner(r, c) /\ e.to = Corner(r, c + 1) /\ Unit(r, c, r, c + 1)
      \/ e.from = Corner(r + 1, c + 1) /\ e.to = Corner(r + 1, c) /\ Unit(r + 1, c + 1, r + 1, c)
      \/ e.from = Corner(r + 1, c) /\ e.to = Corner(r, c) /\ Unit(r + 1, c, r, c)
      \/ e.from = Corner(r, c + 1) /\ e.to = Corner(r + 1, c + 1) /\ Unit(r, c + 1, r + 1, c + 1)
  <2>1. /\ Unit(r, c, r, c + 1) /\ Unit(r + 1, c + 1, r + 1, c)
        /\ Unit(r + 1, c, r, c) /\ Unit(r, c + 1, r + 1, c + 1)
    BY DEF Unit
  <2>2. /\ North(r, c).from = Corner(r, c) /\ North(r, c).to = Corner(r, c + 1)
        /\ South(r, c).from = Corner(r + 1, c + 1) /\ South(r, c).to = Corner(r + 1, c)
        /\ West(r, c).from = Corner(r + 1, c) /\ West(r, c).to = Corner(r, c)
        /\ East(r, c).from = Corner(r, c + 1) /\ East(r, c).to = Corner(r + 1, c + 1)
    BY Ends
  <2> QED  BY <1>4, <2>1, <2>2
<1> QED  BY <1>3, <1>5 DEF Leg

(* The rings of a mask are those that the walk ends with. *)
Ring(M, ring) == Loop(M, Edges(M), ring)

(* What the legs of a ring count together. *)
Legs(ring) == 1..(Len(ring) - 1)
Ups(ring, r, c) ==
  [i \in Nat |-> IF i \in Legs(ring) THEN Up(ring[i], ring[i + 1], r, c) ELSE 0]
Rights(ring, r, c) ==
  [i \in Nat |-> IF i \in Legs(ring) THEN Right(ring[i], ring[i + 1], r, c) ELSE 0]
Turns(ring, r, c) ==
  [i \in Nat |-> IF i \in Legs(ring) THEN Turn(ring[i], ring[i + 1], r, c) ELSE 0]
Sweeps(ring, r, c) ==
  [i \in Nat |-> IF i \in Legs(ring) THEN Sweep(ring[i], ring[i + 1], r, c) ELSE 0]

UpSum(ring, r, c) == Total(Ups(ring, r, c), Len(ring) - 1)
RightSum(ring, r, c) == Total(Rights(ring, r, c), Len(ring) - 1)
Winding(ring, r, c) == Total(Turns(ring, r, c), Len(ring) - 1)
SweepSum(ring, r, c) == Total(Sweeps(ring, r, c), Len(ring) - 1)

(* A ring of a mask goes along its edges, from corner to corner. *)
LEMMA RingLegs ==
  ASSUME NEW H \in Nat, NEW W \in Nat, NEW M \in SUBSET Grid(H, W), NEW ring, Ring(M, ring)
  PROVE  /\ ring \in Seq(Int \X Int) /\ Len(ring) \in Nat /\ Len(ring) >= 2
         /\ Len(ring) - 1 \in Nat /\ ring[Len(ring)] = ring[1]
         /\ \A i \in Legs(ring) :
              /\ i \in Nat /\ i + 1 \in 1..Len(ring) /\ Leg(H, W, ring[i], ring[i + 1])
              /\ \E e \in Edges(M) : e.from = ring[i] /\ e.to = ring[i + 1] /\ OnRing(ring, e)
<1>1. /\ ring \in Seq(Int \X Int) /\ Len(ring) >= 2 /\ ring[Len(ring)] = ring[1]
      /\ \A i \in 1..(Len(ring) - 1) : \E e \in Edges(M) : e.from = ring[i] /\ e.to = ring[i + 1]
  BY DEF Ring, Loop, Longer, Trail
<1>2. Len(ring) \in Nat
  BY <1>1
<1>3. ASSUME NEW i \in Legs(ring)
      PROVE  /\ i \in Nat /\ i + 1 \in 1..Len(ring) /\ Leg(H, W, ring[i], ring[i + 1])
             /\ \E e \in Edges(M) : e.from = ring[i] /\ e.to = ring[i + 1] /\ OnRing(ring, e)
  <2>1. i \in Nat /\ i + 1 \in 1..Len(ring)
    BY <1>2 DEF Legs
  <2>2. PICK e \in Edges(M) : e.from = ring[i] /\ e.to = ring[i + 1]
    BY <1>1 DEF Legs
  <2>3. OnRing(ring, e)
    BY <2>2 DEF OnRing, Legs
  <2>4. Leg(H, W, e.from, e.to)
    BY EdgeLeg
  <2> QED  BY <2>1, <2>2, <2>3, <2>4
<1> QED  BY <1>1, <1>2, <1>3

LEMMA LegCounted ==
  ASSUME NEW H \in Nat, NEW W \in Nat, NEW a, NEW b, Leg(H, W, a, b),
         NEW r \in Int, NEW c \in Int
  PROVE  Counted(a, b, r, c)
<1>1. PICK y \in 0..H, v \in 0..H, x \in 0..W, u \in 0..W :
        a = Corner(y, x) /\ b = Corner(v, u) /\ Unit(y, x, v, u)
  BY DEF Leg
<1>2. y \in Int /\ v \in Int /\ x \in Int /\ u \in Int
  OBVIOUS
<1> QED  BY <1>1, <1>2, LegCounts

LEMMA RingLength ==
  ASSUME NEW H \in Nat, NEW W \in Nat, NEW M \in SUBSET Grid(H, W), NEW ring, Ring(M, ring)
  PROVE  /\ Len(ring) - 1 \in Nat /\ Len(ring) - 1 >= 1 /\ Len(ring) \in Nat
         /\ ring[Len(ring)] = ring[1] /\ (Len(ring) - 1) + 1 = Len(ring)
<1>1. ring \in Seq(Int \X Int) /\ Len(ring) >= 2 /\ ring[Len(ring)] = ring[1]
  BY DEF Ring, Loop, Longer, Trail
<1> QED  BY <1>1

LEMMA CountsTyped ==
  ASSUME NEW H \in Nat, NEW W \in Nat, NEW M \in SUBSET Grid(H, W), NEW ring, Ring(M, ring),
         NEW r \in Int, NEW c \in Int
  PROVE  /\ Ups(ring, r, c) \in [Nat -> Int] /\ Rights(ring, r, c) \in [Nat -> Int]
         /\ Turns(ring, r, c) \in [Nat -> Int] /\ Sweeps(ring, r, c) \in [Nat -> Int]
         /\ \A i \in Nat : Turns(ring, r, c)[i] \in {-1, 0, 1}
<1>1. ASSUME NEW i \in Legs(ring), NEW a, NEW b, a = ring[i], b = ring[i + 1]
      PROVE  /\ Up(a, b, r, c) \in Int /\ Right(a, b, r, c) \in Int
             /\ Turn(a, b, r, c) \in {-1, 0, 1} /\ Sweep(a, b, r, c) \in Int
  <2>1. Leg(H, W, a, b)
    BY <1>1, RingLegs
  <2>2. Counted(a, b, r, c)
    BY <2>1, LegCounted
  <2> QED  BY <2>2 DEF Counted
<1>2. \A i \in Legs(ring) :
        /\ Up(ring[i], ring[i + 1], r, c) \in Int
        /\ Right(ring[i], ring[i + 1], r, c) \in Int
        /\ Turn(ring[i], ring[i + 1], r, c) \in {-1, 0, 1}
        /\ Sweep(ring[i], ring[i + 1], r, c) \in Int
  BY <1>1
<1>3. Ups(ring, r, c) \in [Nat -> Int]
  BY <1>2 DEF Ups
<1>4. Rights(ring, r, c) \in [Nat -> Int]
  BY <1>2 DEF Rights
<1>5. Turns(ring, r, c) \in [Nat -> Int]
  BY <1>2 DEF Turns
<1>6. Sweeps(ring, r, c) \in [Nat -> Int]
  BY <1>2 DEF Sweeps
<1>7. \A i \in Nat : Turns(ring, r, c)[i] \in {-1, 0, 1}
  BY <1>2 DEF Turns
<1> QED  BY <1>3, <1>4, <1>5, <1>6, <1>7

(* Each sum over a row follows from the one up to the cell before. *)
LEMMA RowSums ==
  ASSUME NEW H \in Nat, NEW W \in Nat, NEW M \in SUBSET Grid(H, W), NEW ring, Ring(M, ring),
         NEW r \in Int, NEW c \in Int
  PROVE  /\ UpSum(ring, r, c) \in Int /\ RightSum(ring, r, c) \in Int
         /\ Winding(ring, r, c) \in Int /\ SweepSum(ring, r, c) \in Int
         /\ Winding(ring, r, c) = Winding(ring, r, c - 1) + UpSum(ring, r, c)
         /\ SweepSum(ring, r, c) = SweepSum(ring, r, c - 1) + (-(4 * c)) * UpSum(ring, r, c)
<1> DEFINE n == Len(ring) - 1
<1>1. n \in Nat /\ c - 1 \in Int
  BY RingLength
<1>2. ASSUME NEW i \in 1..n
      PROVE  /\ Turns(ring, r, c)[i] = Ups(ring, r, c)[i] + Turns(ring, r, c - 1)[i]
             /\ Sweeps(ring, r, c)[i] =
                  (-(4 * c)) * Ups(ring, r, c)[i] + Sweeps(ring, r, c - 1)[i]
  <2>1. i \in Legs(ring) /\ i \in Nat
    BY <1>2 DEF Legs
  <2> DEFINE a == ring[i]  b == ring[i + 1]
  <2>2. Leg(H, W, a, b)
    BY <2>1, RingLegs
  <2>3. /\ Ups(ring, r, c)[i] = Up(a, b, r, c)
        /\ Turns(ring, r, c)[i] = Turn(a, b, r, c)
        /\ Turns(ring, r, c - 1)[i] = Turn(a, b, r, c - 1)
        /\ Sweeps(ring, r, c)[i] = Sweep(a, b, r, c)
        /\ Sweeps(ring, r, c - 1)[i] = Sweep(a, b, r, c - 1)
    BY <2>1 DEF Ups, Turns, Sweeps
  <2> HIDE DEF a, b
  <2>4. Counted(a, b, r, c)
    BY <2>2, LegCounted
  <2>6. /\ Up(a, b, r, c) \in Int
        /\ Turn(a, b, r, c) = Turn(a, b, r, c - 1) + Up(a, b, r, c)
        /\ Sweep(a, b, r, c) = Sweep(a, b, r, c - 1) + (-(4 * c)) * Up(a, b, r, c)
    BY <2>4 DEF Counted
  <2>7. Turn(a, b, r, c - 1) \in Int /\ Sweep(a, b, r, c - 1) \in Int
    <3> PICK d \in Int : d = c - 1
      OBVIOUS
    <3>1. Counted(a, b, r, d)
      BY <2>2, LegCounted
    <3>2. Turn(a, b, r, d) \in Int /\ Sweep(a, b, r, d) \in Int
      BY <3>1 DEF Counted
    <3> QED  BY <3>2
  <2>8. (-(4 * c)) * Up(a, b, r, c) \in Int
    <3>1. \A p, q \in Int : p * q \in Int
      OBVIOUS
    <3> QED  BY <2>6, <3>1
  <2> QED  BY <2>3, <2>6, <2>7, <2>8
<1>3. /\ Ups(ring, r, c) \in [Nat -> Int] /\ Rights(ring, r, c) \in [Nat -> Int]
      /\ Turns(ring, r, c) \in [Nat -> Int] /\ Sweeps(ring, r, c) \in [Nat -> Int]
  BY CountsTyped
<1>4. Turns(ring, r, c - 1) \in [Nat -> Int] /\ Sweeps(ring, r, c - 1) \in [Nat -> Int]
  BY <1>1, CountsTyped
<1> HIDE DEF n
<1>5. /\ Total(Ups(ring, r, c), n) \in Int /\ Total(Rights(ring, r, c), n) \in Int
      /\ Total(Turns(ring, r, c), n) \in Int /\ Total(Sweeps(ring, r, c), n) \in Int
      /\ Total(Turns(ring, r, c - 1), n) \in Int
  BY <1>1, <1>3, <1>4, TotalIs
<1>6. Total(Turns(ring, r, c), n) = Total(Ups(ring, r, c), n) + Total(Turns(ring, r, c - 1), n)
  <2>1. Adds(Turns(ring, r, c), Ups(ring, r, c), Turns(ring, r, c - 1), n)
    BY <1>2 DEF Adds
  <2> QED  BY <1>1, <1>3, <1>4, <2>1, TotalSum
<1>7. Total(Sweeps(ring, r, c), n) =
        (-(4 * c)) * Total(Ups(ring, r, c), n) + Total(Sweeps(ring, r, c - 1), n)
  <2>1. PICK k \in Int : k = -(4 * c)
    OBVIOUS
  <2>2. Scales(Sweeps(ring, r, c), k, Ups(ring, r, c), Sweeps(ring, r, c - 1), n)
    BY <1>2, <2>1 DEF Scales
  <2>3. Total(Sweeps(ring, r, c), n) =
          k * Total(Ups(ring, r, c), n) + Total(Sweeps(ring, r, c - 1), n)
    BY <1>1, <1>3, <1>4, <2>2, TotalLinear
  <2> QED  BY <2>1, <2>3
<1>8. Total(Sweeps(ring, r, c - 1), n) \in Int /\ (-(4 * c)) * Total(Ups(ring, r, c), n) \in Int
  <2>1. \A p, q \in Int : p * q \in Int
    OBVIOUS
  <2> QED  BY <1>1, <1>4, <1>5, <2>1, TotalIs
<1> QED  BY <1>5, <1>6, <1>7, <1>8 DEF UpSum, RightSum, Winding, SweepSum, n

(* A ring comes to a corner as often as it leaves it. *)
LEMMA CornerSums ==
  ASSUME NEW H \in Nat, NEW W \in Nat, NEW M \in SUBSET Grid(H, W), NEW ring, Ring(M, ring),
         NEW r \in Int, NEW c \in Int
  PROVE  UpSum(ring, r, c) - UpSum(ring, r - 1, c)
           = RightSum(ring, r, c) - RightSum(ring, r, c - 1)
<1> DEFINE n == Len(ring) - 1
           f == Ups(ring, r, c)
           g == Ups(ring, r - 1, c)
           h == Rights(ring, r, c)
           k == Rights(ring, r, c - 1)
           At(i) == IF i \in 1..Len(ring) /\ ring[i] = Corner(r, c) THEN 1 ELSE 0
           p == [i \in Nat |-> At(i)]
           d == [i \in Nat |-> f[i] - g[i]]
           t == [i \in Nat |-> h[i] - k[i]]
           s == [i \in Nat |-> d[i] - t[i]]
<1>1. n \in Nat /\ n + 1 = Len(ring) /\ r - 1 \in Int /\ c - 1 \in Int /\ ring[n + 1] = ring[1]
  BY RingLength
<1>2. /\ f \in [Nat -> Int] /\ g \in [Nat -> Int] /\ h \in [Nat -> Int] /\ k \in [Nat -> Int]
  BY <1>1, CountsTyped
<1>3. ASSUME NEW i \in 1..n
      PROVE  At(i + 1) - At(i) = f[i] - g[i] + k[i] - h[i]
  <2>1. i \in Legs(ring) /\ i \in Nat /\ i \in 1..Len(ring) /\ i + 1 \in 1..Len(ring)
    BY <1>1, <1>3 DEF Legs
  <2>2. /\ At(i) = IF ring[i] = Corner(r, c) THEN 1 ELSE 0
        /\ At(i + 1) = IF ring[i + 1] = Corner(r, c) THEN 1 ELSE 0
    BY <2>1
  <2> DEFINE a == ring[i]  b == ring[i + 1]
  <2>3. Leg(H, W, a, b)
    BY <2>1, RingLegs
  <2>4. /\ f[i] = Up(a, b, r, c) /\ g[i] = Up(a, b, r - 1, c)
        /\ h[i] = Right(a, b, r, c) /\ k[i] = Right(a, b, r, c - 1)
    BY <2>1 DEF Ups, Rights
  <2> HIDE DEF a, b, f, g, h, k
  <2>5. Counted(a, b, r, c)
    BY <2>3, LegCounted
  <2>7. (IF b = Corner(r, c) THEN 1 ELSE 0) - (IF a = Corner(r, c) THEN 1 ELSE 0)
          = Up(a, b, r, c) - Up(a, b, r - 1, c) + Right(a, b, r, c - 1) - Right(a, b, r, c)
    BY <2>5 DEF Counted
  <2> QED  BY <2>2, <2>4, <2>7 DEF a, b
<1> HIDE DEF f, g, h, k
<1>4. d \in [Nat -> Int] /\ t \in [Nat -> Int]
  BY <1>2
<1>5. \A i \in Nat : d[i] = f[i] - g[i] /\ t[i] = h[i] - k[i]
  OBVIOUS
<1> HIDE DEF d, t
<1>6. s \in [Nat -> Int] /\ \A i \in Nat : s[i] = d[i] - t[i]
  BY <1>4
<1>7. /\ p \in [Nat -> Int] /\ \A i \in Nat : p[i] = At(i)
      /\ p[n + 1] = p[1]
  <2>1. p \in [Nat -> Int] /\ \A i \in Nat : p[i] = At(i)
    OBVIOUS
  <2>2. 1 \in 1..Len(ring) /\ n + 1 \in 1..Len(ring) /\ n + 1 \in Nat
    BY <1>1
  <2> HIDE DEF p
  <2> QED  BY <1>1, <2>1, <2>2
<1> HIDE DEF s, p, At
<1>8. \A i \in 1..n : s[i] = p[i + 1] - p[i]
  <2> TAKE i \in 1..n
  <2>1. i \in Nat /\ i + 1 \in Nat
    BY <1>1
  <2>2. s[i] = (f[i] - g[i]) - (h[i] - k[i])
    BY <1>5, <1>6, <2>1
  <2>3. f[i] \in Int /\ g[i] \in Int /\ h[i] \in Int /\ k[i] \in Int
    BY <1>2, <2>1
  <2>4. At(i) \in Int /\ At(i + 1) \in Int
    BY DEF At
  <2>5. p[i] = At(i) /\ p[i + 1] = At(i + 1)
    BY <1>7, <2>1
  <2> QED  BY <1>3, <2>2, <2>3, <2>4, <2>5
<1> HIDE DEF n
<1>9. Total(s, n) = 0
  <2>1. Total(s, n) = p[n + 1] - p[1]
    BY <1>1, <1>6, <1>7, <1>8, TotalTelescopes
  <2>2. p[n + 1] \in Int /\ p[1] \in Int
    BY <1>1, <1>7
  <2> QED  BY <1>7, <2>1, <2>2
<1>10. Total(s, n) = Total(d, n) - Total(t, n)
  <2>1. Takes(s, d, t, n)
    BY <1>1, <1>6 DEF Takes
  <2> QED  BY <1>1, <1>4, <1>6, <2>1, TotalDifference
<1>11. Total(d, n) = Total(f, n) - Total(g, n)
  <2>1. Takes(d, f, g, n)
    BY <1>1, <1>5 DEF Takes
  <2>2. d \in [Nat -> Int] /\ f \in [Nat -> Int] /\ g \in [Nat -> Int] /\ n \in Nat
    BY <1>1, <1>2, <1>4
  <2> QED  BY <2>1, <2>2, TotalDifference
<1>12. Total(t, n) = Total(h, n) - Total(k, n)
  <2>1. Takes(t, h, k, n)
    BY <1>1, <1>5 DEF Takes
  <2>2. t \in [Nat -> Int] /\ h \in [Nat -> Int] /\ k \in [Nat -> Int] /\ n \in Nat
    BY <1>1, <1>2, <1>4
  <2> QED  BY <2>1, <2>2, TotalDifference
<1>13. /\ Total(f, n) \in Int /\ Total(g, n) \in Int
       /\ Total(h, n) \in Int /\ Total(k, n) \in Int
  BY <1>1, <1>2, TotalIs
<1> QED  BY <1>9, <1>10, <1>11, <1>12, <1>13 DEF UpSum, RightSum, f, g, h, k, n

(* The edges on a ring. *)
Its(M, ring) == {e \in Edges(M) : OnRing(ring, e)}

(* f counts the legs along d, and those along b the other way. *)
Tallies(M, ring, f, d, b) ==
  /\ \A i \in Legs(ring) :
       f[i] = IF ring[i] = d.from /\ ring[i + 1] = d.to THEN 1
              ELSE IF ring[i] = b.from /\ ring[i + 1] = b.to THEN -1 ELSE 0
  /\ ~ (d \in Edges(M) /\ b \in Edges(M))
  /\ \A e \in Edges(M) : /\ e.from = d.from /\ e.to = d.to => e = d
                         /\ e.from = b.from /\ e.to = b.to => e = b

(* A sum over a ring counts the edges that lie on it. *)
LEMMA Tally ==
  ASSUME NEW H \in Nat, NEW W \in Nat, NEW M \in SUBSET Grid(H, W), NEW ring, Ring(M, ring),
         NEW f \in [Nat -> Int], NEW d, NEW b, Tallies(M, ring, f, d, b)
  PROVE  Total(f, Len(ring) - 1) = One(Its(M, ring), d) - One(Its(M, ring), b)
<1> DEFINE n == Len(ring) - 1
<1>1. /\ n \in Nat /\ Legs(ring) = 1..n
      /\ \A i, j \in 1..n : ring[i] = ring[j] /\ ring[i + 1] = ring[j + 1] => i = j
  <2>1. Trail(Edges(M), ring)
    BY DEF Ring, Loop, Longer
  <2>2. n \in Nat
    BY RingLength
  <2> QED  BY <2>1, <2>2 DEF Legs, Trail
<1>2. \A i \in 1..n : /\ \E e \in Its(M, ring) : e.from = ring[i] /\ e.to = ring[i + 1]
  <2> TAKE i \in 1..n
  <2>1. i \in Legs(ring)
    BY <1>1
  <2>2. \E e \in Edges(M) : e.from = ring[i] /\ e.to = ring[i + 1] /\ OnRing(ring, e)
    BY <2>1, RingLegs
  <2> QED  BY <2>2 DEF Its
<1>3. \A i \in 1..n :
        f[i] = IF ring[i] = d.from /\ ring[i + 1] = d.to THEN 1
               ELSE IF ring[i] = b.from /\ ring[i + 1] = b.to THEN -1 ELSE 0
  BY <1>1 DEF Tallies
<1>4. /\ ~ (d \in Edges(M) /\ b \in Edges(M))
      /\ \A e \in Edges(M) : /\ e.from = d.from /\ e.to = d.to => e = d
                             /\ e.from = b.from /\ e.to = b.to => e = b
  BY DEF Tallies
<1>5. \A i \in 1..n : /\ ring[i] = d.from /\ ring[i + 1] = d.to => d \in Its(M, ring)
                      /\ ring[i] = b.from /\ ring[i + 1] = b.to => b \in Its(M, ring)
  BY <1>2, <1>4 DEF Its
<1>6. \A e \in Its(M, ring) : /\ e \in Edges(M)
                              /\ \E i \in 1..n : e.from = ring[i] /\ e.to = ring[i + 1]
  BY DEF Its, OnRing
<1> HIDE DEF n
<1>7. CASE d \in Its(M, ring)
  <2>1. PICK i \in 1..n : d.from = ring[i] /\ d.to = ring[i + 1]
    BY <1>6, <1>7
  <2>2. b \notin Its(M, ring)
    BY <1>4, <1>6, <1>7
  <2>3. f[i] = 1 /\ \A j \in 1..n : j # i => f[j] = 0
    BY <1>1, <1>3, <1>5, <2>1, <2>2
  <2>4. Total(f, n) = 1
    BY <1>1, <2>3, TotalOnce
  <2> QED  BY <1>7, <2>2, <2>4 DEF One, n
<1>8. CASE b \in Its(M, ring)
  <2>1. PICK i \in 1..n : b.from = ring[i] /\ b.to = ring[i + 1]
    BY <1>6, <1>8
  <2>2. d \notin Its(M, ring)
    BY <1>4, <1>6, <1>8
  <2>3. f[i] = -1 /\ \A j \in 1..n : j # i => f[j] = 0
    BY <1>1, <1>3, <1>5, <2>1, <2>2
  <2>4. Total(f, n) = -1
    BY <1>1, <2>3, TotalOnce
  <2> QED  BY <1>8, <2>2, <2>4 DEF One, n
<1>9. CASE d \notin Its(M, ring) /\ b \notin Its(M, ring)
  <2>1. \A i \in 1..n : f[i] = 0
    BY <1>3, <1>5, <1>9
  <2>2. Total(f, n) = 0
    BY <1>1, <2>1, TotalZero
  <2> QED  BY <1>9, <2>2 DEF One, n
<1> QED  BY <1>7, <1>8, <1>9

(* Of a side of a cell and the same side of its neighbour, only one is an  *)
(* edge, and no other edge has their ends.                                 *)
LEMMA SidesOppose ==
  ASSUME NEW M \in SUBSET (Int \X Int), NEW r \in Int, NEW c \in Int
  PROVE  /\ ~ (West(r, c) \in Edges(M) /\ East(r, c - 1) \in Edges(M))
         /\ ~ (North(r, c) \in Edges(M) /\ South(r - 1, c) \in Edges(M))
         /\ West(r, c).from = Corner(r + 1, c) /\ West(r, c).to = Corner(r, c)
         /\ East(r, c - 1).from = Corner(r, c) /\ East(r, c - 1).to = Corner(r + 1, c)
         /\ North(r, c).from = Corner(r, c) /\ North(r, c).to = Corner(r, c + 1)
         /\ South(r - 1, c).from = Corner(r, c + 1) /\ South(r - 1, c).to = Corner(r, c)
<1>1. PICK y \in Int, x \in Int : y = r - 1 /\ x = c - 1 /\ y + 1 = r /\ x + 1 = c
  OBVIOUS
<1>2. /\ West(r, c) \in Edges(M) <=> <<r, c>> \in M /\ <<r, c - 1>> \notin M
      /\ North(r, c) \in Edges(M) <=> <<r, c>> \in M /\ <<r - 1, c>> \notin M
  BY EdgeOf
<1>3. East(r, x) \in Edges(M) <=> <<r, x>> \in M /\ <<r, x + 1>> \notin M
  BY EdgeOf
<1>4. South(y, c) \in Edges(M) <=> <<y, c>> \in M /\ <<y + 1, c>> \notin M
  BY EdgeOf
<1>5. /\ West(r, c).from = Corner(r + 1, c) /\ West(r, c).to = Corner(r, c)
      /\ North(r, c).from = Corner(r, c) /\ North(r, c).to = Corner(r, c + 1)
  BY Ends
<1>6. East(r, x).from = Corner(r, x + 1) /\ East(r, x).to = Corner(r + 1, x + 1)
  BY Ends
<1>7. South(y, c).from = Corner(y + 1, c + 1) /\ South(y, c).to = Corner(y + 1, c)
  BY Ends
<1> QED  BY <1>1, <1>2, <1>3, <1>4, <1>5, <1>6, <1>7

(* What a ring counts at two sides of a cell. *)
LEMMA SidesCounted ==
  ASSUME NEW H \in Nat, NEW W \in Nat, NEW M \in SUBSET Grid(H, W), NEW ring, Ring(M, ring),
         NEW r \in Int, NEW c \in Int
  PROVE  /\ UpSum(ring, r, c) = One(Its(M, ring), West(r, c)) - One(Its(M, ring), East(r, c - 1))
         /\ RightSum(ring, r, c) =
              One(Its(M, ring), North(r, c)) - One(Its(M, ring), South(r - 1, c))
<1>1. /\ Ups(ring, r, c) \in [Nat -> Int] /\ Rights(ring, r, c) \in [Nat -> Int]
  BY CountsTyped
<1>2. M \in SUBSET (Int \X Int)
  BY OnRaster
<1>3. \A i \in Legs(ring) : i \in Nat
  BY RingLegs
<1>4. Tallies(M, ring, Ups(ring, r, c), West(r, c), East(r, c - 1))
  <2>1. \A i \in Legs(ring) : Ups(ring, r, c)[i] = Up(ring[i], ring[i + 1], r, c)
    BY <1>3 DEF Ups
  <2>2. \A i \in Legs(ring) :
          Ups(ring, r, c)[i] =
            IF ring[i] = Corner(r + 1, c) /\ ring[i + 1] = Corner(r, c) THEN 1
            ELSE IF ring[i] = Corner(r, c) /\ ring[i + 1] = Corner(r + 1, c) THEN -1 ELSE 0
    BY <2>1 DEF Up
  <2>3. \A e \in Edges(M) :
          /\ e.from = Corner(r + 1, c) /\ e.to = Corner(r, c) => e = West(r, c)
          /\ e.from = Corner(r, c) /\ e.to = Corner(r + 1, c) => e = East(r, c - 1)
    BY <1>2, EdgeBetween
  <2>4. /\ ~ (West(r, c) \in Edges(M) /\ East(r, c - 1) \in Edges(M))
        /\ West(r, c).from = Corner(r + 1, c) /\ West(r, c).to = Corner(r, c)
        /\ East(r, c - 1).from = Corner(r, c) /\ East(r, c - 1).to = Corner(r + 1, c)
    BY <1>2, SidesOppose
  <2> QED  BY <2>2, <2>3, <2>4 DEF Tallies
<1>5. Tallies(M, ring, Rights(ring, r, c), North(r, c), South(r - 1, c))
  <2>1. \A i \in Legs(ring) : Rights(ring, r, c)[i] = Right(ring[i], ring[i + 1], r, c)
    BY <1>3 DEF Rights
  <2>2. \A i \in Legs(ring) :
          Rights(ring, r, c)[i] =
            IF ring[i] = Corner(r, c) /\ ring[i + 1] = Corner(r, c + 1) THEN 1
            ELSE IF ring[i] = Corner(r, c + 1) /\ ring[i + 1] = Corner(r, c) THEN -1 ELSE 0
    BY <2>1 DEF Right
  <2>3. \A e \in Edges(M) :
          /\ e.from = Corner(r, c) /\ e.to = Corner(r, c + 1) => e = North(r, c)
          /\ e.from = Corner(r, c + 1) /\ e.to = Corner(r, c) => e = South(r - 1, c)
    BY <1>2, EdgeBetween
  <2>4. /\ ~ (North(r, c) \in Edges(M) /\ South(r - 1, c) \in Edges(M))
        /\ North(r, c).from = Corner(r, c) /\ North(r, c).to = Corner(r, c + 1)
        /\ South(r - 1, c).from = Corner(r, c + 1) /\ South(r - 1, c).to = Corner(r, c)
    BY <1>2, SidesOppose
  <2> QED  BY <2>2, <2>3, <2>4 DEF Tallies
<1>6. Total(Ups(ring, r, c), Len(ring) - 1)
        = One(Its(M, ring), West(r, c)) - One(Its(M, ring), East(r, c - 1))
  BY <1>1, <1>4, Tally
<1>7. Total(Rights(ring, r, c), Len(ring) - 1)
        = One(Its(M, ring), North(r, c)) - One(Its(M, ring), South(r - 1, c))
  <2> DEFINE f == Rights(ring, r, c)  d == North(r, c)  b == South(r - 1, c)
  <2>1. Tallies(M, ring, f, d, b) /\ f \in [Nat -> Int]
    BY <1>1, <1>5
  <2> HIDE DEF f, d, b
  <2>2. Total(f, Len(ring) - 1) = One(Its(M, ring), d) - One(Its(M, ring), b)
    BY <2>1, Tally
  <2> QED  BY <2>2 DEF f, d, b
<1> QED  BY <1>6, <1>7 DEF UpSum, RightSum

(* Beyond the raster nothing is counted, and what is swept above a row is  *)
(* what is swept up to the end of the row before.                          *)
LEMMA LegOutside ==
  ASSUME NEW H \in Nat, NEW W \in Nat, NEW a, NEW b, Leg(H, W, a, b),
         NEW r \in Int, NEW c \in Int
  PROVE  /\ c < 0 => Turn(a, b, r, c) = 0 /\ Right(a, b, r, c) = 0
         /\ c >= W => Right(a, b, r, c) = 0
         /\ r < 0 => Turn(a, b, r, c) = 0 /\ Sweep(a, b, r, c) = 0
         /\ Sweep(a, b, r, -1) = Sweep(a, b, r - 1, W)
<1>1. PICK y \in 0..H, v \in 0..H, x \in 0..W, u \in 0..W :
        a = Corner(y, x) /\ b = Corner(v, u) /\ Unit(y, x, v, u)
  BY DEF Leg
<1>2. /\ a[1] = 4 * y /\ a[2] = 4 * x /\ b[1] = 4 * v /\ b[2] = 4 * u
  BY <1>1 DEF Corner
<1>3. /\ y \in Int /\ v \in Int /\ x \in Int /\ u \in Int
      /\ y >= 0 /\ v >= 0 /\ x >= 0 /\ u >= 0 /\ x <= W /\ u <= W
  OBVIOUS
<1>4. Right(a, b, r, c) = IF y = r /\ x = c /\ v = r /\ u = c + 1 THEN 1
                          ELSE IF y = r /\ x = c + 1 /\ v = r /\ u = c THEN -1 ELSE 0
  <2>1. \A p, q, s, t \in Int : Corner(p, q) = Corner(s, t) <=> p = s /\ q = t
    BY DEF Corner
  <2>2. c + 1 \in Int
    OBVIOUS
  <2>3. /\ Corner(y, x) = Corner(r, c) <=> y = r /\ x = c
        /\ Corner(v, u) = Corner(r, c + 1) <=> v = r /\ u = c + 1
        /\ Corner(y, x) = Corner(r, c + 1) <=> y = r /\ x = c + 1
        /\ Corner(v, u) = Corner(r, c) <=> v = r /\ u = c
    BY <1>3, <2>1, <2>2
  <2> QED  BY <1>1, <2>3 DEF Right
<1>5. Turn(a, b, r, c) = IF x # u \/ x > c THEN 0
                         ELSE IF y = r + 1 /\ v = r THEN 1
                         ELSE IF y = r /\ v = r + 1 THEN -1 ELSE 0
  BY <1>2, <1>3 DEF Turn
<1>6. r < 0 => Sweep(a, b, r, c) = 0
  BY <1>2, <1>3 DEF Sweep, Swept
<1>7. Sweep(a, b, r, -1) = Sweep(a, b, r - 1, W)
  <2>1. CASE x = u
    <3>1. Swept(a, b, r, -1) <=> Swept(a, b, r - 1, W)
      <4>1. v = y + 1 \/ v = y - 1
        BY <1>1, <2>1 DEF Unit
      <4>2. Swept(a, b, r, -1) <=> y < r \/ v < r
        BY <1>2, <1>3 DEF Swept
      <4>3. Swept(a, b, r - 1, W) <=> y < r - 1 \/ v < r - 1 \/ y + v = 2 * r - 1
        BY <1>2, <1>3 DEF Swept
      <4> QED  BY <1>3, <4>1, <4>2, <4>3
    <3> QED  BY <3>1 DEF Sweep
  <2>2. CASE x # u
    <3>1. a[2] # b[2]
      BY <1>2, <1>3, <2>2
    <3> QED  BY <3>1 DEF Sweep
  <2> QED  BY <2>1, <2>2
<1> QED  BY <1>3, <1>4, <1>5, <1>6, <1>7

(* No ring winds around a cell above or left of the raster. *)
LEMMA SumsOutside ==
  ASSUME NEW H \in Nat, NEW W \in Nat, NEW M \in SUBSET Grid(H, W), NEW ring, Ring(M, ring),
         NEW r \in Int, NEW c \in Int
  PROVE  /\ c < 0 => Winding(ring, r, c) = 0 /\ RightSum(ring, r, c) = 0
         /\ c >= W => RightSum(ring, r, c) = 0
         /\ r < 0 => Winding(ring, r, c) = 0 /\ SweepSum(ring, r, c) = 0
<1> DEFINE n == Len(ring) - 1
<1>1. n \in Nat
  BY RingLength
<1>2. /\ Rights(ring, r, c) \in [Nat -> Int] /\ Turns(ring, r, c) \in [Nat -> Int]
      /\ Sweeps(ring, r, c) \in [Nat -> Int]
  BY CountsTyped
<1>3. ASSUME NEW i \in 1..n
      PROVE  /\ c < 0 => Turns(ring, r, c)[i] = 0 /\ Rights(ring, r, c)[i] = 0
             /\ c >= W => Rights(ring, r, c)[i] = 0
             /\ r < 0 => Turns(ring, r, c)[i] = 0 /\ Sweeps(ring, r, c)[i] = 0
  <2>1. i \in Legs(ring) /\ i \in Nat
    BY <1>3 DEF Legs
  <2> DEFINE a == ring[i]  b == ring[i + 1]
  <2>2. Leg(H, W, a, b)
    BY <2>1, RingLegs
  <2>3. /\ Turns(ring, r, c)[i] = Turn(a, b, r, c)
        /\ Rights(ring, r, c)[i] = Right(a, b, r, c)
        /\ Sweeps(ring, r, c)[i] = Sweep(a, b, r, c)
    BY <2>1 DEF Turns, Rights, Sweeps
  <2> HIDE DEF a, b
  <2> QED  BY <2>2, <2>3, LegOutside
<1> HIDE DEF n
<1>4. /\ (\A i \in 1..n : Turns(ring, r, c)[i] = 0) => Total(Turns(ring, r, c), n) = 0
      /\ (\A i \in 1..n : Rights(ring, r, c)[i] = 0) => Total(Rights(ring, r, c), n) = 0
      /\ (\A i \in 1..n : Sweeps(ring, r, c)[i] = 0) => Total(Sweeps(ring, r, c), n) = 0
  BY <1>1, <1>2, TotalZero
<1> QED  BY <1>3, <1>4 DEF Winding, RightSum, SweepSum, n

LEMMA SweepOn ==
  ASSUME NEW H \in Nat, NEW W \in Nat, NEW M \in SUBSET Grid(H, W), NEW ring, Ring(M, ring),
         NEW r \in Int
  PROVE  SweepSum(ring, r, -1) = SweepSum(ring, r - 1, W)
<1> DEFINE n == Len(ring) - 1  f == Sweeps(ring, r, -1)  g == Sweeps(ring, r - 1, W)
           z == [i \in Nat |-> 0]
<1>1. n \in Nat /\ -1 \in Int /\ W \in Int
  <2>1. n \in Nat
    BY RingLength
  <2> QED  BY <2>1
<1>2. f \in [Nat -> Int]
  BY <1>1, CountsTyped
<1>3. g \in [Nat -> Int]
  <2>1. PICK q \in Int : q = r - 1
    OBVIOUS
  <2> QED  BY <1>1, <2>1, CountsTyped
<1>4. ASSUME NEW i \in 1..n PROVE f[i] = g[i]
  <2>1. i \in Legs(ring) /\ i \in Nat
    BY <1>4 DEF Legs
  <2> DEFINE a == ring[i]  b == ring[i + 1]
  <2>2. Leg(H, W, a, b)
    BY <2>1, RingLegs
  <2>3. f[i] = Sweep(a, b, r, -1) /\ g[i] = Sweep(a, b, r - 1, W)
    BY <2>1 DEF Sweeps
  <2> HIDE DEF a, b, f, g
  <2>4. Sweep(a, b, r, -1) = Sweep(a, b, r - 1, W)
    BY <1>1, <2>2, LegOutside
  <2> QED  BY <2>3, <2>4
<1>5. z \in [Nat -> Int] /\ \A i \in Nat : z[i] = 0
  OBVIOUS
<1> HIDE DEF f, g, n, z
<1>6. Adds(f, g, z, n)
  <2> SUFFICES ASSUME NEW i \in 1..n PROVE f[i] = g[i] + z[i]
    BY DEF Adds
  <2>1. i \in Nat
    BY <1>1
  <2> QED  BY <1>3, <1>4, <1>5, <2>1
<1>7. Total(z, n) = 0
  <2>1. \A i \in 1..n : z[i] = 0
    BY <1>1, <1>5
  <2> QED  BY <1>1, <1>5, <2>1, TotalZero
<1>8. Total(f, n) = Total(g, n) + Total(z, n)
  BY <1>1, <1>2, <1>3, <1>5, <1>6, TotalSum
<1>9. Total(g, n) \in Int
  BY <1>1, <1>3, TotalIs
<1> QED  BY <1>7, <1>8, <1>9 DEF SweepSum, f, g, n

(* From a cell to the next, the winding changes where the ring runs        *)
(* between them.                                                           *)
LEMMA ColumnStep ==
  ASSUME NEW H \in Nat, NEW W \in Nat, NEW M \in SUBSET Grid(H, W), NEW ring, Ring(M, ring),
         NEW r \in Int, NEW c \in Int
  PROVE  Winding(ring, r, c) - Winding(ring, r - 1, c) = RightSum(ring, r, c)
<1> PICK q \in Int : q = r - 1
  OBVIOUS
<1> DEFINE Fits(x) == Winding(ring, r, x) - Winding(ring, q, x) = RightSum(ring, r, x)
           Good == {n \in Nat : Fits(n - 1)}
<1>1. ASSUME NEW x \in Int, x < 0 PROVE Fits(x)
  <2>1. Winding(ring, r, x) = 0 /\ RightSum(ring, r, x) = 0
    BY <1>1, SumsOutside
  <2>2. Winding(ring, q, x) = 0
    BY <1>1, SumsOutside
  <2> QED  BY <2>1, <2>2
<1>2. ASSUME NEW x \in Int, Fits(x - 1) PROVE Fits(x)
  <2>1. /\ UpSum(ring, r, x) \in Int /\ Winding(ring, r, x) \in Int
        /\ RightSum(ring, r, x) \in Int
        /\ Winding(ring, r, x) = Winding(ring, r, x - 1) + UpSum(ring, r, x)
    BY RowSums
  <2>2. /\ UpSum(ring, q, x) \in Int /\ Winding(ring, q, x) \in Int
        /\ Winding(ring, q, x) = Winding(ring, q, x - 1) + UpSum(ring, q, x)
    BY RowSums
  <2>3. /\ Winding(ring, r, x - 1) \in Int /\ Winding(ring, q, x - 1) \in Int
        /\ RightSum(ring, r, x - 1) \in Int
    <3>1. PICK p \in Int : p = x - 1
      OBVIOUS
    <3>2. Winding(ring, r, p) \in Int /\ RightSum(ring, r, p) \in Int
      BY RowSums
    <3>3. Winding(ring, q, p) \in Int
      BY RowSums
    <3> QED  BY <3>1, <3>2, <3>3
  <2>4. UpSum(ring, r, x) - UpSum(ring, q, x)
          = RightSum(ring, r, x) - RightSum(ring, r, x - 1)
    BY CornerSums
  <2> QED  BY <1>2, <2>1, <2>2, <2>3, <2>4
<1> HIDE DEF Fits
<1>3. 0 \in Good
  <2>1. Fits(-1)
    BY <1>1
  <2>2. 0 - 1 = -1
    OBVIOUS
  <2> QED  BY <2>1, <2>2
<1>4. ASSUME NEW n \in Nat, n \in Good PROVE n + 1 \in Good
  <2>1. n \in Int /\ (n + 1) - 1 = n /\ n + 1 \in Nat
    OBVIOUS
  <2>2. Fits(n)
    BY <1>2, <1>4, <2>1
  <2> QED  BY <2>1, <2>2
<1> HIDE DEF Good
<1>5. \A n \in Nat : n \in Good
  BY <1>3, <1>4, Climb
<1>6. CASE c < 0
  BY <1>1, <1>6 DEF Fits
<1>7. CASE c >= 0
  <2>1. c + 1 \in Nat /\ (c + 1) - 1 = c
    BY <1>7
  <2>2. Fits(c)
    BY <1>5, <2>1 DEF Good
  <2> QED  BY <2>2 DEF Fits
<1> QED  BY <1>6, <1>7

(* From a cell to the next, the winding changes by the edges between. *)
LEMMA CellSteps ==
  ASSUME NEW H \in Nat, NEW W \in Nat, NEW M \in SUBSET Grid(H, W), NEW ring, Ring(M, ring),
         NEW r \in Int, NEW c \in Int
  PROVE  /\ Winding(ring, r, c) \in Int
         /\ Winding(ring, r, c) - Winding(ring, r, c - 1) =
              One(Its(M, ring), West(r, c)) - One(Its(M, ring), East(r, c - 1))
         /\ Winding(ring, r, c) - Winding(ring, r - 1, c) =
              One(Its(M, ring), North(r, c)) - One(Its(M, ring), South(r - 1, c))
<1>1. /\ UpSum(ring, r, c) = One(Its(M, ring), West(r, c)) - One(Its(M, ring), East(r, c - 1))
      /\ RightSum(ring, r, c) =
           One(Its(M, ring), North(r, c)) - One(Its(M, ring), South(r - 1, c))
  BY SidesCounted
<1>2. Winding(ring, r, c) - Winding(ring, r - 1, c) = RightSum(ring, r, c)
  BY ColumnStep
<1>3. /\ UpSum(ring, r, c) \in Int /\ Winding(ring, r, c) \in Int
      /\ Winding(ring, r, c) = Winding(ring, r, c - 1) + UpSum(ring, r, c)
  BY RowSums
<1>4. Winding(ring, r, c - 1) \in Int
  <2>1. PICK p \in Int : p = c - 1
    OBVIOUS
  <2>2. Winding(ring, r, p) \in Int
    BY RowSums
  <2> QED  BY <2>1, <2>2
<1> QED  BY <1>1, <1>2, <1>3, <1>4

(* The winding around the cell that an edge belongs to. *)
Beside(ring, e) == Winding(ring, e.of[1], e.of[2])

LEMMA BesideIs ==
  ASSUME NEW ring, NEW r \in Int, NEW c \in Int
  PROVE  /\ Beside(ring, North(r, c)) = Winding(ring, r, c)
         /\ Beside(ring, South(r, c)) = Winding(ring, r, c)
         /\ Beside(ring, West(r, c)) = Winding(ring, r, c)
         /\ Beside(ring, East(r, c)) = Winding(ring, r, c)
BY DEF Beside, North, South, West, East

(* A ring keeps its winding as it turns at a corner. *)
LEMMA Pivot ==
  ASSUME NEW H \in Nat, NEW W \in Nat, NEW M \in SUBSET Grid(H, W), NEW ring, Ring(M, ring),
         NEW e \in Its(M, ring), NEW d \in Its(M, ring), e.to = d.from
  PROVE  Beside(ring, e) = Beside(ring, d)
<1> DEFINE L == Its(M, ring)
<1>1. M \in SUBSET (Int \X Int) /\ e \in Edges(M) /\ d \in Edges(M) /\ L \subseteq Edges(M)
  BY OnRaster DEF Its
<1>2. PICK r \in Int, c \in Int : e \in Coming(r, c)
  BY <1>1, EdgeComes
<1>3. d \in Leaving(r, c)
  <2>1. d.from = Corner(r, c)
    BY <1>2, ComesToCorner
  <2> QED  BY <1>1, <2>1, LeavingIs
<1>4. PICK y \in Int, x \in Int : y = r - 1 /\ x = c - 1 /\ y + 1 = r /\ x + 1 = c
  OBVIOUS
<1>5. /\ e \in {North(r, x), South(y, c), West(r, c), East(y, x)}
      /\ d \in {North(r, c), South(y, x), West(y, c), East(r, x)}
  BY <1>2, <1>3, <1>4 DEF Coming, Leaving
<1> DEFINE m == <<y, x>> \in M  n == <<y, c>> \in M  o == <<r, x>> \in M  p == <<r, c>> \in M
<1>6. /\ West(r, c) \in Edges(M) <=> p /\ ~ o
      /\ North(r, c) \in Edges(M) <=> p /\ ~ n
  BY <1>1, <1>4, EdgeOf
<1>7. /\ East(r, x) \in Edges(M) <=> o /\ ~ p
      /\ North(r, x) \in Edges(M) <=> o /\ ~ m
  <2>1. /\ East(r, x) \in Edges(M) <=> o /\ <<r, x + 1>> \notin M
        /\ North(r, x) \in Edges(M) <=> o /\ <<r - 1, x>> \notin M
    BY <1>1, EdgeOf
  <2> QED  BY <1>4, <2>1
<1>8. /\ West(y, c) \in Edges(M) <=> n /\ ~ m
      /\ South(y, c) \in Edges(M) <=> n /\ ~ p
  <2>1. /\ West(y, c) \in Edges(M) <=> n /\ <<y, c - 1>> \notin M
        /\ South(y, c) \in Edges(M) <=> n /\ <<y + 1, c>> \notin M
    BY <1>1, EdgeOf
  <2> QED  BY <1>4, <2>1
<1>9. /\ East(y, x) \in Edges(M) <=> m /\ ~ n
      /\ South(y, x) \in Edges(M) <=> m /\ ~ o
  <2>1. /\ East(y, x) \in Edges(M) <=> m /\ <<y, x + 1>> \notin M
        /\ South(y, x) \in Edges(M) <=> m /\ <<y + 1, x>> \notin M
    BY <1>1, EdgeOf
  <2> QED  BY <1>4, <2>1
<1>10. /\ Winding(ring, r, c) \in Int
       /\ Winding(ring, r, c) - Winding(ring, r, x) = One(L, West(r, c)) - One(L, East(r, x))
       /\ Winding(ring, r, c) - Winding(ring, y, c) = One(L, North(r, c)) - One(L, South(y, c))
  <2>1. /\ Winding(ring, r, c) \in Int
        /\ Winding(ring, r, c) - Winding(ring, r, c - 1) = One(L, West(r, c)) - One(L, East(r, c - 1))
        /\ Winding(ring, r, c) - Winding(ring, r - 1, c) = One(L, North(r, c)) - One(L, South(r - 1, c))
    BY CellSteps
  <2> QED  BY <1>4, <2>1
<1>11. /\ Winding(ring, y, c) \in Int
       /\ Winding(ring, y, c) - Winding(ring, y, x) = One(L, West(y, c)) - One(L, East(y, x))
  BY <1>4, CellSteps
<1>12. /\ Winding(ring, r, x) \in Int
       /\ Winding(ring, r, x) - Winding(ring, y, x) = One(L, North(r, x)) - One(L, South(y, x))
  BY <1>4, CellSteps
<1>13. Winding(ring, y, x) \in Int
  BY CellSteps
<1>14. /\ Beside(ring, North(r, x)) = Winding(ring, r, x)
       /\ Beside(ring, South(y, c)) = Winding(ring, y, c)
       /\ Beside(ring, West(r, c)) = Winding(ring, r, c)
       /\ Beside(ring, East(y, x)) = Winding(ring, y, x)
       /\ Beside(ring, North(r, c)) = Winding(ring, r, c)
       /\ Beside(ring, South(y, x)) = Winding(ring, y, x)
       /\ Beside(ring, West(y, c)) = Winding(ring, y, c)
       /\ Beside(ring, East(r, x)) = Winding(ring, r, x)
  BY BesideIs
<1> HIDE DEF m, n, o, p, L
<1>15. e \in L /\ d \in L
  BY DEF L
<1> USE <1>1, <1>6, <1>7, <1>8, <1>9, <1>10, <1>11, <1>12, <1>13, <1>14, <1>15 DEF One
<1>16. CASE e = North(r, x)
  BY <1>5, <1>16
<1>17. CASE e = South(y, c)
  BY <1>5, <1>17
<1>18. CASE e = West(r, c)
  BY <1>5, <1>18
<1>19. CASE e = East(y, x)
  BY <1>5, <1>19
<1> QED  BY <1>5, <1>16, <1>17, <1>18, <1>19

(* A ring winds equally often around all cells along its inner side. *)
LEMMA SameBeside ==
  ASSUME NEW H \in Nat, NEW W \in Nat, NEW M \in SUBSET Grid(H, W), NEW ring, Ring(M, ring)
  PROVE  \E k \in Int : \A e \in Its(M, ring) : Beside(ring, e) = k
<1> DEFINE n == Len(ring) - 1
           At(e, i) == e.from = ring[i] /\ e.to = ring[i + 1]
<1>1. n \in Nat /\ n >= 1 /\ M \in SUBSET (Int \X Int)
  BY RingLength, OnRaster
<1>2. \A i \in 1..n : \E e \in Its(M, ring) : At(e, i)
  <2> TAKE i \in 1..n
  <2>1. i \in Legs(ring)
    BY DEF Legs
  <2>2. \E e \in Edges(M) : e.from = ring[i] /\ e.to = ring[i + 1] /\ OnRing(ring, e)
    BY <2>1, RingLegs
  <2> QED  BY <2>2 DEF Its
<1>3. \A e \in Its(M, ring) : e \in Edges(M) /\ \E i \in 1..n : At(e, i)
  BY DEF Its, OnRing
<1>4. PICK first \in Its(M, ring) : At(first, 1)
  BY <1>1, <1>2
<1> DEFINE k == Beside(ring, first)
<1>5. k \in Int
  <2>1. PICK r \in Int, c \in Int : Borders(M, first, r, c)
    BY <1>1, <1>3, EdgeForms
  <2>2. k = Winding(ring, r, c)
    BY <2>1, BesideIs DEF Borders
  <2> QED  BY <2>2, CellSteps
<1> DEFINE Good == {i \in Nat : i + 1 <= n =>
                      \A e \in Its(M, ring) : At(e, i + 1) => Beside(ring, e) = k}
<1> HIDE DEF n
<1>6. 0 \in Good
  <2> SUFFICES ASSUME NEW e \in Its(M, ring), At(e, 1) PROVE Beside(ring, e) = k
    OBVIOUS
  <2>1. e = first
    <3>1. e.from = first.from /\ e.to = first.to /\ e \in Edges(M) /\ first \in Edges(M)
      BY <1>3, <1>4
    <3> QED  BY <1>1, <3>1, EdgeByEnds
  <2> QED  BY <2>1
<1>7. ASSUME NEW i \in Nat, i \in Good PROVE i + 1 \in Good
  <2> SUFFICES ASSUME (i + 1) + 1 <= n, NEW e \in Its(M, ring), At(e, (i + 1) + 1)
               PROVE  Beside(ring, e) = k
    OBVIOUS
  <2>1. i + 1 \in 1..n /\ i + 1 <= n
    BY <1>1
  <2>2. PICK d \in Its(M, ring) : At(d, i + 1)
    BY <1>2, <2>1
  <2>3. d.to = e.from
    BY <2>2
  <2>4. Beside(ring, d) = k
    BY <1>7, <2>1, <2>2
  <2>5. Beside(ring, d) = Beside(ring, e)
    <3>1. \A g, h \in Its(M, ring) : g.to = h.from => Beside(ring, g) = Beside(ring, h)
      BY Pivot
    <3> QED  BY <2>3, <3>1
  <2> QED  BY <2>4, <2>5
<1> HIDE DEF Good
<1>8. \A i \in Nat : i \in Good
  BY <1>6, <1>7, Climb
<1> HIDE DEF k, At
<1>9. \A e \in Its(M, ring) : Beside(ring, e) = k
  <2> TAKE e \in Its(M, ring)
  <2>1. PICK i \in 1..n : At(e, i)
    BY <1>3
  <2>2. i - 1 \in Nat /\ (i - 1) + 1 = i /\ i <= n
    BY <1>1
  <2> QED  BY <1>8, <2>1, <2>2 DEF Good
<1> QED  BY <1>5, <1>9

(* A ring goes once around the cells inside it: either with them to its    *)
(* right, or with them to its left.                                        *)
Wound(M, ring, k) ==
  /\ k \in {0, 1} /\ \A e \in Its(M, ring) : Beside(ring, e) = k
  /\ \A r, c \in Int : Winding(ring, r, c) \in {k - 1, k}

(* A ring winds once around what it bounds, or is a hole. *)
LEMMA RingWinds ==
  ASSUME NEW H \in Nat, NEW W \in Nat, NEW M \in SUBSET Grid(H, W), NEW ring, Ring(M, ring)
  PROVE  \E k : Wound(M, ring, k)
<1>1. PICK k \in Int : \A e \in Its(M, ring) : Beside(ring, e) = k
  BY SameBeside
<1> DEFINE Fits(r, c) == /\ Winding(ring, r, c) \in {0, k, k - 1}
                         /\ Winding(ring, r, c) # 0 => k \in {0, 1}
<1>2. ASSUME NEW r \in Int, NEW c \in Int, c < 0 PROVE Fits(r, c)
  <2>1. Winding(ring, r, c) = 0
    BY <1>2, SumsOutside
  <2> QED  BY <2>1
<1>3. ASSUME NEW r \in Int, NEW c \in Int, Fits(r, c - 1) PROVE Fits(r, c)
  <2> DEFINE L == Its(M, ring)
  <2>1. /\ Winding(ring, r, c) \in Int
        /\ Winding(ring, r, c) - Winding(ring, r, c - 1) =
             One(L, West(r, c)) - One(L, East(r, c - 1))
    BY CellSteps
  <2> PICK x \in Int : x = c - 1
    OBVIOUS
  <2>2. Winding(ring, r, x) \in Int
    BY CellSteps
  <2>3. West(r, c) \in L => Winding(ring, r, c) = k
    BY <1>1, BesideIs
  <2>4. East(r, x) \in L => Winding(ring, r, x) = k
    BY <1>1, BesideIs
  <2>5. ~ (West(r, c) \in L /\ East(r, x) \in L)
    <3>1. ~ (West(r, c) \in Edges(M) /\ East(r, c - 1) \in Edges(M))
      BY SidesOppose, OnRaster
    <3> QED  BY <3>1 DEF Its
  <2> HIDE DEF L
  <2> QED  BY <1>3, <2>1, <2>2, <2>3, <2>4, <2>5 DEF One
<1> HIDE DEF Fits
<1>4. \A r, c \in Int : Fits(r, c)
  <2> TAKE r \in Int
  <2> DEFINE Good == {n \in Nat : Fits(r, n - 1)}
  <2>1. 0 \in Good
    <3>1. Fits(r, -1)
      BY <1>2
    <3>2. 0 - 1 = -1
      OBVIOUS
    <3> QED  BY <3>1, <3>2
  <2>2. ASSUME NEW n \in Nat, n \in Good PROVE n + 1 \in Good
    <3>1. n \in Int /\ (n + 1) - 1 = n /\ n + 1 \in Nat
      OBVIOUS
    <3>2. Fits(r, n)
      BY <1>3, <2>2, <3>1
    <3> QED  BY <3>1, <3>2
  <2> HIDE DEF Good
  <2>3. \A n \in Nat : n \in Good
    BY <2>1, <2>2, Climb
  <2> TAKE c \in Int
  <2>4. CASE c < 0
    BY <1>2, <2>4
  <2>5. CASE c >= 0
    <3>1. c + 1 \in Nat /\ (c + 1) - 1 = c
      BY <2>5
    <3> QED  BY <2>3, <3>1 DEF Good
  <2> QED  BY <2>4, <2>5
<1>5. PICK r \in Int, c \in Int : Winding(ring, r, c) = k
  <2>1. PICK e \in Its(M, ring) : TRUE
    <3>1. 1 \in Legs(ring)
      BY RingLength DEF Legs
    <3>2. \E e \in Edges(M) : e.from = ring[1] /\ e.to = ring[1 + 1] /\ OnRing(ring, e)
      BY <3>1, RingLegs
    <3> QED  BY <3>2 DEF Its
  <2>2. PICK r \in Int, c \in Int : Borders(M, e, r, c)
    BY <2>1, EdgeForms, OnRaster DEF Its
  <2>3. Beside(ring, e) = Winding(ring, r, c)
    BY <2>2, BesideIs DEF Borders
  <2> QED  BY <1>1, <2>1, <2>3
<1>6. k \in {0, 1}
  BY <1>4, <1>5 DEF Fits
<1>7. \A y, x \in Int : Winding(ring, y, x) \in {k - 1, k}
  <2> TAKE y \in Int, x \in Int
  <2>1. Winding(ring, y, x) \in {0, k, k - 1}
    BY <1>4 DEF Fits
  <2> QED  BY <1>6, <2>1
<1> QED  BY <1>1, <1>6, <1>7 DEF Wound

(* No ring goes on beyond the end of a row. *)
LEMMA RowEnds ==
  ASSUME NEW H \in Nat, NEW W \in Nat, NEW M \in SUBSET Grid(H, W), NEW ring, Ring(M, ring)
  PROVE  \A r \in Nat : Winding(ring, r, W) = 0
<1> DEFINE Good == {r \in Nat : Winding(ring, r - 1, W) = 0}
<1>1. 0 \in Good
  <2>1. Winding(ring, -1, W) = 0
    BY SumsOutside
  <2>2. 0 - 1 = -1
    OBVIOUS
  <2> QED  BY <2>1, <2>2
<1>2. ASSUME NEW r \in Nat, r \in Good PROVE r + 1 \in Good
  <2>1. (r + 1) - 1 = r /\ r \in Int /\ W \in Int
    OBVIOUS
  <2>2. RightSum(ring, r, W) = 0
    BY <2>1, SumsOutside
  <2>3. Winding(ring, r, W) - Winding(ring, r - 1, W) = RightSum(ring, r, W)
    BY <2>1, ColumnStep
  <2>4. Winding(ring, r, W) \in Int
    BY <2>1, RowSums
  <2> QED  BY <1>2, <2>1, <2>2, <2>3, <2>4
<1> HIDE DEF Good
<1>3. \A r \in Nat : r \in Good
  BY <1>1, <1>2, Climb
<1>4. \A r \in Nat : r + 1 \in Nat /\ (r + 1) - 1 = r
  OBVIOUS
<1> QED  BY <1>3, <1>4 DEF Good

(* A ring that has its cells to its right sweeps no row backwards. *)
LEMMA RowSwept ==
  ASSUME NEW H \in Nat, NEW W \in Nat, NEW M \in SUBSET Grid(H, W), NEW ring, Ring(M, ring),
         Wound(M, ring, 1), NEW r \in Nat
  PROVE  SweepSum(ring, r, W) >= SweepSum(ring, r, -1)
<1> DEFINE s == SweepSum(ring, r, -1)
           Good == {n \in Nat : SweepSum(ring, r, n - 1) + 4 * (n - 1) * Winding(ring, r, n - 1) >= s}
<1>0. r \in Int /\ W \in Int /\ -1 \in Int
  OBVIOUS
<1>1. s \in Int
  BY <1>0, RowSums
<1>2. \A c \in Int : Winding(ring, r, c) \in {0, 1}
  <2>1. \A c \in Int : Winding(ring, r, c) \in {1 - 1, 1}
    BY <1>0 DEF Wound
  <2>2. 1 - 1 = 0
    OBVIOUS
  <2> QED  BY <2>1, <2>2
<1> HIDE DEF s
<1>3. 0 \in Good
  <2>1. Winding(ring, r, -1) = 0
    BY <1>0, SumsOutside
  <2>2. 0 - 1 = -1
    OBVIOUS
  <2>3. SweepSum(ring, r, -1) + 4 * (-1) * 0 >= s
    BY <1>1 DEF s
  <2> QED  BY <2>1, <2>2, <2>3
<1>4. ASSUME NEW n \in Nat, n \in Good PROVE n + 1 \in Good
  <2>1. n \in Int /\ (n + 1) - 1 = n /\ n - 1 \in Int
    OBVIOUS
  <2> DEFINE v == Winding(ring, r, n)  w == Winding(ring, r, n - 1)  u == UpSum(ring, r, n)
             a == SweepSum(ring, r, n)  b == SweepSum(ring, r, n - 1)
  <2>2. v = w + u /\ a = b + (-(4 * n)) * u /\ u \in Int
    BY <2>1, RowSums
  <2>3. v \in {0, 1} /\ w \in {0, 1}
    BY <1>2, <2>1
  <2>4. b \in Int
    <3>1. PICK p \in Int : p = n - 1
      OBVIOUS
    <3>2. SweepSum(ring, r, p) \in Int
      BY <1>0, RowSums
    <3> QED  BY <3>1, <3>2
  <2>5. b + 4 * (n - 1) * w >= s
    BY <1>4
  <2> HIDE DEF v, w, u, a, b
  <2>6. a + 4 * n * v >= s
    <3>1. CASE v = w
      <4>1. u = 0
        BY <2>2, <2>3, <3>1
      <4>2. a = b
        BY <2>2, <2>4, <4>1
      <4> QED  BY <1>1, <2>3, <2>4, <2>5, <3>1, <4>2
    <3>2. CASE v = 1 /\ w = 0
      <4>1. u = 1
        BY <2>2, <3>2
      <4>2. a = b - 4 * n
        BY <2>2, <2>4, <4>1
      <4> QED  BY <1>1, <2>4, <2>5, <3>2, <4>2
    <3>3. CASE v = 0 /\ w = 1
      <4>1. u = -1
        BY <2>2, <3>3
      <4>2. a = b + 4 * n
        BY <2>2, <2>4, <4>1
      <4> QED  BY <1>1, <2>4, <2>5, <3>3, <4>2
    <3> QED  BY <2>3, <3>1, <3>2, <3>3
  <2> QED  BY <2>1, <2>6 DEF v, a
<1> HIDE DEF Good
<1>5. \A n \in Nat : n \in Good
  BY <1>3, <1>4, Climb
<1>6. W + 1 \in Nat /\ (W + 1) - 1 = W
  OBVIOUS
<1>7. SweepSum(ring, r, W) + 4 * W * Winding(ring, r, W) >= s
  BY <1>5, <1>6 DEF Good
<1>8. Winding(ring, r, W) = 0 /\ SweepSum(ring, r, W) \in Int
  BY <1>0, RowEnds, RowSums
<1>9. SweepSum(ring, r, W) + 4 * W * 0 >= s
  BY <1>7, <1>8
<1>10. 4 * W * 0 = 0
  OBVIOUS
<1>11. \A t \in Int : t + 0 = t
  OBVIOUS
<1> QED  BY <1>8, <1>9, <1>10, <1>11 DEF s

(* The sweep of a whole ring that winds once is not negative. *)
LEMMA AllSwept ==
  ASSUME NEW H \in Nat, NEW W \in Nat, NEW M \in SUBSET Grid(H, W), NEW ring, Ring(M, ring),
         Wound(M, ring, 1)
  PROVE  SweepSum(ring, H, -1) >= 0
<1> DEFINE Good == {r \in Nat : SweepSum(ring, r, -1) >= 0}
<1>1. 0 \in Good
  <2>1. PICK q \in Int : q = 0 - 1
    OBVIOUS
  <2>2. SweepSum(ring, q, W) = 0
    BY <2>1, SumsOutside
  <2>3. SweepSum(ring, 0, -1) = SweepSum(ring, 0 - 1, W)
    BY SweepOn
  <2> QED  BY <2>1, <2>2, <2>3
<1>2. ASSUME NEW r \in Nat, r \in Good PROVE r + 1 \in Good
  <2>1. PICK q \in Int : q = r + 1 /\ q - 1 = r
    OBVIOUS
  <2>2. SweepSum(ring, q, -1) = SweepSum(ring, q - 1, W)
    BY SweepOn
  <2>3. SweepSum(ring, r, W) >= SweepSum(ring, r, -1)
    BY RowSwept
  <2>4. SweepSum(ring, r, W) \in Int /\ SweepSum(ring, r, -1) \in Int
    <3>1. r \in Int /\ W \in Int /\ -1 \in Int
      OBVIOUS
    <3> QED  BY <3>1, RowSums
  <2> QED  BY <1>2, <2>1, <2>2, <2>3, <2>4
<1> HIDE DEF Good
<1>3. H \in Good
  BY <1>1, <1>2, Climb
<1> QED  BY <1>3 DEF Good

(* The recursion of Area. *)
Shoelace(ring, i) == ring[i][2] * ring[i + 1][1] - ring[i + 1][2] * ring[i][1]
AreaSums(ring, f) ==
  f = [n \in 0..(Len(ring) - 1) |->
         IF n = 0 THEN 0
         ELSE f[n - 1] + ring[n][2] * ring[n + 1][1] - ring[n + 1][2] * ring[n][1]]

(* The loop of shoelace_area is a sum. *)
LEMMA AreaIs ==
  ASSUME NEW ring \in Seq(Int \X Int), Len(ring) - 1 \in Nat, NEW f \in [Nat -> Int],
         \A i \in 1..(Len(ring) - 1) : f[i] = Shoelace(ring, i)
  PROVE  Area(ring) = Total(f, Len(ring) - 1)
<1> DEFINE N == Len(ring) - 1
           shoe(n) == ring[n][2] * ring[n + 1][1] - ring[n + 1][2] * ring[n][1]
           Value(g, n) == IF n = 0 THEN 0
                          ELSE g[n - 1] + ring[n][2] * ring[n + 1][1]
                               - ring[n + 1][2] * ring[n][1]
           sum == CHOOSE g : AreaSums(ring, g)
<1>1. Area(ring) = sum[N]
  BY DEF Area, AreaSums
<1>2. N \in Nat
  OBVIOUS
<1>3. ASSUME NEW n \in 1..N, NEW t \in Int
      PROVE  t + ring[n][2] * ring[n + 1][1] - ring[n + 1][2] * ring[n][1] = t + f[n]
  <2>1. n \in 1..Len(ring) /\ n + 1 \in 1..Len(ring) /\ n \in Nat
    BY <1>2
  <2>2. /\ ring[n][1] \in Int /\ ring[n][2] \in Int
        /\ ring[n + 1][1] \in Int /\ ring[n + 1][2] \in Int
    <3> DEFINE X == Int \X Int
    <3>1. ring \in Seq(X)
      OBVIOUS
    <3> HIDE DEF X
    <3>2. \A i \in 1..Len(ring) : ring[i] \in X
      BY <3>1
    <3> QED  BY <2>1, <3>2 DEF X
  <2>3. ring[n][2] * ring[n + 1][1] \in Int /\ ring[n + 1][2] * ring[n][1] \in Int
    <3>1. \A a, b \in Int : a * b \in Int
      OBVIOUS
    <3> QED  BY <2>2, <3>1
  <2>4. f[n] = ring[n][2] * ring[n + 1][1] - ring[n + 1][2] * ring[n][1]
    BY DEF Shoelace
  <2> QED  BY <2>3, <2>4
<1>4. \A n \in Nat : Total(f, n) \in Int /\ Total(f, n + 1) = Total(f, n) + f[n + 1]
  BY TotalIs
<1>5. Total(f, 0) = 0
  BY TotalIs
<1> HIDE DEF N
<1>6. AreaSums(ring, sum)
  <2> DEFINE g == [n \in 0..N |-> Total(f, n)]
  <2>1. \A n \in 0..N : g[n] = Total(f, n)
    OBVIOUS
  <2>2. g = [n \in 0..N |-> g[n]]
    OBVIOUS
  <2> HIDE DEF g
  <2>3. ASSUME NEW n \in 0..N PROVE g[n] = Value(g, n)
    <3>1. CASE n = 0
      BY <1>5, <2>1, <3>1
    <3>2. CASE n # 0
      <4>1. n \in 1..N /\ n - 1 \in 0..N /\ n - 1 \in Nat /\ (n - 1) + 1 = n
        BY <1>2, <3>2
      <4>2. g[n] = Total(f, n - 1) + f[n] /\ Total(f, n - 1) \in Int
        BY <1>4, <2>1, <4>1
      <4>3. g[n - 1] = Total(f, n - 1)
        BY <2>1, <4>1
      <4> QED  BY <1>3, <3>2, <4>1, <4>2, <4>3
    <3> QED  BY <3>1, <3>2
  <2> HIDE DEF Value
  <2>4. g = [n \in 0..N |-> Value(g, n)]
    BY <2>2, <2>3
  <2>5. AreaSums(ring, g)
    BY <2>4 DEF AreaSums, Value, N
  <2> QED  BY <2>5
<1> HIDE DEF sum
<1>7. \A n \in 0..N : sum[n] = Value(sum, n)
  <2>1. sum = [n \in 0..N |-> Value(sum, n)]
    BY <1>6 DEF AreaSums, N
  <2> HIDE DEF Value
  <2> QED  BY <2>1
<1> DEFINE Good == {n \in Nat : n <= N => sum[n] = Total(f, n)}
<1>8. 0 \in Good
  <2>1. 0 \in 0..N
    BY <1>2
  <2> QED  BY <1>5, <1>7, <2>1
<1>9. ASSUME NEW n \in Nat, n \in Good PROVE n + 1 \in Good
  <2> SUFFICES ASSUME n + 1 <= N PROVE sum[n + 1] = Total(f, n + 1)
    OBVIOUS
  <2>1. n + 1 \in 1..N /\ n + 1 \in 0..N /\ (n + 1) - 1 = n /\ n + 1 # 0
    BY <1>2
  <2>2. sum[n] = Total(f, n) /\ Total(f, n) \in Int
    BY <1>2, <1>4, <1>9
  <2> PICK m \in 1..N : m = n + 1 /\ m - 1 = n /\ m # 0 /\ m \in 0..N
    BY <2>1
  <2>3. sum[m] = sum[n] + ring[m][2] * ring[m + 1][1] - ring[m + 1][2] * ring[m][1]
    BY <1>7
  <2>4. sum[m] = sum[n] + f[m]
    BY <1>3, <2>2, <2>3
  <2> QED  BY <1>4, <2>2, <2>4
<1> HIDE DEF Good
<1>10. N \in Good
  BY <1>2, <1>8, <1>9, Climb
<1> QED  BY <1>1, <1>2, <1>10 DEF Good, N

LEMMA LegShoelace ==
  ASSUME NEW H \in Nat, NEW W \in Nat, NEW a, NEW b, Leg(H, W, a, b)
  PROVE  a[2] * b[1] - b[2] * a[1]
           = 8 * Sweep(a, b, H, -1) + (-(b[1] * b[2]) - (-(a[1] * a[2])))
<1>1. PICK y \in 0..H, v \in 0..H, x \in 0..W, u \in 0..W :
        a = Corner(y, x) /\ b = Corner(v, u) /\ Unit(y, x, v, u)
  BY DEF Leg
<1>2. /\ a[1] = 4 * y /\ a[2] = 4 * x /\ b[1] = 4 * v /\ b[2] = 4 * u
  BY <1>1 DEF Corner
<1>3. /\ y \in Int /\ v \in Int /\ x \in Int /\ u \in Int /\ H \in Int /\ y <= H /\ v <= H
  OBVIOUS
<1>4. CASE u = x /\ v = y + 1
  <2>1. Sweep(a, b, H, -1) = 4 * x
    BY <1>2, <1>3, <1>4 DEF Sweep, Swept
  <2>2. b[1] = 4 * y + 4 /\ b[2] = 4 * x
    BY <1>2, <1>3, <1>4
  <2>3. (4 * x) * (4 * y + 4) - (4 * x) * (4 * y)
          = 8 * (4 * x) + (-((4 * y + 4) * (4 * x)) - (-((4 * y) * (4 * x))))
    BY <1>3
  <2> QED  BY <1>2, <2>1, <2>2, <2>3
<1>5. CASE u = x /\ v = y - 1
  <2>1. Sweep(a, b, H, -1) = -(4 * x)
    BY <1>2, <1>3, <1>5 DEF Sweep, Swept
  <2>2. b[1] = 4 * y - 4 /\ b[2] = 4 * x
    BY <1>2, <1>3, <1>5
  <2>3. (4 * x) * (4 * y - 4) - (4 * x) * (4 * y)
          = 8 * (-(4 * x)) + (-((4 * y - 4) * (4 * x)) - (-((4 * y) * (4 * x))))
    BY <1>3
  <2> QED  BY <1>2, <2>1, <2>2, <2>3
<1>6. CASE v = y /\ (u = x + 1 \/ u = x - 1)
  <2>1. Sweep(a, b, H, -1) = 0
    BY <1>2, <1>3, <1>6 DEF Sweep
  <2>2. b[1] = 4 * y /\ b[2] = 4 * u
    BY <1>2, <1>6
  <2>3. (4 * x) * (4 * y) - (4 * u) * (4 * y)
          = 8 * 0 + (-((4 * y) * (4 * u)) - (-((4 * y) * (4 * x))))
    BY <1>3
  <2> QED  BY <1>2, <2>1, <2>2, <2>3
<1> QED  BY <1>1, <1>4, <1>5, <1>6 DEF Unit

(* So a ring of negative area has the cells of the mask to its left.       *)
LEMMA AreaSwept ==
  ASSUME NEW H \in Nat, NEW W \in Nat, NEW M \in SUBSET Grid(H, W), NEW ring, Ring(M, ring)
  PROVE  Area(ring) = 8 * SweepSum(ring, H, -1)
<1> DEFINE n == Len(ring) - 1
           Times(i) == IF i \in 1..Len(ring) THEN -(ring[i][1] * ring[i][2]) ELSE 0
           p == [i \in Nat |-> Times(i)]
           q == [i \in Nat |-> p[i + 1] - p[i]]
           s == Sweeps(ring, H, -1)
           f == [i \in Nat |-> 8 * s[i] + q[i]]
<1>1. /\ n \in Nat /\ n >= 1 /\ n + 1 = Len(ring) /\ ring[n + 1] = ring[1]
      /\ ring \in Seq(Int \X Int) /\ Len(ring) \in Nat
  <2>1. ring \in Seq(Int \X Int)
    BY RingLegs
  <2> QED  BY <2>1, RingLength
<1>2. \A i \in 1..Len(ring) : ring[i][1] \in Int /\ ring[i][2] \in Int
  BY <1>1
<1>3. \A i \in Nat : Times(i) \in Int
  <2> TAKE i \in Nat
  <2>1. \A a, b \in Int : -(a * b) \in Int
    OBVIOUS
  <2> QED  BY <1>2, <2>1
<1> HIDE DEF n
<1>4. /\ p \in [Nat -> Int] /\ \A i \in Nat : p[i] = Times(i)
  <2> HIDE DEF Times
  <2> QED  BY <1>3
<1> HIDE DEF p
<1>5. q \in [Nat -> Int] /\ \A i \in Nat : q[i] = p[i + 1] - p[i]
  BY <1>4
<1>6. s \in [Nat -> Int]
  <2>1. H \in Int /\ -1 \in Int
    OBVIOUS
  <2> QED  BY <2>1, CountsTyped
<1> HIDE DEF q, s
<1>7. f \in [Nat -> Int] /\ \A i \in Nat : f[i] = 8 * s[i] + q[i]
  BY <1>5, <1>6
<1> HIDE DEF f
<1>8. Total(q, n) = 0
  <2>1. Total(q, n) = p[n + 1] - p[1]
    <3>1. \A i \in 1..n : q[i] = p[i + 1] - p[i]
      BY <1>1, <1>5
    <3> QED  BY <1>1, <1>4, <1>5, <3>1, TotalTelescopes
  <2>2. 1 \in 1..Len(ring) /\ n + 1 \in 1..Len(ring) /\ n + 1 \in Nat
    BY <1>1
  <2>3. p[n + 1] = p[1] /\ p[1] \in Int
    BY <1>1, <1>4, <2>2
  <2> QED  BY <2>1, <2>3
<1>9. Total(f, n) = 8 * Total(s, n) + Total(q, n)
  <2>1. PICK k \in Int : k = 8
    OBVIOUS
  <2>2. Scales(f, k, s, q, n)
    BY <1>1, <1>7, <2>1 DEF Scales
  <2>3. Total(f, n) = k * Total(s, n) + Total(q, n)
    <3>1. /\ f \in [Nat -> Int] /\ s \in [Nat -> Int] /\ q \in [Nat -> Int] /\ n \in Nat
      BY <1>1, <1>5, <1>6, <1>7
    <3> QED  BY <2>2, <3>1, TotalLinear
  <2> QED  BY <2>1, <2>3
<1>10. Area(ring) = Total(f, n)
  <2>1. ASSUME NEW i \in 1..(Len(ring) - 1) PROVE f[i] = Shoelace(ring, i)
    <3>1. i \in Legs(ring) /\ i \in Nat /\ i \in 1..Len(ring) /\ i + 1 \in 1..Len(ring) /\ i + 1 \in Nat
      BY <1>1 DEF Legs
    <3> DEFINE a == ring[i]  b == ring[i + 1]
    <3>2. Leg(H, W, a, b)
      BY <3>1, RingLegs
    <3>3. s[i] = Sweep(a, b, H, -1) /\ p[i] = -(a[1] * a[2]) /\ p[i + 1] = -(b[1] * b[2])
      BY <1>4, <3>1 DEF s, Sweeps
    <3>4. Shoelace(ring, i) = a[2] * b[1] - b[2] * a[1]
      BY DEF Shoelace
    <3>5. f[i] = 8 * s[i] + (p[i + 1] - p[i])
      BY <1>5, <1>7, <3>1
    <3> HIDE DEF a, b
    <3>6. a[2] * b[1] - b[2] * a[1]
            = 8 * Sweep(a, b, H, -1) + (-(b[1] * b[2]) - (-(a[1] * a[2])))
      BY <3>2, LegShoelace
    <3> QED  BY <3>3, <3>4, <3>5, <3>6
  <2>2. Len(ring) - 1 \in Nat
    BY <1>1
  <2> QED  BY <1>1, <1>7, <2>1, <2>2, AreaIs DEF n
<1>11. Total(s, n) \in Int
  BY <1>1, <1>6, TotalIs
<1> QED  BY <1>8, <1>9, <1>10, <1>11 DEF SweepSum, s, n

(* A ring of negative area is a hole. *)
LEMMA NegativeIsHole ==
  ASSUME NEW H \in Nat, NEW W \in Nat, NEW M \in SUBSET Grid(H, W), NEW ring, Ring(M, ring),
         NEW k, Wound(M, ring, k)
  PROVE  /\ Area(ring) \in Int
         /\ Area(ring) < 0 => k = 0
<1>1. SweepSum(ring, H, -1) \in Int
  <2>1. H \in Int /\ -1 \in Int
    OBVIOUS
  <2> QED  BY <2>1, RowSums
<1>2. Area(ring) = 8 * SweepSum(ring, H, -1)
  BY AreaSwept
<1>3. k = 1 => SweepSum(ring, H, -1) >= 0
  BY AllSwept
<1>4. k \in {0, 1}
  BY DEF Wound
<1> QED  BY <1>1, <1>2, <1>3, <1>4

-----------------------------------------------------------------------------
(* The scan line. *)

(* How many terms of 1 and -1 there are is odd where their sum is, and the *)
(* sum is 0 where it is not.                                               *)
LEMMA OddCount ==
  ASSUME NEW f \in [Nat -> Int], NEW n \in Nat, \A i \in 1..n : f[i] \in {-1, 0, 1},
         NEW S, \A i : i \in S <=> i \in 1..n /\ f[i] # 0,
         Total(f, n) \in {-1, 0, 1}
  PROVE  IsFiniteSet(S) /\ (Cardinality(S) % 2 = 1 <=> Total(f, n) # 0)
<1> DEFINE Some(m) == {i \in 1..m : f[i] # 0}
           Even(m) == \E h \in Int : Cardinality(Some(m)) = Total(f, m) + 2 * h
           Good == {m \in Nat : m <= n => IsFiniteSet(Some(m)) /\ Even(m)}
<1>1. 0 \in Good
  <2>1. Some(0) = {}
    OBVIOUS
  <2>2. IsFiniteSet(Some(0)) /\ Cardinality(Some(0)) = 0
    BY <2>1, FS_EmptySet
  <2>3. Total(f, 0) = 0
    BY TotalIs
  <2> HIDE DEF Some
  <2>4. Cardinality(Some(0)) = Total(f, 0) + 2 * 0
    BY <2>2, <2>3
  <2> QED  BY <2>2, <2>4
<1>2. ASSUME NEW m \in Nat, m \in Good PROVE m + 1 \in Good
  <2> SUFFICES ASSUME m + 1 <= n PROVE IsFiniteSet(Some(m + 1)) /\ Even(m + 1)
    OBVIOUS
  <2>1. IsFiniteSet(Some(m)) /\ \E h \in Int : Cardinality(Some(m)) = Total(f, m) + 2 * h
    BY <1>2
  <2>2. PICK h \in Int : Cardinality(Some(m)) = Total(f, m) + 2 * h
    BY <2>1
  <2>3. Total(f, m) \in Int /\ Total(f, m + 1) = Total(f, m) + f[m + 1]
    BY TotalIs
  <2>4. m + 1 \in 1..n /\ f[m + 1] \in {-1, 0, 1}
    OBVIOUS
  <2>5. CASE f[m + 1] = 0
    <3>1. Some(m + 1) = Some(m)
      BY <2>5
    <3> HIDE DEF Some
    <3>2. Cardinality(Some(m + 1)) = Total(f, m + 1) + 2 * h
      BY <2>2, <2>3, <2>5, <3>1
    <3> QED  BY <2>1, <3>1, <3>2
  <2>6. CASE f[m + 1] # 0
    <3>1. Some(m + 1) = Some(m) \cup {m + 1} /\ m + 1 \notin Some(m)
      BY <2>6
    <3> HIDE DEF Some
    <3>2. /\ IsFiniteSet(Some(m) \cup {m + 1})
          /\ Cardinality(Some(m) \cup {m + 1}) = Cardinality(Some(m)) + 1
      BY <2>1, <3>1, FS_AddElement
    <3>3. IsFiniteSet(Some(m + 1)) /\ Cardinality(Some(m + 1)) = (Total(f, m) + 2 * h) + 1
      BY <2>2, <3>1, <3>2
    <3> DEFINE more == Cardinality(Some(m + 1))  t == Total(f, m)  u == Total(f, m + 1)
    <3>4. /\ more = (t + 2 * h) + 1 /\ t \in Int /\ u = t + f[m + 1]
          /\ f[m + 1] = 1 \/ f[m + 1] = -1
      BY <2>3, <2>4, <2>6, <3>3
    <3> HIDE DEF more, t, u
    <3>5. \E g \in Int : more = u + 2 * g
      <4>1. more = u + 2 * h \/ more = u + 2 * (h + 1)
        BY <3>4
      <4>2. h + 1 \in Int
        OBVIOUS
      <4> QED  BY <4>1, <4>2
    <3> QED  BY <3>3, <3>5 DEF more, u
  <2> QED  BY <2>5, <2>6
<1> HIDE DEF Good
<1>3. n \in Good
  BY <1>1, <1>2, Climb
<1>4. IsFiniteSet(Some(n)) /\ \E h \in Int : Cardinality(Some(n)) = Total(f, n) + 2 * h
  BY <1>3 DEF Good
<1>5. S = Some(n)
  OBVIOUS
<1> HIDE DEF Some
<1>6. PICK h \in Int : Cardinality(S) = Total(f, n) + 2 * h
  BY <1>4, <1>5
<1>7. Cardinality(S) \in Nat
  BY <1>4, <1>5, FS_CardinalityType
<1> QED  BY <1>4, <1>5, <1>6, <1>7

(* The scan line crosses the legs that turn around the cell. *)
LEMMA LegCrosses ==
  ASSUME NEW H \in Nat, NEW W \in Nat, NEW a, NEW b, Leg(H, W, a, b),
         NEW r \in Int, NEW c \in Int
  PROVE  Crosses(a, b, 4 * r + 2, 4 * c + 2) <=> Turn(a, b, r, c) # 0
<1>1. PICK y \in 0..H, v \in 0..H, x \in 0..W, u \in 0..W :
        a = Corner(y, x) /\ b = Corner(v, u) /\ Unit(y, x, v, u)
  BY DEF Leg
<1>2. /\ a[1] = 4 * y /\ a[2] = 4 * x /\ b[1] = 4 * v /\ b[2] = 4 * u
  BY <1>1 DEF Corner
<1>3. y \in Int /\ v \in Int /\ x \in Int /\ u \in Int
  OBVIOUS
<1>4. CASE u = x /\ v = y + 1
  <2>1. /\ (4 * r + 2 - a[1]) * (b[2] - a[2]) = 0
        /\ (4 * c + 2 - a[2]) * (b[1] - a[1]) = 4 * (4 * c + 2 - 4 * x)
    BY <1>2, <1>3, <1>4
  <2>2. a[1] < b[1] /\ a[2] = b[2]
    BY <1>2, <1>3, <1>4
  <2>3. Crosses(a, b, 4 * r + 2, 4 * c + 2) <=> y = r /\ x <= c
    BY <1>2, <1>3, <1>4, <2>1, <2>2 DEF Crosses
  <2>4. Turn(a, b, r, c) # 0 <=> y = r /\ x <= c
    BY <1>2, <1>3, <1>4 DEF Turn
  <2> QED  BY <2>3, <2>4
<1>5. CASE u = x /\ v = y - 1
  <2>1. /\ (4 * r + 2 - a[1]) * (b[2] - a[2]) = 0
        /\ (4 * c + 2 - a[2]) * (b[1] - a[1]) = (-4) * (4 * c + 2 - 4 * x)
    BY <1>2, <1>3, <1>5
  <2>2. ~ (a[1] < b[1]) /\ a[2] = b[2]
    BY <1>2, <1>3, <1>5
  <2>3. Crosses(a, b, 4 * r + 2, 4 * c + 2) <=> v = r /\ x <= c
    BY <1>2, <1>3, <1>5, <2>1, <2>2 DEF Crosses
  <2>4. Turn(a, b, r, c) # 0 <=> v = r /\ x <= c
    BY <1>2, <1>3, <1>5 DEF Turn
  <2> QED  BY <2>3, <2>4
<1>6. CASE v = y /\ (u = x + 1 \/ u = x - 1)
  <2>1. ~ Crosses(a, b, 4 * r + 2, 4 * c + 2)
    BY <1>2, <1>6 DEF Crosses
  <2>2. Turn(a, b, r, c) = 0
    BY <1>2, <1>3, <1>6 DEF Turn
  <2> QED  BY <2>1, <2>2
<1> QED  BY <1>1, <1>4, <1>5, <1>6 DEF Unit

(* A cell is inside the rings that wind around it. *)
LEMMA InsideIs ==
  ASSUME NEW H \in Nat, NEW W \in Nat, NEW M \in SUBSET Grid(H, W), NEW ring, Ring(M, ring),
         NEW r \in Int, NEW c \in Int
  PROVE  Inside(ring, 4 * r + 2, 4 * c + 2) <=> Winding(ring, r, c) # 0
<1> DEFINE n == Len(ring) - 1
           f == Turns(ring, r, c)
           S == Crossings(ring, 4 * r + 2, 4 * c + 2)
<1>1. n \in Nat
  BY RingLength
<1>2. f \in [Nat -> Int] /\ \A i \in Nat : f[i] \in {-1, 0, 1}
  BY CountsTyped
<1>3. \A i : i \in S <=> i \in 1..n /\ f[i] # 0
  <2> SUFFICES ASSUME NEW i \in 1..n
               PROVE  Crosses(ring[i], ring[i + 1], 4 * r + 2, 4 * c + 2) <=> f[i] # 0
    BY DEF Crossings
  <2>1. i \in Legs(ring) /\ i \in Nat
    BY DEF Legs
  <2>2. Leg(H, W, ring[i], ring[i + 1])
    BY <2>1, RingLegs
  <2>3. f[i] = Turn(ring[i], ring[i + 1], r, c)
    BY <2>1 DEF Turns
  <2> HIDE DEF f
  <2> QED  BY <2>2, <2>3, LegCrosses
<1>4. Total(f, n) \in {-1, 0, 1}
  <2>1. PICK k : Wound(M, ring, k)
    BY RingWinds
  <2>2. Winding(ring, r, c) \in {-1, 0, 1}
    BY <2>1 DEF Wound
  <2> QED  BY <2>2 DEF Winding
<1> HIDE DEF f, n, S
<1>5. \A i \in 1..n : f[i] \in {-1, 0, 1}
  BY <1>1, <1>2
<1>6. Cardinality(S) % 2 = 1 <=> Total(f, n) # 0
  BY <1>1, <1>2, <1>3, <1>4, <1>5, OddCount
<1> QED  BY <1>6 DEF Inside, Winding, f, n, S

-----------------------------------------------------------------------------
(* All rings together. *)

Partition(M, rings) ==
  /\ rings \in Seq(Seq(Int \X Int)) /\ \A j \in 1..Len(rings) : Ring(M, rings[j])
  /\ \A e \in Edges(M) :
       \E j \in 1..Len(rings) :
         /\ e \in Its(M, rings[j])
         /\ \A k \in 1..Len(rings) : e \in Its(M, rings[k]) => k = j

(* Every edge of a mask is on exactly one of its rings. *)
LEMMA RingsAre ==
  ASSUME NEW H \in Nat, NEW W \in Nat, NEW M \in SUBSET Grid(H, W)
  PROVE  Partition(M, Rings(Edges(M)))
<1>1. PICK w : /\ WalkInv(M, w) /\ w.left = {} /\ w.ring = << >>
               /\ w.rings = Rings(Edges(M))
  BY WalkEnds
<1> DEFINE rings == w.rings
<1>2. Edges(M) \ w.left = Edges(M) /\ \A e : ~ OnRing(w.ring, e)
  BY <1>1 DEF OnRing
<1>3. rings \in Seq(Seq(Int \X Int)) /\ \A j \in 1..Len(rings) : Ring(M, rings[j])
  BY <1>1, <1>2 DEF WalkInv, Ring
<1>4. Parted(M, w)
  BY <1>1 DEF WalkInv
<1>5. \A e \in Edges(M) : \E j \in 1..Len(rings) : OnRing(rings[j], e)
  BY <1>1, <1>2, <1>4 DEF Parted
<1>6. \A e \in Edges(M), j \in 1..Len(rings) :
        OnRing(rings[j], e) => \A k \in 1..Len(rings) : OnRing(rings[k], e) => k = j
  BY <1>4 DEF Parted
<1> HIDE DEF rings
<1>7. \A e \in Edges(M) :
        \E j \in 1..Len(rings) :
          /\ e \in Its(M, rings[j])
          /\ \A k \in 1..Len(rings) : e \in Its(M, rings[k]) => k = j
  <2> TAKE e \in Edges(M)
  <2>1. PICK j \in 1..Len(rings) : OnRing(rings[j], e)
    BY <1>5
  <2>2. \A k \in 1..Len(rings) : OnRing(rings[k], e) => k = j
    BY <1>6, <2>1
  <2>3. e \in Its(M, rings[j]) /\ \A k \in 1..Len(rings) : e \in Its(M, rings[k]) => k = j
    BY <2>1, <2>2 DEF Its
  <2> QED  BY <2>3
<1> QED  BY <1>1, <1>3, <1>7 DEF Partition, rings

Windings(rings, r, c) ==
  [j \in Nat |-> IF j \in 1..Len(rings) THEN Winding(rings[j], r, c) ELSE 0]

(* The part of each ring in the step from a cell to the next. *)
Between(M, rings, r, c) ==
  [j \in Nat |->
     IF j \in 1..Len(rings)
     THEN One(Its(M, rings[j]), West(r, c)) - One(Its(M, rings[j]), East(r, c - 1))
     ELSE 0]

(* All rings together have the mask's edges between two cells. *)
LEMMA AllBetween ==
  ASSUME NEW M \in SUBSET (Int \X Int), NEW rings, Partition(M, rings),
         NEW r \in Int, NEW c \in Int
  PROVE  /\ Between(M, rings, r, c) \in [Nat -> Int]
         /\ Total(Between(M, rings, r, c), Len(rings))
              = (IF <<r, c>> \in M THEN 1 ELSE 0) - (IF <<r, c - 1>> \in M THEN 1 ELSE 0)
<1> DEFINE n == Len(rings)  f == Between(M, rings, r, c)
           L(j) == Its(M, rings[j])  d == West(r, c)  b == East(r, c - 1)
<1>1. n \in Nat
  BY DEF Partition
<1>2. \A j \in 1..n : f[j] = One(L(j), d) - One(L(j), b)
  BY DEF Between
<1>3. f \in [Nat -> Int]
  BY DEF Between, One
<1>4. /\ d \in Edges(M) <=> <<r, c>> \in M /\ <<r, c - 1>> \notin M
      /\ b \in Edges(M) <=> <<r, c - 1>> \in M /\ <<r, c>> \notin M
  <2>1. PICK x \in Int : x = c - 1 /\ x + 1 = c
    OBVIOUS
  <2>2. d \in Edges(M) <=> <<r, c>> \in M /\ <<r, c - 1>> \notin M
    BY EdgeOf
  <2>3. East(r, x) \in Edges(M) <=> <<r, x>> \in M /\ <<r, x + 1>> \notin M
    BY EdgeOf
  <2> QED  BY <2>1, <2>2, <2>3
<1>5. \A e \in Edges(M) : \E j \in 1..n : e \in L(j) /\ \A k \in 1..n : e \in L(k) => k = j
  BY DEF Partition
<1>6. \A j \in 1..n : L(j) \subseteq Edges(M)
  BY DEF Its
<1> HIDE DEF n, f, L, d, b
<1>7. CASE d \in Edges(M)
  <2>1. PICK j \in 1..n : d \in L(j) /\ \A k \in 1..n : d \in L(k) => k = j
    BY <1>5, <1>7
  <2>2. b \notin Edges(M)
    BY <1>4, <1>7
  <2>3. f[j] = 1 /\ \A k \in 1..n : k # j => f[k] = 0
    BY <1>2, <1>6, <2>1, <2>2 DEF One
  <2>4. Total(f, n) = 1
    BY <1>1, <1>3, <2>3, TotalOnce
  <2> QED  BY <1>3, <1>4, <1>7, <2>4 DEF n, f
<1>8. CASE b \in Edges(M)
  <2>1. PICK j \in 1..n : b \in L(j) /\ \A k \in 1..n : b \in L(k) => k = j
    BY <1>5, <1>8
  <2>2. d \notin Edges(M)
    BY <1>4, <1>8
  <2>3. f[j] = -1 /\ \A k \in 1..n : k # j => f[k] = 0
    BY <1>2, <1>6, <2>1, <2>2 DEF One
  <2>4. Total(f, n) = -1
    BY <1>1, <1>3, <2>3, TotalOnce
  <2> QED  BY <1>3, <1>4, <1>8, <2>4 DEF n, f
<1>9. CASE d \notin Edges(M) /\ b \notin Edges(M)
  <2>1. \A k \in 1..n : f[k] = 0
    BY <1>2, <1>6, <1>9 DEF One
  <2>2. Total(f, n) = 0
    BY <1>1, <1>3, <2>1, TotalZero
  <2> QED  BY <1>3, <1>4, <1>9, <2>2 DEF n, f
<1> QED  BY <1>7, <1>8, <1>9

CoverOnce(M, rings, r, c) ==
  /\ Windings(rings, r, c) \in [Nat -> Int]
  /\ Total(Windings(rings, r, c), Len(rings)) = IF <<r, c>> \in M THEN 1 ELSE 0

(* Together the rings wind once around the cells of the mask, and not at   *)
(* all around others.                                                      *)
LEMMA WindingsAre ==
  ASSUME NEW H \in Nat, NEW W \in Nat, NEW M \in SUBSET Grid(H, W),
         NEW rings, Partition(M, rings), NEW r \in Int, NEW c \in Int
  PROVE  CoverOnce(M, rings, r, c)
<1> DEFINE n == Len(rings)  f(x) == Windings(rings, r, x)
           Fits(x) == Total(f(x), n) = IF <<r, x>> \in M THEN 1 ELSE 0
           Good == {i \in Nat : Fits(i - 1)}
<1>1. n \in Nat /\ \A j \in 1..n : Ring(M, rings[j])
  BY DEF Partition
<1>2. ASSUME NEW x \in Int PROVE f(x) \in [Nat -> Int]
  <2>1. \A j \in 1..n : Winding(rings[j], r, x) \in Int
    BY <1>1, RowSums
  <2> QED  BY <2>1 DEF Windings
<1>3. ASSUME NEW x \in Int, x < 0 PROVE Fits(x)
  <2>1. \A j \in 1..n : Winding(rings[j], r, x) = 0
    BY <1>1, <1>3, SumsOutside
  <2>2. \A j \in 1..n : f(x)[j] = 0
    BY <1>1, <2>1 DEF Windings
  <2>3. Total(f(x), n) = 0
    BY <1>1, <1>2, <2>2, TotalZero
  <2>4. <<r, x>> \notin M
    BY <1>3, OnRaster
  <2> QED  BY <2>3, <2>4
<1>4. ASSUME NEW x \in Int, Fits(x - 1) PROVE Fits(x)
  <2> DEFINE d == Between(M, rings, r, x)
  <2>1. /\ d \in [Nat -> Int]
        /\ Total(d, n) = (IF <<r, x>> \in M THEN 1 ELSE 0) - (IF <<r, x - 1>> \in M THEN 1 ELSE 0)
    <3>1. M \in SUBSET (Int \X Int)
      BY OnRaster
    <3>2. \A s \in Int :
            /\ Between(M, rings, r, s) \in [Nat -> Int]
            /\ Total(Between(M, rings, r, s), Len(rings))
                 = (IF <<r, s>> \in M THEN 1 ELSE 0) - (IF <<r, s - 1>> \in M THEN 1 ELSE 0)
      BY <3>1, AllBetween
    <3> QED  BY <3>2
  <2> PICK p \in Int : p = x - 1
    OBVIOUS
  <2> DEFINE a == f(x)  b == f(p)
  <2>2. a \in [Nat -> Int] /\ b \in [Nat -> Int]
    BY <1>2
  <2>3. Adds(a, b, d, n)
    <3> SUFFICES ASSUME NEW j \in 1..n PROVE a[j] = b[j] + d[j]
      BY DEF Adds
    <3>1. j \in Nat /\ Ring(M, rings[j])
      BY <1>1
    <3>2. /\ Winding(rings[j], r, x) \in Int
          /\ Winding(rings[j], r, x) - Winding(rings[j], r, x - 1) =
               One(Its(M, rings[j]), West(r, x)) - One(Its(M, rings[j]), East(r, x - 1))
      BY <3>1, CellSteps
    <3>3. Winding(rings[j], r, p) \in Int
      BY <3>1, CellSteps
    <3>4. /\ a[j] = Winding(rings[j], r, x) /\ b[j] = Winding(rings[j], r, p)
          /\ d[j] = One(Its(M, rings[j]), West(r, x)) - One(Its(M, rings[j]), East(r, x - 1))
      BY <3>1 DEF Windings, Between
    <3>5. d[j] \in Int
      BY <2>1, <3>1
    <3> HIDE DEF a, b, d
    <3> QED  BY <3>2, <3>3, <3>4, <3>5
  <2>4. Total(b, n) = IF <<r, x - 1>> \in M THEN 1 ELSE 0
    BY <1>4
  <2> HIDE DEF a, b, d, f
  <2>5. Total(a, n) = Total(b, n) + Total(d, n)
    <3>1. n \in Nat /\ a \in [Nat -> Int] /\ b \in [Nat -> Int] /\ d \in [Nat -> Int]
      BY <1>1, <2>1, <2>2
    <3> HIDE DEF n
    <3> QED  BY <2>3, <3>1, TotalSum
  <2>6. Total(a, n) = IF <<r, x>> \in M THEN 1 ELSE 0
    BY <2>1, <2>4, <2>5
  <2> QED  BY <2>6 DEF a, f
<1> HIDE DEF Fits
<1>5. 0 \in Good
  <2>1. Fits(-1)
    BY <1>3
  <2>2. 0 - 1 = -1
    OBVIOUS
  <2> QED  BY <2>1, <2>2
<1>6. ASSUME NEW i \in Nat, i \in Good PROVE i + 1 \in Good
  <2>1. i \in Int /\ (i + 1) - 1 = i /\ i + 1 \in Nat
    OBVIOUS
  <2>2. Fits(i)
    BY <1>4, <1>6, <2>1
  <2> QED  BY <2>1, <2>2
<1> HIDE DEF Good
<1>7. \A i \in Nat : i \in Good
  BY <1>5, <1>6, Climb
<1>8. Fits(c)
  <2>1. CASE c < 0
    BY <1>3, <2>1
  <2>2. CASE c >= 0
    <3>1. c + 1 \in Nat /\ (c + 1) - 1 = c
      BY <2>2
    <3> QED  BY <1>7, <3>1 DEF Good
  <2> QED  BY <2>1, <2>2
<1> QED  BY <1>2, <1>8 DEF Fits, n, CoverOnce

-----------------------------------------------------------------------------
(* The holes. *)

(* No ring goes above the row that it starts in. *)
LEMMA AboveStart ==
  ASSUME NEW H \in Nat, NEW W \in Nat, NEW M \in SUBSET Grid(H, W), NEW ring, Ring(M, ring),
         NEW r \in Int, NEW c \in Int, ring[1] = Corner(r, c),
         NEW y \in Int, y < r, NEW x \in Int
  PROVE  Winding(ring, y, x) = 0
<1> DEFINE n == Len(ring) - 1  f == Turns(ring, y, x)
<1>1. n \in Nat
  BY RingLength
<1>2. f \in [Nat -> Int]
  BY CountsTyped
<1>3. \A i \in 1..Len(ring) : ~ Before(ring[i], ring[1])
  BY DEF Ring, Loop, Longer, Trail
<1>4. ASSUME NEW i \in 1..n PROVE f[i] = 0
  <2>1. i \in Legs(ring) /\ i \in Nat /\ i \in 1..Len(ring) /\ i + 1 \in 1..Len(ring)
    BY <1>1, RingLength DEF Legs
  <2> DEFINE a == ring[i]  b == ring[i + 1]
  <2>2. Leg(H, W, a, b)
    BY <2>1, RingLegs
  <2>3. f[i] = Turn(a, b, y, x)
    BY <2>1 DEF Turns
  <2>4. ~ Before(a, Corner(r, c)) /\ ~ Before(b, Corner(r, c))
    BY <1>3, <2>1
  <2> HIDE DEF a, b, f
  <2>5. PICK p \in 0..H, v \in 0..H, s \in 0..W, u \in 0..W :
          a = Corner(p, s) /\ b = Corner(v, u) /\ Unit(p, s, v, u)
    BY <2>2 DEF Leg
  <2>6. p \in Int /\ v \in Int /\ s \in Int /\ u \in Int
    OBVIOUS
  <2>7. p >= r /\ v >= r
    BY <2>4, <2>5, <2>6 DEF Corner, Before
  <2>8. a[1] = 4 * p /\ b[1] = 4 * v
    BY <2>5 DEF Corner
  <2>9. Turn(a, b, y, x) = 0
    BY <2>6, <2>7, <2>8 DEF Turn
  <2> QED  BY <2>3, <2>9
<1> HIDE DEF f, n
<1>5. Total(f, n) = 0
  BY <1>1, <1>2, <1>4, TotalZero
<1> QED  BY <1>5 DEF Winding, f, n

(* A hole starts right below a cell of the mask, with two others beside it *)
(* and the first cell of the hole across.                                  *)
HoleAt(M, ring, r, c, y, x) ==
  /\ y = r - 1 /\ x = c - 1 /\ y + 1 = r /\ x + 1 = c /\ ring[1] = Corner(r, c)
  /\ <<y, x>> \in M /\ <<y, c>> \in M /\ <<r, x>> \in M /\ <<r, c>> \notin M
  /\ East(r, x) \in Its(M, ring) /\ South(y, c) \in Its(M, ring)
  /\ Winding(ring, y, x) = 0

(* Where a hole starts, three cells of the mask meet. *)
LEMMA HoleStarts ==
  ASSUME NEW H \in Nat, NEW W \in Nat, NEW M \in SUBSET Grid(H, W), NEW ring, Ring(M, ring),
         Wound(M, ring, 0)
  PROVE  \E r, c, y, x \in Int : HoleAt(M, ring, r, c, y, x)
<1> DEFINE L == Its(M, ring)
<1>1. M \in SUBSET (Int \X Int) /\ L \subseteq Edges(M) /\ \A e \in L : Beside(ring, e) = 0
  BY OnRaster DEF Its, Wound
<1>2. PICK e \in L : e.from = ring[1] /\ e.to = ring[2]
  <2>1. 1 \in Legs(ring)
    BY RingLength DEF Legs
  <2>2. \E e \in Edges(M) : e.from = ring[1] /\ e.to = ring[1 + 1] /\ OnRing(ring, e)
    BY <2>1, RingLegs
  <2> QED  BY <2>2 DEF Its
<1> HIDE DEF L
<1>3. e \in Edges(M)
  BY <1>1, <1>2
<1>4. PICK r \in Int, c \in Int : e \in Leaving(r, c)
  BY <1>1, <1>3, EdgeLeaves
<1>5. ring[1] = Corner(r, c)
  BY <1>2, <1>4, LeavesCorner
<1>6. PICK y \in Int, x \in Int : y = r - 1 /\ x = c - 1 /\ y + 1 = r /\ x + 1 = c
  OBVIOUS
<1>7. e \in {North(r, c), South(y, x), West(y, c), East(r, x)}
  BY <1>4, <1>6 DEF Leaving
<1>8. Winding(ring, y, x) = 0 /\ Winding(ring, y, c) = 0
  BY <1>5, <1>6, AboveStart
<1>9. ~ Before(ring[2], Corner(r, c))
  <2>1. 2 \in 1..Len(ring) /\ \A i \in 1..Len(ring) : ~ Before(ring[i], ring[1])
    BY RingLength DEF Ring, Loop, Longer, Trail
  <2> QED  BY <1>5, <2>1
<1>10. e # South(y, x)
  <2>1. South(y, x).to = Corner(y + 1, x)
    BY Ends
  <2>2. Before(Corner(r, x), Corner(r, c))
    BY <1>6 DEF Before, Corner
  <2> QED  BY <1>2, <1>6, <1>9, <2>1, <2>2
<1>11. e # West(y, c)
  <2>1. West(y, c).to = Corner(y, c)
    BY Ends
  <2>2. Before(Corner(y, c), Corner(r, c))
    BY <1>6 DEF Before, Corner
  <2> QED  BY <1>2, <1>9, <2>1, <2>2
<1>12. /\ Winding(ring, r, c) \in Int
       /\ Winding(ring, r, c) - Winding(ring, r, x) = One(L, West(r, c)) - One(L, East(r, x))
       /\ Winding(ring, r, c) - Winding(ring, y, c) = One(L, North(r, c)) - One(L, South(y, c))
  <2>1. /\ Winding(ring, r, c) \in Int
        /\ Winding(ring, r, c) - Winding(ring, r, c - 1) = One(L, West(r, c)) - One(L, East(r, c - 1))
        /\ Winding(ring, r, c) - Winding(ring, r - 1, c) = One(L, North(r, c)) - One(L, South(r - 1, c))
    BY CellSteps DEF L
  <2> QED  BY <1>6, <2>1
<1>13. /\ ~ (West(r, c) \in Edges(M) /\ East(r, x) \in Edges(M))
       /\ ~ (North(r, c) \in Edges(M) /\ South(y, c) \in Edges(M))
  <2>1. /\ ~ (West(r, c) \in Edges(M) /\ East(r, c - 1) \in Edges(M))
        /\ ~ (North(r, c) \in Edges(M) /\ South(r - 1, c) \in Edges(M))
    BY <1>1, SidesOppose
  <2> QED  BY <1>6, <2>1
<1>14. e # North(r, c)
  <2> SUFFICES ASSUME e = North(r, c) PROVE FALSE
    OBVIOUS
  <2>1. North(r, c) \in L /\ South(y, c) \notin L
    BY <1>1, <1>2, <1>13
  <2>2. Winding(ring, r, c) = 0
    BY <1>1, <2>1, BesideIs
  <2> QED  BY <1>8, <1>12, <2>1, <2>2 DEF One
<1>15. e = East(r, x)
  BY <1>7, <1>10, <1>11, <1>14
<1>16. East(r, x) \in L /\ West(r, c) \notin L
  BY <1>1, <1>2, <1>13, <1>15
<1>17. Winding(ring, r, x) = 0
  BY <1>1, <1>16, BesideIs
<1>18. Winding(ring, r, c) = -1
  BY <1>12, <1>16, <1>17 DEF One
<1>19. South(y, c) \in L
  BY <1>8, <1>12, <1>18 DEF One
<1>20. <<r, x>> \in M /\ <<r, c>> \notin M
  <2>1. East(r, x) \in Edges(M) <=> <<r, x>> \in M /\ <<r, x + 1>> \notin M
    BY <1>1, EdgeOf
  <2> QED  BY <1>1, <1>6, <1>16, <2>1
<1>21. <<y, c>> \in M
  <2>1. South(y, c) \in Edges(M) <=> <<y, c>> \in M /\ <<y + 1, c>> \notin M
    BY <1>1, EdgeOf
  <2> QED  BY <1>1, <1>19, <2>1
<1>22. <<y, x>> \in M
  <2>1. East(r, x).to = Corner(r + 1, x + 1)
    BY Ends
  <2>2. ring[2] = Corner(r + 1, c)
    BY <1>2, <1>6, <1>15, <2>1
  <2>3. StartsWell(M, ring)
    BY DEF Ring, Loop, Longer
  <2>4. <<r - 1, c>> \in M => <<r - 1, c - 1>> \in M
    BY <1>5, <2>2, <2>3 DEF StartsWell
  <2> QED  BY <1>6, <1>21, <2>4
<1> QED  BY <1>5, <1>6, <1>8, <1>16, <1>19, <1>20, <1>21, <1>22 DEF HoleAt, L

(* Around each hole there is an exterior: no hole is dropped.              *)
LEMMA HoleEnclosed ==
  ASSUME NEW H \in Nat, NEW W \in Nat, NEW M \in SUBSET Grid(H, W),
         NEW rings, Partition(M, rings), NEW j \in 1..Len(rings), Area(rings[j]) < 0
  PROVE  \E i \in 1..Len(rings) : Area(rings[i]) >= 0 /\ Encloses(rings[i], rings[j][1])
<1> DEFINE n == Len(rings)
<1>1. /\ n \in Nat /\ \A i \in 1..n : Ring(M, rings[i])
      /\ \A e \in Edges(M) :
           \E i \in 1..n : e \in Its(M, rings[i]) /\ \A k \in 1..n : e \in Its(M, rings[k]) => k = i
  BY DEF Partition
<1>2. M \in SUBSET (Int \X Int)
  BY OnRaster
<1>3. Wound(M, rings[j], 0)
  <2>1. PICK k : Wound(M, rings[j], k)
    BY <1>1, RingWinds
  <2>2. k = 0
    BY <1>1, <2>1, NegativeIsHole
  <2> QED  BY <2>1, <2>2
<1>4. PICK r \in Int, c \in Int, y \in Int, x \in Int : HoleAt(M, rings[j], r, c, y, x)
  <2>1. Ring(M, rings[j])
    BY <1>1
  <2> QED  BY <1>3, <2>1, HoleStarts
<1>5. /\ y = r - 1 /\ x = c - 1 /\ y + 1 = r /\ x + 1 = c /\ rings[j][1] = Corner(r, c)
      /\ <<y, x>> \in M /\ <<y, c>> \in M /\ <<r, x>> \in M /\ <<r, c>> \notin M
      /\ East(r, x) \in Its(M, rings[j]) /\ South(y, c) \in Its(M, rings[j])
      /\ Winding(rings[j], y, x) = 0
  BY <1>4 DEF HoleAt
<1>6. PICK i \in 1..n : Winding(rings[i], y, x) > 0
  <2> DEFINE f == Windings(rings, y, x)
  <2>1. f \in [Nat -> Int] /\ Total(f, n) = IF <<y, x>> \in M THEN 1 ELSE 0
    <3>1. CoverOnce(M, rings, y, x)
      BY WindingsAre
    <3> QED  BY <3>1 DEF CoverOnce
  <2>2. \A k \in 1..n : f[k] = Winding(rings[k], y, x)
    BY DEF Windings
  <2> HIDE DEF f, n
  <2>3. Total(f, n) > 0
    BY <1>5, <2>1
  <2>4. \E k \in 1..n : f[k] > 0
    BY <1>1, <2>1, <2>3, TotalPositive
  <2> QED  BY <2>2, <2>4
<1>7. i # j /\ Ring(M, rings[i])
  BY <1>1, <1>5, <1>6
<1>8. PICK k : Wound(M, rings[i], k)
  BY <1>7, RingWinds
<1>9. k = 1 /\ Winding(rings[i], y, x) = 1
  BY <1>6, <1>8 DEF Wound
<1>10. Area(rings[i]) >= 0
  <2>1. Area(rings[i]) \in Int /\ ~ (Area(rings[i]) < 0)
    BY <1>7, <1>8, <1>9, NegativeIsHole
  <2> QED  BY <2>1
<1> DEFINE L == Its(M, rings[i])
<1>11. East(r, x) \notin L /\ South(y, c) \notin L
  <2>1. East(r, x) \in Edges(M) /\ South(y, c) \in Edges(M)
    BY <1>5 DEF Its
  <2> QED  BY <1>1, <1>5, <1>7, <2>1
<1>12. /\ West(r, c) \notin L /\ West(y, c) \notin L /\ North(r, x) \notin L
       /\ East(y, x) \notin L /\ South(y, x) \notin L
  <2>1. West(r, c) \in Edges(M) => <<r, c>> \in M
    BY <1>2, EdgeOf
  <2>2. West(y, c) \in Edges(M) => <<y, c - 1>> \notin M
    BY <1>2, EdgeOf
  <2>3. North(r, x) \in Edges(M) => <<r - 1, x>> \notin M
    BY <1>2, EdgeOf
  <2>4. East(y, x) \in Edges(M) => <<y, x + 1>> \notin M
    BY <1>2, EdgeOf
  <2>5. South(y, x) \in Edges(M) => <<y + 1, x>> \notin M
    BY <1>2, EdgeOf
  <2>6. \A e \in L : e \in Edges(M)
    BY DEF Its
  <2> HIDE DEF L
  <2> QED  BY <1>5, <2>1, <2>2, <2>3, <2>4, <2>5, <2>6
<1> DEFINE N(p, q) == Winding(rings[i], p, q)
<1>13. N(r, c) \in Int /\ N(r, c) - N(r, x) = One(L, West(r, c)) - One(L, East(r, x))
  <2>1. /\ N(r, c) \in Int
        /\ N(r, c) - N(r, c - 1) = One(L, West(r, c)) - One(L, East(r, c - 1))
    BY <1>7, CellSteps
  <2> QED  BY <1>5, <2>1
<1>14. N(y, c) \in Int /\ N(y, c) - N(y, x) = One(L, West(y, c)) - One(L, East(y, x))
  <2>1. /\ N(y, c) \in Int
        /\ N(y, c) - N(y, c - 1) = One(L, West(y, c)) - One(L, East(y, c - 1))
    BY <1>7, CellSteps
  <2> QED  BY <1>5, <2>1
<1>15. N(r, x) \in Int /\ N(r, x) - N(y, x) = One(L, North(r, x)) - One(L, South(y, x))
  <2>1. /\ N(r, x) \in Int
        /\ N(r, x) - N(r - 1, x) = One(L, North(r, x)) - One(L, South(r - 1, x))
    BY <1>7, CellSteps
  <2> QED  BY <1>5, <2>1
<1>16. N(y, x) = 1
  BY <1>9
<1> HIDE DEF L, N
<1>17. N(r, c) = 1 /\ N(y, c) = 1 /\ N(r, x) = 1
  BY <1>11, <1>12, <1>13, <1>14, <1>15, <1>16 DEF One
<1>18. Encloses(rings[i], Corner(r, c))
  <2>1. \A p, q \in Int : N(p, q) = 1 => Inside(rings[i], 4 * p + 2, 4 * q + 2)
    BY <1>7, InsideIs DEF N
  <2>2. /\ Inside(rings[i], 4 * r + 2, 4 * c + 2) /\ Inside(rings[i], 4 * y + 2, 4 * c + 2)
        /\ Inside(rings[i], 4 * r + 2, 4 * x + 2) /\ Inside(rings[i], 4 * y + 2, 4 * x + 2)
    BY <1>16, <1>17, <2>1
  <2>3. 4 * r - 2 = 4 * y + 2 /\ 4 * c - 2 = 4 * x + 2
    BY <1>5
  <2>4. Corner(r, c)[1] = 4 * r /\ Corner(r, c)[2] = 4 * c
    BY DEF Corner
  <2> QED  BY <2>2, <2>3, <2>4 DEF Encloses
<1> QED  BY <1>5, <1>10, <1>18

-----------------------------------------------------------------------------
(* What is picked out of a sequence. *)

(* The recursion of Picked, up to k. *)
Picks(s, T, f, k) ==
  f = [n \in 0..k |-> IF n = 0 THEN << >>
                      ELSE IF n \in T THEN Append(f[n - 1], s[n]) ELSE f[n - 1]]

(* The recursive function that Picked is defined by exists. *)
LEMMA PicksExist == ASSUME NEW s, NEW T PROVE \A k \in Nat : \E f : Picks(s, T, f, k)
<1> DEFINE Upto == {k \in Nat : \E f : Picks(s, T, f, k)}
           Value(f, n) == IF n = 0 THEN << >>
                          ELSE IF n \in T THEN Append(f[n - 1], s[n]) ELSE f[n - 1]
<1>1. 0 \in Upto
  <2> DEFINE f == [n \in 0..0 |-> << >>]
  <2>1. f = [n \in 0..0 |-> Value(f, n)]
    OBVIOUS
  <2> HIDE DEF f
  <2>2. Picks(s, T, f, 0)
    BY <2>1 DEF Picks
  <2> QED  BY <2>2
<1>2. ASSUME NEW j \in Nat, j \in Upto PROVE j + 1 \in Upto
  <2>1. PICK g : Picks(s, T, g, j)
    BY <1>2
  <2>2. \A n \in 0..j : g[n] = Value(g, n)
    <3>1. g = [n \in 0..j |-> Value(g, n)]
      BY <2>1 DEF Picks
    <3> HIDE DEF Value
    <3> QED  BY <3>1
  <2> DEFINE f == [n \in 0..(j + 1) |-> IF n = j + 1 THEN Value(g, n) ELSE g[n]]
  <2>3. \A n \in 0..j : f[n] = g[n]
    <3> HIDE DEF Value
    <3> QED  OBVIOUS
  <2>4. f[j + 1] = Value(g, j + 1)
    <3> HIDE DEF Value
    <3> QED  OBVIOUS
  <2>5. f = [n \in 0..(j + 1) |-> f[n]]
    <3> HIDE DEF Value
    <3> QED  OBVIOUS
  <2> HIDE DEF f
  <2>6. ASSUME NEW n \in 0..(j + 1) PROVE f[n] = Value(f, n)
    <3>1. f[n] = Value(g, n)
      BY <2>2, <2>3, <2>4 DEF Value
    <3>2. n # 0 => f[n - 1] = g[n - 1]
      BY <2>3
    <3> QED  BY <3>1, <3>2
  <2> HIDE DEF Value
  <2>7. f = [n \in 0..(j + 1) |-> Value(f, n)]
    BY <2>5, <2>6
  <2>8. Picks(s, T, f, j + 1)
    BY <2>7 DEF Picks, Value
  <2> QED  BY <2>8
<1> HIDE DEF Upto
<1>3. \A k \in Nat : k \in Upto
  BY <1>1, <1>2, Climb
<1> QED  BY <1>3 DEF Upto

(* t is made of the elements of s at the places in T, each once; g says of *)
(* every element where it stood.                                           *)
Placed(s, T, t, g) ==
  /\ g \in [1..Len(t) -> T]
  /\ \A p, q \in 1..Len(t) : g[p] = g[q] => p = q
  /\ \A j \in T : \E q \in 1..Len(t) : g[q] = j
  /\ \A q \in 1..Len(t) : t[q] = s[g[q]]

LEMMA PlacedMore ==
  ASSUME NEW X, NEW s, NEW T, NEW t \in Seq(X), NEW g, Placed(s, T, t, g),
         NEW n, n \notin T, s[n] \in X
  PROVE  /\ Append(t, s[n]) \in Seq(X)
         /\ \E h : Placed(s, T \cup {n}, Append(t, s[n]), h)
<1> DEFINE u == Append(t, s[n])  m == Len(t)
           h == [q \in 1..(m + 1) |-> IF q = m + 1 THEN n ELSE g[q]]
<1>1. /\ m \in Nat /\ u \in Seq(X) /\ Len(u) = m + 1 /\ u[m + 1] = s[n]
      /\ \A q \in 1..m : u[q] = t[q]
  OBVIOUS
<1>2. /\ g \in [1..m -> T]
      /\ \A p, q \in 1..m : g[p] = g[q] => p = q
      /\ \A j \in T : \E q \in 1..m : g[q] = j
      /\ \A q \in 1..m : t[q] = s[g[q]]
  BY DEF Placed
<1> HIDE DEF u, m
<1>3. h[m + 1] = n /\ \A q \in 1..m : h[q] = g[q]
  BY <1>1
<1>4. \A q \in 1..(m + 1) : q = m + 1 \/ q \in 1..m
  BY <1>1
<1>5. m + 1 \in 1..(m + 1) /\ m + 1 \notin 1..m /\ \A q \in 1..m : q \in 1..(m + 1)
  BY <1>1
<1>6. h \in [1..(m + 1) -> T \cup {n}]
  BY <1>2, <1>4
<1> HIDE DEF h
<1>7. \A p, q \in 1..(m + 1) : h[p] = h[q] => p = q
  BY <1>2, <1>3, <1>4
<1>8. \A j \in T \cup {n} : \E q \in 1..(m + 1) : h[q] = j
  BY <1>2, <1>3, <1>5
<1>9. \A q \in 1..(m + 1) : u[q] = s[h[q]]
  BY <1>1, <1>2, <1>3, <1>4
<1>10. Placed(s, T \cup {n}, u, h)
  BY <1>1, <1>6, <1>7, <1>8, <1>9 DEF Placed
<1> QED  BY <1>1, <1>10 DEF u

(* Picked takes just the places it is given. *)
LEMMA PickedIs ==
  ASSUME NEW X, NEW s \in Seq(X), NEW T \in SUBSET (1..Len(s))
  PROVE  Picked(s, T) \in Seq(X) /\ \E g : Placed(s, T, Picked(s, T), g)
<1> DEFINE N == Len(s)
           Value(f, n) == IF n = 0 THEN << >>
                          ELSE IF n \in T THEN Append(f[n - 1], s[n]) ELSE f[n - 1]
           f == CHOOSE f : Picks(s, T, f, N)
<1>1. N \in Nat
  OBVIOUS
<1>2. Picks(s, T, f, N)
  BY <1>1, PicksExist
<1>3. Picked(s, T) = f[N]
  BY DEF Picked, Picks
<1> HIDE DEF f
<1>4. \A n \in 0..N : f[n] = Value(f, n)
  <2>1. f = [n \in 0..N |-> Value(f, n)]
    BY <1>2 DEF Picks
  <2> HIDE DEF Value
  <2> QED  BY <2>1
<1> DEFINE S(n) == {j \in T : j <= n}
           Fits(n) == f[n] \in Seq(X) /\ \E g : Placed(s, S(n), f[n], g)
           Good == {n \in Nat : n <= N => Fits(n)}
<1>5. \A j \in T : j \in Nat /\ j >= 1 /\ j <= N /\ s[j] \in X
  OBVIOUS
<1> HIDE DEF N, Fits
<1>6. 0 \in Good
  <2>1. f[0] = << >>
    BY <1>1, <1>4
  <2>2. S(0) = {}
    <3>1. \A j \in T : ~ (j <= 0)
      BY <1>5
    <3> QED  BY <3>1
  <2>3. << >> \in Seq(X) /\ 1..Len(<< >>) = {}
    OBVIOUS
  <2> DEFINE g == [q \in {} |-> 0]
  <2>4. g \in [{} -> {}]
    OBVIOUS
  <2>5. Placed(s, {}, << >>, g)
    BY <2>3, <2>4 DEF Placed
  <2>6. Fits(0)
    BY <2>1, <2>2, <2>3, <2>5 DEF Fits
  <2> QED  BY <2>6
<1>7. ASSUME NEW n \in Nat, n \in Good PROVE n + 1 \in Good
  <2> SUFFICES ASSUME n + 1 <= N PROVE Fits(n + 1)
    OBVIOUS
  <2>1. Fits(n)
    BY <1>1, <1>7
  <2> PICK m \in 0..N : m = n + 1 /\ m - 1 = n /\ m # 0
    BY <1>1
  <2>2. f[m] = IF m \in T THEN Append(f[n], s[m]) ELSE f[n]
    BY <1>4
  <2>3. m \notin S(n) /\ m \in Nat /\ \A j \in T : j <= m <=> j <= n \/ j = m
    <3>1. m \in Nat
      BY <1>1
    <3> QED  BY <1>5, <3>1
  <2>4. CASE m \in T
    <3>1. S(m) = S(n) \cup {m}
      BY <2>3, <2>4
    <3>2. s[m] \in X
      BY <1>5, <2>4
    <3>3. PICK g : Placed(s, S(n), f[n], g)
      BY <2>1 DEF Fits
    <3>4. f[n] \in Seq(X)
      BY <2>1 DEF Fits
    <3> HIDE DEF S
    <3>5. /\ Append(f[n], s[m]) \in Seq(X)
          /\ \E h : Placed(s, S(n) \cup {m}, Append(f[n], s[m]), h)
      BY <2>3, <3>2, <3>3, <3>4, PlacedMore
    <3> QED  BY <2>2, <2>4, <3>1, <3>5 DEF Fits
  <2>5. CASE m \notin T
    <3>1. S(m) = S(n)
      BY <2>3, <2>5
    <3> HIDE DEF S
    <3> QED  BY <2>1, <2>2, <2>5, <3>1 DEF Fits
  <2> QED  BY <2>4, <2>5
<1> HIDE DEF Good
<1>8. N \in Good
  BY <1>1, <1>6, <1>7, Climb
<1>9. S(N) = T
  <2>1. \A j \in T : j <= N
    BY <1>5
  <2> QED  BY <2>1
<1>10. Fits(N)
  BY <1>1, <1>8 DEF Good
<1> QED  BY <1>3, <1>9, <1>10 DEF Fits

(* The places of the holes that the nth polygon gets. *)
Share(n, exteriors, holes) ==
  {q \in DOMAIN holes :
    /\ Encloses(exteriors[n], holes[q][1])
    /\ \A m \in 1..(n - 1) : ~ Encloses(exteriors[m], holes[q][1])}

Exteriors(rings) == {j \in DOMAIN rings : Area(rings[j]) >= 0}
Lakes(rings) == {j \in DOMAIN rings : Area(rings[j]) < 0}

Shared(exteriors, holes) ==
  \A q \in 1..Len(holes) :
    \E n \in 1..Len(exteriors) :
      /\ q \in Share(n, exteriors, holes)
      /\ \A m \in 1..Len(exteriors) : q \in Share(m, exteriors, holes) => m = n

(* Each hole becomes one polygon's. *)
LEMMA HolesShared ==
  ASSUME NEW H \in Nat, NEW W \in Nat, NEW M \in SUBSET Grid(H, W),
         NEW rings, Partition(M, rings),
         NEW exteriors \in Seq(Seq(Int \X Int)), NEW holes \in Seq(Seq(Int \X Int)),
         NEW g, Placed(rings, Exteriors(rings), exteriors, g),
         NEW h, Placed(rings, Lakes(rings), holes, h)
  PROVE  Shared(exteriors, holes)
<1> DEFINE K == Len(exteriors)
<1>1. /\ K \in Nat /\ DOMAIN rings = 1..Len(rings) /\ DOMAIN holes = 1..Len(holes)
      /\ rings \in Seq(Seq(Int \X Int))
  BY DEF Partition
<1> SUFFICES ASSUME NEW q \in 1..Len(holes)
             PROVE  \E n \in 1..K : /\ q \in Share(n, exteriors, holes)
                                    /\ \A m \in 1..K : q \in Share(m, exteriors, holes) => m = n
  BY DEF Shared
<1>2. PICK j \in Lakes(rings) : holes[q] = rings[j]
  BY DEF Placed
<1>3. j \in 1..Len(rings) /\ Area(rings[j]) < 0
  BY <1>1, <1>2 DEF Lakes
<1>4. PICK i \in 1..Len(rings) : Area(rings[i]) >= 0 /\ Encloses(rings[i], rings[j][1])
  BY <1>3, HoleEnclosed
<1>5. i \in Exteriors(rings)
  BY <1>1, <1>4 DEF Exteriors
<1>6. PICK k \in 1..K : g[k] = i /\ exteriors[k] = rings[i]
  <2>1. /\ \A e \in Exteriors(rings) : \E k \in 1..K : g[k] = e
        /\ \A k \in 1..K : exteriors[k] = rings[g[k]]
    BY DEF Placed
  <2> HIDE DEF K
  <2>2. PICK k \in 1..K : g[k] = i
    BY <1>5, <2>1
  <2>3. exteriors[k] = rings[g[k]]
    BY <2>1
  <2> QED  BY <2>2, <2>3
<1> DEFINE Around == {m \in 1..K : Encloses(exteriors[m], holes[q][1])}
<1>7. k \in Around
  BY <1>2, <1>4, <1>6
<1>8. PICK n \in Around : \A m \in Around : n <= m
  <2>1. Around \in SUBSET Nat
    BY <1>1
  <2> HIDE DEF Around
  <2> QED  BY <1>7, <2>1, LeastNatural
<1> HIDE DEF K
<1>9. n \in 1..K /\ n \in Nat /\ Encloses(exteriors[n], holes[q][1])
  BY <1>1, <1>8
<1>10. \A m \in 1..K : m \in Nat /\ (Encloses(exteriors[m], holes[q][1]) => n <= m)
  BY <1>1, <1>8
<1>11. \A m \in 1..(n - 1) : ~ Encloses(exteriors[m], holes[q][1])
  BY <1>1, <1>9, <1>10
<1>12. q \in Share(n, exteriors, holes)
  BY <1>1, <1>9, <1>11 DEF Share
<1>13. ASSUME NEW m \in 1..K, q \in Share(m, exteriors, holes) PROVE m = n
  <2>1. m \in Nat /\ n <= m
    BY <1>10, <1>13 DEF Share
  <2>2. ~ (n \in 1..(m - 1))
    BY <1>9, <1>13 DEF Share
  <2> QED  BY <1>1, <1>9, <2>1, <2>2
<1> QED  BY <1>9, <1>12, <1>13

(* F says of every ring of the polygons which of rings it is. *)
Spots(polygons) == UNION {{<<p, q>> : q \in DOMAIN polygons[p]} : p \in DOMAIN polygons}

Drawn(rings, polygons, F) ==
  /\ F \in [Spots(polygons) -> 1..Len(rings)]
  /\ \A y, z \in Spots(polygons) : F[y] = F[z] => y = z
  /\ \A j \in 1..Len(rings) : \E z \in Spots(polygons) : F[z] = j
  /\ \A z \in Spots(polygons) : polygons[z[1]][z[2]] = rings[F[z]]

Polygons(exteriors, holes) ==
  [n \in DOMAIN exteriors |-> <<exteriors[n]>> \o Picked(holes, Share(n, exteriors, holes))]

(* The polygons hold every ring once. *)
LEMMA PolygonsDrawn ==
  ASSUME NEW X, NEW rings \in Seq(X), NEW A \in SUBSET (1..Len(rings)),
         NEW B, B = (1..Len(rings)) \ A,
         NEW exteriors \in Seq(X), NEW holes \in Seq(X),
         NEW g, Placed(rings, A, exteriors, g), NEW h, Placed(rings, B, holes, h),
         Shared(exteriors, holes)
  PROVE  \E F : Drawn(rings, Polygons(exteriors, holes), F)
<1> DEFINE K == Len(exteriors)  N == Len(rings)  D == Len(holes)
           S(n) == Share(n, exteriors, holes)
           t(n) == Picked(holes, S(n))
           P == Polygons(exteriors, holes)
           f(n) == CHOOSE f : Placed(holes, S(n), t(n), f)
           Z == Spots(P)
<1>1. /\ K \in Nat /\ N \in Nat /\ D \in Nat
      /\ DOMAIN exteriors = 1..K /\ DOMAIN holes = 1..D
      /\ \A n \in 1..K : exteriors[n] \in X
  OBVIOUS
<1>2. \A n : S(n) \in SUBSET (1..D)
  BY <1>1 DEF Share
<1>3. ASSUME NEW n PROVE t(n) \in Seq(X) /\ Placed(holes, S(n), t(n), f(n))
  <2> DEFINE T == S(n)
  <2>1. T \in SUBSET (1..Len(holes))
    BY <1>2
  <2> HIDE DEF T
  <2>2. Picked(holes, T) \in Seq(X) /\ \E e : Placed(holes, T, Picked(holes, T), e)
    BY <2>1, PickedIs
  <2> QED  BY <2>2 DEF T
<1> HIDE DEF S, f
<1>4. \A n : /\ f(n) \in [1..Len(t(n)) -> S(n)]
             /\ \A p, q \in 1..Len(t(n)) : f(n)[p] = f(n)[q] => p = q
             /\ \A j \in S(n) : \E q \in 1..Len(t(n)) : f(n)[q] = j
             /\ \A q \in 1..Len(t(n)) : t(n)[q] = holes[f(n)[q]]
  BY <1>3 DEF Placed
<1>5. DOMAIN P = 1..K /\ \A n \in 1..K : P[n] = <<exteriors[n]>> \o t(n)
  BY <1>1 DEF Polygons, S
<1> HIDE DEF t, P
<1>6. ASSUME NEW n \in 1..K
      PROVE  /\ DOMAIN P[n] = 1..(1 + Len(t(n))) /\ P[n][1] = exteriors[n]
             /\ \A q \in 1..Len(t(n)) : P[n][q + 1] = t(n)[q]
             /\ Len(t(n)) \in Nat
  <2> DEFINE u == t(n)  x == exteriors[n]
  <2>1. u \in Seq(X) /\ x \in X
    BY <1>1, <1>3
  <2> HIDE DEF u, x
  <2>2. LET v == <<x>> \o u
        IN /\ DOMAIN v = 1..(1 + Len(u)) /\ v[1] = x
           /\ \A q \in 1..Len(u) : v[q + 1] = u[q]
           /\ Len(u) \in Nat
    BY <2>1
  <2> QED  BY <1>5, <2>2 DEF u, x
<1>7. \A z : z \in Z <=> /\ z \in Nat \X Nat /\ z[1] \in 1..K
                         /\ z[2] \in 1..(1 + Len(t(z[1])))
  <2>1. \A z : z \in Z <=> \E p \in 1..K : \E q \in 1..(1 + Len(t(p))) : z = <<p, q>>
    BY <1>5, <1>6 DEF Spots
  <2>2. \A p \in 1..K : p \in Nat /\ \A q \in 1..(1 + Len(t(p))) : q \in Nat
    BY <1>1, <1>6
  <2> HIDE DEF Z, K
  <2> QED  BY <2>1, <2>2
<1> HIDE DEF Z
<1> DEFINE G(p, q) == IF q = 1 THEN g[p] ELSE h[f(p)[q - 1]]
           F == [z \in Z |-> G(z[1], z[2])]
<1>8. /\ g \in [1..K -> A] /\ \A p, q \in 1..K : g[p] = g[q] => p = q
      /\ \A j \in A : \E q \in 1..K : g[q] = j
      /\ \A q \in 1..K : exteriors[q] = rings[g[q]]
  BY DEF Placed
<1>9. /\ h \in [1..D -> B] /\ \A p, q \in 1..D : h[p] = h[q] => p = q
      /\ \A j \in B : \E q \in 1..D : h[q] = j
      /\ \A q \in 1..D : holes[q] = rings[h[q]]
  BY DEF Placed
<1>10. \A q \in 1..D : \E n \in 1..K : q \in S(n) /\ \A m \in 1..K : q \in S(m) => m = n
  BY DEF Shared, S
<1> HIDE DEF K, D, N
<1>11. ASSUME NEW z \in Z
       PROVE  \/ z[2] = 1 /\ F[z] = g[z[1]] /\ F[z] \in A
              \/ \E q \in 1..Len(t(z[1])) : /\ z[2] = q + 1 /\ f(z[1])[q] \in S(z[1])
                                            /\ F[z] = h[f(z[1])[q]] /\ F[z] \in B
  <2>1. F[z] = G(z[1], z[2])
    OBVIOUS
  <2> HIDE DEF F
  <2>2. z[1] \in 1..K /\ z[2] \in 1..(1 + Len(t(z[1]))) /\ Len(t(z[1])) \in Nat
    BY <1>6, <1>7
  <2>3. CASE z[2] = 1
    BY <1>8, <2>1, <2>2, <2>3
  <2>4. CASE z[2] # 1
    <3>1. PICK q \in 1..Len(t(z[1])) : z[2] = q + 1 /\ z[2] - 1 = q
      BY <2>2, <2>4
    <3>2. F[z] = h[f(z[1])[q]]
      BY <2>1, <2>4, <3>1
    <3>3. f(z[1])[q] \in S(z[1]) /\ f(z[1])[q] \in 1..D
      BY <1>2, <1>4
    <3> QED  BY <1>9, <3>1, <3>2, <3>3
  <2> QED  BY <2>3, <2>4
<1>12. \A p \in 1..K : \E z \in Z : z = <<p, 1>> /\ F[z] = g[p]
  <2> TAKE p \in 1..K
  <2>1. <<p, 1>> \in Z
    <3>1. p \in Nat /\ Len(t(p)) \in Nat
      BY <1>1, <1>6
    <3>2. 1 \in 1..(1 + Len(t(p)))
      BY <3>1
    <3> QED  BY <1>7, <3>1, <3>2
  <2> QED  BY <2>1
<1>13. \A p \in 1..K, q \in Nat :
         q \in 1..Len(t(p)) => \E z \in Z : z = <<p, q + 1>> /\ F[z] = h[f(p)[q]]
  <2> SUFFICES ASSUME NEW p \in 1..K, NEW q \in Nat, q \in 1..Len(t(p))
               PROVE  \E z \in Z : z = <<p, q + 1>> /\ F[z] = h[f(p)[q]]
    OBVIOUS
  <2>1. Len(t(p)) \in Nat /\ p \in Nat
    BY <1>1, <1>6
  <2>2. q + 1 \in Nat /\ q + 1 \in 1..(1 + Len(t(p))) /\ q + 1 # 1 /\ (q + 1) - 1 = q
    BY <2>1
  <2>3. <<p, q + 1>> \in Z
    BY <1>7, <2>1, <2>2
  <2>4. F[<<p, q + 1>>] = h[f(p)[q]]
    BY <2>2, <2>3
  <2> QED  BY <2>3, <2>4
<1>14. F \in [Z -> 1..N]
  <2>1. F = [z \in Z |-> F[z]]
    OBVIOUS
  <2> HIDE DEF F
  <2>2. \A z \in Z : F[z] \in 1..N
    BY <1>11 DEF N
  <2> QED  BY <2>1, <2>2
<1> HIDE DEF F
<1>15. ASSUME NEW y \in Z, NEW z \in Z, F[y] = F[z] PROVE y = z
  <2>1. y[1] \in 1..K /\ z[1] \in 1..K /\ y = <<y[1], y[2]>> /\ z = <<z[1], z[2]>>
    BY <1>7
  <2>2. CASE F[y] \in A
    <3>1. y[2] = 1 /\ z[2] = 1 /\ g[y[1]] = g[z[1]]
      BY <1>11, <1>15, <2>2
    <3> QED  BY <1>8, <2>1, <3>1
  <2>3. CASE F[y] \notin A
    <3>1. PICK q \in 1..Len(t(y[1])) : /\ y[2] = q + 1 /\ f(y[1])[q] \in S(y[1])
                                       /\ F[y] = h[f(y[1])[q]]
      BY <1>11, <2>3
    <3>2. PICK p \in 1..Len(t(z[1])) : /\ z[2] = p + 1 /\ f(z[1])[p] \in S(z[1])
                                       /\ F[z] = h[f(z[1])[p]]
      BY <1>11, <1>15, <2>3
    <3>3. f(y[1])[q] = f(z[1])[p] /\ f(y[1])[q] \in 1..D
      <4>1. f(y[1])[q] \in 1..D /\ f(z[1])[p] \in 1..D
        BY <1>2, <3>1, <3>2
      <4>2. h[f(y[1])[q]] = h[f(z[1])[p]]
        BY <1>15, <3>1, <3>2
      <4> QED  BY <1>9, <4>1, <4>2
    <3>4. y[1] = z[1]
      BY <1>10, <2>1, <3>1, <3>2, <3>3
    <3>5. q = p
      BY <1>4, <3>3, <3>4
    <3> QED  BY <2>1, <3>1, <3>2, <3>4, <3>5
  <2> QED  BY <2>2, <2>3
<1>16. ASSUME NEW j \in 1..N PROVE \E z \in Z : F[z] = j
  <2>1. CASE j \in A
    BY <1>8, <1>12, <2>1
  <2>2. CASE j \notin A
    <3>1. PICK d \in 1..D : h[d] = j
      BY <1>9, <2>2 DEF N
    <3>2. PICK n \in 1..K : d \in S(n)
      BY <1>10
    <3>3. PICK q \in 1..Len(t(n)) : f(n)[q] = d
      BY <1>4, <3>2
    <3>4. q \in Nat
      OBVIOUS
    <3> QED  BY <1>13, <3>1, <3>3, <3>4
  <2> QED  BY <2>1, <2>2
<1>17. ASSUME NEW z \in Z PROVE P[z[1]][z[2]] = rings[F[z]]
  <2>1. z[1] \in 1..K
    BY <1>7
  <2>2. CASE z[2] = 1 /\ F[z] = g[z[1]]
    <3>1. P[z[1]][1] = exteriors[z[1]] /\ exteriors[z[1]] = rings[g[z[1]]]
      BY <1>6, <1>8, <2>1
    <3> QED  BY <2>2, <3>1
  <2>3. CASE \E q \in 1..Len(t(z[1])) : /\ z[2] = q + 1 /\ f(z[1])[q] \in S(z[1])
                                        /\ F[z] = h[f(z[1])[q]]
    <3>1. PICK q \in 1..Len(t(z[1])) : /\ z[2] = q + 1 /\ f(z[1])[q] \in S(z[1])
                                       /\ F[z] = h[f(z[1])[q]]
      BY <2>3
    <3>2. P[z[1]][z[2]] = holes[f(z[1])[q]]
      BY <1>4, <1>6, <2>1, <3>1
    <3> QED  BY <1>2, <1>9, <3>1, <3>2
  <2> QED  BY <1>11, <2>2, <2>3
<1>18. Drawn(rings, P, F)
  BY <1>14, <1>15, <1>16, <1>17 DEF Drawn, Z, N
<1> QED  BY <1>18 DEF P

(* polygonize drops no ring and doubles none. *)
LEMMA PolygonizedDrawn ==
  ASSUME NEW H \in Nat, NEW W \in Nat, NEW M \in SUBSET Grid(H, W)
  PROVE  \E F : Drawn(Rings(Edges(M)), Polygonized(M), F)
<1> DEFINE rings == Rings(Edges(M))  A == Exteriors(rings)  B == Lakes(rings)
           exteriors == Picked(rings, A)  holes == Picked(rings, B)
           X == Seq(Int \X Int)
<1>1. Polygonized(M) = Polygons(exteriors, holes)
  BY DEF Polygonized, Polygons, Holes, Share, Exteriors, Lakes
<1>2. Partition(M, rings)
  BY RingsAre
<1> HIDE DEF rings
<1>3. rings \in Seq(X) /\ DOMAIN rings = 1..Len(rings)
  BY <1>2 DEF Partition
<1>4. A \in SUBSET (1..Len(rings)) /\ B = (1..Len(rings)) \ A
  <2>1. \A j \in 1..Len(rings) : Area(rings[j]) \in Int
    <3> TAKE j \in 1..Len(rings)
    <3>1. Ring(M, rings[j])
      BY <1>2 DEF Partition
    <3>2. PICK k : Wound(M, rings[j], k)
      BY <3>1, RingWinds
    <3> QED  BY <3>1, <3>2, NegativeIsHole
  <2>2. \A j \in 1..Len(rings) : Area(rings[j]) < 0 <=> ~ (Area(rings[j]) >= 0)
    BY <2>1
  <2> QED  BY <1>3, <2>2 DEF Exteriors, Lakes
<1>5. B \in SUBSET (1..Len(rings))
  BY <1>4
<1> HIDE DEF A, B, X
<1>6. exteriors \in Seq(X) /\ \E g : Placed(rings, A, exteriors, g)
  BY <1>3, <1>4, PickedIs
<1>7. holes \in Seq(X) /\ \E h : Placed(rings, B, holes, h)
  BY <1>3, <1>5, PickedIs
<1> HIDE DEF exteriors, holes
<1>8. PICK g : Placed(rings, A, exteriors, g)
  BY <1>6
<1>9. PICK h : Placed(rings, B, holes, h)
  BY <1>7
<1>10. Shared(exteriors, holes)
  BY <1>2, <1>6, <1>7, <1>8, <1>9, HolesShared DEF A, B, X
<1>11. \E F : Drawn(rings, Polygons(exteriors, holes), F)
  BY <1>3, <1>4, <1>6, <1>7, <1>8, <1>9, <1>10, PolygonsDrawn
<1> QED  BY <1>1, <1>11 DEF rings

(* The cells that the polygons of a mask hold are the mask.                *)
LEMMA PolygonsHoldMask ==
  ASSUME NEW H \in Nat, NEW W \in Nat, NEW M \in SUBSET Grid(H, W)
  PROVE  Rasterized(Polygonized(M), Grid(H, W)) = M
<1> DEFINE rings == Rings(Edges(M))  P == Polygonized(M)  N == Len(rings)
           Around(c) == UNION {{<<p, r>> : r \in {q \in DOMAIN P[p] :
                                  Inside(P[p][q], 4 * c[1] + 2, 4 * c[2] + 2)}} :
                                p \in DOMAIN P}
<1>1. Rasterized(P, Grid(H, W)) = {c \in Grid(H, W) : Cardinality(Around(c)) % 2 = 1}
  BY DEF Rasterized
<1>2. PICK F : Drawn(rings, P, F)
  BY PolygonizedDrawn
<1>3. Partition(M, rings)
  BY RingsAre
<1> HIDE DEF rings, P
<1>4. N \in Nat /\ \A j \in 1..N : Ring(M, rings[j])
  BY <1>3 DEF Partition
<1> HIDE DEF Around
<1> SUFFICES ASSUME NEW c \in Grid(H, W)
             PROVE  Cardinality(Around(c)) % 2 = 1 <=> c \in M
  BY <1>1 DEF P
<1>5. PICK r \in Int, x \in Int : c = <<r, x>>
  BY DEF Grid
<1> DEFINE f == Windings(rings, r, x)  S == {j \in 1..N : f[j] # 0}
           T == Around(c)  Z == Spots(P)
<1>6. f \in [Nat -> Int] /\ Total(f, N) = IF c \in M THEN 1 ELSE 0
  <2>1. CoverOnce(M, rings, r, x)
    BY <1>3, WindingsAre
  <2> QED  BY <1>5, <2>1 DEF CoverOnce
<1>7. \A j \in 1..N : /\ f[j] \in {-1, 0, 1}
                      /\ Inside(rings[j], 4 * r + 2, 4 * x + 2) <=> f[j] # 0
  <2> TAKE j \in 1..N
  <2>1. f[j] = Winding(rings[j], r, x)
    BY <1>4 DEF Windings
  <2>2. Ring(M, rings[j])
    BY <1>4
  <2>3. PICK k : Wound(M, rings[j], k)
    BY <2>2, RingWinds
  <2>4. Winding(rings[j], r, x) \in {-1, 0, 1}
    BY <2>3 DEF Wound
  <2>5. Inside(rings[j], 4 * r + 2, 4 * x + 2) <=> Winding(rings[j], r, x) # 0
    BY <2>2, InsideIs
  <2> QED  BY <2>1, <2>4, <2>5
<1> HIDE DEF f
<1>8. IsFiniteSet(S) /\ (Cardinality(S) % 2 = 1 <=> Total(f, N) # 0)
  <2>1. /\ \A j \in 1..N : f[j] \in {-1, 0, 1}
        /\ \A j : j \in S <=> j \in 1..N /\ f[j] # 0
        /\ Total(f, N) \in {-1, 0, 1}
    BY <1>6, <1>7
  <2> HIDE DEF S, N
  <2> QED  BY <1>4, <1>6, <2>1, OddCount
<1>9. \A z : z \in T <=> z \in Z /\ Inside(P[z[1]][z[2]], 4 * r + 2, 4 * x + 2)
  BY <1>5 DEF Spots, Around
<1>10. /\ F \in [Z -> 1..N] /\ \A y, z \in Z : F[y] = F[z] => y = z
       /\ \A j \in 1..N : \E z \in Z : F[z] = j
       /\ \A z \in Z : P[z[1]][z[2]] = rings[F[z]]
  BY <1>2 DEF Drawn
<1> HIDE DEF T, Z, N
<1>11. \A z : z \in T <=> z \in Z /\ F[z] \in S
  BY <1>7, <1>9, <1>10
<1> HIDE DEF S
<1>12. ExistsBijection(S, T)
  <2> DEFINE G == [j \in S |-> CHOOSE z \in Z : F[z] = j]
  <2>1. \A j \in S : j \in 1..N
    BY DEF S
  <2>2. ASSUME NEW j \in S PROVE G[j] \in Z /\ F[G[j]] = j
    BY <1>10, <2>1
  <2>3. G = [j \in S |-> G[j]]
    OBVIOUS
  <2> HIDE DEF G
  <2>4. \A j \in S : G[j] \in T
    BY <1>11, <2>2
  <2>5. G \in [S -> T]
    BY <2>3, <2>4
  <2>6. \A i, j \in S : G[i] = G[j] => i = j
    BY <2>2
  <2>7. \A z \in T : \E j \in S : G[j] = z
    <3> TAKE z \in T
    <3>1. z \in Z /\ F[z] \in S
      BY <1>11
    <3>2. G[F[z]] = z
      BY <1>10, <2>2, <3>1
    <3> QED  BY <3>1, <3>2
  <2>8. G \in Bijection(S, T)
    BY <2>5, <2>6, <2>7 DEF Bijection, Injection, Surjection, IsInjective
  <2> QED  BY <2>8 DEF ExistsBijection
<1>13. Cardinality(T) = Cardinality(S)
  BY <1>8, <1>12, FS_Bijection
<1> QED  BY <1>6, <1>8, <1>13 DEF T


(* TerminalCarve instantiates the same definitions.                        *)
LEMMA SameRings ==
  ASSUME NEW M PROVE D8!Rings(D8!Edges(M)) = Rings(Edges(M))
BY DEF Rings, D8!Rings, Follow, D8!Follow, LastPushed, D8!LastPushed, Before, D8!Before,
       Edges, D8!Edges, Sides, D8!Sides, Cardinality, D8!Cardinality, Last, D8!Last

LEMMA SameArea == ASSUME NEW ring PROVE D8!Area(ring) = Area(ring)
BY DEF Area, D8!Area

LEMMA SamePicked == ASSUME NEW s, NEW T PROVE D8!Picked(s, T) = Picked(s, T)
BY DEF Picked, D8!Picked

LEMMA SameHoles ==
  ASSUME NEW n, NEW exteriors, NEW holes
  PROVE  D8!Holes(n, exteriors, holes) = Holes(n, exteriors, holes)
BY DEF Holes, D8!Holes, Encloses, D8!Encloses, Picked, D8!Picked,
       Inside, D8!Inside, Crossings, D8!Crossings, Crosses, D8!Crosses,
       Cardinality, D8!Cardinality

LEMMA SamePolygons ==
  ASSUME NEW M PROVE D8!Polygonized(M) = Polygonized(M)
<1> DEFINE rings == Rings(Edges(M))
           A == {j \in DOMAIN rings : Area(rings[j]) >= 0}
           B == {j \in DOMAIN rings : Area(rings[j]) < 0}
           exteriors == Picked(rings, A)  holes == Picked(rings, B)
<1>1. D8!Rings(D8!Edges(M)) = rings
  BY SameRings
<1> HIDE DEF rings
<1>2. /\ A = {j \in DOMAIN rings : D8!Area(rings[j]) >= 0}
      /\ B = {j \in DOMAIN rings : D8!Area(rings[j]) < 0}
  BY SameArea
<1> HIDE DEF A, B
<1>3. exteriors = D8!Picked(rings, A) /\ holes = D8!Picked(rings, B)
  BY SamePicked
<1> HIDE DEF exteriors, holes
<1>4. D8!Polygonized(M) =
        [n \in DOMAIN exteriors |-> <<exteriors[n]>> \o D8!Holes(n, exteriors, holes)]
  BY <1>1, <1>2, <1>3 DEF D8!Polygonized
<1>5. Polygonized(M) =
        [n \in DOMAIN exteriors |-> <<exteriors[n]>> \o Holes(n, exteriors, holes)]
  BY DEF Polygonized, rings, A, B, exteriors, holes
<1>6. \A n \in DOMAIN exteriors : D8!Holes(n, exteriors, holes) = Holes(n, exteriors, holes)
  BY SameHoles
<1> QED  BY <1>4, <1>5, <1>6

LEMMA SameRaster ==
  ASSUME NEW M, NEW C PROVE D8!Rasterized(M, C) = Rasterized(M, C)
BY DEF Rasterized, D8!Rasterized, Inside, D8!Inside, Crossings, D8!Crossings,
       Crosses, D8!Crosses, Cardinality, D8!Cardinality

(* On a tile of any size, the polygons made of what was carved, whatever   *)
(* its shape, give the same cells when they are rasterized: polygonize     *)
(* loses no cell, fills no hole and drops none, where cells touch at       *)
(* corners and where there are islands in lakes.                           *)
THEOREM PolygonsExactHolds == CarveSpec => []PolygonsExact
<1>1. SeedInv /\ TraceInv => PolygonsExact
  <2> SUFFICES ASSUME SeedInv, TraceInv, carvePc = "done"
               PROVE  D8!Rasterized(D8!Polygonized(visited), D8!Cells) = visited
    BY DEF PolygonsExact, D8!PolygonsExact, D8!Polygon
  <2>1. visited \subseteq D8!Cells
    BY DEF SeedInv, TraceInv
  <2>2. Rows \in Nat /\ Cols \in Nat /\ D8!Cells = Grid(Rows, Cols)
    BY D8Assumption DEF D8!CarveAssumption, D8!Cells, Grid
  <2>3. Rasterized(Polygonized(visited), Grid(Rows, Cols)) = visited
    BY <2>1, <2>2, PolygonsHoldMask
  <2> QED  BY <2>2, <2>3, SamePolygons, SameRaster
<1>2. CarveInit => TraceInv
  BY DEF CarveInit, D8!Init, TraceInv
<1>3. CarveSpec => [](SeedInv /\ TraceInv)
  BY <1>2, SeedInit, SeedNext, TraceNext, PTL DEF CarveSpec
<1> QED  BY <1>1, <1>3, PTL
=============================================================================
