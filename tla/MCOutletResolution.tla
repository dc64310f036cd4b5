-------------------------- MODULE MCOutletResolution --------------------------
(* Instances of OutletResolution for TLC. *)
EXTENDS OutletResolution

(* The rows of the two searches, of which no store is needed to name. *)
SnapRows == INSTANCE SnapResolution WITH Stores <- {}
PipRows == INSTANCE PipResolution WITH Stores <- {}

(* What a snap store may hold under one id: sound targets of the level     *)
(* with every weight and role, near and far, inside the box or the circle, *)
(* and targets of another level or without a usable geometry.              *)
UsefulTargets ==
  {t \in SnapRows!Target : /\ t.here /\ t.shape = "sound" /\ t.near <= 2
                       /\ t.distance \in t.near .. (t.near + 1)}
UselessTargets ==
  {t \in SnapRows!Target :
     /\ ~(t.here /\ t.shape = "sound")
     /\ t.weight = 2 /\ t.mainstem /\ t.near = t.distance
     /\ t.near = 1 \/ (t.near = 2 /\ t.here /\ t.shape = "corrupt")}

(* Every store of up to three targets. *)
AnySnapStore ==
  UNION {[S -> UsefulTargets \cup UselessTargets] : S \in SUBSET SnapIds}

(* A catchment that does not decode, is of another level or lies outside   *)
(* has one size; the others have every upstream and local area.            *)
Catchments ==
  {c \in PipRows!Catchment :
     (c.here /\ c.decodes /\ c.place # "outside")
       \/ (c.upstream = None /\ c.area = 1 /\ (c.decodes \/ c.place = "inside"))}

(* Every neighbourhood of up to three catchments. *)
AnyCatchmentStore == UNION {[S -> Catchments] : S \in SUBSET UnitIds}

(* A graph without units, of one level, and of two. *)
SomeLevelIndexes == {{}, {1}, {0, 1}}

(* No declaration, and two in either order that differ in name, in         *)
(* artifact, or in neither.                                                *)
Candidates ==
  {d \in [name : {1, 2}, snap : {1, 2}, references : {{0}, {1}, {0, 1}}] :
     d.name = 1 \/ d.snap = 1}
SomeManifests ==
  {<< >>} \cup {<<d>> : d \in Candidates} \cup {<<d, e>> : d, e \in Candidates}

(* Every manifest is dispatched; the searches follow for one of each kind. *)
SearchBound ==
  \/ method = "undecided"
  \/ levelIndex = {1}
     /\ manifest \in {<< >>, <<[name |-> 1, snap |-> 1, references |-> {1}]>>}

BoundedNext ==
  /\ Next
  /\ SearchBound
  /\ method' # method /\ ~SearchBound' =>
       store' = [i \in {} |-> None]

BoundedSpec == Init /\ [][BoundedNext]_vars
=============================================================================
