--------------------------- MODULE OutletResolution ---------------------------
(***************************************************************************)
(* Resolving an outlet from the engine's side: select_level picks the      *)
(* finest level of the graph, snap_for_level picks the snap declaration of *)
(* that level, and resolve_outlet_authority_at_level dispatches to the     *)
(* snap store of the declaration, or to the catchments when there is none. *)
(* The two searches are SnapResolution and PipResolution.                  *)
(*                                                                         *)
(* What a snap store or the catchments around the outlet hold is left open *)
(* until the search that looks at them begins.                             *)
(***************************************************************************)
EXTENDS Integers, Sequences, FiniteSets

CONSTANTS
  Levels,       \* HFX levels: integers
  LevelIndexes, \* the sets of levels a graph may have
  Manifests,    \* the sequences of snap declarations a session may hold
  SnapIds, Weights, Distances, Radii, Tolerance, SnapStores,
  UnitIds, Areas, CatchmentStores,
  None

VARIABLES
  levelIndex,   \* the levels of the session's graph
  manifest,     \* its snap declarations, in manifest order
  level,        \* the selected level
  declaration,  \* the position in the manifest of the snap store searched
  method,       \* how the outlet is being resolved
  store,        \* the rows searched: snap targets or catchments
  radius, strategy, pending, total, scored,   \* the snap search
  decoded, hits, tieBreak,                    \* the catchment search
  failures, verdict, winner                   \* of either

request == <<levelIndex, manifest, level, declaration, method>>
snapOnly == <<radius, strategy, pending, total, scored>>
pipOnly == <<decoded, hits, tieBreak>>
vars == <<request, store, snapOnly, pipOnly, failures, verdict, winner>>

Snap == INSTANCE SnapResolution WITH Stores <- SnapStores
Pip == INSTANCE PipResolution WITH Stores <- CatchmentStores

(* A snap declaration of the manifest: its metadata name, its artifact and *)
(* the levels of the units its targets refer to.                           *)
Declaration == [name : Nat, snap : Nat, references : SUBSET Levels]

ASSUME OutletAssumption ==
  /\ Levels \subseteq Int /\ IsFiniteSet(Levels)
  /\ LevelIndexes \subseteq SUBSET Levels
  /\ \A m \in Manifests : m \in Seq(Declaration)
  /\ None \notin Int
  /\ Snap!SnapAssumption /\ Pip!PipAssumption

Init ==
  /\ levelIndex \in LevelIndexes /\ manifest \in Manifests
  /\ level = None /\ declaration = None /\ method = "undecided"
  /\ store = << >>
  /\ radius \in Radii /\ strategy \in Snap!Strategies
  /\ pending = {} /\ total = 0 /\ scored = {}
  /\ decoded = {} /\ hits = {} /\ tieBreak = None
  /\ failures = 0 /\ verdict = "start" /\ winner = None

-----------------------------------------------------------------------------

(* Engine::select_level: the finest level, if the graph has any. *)
SelectLevel ==
  /\ method = "undecided" /\ level = None /\ verdict = "start"
  /\ IF levelIndex = {}
     THEN verdict' = "levelIndexEmpty" /\ UNCHANGED level
     ELSE /\ level' \in {l \in levelIndex : \A k \in levelIndex : k <= l}
          /\ UNCHANGED verdict
  /\ UNCHANGED <<levelIndex, manifest, declaration, method, store, snapOnly,
                 pipOnly, failures, winner>>

(* The declarations that name the selected level. *)
Declared(l) == {i \in DOMAIN manifest : l \in manifest[i].references}

(* Mutant of SnapForLevel: the first one declared, whatever its name. *)
SnapForLevelFirst(l) == {i \in Declared(l) : \A j \in Declared(l) : i <= j}

(* snap_for_level: least name, then least artifact path; min_by keeps the  *)
(* first of equals.                                                        *)
SnapForLevel(l) ==
  LET Less(a, b) ==
        \/ manifest[a].name < manifest[b].name
        \/ manifest[a].name = manifest[b].name /\ manifest[a].snap < manifest[b].snap
      least == {i \in Declared(l) : \A j \in Declared(l) : ~Less(j, i)}
  IN {i \in least : \A j \in least : i <= j}

(* resolve_outlet_authority_at_level with a snap store for the level. *)
DispatchSnap ==
  /\ method = "undecided" /\ level # None
  /\ declaration' \in SnapForLevel(level)
  /\ method' = "snap"
  /\ store' \in SnapStores
  /\ UNCHANGED <<levelIndex, manifest, level, snapOnly, pipOnly, failures,
                 verdict, winner>>

(* No declaration names the level: point in polygon over the catchments. *)
DispatchPip ==
  /\ method = "undecided" /\ level # None
  /\ SnapForLevel(level) = {}
  /\ method' = "pip"
  /\ store' \in CatchmentStores
  /\ UNCHANGED <<levelIndex, manifest, level, declaration, snapOnly, pipOnly,
                 failures, verdict, winner>>

Next ==
  \/ SelectLevel \/ DispatchSnap \/ DispatchPip
  \/ method = "snap" /\ Snap!Next /\ UNCHANGED <<request, pipOnly>>
  \/ method = "pip" /\ Pip!Next /\ UNCHANGED <<request, snapOnly>>

Spec == Init /\ [][Next]_vars

-----------------------------------------------------------------------------
(* Properties. *)

(* The dispatch does not depend on the order of the manifest: of the snap  *)
(* declarations for the finest level, the one searched is least by name    *)
(* and artifact; and the catchments are only searched when there is none.  *)
DispatchByDeclaration ==
  /\ method # "undecided" =>
       /\ level \in levelIndex /\ \A k \in levelIndex : k <= level
       /\ method = "pip" <=> Declared(level) = {}
  /\ method = "snap" =>
       \A i \in Declared(level) :
         \/ manifest[declaration].name < manifest[i].name
         \/ /\ manifest[declaration].name = manifest[i].name
            /\ manifest[declaration].snap <= manifest[i].snap

(* A snap search resolves to the target the strategy names, whatever order *)
(* the store returned its rows in.                                         *)
ResolvesToBest == method = "snap" => Snap!ResolvesToBest

(* A wider snap search never loses the channel a narrower one found.       *)
WideningKeeps == method = "snap" => Snap!WideningKeeps

(* A catchment search answers with a catchment of the level that holds the *)
(* outlet and that no other such catchment outranks, and the tie-break it  *)
(* reports is the rule that singled the answer out.                        *)
AnswerIsClaimant == method = "pip" => Pip!AnswerIsClaimant /\ Pip!TieBreakTold

(* Both searches fail exactly when they have to: no candidate means that   *)
(* no usable one is there, corruption that not one geometry was usable.    *)
ErrorsExact ==
  /\ method = "snap" => Snap!ErrorsExact
  /\ method = "pip" => Pip!ErrorsExact
=============================================================================
