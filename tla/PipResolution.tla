---------------------------- MODULE PipResolution ----------------------------
(***************************************************************************)
(* resolve_via_pip at a selected level: the catchments around the outlet   *)
(* are decoded, filtered to the level, tested for containment, and the     *)
(* best of several hits is chosen by a cascade whose deciding rule is      *)
(* reported with the answer.                                               *)
(***************************************************************************)
EXTENDS Integers, FiniteSets

CONSTANTS
  UnitIds,    \* unit ids
  Areas,      \* local and upstream areas
  Stores,     \* the catchments around the outlet: functions on sets of ids
  None        \* no upstream area; no unit; no tie-break

Catchment ==
  [here : BOOLEAN,     \* of the selected level
   decodes : BOOLEAN,
   place : {"inside", "boundary", "outside"},   \* where the outlet lies
   upstream : Areas \cup {None}, area : Areas]

PipAssumption ==
  /\ UnitIds \subseteq Int /\ Areas \subseteq Int
  /\ None \notin UnitIds \cup Areas
  /\ None \notin {"highestUpstreamArea", "highestLocalArea", "lowestUnitId"}
  /\ \A s \in Stores : /\ DOMAIN s \subseteq UnitIds /\ IsFiniteSet(DOMAIN s)
                       /\ s \in [DOMAIN s -> Catchment]

VARIABLES
  store,      \* what query_by_bbox returns
  failures,   \* how many catchments did not decode
  decoded,    \* the decoded ones of the selected level
  hits,       \* the catchments the outlet is in, or on the boundary of
  verdict,    \* how the call stands
  winner,     \* the terminal unit
  tieBreak    \* the reported PipTieBreak

vars == <<store, failures, decoded, hits, verdict, winner, tieBreak>>

Init ==
  /\ store \in Stores
  /\ failures = 0 /\ decoded = {} /\ hits = {}
  /\ verdict = "start" /\ winner = None /\ tieBreak = None

-----------------------------------------------------------------------------

(* query_by_bbox, which may fail; then every catchment is decoded, and the *)
(* level filtered after that.                                              *)
Query ==
  LET failed == {u \in DOMAIN store : ~store[u].decodes} IN
  /\ verdict = "start"
  /\ \/ /\ failures' = Cardinality(failed)
        /\ decoded' = {u \in DOMAIN store \ failed : store[u].here}
        /\ verdict' = IF DOMAIN store = {}
                      THEN "outsideAllCatchments" ELSE "contains"
     \/ /\ verdict' = "datasetRead"
        /\ UNCHANGED <<failures, decoded>>
  /\ UNCHANGED <<store, hits, winner, tieBreak>>

(* Mutant of Contains: catchments of every level are tested. *)
ContainsAllLevels ==
  /\ verdict = "contains"
  /\ hits' = {u \in DOMAIN store : store[u].decodes /\ store[u].place = "inside"}
  /\ verdict' = IF hits' = {} THEN "intersects" ELSE "rank"
  /\ UNCHANGED <<store, failures, decoded, winner, tieBreak>>

(* Phase 1: strict containment. *)
Contains ==
  /\ verdict = "contains"
  /\ hits' = {u \in decoded : store[u].place = "inside"}
  /\ verdict' = IF hits' = {} THEN "intersects" ELSE "rank"
  /\ UNCHANGED <<store, failures, decoded, winner, tieBreak>>

(* Mutant of Intersects: a failure among several is taken for corruption. *)
IntersectsAnyCorrupt ==
  /\ verdict = "intersects"
  /\ hits' = {u \in decoded : store[u].place # "outside"}
  /\ verdict' = IF hits' # {} THEN "rank"
                ELSE IF failures > 0 THEN "allGeometriesCorrupt"
                ELSE "outsideAllCatchments"
  /\ UNCHANGED <<store, failures, decoded, winner, tieBreak>>

(* Phase 2: the boundary counts when nothing contains the outlet. *)
Intersects ==
  /\ verdict = "intersects"
  /\ hits' = {u \in decoded : store[u].place # "outside"}
  /\ verdict' = IF hits' # {} THEN "rank"
                ELSE IF failures > 0 /\ failures = Cardinality(DOMAIN store)
                THEN "allGeometriesCorrupt" ELSE "outsideAllCatchments"
  /\ UNCHANGED <<store, failures, decoded, winner, tieBreak>>

(* The cascade: upstream area, of which Some beats None, area, id. *)
Drains(u, v) ==
  LET x == store[u].upstream  y == store[v].upstream IN
  x # None /\ (y = None \/ (y # None /\ x > y))

Before(u, v) ==
  \/ Drains(u, v)
  \/ /\ store[u].upstream = store[v].upstream
     /\ \/ store[u].area > store[v].area
        \/ store[u].area = store[v].area /\ u < v

First(S) == {u \in S : \A v \in S \ {u} : Before(u, v)}

(* Mutant of Reason: the areas are compared and the upstream areas are not. *)
ReasonByArea(u, v) ==
  IF store[u].area # store[v].area THEN "highestLocalArea"
  ELSE IF store[u].upstream # store[v].upstream THEN "highestUpstreamArea"
  ELSE "lowestUnitId"

(* Which rule put hits[0] before hits[1]. *)
Reason(u, v) ==
  IF store[u].upstream # store[v].upstream THEN "highestUpstreamArea"
  ELSE IF store[u].area # store[v].area THEN "highestLocalArea"
  ELSE "lowestUnitId"

(* One hit is the answer; several are sorted, and the first two tell what  *)
(* broke the tie.                                                          *)
Rank ==
  /\ verdict = "rank"
  /\ \E u \in First(hits) :
       /\ winner' = u
       /\ IF hits = {u} THEN tieBreak' = None
          ELSE \E v \in First(hits \ {u}) : tieBreak' = Reason(u, v)
  /\ verdict' = "ok"
  /\ UNCHANGED <<store, failures, decoded, hits>>

Next == Query \/ Contains \/ Intersects \/ Rank

Spec == Init /\ [][Next]_vars

-----------------------------------------------------------------------------
(* Reference definitions. *)

(* The catchments of the level that can be tested for the outlet. *)
Usable == {u \in DOMAIN store : store[u].here /\ store[u].decodes}
Inside == {u \in Usable : store[u].place = "inside"}
Touching == {u \in Usable : store[u].place = "boundary"}
Claimants == IF Inside # {} THEN Inside ELSE Touching

-----------------------------------------------------------------------------
(* Properties. *)

(* The answer is a catchment of the level that holds the outlet, one that  *)
(* merely touches it only if none contains it, and no other claimant       *)
(* drains more.                                                            *)
AnswerIsClaimant ==
  verdict = "ok" =>
    /\ winner \in Claimants
    /\ \A u \in Claimants : ~Drains(u, winner)

(* The reported tie-break is the rule that singled the winner out: by it,  *)
(* and not by an earlier one, the winner beats every claimant left.        *)
TieBreakTold ==
  verdict = "ok" =>
    LET rivals == Claimants \ {winner}
        equal == {u \in rivals : store[u].upstream = store[winner].upstream}
        same == {u \in equal : store[u].area = store[winner].area}
    IN
    /\ tieBreak = None <=> rivals = {}
    /\ tieBreak = "highestUpstreamArea" <=> rivals # {} /\ equal = {}
    /\ tieBreak = "highestLocalArea" <=>
         /\ equal # {} /\ same = {}
         /\ \A u \in equal : store[u].area < store[winner].area
    /\ tieBreak = "lowestUnitId" <=>
         same # {} /\ \A u \in same : winner < u

(* The errors are exact: no error while some usable catchment holds the    *)
(* outlet, and corruption only if not one catchment decoded.               *)
ErrorsExact ==
  /\ verdict \in {"outsideAllCatchments", "allGeometriesCorrupt"} =>
       Claimants = {}
  /\ verdict = "allGeometriesCorrupt" =>
       \A u \in DOMAIN store : ~store[u].decodes
  /\ verdict = "outsideAllCatchments" /\ DOMAIN store # {} =>
       \E u \in DOMAIN store : store[u].decodes
=============================================================================
