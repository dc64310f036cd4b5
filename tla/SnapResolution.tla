---------------------------- MODULE SnapResolution ----------------------------
(***************************************************************************)
(* resolve_via_snap_store at a selected level: the snap targets whose      *)
(* stored box meets the search box are scored one by one, and the best of  *)
(* those inside the search radius gives the terminal unit.                 *)
(*                                                                         *)
(* Rows come back in whatever order the store reads them, so the model     *)
(* scores them in any order.  A target is near the outlet in two senses:   *)
(* `near` is the smallest radius whose search box meets its stored box,    *)
(* and `distance` is the distance of its closest point, which is no less.  *)
(***************************************************************************)
EXTENDS Integers, FiniteSets

CONSTANTS
  SnapIds,    \* ids of snap targets
  Weights,
  Distances,  \* distances and tolerances, in metres
  Radii,      \* search radii
  Tolerance,  \* distance_tolerance_m
  Stores,     \* the snap stores considered: functions on sets of snap ids
  None

Strategies == {"weightFirst", "distanceFirst"}

Target ==
  [here : BOOLEAN,       \* its unit is of the selected level
   shape : {"sound", "corrupt", "pointless"},  \* WKB and closest point
   weight : Weights, mainstem : BOOLEAN,
   near : Distances, distance : Distances]

SnapAssumption ==
  /\ SnapIds \subseteq Int /\ Weights \subseteq Int
  /\ Distances \subseteq Int /\ Radii \subseteq Int
  /\ Tolerance \in Nat /\ None \notin SnapIds
  /\ \A s \in Stores :
       /\ DOMAIN s \subseteq SnapIds /\ IsFiniteSet(DOMAIN s)
       /\ s \in [DOMAIN s -> Target]
       /\ \A t \in DOMAIN s : s[t].near <= s[t].distance

VARIABLES
  store,      \* the snap store: its targets by id
  radius, strategy,
  pending,    \* targets returned by the box query and not yet looked at
  total,      \* how many the box query returned
  failures,   \* how many could not be decoded or have no closest point
  scored,     \* the targets inside the radius
  verdict,    \* how the call stands
  winner      \* the target resolved to

problem == <<store, radius, strategy>>
vars == <<problem, pending, total, failures, scored, verdict, winner>>

Init ==
  /\ store \in Stores /\ radius \in Radii /\ strategy \in Strategies
  /\ pending = {} /\ total = 0 /\ failures = 0 /\ scored = {}
  /\ verdict = "start" /\ winner = None

-----------------------------------------------------------------------------

InBox == {t \in DOMAIN store : store[t].near <= radius}

(* query_by_bbox, which may fail; an empty answer ends the call. *)
Query ==
  /\ verdict = "start"
  /\ \/ /\ pending' = InBox
        /\ total' = Cardinality(InBox)
        /\ verdict' = IF InBox = {} THEN "noSnapCandidates" ELSE "scoring"
     \/ /\ verdict' = "datasetRead"
        /\ UNCHANGED <<pending, total>>
  /\ UNCHANGED <<problem, failures, scored, winner>>

(* The next target of the answer. *)
Take(t) ==
  /\ verdict = "scoring"
  /\ t \in pending
  /\ pending' = pending \ {t}
  /\ UNCHANGED <<problem, total, verdict, winner>>

(* A target of another level is skipped before it is decoded. *)
OtherLevel(t) ==
  /\ Take(t)
  /\ ~store[t].here
  /\ UNCHANGED <<failures, scored>>

(* Its WKB does not decode, or it has no closest point. *)
Unusable(t) ==
  /\ Take(t)
  /\ store[t].here /\ store[t].shape # "sound"
  /\ failures' = failures + 1
  /\ UNCHANGED scored

(* Inside the box and outside the circle. *)
TooFar(t) ==
  /\ Take(t)
  /\ store[t].here /\ store[t].shape = "sound"
  /\ store[t].distance > radius
  /\ UNCHANGED <<failures, scored>>

Score(t) ==
  /\ Take(t)
  /\ store[t].here /\ store[t].shape = "sound"
  /\ store[t].distance <= radius
  /\ scored' = scored \cup {t}
  /\ UNCHANGED failures

(* Mutants of Precedes: the cascade ends without the id; and the distance  *)
(* comes before the weight.                                                *)
PrecedesNoId(a, b, withDistance) ==
  LET x == store[a]  y == store[b] IN
  \/ x.weight > y.weight
  \/ /\ x.weight = y.weight
     /\ \/ x.mainstem /\ ~y.mainstem
        \/ /\ x.mainstem = y.mainstem
           /\ withDistance /\ x.distance < y.distance

PrecedesNearer(a, b, withDistance) ==
  LET x == store[a]  y == store[b] IN
  \/ withDistance /\ x.distance < y.distance
  \/ /\ withDistance => x.distance = y.distance
     /\ x.weight > y.weight \/ (x.weight = y.weight /\ a < b)

(* vector_dominance_order: weight, mainstem, distance if asked for, id. *)
Precedes(a, b, withDistance) ==
  LET x == store[a]  y == store[b] IN
  \/ x.weight > y.weight
  \/ /\ x.weight = y.weight
     /\ \/ x.mainstem /\ ~y.mainstem
        \/ /\ x.mainstem = y.mainstem
           /\ \/ withDistance /\ x.distance < y.distance
              \/ /\ withDistance => x.distance = y.distance
                 /\ a < b

(* min_by: a member that no member precedes. *)
Minimal(S, withDistance) ==
  {a \in S : \A b \in S : ~Precedes(b, a, withDistance)}

(* The members within the tolerance of the nearest one. *)
Band(S) ==
  {a \in S : \A b \in S : store[a].distance <= store[b].distance + Tolerance}

(* ConfiguredVectorCandidateRanker::rank *)
Ranked(S) ==
  IF strategy = "weightFirst" THEN Minimal(S, TRUE) ELSE Minimal(Band(S), FALSE)

(* Mutant of Conclude: some failure is enough to report corruption. *)
ConcludeAnyCorrupt ==
  /\ verdict = "scoring" /\ pending = {}
  /\ IF scored = {}
     THEN /\ verdict' = IF failures > 0
                        THEN "allGeometriesCorrupt" ELSE "noSnapCandidates"
          /\ UNCHANGED winner
     ELSE /\ verdict' = "ok"
          /\ winner' \in Ranked(scored)
  /\ UNCHANGED <<problem, pending, total, failures, scored>>

(* Every target was looked at: rank those inside the radius.  Corruption   *)
(* is reported only when every target of the box failed.                   *)
Conclude ==
  /\ verdict = "scoring" /\ pending = {}
  /\ IF scored = {}
     THEN /\ verdict' = IF failures > 0 /\ failures = total
                        THEN "allGeometriesCorrupt" ELSE "noSnapCandidates"
          /\ UNCHANGED winner
     ELSE /\ verdict' = "ok"
          /\ winner' \in Ranked(scored)
  /\ UNCHANGED <<problem, pending, total, failures, scored>>

Next ==
  \/ Query \/ Conclude
  \/ \E t \in pending : OtherLevel(t) \/ Unusable(t) \/ TooFar(t) \/ Score(t)

Spec == Init /\ [][Next]_vars

-----------------------------------------------------------------------------
(* Reference definitions. *)

(* The targets a search of radius r is about. *)
Qualified(r) ==
  {t \in DOMAIN store :
     store[t].here /\ store[t].shape = "sound" /\ store[t].distance <= r}

(* a beats b under the strategy, by what the documentation of SnapStrategy *)
(* ranks by: weight, mainstem, then distance (weight-first only), then id. *)
Beats(a, b) ==
  LET Key(t) == << -store[t].weight, IF store[t].mainstem THEN 0 ELSE 1,
                   IF strategy = "weightFirst" THEN store[t].distance ELSE 0,
                   t >>
  IN \E i \in 1..4 :
       /\ Key(a)[i] < Key(b)[i]
       /\ \A j \in 1..(i - 1) : Key(a)[j] = Key(b)[j]

Near(r) ==
  {a \in Qualified(r) : \A b \in Qualified(r) :
     strategy = "distanceFirst" =>
       store[a].distance <= store[b].distance + Tolerance}

(* What a search of radius r should resolve to: at most one target. *)
Best(r) == {a \in Near(r) : \A b \in Near(r) \ {a} : Beats(a, b)}

-----------------------------------------------------------------------------
(* Properties. *)

(* The target resolved to is the one the strategy names, whatever order    *)
(* the store returned its rows in.                                         *)
ResolvesToBest == verdict = "ok" => Best(radius) = {winner}

(* The errors are exact: no candidate means that none lies within the      *)
(* radius at the level, and corruption that every target of the box is of  *)
(* the level and unusable.                                                 *)
ErrorsExact ==
  /\ verdict \in {"noSnapCandidates", "allGeometriesCorrupt"} =>
       Qualified(radius) = {}
  /\ verdict = "allGeometriesCorrupt" <=>
       /\ verdict \notin {"start", "scoring", "datasetRead"}
       /\ InBox # {}
       /\ \A t \in InBox : store[t].here /\ store[t].shape # "sound"

(* Searching wider never loses the channel: a weight-first answer is at    *)
(* least as heavy as that of every narrower search, and a distance-first   *)
(* answer is that of every narrower search which reaches the whole band.   *)
WideningKeeps ==
  verdict = "ok" =>
    \A r \in Radii, t \in SnapIds :
      r <= radius /\ t \in Best(r) =>
        /\ strategy = "weightFirst" => store[t].weight <= store[winner].weight
        /\ /\ strategy = "distanceFirst"
           /\ \E n \in Qualified(r) : store[n].distance + Tolerance <= r
           => t = winner
=============================================================================
