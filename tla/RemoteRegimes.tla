--------------------------- MODULE RemoteRegimes ---------------------------
(***************************************************************************)
(* RemoteOpen under two regimes.  Its files are not locked and the objects *)
(* are overwritten in place, and nothing survives both at once; here what  *)
(* happens to a cache is one or the other.                                 *)
(*                                                                         *)
(* A crowd: openers race, any of them may crash, and cached files are      *)
(* removed at any moment, while nothing is uploaded.  Turns: one open at a *)
(* time, crashes included, and nothing is removed, while artifacts are     *)
(* uploaded between any two steps.                                         *)
(***************************************************************************)
EXTENDS RemoteOpen

VARIABLE regime

regimeVars == <<vars, regime>>

CrowdNext ==
  \/ \E o \in Openers : OpenStep(o) \/ Abort(o)
  \/ \E d \in Dirs : Evict(d)

TurnsNext ==
  \/ \E o \in Openers : /\ \A p \in Openers \ {o} : At(p, "idle")
                        /\ OpenStep(o) \/ Abort(o)
  \/ \E s \in Sources, a \in Artifacts : Publish(s, a)

RegimeInit == Init /\ regime \in {"crowd", "turns"}

RegimeNext ==
  /\ \/ regime = "crowd" /\ CrowdNext
     \/ regime = "turns" /\ TurnsNext
  /\ UNCHANGED regime

RegimeSpec == RegimeInit /\ [][RegimeNext]_regimeVars

-----------------------------------------------------------------------------
(* Properties. *)

(* The index is the commit record of write_manifest_graph: as long as      *)
(* openers take turns, an index entry that parses leads to a complete      *)
(* manifest and graph, whatever write a crash cut short.                   *)
IndexCommits == regime = "turns" => Committed

(* Once indexed, the cached manifest and graph of a source are never       *)
(* replaced, so every later session of that source serves the same two.    *)
IndexedPairFrozen == [][regime = "turns" => PairFrozen]_regimeVars
=============================================================================
