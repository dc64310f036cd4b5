---------------------------- MODULE MCRemoteOpen ----------------------------
(* Instances of RemoteOpen and RemoteRegimes for TLC. *)
EXTENDS RemoteRegimes, TLC

CONSTANTS o1, o2, s1, s2, d1, d2

OneOpener == {o1}
TwoOpeners == {o1, o2}
OneSource == {s1}
TwoSources == {s1, s2}
OneDir == {d1}
TwoDirs == {d1, d2}

(* Both sources are fabrics of the same name and adapter version. *)
SharedKey == [c \in Content |-> d1]
(* Every source is a fabric of its own. *)
OwnKey == [c \in Content |-> IF c[1] = s1 THEN d1 ELSE d2]

(* Graph, catchments and snap rows refer to one another soundly exactly    *)
(* when they come from one upload; the manifest counts the graph's units   *)
(* the same in every version.                                              *)
SameUpload ==
  {r \in Combination : r.graph = r.catchments /\ r.graph = r.snap
                       /\ r.manifest[1] = r.graph[1]}
(* Two fabrics over the same unit ids, so that mixtures of their artifacts *)
(* pass when they are of one version; but the second one's graph is broken *)
(* and never validates.                                                    *)
FirstSound ==
  {r \in Combination : /\ r.graph[1] = s1
                       /\ r.graph[2] = r.catchments[2]
                       /\ r.graph[2] = r.snap[2]}

-----------------------------------------------------------------------------
(* In a crowd every HEAD of a manifest is answered; openers that take      *)
(* turns open the first source, the one that is overwritten.               *)
Bounds ==
  /\ regime = "crowd" =>
       \A o \in Openers : pc'[o] # "idle" => token'[o].manifest # NoMeta
  /\ regime = "turns" =>
       source' = source /\ \A s \in Sources \ {s1} : remote'[s] = remote[s]

BoundedSpec ==
  /\ RegimeInit /\ source = [o \in Openers |-> s1]
  /\ [][RegimeNext /\ Bounds]_regimeVars

(* Whatever RemoteOpen allows, under neither regime. *)
AnySpec == regime = "any" /\ Init /\ [][Next /\ UNCHANGED regime]_regimeVars

(* Openers are interchangeable. *)
OpenerSymmetry == Permutations(Openers)
=============================================================================
