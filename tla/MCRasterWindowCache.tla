------------------------ MODULE MCRasterWindowCache ------------------------
(* Instances of RasterWindowCache for TLC. *)
EXTENDS RasterWindowCache, TLC

CONSTANTS a1, a2, a3, b1, s1, s2, w1, w2

(* Three calls of one session, and one call of a second session. *)
TwoSessionCalls == {a1, a2, a3, b1}
TwoSessions == {s1, s2}
SessionOfCalls == [c \in Calls |-> IF c = b1 THEN s2 ELSE s1]

OneSessionCalls == {a1, a2, a3}
OneSession == {s1}

(* All four calls want the first window; or all but one want the second,   *)
(* and that one fails before it looks at the cache.                        *)
CrowdedInit ==
  /\ Init
  /\ \/ \A c \in Calls : window[c] = w1
     \/ \A c \in Calls : window[c] = w1 <=> c = a3

CrowdedNext ==
  /\ Next
  /\ window[a1] = w2 => pc'[a3] \in {"prepare", "err"}

CrowdedSpec ==
  /\ CrowdedInit /\ [][CrowdedNext]_vars
  /\ \A c \in Calls : WF_vars(CallStep(c))
=============================================================================
