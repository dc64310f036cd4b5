------------------------- MODULE MCCatchmentReads -------------------------
(* Instances of CatchmentReads for TLC: two calls at once on one remote    *)
(* session of a wide file; or two sessions that open over one cache        *)
(* directory while the object is overwritten; or a local session and its   *)
(* call while it is.                                                       *)
EXTENDS CatchmentReads

CONSTANTS s1, s2, s3, s4, c1, c2, c4

SessionOfCalls == [c \in Calls |-> IF c = c4 THEN s4 ELSE s1]

(* The sessions that are opened in one run, how many versions there are    *)
(* and how often the object is overwritten; a second time only while no    *)
(* open is under way.                                                      *)
Together == {<<{s1}, 1, 0>>, <<{s2, s3}, 2, 2>>, <<{s4}, 2, 1>>}

BoundedNext ==
  /\ Next
  /\ \E w \in Together : /\ {s \in Sessions : pc'[s] # "new"} \subseteq w[1]
                         /\ Len(files) = w[2] /\ overwrites' <= w[3]
  /\ overwrites' = 2 /\ overwrites = 1 =>
       \A s \in Sessions : pc[s] \in {"new", "open", "failed", "dead"}

BoundedSpec == /\ Init /\ [][BoundedNext]_vars
               /\ \A s \in Sessions : WF_vars(pc[s] # "new" /\ Open(s))
               /\ \A c \in Calls : WF_vars(Query(c))

Row(id, lo, hi, fault) == [id |-> id, box |-> <<lo, hi>>, fault |-> fault]

(* A file with a group of two rows and groups of one; the last group has  *)
(* no bbox statistics.                                                     *)
File(ids, faults) ==
  LET R(n) == Row(ids[n], 2 * n, 2 * n + 1, faults[n])
  IN [g \in 1..(Len(ids) - 1) |->
        [rows |-> IF g = 1 THEN <<R(1), R(2)>> ELSE <<R(g + 1)>>,
         stats |-> g < Len(ids) - 1]]

Sound(ids) == File(ids, [n \in DOMAIN ids |-> "none"])

(* Wide files with rows that only some queries refuse; uploads in which    *)
(* ids change groups or repeat, and a level and an id no index can be      *)
(* built over.                                                             *)
SomeFiles ==
  {<<Sound(<<2, 4, 1, 3>>)>>,
   <<File(<<2, 4, 1, 3>>, <<"none", "wkb", "scalar", "geometry">>)>>,
   <<File(<<2, 4, 1, 3>>, <<"none", "none", "geometry", "wkb">>)>>,
   <<Sound(<<1, 2, 3>>), Sound(<<3, 2, 1>>)>>,
   <<File(<<1, 2, 3>>, <<"none", "wkb", "geometry">>), Sound(<<1, 2, 1>>)>>,
   <<File(<<1, 2, 3>>, <<"scalar", "none", "wkb">>),
     File(<<1, 2, 3>>, <<"none", "level", "id">>)>>}

SomeQueries ==
  {[kind |-> "ids", ids |-> {2, 3, 5}], [kind |-> "geometries", ids |-> {1, 2, 3}],
   [kind |-> "box", box |-> <<5, 6>>]}
=============================================================================
