-------------------------- MODULE MCUpstreamNetwork --------------------------
(* Instances of UpstreamNetwork for TLC. *)
EXTENDS UpstreamNetwork, Integers, FiniteSets, FiniteSetsExt, SequencesExt

CONSTANTS
  Core,      \* ids whose rows are arbitrary; the others have none
  MaxDegree, \* bound: upstream ids in one row of those graphs
  DagIds,    \* bound: the ids of the acyclic graphs
  TreeSize   \* bound: units of the trees

Rows == BoundedSeq(Core, MaxDegree)

(* Every graph over the core: rows missing, ids repeated, any cycle. *)
AnyGraph == UNION {[D -> Rows] : D \in SUBSET Core}

RowOf(S) == SetToSortSeq(S, LAMBDA a, b : a < b)

(* Ids are numbers, all have a row, and edges lead from smaller to larger  *)
(* ids: every DAG over them, with its diamonds.                            *)
Dags ==
  {g \in [DagIds -> {RowOf(S) : S \in SUBSET DagIds}] :
     \A u \in DagIds : \A v \in Range(g[u]) : u < v}

(* Every tree of confluences of at most three in which units are numbered  *)
(* in the order they were found: up to renaming, all.                      *)
Trees ==
  LET downs == {d \in [2..TreeSize -> 1..TreeSize] :
                  \A u \in 2..TreeSize : d[u] < u /\ (u > 2 => d[u - 1] <= d[u])}
      Up(d, u) == {v \in 2..TreeSize : d[v] = u}
  IN {[u \in 1..TreeSize |-> RowOf(Up(d, u))] :
        d \in {e \in downs : \A u \in 1..TreeSize : Cardinality(Up(e, u)) <= 3}}

SomeGraph == AnyGraph \cup Dags \cup Trees

(* Levels do not steer the walk: they are varied on the DAGs alone, and    *)
(* the selected level is 0, whatever it is called.  Trees are walked from  *)
(* their root, the others from every id a row may name.                    *)
NetworkInitMC ==
  /\ graph \in Graphs
  /\ level \in IF graph \in Dags
               THEN {l \in [Ids -> Levels] : \A i \in Ids \ DagIds : l[i] = 0}
               ELSE [Ids -> {0}]
  /\ terminal \in IF graph \in Trees THEN {1} ELSE DagIds
  /\ selected = 0
  /\ NetworkInit

BoundedSpec ==
  NetworkInitMC /\ [][NetworkNext]_networkVars /\ WF_networkVars(NetworkNext)
=============================================================================
