\* Every graph over three ids with at most two upstream ids in a row (missing
\* rows, repeated ids, self loops, cycles), every DAG over four units under
\* every assignment of two levels, and every tree of seven units in which at
\* most three meet, children pushed in every order.
SPECIFICATION BoundedSpec
CONSTANTS
  Ids = {1, 2, 3, 4, 5, 6, 7}
  Core = {1, 2, 3}
  DagIds = {1, 2, 3, 4}
  TreeSize = 7
  Levels = {0, 1}
  MaxDegree = 2
  Graphs <- SomeGraph
INVARIANTS FindsUpstream DownstreamIsTree
           DanglingExact SameLevelUnreachable OrdersAreStrahler
PROPERTIES BothTerminate
\* A call is made once.
CHECK_DEADLOCK FALSE
