\* Three connections of every kind, with panics, silent and stalling clients;
\* or one with candidates around the rungs, pinned radii, and failures.
SPECIFICATION CrowdSpec
CONSTANTS
  c1 = c1  c2 = c2  c3 = c3  None = None  Nowhere = Nowhere
  Ladder <- RadiusLadder
  Conns = {c1, c2, c3}
  Requests <- SomeRequests
INVARIANTS LadderExact
PROPERTIES OthersDoNoHarm PagesNeedNoEngine
\* Every connection is made once: the portal is idle when all are over.
CHECK_DEADLOCK FALSE
