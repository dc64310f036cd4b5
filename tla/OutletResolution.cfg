\* Every manifest of up to two snap declarations over three level indexes is
\* dispatched.  For a manifest with one declaration: every store of up to three
\* targets at distances 1..3, of two weights, both strategies, two radii and a
\* tolerance of one.  For one without: every neighbourhood of up to three
\* catchments, inside, on the boundary or outside, of either level, decodable
\* or not, with two areas each.
SPECIFICATION BoundedSpec
CONSTANTS
  Levels = {0, 1}
  LevelIndexes <- SomeLevelIndexes
  Manifests <- SomeManifests
  SnapIds = {1, 2, 3}
  Weights = {1, 2}
  Distances = {1, 2, 3}
  Radii = {1, 2}
  Tolerance = 1
  SnapStores <- AnySnapStore
  UnitIds = {1, 2, 3}
  Areas = {1, 2}
  CatchmentStores <- AnyCatchmentStore
  None = None
INVARIANTS DispatchByDeclaration ResolvesToBest WideningKeeps AnswerIsClaimant
  ErrorsExact
\* The call is over when it has returned.
CHECK_DEADLOCK FALSE
