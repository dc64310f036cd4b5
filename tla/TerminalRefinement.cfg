\* Up to two declarations with every pair of extents, every mode, authority
\* and failure. Tiles of four by four cells: in one corner every flow that can
\* make cycles of two and of three cells, under every mask and from every cell,
\* and every accumulation below, at and above the threshold, for outlets on
\* borders and outside; and carves of many shapes, with lakes, islands and
\* joints at corners.
SPECIFICATION BoundedSpec
CONSTANTS
  MaxDecls = 2
  Crs = {"supported", "UnsupportedD8Crs"}
  Extents = {"covers", "touches", "apart", "unreadable"}
  CarveErrors <- AllCarveErrors
  Rows = 4  Cols = 4
  Tiles <- SomeTiles  Sites <- SomeSites
  NoValue = NoValue  Threshold = 2
  Alignments = {"aligned", "units", "dims", "geo"}
INVARIANTS StrictNeverCoarse BestEffortSkips ManifestFirstCovers
           SelectionExact FetchesOnlyChosen SeedHonoursAuthority CarveExact
           PolygonsExact
PROPERTIES ImplementsRefinement Returns
\* A call is made once.
CHECK_DEADLOCK FALSE
