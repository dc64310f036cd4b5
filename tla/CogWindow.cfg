\* Twenty boxes over rasters of one to six tiles, one ceiling of each kind
\* within reach, and up to two uploads in between.
SPECIFICATION ReadSpec
CONSTANTS
  Files <- SomeFiles
  Boxes <- SomeBoxes
  Kinds = {"flow_dir", "flow_acc"}
  Side = 2
  MaxEntries = 16
  MaxValue = 48
  MaxAscii = 8
  MaxTiles = 6
  MaxChunk = 8
  MaxCovered = 40
  MaxWindow = 60
  Lossy = TRUE
  Garbage = Garbage  NaN = NaN  Unset = Unset
INVARIANTS WindowIsRaster SupportedIsRead
\* A call ends.
CHECK_DEADLOCK FALSE
