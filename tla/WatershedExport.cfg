SPECIFICATION Spec
CONSTANTS
  None = None
  Calls <- MCCalls
  Datasets <- MCDatasets
  Modes <- MCModes
  Threads = 2
  Lossy = {2}
  Requests <- MCRequests
  Bits = 2
  Low <- MCLow
  Span = 4
  Step = 2
  Smallest = 2
  Target = 4
INVARIANTS ResultsAreWatersheds ExportExact
CHECK_DEADLOCK FALSE
