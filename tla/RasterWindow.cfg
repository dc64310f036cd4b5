\* Four calls of two sessions on one window, or three of them on one whose
\* raster is overwritten once; a fetch may panic.
SPECIFICATION CrowdedSpec
CONSTANTS
  a1 = a1  a2 = a2  a3 = a3  b1 = b1  s1 = s1  s2 = s2  w1 = w1  w2 = w2
  Absent = Absent  None = None
  Calls <- TwoSessionCalls
  Sessions <- TwoSessions
  SessionOf <- SessionOfCalls
  Windows = {w1, w2}
  Panicky = {a1}
  MaxVersion = 2
  Overwritten = {w2}
INVARIANTS SingleFlight EntriesAreLive
PROPERTIES RefinesPromise ParkedInFlightWakes
\* Every call is made once: the system stops when all have returned.
CHECK_DEADLOCK FALSE
