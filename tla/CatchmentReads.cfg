\* One remote session with two calls at once, two sessions over one cache
\* directory, or a local session; three queries; every history of uploads of
\* three, with up to two overwrites.
SPECIFICATION BoundedSpec
CONSTANTS
  s1 = s1  s2 = s2  s3 = s3  s4 = s4  c1 = c1  c2 = c2  c4 = c4
  Absent = Absent  Torn = Torn  None = None  Lost = Lost
  Sessions = {s1, s2, s3, s4}
  Local = {s4}
  Calls = {c1, c2, c4}
  SessionOf <- SessionOfCalls
  Files <- SomeFiles
  Queries <- SomeQueries
  Window = 2
  MaxOverwrites = 2
  Lossy = {c1, s2, s4}
  Mortal = {s2}
  Small = {s1}
INVARIANTS AnswersAreScan IndexIsExact
PROPERTIES ReadsEnd
\* Every call is made once.
CHECK_DEADLOCK FALSE
