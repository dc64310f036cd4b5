\* Three calls of one session for one window, no panic: does each return?
SPECIFICATION FairSpec
CONSTANTS
  a1 = a1  a2 = a2  a3 = a3  b1 = b1  s1 = s1  s2 = s2  w1 = w1  w2 = w2
  Absent = Absent  None = None
  Calls <- OneSessionCalls
  Sessions <- OneSession
  SessionOf <- SessionOfCalls
  Windows = {w1}
  Panicky = {}
  MaxVersion = 1  Overwritten = {}
PROPERTIES EveryCallReturns
\* Every call is made once: the system stops when all have returned.
CHECK_DEADLOCK FALSE
