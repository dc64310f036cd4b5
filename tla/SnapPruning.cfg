\* Every file of up to two small row groups, three boxes.
SPECIFICATION Spec
CONSTANTS
  None = None
  Files <- SomeFiles
  Boxes <- SomeBoxes
INVARIANTS SkipsNoMatch
CHECK_DEADLOCK FALSE
