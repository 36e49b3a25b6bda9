SPECIFICATION LifeSpec
CONSTANTS
  Cap = 2
  MaxLen = 3
  MaxAdds = 4
  r1 = r1
  r2 = r2
  RefIds = {r1}
INVARIANTS ClearDestroysAll
PROPERTIES ClearEnds
CHECK_DEADLOCK FALSE
