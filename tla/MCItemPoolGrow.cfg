SPECIFICATION Spec
CONSTANTS
  Cap = 2
  MaxLen = 3
  MaxAdds = 3
  r1 = r1
  r2 = r2
  RefIds = {r1}
INVARIANT RefLive
