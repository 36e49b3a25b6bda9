SPECIFICATION Spec
CONSTANTS
  Cap = 3
  MaxLen = 3
  MaxAdds = 4
  r1 = r1
  r2 = r2
  RefIds = {r1, r2}
INVARIANTS TypeOK RefSafe RefLive FreeListExact
PROPERTIES StorageStable ImplementsWeakRefs
