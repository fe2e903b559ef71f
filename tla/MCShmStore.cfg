SPECIFICATION Spec
CONSTANTS
  Pool = {p1, p2}
  Buffer = {b1, b2}
  Pin = {x1, x2}
  Scope = {s1, s2}
  MaxSize = 2
  NoPool = NoPool
  NoPin = NoPin
SYMMETRY ShmSymmetry
INVARIANTS
  HeldWhileNeeded
  AccessIsSafe
  FaultIsItsPools
PROPERTIES
  MappingIsStill
