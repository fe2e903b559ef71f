SPECIFICATION Spec
INVARIANTS
  NobodyFails
PROPERTIES
  Finishes
