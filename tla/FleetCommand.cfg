CONSTANTS
  a = a
  b = b
  c = c
  d = d
  Names = {a, b, c, d}
  MaxNum = 3
  Manifests <- SmallManifests
SPECIFICATION MCSpec
INVARIANTS
  TypeOK
  ValidateRight
  OrderRight
  PlanRight
  RerunIsStable
PROPERTY Terminates
