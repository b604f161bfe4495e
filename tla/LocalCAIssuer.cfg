SPECIFICATION Spec
CONSTANTS
  Clusters = {c1, c2}
  RootKeys = {r1, r2, r3, r4}
  InterKeys = {i1, i2, i3, i4, i5}
  LeafKeys = {l1, l2, l3, l4, l5, l6}
  None = None
  MaxFaults = 2
SYMMETRY Symmetry
INVARIANTS
  IssuerFollows
