SPECIFICATION Spec
CONSTANTS
  c1 = c1
  c2 = c2
  Clusters = {c1, c2}
  Fleets = {f1}
  None = None
  Silent = FALSE
  Wants <- MCWants
INVARIANTS
  TypeOK
  OrphansExplained
PROPERTIES
  MembersKept
  NamesServed
