CONSTANTS
  Clusters = {a, b}
  Own = {o}
  Nums = {1, 2}
  Addresses = {x, y}
  MaxKills = 1
SPECIFICATION Spec
INVARIANTS
  TypeOK
  OwnContextsKept
  ContextsLead
