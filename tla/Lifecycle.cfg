CONSTANTS
  a = a
  b = b
  c = c
  p1 = p1
  p2 = p2
  Names = {a, b, c}
  MaxNum = 2
  Procs = {p1, p2}
  Commands <- SmallCommands
  DependsOn <- Dependencies
  MaxCommands = 5
  MaxTogether = 3
SYMMETRY Interchange
SPECIFICATION Spec
INVARIANTS TypeOK AddressesApart OkMeansCreated
PROPERTY EndsInOrder
