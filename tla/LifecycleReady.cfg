CONSTANTS
  a = a
  b = b
  c = c
  p1 = p1
  p2 = p2
  Names = {a, b, c}
  MaxNum = 2
  Procs = {p1}
  Commands <- SmallCommands
  DependsOn <- Dependencies
  MaxCommands = 4
  MaxTogether = 0
SPECIFICATION Spec
INVARIANT ReadyWhenCreateReturns
