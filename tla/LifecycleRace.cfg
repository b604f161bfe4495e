CONSTANTS
  a = a
  b = b
  c = c
  p1 = p1
  p2 = p2
  Names = {a, b}
  MaxNum = 2
  Procs = {p1, p2}
  Commands <- Creations
  DependsOn <- Dependencies
  MaxCommands = 3
  MaxTogether = 3
SPECIFICATION Spec
INVARIANT NumsDedicated
