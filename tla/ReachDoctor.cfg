SPECIFICATION ReachSpec
CONSTANTS
  Cidrs = {n1}
  Domains = {d1}
  Leases = {a1, a2}
  Absent = Absent
  User = User
  MaxDisturbances = 2
INVARIANT PassedReaches
