SPECIFICATION FairSpec
CONSTANTS
  Cidrs = {n1, n2}
  Domains = {d1}
  Leases = {a1}
  Absent = Absent
  User = User
  MaxDisturbances = 1
PROPERTY AdviceHeals
