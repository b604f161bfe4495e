SPECIFICATION FairSpec
CONSTANTS
  Cidrs = {n1, n2}
  Domains = {d1}
  Leases = {a1, a2}
  Absent = Absent
  User = User
  MaxDisturbances = 3
INVARIANTS
  ReachTypeOK
  UpReaches
  ReportsHonest
PROPERTIES
  NothingTaken
  UpHeals
