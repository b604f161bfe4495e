CONSTANTS
  Clusters = {a, b, c}
  Plans <- SmallPlans
  AutoMerge = TRUE
SPECIFICATION Spec
INVARIANTS TypeOK BuildsAllowed OutcomesRight
PROPERTIES MergesOnlyAdd ImplementsFleetApply
