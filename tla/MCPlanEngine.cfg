SPECIFICATION FairSpec
CONSTANTS
  Capacities <- MCCapacities
  Preferred <- MCPreferred
  Shares <- MCShares
  Weights <- MCWeights
CHECK_DEADLOCK FALSE
INVARIANTS
  DayWithinCapacity
  BudgetsConserved
  AllotmentIsFair
  BlocksCoverDay
PROPERTIES
  NothingSchedulableLost
  Terminates
