SPECIFICATION FairSpec
CONSTANTS
  NumSteps = 3
  Plans <- MCPlans
  MaxIterations = 4
  Cap = 2
  MaxCost = 2
  MaxBlind = 1
INVARIANTS CompletedHasOutput SpendBounded
PROPERTIES DependenciesFirst RunEnds
CHECK_DEADLOCK FALSE
