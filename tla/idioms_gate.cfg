CONSTANTS
  Lifts <- ThreeLifts
  Outcomes <- FourOutcomes
  MaxRuns = 2
SPECIFICATION Spec
CHECK_DEADLOCK FALSE
INVARIANTS CompilingIsRegression
