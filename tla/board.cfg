CONSTANTS
  Ops = {"run", "swap"}
  Verdicts = {"pass", "fail"}
  Sources <- OneVehicle
  Lines <- SomeLines
  MaxLines = 4
  MaxRuns = 3
SPECIFICATION BoardSpec
CHECK_DEADLOCK FALSE
INVARIANTS BoardOK LatestFollows EscapeIsByOwner
