CONSTANTS
  Reqs = {r1, r2}
  Kinds <- SomeKinds
  ClientRoutes <- Routes
  Fallback <- Shell
  Dynamic <- Prefixes
  Baked <- BakedPaths
  StringPrefix <- Texts
  Cap = 5
  HeadLen = 2
SPECIFICATION Spec
CHECK_DEADLOCK FALSE
INVARIANTS AnswersSound Surface
PROPERTIES EveryRequestAnswered
