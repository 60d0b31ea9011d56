CONSTANTS
  Capacity = 4
  RunRows = 2
  LotsRows = 5
  AddRows = 1
  SwapA = 0
  SwapB = 2
  Stripe = 2
  LabelLens = {11, 27}
  LabelCap = 48
  MarkLen = 4
  GenMod = 2097152
  MaxId = 4
  MaxMarks = 5
SPECIFICATION Spec
CHECK_DEADLOCK FALSE
INVARIANTS PosIsPermutation HandlesSound PageOK
PROPERTIES KeptHandleNeverMoves ElementsKeyed ImplementsTable
