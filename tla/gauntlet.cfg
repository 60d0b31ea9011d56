CONSTANTS
  N = 9
  LotsN = 11
  Stride = 3
  Polls = 1
  BigPolls = 2
  Lag = 1
  BigLag = 2
  Targets = {"conformant", "renumbering", "appending", "overmarking", "undermarking",
             "multiselect", "swapsother", "removesnext", "stopsshort", "prepending",
             "leavesone", "buttonless", "misbuilt", "recreating", "rewriting",
             "recycling", "shifting", "lingering", "untabled", "late", "frozen", "blocking"}
  MaxTroubles = 1
SPECIFICATION Spec
CHECK_DEADLOCK FALSE
INVARIANTS VerdictIsTheTargets ResultsSound SummaryAccounts
PROPERTIES EveryRunReports
