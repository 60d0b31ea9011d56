CONSTANTS
  Frameworks = {"vanillajs", "vanillajstwin"}
  Benchmarks <- TwoBenchmarks
  Base = "vanillajs"
  Twin = "vanillajstwin"
  Quick = {10, 11}
  Busy = {24, 34}
  Drawn = {10, 24}
  Sampled = {2}
  Counts = {1, 2}
  Known = 10
  SpanMax = 3
  MaxDrives = 2
  MaxAborts = 1
SPECIFICATION TimingsSpec
CHECK_DEADLOCK FALSE
INVARIANTS FastIsAlone WindowsSound TwinGatesWindow
