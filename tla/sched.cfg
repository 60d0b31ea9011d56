SPECIFICATION FairSpec
CONSTANTS
    Threads = {t1, t2, t3}
    Main = Main
    MaxLaps = 2
INVARIANTS SchedOK
PROPERTIES StalledIsStranded CallReturns
