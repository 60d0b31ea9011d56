SPECIFICATION FairPodSpec
CONSTANTS
    Peers = 2
    GuardMax = 1
    MaxConn = 4
    MaxInbox = 1
    MaxP = 1
    Ticks = 5
INVARIANTS PodInv
PROPERTIES ServeReturns
CHECK_DEADLOCK FALSE
