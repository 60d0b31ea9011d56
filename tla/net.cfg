SPECIFICATION FairNetSpec
CONSTANTS
    Keys = {k1}
    PlayerCap = 1
    BodyCap = 1
    StaleTicks = 0
    RespawnTicks = 1
    InvulnTicks = 0
    CooldownTicks = 1
    WaveBase = 1
    PidMax = 9
    MaxSeq = 3
    MaxJoin = 2
    MaxWave = 0
    F32Exact = 3
    ViewCap = 4
    MaxDelay = 0
    ClientDrain = 8
    RcvBuf = 2
    Buttons = {FALSE}
INVARIANTS NetInv
PROPERTIES LearnsPid
