SPECIFICATION FairSpec
CONSTANTS
    Keys = {k1, k2, k3}
    PlayerCap = 2
    BodyCap = 4
    StaleTicks = 0
    RespawnTicks = 2
    InvulnTicks = 1
    CooldownTicks = 1
    WaveBase = 1
    PidMax = 3
    MaxSeq = 1
    MaxJoin = 3
    MaxWave = 2
INVARIANTS SimInv ScoreBounded
PROPERTIES SimSteps ImplementsSessions EventuallyRevived SilentIsSwept
