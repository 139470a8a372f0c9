SPECIFICATION Spec
CONSTANTS
    Txns = {t1, t2}
    NoTxn = NoTxn
    Places = {home, away}
    Home = home
    Devices = {d1, d2}
    NoDevice = NoDevice
    OwnDevice = d1
    Handlers = {api}
    Consumers = {loop}
    Windows <- WindowLengths
    Slack = 1
    LocationTtl = 1
    DeviceTtl = 2
    TravelTime = 2
    Skew = 2
    MaxClock = 3
    MaxEvals <- Evals
    MaxLate = 1
SYMMETRY Symmetry
CHECK_DEADLOCK FALSE
INVARIANTS BurstSeen NoGhosts JumpSeen NotOwnTrack
PROPERTY DeviceRemembered
