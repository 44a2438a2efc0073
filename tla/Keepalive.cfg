SPECIFICATION Spec
CONSTANTS
    SystemSeconds = 20
    BackwardTrigger = 3
    ForwardThreshold = 6
    MaxSleep = 2
    MaxLate = 0
    Ping = 2
    Timeout = 8
    MaxDelay = 1
    MaxLost = 1
    MaxFrames = 1
    Starts = {15, 17}
    Horizon = 31
CONSTRAINT Bounded
INVARIANTS TypeOK KeepsTime SilenceIsNoticed LivePeersStay
PROPERTY NoRestartTooEarly
