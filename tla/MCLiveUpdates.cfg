SPECIFICATION Spec
CONSTANTS
    Socket = {k1, k2}
    Timer = {t1, t2, t3}
    None = None
    HeartbeatTimeout = 12
    HeartbeatEvery = 4
    RetryBase = 1
    RetryMax = 10
    MaxChanges = 3
    Capacity = 2
    MaxFlights = 3
SYMMETRY HandleSymmetry
INVARIANTS
    OneLifeline
    NeverBlind
    RecoversInTime
    NeverUndone
    InStepConverges
PROPERTIES
    HealthyStreamIsKept
