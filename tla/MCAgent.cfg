SPECIFICATION AgentSpec
CONSTANTS
    MissThreshold = 2
    FrozenTimeout = 1
    Reads = {"first", "second"}
    MaxOrders = 2
    MaxFailures = 1
    Addresses = {a1, a2}
    Tasks = {t1, t2}
    MaxMoves = 2
    MaxRestarts = 1
    None = None
    Others = {p1, p2}
    MaxOpen = 2
INVARIANTS DeadIsCounted HeldServerProbes UdpReleased
PROPERTIES SilenceDetected HeardAgain DirectEndpointRestored 
