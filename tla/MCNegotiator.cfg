CONSTANTS
    Peers = {1, 2}
    StreakThreshold = 2
    MaxStreak = 3
    MaxSockets = 2
SPECIFICATION RunSpec
INVARIANTS TypeOK TimerOwnership ActivePeersConnected ActiveHasHealth RelayProbeNotForced
PROPERTIES EndIsAnnounced NegotiationEnds ImplementsPairFailover
