CONSTANTS
    Peers = {1, 2}
    StreakThreshold = 1
    MaxStreak = 1
    MaxSockets = 2
SPECIFICATION Spec
INVARIANTS OpenIsRegistered
