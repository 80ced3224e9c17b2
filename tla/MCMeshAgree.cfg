CONSTANTS
    Peers = {1, 2}
    StreakThreshold = 1
    MaxStreak = 1
    MaxSockets = 1
    MaxBacklog = 1
    MaxFaults = 0
SPECIFICATION NoSafetyNetSpec
VIEW View
INVARIANTS SettledModesAgree
