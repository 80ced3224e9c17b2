CONSTANTS
    Peers = {1, 2}
    StreakThreshold = 1
    MaxStreak = 1
    MaxSockets = 1
    MaxBacklog = 0
    MaxFaults = 0
SPECIFICATION MonitoredSpec
VIEW View
PROPERTIES RestoreAttempted
