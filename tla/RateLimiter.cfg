SPECIFICATION Spec
CONSTANTS
    WINDOW_SECS = 3
    MAX_REQUESTS = 3
    WORD = 1024
    Requests = {r1, r2, r3}
    MAX_LAG = 1
    MAX_NOW = 15
CHECK_DEADLOCK FALSE
INVARIANTS
    CleanupTransparent
    RedisAgrees
    BurstSmoothed
    WindowNeverOverfull
