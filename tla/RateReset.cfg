SPECIFICATION Spec
CONSTANTS
    WINDOW_SECS = 3
    MAX_REQUESTS = 2
    WORD = 1024
    Requests = {r1, r2}
    MAX_LAG = 2
    MAX_NOW = 16
CHECK_DEADLOCK FALSE
INVARIANT ResetIsWithinWindow
