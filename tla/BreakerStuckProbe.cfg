SPECIFICATION FairSpec
CONSTANTS
    WINDOW = 3
    MIN_SAMPLES = 2
    COOLDOWN_SECS = 2
    Policies = {default}
    Idle = Idle
    Requests = {r1, r2}
PROPERTY ProbeIsReported
