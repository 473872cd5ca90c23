SPECIFICATION FairSpec
CONSTANTS
    WINDOW = 2
    MIN_SAMPLES = 2
    COOLDOWN_SECS = 1
    FLOOR = 4
    MULTIPLIER = 3
    None = None
    Policies = {default}
    Payments = {p1, junk}
    StubMode = FALSE
    BadTerms = {}
    Pinned = {p1}
    Opaque = {junk}
    RETENTION = 7
    HORIZON = 7
    Streams = {s1, s2}
    Checks = {}
    Callers = {}
    MAX_TIMEOUT = 2
    ApiTimeouts = {}
    MaxHold = 2
    MaxBoots = 1
INVARIANTS
    OneSessionPerPayment
    ChargedOnlyAfterDelivery
    UnidentifiedIsRefused
PROPERTIES
    ReleasesOnlyUnspent
    ClaimsLapse
