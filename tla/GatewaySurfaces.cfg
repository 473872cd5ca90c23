SPECIFICATION Spec
CONSTANTS
    WINDOW = 2
    MIN_SAMPLES = 2
    COOLDOWN_SECS = 1
    FLOOR = 5
    MULTIPLIER = 3
    None = None
    Policies = {default}
    Payments = {p1}
    StubMode = FALSE
    BadTerms = {}
    Pinned = {p1}
    Opaque = {}
    RETENTION = 4
    HORIZON = 6
    Streams = {s1}
    Checks = {c1}
    Callers = {a1}
    MAX_TIMEOUT = 2
    ApiTimeouts = {0, 2}
    MaxHold = 2
    MaxBoots = 1
INVARIANTS
    HoldersExclusive
    ClosedStaysClaimed
PROPERTIES
    ImplementsSingleUse
    ImplementsBreakerUse
