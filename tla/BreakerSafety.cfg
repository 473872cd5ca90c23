SPECIFICATION FairSpec
CONSTANTS
    WINDOW = 20
    MIN_SAMPLES = 5
    COOLDOWN_SECS = 30
    Policies = {default}
    Idle = Idle
    Requests = {r1, r2, r3}
INVARIANTS
    TripsOnRun
    OneProbePerReport
    GiveawaysBounded
PROPERTIES
    CooldownAfterLastFailure
    ReopensUnlessProbeIsStuck
