SPECIFICATION FairSpec
CONSTANTS
    v1 = v1
    v2 = v2
    home = home
    c1 = c1
    Nobody = Nobody
    NoCoin = NoCoin
    Cli = Cli
    Coins = {c1}
    GASLESS_MINIMUM = 2
    Visitors = {v1, v2}
    Targets = {"spin", "grpc"}
    CliTargets = {"grpc"}
    Ips = {home}
    IP <- OneHome
    PRICE <- Prices
    FUNDS <- Purse
    MAX_PLAYS = 1
    PER_IP_HOURLY = 1
    PathLists <- Lists
    MaxHour = 1
    MaxRuns = 1
    MaxLimbo = 1
INVARIANTS
    CeilingHolds
    SpentIsMoney
    HourlyAllowance
    PaymentsDistinct
    ShownIsTrue
PROPERTY SendReturns
