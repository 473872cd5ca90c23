SPECIFICATION BackendSpec
CONSTANTS
    graphql = graphql
    grpc = grpc
    Policies = {graphql, grpc}
    QUOTA <- Quotas
    DURATION <- Lives
    SessionIds = {i1, i2}
    Readers = {r1, r2}
    w1 = w1
    w2 = w2
    east = east
    west = west
    Nothing = Nothing
    Keys = {k1, k2}
    Bought = {p1}
    Workers = {w1, w2}
    Replicas = {east, west}
    AT <- Sites
    SKEW <- Clocks
    CLAIM_TTL = 2
    MaxWork = 1
    MaxLosses = 1
    MaxCrashes = 1
INVARIANTS
    ServedAsBought
    EveryDeductionCounted
    
    OneTokenPerPayment
PROPERTIES
    ConsumeReturns
    ImplementsLedger
    FailedMintIsFinal
