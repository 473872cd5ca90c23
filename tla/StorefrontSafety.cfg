SPECIFICATION Spec
CONSTANTS
    Unset = Unset
    NoPay = NoPay
    WalletA = WalletA
    WalletB = WalletB
    Usable <- MCUsable
    U128 = 16
    I128 = 8
    Config <- Mixed
    Visits <- MixedVisits
    Payments <- MCPayments
    Streams = {s1, s2}
SYMMETRY StreamSymmetry
INVARIANTS
    SessionServesWhatItBought
    SoldAtItsPrice
    FreeAllowanceIsOwn
