SPECIFICATION Spec
CONSTANTS
    Unset = Unset
    Down = Down
    Unreachable = Unreachable
    WalletA = WalletA
    WalletB = WalletB
    ZeroAddress = ZeroAddress
    Usable <- MCUsable
    U128 = 16
    I128 = 8
    Files <- MCFiles
    Exports <- MCExports
    Reports <- MCReports
    Paths <- MCPaths
    Names <- MCNames
INVARIANTS
    RunningTermsUsable
    FileOrderIrrelevant
    CreditsTheChosenWallet
