SPECIFICATION FairSpec
CONSTANTS
    alice = alice
    deposit = deposit
    internal = internal
    other = other
    NoRow = NoRow
    MaxSats = 24
    WalletLimit = 0
    Wallets = {alice}
    Deposits = {deposit}
    Withdrawals = {internal, other}
    WalletOf <- MCWalletOf
    Amount <- MCAmount
    Invalid = {other}
    Own = {deposit, internal}
    Retries = 1
    InitialBalance <- MCInitialBalance
    Traffic = 2
    MaxTraffic = 1
    MaxRestarts = 1
INVARIANTS
    Reconciled
PROPERTIES
    BalanceFollowsRows
    SettledWasConfirmed
    DryRunWritesNothing
    LoopAdvances
    LoopEnds
