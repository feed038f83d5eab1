SPECIFICATION Spec
CONSTANTS
    alice = alice
    bob = bob
    i1 = i1
    i2 = i2
    small = small
    large = large
    report = report
    repeat = repeat
    other = other
    cross = cross
    toAlice = toAlice
    MaxSats = 15
    WalletLimit = 13
    Wallets = {alice, bob}
    Instances = {i1, i2}
    Payments = {toAlice}
    Settlements = {}
    Deposits = {small, large}
    Events = {report, repeat, other}
    Withdrawals = {cross}
    PayRequests = {}
    Foreign = {}
    NoClient = NoClient
    InstanceOf <- MCInstanceOf
    Amount <- MCAmount
    PayerOf <- MCPayerOf
    PayeeOf <- MCPayeeOf
    RequestOf <- NoFunction
    Creator <- NoFunction
    Receiver <- NoFunction
    WalletOf <- MCWalletOf
    DepositOf <- MCDepositOf
    Target <- MCTarget
    Batches = {}
    InitialBalance <- MCInitialBalance
    Disablable = {}
    Expiring = {}
    Late = {}
    MaxRestarts = 0
INVARIANTS
    WithinWalletLimit
