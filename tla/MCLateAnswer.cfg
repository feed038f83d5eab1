SPECIFICATION Spec
CONSTANTS
    alice = alice
    bob = bob
    i1 = i1
    i2 = i2
    first = first
    again = again
    sweep = sweep
    toBob = toBob
    shop = shop
    open0 = open0
    MaxSats = 30
    WalletLimit = 0
    Wallets = {alice, bob}
    Instances = {i1, i2}
    Payments = {toBob}
    Settlements = {}
    Deposits = {}
    Events = {}
    Withdrawals = {first, again, sweep}
    PayRequests = {}
    Foreign = {shop, open0}
    NoClient = NoClient
    InstanceOf <- MCInstanceOf
    Amount <- MCAmount
    PayerOf <- MCPayerOf
    PayeeOf <- MCPayeeOf
    RequestOf <- NoFunction
    Creator <- NoFunction
    Receiver <- NoFunction
    WalletOf <- MCWalletOf
    DepositOf <- NoFunction
    Target <- MCTarget
    Batches = {}
    InitialBalance <- MCInitialBalance
    Disablable = {}
    Expiring = {}
    Late = {first}
    MaxRestarts = 0
INVARIANTS
    PaidOutIsCharged
