SPECIFICATION FairSpec
CONSTANTS
    alice = alice
    bob = bob
    i1 = i1
    toBob = toBob
    toAlice = toAlice
    topUp = topUp
    report = report
    out = out
    shop = shop
    MaxSats = 30
    WalletLimit = 0
    Wallets = {alice, bob}
    Instances = {i1}
    Payments = {toBob, toAlice}
    Settlements = {}
    Deposits = {topUp}
    Events = {report}
    Withdrawals = {out}
    PayRequests = {}
    Foreign = {shop}
    NoClient = NoClient
    InstanceOf <- MCInstanceOf
    Amount <- MCAmount
    PayerOf <- MCPayerOf
    PayeeOf <- MCPayeeOf
    RequestOf <- NoFunction
    Creator <- NoFunction
    Receiver <- NoFunction
    WalletOf <- MCWalletOf
    DepositOf <- MCDepositOf
    Target <- MCTarget
    Batches = {}
    InitialBalance <- MCInitialBalance
    Disablable = {}
    Expiring = {}
    Late = {out}
    MaxRestarts = 1
    PoolSize = 2
PROPERTIES
    CallsEnd
    WalletFreed
    DepositCredited
