SPECIFICATION Spec
CONSTANTS
    alice = alice
    bob = bob
    carol = carol
    i1 = i1
    i2 = i2
    toBob = toBob
    toAlice = toAlice
    settle1 = settle1
    settle2 = settle2
    notMine = notMine
    bill = bill
    MaxSats = 5
    WalletLimit = 0
    Wallets = {alice, bob, carol}
    Instances = {i1, i2}
    Payments = {toBob, toAlice}
    Settlements = {settle1, settle2, notMine}
    Deposits = {}
    Events = {}
    Withdrawals = {}
    PayRequests = {bill}
    Foreign = {}
    NoClient = NoClient
    InstanceOf <- MCInstanceOf
    Amount <- MCAmount
    PayerOf <- MCPayerOf
    PayeeOf <- MCPayeeOf
    RequestOf <- MCRequestOf
    Creator <- MCCreator
    Receiver <- MCReceiver
    WalletOf <- NoFunction
    DepositOf <- NoFunction
    Target <- NoFunction
    Batches <- MCBatches
    InitialBalance <- MCInitialBalance
    Disablable = {alice}
    Expiring = {toBob}
    Late = {}
    MaxRestarts = 1
INVARIANTS
    BalanceInRange
    BalanceExplained
    RequestPaidOnce
PROPERTIES
    DisabledIsNotDebited
