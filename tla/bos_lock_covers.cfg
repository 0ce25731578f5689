\* Expected violation: a later request or cancellation drops the lock of an open loan.
CONSTANTS
    Accounts <- MCAccounts
    GenesisFree <- MCGenesisFree
    Payees <- MCPayees
    Creator = creator
    CentralBankAccount = bank
    Regions = {r1}
    ConfederationTotal = 1
    RegionalTotal = 1
    PensionTotal = 1
    ProxyDeposit = 1
    GenesisGrant = 1
    CreditEpochLimit = 2
    OptimalUtilization = 80
    OptimalKeyRate = 850
    MaxProtectiveRate = 5000
    GenesisLicensed = {}
    BaseRates = {850}
    MaxEmitted = 0
    Treasury = treasury
    ANNUAL_RATE_BPS = 5000
    BLOCKS_PER_YEAR = 1
    PerbillAccuracy = 1000
    Wallets = {alice, bob}
    Operators = {}
    Officers = {bob}
    Approved = {alice}
    Paid = {bob}
    Borrowers = {alice}
    AccountTypes = {"Credit"}
    Collaterals = {0, 1, 2}
    CardAmounts = {}
    ServerKeys = {}
    Nonces = {}
    Durations = {}
    ExistentialDeposit = 1
    Amounts = {1, 2}
    MaxEpoch = 1
    MaxIssued = 2
    MaxBlock = 0
    MaxLoans = 2
    MaxEscrows = 0
    MaxDeposits = 0
    WalletHolds = 3
    TreasuryHolds = 0
SPECIFICATION MCSpec
INVARIANT LockCoversCollateral
CHECK_DEADLOCK FALSE
