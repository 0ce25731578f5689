\* The credit engine over two epochs with a pool of three; emission, and the
\* distribution of an M0 whose remainder is below the existential deposit, so
\* that it waits for somebody to top up the accounts.
CONSTANTS
    Accounts <- MCAccounts
    GenesisFree <- MCGenesisFree
    Wallets = {op1, op2}
    Operators = {op1, op2}
    Payees = {op2, bank}
    Creator = creator
    CentralBankAccount = bank
    Regions = {r1, r2}
    ConfederationTotal = 2
    RegionalTotal = 5
    PensionTotal = 7
    ProxyDeposit = 1
    GenesisGrant = 2
    ExistentialDeposit = 2
    CreditEpochLimit = 3
    OptimalUtilization = 50
    OptimalKeyRate = 850
    MaxProtectiveRate = 1000
    GenesisLicensed = {op1}
    Amounts = {1, 2}
    BaseRates = {850}
    MaxEpoch = 2
    MaxIssued = 3
    MaxEmitted = 2
    BankHolds = 13
    CreatorHolds = 7
    WalletHolds = 2
SPECIFICATION MCSpec
INVARIANTS
    TypeOK
    PoolConservation
    LedgersAgree
    KeyRateIsCurrent
    IssuanceBound
PROPERTIES
    RateFollowsUtilisation
    ClosedEpochHistory
    ImplementsCreditPool
