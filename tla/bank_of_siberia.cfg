\* Loans of one borrower; escrow and time deposits of two citizens over four
\* blocks; sub-accounts, cards, cash advances and the wholesale window of one.
CONSTANTS
    Accounts <- MCAccounts
    GenesisFree <- MCGenesisFree
    Payees <- MCPayees
    Creator = creator
    CentralBankAccount = bank
    Regions = {r1}
    ConfederationTotal = 1
    RegionalTotal = 1
    PensionTotal = 1
    ProxyDeposit = 1
    GenesisGrant = 1
    CreditEpochLimit = 2
    OptimalUtilization = 80
    OptimalKeyRate = 850
    MaxProtectiveRate = 5000
    GenesisLicensed = {}
    BaseRates = {850}
    MaxEmitted = 0
    Treasury = treasury
    ANNUAL_RATE_BPS = 5000
    BLOCKS_PER_YEAR = 1
    PerbillAccuracy = 1000
    Wallets = {alice, bob}
    Operators = {treasury}
    Officers = {bob}
    Approved = {alice, bob}
    Paid = {bob}
    Borrowers = {alice}
    AccountTypes = {"Credit", "Savings", "Company"}
    Collaterals = {0, 1, 2}
    CardAmounts = {1}
    ServerKeys = {key}
    Nonces = {n1, n2}
    Durations = {1, 2}
    ExistentialDeposit = 2
    Amounts = {1, 2}
    MaxEpoch = 2
    MaxIssued = 2
    MaxBlock = 3
    MaxLoans = 2
    MaxEscrows = 2
    MaxDeposits = 1
    WalletHolds = 4
    TreasuryHolds = 0
SPECIFICATION MCSpec
INVARIANTS
    BooksAgree
PROPERTIES
    OthersCannotTake
    ContractsPayOnce
    OnlyCentralBankIssues
CHECK_DEADLOCK FALSE
