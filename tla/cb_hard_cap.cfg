\* Expected violation: minting and grants pass the documented hard cap.
CONSTANTS
    Accounts <- MCAccounts
    GenesisFree <- MCGenesisFree
    Wallets = {op1, citizen}
    Operators = {op1, citizen}
    Payees = {op1, bank}
    Creator = creator
    CentralBankAccount = bank
    Regions = {r1, r2}
    ConfederationTotal = 2
    RegionalTotal = 5
    PensionTotal = 7
    ProxyDeposit = 1
    GenesisGrant = 2
    ExistentialDeposit = 2
    CreditEpochLimit = 1
    OptimalUtilization = 80
    OptimalKeyRate = 850
    MaxProtectiveRate = 5000
    GenesisLicensed = {op1}
    Amounts = {1, 3}
    BaseRates = {850}
    MaxEpoch = 1
    MaxIssued = 1
    MaxEmitted = 4
    BankHolds = 13
    CreatorHolds = 7
    WalletHolds = 3
SPECIFICATION MCSpec
INVARIANT HardCap
