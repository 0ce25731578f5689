\* Expected violation: settling an old IOU of an exile undoes the exile.
CONSTANTS
    Accounts <- MCAccounts
    InitialFree <- MCInitialFree
    NationOf <- MCNationOf
    Ious <- MCIous
    Payers = {k1}
    Nonces = {1, 2}
    IouAmounts = {1, 3}
    ExistentialDeposit = 2
    Customers = {c1, c2}
    BankAccounts = {b1, b2}
    CollateralAmounts = {1000}
    RepayAmounts = {4050, 8101}
    ReserveMultiplier = 9
    InterestPeriodBlocks = 2
    MaxCollaterals = 2
    MaxBlock = 3
    Citizens = {k1, k2}
    Roles = {"Regular", "KhuralDelegate"}
    PocketAmounts = {1, 2}
    MaxPocket = 3
    StateTreasury = treasury
    Grandmasters = {}
    BountyAmounts = {2}
    BountyLockPeriod = 2
    MaxBounty = 4
    Owners = {o1, o2}
    VaultIndices = {0, 1}
    MaxVaultsPerOwner = 2
    VaultAmounts = {2, 3}
    MaxRecorded = 2
    CustomerHolds = 1500
    BankHolds = 2
    Purse = 4
    TreasuryHolds = 4
    OwnerHolds = 4
SPECIFICATION JusticeSpec
INVARIANT ExileIsTerminal
CHECK_DEADLOCK FALSE
