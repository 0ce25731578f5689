\* Guilds, organizations and their vaults, licences, and foreign states.
CONSTANTS
    Accounts <- MCAccounts
    OrgAccount <- MCOrgAccount
    NationOf <- MCNationOf
    NationTreasuries <- MCNationTreasuries
    People = {a1, a2, a3}
    Capital = 12
    MaxActs = 6
    MaxOrgActs = 4
    ExistentialDeposit = 1
    MaxBlock = 4
    Artisans = {a1, a2, a3}
    Rewards = {2, 3}
    Uuids = {u1, u2}
    MaxGuilds = 3
    MaxQuests = 2
    MaxAchievements = 1
    MaxUnions = 2
    MaxUnionMembers = 2
    MaxCouncilMembers = 2
    FoundersNeeded = 2
    Citizens = {a1, a2, a3}
    Roles = {"Regular"}
    Holders = {a1}
    StateAccounts = {confTreasury}
    Commitments = {m1, m2, m3}
    ShieldedAmounts = {2, 4}
    Nullifiers = {n1, n2}
    OrgIds = {0, 1}
    ConfederationTreasury = confTreasury
    NoOrg = noOrg
    Regions = {2}
    RegionTreasury = regionTreasury
    FilingBlocks = {0, 1, 3}
    TaxPeriodBlocks = 1
    PenaltyAccrualPeriodBlocks = 1
    BasePenaltyAmount = 100
    AuditorRewardAmount = 1
    MinTaxAmount = 2
    OrgActivationDeposit = 2
    MaxFounders = 2
    MaxDirectorsPerOrg = 1
    MaxOrgsPerBlock = 1
    Payments = {3}
    MaxDeclarations = 2
    Ministries = {a1}
    Firms = {f1}
    LicenseTypes = {"NuclearOperator", "MicrofinanceLender"}
    LicenseRegions = {1}
    Durations = {0}
    ApplicationDeposit = 2
    MinLicenseQuorum = 1
    LicenseVotingPeriod = 2
    BlocksPerYear = 1
    MaxLicensesPerOrg = 1
    MaxAppsPerBlock = 2
    MaxApps = 2
    Countries = {ru}
    Diplomats = {a1, a2, a3}
    MaxChannelMessages = 1
    MaxDiplomaticCouncil = 2
SPECIFICATION MCSpec
INVARIANTS
    EscrowsAreFunded
    GuildCountsAgree
    ScanIsTimely
PROPERTIES
    OrgMoneyIsAccounted
    VoiceIsDelegated
CHECK_DEADLOCK FALSE
