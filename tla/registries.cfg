\* Wills, agreements and quests at a citizen's end; trials; voices; families; land.
\* Taxes, mixer, tokens, migration, DAOs, forums and chronicles.
CONSTANTS
    Accounts <- MCAccounts
    NationOf <- MCNationOf
    TimeOf <- MCTimeOf
    MixerValueOf <- MCValueOf
    DaoTreasury <- MCDaoTreasury
    HeirLists <- MCHeirLists
    PartyLists <- MCPartyLists
    Targets <- MCTargets
    OutstandingDebt <- MCDebt
    ExistentialDeposit = 2
    MaxBlock = 4
    Citizens = {k1, k2}
    Guests = {k3}
    Artisans = {k1, k2}
    Signers = {k1, k2}
    Professionals = {k2}
    StateTreasury = treasury
    CivilFeeTreasury = civilTreasury
    Roles = {"Regular"}
    Papers = {}
    BirthHashes = {}
    Nicknames = {n1}
    MarriageFee = 2
    MaxRegistrationsPerBlock = 1
    Rewards = {3}
    Uuids = {}
    MaxGuilds = 1
    MaxQuests = 1
    MaxAchievements = 0
    MaxUnions = 0
    MaxUnionMembers = 2
    MaxCouncilMembers = 2
    FoundersNeeded = 1
    Agreements = {d1}
    MaxParties = 3
    MaxHeirs = 2
    Fees = {1}
    NotaryGuildId = 0
    Hashes = {h1}
    Penalties = {3}
    HabeasCorpusDeadline = 2
    MaxCases = 2
    TicketDeposit = 1
    StingAmounts = {5}
    WhistleblowerRewardPercent = 20
    MaxTickets = 1
    MaxStings = 2
    Rights = {"SurfaceOnly", "FullSubsoil"}
    MaxParcels = 2
    CitizenHolds = 12
    TreasuryHolds = 6
    TrialBlocks = 3
    MaxVoiceActs = 6
    People = {a1, a2, a3}
    MaxActs = 5
    Declarers = {a1, a2}
    Profits = {100000}
    TaxYears = {2026, 2027}
    TaxTreasuries = {t1, t2}
    Payers = {a1, a2}
    Amounts = {10000, 100000}
    FeeCap = 20
    AgTreasuryAccount = agTreasury
    ValidatorPoolAccount = validators
    KhuralFoundationAccount = khural
    Depositors = {a1, a2}
    MixerCommitments = {"big", "small"}
    MixerNullifiers = {n1, n2}
    MixerDenomination = 1000
    BaseFeePermill = 20000
    MixerFeePermill = 10000
    MaxMixerFee = 45
    PoolAccount = poolAccount
    InomadAgAccount = agTreasury
    CreatorAccount = a3
    ValidatorsPoolAccount = validators
    FoundationAccount = khural
    Quarters = {1}
    MaxReveals = 1
    Winners = {a1, a2}
    RewardAmounts = {5, 9}
    RewardTreasury = rewardTreasury
    MaxAchievementsPerHolder = 2
    MaxTokens = 3
    KeyHolders = {a1, a2}
    Entities = {e1}
    OrgRegNumbers = {r1}
    NoRegNumber = noNumber
    HrRoles = {1, 2}
    PortalMasks = {{"CLIENT"}, {"STAFF", "ADMIN"}, {}}
    MaxKeysPerHolder = 2
    MaxHoldersPerEntity = 2
    MaxKeys = 3
    Guardians = {a1, a2}
    Owners = {a3}
    Groups = {g1, g2}
    RequestIds = {q1}
    VetoWindowBlocks = 1
    MaxGroupSize = 2
    MaxRecoveryTokens = 3
    Applicants = {a1, a2}
    Officers = {a2, a3}
    Applications = {h1, h2, h3}
    DaoOrgs = {o1}
    Proposals = {p1, p2}
    Councillors = {a1, a2, a3}
    Spendings = {15}
    MaxDaoCouncil = 2
    ForumIds = {f1, f2}
    MaxMessages = 4
    Authors = {a1, a2}
    Documents = {d1, d2}
    Donations = {3, 18, 20}
SPECIFICATION MCSpec
INVARIANTS
    UndecidedAreReleased
    RegistersAgree
    MoneyIsAccounted
    IndicesAgree
    DecisionsAreSingle
PROPERTIES
    NothingIsLeftOpen
    HeirsGetTheRest
    TillsAreKept
CHECK_DEADLOCK FALSE
