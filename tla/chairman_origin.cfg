\* Expected violation: the elected chairman does not pass his own origin check.
CONSTANTS
    Accounts <- MCAccounts
    NationOf <- MCNationOf
    Papers <- MCPapers
    ExistentialDeposit = 2
    MaxBlock = 2
    Citizens = {k1, k2, k3, k4, k5, k6}
    Children = {k6}
    Strangers = {k3, k4}
    CivilFeeTreasury = civilTreasury
    Roles = {"Regular", "MyangadLeader", "TumedLeader"}
    BirthHashes = {b1}
    Nicknames = {n1}
    MarriageFee = 1
    MaxRegistrationsPerBlock = 1
    OtherUnits = 1
    MaxArbadMembers = 2
    Branches = {"Legislative", "Executive"}
    ArbadCooldownPeriod = 1
    MaxUnits = 4
    MaxActs = 4
    KeyHolders = {a1}
    SlotSizes = {1}
    MaxOrgs = 1
    People = {p1, p2}
    None = None
    IndigenousPeople = {p1, p2}
    Zones = {1}
    ElectionIds = {}
    MaxCandidates = 1
    MaxBranchCandidates = 2
    MinArbadSize = 2
    MinZunLeaders = 2
    MinMyangadLeaders = 1
    COUNCIL_SIZE = 2
    MaxCount = 2
    CouncilBranch = "Banking"
SPECIFICATION KhuralSpec
INVARIANT ChairmanPassesOrigin
CHECK_DEADLOCK FALSE
