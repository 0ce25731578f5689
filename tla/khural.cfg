\* Two proposals on one treasury that can pay one of them; two expert bills.
CONSTANTS
    Accounts <- MCAccounts
    Citizens <- MCCitizens
    NationOf <- MCNationOf
    NationTreasuries <- MCTreasuries
    InitialFree <- MCInitialFree
    Nation1 = {c1, c2, c3}
    Nation2 = {d1}
    Judged = {c3}
    NationTreasury = treasury
    Purse = 3
    TreasuryHolds = 3
    ExistentialDeposit = 1
    Roles = {"Regular", "ArbadLeader"}
    Academicians = {c1}
    Beneficiaries = {c1}
    SpendAmounts = {2}
    VotingPeriods = {0, 2}
    MinQuorum = 2
    ExpertBillDeposit = 1
    MaxBlock = 2
    MaxProposals = 2
    MaxBills = 2
SPECIFICATION MCSpec
INVARIANTS
    KhuralBooksAgree
PROPERTIES
    ActiveUntilDeadline
    TreasuryPaysDecisions
    EveryProposalSettles
CHECK_DEADLOCK FALSE
