---------------------------- MODULE CentralBank ----------------------------
(***************************************************************************)
(* pallets/central-bank: the sole issuer of ALTAN.  It licenses operators, *)
(* mints to and burns from them, runs the rotating credit pool of M1 with  *)
(* its utilisation-driven key rate, keeps the audit epochs, distributes M0 *)
(* once and issues genesis grants.                                         *)
(*                                                                         *)
(* A dispatchable is one action: it is transactional, so a call that       *)
(* returns an error changes nothing and is no step here.  Storage items    *)
(* keep their names in lower camel case.  A storage map with a default     *)
(* (ValueQuery) is a total function, one without (OptionQuery) a function  *)
(* whose domain is the set of stored keys.                                 *)
(*                                                                         *)
(* The origin checks of the Board's calls (BankingOrigin, an officer of    *)
(* organization CBOrgId) do not depend on this pallet's state; the         *)
(* actions are the calls that pass them, see OrgRoles.                     *)
(***************************************************************************)
EXTENDS AltanBalances

CONSTANTS
    Wallets,              \* accounts with a key: operators, citizens, officers
    Operators,            \* accounts the Board licenses, mints to and burns from
    Payees,               \* accounts the holders transfer to
    Creator,              \* T::CreatorAccount
    CentralBankAccount,   \* T::CentralBankAccountId, holds M0 at genesis
    Regions,              \* REGION_CODES_83
    ConfederationTotal,   \* M0 split of trigger_genesis_distribution
    RegionalTotal,
    PensionTotal,
    ProxyDeposit,         \* what pallet_proxy reserves for one pure proxy
    GenesisGrant,         \* 100 ALTAN
    CreditEpochLimit,     \* T::CreditEpochLimit, M1
    OptimalUtilization,   \* T::OptimalUtilization, in percent
    OptimalKeyRate,       \* T::OptimalKeyRate, in basis points
    MaxProtectiveRate,    \* T::MaxProtectiveRate, in basis points
    GenesisFree,          \* genesis balances
    GenesisLicensed,      \* genesis licences
    Amounts,              \* amounts the calls are made with
    BaseRates,            \* rates set_base_rate is called with
    MaxEpoch,             \* bound on CurrentEpochId
    MaxIssued,            \* bound on an epoch's total_issued
    MaxEmitted            \* bound on TotalEmitted

\* The addresses pallet_proxy derives for the treasuries of M0.
Confederation == <<"confederation">>
RegionalTreasury(r) == <<"regional", r>>
PensionFund(r) == <<"pension", r>>
PureAccounts == {Confederation} \cup {RegionalTreasury(r) : r \in Regions}
                                \cup {PensionFund(r) : r \in Regions}

ASSUME CentralBankAssumption ==
    /\ Wallets \subseteq Accounts
    /\ Operators \subseteq Accounts
    /\ Payees \subseteq Accounts
    /\ Creator \in Accounts
    /\ CentralBankAccount \in Accounts \ {Creator}
    /\ PureAccounts \subseteq Accounts \ {Creator, CentralBankAccount}
    /\ IsFiniteSet(Regions) /\ Regions # {}
    /\ ConfederationTotal \in Nat /\ RegionalTotal \in Nat /\ PensionTotal \in Nat
    /\ ProxyDeposit \in Nat /\ GenesisGrant \in Nat
    /\ CreditEpochLimit \in Nat /\ OptimalKeyRate \in Nat /\ MaxProtectiveRate \in Nat
    /\ MaxIssued \in Nat /\ MaxEmitted \in Nat
    /\ Cardinality(Regions) <= RegionalTotal
    /\ Cardinality(Regions) <= PensionTotal
    /\ ConfederationTotal > 0
    /\ OptimalUtilization \in 1 .. 100
    /\ OptimalKeyRate <= MaxProtectiveRate
    /\ GenesisFree \in [Accounts -> Nat]
    \* pallet_balances builds no genesis with less on an account.
    /\ \A a \in Accounts : GenesisFree[a] = 0 \/ GenesisFree[a] >= ExistentialDeposit
    /\ GenesisLicensed \subseteq Accounts
    /\ Amounts \subseteq Nat
    /\ BaseRates \subseteq Nat
    /\ MaxEpoch \in Nat \ {0}

\* The primary emission: what the genesis accounts hold.
M0 == SumOver(GenesisFree, Accounts)

VARIABLES
    licensedOperators,       \* accounts with LicensedOperators = true
    totalEmitted,
    totalBurned,
    nextTrancheId,
    genesisDistributed,
    confederationTreasury,   \* set of at most one account (OptionQuery value)
    regionalTreasuries,      \* region -> account, of the stored keys
    pensionFunds,            \* region -> account, of the stored keys
    currentEpochId,
    epochs,                  \* epoch id -> EpochInfo, of the stored keys
    operatorDebt,            \* account -> epoch id -> debt
    totalOperatorDebt,       \* account -> debt over all epochs
    genesisCreditAvailable,
    totalOutstanding,
    baseKeyRate

pool == <<genesisCreditAvailable, totalOutstanding>>
debts == <<operatorDebt, totalOperatorDebt>>
emission == <<totalEmitted, totalBurned, nextTrancheId>>
treasuries == <<genesisDistributed, confederationTreasury, regionalTreasuries,
                pensionFunds>>
epochBook == <<currentEpochId, epochs>>

cbVars == <<licensedOperators, emission, treasuries, epochBook, debts, pool,
            baseKeyRate>>
vars == <<ledger, cbVars>>

EpochIds == 1 .. MaxEpoch

EpochInfo == [key_rate     : Nat,
              total_issued : Nat,
              total_repaid : Nat,
              credit_limit : Nat]

SatSub(a, b) == IF a >= b THEN a - b ELSE 0

AtMost(a, b) == IF a <= b THEN a ELSE b

-----------------------------------------------------------------------------
(* The key rate                                                            *)

utilization_percent(outstanding) == (outstanding * 100) \div CreditEpochLimit

HealthyRate(u) == (u * OptimalKeyRate) \div OptimalUtilization

PenaltyRate(u) ==
    IF OptimalUtilization = 100
    THEN MaxProtectiveRate
    ELSE OptimalKeyRate
           + ((u - OptimalUtilization) * SatSub(MaxProtectiveRate, OptimalKeyRate))
               \div (100 - OptimalUtilization)

\* Mutant: the penalty phase forgets where the healthy phase ended.
RateRestartsAtPenalty(outstanding) ==
    LET u == utilization_percent(outstanding)
    IN  IF CreditEpochLimit = 0 \/ outstanding = 0 THEN 0
        ELSE IF u <= OptimalUtilization THEN HealthyRate(u)
        ELSE PenaltyRate(u) - OptimalKeyRate

compute_dynamic_rate(outstanding) ==
    LET u == utilization_percent(outstanding)
    IN  IF CreditEpochLimit = 0 \/ outstanding = 0 THEN 0
        ELSE IF u <= OptimalUtilization THEN HealthyRate(u)
        ELSE PenaltyRate(u)

\* The epoch book es after update_dynamic_rate with the given outstanding credit.
update_dynamic_rate(es, outstanding) ==
    [es EXCEPT ![currentEpochId].key_rate = compute_dynamic_rate(outstanding)]

NewEpoch(outstanding) ==
    [key_rate     |-> compute_dynamic_rate(outstanding),
     total_issued |-> 0,
     total_repaid |-> 0,
     credit_limit |-> CreditEpochLimit]

-----------------------------------------------------------------------------
(* Licences, emission and burning: the Board's calls                       *)

grant_operator_license(op) ==
    /\ op \notin licensedOperators
    /\ licensedOperators' = licensedOperators \cup {op}
    /\ UNCHANGED <<ledger, emission, treasuries, epochBook, debts, pool, baseKeyRate>>

revoke_operator_license(op) ==
    /\ op \in licensedOperators
    /\ licensedOperators' = licensedOperators \ {op}
    /\ UNCHANGED <<ledger, emission, treasuries, epochBook, debts, pool, baseKeyRate>>

mint_to_operator(op, amount) ==
    /\ amount > 0
    /\ op \in licensedOperators
    /\ totalEmitted + amount <= MaxEmitted
    /\ deposit_creating(op, amount)
    /\ nextTrancheId' = nextTrancheId + 1
    /\ totalEmitted' = totalEmitted + amount
    /\ UNCHANGED <<totalBurned, licensedOperators, treasuries, epochBook,
                   debts, pool, baseKeyRate>>

burn(op, amount) ==
    /\ amount > 0
    /\ op \in licensedOperators
    /\ withdraw(op, amount)
    /\ totalBurned' = totalBurned + amount
    /\ UNCHANGED <<totalEmitted, nextTrancheId, licensedOperators,
                   treasuries, epochBook, debts, pool, baseKeyRate>>

set_base_rate(rate) ==
    /\ rate <= MaxProtectiveRate
    /\ baseKeyRate' = rate
    /\ UNCHANGED <<ledger, licensedOperators, emission, treasuries, epochBook,
                   debts, pool>>

\* The pointer moves and a fresh record is inserted.
do_epoch_transition ==
    /\ currentEpochId < MaxEpoch
    /\ currentEpochId' = currentEpochId + 1
    /\ epochs' = [e \in DOMAIN epochs \cup {currentEpochId + 1} |->
                    IF e = currentEpochId + 1
                    THEN NewEpoch(totalOutstanding) ELSE epochs[e]]
    /\ UNCHANGED <<ledger, licensedOperators, emission, treasuries, debts, pool,
                   baseKeyRate>>

transition_epoch == do_epoch_transition

-----------------------------------------------------------------------------
(* The rotating credit pool                                                *)

DebtAfter(op, epoch_id, delta) ==
    [operatorDebt EXCEPT ![op][epoch_id] = @ + delta]

\* Mutant: the pool check reads the limit and not what is left of it.
LimitInsteadOfAvailable(op, amount) ==
    /\ amount > 0
    /\ op \in licensedOperators
    /\ CreditEpochLimit >= amount

CanRequestCredit(op, amount) ==
    /\ amount > 0
    /\ op \in licensedOperators
    /\ genesisCreditAvailable >= amount
    /\ currentEpochId \in DOMAIN epochs

RecordDebt(op, amount) ==
    /\ operatorDebt' = DebtAfter(op, currentEpochId, amount)
    /\ totalOperatorDebt' = [totalOperatorDebt EXCEPT ![op] = @ + amount]

do_request_credit(op, amount) ==
    /\ CanRequestCredit(op, amount)
    /\ epochs[currentEpochId].total_issued + amount <= MaxIssued
    /\ genesisCreditAvailable' = SatSub(genesisCreditAvailable, amount)
    /\ totalOutstanding' = totalOutstanding + amount
    /\ deposit_creating(op, amount)
    /\ RecordDebt(op, amount)
    /\ epochs' = update_dynamic_rate(
                   [epochs EXCEPT ![currentEpochId].total_issued = @ + amount],
                   totalOutstanding + amount)
    /\ UNCHANGED <<licensedOperators, emission, treasuries, currentEpochId,
                   baseKeyRate>>

\* Mutant: what is repaid does not come back to the pool.
RepaymentLeavesPool(amount) == UNCHANGED genesisCreditAvailable

RestorePool(amount) ==
    genesisCreditAvailable' = AtMost(genesisCreditAvailable + amount, CreditEpochLimit)

\* Mutant: the repayment is booked in the current epoch, whatever epoch it is for.
RepaymentBookedInCurrentEpoch(epoch_id, amount) ==
    update_dynamic_rate([epochs EXCEPT ![currentEpochId].total_repaid = @ + amount],
                        SatSub(totalOutstanding, amount))

\* Mutant: the rate of the epoch repaid is updated, not the current epoch's.
RateOfRepaidEpoch(epoch_id, amount) ==
    [epochs EXCEPT ![epoch_id].total_repaid = @ + amount,
                   ![epoch_id].key_rate =
                       compute_dynamic_rate(SatSub(totalOutstanding, amount))]

EpochsAfterRepayment(epoch_id, amount) ==
    update_dynamic_rate([epochs EXCEPT ![epoch_id].total_repaid = @ + amount],
                        SatSub(totalOutstanding, amount))

\* Mutant: the repayment is not compared with the debt of the epoch it is for.
RepayMoreThanOwed(op, epoch_id, amount) ==
    /\ amount > 0
    /\ epoch_id \in DOMAIN epochs

CanRepayCredit(op, epoch_id, amount) ==
    /\ amount > 0
    /\ epoch_id \in DOMAIN epochs
    /\ operatorDebt[op][epoch_id] >= amount

do_repay_credit(op, epoch_id, amount) ==
    /\ CanRepayCredit(op, epoch_id, amount)
    /\ withdraw(op, amount)
    /\ operatorDebt' = DebtAfter(op, epoch_id, 0 - amount)
    /\ epochs' = EpochsAfterRepayment(epoch_id, amount)
    /\ totalOperatorDebt' = [totalOperatorDebt EXCEPT ![op] = SatSub(@, amount)]
    /\ RestorePool(amount)
    /\ totalOutstanding' = SatSub(totalOutstanding, amount)
    /\ UNCHANGED <<licensedOperators, emission, treasuries, currentEpochId,
                   baseKeyRate>>

request_credit(op, amount) == do_request_credit(op, amount)

repay_credit(op, epoch_id, amount) == do_repay_credit(op, epoch_id, amount)

\* The pool that the InitCreditPool migration computes from the epoch book.
SumOfEpochs(field) == SumOver([e \in DOMAIN epochs |-> epochs[e][field]], DOMAIN epochs)

InitCreditPool ==
    LET outstanding == SatSub(SumOfEpochs("total_issued"), SumOfEpochs("total_repaid"))
    IN  IF genesisCreditAvailable = 0
        THEN <<SatSub(CreditEpochLimit, outstanding), outstanding>>
        ELSE pool

-----------------------------------------------------------------------------
(* M0: the genesis distribution and the grants                             *)

PureProxies == 1 + 2 * Cardinality(Regions)

RegionalShare == RegionalTotal \div Cardinality(Regions)

PensionShare == PensionTotal \div Cardinality(Regions)

ShareOf(p) == IF p = Confederation THEN ConfederationTotal
              ELSE IF p[1] = "regional" THEN RegionalShare ELSE PensionShare

Distributed == ConfederationTotal + Cardinality(Regions) * (RegionalShare + PensionShare)

\* Every create_pure reserves a deposit of the Creator's and every transfer
\* keeps the Central Bank's account alive; the last of each is the tightest.
CanDistribute ==
    /\ free[Creator] >= PureProxies * ProxyDeposit + ExistentialDeposit
    /\ free[Creator] >= PureProxies * ProxyDeposit + frozen[Creator]
    /\ free[CentralBankAccount] >= Distributed + ExistentialDeposit
    /\ free[CentralBankAccount] >= Distributed + frozen[CentralBankAccount]
    /\ \A p \in PureAccounts : free[p] + ShareOf(p) >= ExistentialDeposit

\* Mutant: the amounts are credited to the treasuries and taken from nobody.
DistributionWithoutSource ==
    [a \in Accounts |->
        IF a \in PureAccounts THEN free[a] + ShareOf(a)
        ELSE IF a = Creator THEN free[a] - PureProxies * ProxyDeposit
        ELSE free[a]]

FreeAfterDistribution ==
    [a \in Accounts |->
        IF a \in PureAccounts THEN free[a] + ShareOf(a)
        ELSE IF a = Creator THEN free[a] - PureProxies * ProxyDeposit
        ELSE IF a = CentralBankAccount THEN free[a] - Distributed
        ELSE free[a]]

trigger_genesis_distribution ==
    /\ ~genesisDistributed
    /\ CanDistribute
    /\ genesisDistributed' = TRUE
    /\ free' = FreeAfterDistribution
    /\ reserved' = [reserved EXCEPT ![Creator] = @ + PureProxies * ProxyDeposit]
    /\ confederationTreasury' = {Confederation}
    /\ regionalTreasuries' = [r \in Regions |-> RegionalTreasury(r)]
    /\ pensionFunds' = [r \in Regions |-> PensionFund(r)]
    /\ UNCHANGED <<frozen, issuance, licensedOperators, emission, epochBook, debts,
                   pool, baseKeyRate>>

\* Mutant: the grant is minted but not added to TotalEmitted.
GrantNotEmitted == UNCHANGED totalEmitted

GrantEmitted == totalEmitted' = totalEmitted + GenesisGrant

issue_genesis_grant(citizen, region_code) ==
    /\ region_code \in DOMAIN pensionFunds
    /\ totalEmitted + GenesisGrant <= MaxEmitted
    /\ deposit_creating(citizen, GenesisGrant)
    /\ GrantEmitted
    /\ UNCHANGED <<totalBurned, nextTrancheId, licensedOperators, treasuries,
                   epochBook, debts, pool, baseKeyRate>>

-----------------------------------------------------------------------------
(* The system                                                              *)

\* A holder moves ALTAN with pallet_balances, outside this pallet.
UserTransfer(src, dst, amount, keepAlive) ==
    /\ transfer(src, dst, amount, keepAlive)
    /\ UNCHANGED cbVars

\* genesis_build and the genesis balances.
Init ==
    /\ free = GenesisFree
    /\ reserved = [a \in Accounts |-> 0]
    /\ frozen = [a \in Accounts |-> 0]
    /\ issuance = M0
    /\ licensedOperators = GenesisLicensed
    /\ totalEmitted = 0
    /\ totalBurned = 0
    /\ nextTrancheId = 0
    /\ genesisDistributed = FALSE
    /\ confederationTreasury = {}
    /\ regionalTreasuries = <<>>
    /\ pensionFunds = <<>>
    /\ currentEpochId = 1
    /\ epochs = [e \in {1} |-> NewEpoch(0)]
    /\ operatorDebt = [a \in Accounts |-> [e \in EpochIds |-> 0]]
    /\ totalOperatorDebt = [a \in Accounts |-> 0]
    /\ genesisCreditAvailable = CreditEpochLimit
    /\ totalOutstanding = 0
    /\ baseKeyRate = OptimalKeyRate

CentralBankNext ==
    \/ \E op \in Operators : grant_operator_license(op) \/ revoke_operator_license(op)
    \/ \E op \in Operators, n \in Amounts : mint_to_operator(op, n) \/ burn(op, n)
    \/ \E rate \in BaseRates : set_base_rate(rate)
    \/ transition_epoch
    \/ \E op \in Wallets, n \in Amounts : request_credit(op, n)
    \/ \E op \in Wallets, e \in EpochIds, n \in Amounts : repay_credit(op, e, n)
    \/ trigger_genesis_distribution
    \/ \E c \in Wallets, r \in Regions : issue_genesis_grant(c, r)

LedgerNext ==
    \E src \in Wallets, dst \in Payees, n \in Amounts, keepAlive \in BOOLEAN :
        UserTransfer(src, dst, n, keepAlive)

Next == CentralBankNext \/ LedgerNext

Spec == Init /\ [][Next]_vars

-----------------------------------------------------------------------------
(* Correctness                                                             *)

TypeOK ==
    /\ LedgerTypeOK
    /\ licensedOperators \subseteq Accounts
    /\ totalEmitted \in Nat
    /\ totalBurned \in Nat
    /\ nextTrancheId \in Nat
    /\ genesisCreditAvailable \in Nat
    /\ totalOutstanding \in Nat
    /\ baseKeyRate \in Nat
    /\ genesisDistributed \in BOOLEAN
    /\ confederationTreasury \subseteq {Confederation}
    /\ DOMAIN regionalTreasuries \in {{}, Regions}
    /\ DOMAIN pensionFunds = DOMAIN regionalTreasuries
    /\ currentEpochId \in EpochIds
    /\ epochs \in [1 .. currentEpochId -> EpochInfo]
    /\ operatorDebt \in [Accounts -> [EpochIds -> Nat]]
    /\ totalOperatorDebt \in [Accounts -> Nat]

(***************************************************************************)
(* Rotating pool: what is available and what is outstanding always make up *)
(* the limit, although do_request_credit and do_repay_credit update the    *)
(* two counters separately, with saturation and a cap.  This is the        *)
(* equality that the comment in try_state states.                          *)
(***************************************************************************)
PoolConservation == genesisCreditAvailable + totalOutstanding = CreditEpochLimit

(***************************************************************************)
(* The four records of one debt agree: per operator and epoch, per         *)
(* operator, per epoch (issued less repaid) and over all.  Each is updated *)
(* by its own statement of do_request_credit and do_repay_credit, also for *)
(* repayments of credit that was taken in an earlier epoch.                *)
(***************************************************************************)
DebtLedgersAgree ==
    /\ \A op \in Accounts :
          totalOperatorDebt[op] = SumOver(operatorDebt[op], EpochIds)
    /\ \A e \in DOMAIN epochs :
          epochs[e].total_issued
            = epochs[e].total_repaid
                + SumOver([op \in Accounts |-> operatorDebt[op][e]], Accounts)
    /\ totalOutstanding = SumOver(totalOperatorDebt, Accounts)

(***************************************************************************)
(* Money exists only as M0, as emission that was not burned, or as credit  *)
(* that is still owed: whatever the interleaving of minting, lending,      *)
(* burning, repaying and moving money between accounts, the issuance is    *)
(* covered.  It is a bound and not an equality because deposit_creating    *)
(* mints nothing to a new account below the existential deposit and        *)
(* because reaped accounts burn their dust.                                *)
(***************************************************************************)
IssuanceBound ==
    issuance + totalBurned <= M0 + totalEmitted + totalOutstanding

\* The stored rate of the open epoch is the rate of the present utilisation,
\* also after repayments for epochs long closed and after an epoch transition.
KeyRateIsCurrent ==
    epochs[currentEpochId].key_rate = compute_dynamic_rate(totalOutstanding)

(***************************************************************************)
(* The two-phase curve has no dip: the key rate of the open epoch never    *)
(* falls while outstanding credit does not fall, in particular across the  *)
(* kink at OptimalUtilization, and never exceeds MaxProtectiveRate.        *)
(***************************************************************************)
RateFollowsUtilisation ==
    [][LET now == epochs[currentEpochId].key_rate
           then == epochs'[currentEpochId'].key_rate
       IN  /\ totalOutstanding' >= totalOutstanding => then >= now
           /\ totalOutstanding' <= totalOutstanding => then <= now
           /\ then <= MaxProtectiveRate]_vars

(***************************************************************************)
(* The audit trail: a closed epoch keeps its key rate and its issued       *)
(* total, and its repaid total only grows, up to what was issued.          *)
(***************************************************************************)
ClosedEpochHistory ==
    [][\A e \in DOMAIN epochs \ {currentEpochId} :
          /\ epochs'[e].key_rate = epochs[e].key_rate
          /\ epochs'[e].total_issued = epochs[e].total_issued
          /\ epochs'[e].total_repaid \in epochs[e].total_repaid .. epochs[e].total_issued]_vars

(***************************************************************************)
(* The InitCreditPool migration is safe to apply again on a live chain:    *)
(* in every reachable state it computes from the epoch book the pool that  *)
(* is already stored, also when the pool is exhausted and the guard of the *)
(* migration takes an empty pool for an uninitialised one.                 *)
(***************************************************************************)
MigrationIsIdempotent == InitCreditPool = pool

(***************************************************************************)
(* What the operators owe is the same number in the pool, in the epochs    *)
(* and in the obligations, what is issued is on some account, and the      *)
(* migration that rebuilds the pool from the epochs may run at any time.   *)
(***************************************************************************)
LedgersAgree == DebtLedgersAgree /\ IssuanceIsHeld /\ MigrationIsIdempotent

(***************************************************************************)
(* The pool of CreditPool, seen through the operators' total debts: credit *)
(* is given while the sum of all debts leaves room for it and only then,   *)
(* and no step but borrowing and repaying changes a debt.                  *)
(***************************************************************************)
Pool == INSTANCE CreditPool WITH Borrowers <- Accounts, Limit <- CreditEpochLimit,
                                 owed <- totalOperatorDebt

ImplementsCreditPool == Pool!Spec

-----------------------------------------------------------------------------
(* What the documentation says and the code does not do                    *)

\* "Hard Cap = M0 + M1 = 21T ALTAN (absolute maximum TotalIssuance)":
\* mint_to_operator and issue_genesis_grant mint outside of M0 and M1.
HardCap == issuance <= M0 + CreditEpochLimit
=============================================================================
