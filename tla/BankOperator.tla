---------------------------- MODULE BankOperator ----------------------------
(***************************************************************************)
(* pallets/bank-operator: collateralised credit with a credit rating.  A   *)
(* citizen locks collateral on the bank's special account and requests a   *)
(* credit; Root issues nine times the net collateral as new money; a       *)
(* repayment pays the accrued interest to the bank, burns the principal    *)
(* and, when nothing is left, returns the net collateral.                  *)
(*                                                                         *)
(* Amounts are in real proportions, because the fee, the rate and the      *)
(* interest are integer divisions.  Saturation at 2^128 is out of reach of *)
(* the issuance and left out; so are asset types, created_at and the calls *)
(* assess_rwa and request_account_freeze, which emit events and no more.   *)
(***************************************************************************)
EXTENDS AltanBalances, StorageMaps, Clock

CONSTANTS
    Customers,              \* accounts that lock collateral
    BankAccounts,           \* accounts Root configures as the special account
    InitialFree,            \* balances at the start
    CollateralAmounts,      \* amounts of lock_collateral
    RepayAmounts,           \* amounts of repay_credit
    ReserveMultiplier,      \* 9
    InterestPeriodBlocks,   \* blocks of one interest period
    MaxCollaterals          \* bound on the collateral contracts

ASSUME OperatorAssumption ==
    /\ Customers \subseteq Accounts
    /\ BankAccounts \subseteq Accounts \ Customers
    /\ InitialFree \in [Accounts -> Nat]
    /\ CollateralAmounts \subseteq Nat
    /\ RepayAmounts \subseteq Nat
    /\ ReserveMultiplier \in Nat
    /\ InterestPeriodBlocks \in Nat \ {0}
    /\ MaxCollaterals \in Nat

VARIABLES
    collateralContracts,     \* id -> CollateralContract
    nextCollateralId,
    creditContracts,         \* id -> CreditContract
    nextCreditId,
    bankSpecialAccount,      \* set of at most one account
    totalCreditOutstanding,
    creditScores             \* citizen -> CreditScoreRecord

creditVars == <<collateralContracts, nextCollateralId, creditContracts, nextCreditId,
                bankSpecialAccount, totalCreditOutstanding, creditScores>>

CreditTier == {"Excellent", "Good", "Fair", "BelowFair", "Poor"}

from_score(score) ==
    CASE score \in 750 .. 850 -> "Excellent"
      [] score \in 700 .. 749 -> "Good"
      [] score \in 650 .. 699 -> "Fair"
      [] score \in 600 .. 649 -> "BelowFair"
      [] OTHER -> "Poor"

annual_rate_bps ==
    [Excellent |-> 0, Good |-> 300, Fair |-> 700, BelowFair |-> 1000, Poor |-> 1500]

daily_rate_bps(tier) == (annual_rate_bps[tier] + 364) \div 365

Least(m, n) == IF m <= n THEN m ELSE n
Most(m, n) == IF m >= n THEN m ELSE n

-----------------------------------------------------------------------------
(* Credit scores                                                           *)

new_default == [score |-> 650, credits_repaid |-> 0, credits_defaulted |-> 0]

ScoreOf(citizen) == IF citizen \in DOMAIN creditScores THEN creditScores[citizen] ELSE new_default

apply_full_repayment(r) ==
    [r EXCEPT !.score = Least(@ + 20, 850), !.credits_repaid = @ + 1]

apply_partial_repayment(r) == [r EXCEPT !.score = Least(@ + 5, 850)]

apply_default(r) == [r EXCEPT !.score = Most(@ - 100, 300), !.credits_defaulted = @ + 1]

-----------------------------------------------------------------------------
OperatorInit ==
    /\ collateralContracts = <<>>
    /\ nextCollateralId = 0
    /\ creditContracts = <<>>
    /\ nextCreditId = 0
    /\ bankSpecialAccount = {}
    /\ totalCreditOutstanding = 0
    /\ creditScores = <<>>

set_bank_account(account) ==
    /\ bankSpecialAccount' = {account}
    /\ UNCHANGED <<ledger, block, collateralContracts, nextCollateralId, creditContracts,
                   nextCreditId, totalCreditOutstanding, creditScores>>

\* A tenth of the collateral is the bank's fee, rounded down.
NewCollateral(citizen, amount) ==
    [citizen           |-> citizen,
     collateral_amount |-> amount,
     collateral_net    |-> amount - amount \div 10,
     status            |-> "Locked",
     credit_requested  |-> FALSE]

lock_collateral(citizen, amount) ==
    /\ amount > 0
    /\ nextCollateralId < MaxCollaterals
    /\ \E bank \in bankSpecialAccount : transfer(citizen, bank, amount, TRUE)
    /\ collateralContracts' =
          Put(collateralContracts, nextCollateralId, NewCollateral(citizen, amount))
    /\ nextCollateralId' = nextCollateralId + 1
    /\ UNCHANGED <<block, creditContracts, nextCreditId, bankSpecialAccount,
                   totalCreditOutstanding, creditScores>>

request_credit(citizen, id) ==
    /\ id \in DOMAIN collateralContracts
    /\ collateralContracts[id].citizen = citizen
    /\ collateralContracts[id].status = "Locked"
    /\ ~collateralContracts[id].credit_requested
    /\ collateralContracts' = [collateralContracts EXCEPT ![id].credit_requested = TRUE]
    /\ UNCHANGED <<ledger, block, nextCollateralId, creditContracts, nextCreditId,
                   bankSpecialAccount, totalCreditOutstanding, creditScores>>

\* Mutant: the status of the collateral is not looked at.
IssueOnAnyCollateral(col) == nextCreditId < MaxCollaterals /\ col.credit_requested

CanIssue(col) == col.status = "Locked" /\ col.credit_requested

NewCredit(id, col, amount) ==
    [citizen             |-> col.citizen,
     collateral_id       |-> id,
     credit_amount       |-> amount,
     outstanding         |-> amount,
     accrued_interest    |-> 0,
     issued_at           |-> block,
     last_interest_block |-> block,
     tier                |-> from_score(ScoreOf(col.citizen).score),
     status              |-> "Active"]

issue_credit(id) ==
    /\ ReserveMultiplier = 9
    /\ id \in DOMAIN collateralContracts
    /\ CanIssue(collateralContracts[id])
    /\ LET col == collateralContracts[id]
           amount == col.collateral_net * ReserveMultiplier
       IN  /\ creditScores' = Put(creditScores, col.citizen, ScoreOf(col.citizen))
           /\ deposit_creating(col.citizen, amount)
           /\ creditContracts' = Put(creditContracts, nextCreditId, NewCredit(id, col, amount))
           /\ totalCreditOutstanding' = totalCreditOutstanding + amount
    /\ collateralContracts' = [collateralContracts EXCEPT ![id].status = "Active"]
    /\ nextCreditId' = nextCreditId + 1
    /\ UNCHANGED <<block, nextCollateralId, bankSpecialAccount>>

-----------------------------------------------------------------------------
(* Interest                                                                *)

\* Whole periods only: the rest of a period is lost when an accrual is stored.
calculate_accrued_interest(credit) ==
    LET periods == (block - credit.last_interest_block) \div InterestPeriodBlocks
    IN  (credit.outstanding * daily_rate_bps(credit.tier) * periods) \div 10000

\* Mutant: the block of the accrual is not recorded.
AccruedAgain(credit) ==
    [credit EXCEPT !.accrued_interest = @ + calculate_accrued_interest(credit)]

\* The credit with the interest up to this block.
Accrued(credit) ==
    [credit EXCEPT !.accrued_interest = @ + calculate_accrued_interest(credit),
                   !.last_interest_block = block]

IsActiveCredit(id) == id \in DOMAIN creditContracts /\ creditContracts[id].status = "Active"

accrue_interest(id) ==
    /\ IsActiveCredit(id)
    /\ creditContracts' =
          IF calculate_accrued_interest(creditContracts[id]) > 0
          THEN [creditContracts EXCEPT ![id] = Accrued(@)] ELSE creditContracts
    /\ UNCHANGED <<ledger, block, collateralContracts, nextCollateralId, nextCreditId,
                   bankSpecialAccount, totalCreditOutstanding, creditScores>>

-----------------------------------------------------------------------------
(* Repayment                                                               *)

InterestPart(credit, amount) == Least(credit.accrued_interest, amount)

PrincipalPart(credit, amount) ==
    Least(amount - InterestPart(credit, amount), credit.outstanding)

\* Mutant: the whole payment is booked as principal.
TotalLessPayment(credit, amount) == totalCreditOutstanding - Least(amount, totalCreditOutstanding)

TotalAfter(credit, amount) == totalCreditOutstanding - PrincipalPart(credit, amount)

\* The credit after a payment of amount.
Reduced(credit, amount) ==
    [credit EXCEPT !.accrued_interest = @ - InterestPart(credit, amount),
                   !.outstanding = @ - PrincipalPart(credit, amount)]

FullyRepaid(credit) == credit.outstanding = 0 /\ credit.accrued_interest = 0

\* The score is stored only if it changed.
ScoresAfter(citizen, full, burned) ==
    LET old == ScoreOf(citizen)
        new == IF full THEN apply_full_repayment(old)
               ELSE IF burned > 0 THEN apply_partial_repayment(old) ELSE old
    IN  IF new.score # old.score THEN Put(creditScores, citizen, new) ELSE creditScores

CanBurn(bal, who, v) == v = 0 \/ bal[who] >= v + Most(ExistentialDeposit, frozen[who])

Burned(bal, who, v) == [bal EXCEPT ![who] = @ - v]

\* Interest to the bank, principal out of the issuance, collateral back: the
\* three movements of money succeed together or the call fails.
MoveMoney(citizen, bank, interest, principal, returned) ==
    LET afterInterest == PaidFrom(free, citizen, bank, interest)
        afterBurn == Burned(afterInterest, citizen, principal)
    IN  /\ CanPay(free, citizen, bank, interest)
        /\ CanBurn(afterInterest, citizen, principal)
        /\ CanPay(afterBurn, bank, citizen, returned)
        /\ free' = PaidFrom(afterBurn, bank, citizen, returned)
        /\ issuance' = issuance - principal
        /\ UNCHANGED <<reserved, frozen>>

CanRepay(citizen, id) == IsActiveCredit(id) /\ creditContracts[id].citizen = citizen

repay_credit(citizen, id, amount) ==
    /\ amount > 0
    /\ CanRepay(citizen, id)
    /\ LET due == Accrued(creditContracts[id])
           left == Reduced(due, amount)
           full == FullyRepaid(left)
           col == collateralContracts[due.collateral_id]
       IN  /\ \E bank \in bankSpecialAccount :
                 MoveMoney(citizen, bank, InterestPart(due, amount), PrincipalPart(due, amount),
                           IF full THEN col.collateral_net ELSE 0)
           /\ totalCreditOutstanding' = TotalAfter(due, amount)
           /\ creditScores' = ScoresAfter(citizen, full, PrincipalPart(due, amount))
           /\ creditContracts' =
                 [creditContracts EXCEPT
                     ![id] = IF full THEN [left EXCEPT !.status = "Repaid"] ELSE left]
           /\ collateralContracts' =
                 IF full THEN [collateralContracts EXCEPT ![due.collateral_id].status = "Released"]
                 ELSE collateralContracts
    /\ UNCHANGED <<block, nextCollateralId, nextCreditId, bankSpecialAccount>>

declare_default(id) ==
    /\ IsActiveCredit(id)
    /\ creditContracts' = [creditContracts EXCEPT ![id].status = "Default"]
    /\ LET citizen == creditContracts[id].citizen
       IN  creditScores' = Put(creditScores, citizen, apply_default(ScoreOf(citizen)))
    /\ UNCHANGED <<ledger, block, collateralContracts, nextCollateralId, nextCreditId,
                   bankSpecialAccount, totalCreditOutstanding>>

ContractIds == 0 .. MaxCollaterals - 1

CreditStep ==
    \/ \E a \in BankAccounts : set_bank_account(a)
    \/ \E c \in Customers, v \in CollateralAmounts : lock_collateral(c, v)
    \/ \E c \in Customers, id \in ContractIds : request_credit(c, id)
    \/ \E id \in ContractIds : issue_credit(id) \/ accrue_interest(id) \/ declare_default(id)
    \/ \E c \in Customers, id \in ContractIds, v \in RepayAmounts : repay_credit(c, id, v)
    \/ NextBlock /\ UNCHANGED <<ledger, creditVars>>

-----------------------------------------------------------------------------
(* Correctness                                                             *)

\* What the contracts say, as functions to sum.
OutstandingOf == [k \in DOMAIN creditContracts |-> creditContracts[k].outstanding]

AccruedOf == [k \in DOMAIN creditContracts |-> creditContracts[k].accrued_interest]

CreditsOn(id) == {k \in DOMAIN creditContracts : creditContracts[k].collateral_id = id}

(***************************************************************************)
(* The books of collateral and of credit agree: no collateral backs two    *)
(* credits, it is released exactly when its credit is repaid, a repaid     *)
(* credit owes nothing, no credit owes more than was lent, the total is    *)
(* what all credits owe, and scores stay on their scale.                   *)
(***************************************************************************)
CreditBookAgrees ==
    /\ \A id \in DOMAIN collateralContracts :
          LET status == collateralContracts[id].status
          IN  /\ Cardinality(CreditsOn(id)) = IF status = "Locked" THEN 0 ELSE 1
              /\ \A k \in CreditsOn(id) :
                    /\ creditContracts[k].citizen = collateralContracts[id].citizen
                    /\ status = "Released" <=> creditContracts[k].status = "Repaid"
                    /\ status = "Released" => FullyRepaid(creditContracts[k])
    /\ \A k \in DOMAIN creditContracts :
          creditContracts[k].outstanding \in 0 .. creditContracts[k].credit_amount
    /\ totalCreditOutstanding = SumOver(OutstandingOf, DOMAIN creditContracts)
    /\ \A c \in DOMAIN creditScores : creditScores[c].score \in 300 .. 850

\* The issuance is the opening issuance and what is still owed: what
\* issue_credit creates is burned by repayments, not by interest, and no less
\* than the principal is burned before a credit is closed.
CreditIsBorrowed ==
    issuance <= SumOver(InitialFree, Accounts) + totalCreditOutstanding

\* Of a collateral that is released only the fee stays with the bank.
KeptOf(col) ==
    IF col.status = "Released" THEN col.collateral_amount - col.collateral_net
    ELSE col.collateral_amount

Kept == [id \in DOMAIN collateralContracts |-> KeptOf(collateralContracts[id])]

\* What the special accounts earned, apart from the collateral they hold or returned.
Income ==
    SumOver(free, BankAccounts) - SumOver(InitialFree, BankAccounts)
    - SumOver(Kept, DOMAIN collateralContracts)

\* The interest on the whole amount over the whole periods since the issuance.
MostInterest(k) ==
    (k.credit_amount * daily_rate_bps(k.tier)
        * ((k.last_interest_block - k.issued_at) \div InterestPeriodBlocks)) \div 10000

MostInterestOf == [k \in DOMAIN creditContracts |-> MostInterest(creditContracts[k])]

(***************************************************************************)
(* The bank holds the fees and the collateral that is not released, also   *)
(* after Root names another special account, and what it has beyond that   *)
(* is interest: no period is charged twice, however accruals, repayments   *)
(* and blocks follow each other.                                           *)
(***************************************************************************)
IncomeIsInterest ==
    /\ Income >= 0
    /\ Income + SumOver(AccruedOf, DOMAIN creditContracts)
          <= SumOver(MostInterestOf, DOMAIN creditContracts)
=============================================================================
