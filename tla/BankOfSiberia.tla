--------------------------- MODULE BankOfSiberia ---------------------------
(***************************************************************************)
(* pallets/bank-of-siberia: citizen accounts, sub-accounts, collateralised *)
(* loans, escrow, time deposits, secured cards and cash advances, and the  *)
(* wholesale window at the Central Bank.  The module composes with         *)
(* CentralBank: both work on one ledger, borrow_wholesale and              *)
(* repay_wholesale call do_request_credit and do_repay_credit.             *)
(*                                                                         *)
(* All of the bank's money is one balance, the keyless treasury account;   *)
(* what the bank owes is spread over the maps below.                       *)
(*                                                                         *)
(* Identifiers count from 0 and a record, once inserted under its          *)
(* identifier, is never removed.  Timestamps that no operation reads and   *)
(* document hashes are left out.                                           *)
(***************************************************************************)
EXTENDS CentralBank, StorageMaps

CONSTANTS
    Treasury,          \* treasury_account(), derived from the PalletId
    Officers,          \* wallets of the officers who may fund the treasury
    Approved,          \* citizens whose migration application is approved
    AccountTypes,      \* subset of {"Savings", "Credit", "Company"}
    Collaterals,       \* collateral amounts request_loan is called with
    CardAmounts,       \* amounts of card collateral and cash advances
    ServerKeys,        \* keys set_bank_server_key is called with
    Nonces,            \* nonces the bank server signs
    Durations,         \* durations open_time_deposit is called with
    ANNUAL_RATE_BPS,
    BLOCKS_PER_YEAR,
    PerbillAccuracy,   \* parts of a Perbill
    MaxBlock,          \* bound on the block number
    MaxLoans,          \* bounds on the identifiers given out
    MaxEscrows,
    MaxDeposits

\* derive_sub_account: one address per master and account type, nobody's key.
derive_sub_account(master, account_type) == <<master, account_type>>
SubAddresses == {derive_sub_account(c, t) : c \in Wallets, t \in AccountTypes}

ASSUME BankAssumption ==
    /\ Treasury \in Accounts \ (Wallets \cup SubAddresses)
    /\ Approved \subseteq Wallets
    /\ Officers \subseteq Wallets
    /\ SubAddresses \subseteq Accounts \ (Wallets \cup {Creator, CentralBankAccount})
    /\ AccountTypes \subseteq {"Savings", "Credit", "Company"}
    /\ Collaterals \subseteq Nat
    /\ CardAmounts \subseteq Nat
    /\ Durations \subseteq Nat
    /\ {ANNUAL_RATE_BPS, MaxBlock, MaxLoans, MaxEscrows, MaxDeposits} \subseteq Nat
    /\ {BLOCKS_PER_YEAR, PerbillAccuracy} \subseteq Nat \ {0}

VARIABLES
    now,                    \* block number
    bankAccounts,           \* citizens with a master account
    subAccounts,            \* <<master, sub>> -> account type
    subAccountMeta,         \* sub -> [master, account_type]
    loanRequests,           \* loan id -> LoanRequest
    nextLoanId,
    activeLoanByBorrower,   \* borrower -> loan id
    loanCollateral,         \* <<borrower, loan id>> -> amount
    escrowContracts,        \* escrow id -> EscrowContract
    nextEscrowId,
    timeDeposits,           \* deposit id -> TimeDeposit
    nextTimeDepositId,
    bankServerKey,          \* set of at most one key
    usedNonces,
    collateralBalances      \* account -> amount

members == <<bankAccounts, subAccounts, subAccountMeta>>
loans == <<loanRequests, nextLoanId, activeLoanByBorrower, loanCollateral>>
escrows == <<escrowContracts, nextEscrowId>>
deposits == <<timeDeposits, nextTimeDepositId>>
cards == <<bankServerKey, usedNonces, collateralBalances>>

bankVars == <<now, members, loans, escrows, deposits, cards>>
allVars == <<vars, bankVars>>

\* A transfer the pallet makes; the Central Bank's storage is not touched.
Pay(src, dst, amount, keepAlive) ==
    /\ transfer(src, dst, amount, keepAlive)
    /\ UNCHANGED cbVars

-----------------------------------------------------------------------------
(* Master accounts and sub-accounts                                        *)

open_master_account(citizen) ==
    /\ citizen \in Approved
    /\ citizen \notin bankAccounts
    /\ bankAccounts' = bankAccounts \cup {citizen}
    /\ UNCHANGED <<vars, now, subAccounts, subAccountMeta, loans, escrows, deposits, cards>>

open_sub_account(master, account_type) ==
    LET sub == derive_sub_account(master, account_type)
    IN  /\ master \in bankAccounts
        /\ <<master, sub>> \notin DOMAIN subAccounts
        /\ subAccounts' = Put(subAccounts, <<master, sub>>, account_type)
        /\ subAccountMeta' = Put(subAccountMeta, sub,
                                 [master |-> master, account_type |-> account_type])
        /\ UNCHANGED <<vars, now, bankAccounts, loans, escrows, deposits, cards>>

ensure_sub_account_owner(master, sub) ==
    /\ sub \in DOMAIN subAccountMeta
    /\ subAccountMeta[sub].master = master

\* Mutant: only the forward map is cleaned up.
RemoveForwardOnly(master, sub) ==
    /\ subAccounts' = Without(subAccounts, <<master, sub>>)
    /\ UNCHANGED subAccountMeta

RemoveSubAccount(master, sub) ==
    /\ subAccounts' = Without(subAccounts, <<master, sub>>)
    /\ subAccountMeta' = Without(subAccountMeta, sub)

\* A withdrawal of the whole balance removes the records before it pays.
withdraw_from_savings(master, sub, amount) ==
    /\ ensure_sub_account_owner(master, sub)
    /\ subAccountMeta[sub].account_type = "Savings"
    /\ amount > 0
    /\ IF amount >= free[sub]
       THEN RemoveSubAccount(master, sub)
       ELSE UNCHANGED <<subAccounts, subAccountMeta>>
    /\ Pay(sub, master, amount, FALSE)
    /\ UNCHANGED <<now, bankAccounts, loans, escrows, deposits, cards>>

close_sub_account(master, sub) ==
    /\ ensure_sub_account_owner(master, sub)
    /\ free[sub] = 0
    /\ RemoveSubAccount(master, sub)
    /\ UNCHANGED <<vars, now, bankAccounts, loans, escrows, deposits, cards>>

-----------------------------------------------------------------------------
(* Loans                                                                   *)

request_loan(borrower, amount, collateral) ==
    /\ borrower \in bankAccounts
    /\ amount > 0
    /\ nextLoanId < MaxLoans
    /\ nextLoanId' = nextLoanId + 1
    /\ frozen' = set_lock(borrower, collateral)
    /\ loanCollateral' = Put(loanCollateral, <<borrower, nextLoanId>>, collateral)
    /\ loanRequests' = Put(loanRequests, nextLoanId,
                           [borrower            |-> borrower,
                            collateral          |-> collateral,
                            amount              |-> amount,
                            status              |-> "Pending",
                            outstanding_balance |-> amount])
    /\ UNCHANGED <<free, reserved, issuance, cbVars, now, members,
                   activeLoanByBorrower, escrows, deposits, cards>>

\* Mutant: a borrower with an active loan gets another one.
ApproveSecondLoan(loan_id) ==
    /\ loan_id \in DOMAIN loanRequests
    /\ loanRequests[loan_id].status = "Pending"
    /\ free[Treasury] >= loanRequests[loan_id].amount

CanApprove(loan_id) ==
    /\ loan_id \in DOMAIN loanRequests
    /\ loanRequests[loan_id].status = "Pending"
    /\ loanRequests[loan_id].borrower \notin DOMAIN activeLoanByBorrower
    /\ free[Treasury] >= loanRequests[loan_id].amount

\* Mutant: the index of active loans is not set.
ApprovalNotIndexed(loan_id) == activeLoanByBorrower

IndexAfterApproval(loan_id) ==
    Put(activeLoanByBorrower, loanRequests[loan_id].borrower, loan_id)

approve_loan(loan_id) ==
    /\ CanApprove(loan_id)
    /\ Pay(Treasury, loanRequests[loan_id].borrower, loanRequests[loan_id].amount, TRUE)
    /\ loanRequests' = [loanRequests EXCEPT ![loan_id].status = "Active"]
    /\ activeLoanByBorrower' = IndexAfterApproval(loan_id)
    /\ UNCHANGED <<now, members, nextLoanId, loanCollateral, escrows, deposits, cards>>

\* Mutant: the lock outlives the cancelled request.
CancelKeepsLock(borrower) == frozen

LockAfterCancel(borrower) == remove_lock(borrower)

\* A cancelled request ends as "Repaid"; the pallet has no other final status.
cancel_loan_request(borrower, loan_id) ==
    /\ loan_id \in DOMAIN loanRequests
    /\ loanRequests[loan_id].borrower = borrower
    /\ loanRequests[loan_id].status = "Pending"
    /\ frozen' = LockAfterCancel(borrower)
    /\ loanCollateral' = Without(loanCollateral, <<borrower, loan_id>>)
    /\ loanRequests' = [loanRequests EXCEPT ![loan_id].status = "Repaid"]
    /\ UNCHANGED <<free, reserved, issuance, cbVars, now, members, nextLoanId,
                   activeLoanByBorrower, escrows, deposits, cards>>

\* Full repayment: the lock, the collateral record and the index go.
CloseLoan(master, loan_id) ==
    /\ frozen' = remove_lock(master)
    /\ loanCollateral' = Without(loanCollateral, <<master, loan_id>>)
    /\ activeLoanByBorrower' = Without(activeLoanByBorrower, master)

\* Mutant: an overpayment takes the debt below zero.
OverpaidBalance(loan_id, amount) == loanRequests[loan_id].outstanding_balance - amount

BalanceAfter(loan_id, amount) == SatSub(loanRequests[loan_id].outstanding_balance, amount)

\* The payment leaves the master's account under the collateral lock, which is
\* removed only afterwards.
pay_credit(master, sub, amount) ==
    /\ ensure_sub_account_owner(master, sub)
    /\ subAccountMeta[sub].account_type = "Credit"
    /\ amount > 0
    /\ master \in DOMAIN activeLoanByBorrower
    /\ LET loan_id == activeLoanByBorrower[master]
           left == BalanceAfter(loan_id, amount)
       IN  /\ loanRequests[loan_id].status = "Active"
           /\ CanTransfer(master, Treasury, amount, TRUE)
           /\ free' = [free EXCEPT ![master] = @ - amount, ![Treasury] = @ + amount]
           /\ IF left = 0
              THEN CloseLoan(master, loan_id)
              ELSE UNCHANGED <<frozen, loanCollateral, activeLoanByBorrower>>
           /\ loanRequests' = [loanRequests EXCEPT
                 ![loan_id].outstanding_balance = left,
                 ![loan_id].status = IF left = 0 THEN "Repaid" ELSE "Active"]
    /\ UNCHANGED <<reserved, issuance, cbVars, now, members, nextLoanId, escrows,
                   deposits, cards>>

\* The index that V2BackfillActiveLoanIndex leaves behind.
V2BackfillActiveLoanIndex ==
    LET missing == {loanRequests[l].borrower : l \in
                      {m \in DOMAIN loanRequests : loanRequests[m].status = "Active"}}
                   \ DOMAIN activeLoanByBorrower
    IN  [b \in DOMAIN activeLoanByBorrower \cup missing |->
           IF b \in missing
           THEN CHOOSE l \in DOMAIN loanRequests :
                   loanRequests[l].borrower = b /\ loanRequests[l].status = "Active"
           ELSE activeLoanByBorrower[b]]

-----------------------------------------------------------------------------
(* Escrow                                                                  *)

create_escrow(depositor, counterparty, amount) ==
    /\ depositor \in bankAccounts
    /\ amount > 0
    /\ depositor # counterparty
    /\ nextEscrowId < MaxEscrows
    /\ Pay(depositor, Treasury, amount, FALSE)
    /\ nextEscrowId' = nextEscrowId + 1
    /\ escrowContracts' = Put(escrowContracts, nextEscrowId,
                              [depositor    |-> depositor,
                               counterparty |-> counterparty,
                               amount       |-> amount,
                               status       |-> "Locked"])
    /\ UNCHANGED <<now, members, loans, deposits, cards>>

\* Mutant: a settled contract is settled again.
SettleAnyContract(escrow_id) == escrow_id \in DOMAIN escrowContracts

CanSettle(escrow_id) ==
    /\ escrow_id \in DOMAIN escrowContracts
    /\ escrowContracts[escrow_id].status = "Locked"

SettleEscrow(escrow_id, payee, status) ==
    /\ CanSettle(escrow_id)
    /\ Pay(Treasury, payee, escrowContracts[escrow_id].amount, FALSE)
    /\ escrowContracts' = [escrowContracts EXCEPT ![escrow_id].status = status]
    /\ UNCHANGED <<nextEscrowId, now, members, loans, deposits, cards>>

release_escrow(caller, escrow_id) ==
    /\ CanSettle(escrow_id)
    /\ escrowContracts[escrow_id].depositor = caller
    /\ SettleEscrow(escrow_id, escrowContracts[escrow_id].counterparty, "Released")

\* Mutant: the refund goes to the seller who asked for it.
RefundToCaller(escrow_id) == escrowContracts[escrow_id].counterparty

RefundPayee(escrow_id) == escrowContracts[escrow_id].depositor

refund_escrow(caller, escrow_id) ==
    /\ CanSettle(escrow_id)
    /\ escrowContracts[escrow_id].counterparty = caller
    /\ SettleEscrow(escrow_id, RefundPayee(escrow_id), "Refunded")

-----------------------------------------------------------------------------
(* Time deposits                                                           *)

\* Perbill::from_rational rounds down and saturates at one.
from_rational(numerator, denominator) ==
    IF numerator >= denominator THEN PerbillAccuracy
    ELSE (numerator * PerbillAccuracy) \div denominator

\* A Perbill times a balance is rounded to the nearest, halves down.
PerbillTimes(parts, amount) ==
    LET exact == parts * amount
    IN  exact \div PerbillAccuracy
          + (IF 2 * (exact % PerbillAccuracy) > PerbillAccuracy THEN 1 ELSE 0)

calculate_interest(amount, interest_rate_bps, opened_at, maturity_block) ==
    PerbillTimes(from_rational(interest_rate_bps * SatSub(maturity_block, opened_at),
                               10000 * BLOCKS_PER_YEAR),
                 amount)

open_time_deposit(depositor, amount, duration_blocks) ==
    /\ depositor \in bankAccounts
    /\ amount > 0
    /\ duration_blocks > 0
    /\ nextTimeDepositId < MaxDeposits
    /\ Pay(depositor, Treasury, amount, FALSE)
    /\ nextTimeDepositId' = nextTimeDepositId + 1
    /\ timeDeposits' = Put(timeDeposits, nextTimeDepositId,
                           [depositor         |-> depositor,
                            amount            |-> amount,
                            interest_rate_bps |-> ANNUAL_RATE_BPS,
                            opened_at         |-> now,
                            maturity_block    |-> now + duration_blocks,
                            status            |-> "Active"])
    /\ UNCHANGED <<now, members, loans, escrows, cards>>

Interest(d) == calculate_interest(d.amount, d.interest_rate_bps, d.opened_at, d.maturity_block)

\* Mutant: a deposit can be claimed one block early.
ClaimEarly(deposit_id) == now + 1 >= timeDeposits[deposit_id].maturity_block

Matured(deposit_id) == now >= timeDeposits[deposit_id].maturity_block

claim_time_deposit(caller, deposit_id) ==
    /\ deposit_id \in DOMAIN timeDeposits
    /\ timeDeposits[deposit_id].depositor = caller
    /\ timeDeposits[deposit_id].status = "Active"
    /\ Matured(deposit_id)
    /\ LET total == timeDeposits[deposit_id].amount + Interest(timeDeposits[deposit_id])
       IN  /\ free[Treasury] >= total
           /\ Pay(Treasury, caller, total, FALSE)
    /\ timeDeposits' = [timeDeposits EXCEPT ![deposit_id].status = "Claimed"]
    /\ UNCHANGED <<nextTimeDepositId, now, members, loans, escrows, cards>>

-----------------------------------------------------------------------------
(* Treasury, secured cards and cash advances                               *)

fund_treasury(who, amount) ==
    /\ amount > 0
    /\ Pay(who, Treasury, amount, TRUE)
    /\ UNCHANGED bankVars

set_bank_server_key(key) ==
    /\ bankServerKey' = {key}
    /\ UNCHANGED <<vars, now, members, loans, escrows, deposits, usedNonces,
                   collateralBalances>>

lock_collateral(caller, amount) ==
    /\ amount > 0
    /\ Pay(caller, Treasury, amount, TRUE)
    /\ collateralBalances' = [collateralBalances EXCEPT ![caller] = @ + amount]
    /\ UNCHANGED <<now, members, loans, escrows, deposits, bankServerKey, usedNonces>>

\* The server signed (account, amount, nonce) with the key on chain; each nonce
\* is accepted once, by whichever of the two calls comes first.
Authorised(nonce) ==
    /\ nonce \notin usedNonces
    /\ bankServerKey # {}

unlock_collateral(caller, amount, nonce) ==
    /\ amount > 0
    /\ Authorised(nonce)
    /\ usedNonces' = usedNonces \cup {nonce}
    /\ collateralBalances[caller] >= amount
    /\ collateralBalances' = [collateralBalances EXCEPT ![caller] = SatSub(@, amount)]
    /\ Pay(Treasury, caller, amount, TRUE)
    /\ UNCHANGED <<now, members, loans, escrows, deposits, bankServerKey>>

claim_cash_advance(who, amount, nonce) ==
    /\ Authorised(nonce)
    /\ usedNonces' = usedNonces \cup {nonce}
    /\ Pay(Treasury, who, amount, TRUE)
    /\ UNCHANGED <<now, members, loans, escrows, deposits, bankServerKey,
                   collateralBalances>>

repay_cash_advance(who, amount) ==
    /\ amount > 0
    /\ Pay(who, Treasury, amount, TRUE)
    /\ UNCHANGED bankVars

-----------------------------------------------------------------------------
(* The wholesale window                                                    *)

\* Mutant: the liquidity is minted without going through the credit pool.
MintWithoutDebt(amount) ==
    /\ deposit_creating(Treasury, amount)
    /\ UNCHANGED <<cbVars, bankVars>>

borrow_wholesale(amount) ==
    /\ do_request_credit(Treasury, amount)
    /\ UNCHANGED bankVars

repay_wholesale(epoch_id, amount) ==
    /\ do_repay_credit(Treasury, epoch_id, amount)
    /\ UNCHANGED bankVars
-----------------------------------------------------------------------------
(* The system                                                              *)

BankInit ==
    /\ Init
    /\ now = 0
    /\ bankAccounts = {}
    /\ subAccounts = <<>>
    /\ subAccountMeta = <<>>
    /\ loanRequests = <<>>
    /\ nextLoanId = 0
    /\ activeLoanByBorrower = <<>>
    /\ loanCollateral = <<>>
    /\ escrowContracts = <<>>
    /\ nextEscrowId = 0
    /\ timeDeposits = <<>>
    /\ nextTimeDepositId = 0
    /\ bankServerKey = {}
    /\ usedNonces = {}
    /\ collateralBalances = [a \in Accounts |-> 0]

\* frame_system: the next block.
NextBlock ==
    /\ now < MaxBlock
    /\ now' = now + 1
    /\ UNCHANGED <<vars, members, loans, escrows, deposits, cards>>

\* The calls that citizen c signs, by line of business.
AccountCall(c) ==
    \/ open_master_account(c)
    \/ \E t \in AccountTypes : open_sub_account(c, t)
    \/ \E sub \in SubAddresses : close_sub_account(c, sub)
    \/ \E sub \in SubAddresses, n \in Amounts : withdraw_from_savings(c, sub, n)

LoanCall(c) ==
    \/ \E n \in Amounts, k \in Collaterals : request_loan(c, n, k)
    \/ \E l \in 0 .. MaxLoans - 1 : cancel_loan_request(c, l)
    \/ \E sub \in SubAddresses, n \in Amounts : pay_credit(c, sub, n)

ContractCall(c) ==
    \/ \E d \in Wallets, n \in Amounts : create_escrow(c, d, n)
    \/ \E e \in 0 .. MaxEscrows - 1 : release_escrow(c, e) \/ refund_escrow(c, e)
    \/ \E n \in Amounts, d \in Durations : open_time_deposit(c, n, d)
    \/ \E d \in 0 .. MaxDeposits - 1 : claim_time_deposit(c, d)

CardCall(c) ==
    \/ \E n \in CardAmounts : lock_collateral(c, n) \/ repay_cash_advance(c, n)
    \/ \E n \in CardAmounts, k \in Nonces : unlock_collateral(c, n, k) \/ claim_cash_advance(c, n, k)

MoneyCall(c) ==
    \/ c \in Officers /\ \E n \in Amounts : fund_treasury(c, n)
    \/ \E dst \in Payees, n \in Amounts, keepAlive \in BOOLEAN :
          UserTransfer(c, dst, n, keepAlive) /\ UNCHANGED bankVars

SignedBy(c) == AccountCall(c) \/ LoanCall(c) \/ ContractCall(c) \/ CardCall(c) \/ MoneyCall(c)

\* A call of an officer that moves no money of the officer's own.
OfficerCall ==
    \/ \E l \in 0 .. MaxLoans - 1 : approve_loan(l)
    \/ \E key \in ServerKeys : set_bank_server_key(key)
    \/ \E n \in Amounts : borrow_wholesale(n)
    \/ \E e \in EpochIds, n \in Amounts : repay_wholesale(e, n)

BankNext ==
    \/ \E c \in Wallets : SignedBy(c)
    \/ OfficerCall
    \/ CentralBankNext /\ UNCHANGED bankVars
    \/ NextBlock

BankSpec == BankInit /\ [][BankNext]_allVars

-----------------------------------------------------------------------------
(* Correctness                                                             *)

BankTypeOK ==
    /\ TypeOK
    /\ now \in 0 .. MaxBlock
    /\ bankAccounts \subseteq Approved
    /\ DOMAIN subAccountMeta \subseteq SubAddresses
    /\ DOMAIN loanRequests = 0 .. nextLoanId - 1
    /\ \A l \in DOMAIN loanRequests :
          loanRequests[l] \in [borrower            : Wallets,
                               collateral          : Nat,
                               amount              : Nat \ {0},
                               status              : {"Pending", "Active", "Repaid"},
                               outstanding_balance : Nat]
    /\ DOMAIN escrowContracts = 0 .. nextEscrowId - 1
    /\ \A e \in DOMAIN escrowContracts :
          escrowContracts[e] \in [depositor    : Wallets,
                                  counterparty : Wallets,
                                  amount       : Nat \ {0},
                                  status       : {"Locked", "Released", "Refunded"}]
    /\ DOMAIN timeDeposits = 0 .. nextTimeDepositId - 1
    /\ bankServerKey \in {{}} \cup {{key} : key \in ServerKeys}
    /\ usedNonces \subseteq Nonces
    /\ collateralBalances \in [Accounts -> Nat]

LoansOf(c, statuses) ==
    {l \in DOMAIN loanRequests :
        loanRequests[l].borrower = c /\ loanRequests[l].status \in statuses}

(***************************************************************************)
(* The loan book: the index of active loans names exactly the active       *)
(* loans, so a borrower has at most one, an active loan is not yet repaid, *)
(* and there is a collateral record for exactly the open loans.            *)
(***************************************************************************)
LoanBookConsistent ==
    /\ \A c \in Wallets :
          LoansOf(c, {"Active"}) =
              IF c \in DOMAIN activeLoanByBorrower THEN {activeLoanByBorrower[c]} ELSE {}
    /\ \A l \in DOMAIN loanRequests :
          loanRequests[l].status = "Active" =>
              loanRequests[l].outstanding_balance \in 1 .. loanRequests[l].amount
    /\ loanCollateral =
          [k \in {<<loanRequests[l].borrower, l>> : l \in
                    {m \in DOMAIN loanRequests : loanRequests[m].status # "Repaid"}}
             |-> loanRequests[k[2]].collateral]

\* A borrower who cancelled or repaid everything can move all of the money again.
NoLockWithoutLoan ==
    \A c \in Wallets : LoansOf(c, {"Pending", "Active"}) = {} => frozen[c] = 0

\* V2BackfillActiveLoanIndex runs at every runtime upgrade and must change
\* nothing on a chain whose calls keep the index themselves.
BackfillIsIdempotent == V2BackfillActiveLoanIndex = activeLoanByBorrower

\* The forward map and the reverse map of the sub-accounts agree after every
\* opening, closing and draining.
SubAccountMapsAgree ==
    /\ {k[2] : k \in DOMAIN subAccounts} = DOMAIN subAccountMeta
    /\ \A k \in DOMAIN subAccounts :
          /\ subAccountMeta[k[2]] = [master |-> k[1], account_type |-> subAccounts[k]]
          /\ k[2] = derive_sub_account(k[1], subAccounts[k])

(***************************************************************************)
(* The indices of the bank agree with the records: the loan book and the   *)
(* locks, the maps of sub-accounts in both directions, and the index that  *)
(* the migration rebuilds from the loans, whenever it runs.                *)
(***************************************************************************)
BooksAgree ==
    /\ BankTypeOK
    /\ LoanBookConsistent
    /\ NoLockWithoutLoan
    /\ SubAccountMapsAgree
    /\ BackfillIsIdempotent

\* What citizen c has: money, sub-accounts, and claims on the bank less the debt.
SubAccountsOf(c) == {sub \in SubAddresses : sub[1] = c}

EscrowsOf(c) ==
    {e \in DOMAIN escrowContracts :
        escrowContracts[e].depositor = c /\ escrowContracts[e].status = "Locked"}

DepositsOf(c) ==
    {d \in DOMAIN timeDeposits :
        timeDeposits[d].depositor = c /\ timeDeposits[d].status = "Active"}

Escrowed(c) ==
    SumOver([e \in DOMAIN escrowContracts |-> escrowContracts[e].amount], EscrowsOf(c))

Deposited(c) ==
    SumOver([d \in DOMAIN timeDeposits |-> timeDeposits[d].amount], DepositsOf(c))

Owed(c) ==
    SumOver([l \in DOMAIN loanRequests |-> loanRequests[l].outstanding_balance],
            LoansOf(c, {"Active"}))

NetWorth(c) ==
    free[c] + SumOver(free, SubAccountsOf(c)) + Escrowed(c) + Deposited(c)
            + collateralBalances[c] - Owed(c)

\* Repaying wholesale credit is signed by the debtor and burns the money.
CreditCall(c) == \E e \in EpochIds, n \in Amounts : repay_credit(c, e, n)

(***************************************************************************)
(* No call of anybody else lowers what a citizen has: a refund returns the *)
(* money of the escrow, an approval pays out what it books as debt, and    *)
(* nobody but the master moves the money of a sub-account.  Whoever holds  *)
(* a licence is subject to the Board's burn, and M0 is distributed once at *)
(* the expense of the Creator and the Central Bank; they are not such      *)
(* citizens.                                                               *)
(***************************************************************************)
OthersCannotTake ==
    [][\A c \in Wallets \ {Creator, CentralBankAccount} :
          /\ ({c} \cup SubAccountsOf(c)) \cap licensedOperators = {}
          /\ NetWorth(c)' < NetWorth(c)
          => SignedBy(c) \/ CreditCall(c)]_allVars

(***************************************************************************)
(* An escrow is settled once: a contract never changes but from Locked to  *)
(* a final status, and the party that the status names receives the amount *)
(* in the same step.                                                       *)
(***************************************************************************)
EscrowSettlesOnce ==
    [][\A e \in DOMAIN escrowContracts :
          LET old == escrowContracts[e]
              new == escrowContracts'[e]
              payee == IF new.status = "Released" THEN old.counterparty ELSE old.depositor
          IN  \/ /\ new = old
                 /\ old.status # "Locked" =>
                       ~ \E c \in Wallets : release_escrow(c, e) \/ refund_escrow(c, e)
              \/ /\ old.status = "Locked"
                 /\ new = [old EXCEPT !.status = new.status]
                 /\ free'[payee] = free[payee] + old.amount]_allVars

(***************************************************************************)
(* A time deposit pays once, not before its maturity, and then no less     *)
(* than the principal.                                                     *)
(***************************************************************************)
DepositPaysOnce ==
    [][\A d \in DOMAIN timeDeposits :
          LET old == timeDeposits[d]
          IN  timeDeposits'[d] # old =>
                 /\ old.status = "Active"
                 /\ now >= old.maturity_block
                 /\ timeDeposits'[d] = [old EXCEPT !.status = "Claimed"]
                 /\ free'[old.depositor] >= free[old.depositor] + old.amount]_allVars

(***************************************************************************)
(* An escrow is settled and a time deposit is paid once, in full.          *)
(***************************************************************************)
ContractsPayOnce == EscrowSettlesOnce /\ DepositPaysOnce

(***************************************************************************)
(* The bank never emits: money comes into being only as emission or as     *)
(* credit that the Central Bank books in the same step, whichever pallet   *)
(* the call enters through.                                                *)
(***************************************************************************)
OnlyCentralBankIssues ==
    [][issuance' > issuance =>
          issuance' - issuance
            <= (totalEmitted' - totalEmitted) + (totalOutstanding' - totalOutstanding)]_allVars

-----------------------------------------------------------------------------
(* What the documentation says and the code does not do                    *)

\* request_loan: "the lock covers the MAXIMUM of any outstanding collateral
\* amount"; a second request replaces the lock and a cancellation removes it.
LockCoversCollateral ==
    \A c \in Wallets : \A l \in LoansOf(c, {"Pending", "Active"}) :
        frozen[c] >= loanRequests[l].collateral
=============================================================================
