------------------------ MODULE BankOfSiberiaProofs ------------------------
(***************************************************************************)
(* Proofs about BankOfSiberia composed with CentralBank, for any number of *)
(* citizens, loans, escrows, deposits, epochs and blocks and any amounts.  *)
(*                                                                         *)
(* The bank's calls enter the Central Bank only through do_request_credit  *)
(* and do_repay_credit, so that the Central Bank's invariant IInv, proved  *)
(* in CentralBankProofs for its own calls, survives all of them.  The      *)
(* bank's invariant has one part per line of business.                     *)
(***************************************************************************)
EXTENDS BankOfSiberia, CentralBankProofs

LoanRecord ==
    [borrower : Wallets, collateral : Nat, amount : Nat \ {0},
     status : {"Pending", "Active", "Repaid"}, outstanding_balance : Nat]

\* The index of the active loans, read in both directions.
ActiveIndex ==
    /\ activeLoanByBorrower = [c \in DOMAIN activeLoanByBorrower |-> activeLoanByBorrower[c]]
    /\ \A l \in DOMAIN loanRequests : loanRequests[l].status = "Active" =>
          /\ loanRequests[l].borrower \in DOMAIN activeLoanByBorrower
          /\ activeLoanByBorrower[loanRequests[l].borrower] = l
    /\ \A c \in DOMAIN activeLoanByBorrower :
          /\ activeLoanByBorrower[c] \in DOMAIN loanRequests
          /\ loanRequests[activeLoanByBorrower[c]].borrower = c
          /\ loanRequests[activeLoanByBorrower[c]].status = "Active"

\* What is left of a loan: all of a pending one, some of an active one.
Outstanding ==
    \A l \in DOMAIN loanRequests :
        /\ loanRequests[l].status = "Pending"
              => loanRequests[l].outstanding_balance = loanRequests[l].amount
        /\ loanRequests[l].status = "Active"
              => loanRequests[l].outstanding_balance \in 1 .. loanRequests[l].amount

OpenLoans == {l \in DOMAIN loanRequests : loanRequests[l].status # "Repaid"}

\* There is a collateral record for exactly the open loans.
CollateralBook ==
    /\ loanCollateral = [k \in DOMAIN loanCollateral |-> loanCollateral[k]]
    /\ \A k \in DOMAIN loanCollateral :
          \E l \in OpenLoans : k = <<loanRequests[l].borrower, l>>
    /\ \A l \in OpenLoans :
          /\ <<loanRequests[l].borrower, l>> \in DOMAIN loanCollateral
          /\ loanCollateral[<<loanRequests[l].borrower, l>>] = loanRequests[l].collateral

LoanInv ==
    /\ nextLoanId \in Nat
    /\ DOMAIN loanRequests = 0 .. nextLoanId - 1
    /\ \A l \in DOMAIN loanRequests : loanRequests[l] \in LoanRecord
    /\ ActiveIndex
    /\ Outstanding
    /\ CollateralBook
    /\ NoLockWithoutLoan

\* The two maps of the sub-accounts, each read in the direction of the other.
MemberInv ==
    /\ bankAccounts \subseteq Approved
    /\ DOMAIN subAccountMeta \subseteq SubAddresses
    /\ \A k \in DOMAIN subAccounts :
          /\ k = <<k[1], derive_sub_account(k[1], subAccounts[k])>>
          /\ k[2] \in DOMAIN subAccountMeta
          /\ subAccountMeta[k[2]] = [master |-> k[1], account_type |-> subAccounts[k]]
    /\ \A s \in DOMAIN subAccountMeta :
          /\ <<subAccountMeta[s].master, s>> \in DOMAIN subAccounts
          /\ subAccountMeta[s].master \in Wallets

EscrowInv ==
    /\ nextEscrowId \in Nat
    /\ DOMAIN escrowContracts = 0 .. nextEscrowId - 1
    /\ \A e \in DOMAIN escrowContracts :
          escrowContracts[e] \in [depositor    : Wallets,
                                  counterparty : Wallets,
                                  amount       : Nat \ {0},
                                  status       : {"Locked", "Released", "Refunded"}]

TimeDeposit ==
    [depositor : Wallets, amount : Nat, interest_rate_bps : Nat, opened_at : Nat,
     maturity_block : Nat, status : {"Active", "Claimed"}]

DepositInv ==
    /\ nextTimeDepositId \in Nat
    /\ DOMAIN timeDeposits = 0 .. nextTimeDepositId - 1
    /\ \A d \in DOMAIN timeDeposits : timeDeposits[d] \in TimeDeposit

CardInv ==
    /\ bankServerKey \in {{}} \cup {{key} : key \in ServerKeys}
    /\ usedNonces \subseteq Nonces
    /\ collateralBalances \in [Accounts -> Nat]

BankIInv ==
    /\ IInv
    /\ now \in 0 .. MaxBlock
    /\ LoanInv /\ MemberInv /\ EscrowInv /\ DepositInv /\ CardInv

\* Who may issue money in a step.
IssuesAsBooked ==
    issuance' > issuance =>
        issuance' - issuance
          <= (totalEmitted' - totalEmitted) + (totalOutstanding' - totalOutstanding)

-----------------------------------------------------------------------------
(* Frames                                                                  *)

\* The loan book and the locks, left alone, keep their part.
LEMMA LoansKept ==
    ASSUME LoanInv, UNCHANGED <<loans, frozen>>
    PROVE  LoanInv'
BY DEF LoanInv, loans, ActiveIndex, Outstanding, OpenLoans, CollateralBook, NoLockWithoutLoan,
       LoansOf

\* The accounts and sub-accounts, left alone, keep their part.
LEMMA MembersKept ==
    ASSUME MemberInv, UNCHANGED members
    PROVE  MemberInv'
BY DEF MemberInv, members

\* The escrows, left alone, keep their part.
LEMMA EscrowsKept ==
    ASSUME EscrowInv, UNCHANGED escrows
    PROVE  EscrowInv'
BY DEF EscrowInv, escrows

\* The time deposits, left alone, keep their part.
LEMMA DepositsKept ==
    ASSUME DepositInv, UNCHANGED deposits
    PROVE  DepositInv'
BY DEF DepositInv, deposits

\* The card store, left alone, keeps its part.
LEMMA CardsKept ==
    ASSUME CardInv, UNCHANGED cards
    PROVE  CardInv'
BY DEF CardInv, cards

\* A transfer issues nothing and leaves the locks and the Central Bank alone.
LEMMA PayStep ==
    ASSUME IInv, NEW src \in Accounts, NEW dst \in Accounts, NEW v \in Nat,
           NEW keepAlive \in BOOLEAN, Pay(src, dst, v, keepAlive)
    PROVE  IInv' /\ UNCHANGED frozen /\ IssuesAsBooked
<1>1. LedgerTypeOK
  BY DEF IInv, TypeOK
<1>2. LedgerTypeOK' /\ issuance' <= issuance /\ UNCHANGED cbVars
  BY <1>1, Transfer DEF Pay
<1>3. IInv'
  BY <1>2, TransferStep
<1>4. UNCHANGED frozen
  BY DEF Pay, transfer
<1>5. IssuesAsBooked
  BY <1>1, <1>2 DEF IssuesAsBooked, LedgerTypeOK
<1> QED BY <1>3, <1>4, <1>5

\* A change of a lock issues nothing either.
LEMMA LockStep ==
    ASSUME IInv, frozen' \in [Accounts -> Nat], UNCHANGED <<free, reserved, issuance, cbVars>>
    PROVE  IInv' /\ IssuesAsBooked
<1>1. LedgerTypeOK
  BY DEF IInv, TypeOK
<1>2. LedgerTypeOK' /\ issuance' <= issuance
  BY <1>1 DEF LedgerTypeOK
<1> QED BY <1>1, <1>2, TransferStep DEF IssuesAsBooked, LedgerTypeOK
\* A call that moves no money.
LEMMA QuietStep ==
    ASSUME IInv, UNCHANGED vars
    PROVE  IInv' /\ IssuesAsBooked
<1>1. issuance \in Int /\ issuance' = issuance
  BY DEF IInv, TypeOK, LedgerTypeOK, vars, ledger
<1>2. IssuesAsBooked
  BY <1>1 DEF IssuesAsBooked
<1> QED BY <1>2, StutterStep

-----------------------------------------------------------------------------
(* Master accounts and sub-accounts                                        *)

\* Opening a sub-account preserves the members: its address is its master's
\* alone, so no other record can have it.
LEMMA SubAccountOpened ==
    ASSUME MemberInv, NEW c \in Wallets, NEW t \in AccountTypes, open_sub_account(c, t)
    PROVE  MemberInv'
<1> DEFINE sub == <<c, t>>
           meta == [master |-> c, account_type |-> t]
<1>1. /\ <<c, sub>> \notin DOMAIN subAccounts
      /\ subAccounts' = Put(subAccounts, <<c, sub>>, t)
      /\ subAccountMeta' = Put(subAccountMeta, sub, meta)
      /\ bankAccounts' = bankAccounts
      /\ sub \in SubAddresses
  BY DEF open_sub_account, derive_sub_account, SubAddresses
<1>2. /\ DOMAIN subAccounts' = DOMAIN subAccounts \cup {<<c, sub>>}
      /\ subAccounts'[<<c, sub>>] = t
      /\ \A k \in DOMAIN subAccounts : subAccounts'[k] = subAccounts[k]
  BY <1>1 DEF Put
<1>3. /\ DOMAIN subAccountMeta' = DOMAIN subAccountMeta \cup {sub}
      /\ subAccountMeta'[sub] = meta
      /\ \A s \in DOMAIN subAccountMeta : s # sub => subAccountMeta'[s] = subAccountMeta[s]
  BY <1>1 DEF Put
<1>4. ASSUME NEW k \in DOMAIN subAccounts'
      PROVE  /\ k = <<k[1], derive_sub_account(k[1], subAccounts'[k])>>
             /\ k[2] \in DOMAIN subAccountMeta'
             /\ subAccountMeta'[k[2]] = [master |-> k[1], account_type |-> subAccounts'[k]]
  <2>1. CASE k = <<c, sub>>
    BY <2>1, <1>2, <1>3 DEF derive_sub_account
  <2>2. CASE k # <<c, sub>>
    <3>1. /\ k \in DOMAIN subAccounts
          /\ k = <<k[1], <<k[1], subAccounts[k]>>>>
          /\ k[2] \in DOMAIN subAccountMeta
          /\ subAccountMeta[k[2]] = [master |-> k[1], account_type |-> subAccounts[k]]
      BY <2>2, <1>2 DEF MemberInv, derive_sub_account
    <3>2. k[2] # sub
      <4> SUFFICES ASSUME k[2] = sub PROVE FALSE
        OBVIOUS
      <4>1. k[2] = <<k[1], subAccounts[k]>>
        BY <3>1
      <4>2. k[1] = c
        BY <4>1
      <4> QED BY <3>1, <4>1, <4>2, <2>2
    <3> QED BY <3>1, <3>2, <1>2, <1>3 DEF derive_sub_account
  <2> QED BY <2>1, <2>2
<1>5. ASSUME NEW s \in DOMAIN subAccountMeta'
      PROVE  /\ <<subAccountMeta'[s].master, s>> \in DOMAIN subAccounts'
             /\ subAccountMeta'[s].master \in Wallets
  <2>1. CASE s = sub
    BY <2>1, <1>2, <1>3
  <2>2. CASE s # sub
    BY <2>2, <1>2, <1>3 DEF MemberInv
  <2> QED BY <2>1, <2>2
<1>6. bankAccounts' \subseteq Approved /\ DOMAIN subAccountMeta' \subseteq SubAddresses
  BY <1>1, <1>3 DEF MemberInv
<1> QED BY <1>4, <1>5, <1>6 DEF MemberInv

\* Removing a sub-account cleans up both maps at the same place.
LEMMA SubAccountRemoved ==
    ASSUME MemberInv, NEW c \in Wallets, NEW sub \in SubAddresses,
           ensure_sub_account_owner(c, sub), RemoveSubAccount(c, sub), UNCHANGED bankAccounts
    PROVE  MemberInv'
<1>1. /\ DOMAIN subAccounts' = DOMAIN subAccounts \ {<<c, sub>>}
      /\ \A k \in DOMAIN subAccounts' : subAccounts'[k] = subAccounts[k]
      /\ DOMAIN subAccountMeta' = DOMAIN subAccountMeta \ {sub}
      /\ \A s \in DOMAIN subAccountMeta' : subAccountMeta'[s] = subAccountMeta[s]
  BY DEF RemoveSubAccount, Without
<1>2. ASSUME NEW k \in DOMAIN subAccounts'
      PROVE  k[2] # sub
  <2> SUFFICES ASSUME k[2] = sub PROVE FALSE
    OBVIOUS
  <2>1. /\ k \in DOMAIN subAccounts /\ k # <<c, sub>>
        /\ k = <<k[1], derive_sub_account(k[1], subAccounts[k])>>
        /\ subAccountMeta[sub] = [master |-> k[1], account_type |-> subAccounts[k]]
    BY <1>1 DEF MemberInv
  <2>2. k[1] = c
    BY <2>1 DEF ensure_sub_account_owner
  <2>3. k = <<k[1], k[2]>>
    BY <2>1 DEF derive_sub_account
  <2> QED BY <2>1, <2>2, <2>3
<1>3. ASSUME NEW k \in DOMAIN subAccounts'
      PROVE  /\ k = <<k[1], derive_sub_account(k[1], subAccounts'[k])>>
             /\ k[2] \in DOMAIN subAccountMeta'
             /\ subAccountMeta'[k[2]] = [master |-> k[1], account_type |-> subAccounts'[k]]
  <2>1. k[2] # sub
    BY <1>2
  <2>2. k \in DOMAIN subAccounts /\ subAccounts'[k] = subAccounts[k]
    BY <1>1
  <2>3. /\ k = <<k[1], derive_sub_account(k[1], subAccounts[k])>>
        /\ k[2] \in DOMAIN subAccountMeta
        /\ subAccountMeta[k[2]] = [master |-> k[1], account_type |-> subAccounts[k]]
    BY <2>2 DEF MemberInv
  <2> QED BY <2>1, <2>2, <2>3, <1>1
<1>4. ASSUME NEW s \in DOMAIN subAccountMeta'
      PROVE  /\ <<subAccountMeta'[s].master, s>> \in DOMAIN subAccounts'
             /\ subAccountMeta'[s].master \in Wallets
  <2>1. s # sub /\ s \in DOMAIN subAccountMeta /\ subAccountMeta'[s] = subAccountMeta[s]
    BY <1>1
  <2>2. <<subAccountMeta[s].master, s>> # <<c, sub>>
    BY <2>1
  <2> QED BY <2>1, <2>2, <1>1 DEF MemberInv
<1>5. bankAccounts' \subseteq Approved /\ DOMAIN subAccountMeta' \subseteq SubAddresses
  BY <1>1 DEF MemberInv
<1> QED BY <1>3, <1>4, <1>5 DEF MemberInv

\* The calls on accounts preserve the invariant.
LEMMA AccountStep ==
    ASSUME BankIInv, NEW c \in Wallets, AccountCall(c)
    PROVE  BankIInv' /\ IssuesAsBooked
<1> USE DEF BankIInv
<1>1. CASE open_master_account(c)
  <2>1. IInv' /\ IssuesAsBooked
    BY <1>1, QuietStep DEF open_master_account
  <2>2. LoanInv' /\ EscrowInv' /\ DepositInv' /\ CardInv'
    BY <1>1, LoansKept, EscrowsKept, DepositsKept, CardsKept DEF open_master_account, vars, ledger
  <2>3. MemberInv'
    BY <1>1 DEF open_master_account, MemberInv
  <2> QED BY <1>1, <2>1, <2>2, <2>3 DEF open_master_account
<1>2. ASSUME NEW t \in AccountTypes, open_sub_account(c, t)
      PROVE  BankIInv' /\ IssuesAsBooked
  <2>1. IInv' /\ IssuesAsBooked
    BY <1>2, QuietStep DEF open_sub_account
  <2>2. LoanInv' /\ EscrowInv' /\ DepositInv' /\ CardInv'
    BY <1>2, LoansKept, EscrowsKept, DepositsKept, CardsKept DEF open_sub_account, vars, ledger
  <2>3. MemberInv'
    BY <1>2, SubAccountOpened
  <2> QED BY <1>2, <2>1, <2>2, <2>3 DEF open_sub_account
<1>3. ASSUME NEW sub \in SubAddresses, close_sub_account(c, sub)
      PROVE  BankIInv' /\ IssuesAsBooked
  <2>1. IInv' /\ IssuesAsBooked
    BY <1>3, QuietStep DEF close_sub_account
  <2>2. LoanInv' /\ EscrowInv' /\ DepositInv' /\ CardInv'
    BY <1>3, LoansKept, EscrowsKept, DepositsKept, CardsKept DEF close_sub_account, vars, ledger
  <2>3. MemberInv'
    BY <1>3, SubAccountRemoved DEF close_sub_account
  <2> QED BY <1>3, <2>1, <2>2, <2>3 DEF close_sub_account
<1>4. ASSUME NEW sub \in SubAddresses, NEW n \in Amounts, withdraw_from_savings(c, sub, n)
      PROVE  BankIInv' /\ IssuesAsBooked
  <2>1. Pay(sub, c, n, FALSE) /\ sub \in Accounts /\ c \in Accounts /\ n \in Nat
    BY <1>4, CentralBankAssumption, BankAssumption DEF withdraw_from_savings
  <2>2. IInv' /\ UNCHANGED frozen /\ IssuesAsBooked
    BY <2>1, PayStep
  <2>3. LoanInv' /\ EscrowInv' /\ DepositInv' /\ CardInv'
    BY <1>4, <2>2, LoansKept, EscrowsKept, DepositsKept, CardsKept DEF withdraw_from_savings
  <2>4. MemberInv'
    BY <1>4, SubAccountRemoved, MembersKept DEF withdraw_from_savings, members
  <2> QED BY <1>4, <2>2, <2>3, <2>4 DEF withdraw_from_savings
<1> QED BY <1>1, <1>2, <1>3, <1>4 DEF AccountCall
-----------------------------------------------------------------------------
(* Loans                                                                   *)

\* A record of the type in the place of one loan, or as a new one.
LEMMA RequestPreservesLoans ==
    ASSUME BankIInv, NEW c \in Wallets, NEW n \in Amounts, NEW k \in Collaterals,
           request_loan(c, n, k)
    PROVE  LoanInv' /\ frozen' \in [Accounts -> Nat]
<1> DEFINE id == nextLoanId
           r == [borrower |-> c, collateral |-> k, amount |-> n, status |-> "Pending",
                 outstanding_balance |-> n]
<1>1. /\ id \in Nat /\ id \notin DOMAIN loanRequests
      /\ DOMAIN loanRequests = 0 .. id - 1 /\ 0 .. (id + 1) - 1 = (0 .. id - 1) \cup {id}
      /\ n \in Nat \ {0} /\ k \in Nat
  <2>1. id \in Nat /\ DOMAIN loanRequests = 0 .. id - 1
    BY DEF BankIInv, LoanInv
  <2>2. n \in Nat /\ k \in Nat /\ n > 0
    BY CentralBankAssumption, BankAssumption DEF request_loan
  <2> QED BY <2>1, <2>2
<1>2. /\ nextLoanId' = id + 1
      /\ loanRequests' = Put(loanRequests, id, r)
      /\ loanCollateral' = Put(loanCollateral, <<c, id>>, k)
      /\ activeLoanByBorrower' = activeLoanByBorrower
      /\ frozen' = set_lock(c, k)
  BY DEF request_loan
<1>3. /\ DOMAIN loanRequests' = DOMAIN loanRequests \cup {id}
      /\ loanRequests'[id] = r
      /\ \A l \in DOMAIN loanRequests : loanRequests'[l] = loanRequests[l]
  BY <1>1, <1>2 DEF Put
<1>4. /\ DOMAIN loanCollateral' = DOMAIN loanCollateral \cup {<<c, id>>}
      /\ loanCollateral'[<<c, id>>] = k
      /\ \A x \in DOMAIN loanCollateral : x # <<c, id>> => loanCollateral'[x] = loanCollateral[x]
      /\ loanCollateral' = [x \in DOMAIN loanCollateral' |-> loanCollateral'[x]]
  BY <1>2 DEF Put
<1>5. r \in LoanRecord /\ r.borrower = c /\ r.status = "Pending" /\ r.collateral = k
      /\ r.outstanding_balance = r.amount
  BY <1>1 DEF LoanRecord
<1> HIDE DEF r, id
<1>6. nextLoanId' \in Nat /\ DOMAIN loanRequests' = 0 .. nextLoanId' - 1
  BY <1>1, <1>2, <1>3
<1>7. \A l \in DOMAIN loanRequests' : loanRequests'[l] \in LoanRecord
  BY <1>3, <1>5 DEF BankIInv, LoanInv
<1>8. ActiveIndex'
  BY <1>1, <1>2, <1>3, <1>5 DEF BankIInv, LoanInv, ActiveIndex
<1>9. Outstanding'
  BY <1>1, <1>3, <1>5 DEF BankIInv, LoanInv, Outstanding
<1>10. CollateralBook'
  <2>1. OpenLoans' = OpenLoans \cup {id}
    BY <1>1, <1>3, <1>5 DEF OpenLoans
  <2>2. ASSUME NEW x \in DOMAIN loanCollateral'
        PROVE  \E l \in OpenLoans' : x = <<loanRequests'[l].borrower, l>>
    <3>1. CASE x = <<c, id>>
      BY <3>1, <2>1, <1>3, <1>5
    <3>2. CASE x \in DOMAIN loanCollateral
      BY <3>2, <2>1, <1>3 DEF BankIInv, LoanInv, CollateralBook, OpenLoans
    <3> QED BY <3>1, <3>2, <1>4
  <2>3. ASSUME NEW l \in OpenLoans'
        PROVE  /\ <<loanRequests'[l].borrower, l>> \in DOMAIN loanCollateral'
               /\ loanCollateral'[<<loanRequests'[l].borrower, l>>] = loanRequests'[l].collateral
    <3>1. CASE l = id
      BY <3>1, <1>3, <1>4, <1>5
    <3>2. CASE l # id
      <4>1. /\ l \in OpenLoans /\ loanRequests'[l] = loanRequests[l]
            /\ <<loanRequests[l].borrower, l>> # <<c, id>>
        BY <3>2, <2>1, <1>3 DEF OpenLoans
      <4>2. /\ <<loanRequests[l].borrower, l>> \in DOMAIN loanCollateral
            /\ loanCollateral[<<loanRequests[l].borrower, l>>] = loanRequests[l].collateral
        BY <4>1 DEF BankIInv, LoanInv, CollateralBook
      <4> QED BY <4>1, <4>2, <1>4
    <3> QED BY <3>1, <3>2
  <2> QED BY <1>4, <2>2, <2>3 DEF CollateralBook
<1>11. frozen' \in [Accounts -> Nat] /\ \A w \in Accounts : w # c => frozen'[w] = frozen[w]
  <2>1. frozen \in [Accounts -> Nat]
    BY DEF BankIInv, IInv, TypeOK, LedgerTypeOK
  <2> QED BY <2>1, <1>1, <1>2 DEF set_lock
<1>12. NoLockWithoutLoan'
  <2> SUFFICES ASSUME NEW w \in Wallets, LoansOf(w, {"Pending", "Active"})' = {}
               PROVE  frozen'[w] = 0
    BY DEF NoLockWithoutLoan
  <2>1. w # c
    BY <1>3, <1>5 DEF LoansOf
  <2>2. LoansOf(w, {"Pending", "Active"}) = {}
    BY <1>3 DEF LoansOf
  <2> QED BY <2>1, <2>2, <1>11, CentralBankAssumption DEF BankIInv, LoanInv, NoLockWithoutLoan
<1> QED BY <1>6, <1>7, <1>8, <1>9, <1>10, <1>11, <1>12 DEF LoanInv

\* A loan changes its status and its balance and nothing else about it.
LoanChanged(id, status, left) ==
    /\ id \in DOMAIN loanRequests
    /\ loanRequests' = [loanRequests EXCEPT ![id].status = status,
                                            ![id].outstanding_balance = left]
    /\ UNCHANGED nextLoanId

\* The other fields and the other loans stay as they were.
LEMMA ChangedLoan ==
    ASSUME LoanInv, NEW id, NEW status \in {"Active", "Repaid"}, NEW left \in Nat,
           LoanChanged(id, status, left)
    PROVE  /\ id \in DOMAIN loanRequests /\ loanRequests[id] \in LoanRecord
           /\ loanRequests'[id].borrower = loanRequests[id].borrower
           /\ loanRequests'[id].collateral = loanRequests[id].collateral
           /\ loanRequests'[id].amount = loanRequests[id].amount
           /\ loanRequests'[id].status = status
           /\ loanRequests'[id].outstanding_balance = left
           /\ DOMAIN loanRequests' = DOMAIN loanRequests
           /\ \A l \in DOMAIN loanRequests : l # id => loanRequests'[l] = loanRequests[l]
           /\ nextLoanId' \in Nat /\ DOMAIN loanRequests' = 0 .. nextLoanId' - 1
           /\ \A l \in DOMAIN loanRequests' : loanRequests'[l] \in LoanRecord
<1>1. id \in DOMAIN loanRequests /\ loanRequests[id] \in LoanRecord
  BY DEF LoanInv, LoanChanged
<1>2. /\ DOMAIN loanRequests' = DOMAIN loanRequests
      /\ loanRequests'[id] = [loanRequests[id] EXCEPT !.status = status, !.outstanding_balance = left]
      /\ \A l \in DOMAIN loanRequests : l # id => loanRequests'[l] = loanRequests[l]
      /\ nextLoanId' = nextLoanId
  BY DEF LoanChanged
<1>3. loanRequests'[id] \in LoanRecord
  BY <1>1, <1>2 DEF LoanRecord
<1> QED BY <1>1, <1>2, <1>3 DEF LoanInv, LoanRecord

\* The record of an open loan that stays open keeps its collateral.
LEMMA CollateralKept ==
    ASSUME LoanInv, NEW id, NEW left \in Nat, id \in OpenLoans, LoanChanged(id, "Active", left),
           UNCHANGED loanCollateral
    PROVE  CollateralBook' /\ OpenLoans' = OpenLoans
<1>1. /\ loanRequests'[id].borrower = loanRequests[id].borrower
      /\ loanRequests'[id].collateral = loanRequests[id].collateral
      /\ loanRequests'[id].status = "Active"
      /\ DOMAIN loanRequests' = DOMAIN loanRequests
      /\ \A l \in DOMAIN loanRequests : l # id => loanRequests'[l] = loanRequests[l]
  BY ChangedLoan
<1>2. OpenLoans' = OpenLoans
  BY <1>1 DEF OpenLoans
<1>3. \A l \in OpenLoans : /\ loanRequests'[l].borrower = loanRequests[l].borrower
                           /\ loanRequests'[l].collateral = loanRequests[l].collateral
  BY <1>1 DEF OpenLoans
<1> QED BY <1>2, <1>3 DEF LoanInv, CollateralBook

\* The record of a loan that ends is removed, and no other.
LEMMA CollateralRemoved ==
    ASSUME LoanInv, NEW id, NEW left \in Nat, id \in OpenLoans, LoanChanged(id, "Repaid", left),
           loanCollateral' = Without(loanCollateral, <<loanRequests[id].borrower, id>>)
    PROVE  CollateralBook' /\ OpenLoans' = OpenLoans \ {id}
<1> DEFINE key == <<loanRequests[id].borrower, id>>
<1>1. /\ loanRequests'[id].status = "Repaid"
      /\ DOMAIN loanRequests' = DOMAIN loanRequests
      /\ \A l \in DOMAIN loanRequests : l # id => loanRequests'[l] = loanRequests[l]
  BY ChangedLoan
<1>2. OpenLoans' = OpenLoans \ {id}
  BY <1>1 DEF OpenLoans
<1>3. \A l \in OpenLoans' : l \in OpenLoans /\ l # id /\ loanRequests'[l] = loanRequests[l]
  BY <1>1, <1>2 DEF OpenLoans
<1>4. /\ DOMAIN loanCollateral' = DOMAIN loanCollateral \ {key}
      /\ \A x \in DOMAIN loanCollateral' : loanCollateral'[x] = loanCollateral[x]
      /\ loanCollateral' = [x \in DOMAIN loanCollateral' |-> loanCollateral'[x]]
  BY DEF Without
<1>5. ASSUME NEW x \in DOMAIN loanCollateral'
      PROVE  \E l \in OpenLoans' : x = <<loanRequests'[l].borrower, l>>
  <2>1. PICK l \in OpenLoans : x = <<loanRequests[l].borrower, l>>
    BY <1>4 DEF LoanInv, CollateralBook
  <2>2. l # id
    BY <2>1, <1>4
  <2> QED BY <2>1, <2>2, <1>2, <1>3
<1>6. ASSUME NEW l \in OpenLoans'
      PROVE  /\ <<loanRequests'[l].borrower, l>> \in DOMAIN loanCollateral'
             /\ loanCollateral'[<<loanRequests'[l].borrower, l>>] = loanRequests'[l].collateral
  <2>1. l \in OpenLoans /\ l # id /\ loanRequests'[l] = loanRequests[l]
    BY <1>3
  <2>2. <<loanRequests[l].borrower, l>> # key
    BY <2>1
  <2>3. /\ <<loanRequests[l].borrower, l>> \in DOMAIN loanCollateral
        /\ loanCollateral[<<loanRequests[l].borrower, l>>] = loanRequests[l].collateral
    BY <2>1 DEF LoanInv, CollateralBook
  <2> HIDE DEF key
  <2> QED BY <2>1, <2>2, <2>3, <1>4
<1> QED BY <1>2, <1>4, <1>5, <1>6 DEF CollateralBook
\* Approving sets the index of a borrower who has no active loan.
LEMMA ApprovePreservesLoans ==
    ASSUME BankIInv, NEW id \in 0 .. MaxLoans - 1, approve_loan(id)
    PROVE  LoanInv' /\ IInv' /\ IssuesAsBooked
<1> DEFINE b == loanRequests[id].borrower
           left == loanRequests[id].outstanding_balance
<1>1. /\ id \in DOMAIN loanRequests /\ loanRequests[id] \in LoanRecord
      /\ loanRequests[id].status = "Pending" /\ b \notin DOMAIN activeLoanByBorrower
  BY DEF approve_loan, CanApprove, BankIInv, LoanInv
<1>2. b \in Wallets /\ left \in Nat /\ loanRequests[id].amount \in Nat \ {0}
      /\ left = loanRequests[id].amount
  BY <1>1 DEF LoanRecord, BankIInv, LoanInv, Outstanding
<1>3. IInv' /\ UNCHANGED frozen /\ IssuesAsBooked
  <2>1. /\ Pay(Treasury, b, loanRequests[id].amount, TRUE)
        /\ Treasury \in Accounts /\ b \in Accounts /\ loanRequests[id].amount \in Nat
    BY <1>2, CentralBankAssumption, BankAssumption DEF approve_loan
  <2> QED BY <2>1, PayStep DEF BankIInv
<1>4. LoanChanged(id, "Active", left)
  <2>1. loanRequests' = [loanRequests EXCEPT ![id].status = "Active"] /\ UNCHANGED nextLoanId
    BY DEF approve_loan
  <2>2. [loanRequests[id] EXCEPT !.status = "Active"]
          = [loanRequests[id] EXCEPT !.status = "Active", !.outstanding_balance = left]
    BY <1>1 DEF LoanRecord
  <2>3. loanRequests' = [loanRequests EXCEPT ![id] = [loanRequests[id] EXCEPT !.status = "Active"]]
    BY <2>1
  <2> QED BY <1>1, <2>1, <2>2, <2>3 DEF LoanChanged
<1>5. activeLoanByBorrower' = Put(activeLoanByBorrower, b, id) /\ UNCHANGED loanCollateral
  BY DEF approve_loan, IndexAfterApproval
<1>6. /\ loanRequests'[id].borrower = b /\ loanRequests'[id].status = "Active"
      /\ loanRequests'[id].outstanding_balance = left
      /\ loanRequests'[id].amount = loanRequests[id].amount
      /\ DOMAIN loanRequests' = DOMAIN loanRequests
      /\ \A l \in DOMAIN loanRequests : l # id => loanRequests'[l] = loanRequests[l]
      /\ nextLoanId' \in Nat /\ DOMAIN loanRequests' = 0 .. nextLoanId' - 1
      /\ \A l \in DOMAIN loanRequests' : loanRequests'[l] \in LoanRecord
  BY <1>2, <1>4, ChangedLoan DEF BankIInv
<1>7. /\ DOMAIN activeLoanByBorrower' = DOMAIN activeLoanByBorrower \cup {b}
      /\ activeLoanByBorrower'[b] = id
      /\ \A c \in DOMAIN activeLoanByBorrower : activeLoanByBorrower'[c] = activeLoanByBorrower[c]
      /\ activeLoanByBorrower' = [c \in DOMAIN activeLoanByBorrower' |-> activeLoanByBorrower'[c]]
  BY <1>1, <1>5 DEF Put
<1>8. CollateralBook'
  <2>1. id \in OpenLoans
    BY <1>1 DEF OpenLoans
  <2> QED BY <2>1, <1>2, <1>4, <1>5, CollateralKept DEF BankIInv
<1> HIDE DEF b, left
<1>9. ActiveIndex'
  <2>1. ASSUME NEW l \in DOMAIN loanRequests', loanRequests'[l].status = "Active"
        PROVE  /\ loanRequests'[l].borrower \in DOMAIN activeLoanByBorrower'
               /\ activeLoanByBorrower'[loanRequests'[l].borrower] = l
    <3>1. CASE l = id
      BY <3>1, <1>6, <1>7
    <3>2. CASE l # id
      BY <2>1, <3>2, <1>6, <1>7 DEF BankIInv, LoanInv, ActiveIndex
    <3> QED BY <3>1, <3>2
  <2>2. ASSUME NEW c \in DOMAIN activeLoanByBorrower'
        PROVE  /\ activeLoanByBorrower'[c] \in DOMAIN loanRequests'
               /\ loanRequests'[activeLoanByBorrower'[c]].borrower = c
               /\ loanRequests'[activeLoanByBorrower'[c]].status = "Active"
    <3>1. CASE c = b
      BY <3>1, <1>1, <1>6, <1>7
    <3>2. CASE c # b
      <4>1. /\ activeLoanByBorrower[c] \in DOMAIN loanRequests
            /\ loanRequests[activeLoanByBorrower[c]].borrower = c
            /\ loanRequests[activeLoanByBorrower[c]].status = "Active"
        BY <3>2, <1>7 DEF BankIInv, LoanInv, ActiveIndex
      <4>2. activeLoanByBorrower[c] # id
        BY <4>1, <1>1
      <4> QED BY <3>2, <4>1, <4>2, <1>6, <1>7
    <3> QED BY <3>1, <3>2
  <2> QED BY <1>7, <2>1, <2>2 DEF ActiveIndex
<1>10. Outstanding'
  <2>1. left \in 1 .. loanRequests[id].amount
    BY <1>2
  <2> QED BY <2>1, <1>6 DEF BankIInv, LoanInv, Outstanding
<1>11. NoLockWithoutLoan'
  <2>1. \A l \in DOMAIN loanRequests : loanRequests'[l].borrower = loanRequests[l].borrower
    BY <1>6 DEF b
  <2>2. \A l \in DOMAIN loanRequests :
           loanRequests[l].status \in {"Pending", "Active"}
             => loanRequests'[l].status \in {"Pending", "Active"}
    BY <1>6
  <2>3. \A w \in Wallets :
           LoansOf(w, {"Pending", "Active"})' = {} => LoansOf(w, {"Pending", "Active"}) = {}
    BY <2>1, <2>2, <1>6 DEF LoansOf
  <2> QED BY <2>3, <1>3 DEF BankIInv, LoanInv, NoLockWithoutLoan
<1> QED BY <1>3, <1>6, <1>8, <1>9, <1>10, <1>11 DEF LoanInv

\* Removing a lock leaves the others.
LEMMA LockRemoved ==
    ASSUME IInv, NEW c \in Wallets, frozen' = remove_lock(c)
    PROVE  /\ frozen' \in [Accounts -> Nat] /\ frozen'[c] = 0
           /\ \A w \in Wallets : w # c => frozen'[w] = frozen[w]
BY CentralBankAssumption DEF IInv, TypeOK, LedgerTypeOK, remove_lock

\* A cancelled request takes the borrower's lock and its record with it.
LEMMA CancelPreservesLoans ==
    ASSUME BankIInv, NEW c \in Wallets, NEW id \in 0 .. MaxLoans - 1, cancel_loan_request(c, id)
    PROVE  LoanInv' /\ IInv' /\ IssuesAsBooked
<1> DEFINE left == loanRequests[id].outstanding_balance
<1>1. /\ id \in DOMAIN loanRequests /\ loanRequests[id] \in LoanRecord
      /\ loanRequests[id].status = "Pending" /\ loanRequests[id].borrower = c
      /\ left \in Nat
  BY DEF cancel_loan_request, BankIInv, LoanInv, LoanRecord
<1>2. frozen' = remove_lock(c) /\ UNCHANGED <<free, reserved, issuance, cbVars, activeLoanByBorrower>>
      /\ loanCollateral' = Without(loanCollateral, <<loanRequests[id].borrower, id>>)
  BY <1>1 DEF cancel_loan_request, LockAfterCancel
<1>3. /\ frozen' \in [Accounts -> Nat] /\ frozen'[c] = 0
      /\ \A w \in Wallets : w # c => frozen'[w] = frozen[w]
  BY <1>2, LockRemoved DEF BankIInv
<1>4. IInv' /\ IssuesAsBooked
  BY <1>2, <1>3, LockStep DEF BankIInv
<1>5. LoanChanged(id, "Repaid", left)
  <2>1. loanRequests' = [loanRequests EXCEPT ![id].status = "Repaid"] /\ UNCHANGED nextLoanId
    BY DEF cancel_loan_request
  <2>2. [loanRequests[id] EXCEPT !.status = "Repaid"]
          = [loanRequests[id] EXCEPT !.status = "Repaid", !.outstanding_balance = left]
    BY <1>1 DEF LoanRecord
  <2>3. loanRequests' = [loanRequests EXCEPT ![id] = [loanRequests[id] EXCEPT !.status = "Repaid"]]
    BY <2>1
  <2> QED BY <1>1, <2>1, <2>2, <2>3 DEF LoanChanged
<1>6. /\ loanRequests'[id].status = "Repaid"
      /\ DOMAIN loanRequests' = DOMAIN loanRequests
      /\ \A l \in DOMAIN loanRequests : l # id => loanRequests'[l] = loanRequests[l]
      /\ nextLoanId' \in Nat /\ DOMAIN loanRequests' = 0 .. nextLoanId' - 1
      /\ \A l \in DOMAIN loanRequests' : loanRequests'[l] \in LoanRecord
  BY <1>1, <1>5, ChangedLoan DEF BankIInv
<1>7. CollateralBook'
  <2>1. id \in OpenLoans
    BY <1>1 DEF OpenLoans
  <2> QED BY <2>1, <1>1, <1>2, <1>5, CollateralRemoved DEF BankIInv
<1>8. ActiveIndex'
  <2>1. activeLoanByBorrower' = activeLoanByBorrower
    BY <1>2
  <2>2. \A w \in DOMAIN activeLoanByBorrower : activeLoanByBorrower[w] # id
    BY <1>1 DEF BankIInv, LoanInv, ActiveIndex
  <2>3. \A l \in DOMAIN loanRequests : loanRequests'[l].status = "Active" =>
           l # id /\ loanRequests'[l] = loanRequests[l]
    BY <1>6
  <2>4. ASSUME NEW l \in DOMAIN loanRequests', loanRequests'[l].status = "Active"
        PROVE  /\ loanRequests'[l].borrower \in DOMAIN activeLoanByBorrower'
               /\ activeLoanByBorrower'[loanRequests'[l].borrower] = l
    BY <2>1, <2>3, <2>4, <1>6 DEF BankIInv, LoanInv, ActiveIndex
  <2>5. ASSUME NEW w \in DOMAIN activeLoanByBorrower'
        PROVE  /\ activeLoanByBorrower'[w] \in DOMAIN loanRequests'
               /\ loanRequests'[activeLoanByBorrower'[w]].borrower = w
               /\ loanRequests'[activeLoanByBorrower'[w]].status = "Active"
    BY <2>1, <2>2, <1>6 DEF BankIInv, LoanInv, ActiveIndex
  <2>6. activeLoanByBorrower' = [w \in DOMAIN activeLoanByBorrower' |-> activeLoanByBorrower'[w]]
    BY <2>1 DEF BankIInv, LoanInv, ActiveIndex
  <2> QED BY <2>4, <2>5, <2>6 DEF ActiveIndex
<1>9. Outstanding'
  BY <1>6 DEF BankIInv, LoanInv, Outstanding
<1>10. NoLockWithoutLoan'
  BY <1>1, <1>3, <1>6 DEF BankIInv, LoanInv, NoLockWithoutLoan, LoansOf
<1> QED BY <1>4, <1>6, <1>7, <1>8, <1>9, <1>10 DEF LoanInv

\* What a payment of a loan does to the ledger and to the bank's books.
LEMMA CreditPayment ==
    ASSUME BankIInv, NEW c \in Wallets, NEW sub \in SubAddresses, NEW n \in Amounts,
           pay_credit(c, sub, n)
    PROVE  LET id == activeLoanByBorrower[c]
               left == BalanceAfter(id, n)
           IN  /\ c \in DOMAIN activeLoanByBorrower /\ id \in DOMAIN loanRequests
               /\ loanRequests[id] \in LoanRecord
               /\ loanRequests[id].status = "Active" /\ loanRequests[id].borrower = c
               /\ left \in Nat /\ left <= loanRequests[id].amount
               /\ LoanChanged(id, IF left = 0 THEN "Repaid" ELSE "Active", left)
               /\ IF left = 0
                  THEN CloseLoan(c, id)
                  ELSE UNCHANGED <<frozen, loanCollateral, activeLoanByBorrower>>
               /\ IInv' /\ IssuesAsBooked
<1> DEFINE id == activeLoanByBorrower[c]
           left == BalanceAfter(id, n)
<1>1. c \in DOMAIN activeLoanByBorrower
  BY DEF pay_credit
<1>2. /\ id \in DOMAIN loanRequests /\ loanRequests[id] \in LoanRecord
      /\ loanRequests[id].status = "Active" /\ loanRequests[id].borrower = c
      /\ loanRequests[id].outstanding_balance \in 1 .. loanRequests[id].amount
  BY <1>1 DEF BankIInv, LoanInv, ActiveIndex, Outstanding
<1>3. n \in Nat /\ n > 0 /\ loanRequests[id].outstanding_balance \in Nat
      /\ loanRequests[id].amount \in Nat
  BY <1>2, CentralBankAssumption DEF LoanRecord, pay_credit
<1>4. left \in Nat /\ left <= loanRequests[id].amount
  BY <1>2, <1>3 DEF BalanceAfter, SatSub
<1>5. IF left = 0 THEN CloseLoan(c, id)
      ELSE UNCHANGED <<frozen, loanCollateral, activeLoanByBorrower>>
  BY DEF pay_credit
<1>6. /\ loanRequests' = [loanRequests EXCEPT ![id].outstanding_balance = left,
                                             ![id].status = IF left = 0 THEN "Repaid" ELSE "Active"]
      /\ UNCHANGED <<nextLoanId, reserved, issuance, cbVars>>
      /\ CanTransfer(c, Treasury, n, TRUE)
      /\ free' = [free EXCEPT ![c] = @ - n, ![Treasury] = @ + n]
  BY DEF pay_credit
<1>7. LoanChanged(id, IF left = 0 THEN "Repaid" ELSE "Active", left)
  <2> DEFINE status == IF left = 0 THEN "Repaid" ELSE "Active"
  <2>1. loanRequests' = [loanRequests EXCEPT ![id].status = status, ![id].outstanding_balance = left]
    <3> HIDE DEF status, left, id
    <3>1. loanRequests' = [loanRequests EXCEPT ![id].outstanding_balance = left, ![id].status = status]
      BY <1>6 DEF status
    <3>2. [loanRequests[id] EXCEPT !.outstanding_balance = left, !.status = status]
            = [loanRequests[id] EXCEPT !.status = status, !.outstanding_balance = left]
      OBVIOUS
    <3>3. loanRequests' = [loanRequests EXCEPT ![id] =
             [loanRequests[id] EXCEPT !.outstanding_balance = left, !.status = status]]
      BY <3>1
    <3> QED BY <3>2, <3>3
  <2> QED BY <2>1, <1>2, <1>6 DEF LoanChanged
<1>8. IInv' /\ IssuesAsBooked
  <2>1. LedgerTypeOK
    BY DEF BankIInv, IInv, TypeOK
  <2>2. frozen' \in [Accounts -> Nat]
    <3>1. CASE left = 0
      BY <3>1, <1>5, LockRemoved DEF CloseLoan, BankIInv
    <3>2. CASE left # 0
      BY <3>2, <1>5, <2>1 DEF LedgerTypeOK
    <3> QED BY <3>1, <3>2
  <2>3. c \in Accounts /\ Treasury \in Accounts /\ c # Treasury
    BY CentralBankAssumption, BankAssumption
  <2>4. free' \in [Accounts -> Nat]
    <3>1. free[c] >= n + frozen[c] /\ frozen[c] \in Nat /\ free[c] \in Nat
      BY <1>3, <1>6, <2>1, <2>3 DEF CanTransfer, LedgerTypeOK
    <3>2. free[c] - n \in Nat
      BY <1>3, <3>1
    <3> QED BY <1>3, <1>6, <2>1, <2>3, <3>2 DEF LedgerTypeOK
  <2>5. LedgerTypeOK' /\ issuance' <= issuance
    BY <1>6, <2>1, <2>2, <2>4 DEF LedgerTypeOK
  <2> QED BY <1>6, <2>1, <2>5, TransferStep DEF BankIInv, IssuesAsBooked, LedgerTypeOK
<1> QED BY <1>1, <1>2, <1>4, <1>5, <1>7, <1>8
\* A payment lowers the balance, or ends the loan with its lock, its record and
\* its place in the index.
LEMMA PayPreservesLoans ==
    ASSUME BankIInv, NEW c \in Wallets, NEW sub \in SubAddresses, NEW n \in Amounts,
           pay_credit(c, sub, n)
    PROVE  LoanInv'
<1> DEFINE id == activeLoanByBorrower[c]
           left == BalanceAfter(id, n)
           status == IF left = 0 THEN "Repaid" ELSE "Active"
<1>1. /\ c \in DOMAIN activeLoanByBorrower /\ id \in DOMAIN loanRequests
      /\ loanRequests[id].status = "Active" /\ loanRequests[id].borrower = c
      /\ left \in Nat /\ left <= loanRequests[id].amount /\ loanRequests[id].amount \in Nat
      /\ LoanChanged(id, status, left)
  BY CreditPayment DEF LoanRecord
<1>2. /\ loanRequests'[id].borrower = c /\ loanRequests'[id].status = status
      /\ loanRequests'[id].outstanding_balance = left
      /\ loanRequests'[id].amount = loanRequests[id].amount
      /\ DOMAIN loanRequests' = DOMAIN loanRequests
      /\ \A l \in DOMAIN loanRequests : l # id => loanRequests'[l] = loanRequests[l]
      /\ nextLoanId' \in Nat /\ DOMAIN loanRequests' = 0 .. nextLoanId' - 1
      /\ \A l \in DOMAIN loanRequests' : loanRequests'[l] \in LoanRecord
  <2>1. status \in {"Active", "Repaid"}
    OBVIOUS
  <2> HIDE DEF status, left, id
  <2> QED BY <2>1, <1>1, ChangedLoan DEF BankIInv
<1>3. id \in OpenLoans
  BY <1>1 DEF OpenLoans
<1>4. CASE left # 0
  <2>1. UNCHANGED <<frozen, loanCollateral, activeLoanByBorrower>> /\ LoanChanged(id, "Active", left)
    BY <1>1, <1>4, CreditPayment
  <2>2. CollateralBook'
    <3> HIDE DEF left, id
    <3> QED BY <1>1, <1>3, <2>1, CollateralKept DEF BankIInv
  <2>3. loanRequests'[id].status = "Active"
    BY <1>2, <1>4
  <2> HIDE DEF left, id, status
  <2>4. ActiveIndex'
    <3>1. \A l \in DOMAIN loanRequests :
             /\ loanRequests'[l].borrower = loanRequests[l].borrower
             /\ loanRequests'[l].status = loanRequests[l].status
      BY <1>1, <1>2, <2>3
    <3>2. activeLoanByBorrower' = activeLoanByBorrower
      BY <2>1
    <3> QED BY <3>1, <3>2, <1>2 DEF BankIInv, LoanInv, ActiveIndex
  <2>5. Outstanding'
    <3>1. left \in 1 .. loanRequests'[id].amount
      BY <1>1, <1>2, <1>4
    <3> QED BY <1>2, <2>3, <3>1 DEF BankIInv, LoanInv, Outstanding
  <2>6. NoLockWithoutLoan'
    <3>1. \A w \in Wallets :
             LoansOf(w, {"Pending", "Active"})' = {} => LoansOf(w, {"Pending", "Active"}) = {}
      <4>1. \A l \in DOMAIN loanRequests :
               /\ loanRequests'[l].borrower = loanRequests[l].borrower
               /\ loanRequests'[l].status = loanRequests[l].status
        BY <1>1, <1>2, <2>3
      <4> QED BY <4>1, <1>2 DEF LoansOf
    <3> QED BY <3>1, <2>1 DEF BankIInv, LoanInv, NoLockWithoutLoan
  <2> QED BY <1>2, <2>2, <2>4, <2>5, <2>6 DEF LoanInv
<1>5. CASE left = 0
  <2>1. CloseLoan(c, id) /\ LoanChanged(id, "Repaid", left)
    BY <1>1, <1>5, CreditPayment
  <2>2. CollateralBook'
    <3>1. loanCollateral' = Without(loanCollateral, <<loanRequests[id].borrower, id>>)
      BY <1>1, <2>1 DEF CloseLoan
    <3> HIDE DEF left, id
    <3> QED BY <1>1, <1>3, <2>1, <3>1, CollateralRemoved DEF BankIInv
  <2>3. loanRequests'[id].status = "Repaid"
    BY <1>2, <1>5
  <2>4. /\ DOMAIN activeLoanByBorrower' = DOMAIN activeLoanByBorrower \ {c}
        /\ \A w \in DOMAIN activeLoanByBorrower' : activeLoanByBorrower'[w] = activeLoanByBorrower[w]
        /\ activeLoanByBorrower' = [w \in DOMAIN activeLoanByBorrower' |-> activeLoanByBorrower'[w]]
    BY <2>1 DEF CloseLoan, Without
  <2>5. activeLoanByBorrower[c] = id
    OBVIOUS
  <2>6. /\ frozen'[c] = 0 /\ \A w \in Wallets : w # c => frozen'[w] = frozen[w]
    BY <2>1, LockRemoved DEF CloseLoan, BankIInv
  <2> HIDE DEF left, id, status
  <2>7. ActiveIndex'
    <3>1. ASSUME NEW l \in DOMAIN loanRequests', loanRequests'[l].status = "Active"
          PROVE  /\ loanRequests'[l].borrower \in DOMAIN activeLoanByBorrower'
                 /\ activeLoanByBorrower'[loanRequests'[l].borrower] = l
      <4>1. l # id /\ l \in DOMAIN loanRequests /\ loanRequests'[l] = loanRequests[l]
        BY <3>1, <1>2, <2>3
      <4>2. /\ loanRequests[l].borrower \in DOMAIN activeLoanByBorrower
            /\ activeLoanByBorrower[loanRequests[l].borrower] = l
        BY <3>1, <4>1 DEF BankIInv, LoanInv, ActiveIndex
      <4>3. loanRequests[l].borrower # c
        BY <4>1, <4>2, <2>5
      <4> QED BY <4>1, <4>2, <4>3, <2>4
    <3>2. ASSUME NEW w \in DOMAIN activeLoanByBorrower'
          PROVE  /\ activeLoanByBorrower'[w] \in DOMAIN loanRequests'
                 /\ loanRequests'[activeLoanByBorrower'[w]].borrower = w
                 /\ loanRequests'[activeLoanByBorrower'[w]].status = "Active"
      <4>1. /\ w # c /\ w \in DOMAIN activeLoanByBorrower
            /\ activeLoanByBorrower'[w] = activeLoanByBorrower[w]
        BY <2>4
      <4>2. /\ activeLoanByBorrower[w] \in DOMAIN loanRequests
            /\ loanRequests[activeLoanByBorrower[w]].borrower = w
            /\ loanRequests[activeLoanByBorrower[w]].status = "Active"
        BY <4>1 DEF BankIInv, LoanInv, ActiveIndex
      <4>3. activeLoanByBorrower[w] # id
        BY <4>1, <4>2, <1>1
      <4> QED BY <4>1, <4>2, <4>3, <1>2
    <3> QED BY <3>1, <3>2, <2>4 DEF ActiveIndex
  <2>8. Outstanding'
    BY <1>2, <2>3 DEF BankIInv, LoanInv, Outstanding
  <2>9. NoLockWithoutLoan'
    <3> SUFFICES ASSUME NEW w \in Wallets, LoansOf(w, {"Pending", "Active"})' = {}, w # c
                 PROVE  frozen'[w] = 0
      BY <2>6 DEF NoLockWithoutLoan
    <3>1. LoansOf(w, {"Pending", "Active"}) = {}
      BY <1>1, <1>2 DEF LoansOf
    <3> QED BY <3>1, <2>6 DEF BankIInv, LoanInv, NoLockWithoutLoan
  <2> QED BY <1>2, <2>2, <2>7, <2>8, <2>9 DEF LoanInv
<1> QED BY <1>4, <1>5

\* The calls of the borrower and the officer's approval preserve the invariant.
LEMMA LoanStep ==
    ASSUME BankIInv,
           \/ \E c \in Wallets : LoanCall(c)
           \/ \E l \in 0 .. MaxLoans - 1 : approve_loan(l)
    PROVE  BankIInv' /\ IssuesAsBooked
<1>1. ASSUME NEW c \in Wallets, NEW n \in Amounts, NEW k \in Collaterals, request_loan(c, n, k)
      PROVE  BankIInv' /\ IssuesAsBooked
  <2>1. LoanInv' /\ frozen' \in [Accounts -> Nat]
    BY <1>1, RequestPreservesLoans
  <2>2. IInv' /\ IssuesAsBooked
    BY <1>1, <2>1, LockStep DEF request_loan, BankIInv
  <2>3. MemberInv' /\ EscrowInv' /\ DepositInv' /\ CardInv'
    BY <1>1, MembersKept, EscrowsKept, DepositsKept, CardsKept DEF request_loan, BankIInv
  <2> QED BY <1>1, <2>1, <2>2, <2>3 DEF request_loan, BankIInv
<1>2. ASSUME NEW c \in Wallets, NEW l \in 0 .. MaxLoans - 1, cancel_loan_request(c, l)
      PROVE  BankIInv' /\ IssuesAsBooked
  <2>1. LoanInv' /\ IInv' /\ IssuesAsBooked
    BY <1>2, CancelPreservesLoans
  <2>2. MemberInv' /\ EscrowInv' /\ DepositInv' /\ CardInv'
    BY <1>2, MembersKept, EscrowsKept, DepositsKept, CardsKept DEF cancel_loan_request, BankIInv
  <2> QED BY <1>2, <2>1, <2>2 DEF cancel_loan_request, BankIInv
<1>3. ASSUME NEW c \in Wallets, NEW sub \in SubAddresses, NEW n \in Amounts, pay_credit(c, sub, n)
      PROVE  BankIInv' /\ IssuesAsBooked
  <2>1. LoanInv' /\ IInv' /\ IssuesAsBooked
    BY <1>3, PayPreservesLoans, CreditPayment
  <2>2. MemberInv' /\ EscrowInv' /\ DepositInv' /\ CardInv'
    BY <1>3, MembersKept, EscrowsKept, DepositsKept, CardsKept DEF pay_credit, BankIInv
  <2> QED BY <1>3, <2>1, <2>2 DEF pay_credit, BankIInv
<1>4. ASSUME NEW l \in 0 .. MaxLoans - 1, approve_loan(l)
      PROVE  BankIInv' /\ IssuesAsBooked
  <2>1. LoanInv' /\ IInv' /\ IssuesAsBooked
    BY <1>4, ApprovePreservesLoans
  <2>2. MemberInv' /\ EscrowInv' /\ DepositInv' /\ CardInv'
    BY <1>4, MembersKept, EscrowsKept, DepositsKept, CardsKept DEF approve_loan, BankIInv
  <2> QED BY <1>4, <2>1, <2>2 DEF approve_loan, BankIInv
<1> QED BY <1>1, <1>2, <1>3, <1>4 DEF LoanCall
-----------------------------------------------------------------------------
(* Contracts                                                               *)

\* A new contract, or the end of one, keeps the escrows typed.
LEMMA EscrowStep ==
    ASSUME BankIInv, NEW c \in Wallets,
           \/ \E d \in Wallets, n \in Amounts : create_escrow(c, d, n)
           \/ \E e \in 0 .. MaxEscrows - 1 : release_escrow(c, e) \/ refund_escrow(c, e)
    PROVE  BankIInv' /\ IssuesAsBooked
<1>1. Treasury \in Accounts /\ c \in Accounts /\ FALSE \in BOOLEAN
  BY CentralBankAssumption, BankAssumption
<1>2. ASSUME NEW d \in Wallets, NEW n \in Amounts, create_escrow(c, d, n)
      PROVE  BankIInv' /\ IssuesAsBooked
  <2>1. n \in Nat /\ n > 0 /\ Pay(c, Treasury, n, FALSE)
    BY <1>2, CentralBankAssumption DEF create_escrow
  <2>2. IInv' /\ UNCHANGED frozen /\ IssuesAsBooked
    BY <1>1, <2>1, PayStep DEF BankIInv
  <2>3. LoanInv' /\ MemberInv' /\ DepositInv' /\ CardInv'
    BY <1>2, <2>2, LoansKept, MembersKept, DepositsKept, CardsKept DEF create_escrow, BankIInv
  <2>4. EscrowInv'
    <3> DEFINE r == [depositor |-> c, counterparty |-> d, amount |-> n, status |-> "Locked"]
    <3>1. /\ nextEscrowId \in Nat /\ DOMAIN escrowContracts = 0 .. nextEscrowId - 1
          /\ 0 .. (nextEscrowId + 1) - 1 = (0 .. nextEscrowId - 1) \cup {nextEscrowId}
      BY DEF BankIInv, EscrowInv
    <3>2. /\ nextEscrowId' = nextEscrowId + 1
          /\ escrowContracts' = Put(escrowContracts, nextEscrowId, r)
      BY <1>2 DEF create_escrow
    <3>3. /\ DOMAIN escrowContracts' = DOMAIN escrowContracts \cup {nextEscrowId}
          /\ escrowContracts'[nextEscrowId] = r
          /\ \A e \in DOMAIN escrowContracts :
                e # nextEscrowId => escrowContracts'[e] = escrowContracts[e]
      BY <3>2 DEF Put
    <3>4. r \in [depositor : Wallets, counterparty : Wallets, amount : Nat \ {0},
                 status : {"Locked", "Released", "Refunded"}]
      BY <2>1
    <3> HIDE DEF r
    <3> QED BY <3>1, <3>2, <3>3, <3>4 DEF BankIInv, EscrowInv
  <2> QED BY <1>2, <2>2, <2>3, <2>4 DEF create_escrow, BankIInv
<1>3. ASSUME NEW e \in 0 .. MaxEscrows - 1, NEW payee \in Wallets,
             NEW status \in {"Released", "Refunded"}, SettleEscrow(e, payee, status)
      PROVE  BankIInv' /\ IssuesAsBooked
  <2>1. /\ e \in DOMAIN escrowContracts
        /\ escrowContracts[e] \in [depositor : Wallets, counterparty : Wallets,
                                   amount : Nat \ {0}, status : {"Locked", "Released", "Refunded"}]
        /\ payee \in Accounts /\ escrowContracts[e].amount \in Nat
    BY <1>3, CentralBankAssumption DEF SettleEscrow, CanSettle, BankIInv, EscrowInv
  <2>2. IInv' /\ UNCHANGED frozen /\ IssuesAsBooked
    BY <1>1, <1>3, <2>1, PayStep DEF SettleEscrow, BankIInv
  <2>3. LoanInv' /\ MemberInv' /\ DepositInv' /\ CardInv'
    BY <1>3, <2>2, LoansKept, MembersKept, DepositsKept, CardsKept DEF SettleEscrow, BankIInv
  <2>4. EscrowInv'
    BY <1>3, <2>1 DEF SettleEscrow, BankIInv, EscrowInv
  <2> QED BY <1>3, <2>2, <2>3, <2>4 DEF SettleEscrow, BankIInv
<1>4. ASSUME NEW e \in 0 .. MaxEscrows - 1, release_escrow(c, e) \/ refund_escrow(c, e)
      PROVE  BankIInv' /\ IssuesAsBooked
  <2>1. /\ escrowContracts[e].depositor \in Wallets
        /\ escrowContracts[e].counterparty \in Wallets
    BY <1>4 DEF release_escrow, refund_escrow, CanSettle, BankIInv, EscrowInv
  <2> QED BY <1>3, <1>4, <2>1 DEF release_escrow, refund_escrow, RefundPayee
<1> QED BY <1>2, <1>4

\* Products and quotients of natural numbers, which the interest is made of.
LEMMA NaturalProducts ==
    /\ \A a, b \in Nat : a * b \in Nat
    /\ \A a \in Nat, b \in Nat \ {0} : a \div b \in Nat
BY SMT

\* The interest of a deposit is a natural number.
LEMMA InterestType ==
    ASSUME NEW d \in TimeDeposit
    PROVE  Interest(d) \in Nat
<1>1. /\ d.amount \in Nat /\ d.interest_rate_bps \in Nat
      /\ d.opened_at \in Nat /\ d.maturity_block \in Nat
  BY DEF TimeDeposit
<1>2. PerbillAccuracy \in Nat \ {0} /\ BLOCKS_PER_YEAR \in Nat \ {0}
  BY BankAssumption
<1> DEFINE held == SatSub(d.maturity_block, d.opened_at)
           top == d.interest_rate_bps * held
           bottom == 10000 * BLOCKS_PER_YEAR
           parts == from_rational(top, bottom)
           exact == parts * d.amount
<1>3. held \in Nat
  BY <1>1 DEF SatSub
<1>4. bottom \in Nat \ {0}
  BY <1>2
<1> HIDE DEF held
<1>5. top \in Nat
  BY <1>1, <1>3, NaturalProducts
<1> HIDE DEF top, bottom
<1>6. parts \in Nat
  <2>1. top * PerbillAccuracy \in Nat
    BY <1>2, <1>5, NaturalProducts
  <2> DEFINE product == top * PerbillAccuracy
  <2>2. product \in Nat
    BY <2>1
  <2> HIDE DEF product
  <2>3. product \div bottom \in Nat
    BY <2>2, <1>4, NaturalProducts
  <2> QED BY <2>3, <1>2 DEF from_rational, product
<1> HIDE DEF parts
<1>7. exact \in Nat
  BY <1>1, <1>6, NaturalProducts
<1> HIDE DEF exact
<1>8. exact \div PerbillAccuracy \in Nat
  BY <1>2, <1>7, NaturalProducts
<1>9. Interest(d) = exact \div PerbillAccuracy
                      + (IF 2 * (exact % PerbillAccuracy) > PerbillAccuracy THEN 1 ELSE 0)
  BY DEF Interest, calculate_interest, PerbillTimes, exact, parts, top, bottom, held
<1> QED BY <1>8, <1>9

\* A new deposit, or the end of one, keeps the deposits typed.
LEMMA DepositStep ==
    ASSUME BankIInv, NEW c \in Wallets,
           \/ \E n \in Amounts, d \in Durations : open_time_deposit(c, n, d)
           \/ \E d \in 0 .. MaxDeposits - 1 : claim_time_deposit(c, d)
    PROVE  BankIInv' /\ IssuesAsBooked
<1>1. Treasury \in Accounts /\ c \in Accounts /\ FALSE \in BOOLEAN
  BY CentralBankAssumption, BankAssumption
<1>2. ASSUME NEW n \in Amounts, NEW d \in Durations, open_time_deposit(c, n, d)
      PROVE  BankIInv' /\ IssuesAsBooked
  <2>1. n \in Nat /\ d \in Nat /\ now \in Nat /\ ANNUAL_RATE_BPS \in Nat
        /\ Pay(c, Treasury, n, FALSE)
    <3>1. n \in Nat /\ d \in Nat /\ MaxBlock \in Nat /\ ANNUAL_RATE_BPS \in Nat
      BY CentralBankAssumption, BankAssumption
    <3>2. now \in Nat
      BY <3>1 DEF BankIInv
    <3> QED BY <1>2, <3>1, <3>2 DEF open_time_deposit
  <2>2. IInv' /\ UNCHANGED frozen /\ IssuesAsBooked
    BY <1>1, <2>1, PayStep DEF BankIInv
  <2>3. LoanInv' /\ MemberInv' /\ EscrowInv' /\ CardInv'
    BY <1>2, <2>2, LoansKept, MembersKept, EscrowsKept, CardsKept DEF open_time_deposit, BankIInv
  <2>4. DepositInv'
    <3> DEFINE r == [depositor |-> c, amount |-> n, interest_rate_bps |-> ANNUAL_RATE_BPS,
                     opened_at |-> now, maturity_block |-> now + d, status |-> "Active"]
    <3>1. /\ nextTimeDepositId \in Nat /\ DOMAIN timeDeposits = 0 .. nextTimeDepositId - 1
          /\ 0 .. (nextTimeDepositId + 1) - 1
               = (0 .. nextTimeDepositId - 1) \cup {nextTimeDepositId}
      BY DEF BankIInv, DepositInv
    <3>2. /\ nextTimeDepositId' = nextTimeDepositId + 1
          /\ timeDeposits' = Put(timeDeposits, nextTimeDepositId, r)
      BY <1>2 DEF open_time_deposit
    <3>3. /\ DOMAIN timeDeposits' = DOMAIN timeDeposits \cup {nextTimeDepositId}
          /\ timeDeposits'[nextTimeDepositId] = r
          /\ \A e \in DOMAIN timeDeposits :
                e # nextTimeDepositId => timeDeposits'[e] = timeDeposits[e]
      BY <3>2 DEF Put
    <3>4. r \in TimeDeposit
      BY <2>1 DEF TimeDeposit
    <3> HIDE DEF r
    <3> QED BY <3>1, <3>2, <3>3, <3>4 DEF BankIInv, DepositInv
  <2> QED BY <1>2, <2>2, <2>3, <2>4 DEF open_time_deposit, BankIInv
<1>3. ASSUME NEW d \in 0 .. MaxDeposits - 1, claim_time_deposit(c, d)
      PROVE  BankIInv' /\ IssuesAsBooked
  <2>1. d \in DOMAIN timeDeposits /\ timeDeposits[d] \in TimeDeposit
    BY <1>3 DEF claim_time_deposit, BankIInv, DepositInv
  <2> DEFINE total == timeDeposits[d].amount + Interest(timeDeposits[d])
  <2>2. total \in Nat
    <3>1. Interest(timeDeposits[d]) \in Nat
      BY <2>1, InterestType
    <3>2. timeDeposits[d].amount \in Nat
      BY <2>1 DEF TimeDeposit
    <3> QED BY <3>1, <3>2
  <2>3. Pay(Treasury, c, total, FALSE)
    BY <1>3 DEF claim_time_deposit
  <2> HIDE DEF total
  <2>4. IInv' /\ UNCHANGED frozen /\ IssuesAsBooked
    BY <1>1, <2>2, <2>3, PayStep DEF BankIInv
  <2>5. LoanInv' /\ MemberInv' /\ EscrowInv' /\ CardInv'
    BY <1>3, <2>4, LoansKept, MembersKept, EscrowsKept, CardsKept DEF claim_time_deposit, BankIInv
  <2>6. DepositInv'
    <3>1. /\ timeDeposits' = [timeDeposits EXCEPT ![d].status = "Claimed"]
          /\ nextTimeDepositId' = nextTimeDepositId
      BY <1>3 DEF claim_time_deposit
    <3>2. [timeDeposits[d] EXCEPT !.status = "Claimed"] \in TimeDeposit
      BY <2>1 DEF TimeDeposit
    <3> QED BY <2>1, <3>1, <3>2 DEF BankIInv, DepositInv
  <2> QED BY <1>3, <2>4, <2>5, <2>6 DEF claim_time_deposit, BankIInv
<1> QED BY <1>2, <1>3

-----------------------------------------------------------------------------
(* Cards, money and the wholesale window                                   *)

\* Whatever leaves the bank's books but the cards alone.
LEMMA BooksKept ==
    ASSUME BankIInv, IInv', UNCHANGED <<frozen, now, members, loans, escrows, deposits>>, CardInv'
    PROVE  BankIInv'
BY LoansKept, MembersKept, EscrowsKept, DepositsKept DEF BankIInv

\* The calls of the card: the store moves with the money, the other books stay.
LEMMA CardStep ==
    ASSUME BankIInv, NEW c \in Wallets, CardCall(c)
    PROVE  BankIInv' /\ IssuesAsBooked
<1>1. Treasury \in Accounts /\ c \in Accounts /\ CardAmounts \subseteq Nat
  BY CentralBankAssumption, BankAssumption
<1>2. collateralBalances \in [Accounts -> Nat]
  BY DEF BankIInv, CardInv
<1>3. ASSUME NEW n \in CardAmounts, lock_collateral(c, n)
      PROVE  BankIInv' /\ IssuesAsBooked
  <2>1. IInv' /\ UNCHANGED frozen /\ IssuesAsBooked
    BY <1>1, <1>3, PayStep DEF lock_collateral, BankIInv
  <2>2. CardInv'
    BY <1>1, <1>2, <1>3 DEF lock_collateral, BankIInv, CardInv
  <2> QED BY <1>3, <2>1, <2>2, BooksKept DEF lock_collateral
<1>4. ASSUME NEW n \in CardAmounts, repay_cash_advance(c, n)
      PROVE  BankIInv' /\ IssuesAsBooked
  <2>1. IInv' /\ UNCHANGED frozen /\ IssuesAsBooked
    BY <1>1, <1>4, PayStep DEF repay_cash_advance, BankIInv
  <2>2. CardInv'
    BY <1>4, CardsKept DEF repay_cash_advance, bankVars, BankIInv
  <2> QED BY <1>4, <2>1, <2>2, BooksKept DEF repay_cash_advance, bankVars
<1>5. ASSUME NEW n \in CardAmounts, NEW k \in Nonces, unlock_collateral(c, n, k)
      PROVE  BankIInv' /\ IssuesAsBooked
  <2>1. IInv' /\ UNCHANGED frozen /\ IssuesAsBooked
    BY <1>1, <1>5, PayStep DEF unlock_collateral, BankIInv
  <2>2. CardInv'
    <3>1. SatSub(collateralBalances[c], n) \in Nat
      BY <1>1, <1>2 DEF SatSub
    <3>2. collateralBalances' \in [Accounts -> Nat]
      BY <1>1, <1>2, <1>5, <3>1 DEF unlock_collateral
    <3> QED BY <1>5, <3>2 DEF unlock_collateral, BankIInv, CardInv
  <2> QED BY <1>5, <2>1, <2>2, BooksKept DEF unlock_collateral
<1>6. ASSUME NEW n \in CardAmounts, NEW k \in Nonces, claim_cash_advance(c, n, k)
      PROVE  BankIInv' /\ IssuesAsBooked
  <2>1. IInv' /\ UNCHANGED frozen /\ IssuesAsBooked
    BY <1>1, <1>6, PayStep DEF claim_cash_advance, BankIInv
  <2>2. CardInv'
    BY <1>6 DEF claim_cash_advance, BankIInv, CardInv
  <2> QED BY <1>6, <2>1, <2>2, BooksKept DEF claim_cash_advance
<1> QED BY <1>3, <1>4, <1>5, <1>6 DEF CardCall

\* Money that citizens move themselves, or officers put into the treasury.
LEMMA MoneyStep ==
    ASSUME BankIInv, NEW c \in Wallets, MoneyCall(c)
    PROVE  BankIInv' /\ IssuesAsBooked
<1>1. c \in Accounts /\ Treasury \in Accounts /\ Payees \subseteq Accounts /\ Amounts \subseteq Nat
      /\ TRUE \in BOOLEAN
  BY CentralBankAssumption, BankAssumption
<1>2. PICK src \in Accounts, dst \in Accounts, n \in Nat, keepAlive \in BOOLEAN :
          Pay(src, dst, n, keepAlive)
  BY <1>1 DEF MoneyCall, fund_treasury, UserTransfer, Pay
<1>3. IInv' /\ UNCHANGED frozen /\ IssuesAsBooked
  BY <1>2, PayStep DEF BankIInv
<1>4. UNCHANGED bankVars
  BY DEF MoneyCall, fund_treasury
<1>5. CardInv'
  BY <1>4, CardsKept DEF bankVars, BankIInv
<1> QED BY <1>3, <1>4, <1>5, BooksKept DEF bankVars

\* What a step that issues at most n adds is at most n.
LEMMA AddedAtMost ==
    ASSUME NEW a \in Int, NEW b \in Int, NEW n \in Nat, b <= a + n
    PROVE  b - a <= n
OBVIOUS

\* What adds at most n to the issuance and is booked as n is issued as booked.
LEMMA BookedIssue ==
    ASSUME issuance \in Int, issuance' \in Int, totalEmitted \in Nat, totalOutstanding \in Nat,
           NEW n \in Nat, issuance' <= issuance + n,
           \/ totalEmitted' = totalEmitted + n /\ totalOutstanding' = totalOutstanding
           \/ totalEmitted' = totalEmitted /\ totalOutstanding' = totalOutstanding + n
    PROVE  IssuesAsBooked
<1>1. issuance' - issuance <= n
  BY AddedAtMost
<1>2. (totalEmitted' - totalEmitted) + (totalOutstanding' - totalOutstanding) = n
  OBVIOUS
<1> QED BY <1>1, <1>2 DEF IssuesAsBooked

\* What credit adds to the issuance it adds to the outstanding total.
LEMMA CreditIsBooked ==
    ASSUME IInv, NEW op \in Accounts, NEW n \in Nat,
           do_request_credit(op, n) \/ \E e \in EpochIds : do_repay_credit(op, e, n)
    PROVE  IssuesAsBooked
<1>1. LedgerTypeOK /\ issuance \in Int /\ totalEmitted \in Nat /\ totalOutstanding \in Nat
  BY DEF IInv, TypeOK, LedgerTypeOK
<1>2. CASE do_request_credit(op, n)
  <2>1. issuance' <= issuance + n /\ issuance' \in Int
    BY <1>1, <1>2, DepositCreating DEF do_request_credit, LedgerTypeOK
  <2>2. totalOutstanding' = totalOutstanding + n /\ totalEmitted' = totalEmitted
    BY <1>2 DEF do_request_credit, emission
  <2> QED BY <1>1, <2>1, <2>2, BookedIssue
<1>3. CASE \E e \in EpochIds : do_repay_credit(op, e, n)
  <2>1. issuance' = issuance - n
    BY <1>1, <1>3, Withdraw DEF do_repay_credit
  <2> QED BY <1>1, <2>1 DEF IssuesAsBooked
<1> QED BY <1>2, <1>3

\* The wholesale window is the Central Bank's credit, for the treasury.
LEMMA WholesaleStep ==
    ASSUME BankIInv,
           \/ \E n \in Amounts : borrow_wholesale(n)
           \/ \E e \in EpochIds, n \in Amounts : repay_wholesale(e, n)
    PROVE  BankIInv' /\ IssuesAsBooked
<1>1. Treasury \in Accounts /\ Amounts \subseteq Nat
  BY CentralBankAssumption, BankAssumption
<1>2. TypeOK /\ LedgerTypeOK
  BY DEF BankIInv, IInv, TypeOK
<1>3. UNCHANGED <<frozen, bankVars>>
  BY DEF borrow_wholesale, repay_wholesale, do_request_credit, do_repay_credit, deposit_creating, withdraw
<1>4. IInv'
  BY <1>1, RequestStep, RepayStep DEF borrow_wholesale, repay_wholesale, BankIInv
<1>5. BankIInv'
  <2>1. CardInv'
    BY <1>3, CardsKept DEF bankVars, BankIInv
  <2> QED BY <1>3, <1>4, <2>1, BooksKept DEF bankVars
<1>6. IssuesAsBooked
  BY <1>1, CreditIsBooked DEF borrow_wholesale, repay_wholesale, BankIInv
<1> QED BY <1>5, <1>6

\* The calls of the Central Bank leave the bank's books and all locks alone.
LEMMA CentralBankStep ==
    ASSUME BankIInv, CentralBankNext, UNCHANGED bankVars
    PROVE  BankIInv' /\ IssuesAsBooked
<1>1. TypeOK /\ LedgerTypeOK
  BY DEF BankIInv, IInv, TypeOK
<1>2. Wallets \subseteq Accounts /\ Operators \subseteq Accounts /\ Amounts \subseteq Nat
      /\ GenesisGrant \in Nat
  BY CentralBankAssumption
<1>3. UNCHANGED frozen
  BY DEF CentralBankNext, grant_operator_license, revoke_operator_license, mint_to_operator, burn,
         set_base_rate, transition_epoch, do_epoch_transition, request_credit, repay_credit,
         do_request_credit,
         do_repay_credit, trigger_genesis_distribution, issue_genesis_grant, deposit_creating,
         withdraw, ledger
<1>4. IInv'
  BY CentralBankStepInv DEF BankIInv
<1>5. BankIInv'
  <2>1. CardInv'
    BY CardsKept DEF bankVars, BankIInv
  <2> QED BY <1>3, <1>4, <2>1, BooksKept DEF bankVars
<1>6. IssuesAsBooked
  <2>1. /\ issuance \in Int /\ totalEmitted \in Nat /\ totalOutstanding \in Nat
    BY <1>1 DEF TypeOK, LedgerTypeOK
  <2>2. ASSUME UNCHANGED issuance
        PROVE  IssuesAsBooked
    BY <2>1, <2>2 DEF IssuesAsBooked
  <2>3. ASSUME NEW op \in Operators, grant_operator_license(op) \/ revoke_operator_license(op)
        PROVE  IssuesAsBooked
    BY <2>2, <2>3 DEF grant_operator_license, revoke_operator_license, ledger
  <2>4. ASSUME NEW op \in Operators, NEW n \in Amounts, mint_to_operator(op, n)
        PROVE  IssuesAsBooked
    <3>1. issuance' <= issuance + n /\ issuance' \in Int /\ n \in Nat
      BY <1>1, <1>2, <2>4, DepositCreating DEF mint_to_operator, LedgerTypeOK
    <3>2. totalEmitted' = totalEmitted + n /\ totalOutstanding' = totalOutstanding
      BY <2>4 DEF mint_to_operator, pool
    <3> QED BY <1>2, <2>1, <3>1, <3>2, BookedIssue
  <2>5. ASSUME NEW op \in Operators, NEW n \in Amounts, burn(op, n)
        PROVE  IssuesAsBooked
    <3>1. issuance' = issuance - n
      BY <1>1, <1>2, <2>5, Withdraw DEF burn
    <3> QED BY <1>2, <2>1, <3>1 DEF IssuesAsBooked
  <2>6. ASSUME NEW rate \in BaseRates, set_base_rate(rate)
        PROVE  IssuesAsBooked
    BY <2>2, <2>6 DEF set_base_rate, ledger
  <2>7. CASE transition_epoch
    BY <2>2, <2>7 DEF transition_epoch, do_epoch_transition, ledger
  <2>8. ASSUME NEW op \in Wallets, NEW n \in Amounts, request_credit(op, n)
        PROVE  IssuesAsBooked
    BY <1>2, <2>8, CreditIsBooked DEF request_credit, BankIInv
  <2>9. ASSUME NEW op \in Wallets, NEW e \in EpochIds, NEW n \in Amounts, repay_credit(op, e, n)
        PROVE  IssuesAsBooked
    BY <1>2, <2>9, CreditIsBooked DEF repay_credit, BankIInv
  <2>10. CASE trigger_genesis_distribution
    BY <2>2, <2>10 DEF trigger_genesis_distribution
  <2>11. ASSUME NEW c \in Wallets, NEW r \in Regions, issue_genesis_grant(c, r)
         PROVE  IssuesAsBooked
    <3>1. issuance' <= issuance + GenesisGrant /\ issuance' \in Int
      BY <1>1, <1>2, <2>11, DepositCreating DEF issue_genesis_grant, LedgerTypeOK
    <3>2. totalEmitted' = totalEmitted + GenesisGrant /\ totalOutstanding' = totalOutstanding
      BY <2>11 DEF issue_genesis_grant, GrantEmitted, pool
    <3> QED BY <1>2, <2>1, <3>1, <3>2, BookedIssue
  <2> QED
    BY <2>3, <2>4, <2>5, <2>6, <2>7, <2>8, <2>9, <2>10, <2>11 DEF CentralBankNext
<1> QED BY <1>5, <1>6

-----------------------------------------------------------------------------
(* The theorems                                                            *)

\* Every step of the composition preserves the invariant of both pallets.
LEMMA BankStepInv ==
    ASSUME BankIInv, [BankNext]_allVars
    PROVE  BankIInv' /\ (BankNext => IssuesAsBooked)
<1>1. ASSUME NEW c \in Wallets, SignedBy(c)
      PROVE  BankIInv' /\ IssuesAsBooked
  BY <1>1, AccountStep, LoanStep, EscrowStep, DepositStep, CardStep, MoneyStep
  DEF SignedBy, ContractCall
<1>2. CASE OfficerCall
  <2>1. ASSUME NEW key \in ServerKeys, set_bank_server_key(key)
        PROVE  BankIInv' /\ IssuesAsBooked
    <3>1. IInv' /\ IssuesAsBooked
      BY <2>1, QuietStep DEF set_bank_server_key, BankIInv
    <3>2. CardInv' /\ UNCHANGED frozen
      BY <2>1 DEF set_bank_server_key, BankIInv, CardInv, vars, ledger
    <3> QED BY <2>1, <3>1, <3>2, BooksKept DEF set_bank_server_key
  <2> QED BY <1>2, <2>1, LoanStep, WholesaleStep DEF OfficerCall
<1>3. CASE CentralBankNext /\ UNCHANGED bankVars
  BY <1>3, CentralBankStep
<1>4. CASE NextBlock
  <2>1. IInv' /\ IssuesAsBooked
    BY <1>4, QuietStep DEF NextBlock, BankIInv
  <2>2. LoanInv' /\ MemberInv' /\ EscrowInv' /\ DepositInv' /\ CardInv'
    BY <1>4, LoansKept, MembersKept, EscrowsKept, DepositsKept, CardsKept
    DEF NextBlock, BankIInv, vars, ledger
  <2>3. now' \in 0 .. MaxBlock
    <3>1. MaxBlock \in Nat
      BY BankAssumption
    <3> QED BY <1>4, <3>1 DEF NextBlock, BankIInv
  <2> QED BY <2>1, <2>2, <2>3 DEF BankIInv
<1>5. CASE UNCHANGED allVars
  <2>1. IInv' /\ IssuesAsBooked
    BY <1>5, QuietStep DEF allVars, BankIInv
  <2>2. LoanInv' /\ MemberInv' /\ EscrowInv' /\ DepositInv' /\ CardInv'
    BY <1>5, LoansKept, MembersKept, EscrowsKept, DepositsKept, CardsKept
    DEF allVars, bankVars, BankIInv, vars, ledger
  <2>3. now' = now
    BY <1>5 DEF allVars, bankVars
  <2> QED BY <2>1, <2>2, <2>3 DEF BankIInv
<1> QED BY <1>1, <1>2, <1>3, <1>4, <1>5 DEF BankNext

\* The invariant holds at genesis.
LEMMA BankInitInv == BankInit => BankIInv
<1> SUFFICES ASSUME BankInit PROVE BankIInv
  OBVIOUS
<1>1. IInv
  BY InitIInv DEF BankInit
<1>2. 0 .. 0 - 1 = {} /\ 0 \in Nat /\ MaxBlock \in Nat
  BY BankAssumption
<1>3. /\ DOMAIN subAccounts = {} /\ DOMAIN subAccountMeta = {} /\ DOMAIN loanRequests = {}
      /\ DOMAIN activeLoanByBorrower = {} /\ DOMAIN loanCollateral = {}
      /\ DOMAIN escrowContracts = {} /\ DOMAIN timeDeposits = {}
  BY DEF BankInit
<1>4. /\ activeLoanByBorrower = [c \in DOMAIN activeLoanByBorrower |-> activeLoanByBorrower[c]]
      /\ loanCollateral = [k \in DOMAIN loanCollateral |-> loanCollateral[k]]
  BY DEF BankInit
<1>5. NoLockWithoutLoan
  BY CentralBankAssumption DEF BankInit, Init, NoLockWithoutLoan
<1>6. LoanInv
  BY <1>2, <1>3, <1>4, <1>5
  DEF BankInit, LoanInv, ActiveIndex, Outstanding, OpenLoans, CollateralBook
<1>7. MemberInv
  BY <1>3 DEF BankInit, MemberInv
<1>8. EscrowInv /\ DepositInv
  BY <1>2, <1>3 DEF BankInit, EscrowInv, DepositInv
<1>9. CardInv
  BY DEF BankInit, CardInv
<1>10. now \in 0 .. MaxBlock
  BY <1>2 DEF BankInit
<1> QED BY <1>1, <1>6, <1>7, <1>8, <1>9, <1>10 DEF BankIInv

\* The invariant of the composition, from which the rest follows.
LEMMA BankInvariant == BankSpec => []BankIInv
<1>1. BankIInv /\ [BankNext]_allVars => BankIInv'
  BY BankStepInv
<1> QED BY <1>1, BankInitInv, PTL DEF BankSpec

\* The indices in the form in which the runs check them.
LEMMA BooksFollow == BankIInv => BooksAgree
<1> SUFFICES ASSUME BankIInv PROVE BooksAgree
  OBVIOUS
<1>1. BankTypeOK
  <2>1. \A l \in DOMAIN loanRequests :
          loanRequests[l] \in [borrower : Wallets, collateral : Nat, amount : Nat \ {0},
                               status : {"Pending", "Active", "Repaid"}, outstanding_balance : Nat]
    BY DEF BankIInv, LoanInv, LoanRecord
  <2> QED BY <2>1 DEF BankTypeOK, BankIInv, IInv, LoanInv, MemberInv, EscrowInv, DepositInv, CardInv
<1>2. LoanBookConsistent
  <2>1. ASSUME NEW c \in Wallets
        PROVE  LoansOf(c, {"Active"}) =
                  IF c \in DOMAIN activeLoanByBorrower THEN {activeLoanByBorrower[c]} ELSE {}
    BY DEF BankIInv, LoanInv, ActiveIndex, LoansOf
  <2>2. \A l \in DOMAIN loanRequests :
          loanRequests[l].status = "Active" =>
              loanRequests[l].outstanding_balance \in 1 .. loanRequests[l].amount
    BY DEF BankIInv, LoanInv, Outstanding
  <2> DEFINE keys == {<<loanRequests[l].borrower, l>> : l \in
                        {m \in DOMAIN loanRequests : loanRequests[m].status # "Repaid"}}
  <2>3. keys = {<<loanRequests[l].borrower, l>> : l \in OpenLoans}
    BY DEF OpenLoans
  <2>4. DOMAIN loanCollateral = keys
    <3>1. \A k \in DOMAIN loanCollateral : k \in {<<loanRequests[l].borrower, l>> : l \in OpenLoans}
      BY DEF BankIInv, LoanInv, CollateralBook
    <3>2. \A k \in {<<loanRequests[l].borrower, l>> : l \in OpenLoans} : k \in DOMAIN loanCollateral
      BY DEF BankIInv, LoanInv, CollateralBook
    <3> HIDE DEF keys
    <3> QED BY <2>3, <3>1, <3>2
  <2>5. \A k \in keys : loanCollateral[k] = loanRequests[k[2]].collateral
    <3> SUFFICES ASSUME NEW k \in keys
                 PROVE  loanCollateral[k] = loanRequests[k[2]].collateral
      OBVIOUS
    <3>1. PICK l \in OpenLoans : k = <<loanRequests[l].borrower, l>>
      BY <2>3
    <3>2. k[2] = l
      BY <3>1
    <3> HIDE DEF keys
    <3> QED BY <3>1, <3>2 DEF BankIInv, LoanInv, CollateralBook
  <2>6. loanCollateral = [k \in keys |-> loanRequests[k[2]].collateral]
    <3>1. loanCollateral = [k \in DOMAIN loanCollateral |-> loanCollateral[k]]
      BY DEF BankIInv, LoanInv, CollateralBook
    <3> HIDE DEF keys
    <3> QED BY <2>4, <2>5, <3>1
  <2> QED BY <2>1, <2>2, <2>6 DEF LoanBookConsistent
<1>3. SubAccountMapsAgree
  <2>1. \A k \in DOMAIN subAccounts : k[2] \in DOMAIN subAccountMeta
    BY DEF BankIInv, MemberInv
  <2>2. \A s \in DOMAIN subAccountMeta : \E k \in DOMAIN subAccounts : k[2] = s
    BY DEF BankIInv, MemberInv
  <2>3. {k[2] : k \in DOMAIN subAccounts} = DOMAIN subAccountMeta
    BY <2>1, <2>2
  <2>4. \A k \in DOMAIN subAccounts :
          /\ subAccountMeta[k[2]] = [master |-> k[1], account_type |-> subAccounts[k]]
          /\ k[2] = derive_sub_account(k[1], subAccounts[k])
    BY DEF BankIInv, MemberInv, derive_sub_account
  <2> QED BY <2>3, <2>4 DEF SubAccountMapsAgree
<1>4. BackfillIsIdempotent
  <2> DEFINE missing == {loanRequests[l].borrower : l \in
                           {m \in DOMAIN loanRequests : loanRequests[m].status = "Active"}}
                        \ DOMAIN activeLoanByBorrower
  <2>1. missing = {}
    BY DEF BankIInv, LoanInv, ActiveIndex
  <2>2. activeLoanByBorrower = [c \in DOMAIN activeLoanByBorrower |-> activeLoanByBorrower[c]]
    BY DEF BankIInv, LoanInv, ActiveIndex
  <2>3. V2BackfillActiveLoanIndex = [c \in DOMAIN activeLoanByBorrower |-> activeLoanByBorrower[c]]
    BY <2>1 DEF V2BackfillActiveLoanIndex
  <2> QED BY <2>2, <2>3 DEF BackfillIsIdempotent
<1>5. NoLockWithoutLoan
  BY DEF BankIInv, LoanInv
<1> QED BY <1>1, <1>2, <1>3, <1>4, <1>5 DEF BooksAgree

(***************************************************************************)
(* All indices of pallets/bank-of-siberia agree with the records after any *)
(* calls in any order: the loan book, the locks, the collateral records,   *)
(* the maps of the sub-accounts and what the V2 migration would rebuild.   *)
(***************************************************************************)
THEOREM BankBooksAgree == BankSpec => []BooksAgree
BY BankInvariant, BooksFollow, PTL

(***************************************************************************)
(* The Central Bank's own books hold when the bank's calls interleave with *)
(* them: the pool is conserved and all money in issue is covered.          *)
(***************************************************************************)
THEOREM PoolSurvivesTheBank == BankSpec => [](PoolConservation /\ IssuanceBound /\ KeyRateIsCurrent)
<1>1. BankIInv => PoolConservation /\ IssuanceBound /\ KeyRateIsCurrent
  BY DEF BankIInv, IInv
<1> QED BY <1>1, BankInvariant, PTL

(***************************************************************************)
(* The bank never emits: whichever pallet a call enters through, what it   *)
(* adds to the issuance the Central Bank books as emission or as credit.   *)
(***************************************************************************)
THEOREM BankNeverEmits == BankSpec => OnlyCentralBankIssues
<1>1. BankIInv /\ [BankNext]_allVars => BankIInv' /\ [IssuesAsBooked]_allVars
  BY BankStepInv
<1>2. BankSpec => [][IssuesAsBooked]_allVars
  BY <1>1, BankInitInv, PTL DEF BankSpec
<1> QED BY <1>2 DEF OnlyCentralBankIssues, IssuesAsBooked

-----------------------------------------------------------------------------
(* What a citizen has                                                      *)

\* Nothing that counts for c loses money in the step.
HoldsAsMuch(c) == \A a \in {c} \cup SubAccountsOf(c) : free[a] <= free'[a]

\* The claims and the debt of c are what they were.
ClaimsKept(c) ==
    /\ Escrowed(c)' = Escrowed(c)
    /\ Deposited(c)' = Deposited(c)
    /\ Owed(c)' = Owed(c)
    /\ collateralBalances'[c] = collateralBalances[c]

\* A step in which c has no less than before.
NoLoss(c) == ~ (NetWorth(c)' < NetWorth(c))

EscrowAmounts == [e \in DOMAIN escrowContracts |-> escrowContracts[e].amount]
DepositAmounts == [d \in DOMAIN timeDeposits |-> timeDeposits[d].amount]
Debts == [l \in DOMAIN loanRequests |-> loanRequests[l].outstanding_balance]

\* The sub-accounts of a citizen are accounts of the ledger, nobody's wallet
\* and not the treasury.
LEMMA OwnSubAccounts ==
    ASSUME NEW c \in Wallets
    PROVE  /\ IsFiniteSet(SubAccountsOf(c))
           /\ {c} \cup SubAccountsOf(c) \subseteq Accounts \ {Treasury}
           /\ SubAccountsOf(c) \cap Wallets = {}
           /\ CentralBankAccount \notin SubAccountsOf(c) /\ Creator \notin SubAccountsOf(c)
<1>1. SubAccountsOf(c) \subseteq SubAddresses
  BY DEF SubAccountsOf
<1>2. /\ SubAddresses \subseteq Accounts \ (Wallets \cup {Creator, CentralBankAccount})
      /\ Treasury \notin Wallets \cup SubAddresses
      /\ Wallets \subseteq Accounts /\ IsFiniteSet(Accounts)
  BY BankAssumption, CentralBankAssumption, LedgerAssumption
<1> HIDE DEF SubAddresses
<1>3. IsFiniteSet(SubAccountsOf(c))
  BY <1>1, <1>2, FS_Subset
<1> QED BY <1>1, <1>2, <1>3

\* The money of the sub-accounts is a number, and more when each has more.
LEMMA SavingsGrow ==
    ASSUME LedgerTypeOK, LedgerTypeOK', NEW c \in Wallets,
           \A a \in SubAccountsOf(c) : free[a] <= free'[a]
    PROVE  /\ SumOver(free, SubAccountsOf(c)) \in Int
           /\ SumOver(free', SubAccountsOf(c)) \in Int
           /\ SumOver(free, SubAccountsOf(c)) <= SumOver(free', SubAccountsOf(c))
<1>1. /\ IsFiniteSet(SubAccountsOf(c))
      /\ \A a \in SubAccountsOf(c) : free[a] \in Int /\ free'[a] \in Int
  BY OwnSubAccounts DEF LedgerTypeOK
<1>2. SumOver(free, SubAccountsOf(c)) \in Int /\ SumOver(free', SubAccountsOf(c)) \in Int
  BY <1>1, SumIsInt
<1>3. SumOver(free, SubAccountsOf(c)) <= SumOver(free', SubAccountsOf(c))
  BY <1>1, SumAtMost
<1> QED BY <1>2, <1>3

\* What is claimed and owed are numbers.
ClaimsTyped ==
    \A c \in Wallets :
        /\ Escrowed(c) \in Int /\ Deposited(c) \in Int /\ Owed(c) \in Int
        /\ collateralBalances[c] \in Int

\* The contracts of the bank are finitely many.
LEMMA ContractsAreFinite ==
    ASSUME BankIInv
    PROVE  /\ IsFiniteSet(DOMAIN escrowContracts)
           /\ IsFiniteSet(DOMAIN timeDeposits)
           /\ IsFiniteSet(DOMAIN loanRequests)
<1>1. \A n \in Nat : IsFiniteSet(0 .. n - 1)
  BY FS_Interval
<1>2. /\ nextEscrowId \in Nat /\ DOMAIN escrowContracts = 0 .. nextEscrowId - 1
      /\ nextTimeDepositId \in Nat /\ DOMAIN timeDeposits = 0 .. nextTimeDepositId - 1
      /\ nextLoanId \in Nat /\ DOMAIN loanRequests = 0 .. nextLoanId - 1
  BY DEF BankIInv, EscrowInv, DepositInv, LoanInv
<1> QED BY <1>1, <1>2

\* They are, in every state of the bank.
LEMMA ClaimsAreNumbers == BankIInv => ClaimsTyped
<1> SUFFICES ASSUME BankIInv, NEW c \in Wallets
             PROVE  /\ Escrowed(c) \in Int /\ Deposited(c) \in Int /\ Owed(c) \in Int
                    /\ collateralBalances[c] \in Int
  BY DEF ClaimsTyped
<1> USE DEF BankIInv
<1>1. Escrowed(c) \in Int
  <2>1. IsFiniteSet(EscrowsOf(c)) /\ \A e \in EscrowsOf(c) : EscrowAmounts[e] \in Int
    <3>1. IsFiniteSet(DOMAIN escrowContracts)
      BY ContractsAreFinite
    <3>2. EscrowsOf(c) \subseteq DOMAIN escrowContracts
      BY DEF EscrowsOf
    <3> QED BY <3>1, <3>2, FS_Subset DEF EscrowInv, EscrowAmounts
  <2>2. SumOver(EscrowAmounts, EscrowsOf(c)) \in Int
    BY <2>1, SumIsInt
  <2> QED BY <2>2 DEF Escrowed, EscrowAmounts
<1>2. Deposited(c) \in Int
  <2>1. IsFiniteSet(DepositsOf(c)) /\ \A e \in DepositsOf(c) : DepositAmounts[e] \in Int
    <3>1. IsFiniteSet(DOMAIN timeDeposits)
      BY ContractsAreFinite
    <3>2. DepositsOf(c) \subseteq DOMAIN timeDeposits
      BY DEF DepositsOf
    <3> QED BY <3>1, <3>2, FS_Subset DEF DepositInv, DepositAmounts, TimeDeposit
  <2>2. SumOver(DepositAmounts, DepositsOf(c)) \in Int
    BY <2>1, SumIsInt
  <2> QED BY <2>2 DEF Deposited, DepositAmounts
<1>3. Owed(c) \in Int
  <2> DEFINE active == LoansOf(c, {"Active"})
  <2>1. IsFiniteSet(active) /\ \A l \in active : Debts[l] \in Int
    <3>1. IsFiniteSet(DOMAIN loanRequests)
      BY ContractsAreFinite
    <3>2. active \subseteq DOMAIN loanRequests
      BY DEF LoansOf
    <3> HIDE DEF active
    <3> QED BY <3>1, <3>2, FS_Subset DEF LoanInv, LoanRecord, Debts
  <2> HIDE DEF active
  <2>2. SumOver(Debts, active) \in Int
    BY <2>1, SumIsInt
  <2> QED BY <2>2 DEF Owed, Debts, active
<1>4. collateralBalances[c] \in Int
  BY CentralBankAssumption DEF CardInv
<1> QED BY <1>1, <1>2, <1>3, <1>4

\* The same after a step.
LEMMA ClaimsStayNumbers == BankIInv' => ClaimsTyped'
BY ClaimsAreNumbers, PTL

\* Money that comes in for a claim that goes, or with a debt that comes, is no
\* loss.
LEMMA WorthStep ==
    ASSUME BankIInv, BankIInv', NEW c \in Wallets, NEW n \in Nat,
           free[c] + n <= free'[c],
           \A a \in SubAccountsOf(c) : free[a] <= free'[a],
           Escrowed(c)' + Deposited(c)' - Owed(c)' + n = Escrowed(c) + Deposited(c) - Owed(c),
           collateralBalances'[c] = collateralBalances[c]
    PROVE  NoLoss(c)
<1>1. LedgerTypeOK /\ LedgerTypeOK'
  BY DEF BankIInv, IInv, TypeOK
<1>2. /\ SumOver(free, SubAccountsOf(c)) \in Int
      /\ SumOver(free', SubAccountsOf(c)) \in Int
      /\ SumOver(free, SubAccountsOf(c)) <= SumOver(free', SubAccountsOf(c))
  BY <1>1, SavingsGrow
<1>3. /\ Escrowed(c) \in Int /\ Deposited(c) \in Int /\ Owed(c) \in Int
      /\ collateralBalances[c] \in Int
  BY ClaimsAreNumbers DEF ClaimsTyped
<1>4. Escrowed(c)' \in Int /\ Deposited(c)' \in Int /\ Owed(c)' \in Int
  BY ClaimsStayNumbers DEF ClaimsTyped
<1>5. free[c] \in Int /\ free'[c] \in Int
  BY <1>1, CentralBankAssumption DEF LedgerTypeOK
<1>6. SubAccountsOf(c)' = SubAccountsOf(c)
  BY DEF SubAccountsOf, SubAddresses
<1>7. NetWorth(c)' = free'[c] + SumOver(free', SubAccountsOf(c)) + Escrowed(c)' + Deposited(c)'
                        + collateralBalances'[c] - Owed(c)'
  BY <1>6 DEF NetWorth
<1>8. NetWorth(c) = free[c] + SumOver(free, SubAccountsOf(c)) + Escrowed(c) + Deposited(c)
                       + collateralBalances[c] - Owed(c)
  BY DEF NetWorth
<1> HIDE DEF NetWorth
<1>9. NetWorth(c) <= NetWorth(c)' /\ NetWorth(c) \in Int /\ NetWorth(c)' \in Int
  <2> DEFINE s0 == SumOver(free, SubAccountsOf(c))
             s1 == SumOver(free', SubAccountsOf(c))
  <2>1. /\ s0 \in Int /\ s1 \in Int /\ s0 <= s1
        /\ NetWorth(c)' = free'[c] + s1 + Escrowed(c)' + Deposited(c)'
                            + collateralBalances[c] - Owed(c)'
        /\ NetWorth(c) = free[c] + s0 + Escrowed(c) + Deposited(c)
                           + collateralBalances[c] - Owed(c)
    BY <1>2, <1>7, <1>8
  <2> HIDE DEF s0, s1
  <2> QED BY <1>3, <1>4, <1>5, <2>1
<1> QED BY <1>9 DEF NoLoss

\* A step that leaves the money and the claims of c alone is no loss.
LEMMA NothingTaken ==
    ASSUME BankIInv, BankIInv', NEW c \in Wallets, HoldsAsMuch(c), ClaimsKept(c)
    PROVE  NoLoss(c)
<1>1. free[c] \in Int
  BY CentralBankAssumption DEF BankIInv, IInv, TypeOK, LedgerTypeOK
<1>2. free[c] + 0 <= free'[c] /\ \A a \in SubAccountsOf(c) : free[a] <= free'[a]
  BY <1>1 DEF HoldsAsMuch
<1>3. Escrowed(c) \in Int /\ Deposited(c) \in Int /\ Owed(c) \in Int
  BY ClaimsAreNumbers DEF ClaimsTyped
<1>4. Escrowed(c)' + Deposited(c)' - Owed(c)' + 0 = Escrowed(c) + Deposited(c) - Owed(c)
  BY <1>3 DEF ClaimsKept
<1> QED BY <1>2, <1>4, WorthStep DEF ClaimsKept

\* The records that count for c, unchanged, count for the same.
LEMMA SameEscrows ==
    ASSUME BankIInv, NEW c \in Wallets,
           \A e \in EscrowsOf(c) \cup EscrowsOf(c)' :
               /\ e \in DOMAIN escrowContracts /\ e \in DOMAIN escrowContracts'
               /\ escrowContracts'[e] = escrowContracts[e]
    PROVE  Escrowed(c)' = Escrowed(c)
<1>1. EscrowsOf(c)' = EscrowsOf(c)
  BY DEF EscrowsOf
<1>2. IsFiniteSet(EscrowsOf(c))
  <2>1. IsFiniteSet(DOMAIN escrowContracts)
    BY ContractsAreFinite
  <2>2. EscrowsOf(c) \subseteq DOMAIN escrowContracts
    BY DEF EscrowsOf
  <2> QED BY <2>1, <2>2, FS_Subset
<1>3. \A e \in EscrowsOf(c) : EscrowAmounts'[e] = EscrowAmounts[e]
  BY DEF EscrowAmounts
<1>4. SumOver(EscrowAmounts', EscrowsOf(c)) = SumOver(EscrowAmounts, EscrowsOf(c))
  BY <1>2, <1>3, SumOfSame
<1> QED BY <1>1, <1>4 DEF Escrowed, EscrowAmounts

\* So do the time deposits.
LEMMA SameDeposits ==
    ASSUME BankIInv, NEW c \in Wallets,
           \A d \in DepositsOf(c) \cup DepositsOf(c)' :
               /\ d \in DOMAIN timeDeposits /\ d \in DOMAIN timeDeposits'
               /\ timeDeposits'[d] = timeDeposits[d]
    PROVE  Deposited(c)' = Deposited(c)
<1>1. DepositsOf(c)' = DepositsOf(c)
  BY DEF DepositsOf
<1>2. IsFiniteSet(DepositsOf(c))
  <2>1. IsFiniteSet(DOMAIN timeDeposits)
    BY ContractsAreFinite
  <2>2. DepositsOf(c) \subseteq DOMAIN timeDeposits
    BY DEF DepositsOf
  <2> QED BY <2>1, <2>2, FS_Subset
<1>3. \A d \in DepositsOf(c) : DepositAmounts'[d] = DepositAmounts[d]
  BY DEF DepositAmounts
<1>4. SumOver(DepositAmounts', DepositsOf(c)) = SumOver(DepositAmounts, DepositsOf(c))
  BY <1>2, <1>3, SumOfSame
<1> QED BY <1>1, <1>4 DEF Deposited, DepositAmounts

\* And so does the debt.
LEMMA SameDebts ==
    ASSUME BankIInv, NEW c \in Wallets,
           \A l \in LoansOf(c, {"Active"}) \cup LoansOf(c, {"Active"})' :
               /\ l \in DOMAIN loanRequests /\ l \in DOMAIN loanRequests'
               /\ loanRequests'[l] = loanRequests[l]
    PROVE  Owed(c)' = Owed(c)
<1> DEFINE active == LoansOf(c, {"Active"})
<1>1. active' = active
  BY DEF LoansOf
<1>2. IsFiniteSet(active)
  <2>1. IsFiniteSet(DOMAIN loanRequests)
    BY ContractsAreFinite
  <2>2. active \subseteq DOMAIN loanRequests
    BY DEF LoansOf
  <2> HIDE DEF active
  <2> QED BY <2>1, <2>2, FS_Subset
<1>3. \A l \in active : Debts'[l] = Debts[l]
  BY DEF Debts
<1> HIDE DEF active
<1>4. SumOver(Debts', active) = SumOver(Debts, active)
  BY <1>2, <1>3, SumOfSame
<1> QED BY <1>1, <1>4 DEF Owed, Debts, active

\* A transfer takes from nobody but the payer and gives the payee the amount.
LEMMA PayGives ==
    ASSUME LedgerTypeOK, NEW src \in Accounts, NEW dst \in Accounts \ {src}, NEW v \in Nat,
           NEW keepAlive \in BOOLEAN, transfer(src, dst, v, keepAlive)
    PROVE  /\ \A a \in Accounts \ {src} : free[a] <= free'[a]
           /\ free'[dst] = free[dst] + v
<1>1. \A a \in Accounts : free[a] \in Nat
  BY DEF LedgerTypeOK
<1>2. CASE ~Moves(src, dst, v)
  BY <1>1, <1>2 DEF transfer, Moves
<1>3. CASE Moves(src, dst, v)
  <2>1. free' = [free EXCEPT ![src] = @ - v - Dust(src, v), ![dst] = @ + v]
    BY <1>3 DEF transfer
  <2>2. /\ \A a \in Accounts \ {src, dst} : free'[a] = free[a]
        /\ free'[dst] = free[dst] + v
    BY <2>1 DEF LedgerTypeOK
  <2> QED BY <1>1, <2>2
<1> QED BY <1>2, <1>3

\* A payment that neither c nor a sub-account of c makes takes nothing from c.
LEMMA OthersPay ==
    ASSUME BankIInv, NEW c \in Wallets, NEW src \in Accounts, NEW dst \in Accounts, NEW v \in Nat,
           NEW keepAlive \in BOOLEAN, transfer(src, dst, v, keepAlive),
           src \notin {c} \cup SubAccountsOf(c)
    PROVE  HoldsAsMuch(c)
<1>1. LedgerTypeOK /\ \A a \in Accounts : free[a] \in Nat
  BY DEF BankIInv, IInv, TypeOK, LedgerTypeOK
<1>2. CASE src = dst
  <2>1. free' = free
    BY <1>2 DEF transfer, Moves
  <2> QED BY <1>1, <2>1, OwnSubAccounts DEF HoldsAsMuch
<1>3. CASE src # dst
  <2>1. \A a \in Accounts \ {src} : free[a] <= free'[a]
    BY <1>1, <1>3, PayGives
  <2>2. {c} \cup SubAccountsOf(c) \subseteq Accounts \ {src}
    BY OwnSubAccounts
  <2> QED BY <2>1, <2>2 DEF HoldsAsMuch
<1> QED BY <1>2, <1>3

\* Where no book moves, the claims stay.
LEMMA BooksStay ==
    ASSUME NEW c \in Wallets, UNCHANGED <<loans, escrows, deposits, collateralBalances>>
    PROVE  ClaimsKept(c)
BY DEF ClaimsKept, loans, escrows, deposits, Escrowed, EscrowsOf, Deposited, DepositsOf, Owed, LoansOf

\* Where no balance moves, nobody loses money.
LEMMA MoneyStays ==
    ASSUME BankIInv, NEW c \in Wallets, UNCHANGED free
    PROVE  HoldsAsMuch(c)
<1>1. \A a \in Accounts : free[a] \in Nat
  BY DEF BankIInv, IInv, TypeOK, LedgerTypeOK
<1> QED BY <1>1, OwnSubAccounts DEF HoldsAsMuch

\* The accounts that others open, drain and close are not those of c.
LEMMA AccountCallOfOthers ==
    ASSUME BankIInv, NEW c \in Wallets, NEW o \in Wallets \ {c}, AccountCall(o)
    PROVE  HoldsAsMuch(c) /\ ClaimsKept(c)
<1>1. Amounts \subseteq Nat /\ Wallets \subseteq Accounts /\ FALSE \in BOOLEAN
  BY CentralBankAssumption
<1>2. UNCHANGED <<loans, escrows, deposits, cards>>
  BY DEF AccountCall, open_master_account, open_sub_account, close_sub_account, withdraw_from_savings
<1>3. ClaimsKept(c)
  BY <1>2, BooksStay DEF cards
<1>4. HoldsAsMuch(c)
  <2>1. ASSUME NEW sub \in SubAddresses, NEW n \in Amounts, withdraw_from_savings(o, sub, n)
        PROVE  HoldsAsMuch(c)
    <3>1. sub \in DOMAIN subAccountMeta /\ subAccountMeta[sub].master = o
      BY <2>1 DEF withdraw_from_savings, ensure_sub_account_owner
    <3>2. sub[1] = o
      <4>1. <<o, sub>> \in DOMAIN subAccounts
        BY <3>1 DEF BankIInv, MemberInv
      <4>2. sub = <<o, subAccounts[<<o, sub>>]>>
        BY <4>1 DEF BankIInv, MemberInv, derive_sub_account
      <4> QED BY <4>2
    <3>3. sub \in Accounts /\ sub \notin Wallets
      BY BankAssumption
    <3>4. sub \notin {c} \cup SubAccountsOf(c)
      BY <3>2, <3>3 DEF SubAccountsOf
    <3>5. transfer(sub, o, n, FALSE)
      BY <2>1 DEF withdraw_from_savings, Pay
    <3> QED BY <1>1, <3>3, <3>4, <3>5, OthersPay
  <2>2. ASSUME ~ \E sub \in SubAddresses, n \in Amounts : withdraw_from_savings(o, sub, n)
        PROVE  HoldsAsMuch(c)
    <3>1. UNCHANGED free
      BY <2>2 DEF AccountCall, open_master_account, open_sub_account, close_sub_account, vars, ledger
    <3> QED BY <3>1, MoneyStays
  <2> QED BY <2>1, <2>2
<1> QED BY <1>3, <1>4

\* The loans that others ask for, cancel and pay off are their own.
LEMMA LoanCallOfOthers ==
    ASSUME BankIInv, NEW c \in Wallets, NEW o \in Wallets \ {c}, LoanCall(o)
    PROVE  HoldsAsMuch(c) /\ ClaimsKept(c)
<1>1. Amounts \subseteq Nat /\ Wallets \subseteq Accounts /\ FALSE \in BOOLEAN
      /\ Treasury \in Accounts
  BY CentralBankAssumption, BankAssumption
<1>2. Escrowed(c)' = Escrowed(c) /\ Deposited(c)' = Deposited(c)
      /\ collateralBalances'[c] = collateralBalances[c]
  BY DEF LoanCall, request_loan, cancel_loan_request, pay_credit, escrows, deposits, cards,
         Escrowed, EscrowsOf, Deposited, DepositsOf
<1>3. ASSUME NEW n \in Amounts, NEW k \in Collaterals, request_loan(o, n, k)
      PROVE  HoldsAsMuch(c) /\ Owed(c)' = Owed(c)
  <2>1. UNCHANGED free
    BY <1>3 DEF request_loan
  <2> DEFINE r == [borrower |-> o, collateral |-> k, amount |-> n, status |-> "Pending",
                   outstanding_balance |-> n]
  <2>2. loanRequests' = Put(loanRequests, nextLoanId, r) /\ r.borrower = o
    BY <1>3 DEF request_loan
  <2> HIDE DEF r
  <2>3. /\ DOMAIN loanRequests' = DOMAIN loanRequests \cup {nextLoanId}
        /\ loanRequests'[nextLoanId] = r
        /\ \A l \in DOMAIN loanRequests : l # nextLoanId => loanRequests'[l] = loanRequests[l]
    BY <2>2 DEF Put
  <2>4. nextLoanId \notin DOMAIN loanRequests
    BY DEF BankIInv, LoanInv
  <2>5. Owed(c)' = Owed(c)
    BY <2>2, <2>3, <2>4, SameDebts DEF LoansOf
  <2> QED BY <2>1, <2>5, MoneyStays
<1>4. ASSUME NEW l \in 0 .. MaxLoans - 1, cancel_loan_request(o, l)
      PROVE  HoldsAsMuch(c) /\ Owed(c)' = Owed(c)
  <2>1. UNCHANGED free
    BY <1>4 DEF cancel_loan_request
  <2>2. /\ l \in DOMAIN loanRequests /\ loanRequests[l].borrower = o
        /\ loanRequests' = [loanRequests EXCEPT ![l].status = "Repaid"]
    BY <1>4 DEF cancel_loan_request
  <2>3. loanRequests[l] \in LoanRecord
    BY <2>2 DEF BankIInv, LoanInv
  <2>4. /\ DOMAIN loanRequests' = DOMAIN loanRequests
        /\ loanRequests'[l].borrower = o
        /\ \A m \in DOMAIN loanRequests : m # l => loanRequests'[m] = loanRequests[m]
    BY <2>2, <2>3 DEF LoanRecord
  <2>5. Owed(c)' = Owed(c)
    BY <2>2, <2>4, SameDebts DEF LoansOf
  <2> QED BY <2>1, <2>5, MoneyStays
<1>5. ASSUME NEW sub \in SubAddresses, NEW n \in Amounts, pay_credit(o, sub, n)
      PROVE  HoldsAsMuch(c) /\ Owed(c)' = Owed(c)
  <2> DEFINE l == activeLoanByBorrower[o]
             left == BalanceAfter(l, n)
  <2>1. /\ free' = [free EXCEPT ![o] = @ - n, ![Treasury] = @ + n]
        /\ o \in DOMAIN activeLoanByBorrower
        /\ loanRequests' = [loanRequests EXCEPT
              ![l].outstanding_balance = left,
              ![l].status = IF left = 0 THEN "Repaid" ELSE "Active"]
    BY <1>5 DEF pay_credit
  <2>2. l \in DOMAIN loanRequests /\ loanRequests[l].borrower = o /\ loanRequests[l] \in LoanRecord
    BY <2>1 DEF BankIInv, LoanInv, ActiveIndex
  <2> HIDE DEF l, left
  <2>3. /\ DOMAIN loanRequests' = DOMAIN loanRequests
        /\ loanRequests'[l].borrower = o
        /\ \A m \in DOMAIN loanRequests : m # l => loanRequests'[m] = loanRequests[m]
    BY <2>1, <2>2 DEF LoanRecord
  <2>4. Owed(c)' = Owed(c)
    BY <2>2, <2>3, SameDebts DEF LoansOf
  <2>5. HoldsAsMuch(c)
    <3>1. {c} \cup SubAccountsOf(c) \subseteq Accounts \ {o, Treasury}
      BY OwnSubAccounts
    <3>2. \A a \in Accounts \ {o, Treasury} : free'[a] = free[a] /\ free[a] \in Nat
      BY <2>1 DEF BankIInv, IInv, TypeOK, LedgerTypeOK
    <3> QED BY <3>1, <3>2 DEF HoldsAsMuch
  <2> QED BY <2>4, <2>5
<1> QED BY <1>2, <1>3, <1>4, <1>5 DEF LoanCall, ClaimsKept

\* An escrow that c paid into returns to c when somebody else settles it.
LEMMA SettledForOwner ==
    ASSUME BankIInv, BankIInv', NEW c \in Wallets, NEW e \in DOMAIN escrowContracts,
           NEW payee \in Wallets, NEW status \in {"Released", "Refunded"},
           SettleEscrow(e, payee, status),
           escrowContracts[e].depositor = c => payee = c
    PROVE  NoLoss(c)
<1> DEFINE n == escrowContracts[e].amount
<1>1. /\ n \in Nat
      /\ escrowContracts[e] \in [depositor : Wallets, counterparty : Wallets, amount : Nat \ {0},
                                 status : {"Locked", "Released", "Refunded"}]
  BY DEF BankIInv, EscrowInv
<1>2. /\ escrowContracts[e].status = "Locked"
      /\ transfer(Treasury, payee, n, FALSE)
      /\ escrowContracts' = [escrowContracts EXCEPT ![e].status = status]
  BY DEF SettleEscrow, CanSettle, Pay
<1>3. UNCHANGED <<loans, deposits, collateralBalances>>
  BY DEF SettleEscrow, cards
<1>4. Treasury \in Accounts /\ payee \in Accounts \ {Treasury} /\ FALSE \in BOOLEAN
      /\ c \in Accounts
  BY BankAssumption, CentralBankAssumption
<1>5. HoldsAsMuch(c)
  BY <1>1, <1>2, <1>4, OthersPay, OwnSubAccounts
<1>6. /\ DOMAIN escrowContracts' = DOMAIN escrowContracts
      /\ escrowContracts'[e].status = status
      /\ \A d \in DOMAIN escrowContracts : d # e => escrowContracts'[d] = escrowContracts[d]
  BY <1>1, <1>2
<1>7. Deposited(c)' = Deposited(c) /\ Owed(c)' = Owed(c)
      /\ collateralBalances'[c] = collateralBalances[c]
  BY <1>3 DEF loans, deposits, Deposited, DepositsOf, Owed, LoansOf
<1>8. EscrowsOf(c)' = EscrowsOf(c) \ {e}
  BY <1>6 DEF EscrowsOf
<1>9. CASE escrowContracts[e].depositor # c
  <2>1. e \notin EscrowsOf(c)
    BY <1>9 DEF EscrowsOf
  <2>2. EscrowsOf(c) \subseteq DOMAIN escrowContracts
    BY DEF EscrowsOf
  <2>3. Escrowed(c)' = Escrowed(c)
    BY <1>6, <1>8, <2>1, <2>2, SameEscrows
  <2> QED BY <1>5, <1>7, <2>3, NothingTaken DEF ClaimsKept
<1>10. CASE escrowContracts[e].depositor = c
  <2>1. e \in EscrowsOf(c) /\ payee = c
    BY <1>2, <1>10 DEF EscrowsOf
  <2>2. free'[c] = free[c] + n /\ free[c] \in Nat
    <3>1. LedgerTypeOK
      BY DEF BankIInv, IInv, TypeOK
    <3>2. n \in Nat /\ transfer(Treasury, payee, n, FALSE)
      BY <1>1, <1>2
    <3> HIDE DEF n
    <3>3. free'[payee] = free[payee] + n
      BY <1>4, <3>1, <3>2, PayGives
    <3> QED BY <1>4, <2>1, <3>1, <3>3 DEF LedgerTypeOK
  <2>3. Escrowed(c)' + n = Escrowed(c)
    <3>1. IsFiniteSet(EscrowsOf(c)) /\ EscrowsOf(c) \subseteq DOMAIN escrowContracts
      <4>1. IsFiniteSet(DOMAIN escrowContracts)
        BY ContractsAreFinite
      <4>2. EscrowsOf(c) \subseteq DOMAIN escrowContracts
        BY DEF EscrowsOf
      <4> QED BY <4>1, <4>2, FS_Subset
    <3>2. \A d \in EscrowsOf(c) : EscrowAmounts[d] \in Int
      BY <3>1 DEF EscrowAmounts, BankIInv, EscrowInv
    <3>3. SumOver(EscrowAmounts, EscrowsOf(c))
            = SumOver(EscrowAmounts, EscrowsOf(c) \ {e}) + EscrowAmounts[e]
      BY <2>1, <3>1, <3>2, SumOfRest
    <3>4. /\ \A d \in EscrowsOf(c) \ {e} : EscrowAmounts'[d] = EscrowAmounts[d]
          /\ EscrowAmounts[e] = n
      BY <1>6, <3>1 DEF EscrowAmounts
    <3>5. IsFiniteSet(EscrowsOf(c) \ {e})
      BY <3>1, FS_Subset
    <3>6. SumOver(EscrowAmounts', EscrowsOf(c) \ {e}) = SumOver(EscrowAmounts, EscrowsOf(c) \ {e})
      BY <3>4, <3>5, SumOfSame
    <3>7. /\ Escrowed(c) = SumOver(EscrowAmounts, EscrowsOf(c))
          /\ Escrowed(c)' = SumOver(EscrowAmounts', EscrowsOf(c)')
      BY DEF Escrowed, EscrowAmounts
    <3> QED BY <1>8, <3>3, <3>4, <3>6, <3>7
  <2>4. /\ Escrowed(c) \in Int /\ Deposited(c) \in Int /\ Owed(c) \in Int
        /\ Escrowed(c)' \in Int
    BY ClaimsAreNumbers, ClaimsStayNumbers DEF ClaimsTyped
  <2> HIDE DEF n
  <2>5. Escrowed(c)' + Deposited(c)' - Owed(c)' + n = Escrowed(c) + Deposited(c) - Owed(c)
    BY <1>1, <1>7, <2>3, <2>4
  <2>6. free[c] + n <= free'[c]
    BY <1>1, <2>2
  <2> QED BY <1>1, <1>5, <1>7, <2>5, <2>6, WorthStep DEF HoldsAsMuch
<1> QED BY <1>9, <1>10

\* The contracts that others make and settle.
LEMMA ContractCallOfOthers ==
    ASSUME BankIInv, BankIInv', NEW c \in Wallets, NEW o \in Wallets \ {c}, ContractCall(o)
    PROVE  NoLoss(c)
<1>1. Amounts \subseteq Nat /\ Wallets \subseteq Accounts /\ FALSE \in BOOLEAN
      /\ Treasury \in Accounts
  BY CentralBankAssumption, BankAssumption
<1>2. {o, Treasury} \cap ({c} \cup SubAccountsOf(c)) = {}
  BY OwnSubAccounts
<1>3. ASSUME NEW d \in Wallets, NEW n \in Amounts, create_escrow(o, d, n)
      PROVE  NoLoss(c)
  <2> DEFINE r == [depositor |-> o, counterparty |-> d, amount |-> n, status |-> "Locked"]
  <2>1. /\ transfer(o, Treasury, n, FALSE)
        /\ escrowContracts' = Put(escrowContracts, nextEscrowId, r) /\ r.depositor = o
        /\ UNCHANGED <<loans, deposits, cards>>
    BY <1>3 DEF create_escrow, Pay
  <2> HIDE DEF r
  <2>2. HoldsAsMuch(c)
    BY <1>1, <1>2, <2>1, OthersPay
  <2>3. /\ DOMAIN escrowContracts' = DOMAIN escrowContracts \cup {nextEscrowId}
        /\ escrowContracts'[nextEscrowId] = r
        /\ \A e \in DOMAIN escrowContracts :
              e # nextEscrowId => escrowContracts'[e] = escrowContracts[e]
        /\ nextEscrowId \notin DOMAIN escrowContracts
    BY <2>1 DEF Put, BankIInv, EscrowInv
  <2>4. Escrowed(c)' = Escrowed(c)
    BY <2>1, <2>3, SameEscrows DEF EscrowsOf
  <2>5. ClaimsKept(c)
    BY <2>1, <2>4 DEF ClaimsKept, loans, deposits, cards, Deposited, DepositsOf, Owed, LoansOf
  <2> QED BY <2>2, <2>5, NothingTaken
<1>4. ASSUME NEW e \in 0 .. MaxEscrows - 1, release_escrow(o, e) \/ refund_escrow(o, e)
      PROVE  NoLoss(c)
  <2>1. e \in DOMAIN escrowContracts
    BY <1>4 DEF release_escrow, refund_escrow, CanSettle
  <2>2. escrowContracts[e].depositor \in Wallets /\ escrowContracts[e].counterparty \in Wallets
    BY <2>1 DEF BankIInv, EscrowInv
  <2>3. CASE release_escrow(o, e)
    BY <2>1, <2>2, <2>3, SettledForOwner DEF release_escrow
  <2>4. CASE refund_escrow(o, e)
    BY <2>1, <2>2, <2>4, SettledForOwner DEF refund_escrow, RefundPayee
  <2> QED BY <1>4, <2>3, <2>4
<1>5. ASSUME NEW n \in Amounts, NEW d \in Durations, open_time_deposit(o, n, d)
      PROVE  NoLoss(c)
  <2> DEFINE r == [depositor |-> o, amount |-> n, interest_rate_bps |-> ANNUAL_RATE_BPS,
                   opened_at |-> now, maturity_block |-> now + d, status |-> "Active"]
  <2>1. /\ transfer(o, Treasury, n, FALSE)
        /\ timeDeposits' = Put(timeDeposits, nextTimeDepositId, r) /\ r.depositor = o
        /\ UNCHANGED <<loans, escrows, cards>>
    BY <1>5 DEF open_time_deposit, Pay
  <2> HIDE DEF r
  <2>2. HoldsAsMuch(c)
    BY <1>1, <1>2, <2>1, OthersPay
  <2>3. /\ DOMAIN timeDeposits' = DOMAIN timeDeposits \cup {nextTimeDepositId}
        /\ timeDeposits'[nextTimeDepositId] = r
        /\ \A e \in DOMAIN timeDeposits :
              e # nextTimeDepositId => timeDeposits'[e] = timeDeposits[e]
        /\ nextTimeDepositId \notin DOMAIN timeDeposits
    BY <2>1 DEF Put, BankIInv, DepositInv
  <2>4. Deposited(c)' = Deposited(c)
    BY <2>1, <2>3, SameDeposits DEF DepositsOf
  <2>5. ClaimsKept(c)
    BY <2>1, <2>4 DEF ClaimsKept, loans, escrows, cards, Escrowed, EscrowsOf, Owed, LoansOf
  <2> QED BY <2>2, <2>5, NothingTaken
<1>6. ASSUME NEW d \in 0 .. MaxDeposits - 1, claim_time_deposit(o, d)
      PROVE  NoLoss(c)
  <2> DEFINE total == timeDeposits[d].amount + Interest(timeDeposits[d])
  <2>1. /\ d \in DOMAIN timeDeposits /\ timeDeposits[d].depositor = o
        /\ transfer(Treasury, o, total, FALSE)
        /\ timeDeposits' = [timeDeposits EXCEPT ![d].status = "Claimed"]
        /\ UNCHANGED <<loans, escrows, cards>>
    BY <1>6 DEF claim_time_deposit, Pay
  <2>2. timeDeposits[d] \in TimeDeposit
    BY <2>1 DEF BankIInv, DepositInv
  <2>3. total \in Nat
    <3>1. timeDeposits[d].amount \in Nat /\ Interest(timeDeposits[d]) \in Nat
      BY <2>2, InterestType DEF TimeDeposit
    <3> QED BY <3>1
  <2> HIDE DEF total
  <2>4. HoldsAsMuch(c)
    BY <1>1, <1>2, <2>1, <2>3, OthersPay
  <2>5. /\ DOMAIN timeDeposits' = DOMAIN timeDeposits
        /\ timeDeposits'[d].depositor = o
        /\ \A e \in DOMAIN timeDeposits : e # d => timeDeposits'[e] = timeDeposits[e]
    BY <2>1, <2>2 DEF TimeDeposit
  <2>6. Deposited(c)' = Deposited(c)
    BY <2>1, <2>5, SameDeposits DEF DepositsOf
  <2>7. ClaimsKept(c)
    BY <2>1, <2>6 DEF ClaimsKept, loans, escrows, cards, Escrowed, EscrowsOf, Owed, LoansOf
  <2> QED BY <2>4, <2>7, NothingTaken
<1> QED BY <1>3, <1>4, <1>5, <1>6 DEF ContractCall

\* The cards of others and the money they move.
LEMMA CardAndMoneyOfOthers ==
    ASSUME BankIInv, NEW c \in Wallets, NEW o \in Wallets \ {c}, CardCall(o) \/ MoneyCall(o)
    PROVE  HoldsAsMuch(c) /\ ClaimsKept(c)
<1>1. /\ Amounts \subseteq Nat /\ CardAmounts \subseteq Nat /\ Wallets \subseteq Accounts
      /\ Payees \subseteq Accounts /\ Treasury \in Accounts /\ TRUE \in BOOLEAN
  BY CentralBankAssumption, BankAssumption
<1>2. PICK src \in {o, Treasury}, dst \in Accounts, n \in Nat, keepAlive \in BOOLEAN :
          transfer(src, dst, n, keepAlive)
  BY <1>1 DEF CardCall, MoneyCall, lock_collateral, repay_cash_advance, unlock_collateral,
              claim_cash_advance, fund_treasury, UserTransfer, Pay
<1>3. src \in Accounts /\ src \notin {c} \cup SubAccountsOf(c)
  BY <1>1, OwnSubAccounts
<1>4. HoldsAsMuch(c)
  BY <1>2, <1>3, OthersPay
<1>5. UNCHANGED <<loans, escrows, deposits>>
  BY DEF CardCall, MoneyCall, lock_collateral, repay_cash_advance, unlock_collateral,
         claim_cash_advance, fund_treasury, bankVars
<1>6. collateralBalances'[c] = collateralBalances[c]
  <2>1. \/ collateralBalances' = collateralBalances
        \/ \E n2 \in Int : collateralBalances' = [collateralBalances EXCEPT ![o] = @ + n2]
        \/ \E n2 \in Int : collateralBalances' = [collateralBalances EXCEPT ![o] = SatSub(@, n2)]
    <3>1. \A m \in CardAmounts : lock_collateral(o, m) =>
             collateralBalances' = [collateralBalances EXCEPT ![o] = @ + m]
      BY DEF lock_collateral
    <3>2. \A m \in CardAmounts, k \in Nonces : unlock_collateral(o, m, k) =>
             collateralBalances' = [collateralBalances EXCEPT ![o] = SatSub(@, m)]
      BY DEF unlock_collateral
    <3>3. \A m \in CardAmounts, k \in Nonces :
             repay_cash_advance(o, m) \/ claim_cash_advance(o, m, k)
                => collateralBalances' = collateralBalances
      BY DEF repay_cash_advance, claim_cash_advance, bankVars, cards
    <3>4. MoneyCall(o) => collateralBalances' = collateralBalances
      BY DEF MoneyCall, fund_treasury, bankVars, cards
    <3>5. \A m \in CardAmounts : repay_cash_advance(o, m)
                => collateralBalances' = collateralBalances
      BY DEF repay_cash_advance, bankVars, cards
    <3>6. CardAmounts \subseteq Int
      BY <1>1
    <3> QED BY <3>1, <3>2, <3>3, <3>4, <3>5, <3>6 DEF CardCall
  <2> QED BY <1>1, <2>1 DEF BankIInv, CardInv
<1>7. ClaimsKept(c)
  BY <1>5, <1>6 DEF ClaimsKept, loans, escrows, deposits, Escrowed, EscrowsOf, Deposited,
                    DepositsOf, Owed, LoansOf
<1> QED BY <1>4, <1>7

\* An approval pays out what it books as debt.
LEMMA ApprovalIsPaidOut ==
    ASSUME BankIInv, BankIInv', NEW c \in Wallets, NEW l \in 0 .. MaxLoans - 1, approve_loan(l)
    PROVE  NoLoss(c)
<1> DEFINE n == loanRequests[l].amount
           b == loanRequests[l].borrower
           active == LoansOf(c, {"Active"})
<1>1. /\ l \in DOMAIN loanRequests /\ loanRequests[l].status = "Pending"
      /\ transfer(Treasury, b, n, TRUE)
      /\ loanRequests' = [loanRequests EXCEPT ![l].status = "Active"]
      /\ UNCHANGED <<escrows, deposits, cards>>
  BY DEF approve_loan, CanApprove, Pay
<1>2. loanRequests[l] \in LoanRecord /\ loanRequests[l].outstanding_balance = n
  BY <1>1 DEF BankIInv, LoanInv, Outstanding
<1>3. n \in Nat /\ b \in Wallets
  BY <1>2 DEF LoanRecord
<1>4. /\ DOMAIN loanRequests' = DOMAIN loanRequests
      /\ loanRequests'[l].status = "Active" /\ loanRequests'[l].borrower = b
      /\ loanRequests'[l].outstanding_balance = n
      /\ \A m \in DOMAIN loanRequests : m # l => loanRequests'[m] = loanRequests[m]
  BY <1>1, <1>2 DEF LoanRecord
<1>5. Treasury \in Accounts /\ b \in Accounts \ {Treasury} /\ TRUE \in BOOLEAN
      /\ c \in Accounts
  BY <1>3, BankAssumption, CentralBankAssumption
<1> HIDE DEF n, b
<1>6. HoldsAsMuch(c)
  BY <1>1, <1>3, <1>5, OthersPay, OwnSubAccounts
<1>7. Escrowed(c)' = Escrowed(c) /\ Deposited(c)' = Deposited(c)
      /\ collateralBalances'[c] = collateralBalances[c]
  BY <1>1 DEF escrows, deposits, cards, Escrowed, EscrowsOf, Deposited, DepositsOf
<1>8. l \notin active
  BY <1>1 DEF LoansOf
<1>9. IsFiniteSet(active) /\ active \subseteq DOMAIN loanRequests
  <2>1. IsFiniteSet(DOMAIN loanRequests)
    BY ContractsAreFinite
  <2>2. active \subseteq DOMAIN loanRequests
    BY DEF LoansOf
  <2> HIDE DEF active
  <2> QED BY <2>1, <2>2, FS_Subset
<1>10. CASE b # c
  <2>1. active' = active
    BY <1>1, <1>4, <1>10 DEF LoansOf
  <2>2. Owed(c)' = Owed(c)
    BY <1>4, <1>8, <1>9, <2>1, SameDebts
  <2> QED BY <1>6, <1>7, <2>2, NothingTaken DEF ClaimsKept
<1>11. CASE b = c
  <2>1. active' = active \cup {l}
    BY <1>1, <1>4, <1>11 DEF LoansOf
  <2>2. free'[c] = free[c] + n /\ free[c] \in Nat
    <3>1. LedgerTypeOK
      BY DEF BankIInv, IInv, TypeOK
    <3>2. free'[b] = free[b] + n
      BY <1>1, <1>3, <1>5, <3>1, PayGives
    <3> QED BY <1>5, <1>11, <3>1, <3>2 DEF LedgerTypeOK
  <2>3. Owed(c)' = Owed(c) + n
    <3>1. /\ \A m \in active : Debts'[m] = Debts[m]
          /\ Debts'[l] = n
      BY <1>1, <1>4, <1>8, <1>9 DEF Debts
    <3>2. \A m \in active : Debts[m] \in Int
      BY <1>9 DEF Debts, BankIInv, LoanInv, LoanRecord
    <3>3. /\ Owed(c) = SumOver(Debts, active)
          /\ Owed(c)' = SumOver(Debts', active')
      BY DEF Owed, Debts
    <3> HIDE DEF active
    <3>4. SumOver(Debts', active) = SumOver(Debts, active)
      BY <1>9, <3>1, SumOfSame
    <3>5. SumOver(Debts', active \cup {l}) = SumOver(Debts', active) + Debts'[l]
      BY <1>3, <1>8, <1>9, <3>1, <3>2, SumOfOneMore
    <3> QED BY <2>1, <3>1, <3>3, <3>4, <3>5
  <2>4. Escrowed(c) \in Int /\ Deposited(c) \in Int /\ Owed(c) \in Int
    BY ClaimsAreNumbers DEF ClaimsTyped
  <2>5. Escrowed(c)' + Deposited(c)' - Owed(c)' + n = Escrowed(c) + Deposited(c) - Owed(c)
    BY <1>3, <1>7, <2>3, <2>4
  <2>6. free[c] + n <= free'[c]
    BY <1>3, <2>2
  <2> QED BY <1>3, <1>6, <1>7, <2>5, <2>6, WorthStep DEF HoldsAsMuch
<1> QED BY <1>10, <1>11

\* The Central Bank mints, lends and distributes; it takes from licence holders,
\* from those who repay, and from the two accounts that pay for M0.
LEMMA OthersIssue ==
    ASSUME BankIInv, NEW c \in Wallets \ {Creator, CentralBankAccount},
           ({c} \cup SubAccountsOf(c)) \cap licensedOperators = {},
           \/ CentralBankNext /\ ~CreditCall(c)
           \/ \E n \in Amounts : borrow_wholesale(n)
           \/ \E e \in EpochIds, n \in Amounts : repay_wholesale(e, n)
    PROVE  HoldsAsMuch(c)
<1> DEFINE mine == {c} \cup SubAccountsOf(c)
<1>1. /\ mine \subseteq Accounts \ {Treasury} /\ SubAccountsOf(c) \cap Wallets = {}
      /\ CentralBankAccount \notin mine /\ Creator \notin mine
  BY OwnSubAccounts
<1>2. /\ \A a \in Accounts : free[a] \in Nat
      /\ free \in [Accounts -> Nat]
  BY DEF BankIInv, IInv, TypeOK, LedgerTypeOK
<1>3. /\ Wallets \subseteq Accounts /\ Operators \subseteq Accounts /\ Amounts \subseteq Nat
      /\ GenesisGrant \in Nat /\ Treasury \in Accounts
  BY CentralBankAssumption, BankAssumption
<1> HIDE DEF mine
<1>4. ASSUME NEW who \in Accounts, NEW n \in Nat, deposit_creating(who, n)
      PROVE  \A a \in mine : free[a] <= free'[a]
  BY <1>1, <1>2, <1>4 DEF deposit_creating, Credited
<1>5. ASSUME NEW who \in Accounts \ mine, NEW n \in Nat, withdraw(who, n)
      PROVE  \A a \in mine : free[a] <= free'[a]
  BY <1>1, <1>2, <1>5 DEF withdraw
<1>6. ASSUME UNCHANGED free
      PROVE  \A a \in mine : free[a] <= free'[a]
  BY <1>1, <1>2, <1>6
<1>7. CASE CentralBankNext /\ ~CreditCall(c)
  <2>1. ASSUME NEW op \in Operators, grant_operator_license(op) \/ revoke_operator_license(op)
        PROVE  \A a \in mine : free[a] <= free'[a]
    BY <1>6, <2>1 DEF grant_operator_license, revoke_operator_license, ledger
  <2>2. ASSUME NEW op \in Operators, NEW n \in Amounts, mint_to_operator(op, n)
        PROVE  \A a \in mine : free[a] <= free'[a]
    BY <1>3, <1>4, <2>2 DEF mint_to_operator
  <2>3. ASSUME NEW op \in Operators, NEW n \in Amounts, burn(op, n)
        PROVE  \A a \in mine : free[a] <= free'[a]
    <3>1. op \notin mine
      BY <2>3 DEF burn, mine
    <3> QED BY <1>3, <1>5, <2>3, <3>1 DEF burn
  <2>4. ASSUME NEW rate \in BaseRates, set_base_rate(rate)
        PROVE  \A a \in mine : free[a] <= free'[a]
    BY <1>6, <2>4 DEF set_base_rate, ledger
  <2>5. ASSUME transition_epoch
        PROVE  \A a \in mine : free[a] <= free'[a]
    BY <1>6, <2>5 DEF transition_epoch, do_epoch_transition, ledger
  <2>6. ASSUME NEW op \in Wallets, NEW n \in Amounts, request_credit(op, n)
        PROVE  \A a \in mine : free[a] <= free'[a]
    BY <1>3, <1>4, <2>6 DEF request_credit, do_request_credit
  <2>7. ASSUME NEW op \in Wallets, NEW e \in EpochIds, NEW n \in Amounts, repay_credit(op, e, n)
        PROVE  \A a \in mine : free[a] <= free'[a]
    <3>1. op # c
      BY <1>7, <2>7 DEF CreditCall
    <3>2. op \notin mine
      BY <1>1, <3>1 DEF mine
    <3> QED BY <1>3, <1>5, <2>7, <3>2 DEF repay_credit, do_repay_credit
  <2>8. ASSUME trigger_genesis_distribution
        PROVE  \A a \in mine : free[a] <= free'[a]
    <3>1. free' = FreeAfterDistribution /\ \A p \in PureAccounts : ShareOf(p) \in Nat
      BY <2>8, SharesAreNatural DEF trigger_genesis_distribution
    <3>2. \A a \in mine :
             free'[a] = IF a \in PureAccounts THEN free[a] + ShareOf(a) ELSE free[a]
      BY <1>1, <3>1 DEF FreeAfterDistribution
    <3> QED BY <1>1, <1>2, <3>1, <3>2
  <2>9. ASSUME NEW o \in Wallets, NEW r \in Regions, issue_genesis_grant(o, r)
        PROVE  \A a \in mine : free[a] <= free'[a]
    BY <1>3, <1>4, <2>9 DEF issue_genesis_grant
  <2>10. \A a \in mine : free[a] <= free'[a]
    BY <1>7, <2>1, <2>2, <2>3, <2>4, <2>5, <2>6, <2>7, <2>8, <2>9 DEF CentralBankNext
  <2> QED BY <2>10 DEF HoldsAsMuch, mine
<1>8. CASE \E n \in Amounts : borrow_wholesale(n)
  <2>1. \A a \in mine : free[a] <= free'[a]
    BY <1>3, <1>4, <1>8 DEF borrow_wholesale, do_request_credit
  <2> QED BY <2>1 DEF HoldsAsMuch, mine
<1>9. CASE \E e \in EpochIds, n \in Amounts : repay_wholesale(e, n)
  <2>1. \A a \in mine : free[a] <= free'[a]
    BY <1>1, <1>3, <1>5, <1>9 DEF repay_wholesale, do_repay_credit
  <2> QED BY <2>1 DEF HoldsAsMuch, mine
<1> QED BY <1>7, <1>8, <1>9

\* Whatever a step takes from c, c has signed.
OnlyOwnCallsTake ==
    \A c \in Wallets \ {Creator, CentralBankAccount} :
        /\ ({c} \cup SubAccountsOf(c)) \cap licensedOperators = {}
        /\ NetWorth(c)' < NetWorth(c)
        => SignedBy(c) \/ CreditCall(c)

\* A step that c did not sign takes nothing from c.
LEMMA StepTakesNothing ==
    ASSUME BankIInv, BankIInv', BankNext, NEW c \in Wallets \ {Creator, CentralBankAccount},
           ({c} \cup SubAccountsOf(c)) \cap licensedOperators = {},
           ~SignedBy(c), ~CreditCall(c)
    PROVE  NoLoss(c)
<1>1. ASSUME NEW o \in Wallets, SignedBy(o)
      PROVE  NoLoss(c)
  <2>1. o \in Wallets \ {c}
    BY <1>1
  <2> QED BY <1>1, <2>1, AccountCallOfOthers, LoanCallOfOthers, ContractCallOfOthers,
             CardAndMoneyOfOthers, NothingTaken DEF SignedBy
<1>2. CASE OfficerCall
  <2>1. ASSUME NEW key \in ServerKeys, set_bank_server_key(key)
        PROVE  NoLoss(c)
    <3>1. UNCHANGED <<free, loans, escrows, deposits, collateralBalances>>
      BY <2>1 DEF set_bank_server_key, vars, ledger
    <3> QED BY <3>1, MoneyStays, BooksStay, NothingTaken
  <2>2. ASSUME \/ \E n \in Amounts : borrow_wholesale(n)
               \/ \E e \in EpochIds, n \in Amounts : repay_wholesale(e, n)
        PROVE  NoLoss(c)
    <3>1. UNCHANGED <<loans, escrows, deposits, collateralBalances>>
      BY <2>2 DEF borrow_wholesale, repay_wholesale, bankVars, cards
    <3> QED BY <2>2, <3>1, OthersIssue, BooksStay, NothingTaken
  <2> QED BY <1>2, <2>1, <2>2, ApprovalIsPaidOut DEF OfficerCall
<1>3. CASE CentralBankNext /\ UNCHANGED bankVars
  <2>1. UNCHANGED <<loans, escrows, deposits, collateralBalances>>
    BY <1>3 DEF bankVars, cards
  <2> QED BY <1>3, <2>1, OthersIssue, BooksStay, NothingTaken
<1>4. CASE NextBlock
  <2>1. UNCHANGED <<free, loans, escrows, deposits, collateralBalances>>
    BY <1>4 DEF NextBlock, vars, ledger, cards
  <2> QED BY <2>1, MoneyStays, BooksStay, NothingTaken
<1> QED BY <1>1, <1>2, <1>3, <1>4 DEF BankNext

(***************************************************************************)
(* The net worth of a citizen falls only by a call the citizen signed: not *)
(* by the calls of other citizens and of officers, by approvals, refunds   *)
(* and the wholesale window on the treasury that all claims share, nor by  *)
(* the Central Bank's calls.                                               *)
(***************************************************************************)
THEOREM NobodyElseTakes == BankSpec => OthersCannotTake
<1>1. BankIInv /\ [BankNext]_allVars => BankIInv' /\ [OnlyOwnCallsTake]_allVars
  <2> SUFFICES ASSUME BankIInv, [BankNext]_allVars
               PROVE  BankIInv' /\ [OnlyOwnCallsTake]_allVars
    OBVIOUS
  <2>1. BankIInv'
    BY BankStepInv
  <2>2. CASE BankNext
    BY <2>1, <2>2, StepTakesNothing DEF OnlyOwnCallsTake, NoLoss
  <2>3. CASE UNCHANGED allVars
    BY <2>1, <2>3
  <2> QED BY <2>2, <2>3
<1>2. BankSpec => [][OnlyOwnCallsTake]_allVars
  BY <1>1, BankInitInv, PTL DEF BankSpec
<1> QED BY <1>2 DEF OthersCannotTake, OnlyOwnCallsTake

-----------------------------------------------------------------------------
(* Contracts are paid once                                                 *)

\* What a step may do to a contract, and what it pays.
SettlesOnce ==
    \A e \in DOMAIN escrowContracts :
        LET old == escrowContracts[e]
            new == escrowContracts'[e]
            payee == IF new.status = "Released" THEN old.counterparty ELSE old.depositor
        IN  \/ /\ new = old
               /\ old.status # "Locked" =>
                     ~ \E c \in Wallets : release_escrow(c, e) \/ refund_escrow(c, e)
            \/ /\ old.status = "Locked"
               /\ new = [old EXCEPT !.status = new.status]
               /\ free'[payee] = free[payee] + old.amount

PaysOnce ==
    \A d \in DOMAIN timeDeposits :
        LET old == timeDeposits[d]
        IN  timeDeposits'[d] # old =>
               /\ old.status = "Active"
               /\ now >= old.maturity_block
               /\ timeDeposits'[d] = [old EXCEPT !.status = "Claimed"]
               /\ free'[old.depositor] >= free[old.depositor] + old.amount

\* The contracts of one kind move only in the calls for them.
LEMMA WhoMovesContracts ==
    ASSUME [BankNext]_allVars
    PROVE  /\ \/ UNCHANGED escrowContracts
              \/ \E c, d \in Wallets, n \in Amounts : create_escrow(c, d, n)
              \/ \E c \in Wallets, e \in 0 .. MaxEscrows - 1 :
                    release_escrow(c, e) \/ refund_escrow(c, e)
           /\ \/ UNCHANGED timeDeposits
              \/ \E c \in Wallets, n \in Amounts, d \in Durations : open_time_deposit(c, n, d)
              \/ \E c \in Wallets, d \in 0 .. MaxDeposits - 1 : claim_time_deposit(c, d)
<1>1. ASSUME NEW c \in Wallets, AccountCall(c) \/ LoanCall(c) \/ CardCall(c) \/ MoneyCall(c)
      PROVE  UNCHANGED <<escrowContracts, timeDeposits>>
  <2>1. CASE AccountCall(c)
    BY <2>1 DEF AccountCall, open_master_account, open_sub_account, close_sub_account,
                withdraw_from_savings, escrows, deposits
  <2>2. CASE LoanCall(c)
    BY <2>2 DEF LoanCall, request_loan, cancel_loan_request, pay_credit, escrows, deposits
  <2>3. CASE CardCall(c) \/ MoneyCall(c)
    BY <2>3 DEF CardCall, MoneyCall, lock_collateral, repay_cash_advance, unlock_collateral,
                claim_cash_advance, fund_treasury, bankVars, escrows, deposits
  <2> QED BY <1>1, <2>1, <2>2, <2>3
<1>2. CASE OfficerCall
  BY <1>2 DEF OfficerCall, approve_loan, set_bank_server_key, borrow_wholesale, repay_wholesale,
              bankVars, escrows, deposits
<1>3. CASE (CentralBankNext /\ UNCHANGED bankVars) \/ NextBlock \/ UNCHANGED allVars
  BY <1>3 DEF NextBlock, allVars, bankVars, escrows, deposits
<1>4. ASSUME NEW c \in Wallets, ContractCall(c)
      PROVE  /\ \/ UNCHANGED escrowContracts
                \/ \E d \in Wallets, n \in Amounts : create_escrow(c, d, n)
                \/ \E e \in 0 .. MaxEscrows - 1 : release_escrow(c, e) \/ refund_escrow(c, e)
             /\ \/ UNCHANGED timeDeposits
                \/ \E n \in Amounts, d \in Durations : open_time_deposit(c, n, d)
                \/ \E d \in 0 .. MaxDeposits - 1 : claim_time_deposit(c, d)
  <2>1. ASSUME \/ \E n \in Amounts, d \in Durations : open_time_deposit(c, n, d)
               \/ \E d \in 0 .. MaxDeposits - 1 : claim_time_deposit(c, d)
        PROVE  UNCHANGED escrowContracts
    BY <2>1 DEF open_time_deposit, claim_time_deposit, escrows
  <2>2. ASSUME \/ \E d \in Wallets, n \in Amounts : create_escrow(c, d, n)
               \/ \E e \in 0 .. MaxEscrows - 1 : release_escrow(c, e) \/ refund_escrow(c, e)
        PROVE  UNCHANGED timeDeposits
    BY <2>2 DEF create_escrow, release_escrow, refund_escrow, SettleEscrow, deposits
  <2> QED BY <1>4, <2>1, <2>2 DEF ContractCall
<1> QED BY <1>1, <1>2, <1>3, <1>4 DEF BankNext, SignedBy

\* An escrow leaves Locked once, for the party that its new status names.
LEMMA EscrowsSettleOnce ==
    ASSUME BankIInv, [BankNext]_allVars
    PROVE  SettlesOnce
<1> SUFFICES ASSUME NEW e \in DOMAIN escrowContracts
             PROVE  LET old == escrowContracts[e]
                        new == escrowContracts'[e]
                        payee == IF new.status = "Released" THEN old.counterparty
                                 ELSE old.depositor
                    IN  \/ /\ new = old
                           /\ old.status # "Locked" =>
                                 ~ \E c \in Wallets : release_escrow(c, e) \/ refund_escrow(c, e)
                        \/ /\ old.status = "Locked"
                           /\ new = [old EXCEPT !.status = new.status]
                           /\ free'[payee] = free[payee] + old.amount
  BY DEF SettlesOnce
<1>1. escrowContracts[e].status # "Locked" =>
         ~ \E c \in Wallets : release_escrow(c, e) \/ refund_escrow(c, e)
  BY DEF release_escrow, refund_escrow, CanSettle
<1>2. CASE escrowContracts'[e] = escrowContracts[e]
  BY <1>1, <1>2
<1>3. ASSUME NEW f \in 0 .. MaxEscrows - 1, NEW payee \in Wallets,
             NEW status \in {"Released", "Refunded"}, SettleEscrow(f, payee, status),
             payee = IF status = "Released" THEN escrowContracts[f].counterparty
                     ELSE escrowContracts[f].depositor
      PROVE  \/ escrowContracts'[e] = escrowContracts[e]
             \/ /\ e = f /\ escrowContracts[e].status = "Locked"
                /\ escrowContracts'[e] = [escrowContracts[e] EXCEPT !.status = status]
                /\ escrowContracts'[e].status = status
                /\ free'[payee] = free[payee] + escrowContracts[e].amount
  <2>1. /\ f \in DOMAIN escrowContracts /\ escrowContracts[f].status = "Locked"
        /\ transfer(Treasury, payee, escrowContracts[f].amount, FALSE)
        /\ escrowContracts' = [escrowContracts EXCEPT ![f].status = status]
    BY <1>3 DEF SettleEscrow, CanSettle, Pay
  <2>2. /\ escrowContracts[f] \in [depositor : Wallets, counterparty : Wallets,
                                   amount : Nat \ {0}, status : {"Locked", "Released", "Refunded"}]
        /\ escrowContracts[f].amount \in Nat
    BY <2>1 DEF BankIInv, EscrowInv
  <2>3. LedgerTypeOK /\ Treasury \in Accounts /\ payee \in Accounts \ {Treasury}
        /\ FALSE \in BOOLEAN
    BY BankAssumption, CentralBankAssumption DEF BankIInv, IInv, TypeOK
  <2> DEFINE v == escrowContracts[f].amount
  <2>4. v \in Nat /\ transfer(Treasury, payee, v, FALSE)
    BY <2>1, <2>2
  <2> HIDE DEF v
  <2>5. free'[payee] = free[payee] + v
    BY <2>3, <2>4, PayGives
  <2> QED BY <2>1, <2>2, <2>5 DEF v
<1>4. ASSUME NEW c \in Wallets, NEW f \in 0 .. MaxEscrows - 1,
             release_escrow(c, f) \/ refund_escrow(c, f),
             escrowContracts'[e] # escrowContracts[e]
      PROVE  LET old == escrowContracts[e]
                 new == escrowContracts'[e]
                 payee == IF new.status = "Released" THEN old.counterparty ELSE old.depositor
             IN  /\ old.status = "Locked"
                 /\ new = [old EXCEPT !.status = new.status]
                 /\ free'[payee] = free[payee] + old.amount
  <2>1. escrowContracts[f].depositor \in Wallets /\ escrowContracts[f].counterparty \in Wallets
    BY <1>4 DEF release_escrow, refund_escrow, CanSettle, BankIInv, EscrowInv
  <2>2. CASE release_escrow(c, f)
    BY <1>3, <1>4, <2>1, <2>2 DEF release_escrow
  <2>3. CASE refund_escrow(c, f)
    BY <1>3, <1>4, <2>1, <2>3 DEF refund_escrow, RefundPayee
  <2> QED BY <1>4, <2>2, <2>3
<1>5. ASSUME NEW c \in Wallets, NEW d \in Wallets, NEW n \in Amounts, create_escrow(c, d, n)
      PROVE  escrowContracts'[e] = escrowContracts[e]
  <2>1. e # nextEscrowId
    BY DEF BankIInv, EscrowInv
  <2> QED BY <1>5, <2>1 DEF create_escrow, Put
<1> QED BY <1>2, <1>4, <1>5, WhoMovesContracts

\* A time deposit is paid once, not before it matures, and in full.
LEMMA DepositsPayOnce ==
    ASSUME BankIInv, [BankNext]_allVars
    PROVE  PaysOnce
<1> SUFFICES ASSUME NEW d \in DOMAIN timeDeposits, timeDeposits'[d] # timeDeposits[d]
             PROVE  /\ timeDeposits[d].status = "Active"
                    /\ now >= timeDeposits[d].maturity_block
                    /\ timeDeposits'[d] = [timeDeposits[d] EXCEPT !.status = "Claimed"]
                    /\ free'[timeDeposits[d].depositor]
                          >= free[timeDeposits[d].depositor] + timeDeposits[d].amount
  BY DEF PaysOnce
<1>1. ASSUME NEW c \in Wallets, NEW n \in Amounts, NEW k \in Durations, open_time_deposit(c, n, k)
      PROVE  FALSE
  <2>1. d # nextTimeDepositId
    BY DEF BankIInv, DepositInv
  <2> QED BY <1>1, <2>1 DEF open_time_deposit, Put
<1>2. PICK c \in Wallets, k \in 0 .. MaxDeposits - 1 : claim_time_deposit(c, k)
  BY <1>1, WhoMovesContracts
<1> DEFINE total == timeDeposits[k].amount + Interest(timeDeposits[k])
<1>3. /\ k \in DOMAIN timeDeposits /\ timeDeposits[k].depositor = c
      /\ timeDeposits[k].status = "Active" /\ now >= timeDeposits[k].maturity_block
      /\ transfer(Treasury, c, total, FALSE)
      /\ timeDeposits' = [timeDeposits EXCEPT ![k].status = "Claimed"]
  BY <1>2 DEF claim_time_deposit, Matured, Pay
<1>4. d = k
  BY <1>3
<1>5. timeDeposits[d].amount \in Nat /\ Interest(timeDeposits[d]) \in Nat
  <2>1. timeDeposits[d] \in TimeDeposit
    BY DEF BankIInv, DepositInv
  <2> QED BY <2>1, InterestType DEF TimeDeposit
<1>6. total \in Nat /\ total >= timeDeposits[d].amount
  BY <1>4, <1>5
<1> HIDE DEF total
<1>7. LedgerTypeOK /\ Treasury \in Accounts /\ c \in Accounts \ {Treasury} /\ FALSE \in BOOLEAN
  BY BankAssumption, CentralBankAssumption DEF BankIInv, IInv, TypeOK
<1>8. free'[c] = free[c] + total /\ free[c] \in Nat
  <2>1. free'[c] = free[c] + total
    BY <1>3, <1>6, <1>7, PayGives
  <2> QED BY <1>7, <2>1 DEF LedgerTypeOK
<1>9. free'[timeDeposits[d].depositor] >= free[timeDeposits[d].depositor] + timeDeposits[d].amount
  BY <1>3, <1>4, <1>5, <1>6, <1>8
<1> QED BY <1>3, <1>4, <1>9

(***************************************************************************)
(* However the calls of depositors, sellers and everybody else interleave, *)
(* an escrow is settled once, in favour of the party its status names, and *)
(* a time deposit is claimed once, matured and with no less than the       *)
(* principal.                                                              *)
(***************************************************************************)
THEOREM ContractsArePaidOnce == BankSpec => ContractsPayOnce
<1>1. BankIInv /\ [BankNext]_allVars => BankIInv' /\ [SettlesOnce]_allVars /\ [PaysOnce]_allVars
  BY BankStepInv, EscrowsSettleOnce, DepositsPayOnce
<1>2. BankSpec => [][SettlesOnce]_allVars /\ [][PaysOnce]_allVars
  BY <1>1, BankInitInv, PTL DEF BankSpec
<1>3. BankSpec => EscrowSettlesOnce
  BY <1>2 DEF EscrowSettlesOnce, SettlesOnce
<1>4. BankSpec => DepositPaysOnce
  BY <1>2 DEF DepositPaysOnce, PaysOnce
<1> QED BY <1>3, <1>4 DEF ContractsPayOnce
=============================================================================
