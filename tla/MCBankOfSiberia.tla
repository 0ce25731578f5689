-------------------------- MODULE MCBankOfSiberia --------------------------
(***************************************************************************)
(* Instances of BankOfSiberia (with CentralBank) for TLC.  A configuration *)
(* leaves out a line of business by giving no identifiers, nonces, types   *)
(* or amounts to it.  Savings addresses are paid like any other account.   *)
(*                                                                         *)
(* Loans, contracts, and the cards with the wholesale window share the     *)
(* treasury balance, which fund_treasury brings to any value in the first  *)
(* two, and no record: a behaviour exercises one of the three, so that     *)
(* their states add up instead of multiplying.                             *)
(***************************************************************************)
EXTENDS BankOfSiberia

CONSTANTS Paid, Borrowers, WalletHolds, TreasuryHolds

VARIABLE part   \* the line of business of this behaviour

MCAccounts == Wallets \cup {Creator, CentralBankAccount, Treasury} \cup PureAccounts
                      \cup SubAddresses

MCPayees == Paid \cup {sub \in SubAddresses : sub[2] = "Savings"}

MCGenesisFree ==
    [a \in MCAccounts |->
        IF a \in Wallets THEN WalletHolds
        ELSE IF a = Treasury THEN TreasuryHolds ELSE 0]

\* The sub-accounts of this behaviour are those for loans, or the others.
SubAccountsAre(types) == \A sub \in DOMAIN subAccountMeta' : sub[2] \in types

LoanStep ==
    /\ \/ \E c \in Borrowers : AccountCall(c) \/ LoanCall(c) \/ MoneyCall(c)
       \/ \E c \in Officers : MoneyCall(c)
       \/ \E l \in 0 .. MaxLoans - 1 : approve_loan(l)
    /\ SubAccountsAre({"Credit"})

ContractStep ==
    \/ \E c \in Wallets : open_master_account(c) \/ ContractCall(c)
    \/ \E c \in Officers, n \in Amounts : fund_treasury(c, n)
    \/ NextBlock

WholesaleStep ==
    /\ \/ \E c \in Borrowers :
             \/ AccountCall(c) \/ CardCall(c)
             \/ MoneyCall(c) /\ \A a \in Paid : free'[a] = free[a]
       \/ \E key \in ServerKeys : set_bank_server_key(key)
       \/ \E n \in Amounts : borrow_wholesale(n)
       \/ \E e \in EpochIds, n \in Amounts : repay_wholesale(e, n)
       \/ CentralBankNext /\ UNCHANGED bankVars
    /\ SubAccountsAre({"Savings", "Company"})

MCNext ==
    /\ \/ part = "loans" /\ LoanStep
       \/ part = "contracts" /\ ContractStep
       \/ part = "wholesale" /\ WholesaleStep
    /\ UNCHANGED part

MCInit == BankInit /\ part \in {"loans", "contracts", "wholesale"}

MCSpec == MCInit /\ [][MCNext]_<<allVars, part>>

=============================================================================
