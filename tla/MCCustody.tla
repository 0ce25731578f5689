----------------------------- MODULE MCCustody -----------------------------
(***************************************************************************)
(* Instances of the pallets that hold other people's money, for TLC.  They *)
(* work on one ledger but on different accounts, so a behaviour exercises  *)
(* one of them and their states add up instead of multiplying.             *)
(*                                                                         *)
(* JusticeSpec composes the offline pockets and the black book on the same *)
(* citizens.                                                               *)
(***************************************************************************)
EXTENDS BankOperator, SteppeOffline, BlackBook, AltanVault

CONSTANTS
    CustomerHolds, BankHolds, Purse, TreasuryHolds, OwnerHolds,
    Payers, Nonces, IouAmounts   \* who signed IOUs, under which nonces, over how much

\* No account of a bank is another pallet's.
ASSUME CustodyAssumption ==
    BankAccounts \cap (Citizens \cup {StateTreasury} \cup Owners \cup VaultAddresses) = {}

VARIABLE part    \* the pallet this behaviour is about

MCAccounts == Customers \cup BankAccounts \cup Citizens \cup {StateTreasury}
                        \cup Owners \cup VaultAddresses

MCInitialFree ==
    [a \in MCAccounts |->
        CASE a \in Customers -> CustomerHolds
          [] a \in BankAccounts -> BankHolds
          [] a \in Citizens -> Purse
          [] a = StateTreasury -> TreasuryHolds
          [] a \in Owners -> OwnerHolds
          [] OTHER -> 0]

MCNationOf == [c \in Citizens |-> 1]

MCIous == [sender : Payers, nonce : Nonces, amount : IouAmounts]

AnyInit ==
    /\ free = InitialFree
    /\ reserved = [a \in Accounts |-> 0]
    /\ frozen = [a \in Accounts |-> 0]
    /\ issuance = SumOver(InitialFree, Accounts)
    /\ block = 0
    /\ citizens = Registered([c \in Citizens |-> "Regular"])
    /\ OperatorInit
    /\ OfflineInit
    /\ BookInit
    /\ VaultInit

\* Root changes a record, or a citizen spends money.
CitizenStep ==
    \/ \E c \in Citizens : RegistryStep(c) /\ UNCHANGED ledger
    \/ \E src, dst \in Citizens, v \in BountyAmounts :
          transfer(src, dst, v, FALSE) /\ UNCHANGED citizens

MCNext ==
    /\ \/ /\ part = "credits" /\ CreditStep
          /\ UNCHANGED <<citizens, offlineVars, bookVars, vaultVars>>
       \/ /\ part = "pockets" /\ (OfflineStep \/ (CitizenStep /\ UNCHANGED offlineVars))
          /\ UNCHANGED <<block, creditVars, bookVars, vaultVars>>
       \/ /\ part = "bounties" /\ (BountyStep \/ (CitizenStep /\ UNCHANGED <<block, bookVars>>))
          /\ UNCHANGED <<creditVars, offlineVars, vaultVars>>
       \/ /\ part = "vaults" /\ VaultStep
          /\ UNCHANGED <<block, citizens, creditVars, offlineVars, bookVars>>
    /\ UNCHANGED part

MCvars == <<ledger, block, citizens, creditVars, offlineVars, bookVars, vaultVars, part>>

MCInit == AnyInit /\ part \in {"credits", "pockets", "bounties", "vaults"}

MCSpec == MCInit /\ [][MCNext]_MCvars

JusticeNext ==
    /\ \/ OfflineStep /\ UNCHANGED <<block, bookVars>>
       \/ BountyStep /\ UNCHANGED offlineVars
       \/ CitizenStep /\ UNCHANGED <<block, offlineVars, bookVars>>
    /\ UNCHANGED <<creditVars, vaultVars, part>>

JusticeInit == AnyInit /\ part = "justice"

JusticeSpec == JusticeInit /\ [][JusticeNext]_MCvars

-----------------------------------------------------------------------------
(***************************************************************************)
(* The book of collateral and credits agrees with itself, what is issued   *)
(* beyond the initial money is owed, and what the banks earn is interest.  *)
(***************************************************************************)
CreditIsAccounted == CreditBookAgrees /\ CreditIsBorrowed /\ IncomeIsInterest

(***************************************************************************)
(* Pockets are reserves of their owners; there is a pool only for a        *)
(* fugitive at large and a payout only for a captured one.                 *)
(***************************************************************************)
HoldingsAgree == PocketIsReserved /\ BookAgrees

(***************************************************************************)
(* A bounty leaves its pool when it is refunded or vested, and a vault     *)
(* pays its owner what it records.                                         *)
(***************************************************************************)
HoldingsGoToTheirOwners == BountyIsVested /\ VaultPaysItsOwner
=============================================================================
