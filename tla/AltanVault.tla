----------------------------- MODULE AltanVault -----------------------------
(***************************************************************************)
(* pallets/altan-vault: keyless sub-accounts of an owner, one for each     *)
(* index, that pay to the owner and to nobody else.  Anybody may pay in;   *)
(* record_inbound books an amount for the audit and moves nothing.         *)
(***************************************************************************)
EXTENDS AltanBalances, StorageMaps

CONSTANTS
    Owners,              \* accounts that create vaults
    VaultIndices,        \* indices used
    MaxVaultsPerOwner,
    VaultAmounts,        \* amounts paid in, withdrawn and recorded
    MaxRecorded          \* bound on the audit counters of a vault

\* vault_account: one address for each owner and index, nobody's key.
vault_account(owner, vault_index) == <<owner, vault_index>>
VaultAddresses == {vault_account(o, i) : o \in Owners, i \in VaultIndices}

U16 == 0 .. 65535

ASSUME VaultAssumption ==
    /\ Owners \cup VaultAddresses \subseteq Accounts
    /\ Owners \cap VaultAddresses = {}
    /\ VaultIndices \subseteq U16
    /\ VaultAmounts \subseteq Nat
    /\ MaxVaultsPerOwner \in U16

VARIABLES
    vaults,       \* <<owner, index>> -> [total_deposited, total_withdrawn]
    vaultCount    \* owner -> number

vaultVars == <<vaults, vaultCount>>

VaultInit ==
    /\ vaults = <<>>
    /\ vaultCount = [o \in Owners |-> 0]

IsFresh(owner, vault_index) == <<owner, vault_index>> \notin DOMAIN vaults

create_vault(owner, vault_index) ==
    /\ vaultCount[owner] < MaxVaultsPerOwner
    /\ IsFresh(owner, vault_index)
    /\ vaults' = Put(vaults, <<owner, vault_index>>,
                     [total_deposited |-> 0, total_withdrawn |-> 0])
    /\ vaultCount' = [vaultCount EXCEPT ![owner] = @ + 1]
    /\ UNCHANGED ledger

\* Mutant: the record is written back as it was read.
WithdrawnUnrecorded(key, amount) == UNCHANGED vaults

RecordWithdrawn(key, amount) == vaults' = [vaults EXCEPT ![key].total_withdrawn = @ + amount]

withdraw_to_owner(caller, vault_index, amount) ==
    LET key == <<caller, vault_index>>
    IN  /\ key \in DOMAIN vaults
        /\ free[vault_account(caller, vault_index)] >= amount
        /\ transfer(vault_account(caller, vault_index), caller, amount, FALSE)
        /\ vaults[key].total_withdrawn + amount <= MaxRecorded
        /\ RecordWithdrawn(key, amount)
        /\ UNCHANGED vaultCount

record_inbound(owner, vault_index, amount) ==
    /\ <<owner, vault_index>> \in DOMAIN vaults
    /\ vaults[<<owner, vault_index>>].total_deposited + amount <= MaxRecorded
    /\ vaults' = [vaults EXCEPT ![<<owner, vault_index>>].total_deposited = @ + amount]
    /\ UNCHANGED <<ledger, vaultCount>>

\* Owners pay vaults, their own or others', and each other.
PayIn ==
    /\ \E src \in Owners, dst \in VaultAddresses \cup Owners, v \in VaultAmounts :
          transfer(src, dst, v, FALSE)
    /\ UNCHANGED vaultVars

VaultStep ==
    \/ \E o \in Owners, i \in VaultIndices : create_vault(o, i)
    \/ \E o \in Owners, i \in VaultIndices, v \in VaultAmounts :
          withdraw_to_owner(o, i, v) \/ record_inbound(o, i, v)
    \/ PayIn

-----------------------------------------------------------------------------
(* Correctness                                                             *)

(***************************************************************************)
(* Money leaves a vault by a withdrawal and then to its owner, booked in   *)
(* the audit counter; what does not arrive is dust below the existential   *)
(* deposit.                                                                *)
(***************************************************************************)
VaultPaysItsOwner ==
    [][\A k \in DOMAIN vaults :
          LET left == free[k] - free'[k]
              booked == vaults'[k].total_withdrawn - vaults[k].total_withdrawn
          IN  left > 0 =>
                 /\ booked > 0 /\ left - booked \in 0 .. ExistentialDeposit - 1
                 /\ free'[k[1]] = free[k[1]] + booked]_<<ledger, vaultVars>>
=============================================================================
