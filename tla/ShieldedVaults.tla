--------------------------- MODULE ShieldedVaults ---------------------------
(***************************************************************************)
(* pallets/shielded-vaults: money leaves the public ledger for a           *)
(* commitment and comes back when an active commitment is spent with a     *)
(* fresh nullifier.                                                        *)
(*                                                                         *)
(* A commitment is opaque: no call is given a proof or an opening of one,  *)
(* and none compares what was paid in for it with what is paid out.  The   *)
(* amount of every call is the caller's, and is held against the vault of  *)
(* an organization only, where the call names one.                         *)
(***************************************************************************)
EXTENDS AltanBalances, StorageMaps, Clock

CONSTANTS
    Holders,                 \* accounts that use the pool
    StateAccounts,           \* accounts of the state, which may not
    Commitments, Nullifiers,
    ShieldedAmounts,         \* amounts that the calls name
    OrgIds,                  \* identifiers of organizations
    ConfederationTreasury,
    NoOrg                    \* org_id = None

ASSUME ShieldedAssumption ==
    /\ Holders \cup StateAccounts \cup {ConfederationTreasury} \subseteq Accounts
    /\ ShieldedAmounts \subseteq Nat \ {0}
    /\ NoOrg \notin OrgIds

VARIABLE pool   \* the storage of the pallet

EmptyPool ==
    [commitments   |-> <<>>,                        \* commitment -> is it active
     nullifiers    |-> <<>>,                        \* nullifier -> block of the spending
     orgVault      |-> [o \in OrgIds |-> 0],
     totalShielded |-> 0]

is_state_account(who) == who \in StateAccounts

SatSub(m, n) == IF n <= m THEN m - n ELSE 0

\* The balances of the organizations with v more (or less) for one of them.
Booked(vault, org_id, v) ==
    IF org_id = NoOrg THEN vault ELSE [vault EXCEPT ![org_id] = IF @ + v >= 0 THEN @ + v ELSE 0]

IsNote(commitments, commitment) == At(commitments, commitment, FALSE)

\* A commitment that was spent may be registered again.
shield_funds(caller, amount, commitment, org_id) ==
    /\ ~is_state_account(caller)
    /\ ~IsNote(pool.commitments, commitment)
    /\ withdraw(caller, amount)
    /\ pool' = [pool EXCEPT !.commitments = Put(@, commitment, TRUE),
                            !.orgVault = Booked(@, org_id, amount),
                            !.totalShielded = @ + amount]
    /\ UNCHANGED block

\* Mutant: the nullifier is not looked at.
SpendTwice(nullifier, commitment) == IsNote(pool.commitments, commitment)

CanSpend(nullifier, commitment) ==
    /\ nullifier \notin DOMAIN pool.nullifiers
    /\ IsNote(pool.commitments, commitment)

\* The pool without the commitment that the nullifier destroys.
Spent(nullifier, commitment) ==
    [pool EXCEPT !.commitments = Put(@, commitment, FALSE),
                 !.nullifiers = Put(@, nullifier, block)]

\* The new commitment is looked up after the old one is destroyed.
shielded_transfer(nullifier, input_commitment, new_commitment) ==
    /\ CanSpend(nullifier, input_commitment)
    /\ LET left == Spent(nullifier, input_commitment)
       IN  /\ ~IsNote(left.commitments, new_commitment)
           /\ pool' = [left EXCEPT !.commitments = Put(@, new_commitment, TRUE)]
    /\ UNCHANGED <<ledger, block>>

unshield_to_account(nullifier, input_commitment, amount, recipient, org_id) ==
    /\ CanSpend(nullifier, input_commitment)
    /\ org_id # NoOrg => amount <= pool.orgVault[org_id]
    /\ deposit_creating(recipient, amount)
    /\ pool' = [Spent(nullifier, input_commitment) EXCEPT
                   !.orgVault = Booked(@, org_id, -amount),
                   !.totalShielded = SatSub(@, amount)]
    /\ UNCHANGED block

\* deposit_creating twice, to two accounts or to one.
MintBoth(a, v, b, w) ==
    LET first == Credited(a, v)
        bal == [free EXCEPT ![a] = @ + first]
        second == IF bal[b] + reserved[b] = 0 /\ w < ExistentialDeposit THEN 0 ELSE w
    IN  /\ free' = [bal EXCEPT ![b] = @ + second]
        /\ issuance' = issuance + first + second
        /\ UNCHANGED <<reserved, frozen>>

\* The region's seven tenths, rounded down; the Confederation has the rest.
region_amount(amount_claimed) == (amount_claimed * 7) \div 10

\* Mutant: the Confederation's three tenths are rounded down as well.
ThreeTenths(amount_claimed) == (amount_claimed * 3) \div 10

confederation_amount(amount_claimed) == amount_claimed - region_amount(amount_claimed)

\* treasury is what OrgRegionResolver finds for the organization, if anything.
org_unshield_tax_payment(org_id, nullifier, input_commitment, amount_claimed, treasury) ==
    LET payee == IF treasury = {} THEN ConfederationTreasury ELSE CHOOSE t \in treasury : TRUE
    IN  /\ CanSpend(nullifier, input_commitment)
        /\ amount_claimed <= pool.orgVault[org_id]
        /\ MintBoth(ConfederationTreasury, confederation_amount(amount_claimed),
                    payee, region_amount(amount_claimed))
        /\ pool' = [Spent(nullifier, input_commitment) EXCEPT
                       !.orgVault = Booked(@, org_id, -amount_claimed),
                       !.totalShielded = SatSub(@, amount_claimed)]
        /\ UNCHANGED block

\* The pool after unshield_for_tax, which leaves the vault of the organization as it is.
PoolAfterTax(nullifier, commitment, amount) ==
    [Spent(nullifier, commitment) EXCEPT !.totalShielded = SatSub(@, amount)]

-----------------------------------------------------------------------------
(* Correctness                                                             *)

(***************************************************************************)
(* Nothing is lost in the pool: what the public ledger is short of the     *)
(* issuance before the first commitment, opening, is in the audit counter, *)
(* however often notes change hands and in whatever pieces the money comes *)
(* back; and every note that was destroyed cost a nullifier of its own.    *)
(* (That no more comes back than went in is the callers' word.)            *)
(***************************************************************************)
PoolLosesNothing(opening) ==
    /\ issuance + pool.totalShielded >= opening
    /\ Cardinality({c \in DOMAIN pool.commitments : ~pool.commitments[c]})
          <= Cardinality(DOMAIN pool.nullifiers)
=============================================================================
