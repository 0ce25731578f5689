------------------------------ MODULE OrgRoles ------------------------------
(***************************************************************************)
(* pallets/org-roles: organizations and the soulbound role keys of their   *)
(* staff, and the origin check EnsureOrgOfficer of the runtime that guards *)
(* the Board's calls of the Central Bank (organization CBOrgId) and of the *)
(* Bank of Siberia (organization BoSOrgId) with those keys.                *)
(***************************************************************************)
EXTENDS Integers, FiniteSets

CONSTANTS
    KeyHolders,   \* accounts that sign calls or receive keys
    SlotSizes,  \* numbers of officer and member slots
    MaxOrgs     \* bound on NextOrgId

ASSUME OrgAssumption == SlotSizes \subseteq Nat /\ MaxOrgs \in Nat

VARIABLES
    nextOrgId,
    organizations,   \* org id -> owner, of the stored keys
    roleSlots,       \* org id -> [officers, members]
    issuedKeys,      \* <<org id, account>> -> tier, of the stored keys
    eventBy          \* who the last event names: owner, minted_by or revoked_by

vars == <<nextOrgId, organizations, roleSlots, issuedKeys, eventBy>>

OrgIds == 0 .. MaxOrgs - 1

RoleTier == {"Root", "Officer", "Member"}

HasTier(org_id, who, tiers) ==
    /\ <<org_id, who>> \in DOMAIN issuedKeys
    /\ issuedKeys[<<org_id, who>>] \in tiers

-----------------------------------------------------------------------------
CounterAdvances == nextOrgId + 1

create_organization(owner, max_officers, max_members) ==
    /\ nextOrgId < MaxOrgs
    /\ nextOrgId' = CounterAdvances
    /\ organizations' = [o \in DOMAIN organizations \cup {nextOrgId} |->
                            IF o = nextOrgId THEN owner ELSE organizations[o]]
    /\ roleSlots' = [o \in DOMAIN roleSlots \cup {nextOrgId} |->
                        IF o = nextOrgId
                        THEN [officers |-> max_officers, members |-> max_members]
                        ELSE roleSlots[o]]
    /\ issuedKeys' = [k \in DOMAIN issuedKeys \cup {<<nextOrgId, owner>>} |->
                         IF k = <<nextOrgId, owner>> THEN "Root" ELSE issuedKeys[k]]
    /\ eventBy' = {owner}

\* Mutant: every key holder who is not a plain member mints any tier.
OfficersMintAnyTier(org_id, minter, tier) == HasTier(org_id, minter, {"Root", "Officer"})

MayMint(org_id, minter, tier) ==
    \/ HasTier(org_id, minter, {"Root"})
    \/ HasTier(org_id, minter, {"Officer"}) /\ tier = "Member"

mint_role_key(minter, org_id, target, tier) ==
    /\ org_id \in DOMAIN organizations
    /\ <<org_id, target>> \notin DOMAIN issuedKeys
    /\ MayMint(org_id, minter, tier)
    /\ issuedKeys' = [k \in DOMAIN issuedKeys \cup {<<org_id, target>>} |->
                         IF k = <<org_id, target>> THEN tier ELSE issuedKeys[k]]
    /\ eventBy' = {minter}
    /\ UNCHANGED <<nextOrgId, organizations, roleSlots>>

\* Mutant: the check that a Root key stays is missing.
RootMayRevokeRoot(org_id, revoker, target) ==
    \/ HasTier(org_id, revoker, {"Root"}) /\ HasTier(org_id, target, RoleTier)
    \/ HasTier(org_id, revoker, {"Officer"}) /\ HasTier(org_id, target, {"Member"})

MayRevoke(org_id, revoker, target) ==
    \/ HasTier(org_id, revoker, {"Root"}) /\ HasTier(org_id, target, {"Officer", "Member"})
    \/ HasTier(org_id, revoker, {"Officer"}) /\ HasTier(org_id, target, {"Member"})

revoke_role_key(revoker, org_id, target) ==
    /\ MayRevoke(org_id, revoker, target)
    /\ issuedKeys' = [k \in DOMAIN issuedKeys \ {<<org_id, target>>} |-> issuedKeys[k]]
    /\ eventBy' = {revoker}
    /\ UNCHANGED <<nextOrgId, organizations, roleSlots>>

\* The signed calls that pass EnsureOrgOfficer for the organization.
EnsureOrgOfficer(org_id, who) == HasTier(org_id, who, {"Root", "Officer"})

Init ==
    /\ nextOrgId = 0
    /\ organizations = <<>>
    /\ roleSlots = <<>>
    /\ issuedKeys = <<>>
    /\ eventBy = {}

Next ==
    \E who \in KeyHolders :
        \/ \E o, m \in SlotSizes : create_organization(who, o, m)
        \/ \E org_id \in OrgIds, target \in KeyHolders, tier \in RoleTier :
              mint_role_key(who, org_id, target, tier)
        \/ \E org_id \in OrgIds, target \in KeyHolders : revoke_role_key(who, org_id, target)

Spec == Init /\ [][Next]_vars

-----------------------------------------------------------------------------
(* Correctness                                                             *)

TypeOK ==
    /\ nextOrgId \in 0 .. MaxOrgs
    /\ organizations \in [0 .. nextOrgId - 1 -> KeyHolders]
    /\ DOMAIN roleSlots = 0 .. nextOrgId - 1
    /\ DOMAIN issuedKeys \subseteq (0 .. nextOrgId - 1) \X KeyHolders
    /\ \A k \in DOMAIN issuedKeys : issuedKeys[k] \in RoleTier
    /\ eventBy \subseteq KeyHolders

\* An organization is never without a head: its founder keeps the Root key
\* through every sequence of mints and revocations, so the bank whose origin
\* check asks the organization always has somebody who passes it.
FounderStaysRoot ==
    \A org_id \in DOMAIN organizations : HasTier(org_id, organizations[org_id], {"Root"})

(***************************************************************************)
(* Who may act for a bank changes only by the hand of that organization's  *)
(* Root: nobody becomes or ceases to be an officer by a call of an officer *)
(* or of a member, of this or of another organization.                     *)
(***************************************************************************)
OnlyRootMakesOfficers ==
    [][\A org_id \in DOMAIN organizations, who \in KeyHolders :
          EnsureOrgOfficer(org_id, who)' # EnsureOrgOfficer(org_id, who) =>
              \A caller \in eventBy' : HasTier(org_id, caller, {"Root"})]_vars
=============================================================================
