------------------------------- MODULE Tokens -------------------------------
(***************************************************************************)
(* The three pallets of soulbound tokens: pallets/achievement-nft,         *)
(* pallets/access-nft and pallets/recovery-nft.                            *)
(***************************************************************************)
EXTENDS AltanBalances, StorageMaps, Clock, Sequences

(***************************************************************************)
(* pallets/achievement-nft: achievements, and rewards whose ALTAN the      *)
(* treasury of the Confederation holds reserved until they are redeemed.   *)
(* The kinds and the references to events are left out.                    *)
(***************************************************************************)

CONSTANTS
    Winners, RewardAmounts, RewardTreasury,
    MaxAchievementsPerHolder,
    MaxTokens   \* bound on the tokens

ASSUME RewardAssumption ==
    /\ Winners \cup {RewardTreasury} \subseteq Accounts
    /\ RewardAmounts \subseteq Nat
    /\ {MaxAchievementsPerHolder, MaxTokens} \subseteq Nat

VARIABLE rewards   \* the storage of the pallet

AchievementCategory == {"Reputation", "Reward"}

NoTokens ==
    [achievements |-> <<>>,                        \* token_id -> AchievementToken
     held         |-> [a \in Winners |-> {}]]      \* HolderAchievements

AchievementToken(holder, category, value) ==
    [holder |-> holder, category |-> category, altan_value |-> value, redeemed |-> FALSE]

WithToken(token) ==
    LET id == FreshId(rewards.achievements)
    IN  /\ id < MaxTokens
        /\ Cardinality(rewards.held[token.holder]) < MaxAchievementsPerHolder
        /\ rewards' = [rewards EXCEPT !.achievements = Put(@, id, token),
                                      !.held[token.holder] = @ \cup {id}]

award_achievement(holder) ==
    WithToken(AchievementToken(holder, "Reputation", 0)) /\ UNCHANGED ledger

issue_reward_nft(holder, altan_amount) ==
    /\ reserve(RewardTreasury, altan_amount)
    /\ WithToken(AchievementToken(holder, "Reward", altan_amount))

\* Mutant: the token does not say that it was redeemed.
StaysRedeemable(token) == token

Redeemed(token) == [token EXCEPT !.redeemed = TRUE]

redeem_reward_nft(caller, token_id) ==
    /\ token_id \in DOMAIN rewards.achievements
    /\ LET token == rewards.achievements[token_id]
       IN  /\ token.holder = caller
           /\ token.category = "Reward"
           /\ ~token.redeemed
           /\ PayReserved(RewardTreasury, caller, token.altan_value)
           /\ rewards' = [rewards EXCEPT !.achievements[token_id] = Redeemed(@)]

RewardStep ==
    \/ \E a \in Winners : award_achievement(a)
    \/ \E a \in Winners, v \in RewardAmounts : issue_reward_nft(a, v)
    \/ \E a \in Winners, i \in DOMAIN rewards.achievements : redeem_reward_nft(a, i)

-----------------------------------------------------------------------------
(***************************************************************************)
(* The treasury has reserved what the rewards not yet redeemed are worth:  *)
(* each can be redeemed, once, whatever was issued or redeemed before it.  *)
(***************************************************************************)
RewardsAreFunded ==
    reserved[RewardTreasury] =
        SumOver([i \in DOMAIN rewards.achievements |-> rewards.achievements[i].altan_value],
                {i \in DOMAIN rewards.achievements : ~rewards.achievements[i].redeemed})

-----------------------------------------------------------------------------
(***************************************************************************)
(* pallets/access-nft: keys to the portals of legal entities, the indices  *)
(* of the keys by holder and by entity, and the checks that portals make.  *)
(* A portal mask is the set of its bits; access levels and roles that the  *)
(* checks do not read are left out.                                        *)
(***************************************************************************)

CONSTANTS
    KeyHolders, Entities,
    OrgRegNumbers, NoRegNumber,             \* NoRegNumber: the empty number
    HrRoles, PortalMasks,                   \* the roles and masks that keys are issued with
    MaxKeysPerHolder, MaxHoldersPerEntity,
    MaxKeys                                 \* bound on the keys

ASSUME AccessAssumption ==
    /\ {MaxKeysPerHolder, MaxHoldersPerEntity, MaxKeys} \subseteq Nat
    /\ NoRegNumber \notin OrgRegNumbers
    /\ PortalMasks \subseteq SUBSET {"CLIENT", "STAFF", "ADMIN"}

VARIABLE keys   \* the storage of the pallet

Portals == {"CLIENT", "STAFF", "ADMIN"}

\* hr_role of a key that is not bound to a wallet.
NoHrRole == 255

NoKeys ==
    [info     |-> <<>>,                           \* token_id -> AccessKeyInfo
     byHolder |-> [h \in KeyHolders |-> {}],
     byEntity |-> [e \in Entities |-> {}]]

AccessKeyInfo(entity_id, holder, portal_mask, issuer, org_reg, hr_role) ==
    [entity_id |-> entity_id, holder |-> holder, portal_mask |-> portal_mask,
     revoked |-> FALSE, issued_by |-> issuer, org_reg_number |-> org_reg,
     wallet_bound |-> org_reg # NoRegNumber, hr_role |-> hr_role]

\* Mutant: a full index of a holder drops the token and the call succeeds.
AlwaysFits(holder) == TRUE

FitsHolder(holder) == Cardinality(keys.byHolder[holder]) < MaxKeysPerHolder

\* try_push of an id to an index of at most max of them.
Pushed(index, id, max) == IF Cardinality(index) < max THEN index \cup {id} ELSE index

\* The part that the two kinds of keys share.
Issue(key) ==
    LET id == FreshId(keys.info)
    IN  /\ id < MaxKeys
        /\ key.portal_mask \in SUBSET Portals \ {{}}
        /\ FitsHolder(key.holder)
        /\ Cardinality(keys.byEntity[key.entity_id]) < MaxHoldersPerEntity
        /\ keys' = [keys EXCEPT
              !.info = Put(@, id, key),
              !.byHolder[key.holder] = Pushed(@, id, MaxKeysPerHolder),
              !.byEntity[key.entity_id] = Pushed(@, id, MaxHoldersPerEntity)]

issue_access_key(issuer, entity_id, holder, portal_mask) ==
    Issue(AccessKeyInfo(entity_id, holder, portal_mask, issuer, NoRegNumber, NoHrRole))

issue_sbt_key(issuer, entity_id, org_reg, holder, portal_mask, hr_role) ==
    /\ org_reg # NoRegNumber
    /\ Issue(AccessKeyInfo(entity_id, holder, portal_mask, issuer, org_reg, hr_role))

revoke_access_key(revoker, token_id) ==
    /\ token_id \in DOMAIN keys.info
    /\ ~keys.info[token_id].revoked
    /\ keys.info[token_id].issued_by = revoker
    /\ keys' = [keys EXCEPT !.info[token_id].revoked = TRUE]

KeysInForce(who) == {keys.info[i] : i \in {j \in keys.byHolder[who] : ~keys.info[j].revoked}}

check_access(who, entity_id, required_mask) ==
    \E key \in KeysInForce(who) :
        key.entity_id = entity_id /\ required_mask \subseteq key.portal_mask

verify_sbt(who, entity_id, org_reg, required_mask) ==
    \E key \in KeysInForce(who) :
        /\ key.wallet_bound
        /\ key.entity_id = entity_id /\ key.org_reg_number = org_reg
        /\ required_mask \subseteq key.portal_mask

\* The role of the first key that is found, the oldest.
get_hr_role(who, org_reg) ==
    LET bound == {i \in keys.byHolder[who] :
                    /\ ~keys.info[i].revoked /\ keys.info[i].wallet_bound
                    /\ keys.info[i].org_reg_number = org_reg}
    IN  {keys.info[i].hr_role : i \in {j \in bound : \A k \in bound : j <= k}}

KeyStep ==
    \/ \E i, h \in KeyHolders, e \in Entities, m \in PortalMasks :
          \/ issue_access_key(i, e, h, m)
          \/ \E o \in OrgRegNumbers, r \in HrRoles : issue_sbt_key(i, e, o, h, m, r)
    \/ \E i \in KeyHolders, t \in DOMAIN keys.info : revoke_access_key(i, t)

-----------------------------------------------------------------------------
(***************************************************************************)
(* A portal opens for exactly those who hold a key to it that was issued   *)
(* and not revoked, though it asks an index of bounded size and not the    *)
(* keys; and who has several roles in an organization has the oldest.      *)
(***************************************************************************)
PortalsOpenByKeys ==
    \A h \in KeyHolders :
        LET valid == {i \in DOMAIN keys.info : keys.info[i].holder = h /\ ~keys.info[i].revoked}
        IN  /\ \A e \in Entities, p \in Portals :
                  check_access(h, e, {p}) <=>
                      \E i \in valid : keys.info[i].entity_id = e /\ p \in keys.info[i].portal_mask
            /\ \A o \in OrgRegNumbers :
                  LET bound == {i \in valid : keys.info[i].org_reg_number = o}
                  IN  /\ get_hr_role(h, o) # {} <=> bound # {}
                      /\ \A r \in get_hr_role(h, o) : \E i \in bound :
                            keys.info[i].hr_role = r /\ \A j \in bound : i <= j
                      /\ \A e \in Entities, p \in Portals :
                            verify_sbt(h, e, o, {p}) =>
                                check_access(h, e, {p}) /\ get_hr_role(h, o) # {}

-----------------------------------------------------------------------------
(***************************************************************************)
(* pallets/recovery-nft: the tokens of the guardians of an account, and    *)
(* the requests to recover it, which wait for a veto of the owner and then *)
(* for a threshold of guardians.  The kind and address of the destination  *)
(* and the index of tokens by holder, which nothing reads, are left out.   *)
(***************************************************************************)

CONSTANTS
    Guardians, Owners,
    Groups, RequestIds,
    VetoWindowBlocks, MaxGroupSize,
    MaxRecoveryTokens   \* bound on the tokens

ASSUME RecoveryAssumption ==
    {VetoWindowBlocks, MaxGroupSize, MaxRecoveryTokens} \subseteq Nat

VARIABLE recovery   \* the storage of the pallet

RecoveryRequestStatus == {"PendingVetoWindow", "CollectingSignatures", "OwnerVetoed", "Executed"}

NoRecoveries ==
    [nfts          |-> <<>>,   \* token_id -> RecoveryNft
     requests      |-> <<>>,   \* request_id -> RecoveryRequest
     confirmations |-> {}]     \* <<request_id, token_id>>

RecoveryNft(group_id, target, holder, threshold) ==
    [group_id |-> group_id, target_account |-> target, holder |-> holder, threshold |-> threshold]

\* One token for each place in holders, numbered on from the last.
issue_recovery_nfts(group_id, target, holders, threshold) ==
    LET first == FreshId(recovery.nfts)
        ids == first .. first + Len(holders) - 1
    IN  /\ threshold \in 1 .. Len(holders)
        /\ Len(holders) <= MaxGroupSize
        /\ first + Len(holders) <= MaxRecoveryTokens
        /\ recovery' = [recovery EXCEPT !.nfts =
              [i \in DOMAIN @ \cup ids |->
                  IF i \in ids THEN RecoveryNft(group_id, target, holders[i - first + 1], threshold)
                  ELSE @[i]]]
        /\ UNCHANGED block

Holds(caller, token_id) ==
    token_id \in DOMAIN recovery.nfts /\ recovery.nfts[token_id].holder = caller

RecoveryRequest(nft, caller) ==
    [group_id |-> nft.group_id, target_account |-> nft.target_account, initiated_by |-> caller,
     veto_deadline_block |-> block + VetoWindowBlocks, status |-> "PendingVetoWindow",
     confirmation_count |-> 1, threshold |-> nft.threshold]

\* A request with the same identifier is replaced; its confirmations stay.
initiate_recovery(caller, token_id, request_id) ==
    /\ Holds(caller, token_id)
    /\ recovery' = [recovery EXCEPT
          !.requests = Put(@, request_id, RecoveryRequest(recovery.nfts[token_id], caller)),
          !.confirmations = @ \cup {<<request_id, token_id>>}]
    /\ UNCHANGED block

\* At any time until the execution: the deadline is not looked at.
veto_recovery(caller, request_id) ==
    /\ request_id \in DOMAIN recovery.requests
    /\ recovery.requests[request_id].target_account = caller
    /\ recovery.requests[request_id].status # "Executed"
    /\ recovery' = [recovery EXCEPT !.requests[request_id].status = "OwnerVetoed"]
    /\ UNCHANGED block

\* Mutant: signatures are collected from the beginning.
AnyTime(req) == req.status \in {"PendingVetoWindow", "CollectingSignatures"}

IsCollecting(req) ==
    \/ req.status = "CollectingSignatures"
    \/ req.status = "PendingVetoWindow" /\ block > req.veto_deadline_block

\* The request with one confirmation more.
Confirmed(req) ==
    [req EXCEPT !.confirmation_count = @ + 1,
                !.status = IF req.confirmation_count + 1 >= req.threshold THEN "Executed"
                           ELSE "CollectingSignatures"]

confirm_recovery(caller, token_id, request_id) ==
    /\ Holds(caller, token_id)
    /\ <<request_id, token_id>> \notin recovery.confirmations
    /\ request_id \in DOMAIN recovery.requests
    /\ LET req == recovery.requests[request_id]
       IN  /\ recovery.nfts[token_id].group_id = req.group_id
           /\ IsCollecting(req)
    /\ recovery' = [recovery EXCEPT
          !.requests[request_id] = Confirmed(@),
          !.confirmations = @ \cup {<<request_id, token_id>>}]
    /\ UNCHANGED block

GuardianLists == UNION {[1 .. n -> Guardians] : n \in 1 .. MaxGroupSize}

RecoveryStep ==
    \/ \E g \in Groups, o \in Owners, list \in GuardianLists, n \in 1 .. MaxGroupSize :
          issue_recovery_nfts(g, o, list, n)
    \/ \E r \in RequestIds :
          \/ \E o \in Owners : veto_recovery(o, r)
          \/ \E a \in Guardians, t \in DOMAIN recovery.nfts :
                initiate_recovery(a, t, r) \/ confirm_recovery(a, t, r)

-----------------------------------------------------------------------------
(***************************************************************************)
(* A recovery is executed after the owner has had the whole window to veto *)
(* it, with the confirmations of a threshold of different tokens, however  *)
(* often requests with the same identifier were made before.               *)
(***************************************************************************)
RecoveryNeedsGuardians ==
    \A r \in DOMAIN recovery.requests :
        LET req == recovery.requests[r]
            confirming == {t \in DOMAIN recovery.nfts : <<r, t>> \in recovery.confirmations}
        IN  /\ req.confirmation_count <= Cardinality(confirming)
            /\ req.status = "Executed" =>
                  /\ block > req.veto_deadline_block
                  /\ Cardinality(confirming) >= req.threshold
=============================================================================
