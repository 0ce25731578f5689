----------------------------- MODULE BlackBook -----------------------------
(***************************************************************************)
(* pallets/black-book: a warrant exiles a citizen and confiscates the free *)
(* balance; a fugitive gets a bounty pool, funded by the treasury and by   *)
(* donations; a capture locks the pool for BountyLockPeriod blocks before  *)
(* the hunter is paid, and Root may cancel the payout meanwhile.           *)
(*                                                                         *)
(* The pool is money on the fugitive's own account.  Crime categories,     *)
(* verdict hashes and timestamps are left out.                             *)
(***************************************************************************)
EXTENDS AltanBalances, CitizenRegistry, StorageMaps, Clock

CONSTANTS
    StateTreasury,      \* receives what is confiscated, seeds the pools
    Grandmasters,       \* members of the Academy
    BountyAmounts,      \* initial bounties and donations
    BountyLockPeriod,
    MaxBounty           \* bound on a pool

ASSUME BlackBookAssumption ==
    /\ Citizens \subseteq Accounts
    /\ StateTreasury \in Accounts \ Citizens
    /\ BountyAmounts \subseteq Nat
    /\ {BountyLockPeriod, MaxBounty} \subseteq Nat

VARIABLES
    wallOfShame,           \* citizen -> fugitive_status
    bountyPools,           \* fugitive -> amount
    lockedBountyPayouts    \* fugitive -> LockedPayout

bookVars == <<wallOfShame, bountyPools, lockedBountyPayouts>>

FugitiveStatus == {"NoFugitive", "AtLarge", "Captured"}

BookInit ==
    /\ wallOfShame = <<>>
    /\ bountyPools = <<>>
    /\ lockedBountyPayouts = <<>>

\* The confiscation leaves nothing on the account, so it fails for an account
\* that has a reserve; the seed of the pool follows it.
Confiscate(target, seed) ==
    LET all == free[target]
        afterwards == PaidFrom(free, target, StateTreasury, all)
    IN  /\ CanTransfer(target, StateTreasury, all, FALSE)
        /\ CanPay(afterwards, StateTreasury, target, seed)
        /\ free' = PaidFrom(afterwards, StateTreasury, target, seed)
        /\ UNCHANGED <<reserved, frozen, issuance>>

condemn_and_issue_warrant(target, is_fugitive, initial_bounty) ==
    LET seeded == is_fugitive /\ initial_bounty > 0
    IN  /\ target \notin Grandmasters
        /\ ~is_active_khural_delegate(target)
        /\ do_exile(target)
        /\ Confiscate(target, IF seeded THEN initial_bounty ELSE 0)
        /\ wallOfShame' =
              Put(wallOfShame, target, IF is_fugitive THEN "AtLarge" ELSE "NoFugitive")
        /\ bountyPools' = IF seeded THEN Put(bountyPools, target, initial_bounty) ELSE bountyPools
        /\ UNCHANGED <<block, lockedBountyPayouts>>

IsAtLarge(target) == target \in DOMAIN wallOfShame /\ wallOfShame[target] = "AtLarge"

PoolOf(target) == IF target \in DOMAIN bountyPools THEN bountyPools[target] ELSE 0

donate_to_bounty(donor, target, amount) ==
    /\ IsAtLarge(target)
    /\ PoolOf(target) + amount <= MaxBounty
    /\ transfer(donor, target, amount, TRUE)
    /\ bountyPools' = Put(bountyPools, target, PoolOf(target) + amount)
    /\ UNCHANGED <<block, citizens, wallOfShame, lockedBountyPayouts>>

\* Mutant: the pool stays open after the capture.
PoolStaysOpen(target) == UNCHANGED bountyPools

ClosePool(target) == bountyPools' = Without(bountyPools, target)

register_capture_and_payout(target, bounty_hunter) ==
    /\ IsAtLarge(target)
    /\ target \notin DOMAIN lockedBountyPayouts
    /\ PoolOf(target) > 0
    /\ wallOfShame' = Put(wallOfShame, target, "Captured")
    /\ lockedBountyPayouts' =
          Put(lockedBountyPayouts, target,
              [bounty_hunter |-> bounty_hunter,
               unlock_block  |-> block + BountyLockPeriod,
               amount        |-> PoolOf(target)])
    /\ ClosePool(target)
    /\ UNCHANGED <<ledger, block, citizens>>

\* Mutant: the lock period is not waited for.
ClaimAtOnce(payout) == TRUE

Unlocked(payout) == block >= payout.unlock_block

claim_bounty_payout(target) ==
    /\ target \in DOMAIN lockedBountyPayouts
    /\ LET payout == lockedBountyPayouts[target]
       IN  /\ Unlocked(payout)
           /\ transfer(target, payout.bounty_hunter, payout.amount, FALSE)
    /\ lockedBountyPayouts' = Without(lockedBountyPayouts, target)
    /\ UNCHANGED <<block, citizens, wallOfShame, bountyPools>>

cancel_bounty_payout(target) ==
    /\ target \in DOMAIN lockedBountyPayouts
    /\ lockedBountyPayouts' = Without(lockedBountyPayouts, target)
    /\ UNCHANGED <<ledger, block, citizens, wallOfShame, bountyPools>>

BountyStep ==
    \/ \E t \in Citizens, v \in BountyAmounts \cup {0}, fugitive \in BOOLEAN :
          condemn_and_issue_warrant(t, fugitive, v)
    \/ \E c, t \in Citizens, v \in BountyAmounts : donate_to_bounty(c, t, v)
    \/ \E t, c \in Citizens : register_capture_and_payout(t, c)
    \/ \E t \in Citizens : claim_bounty_payout(t) \/ cancel_bounty_payout(t)
    \/ NextBlock /\ UNCHANGED <<ledger, citizens, bookVars>>

-----------------------------------------------------------------------------
(* Correctness                                                             *)

(***************************************************************************)
(* The book agrees with itself, whatever Root does to the status in        *)
(* between: there is an open pool only for a fugitive at large and a       *)
(* locked payout only for a captured one, so a bounty is never both        *)
(* collected and paid.  It says nothing of the money on the exile's        *)
(* account.  It rests on a warrant being issued once for a citizen: where  *)
(* ExileIsTerminal fails, a second warrant finds the first one's pool.     *)
(***************************************************************************)
BookAgrees ==
    /\ \A t \in DOMAIN bountyPools : t \in DOMAIN wallOfShame /\ wallOfShame[t] = "AtLarge"
    /\ \A t \in DOMAIN lockedBountyPayouts :
          t \in DOMAIN wallOfShame /\ wallOfShame[t] = "Captured"

(***************************************************************************)
(* A pool ends as a payout of the same amount that is locked for the whole *)
(* period; a payout ends unchanged, and if the hunter is richer afterwards *)
(* it is by that amount, after the period.                                 *)
(***************************************************************************)
BountyIsVested ==
    [][/\ \A t \in DOMAIN bountyPools :
             \/ t \in DOMAIN bountyPools' /\ bountyPools'[t] >= bountyPools[t]
             \/ /\ t \in DOMAIN lockedBountyPayouts' \ DOMAIN lockedBountyPayouts
                /\ lockedBountyPayouts'[t].amount = bountyPools[t]
                /\ lockedBountyPayouts'[t].unlock_block = block + BountyLockPeriod
       /\ \A t \in DOMAIN lockedBountyPayouts :
             LET payout == lockedBountyPayouts[t]
             IN  \/ t \in DOMAIN lockedBountyPayouts' /\ lockedBountyPayouts'[t] = payout
                 \/ /\ t \notin DOMAIN lockedBountyPayouts'
                    /\ \/ UNCHANGED ledger
                       \/ /\ block >= payout.unlock_block
                          /\ payout.bounty_hunter # t =>
                                free'[payout.bounty_hunter]
                                    = free[payout.bounty_hunter] + payout.amount
      ]_<<ledger, block, citizens, bookVars>>

-----------------------------------------------------------------------------
(* What the documentation says and the code does not do                    *)

\* CitizenStatus::Exiled "CANNOT be reversed": the IdentitySlasher that
\* settle_iou calls sets Frozen whatever the status was, and Root may thaw it.
ExileIsTerminal == \A t \in DOMAIN wallOfShame : citizens[t].status = "Exiled"
=============================================================================
