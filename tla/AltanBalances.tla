--------------------------- MODULE AltanBalances ---------------------------
(***************************************************************************)
(* The ALTAN ledger: pallet_balances of the Polkadot SDK, as the pallets   *)
(* of this repository use it through the Currency, ReservableCurrency and  *)
(* LockableCurrency traits.  The SDK is not part of the repository, so     *)
(* every definition below is external: it says what the calls that the     *)
(* pallets make do to the ledger.                                          *)
(*                                                                         *)
(*   - deposit_creating on an account that does not exist, with less than  *)
(*     the existential deposit, mints nothing and reports no error;        *)
(*   - an account whose free balance falls below the existential deposit   *)
(*     is reaped and the rest is burned (DustRemoval = ()), which an       *)
(*     account with a lock or a reserve refuses;                           *)
(*   - set_lock replaces the lock with the same identifier, checks no      *)
(*     balance, and does nothing for the amount 0.                         *)
(***************************************************************************)
EXTENDS Integers, FiniteSets, Sequences, StorageMaps

CONSTANTS
    Accounts,            \* every account of the ledger
    ExistentialDeposit   \* the least balance an account may hold

ASSUME LedgerAssumption ==
    /\ IsFiniteSet(Accounts)
    /\ ExistentialDeposit \in Nat \ {0}

VARIABLES
    free,       \* free balance of every account
    reserved,   \* balance held as a deposit, by pallet_proxy or for a bill
    frozen,     \* amount of the loan lock (LOAN_LOCK_ID), 0 without one
    issuance    \* TotalIssuance

ledger == <<free, reserved, frozen, issuance>>

\* That the issuance is no less than zero is a consequence of IssuanceIsHeld.
LedgerTypeOK ==
    /\ free \in [Accounts -> Nat]
    /\ reserved \in [Accounts -> Nat]
    /\ frozen \in [Accounts -> Nat]
    /\ issuance \in Int

-----------------------------------------------------------------------------
Exists(who) == free[who] + reserved[who] > 0

\* What arrives of an amount v that deposit_creating mints to who.
Credited(who, v) ==
    IF ~Exists(who) /\ v < ExistentialDeposit THEN 0 ELSE v

deposit_creating(who, v) ==
    /\ free' = [free EXCEPT ![who] = @ + Credited(who, v)]
    /\ issuance' = issuance + Credited(who, v)
    /\ UNCHANGED <<reserved, frozen>>

\* withdraw(.., KeepAlive): the withdrawn amount leaves the issuance.
withdraw(who, v) ==
    /\ free[who] >= v + ExistentialDeposit
    /\ free[who] >= v + frozen[who]
    /\ free' = [free EXCEPT ![who] = @ - v]
    /\ issuance' = issuance - v
    /\ UNCHANGED <<reserved, frozen>>

\* An account with a lock or a reserve has a consumer and is never reaped.
Pinned(who) == frozen[who] > 0 \/ reserved[who] > 0

CanTransfer(src, dst, v, keepAlive) ==
    \/ v = 0 \/ src = dst
    \/ /\ free[src] >= v + frozen[src]
       /\ free[dst] + v >= ExistentialDeposit
       /\ keepAlive \/ Pinned(src) => free[src] >= v + ExistentialDeposit

\* What is reaped from src when v leaves it.
Dust(src, v) ==
    IF free[src] - v < ExistentialDeposit THEN free[src] - v ELSE 0

Moves(src, dst, v) == v > 0 /\ src # dst

transfer(src, dst, v, keepAlive) ==
    /\ CanTransfer(src, dst, v, keepAlive)
    /\ free' = IF Moves(src, dst, v)
               THEN [free EXCEPT ![src] = @ - v - Dust(src, v), ![dst] = @ + v]
               ELSE free
    /\ issuance' = IF Moves(src, dst, v) THEN issuance - Dust(src, v) ELSE issuance
    /\ UNCHANGED <<reserved, frozen>>

\* The same with KeepAlive, of given balances: a call that makes several
\* transfers and goes on when one of them fails.
CanPay(bal, src, dst, v) ==
    \/ v = 0 \/ src = dst
    \/ /\ bal[src] >= v + frozen[src]
       /\ bal[src] >= v + ExistentialDeposit
       /\ bal[dst] + v >= ExistentialDeposit

PaidFrom(bal, src, dst, v) ==
    IF Moves(src, dst, v) THEN [bal EXCEPT ![src] = @ - v, ![dst] = @ + v] ELSE bal

\* An account with a reserve is not reaped, so it keeps the existential deposit.
reserve(who, v) ==
    /\ free[who] >= v + frozen[who]
    /\ v > 0 => free[who] >= v + ExistentialDeposit
    /\ free' = [free EXCEPT ![who] = @ - v]
    /\ reserved' = [reserved EXCEPT ![who] = @ + v]
    /\ UNCHANGED <<frozen, issuance>>

Releasable(who, v) == IF v <= reserved[who] THEN v ELSE reserved[who]

unreserve(who, v) ==
    /\ free' = [free EXCEPT ![who] = @ + Releasable(who, v)]
    /\ reserved' = [reserved EXCEPT ![who] = @ - Releasable(who, v)]
    /\ UNCHANGED <<frozen, issuance>>

\* unreserve and then transfer with KeepAlive, in one call.
PayReserved(who, dst, v) ==
    LET bal == [free EXCEPT ![who] = @ + Releasable(who, v)]
    IN  /\ CanPay(bal, who, dst, v)
        /\ free' = PaidFrom(bal, who, dst, v)
        /\ reserved' = [reserved EXCEPT ![who] = @ - Releasable(who, v)]
        /\ UNCHANGED <<frozen, issuance>>

\* The negative imbalance is dropped: the slashed amount leaves the issuance.
slash_reserved(who, v) ==
    /\ reserved' = [reserved EXCEPT ![who] = @ - Releasable(who, v)]
    /\ issuance' = issuance - Releasable(who, v)
    /\ UNCHANGED <<free, frozen>>

\* The frozen balances after set_lock and remove_lock of the loan lock.
set_lock(who, amount) ==
    IF amount = 0 THEN frozen ELSE [frozen EXCEPT ![who] = amount]

remove_lock(who) == [frozen EXCEPT ![who] = 0]

-----------------------------------------------------------------------------
(***************************************************************************)
(* Calls that make several transfers with KeepAlive from one account, one  *)
(* after the other, and undo all of them when one fails.                   *)
(***************************************************************************)
Payment(dst, v) == [dst |-> dst, v |-> v]

\* The balances after the first 0, 1, .. of the payments of src.
Balances(src, payments) ==
    LET after[i \in 0 .. Len(payments)] ==
            IF i = 0 THEN free ELSE PaidFrom(after[i - 1], src, payments[i].dst, payments[i].v)
    IN  after

pay_in_order(src, payments) ==
    LET after == Balances(src, payments)
    IN  /\ \A i \in DOMAIN payments : CanPay(after[i - 1], src, payments[i].dst, payments[i].v)
        /\ free' = after[Len(payments)]
        /\ UNCHANGED <<reserved, frozen, issuance>>

-----------------------------------------------------------------------------
(***************************************************************************)
(* TotalIssuance is the sum of what the accounts hold: a handler that      *)
(* credits without minting, or drops an amount it took, breaks it.  And no *)
(* account is left between zero and the existential deposit.               *)
(***************************************************************************)
IssuanceIsHeld ==
    /\ SumOver(free, Accounts) + SumOver(reserved, Accounts) = issuance
    /\ \A a \in Accounts : Exists(a) => free[a] + reserved[a] >= ExistentialDeposit
=============================================================================
