------------------------------- MODULE Mixer -------------------------------
(***************************************************************************)
(* pallets/buryad-mongol-mixer: deposits in multiples of a denomination    *)
(* for a commitment, withdrawals by the relayer for a commitment and a     *)
(* fresh nullifier, revelations by the board of the bank, and the          *)
(* quarterly audits.                                                       *)
(*                                                                         *)
(* The pallet does not store the amount of a deposit; the relayer          *)
(* withdraws what the commitment hides: ValueOf.                           *)
(***************************************************************************)
EXTENDS AltanBalances, StorageMaps, Clock

CONSTANTS
    Depositors,
    MixerCommitments, MixerNullifiers, MixerValueOf,
    MixerDenomination, BaseFeePermill, MixerFeePermill, MaxMixerFee,
    PoolAccount, InomadAgAccount, CreatorAccount, ValidatorsPoolAccount, FoundationAccount,
    Quarters,
    MaxReveals                     \* bound on the revelations

ASSUME MixerAssumption ==
    /\ Depositors \cup {PoolAccount, InomadAgAccount, CreatorAccount,
                        ValidatorsPoolAccount, FoundationAccount} \subseteq Accounts
    /\ MixerValueOf \in [MixerCommitments -> Nat]
    /\ MixerDenomination \in Nat \ {0}
    /\ {BaseFeePermill, MixerFeePermill, MaxMixerFee, MaxReveals} \subseteq Nat

VARIABLE mixer   \* the storage of the pallet

EmptyMixer ==
    [commitments   |-> <<>>,   \* commitment -> "Active" or "Spent"
     nullifiers    |-> <<>>,   \* nullifier -> block
     poolLeafCount |-> 0,
     auditLogs     |-> <<>>,   \* sequence of RevealRecord
     audits        |-> {}]     \* quarters

\* A Permill is a number of millionths.
mul_floor(permill, amount) == (amount * permill) \div 1000000

calculate_total_fee(amount) ==
    LET raw == mul_floor(BaseFeePermill, amount) + mul_floor(MixerFeePermill, amount)
    IN  IF raw <= MaxMixerFee THEN raw ELSE MaxMixerFee

FeePayments(fee) ==
    LET tenth == fee \div 10
        ag == (fee * 26) \div 100
    IN  <<Payment(InomadAgAccount, ag), Payment(CreatorAccount, tenth),
          Payment(ValidatorsPoolAccount, tenth), Payment(FoundationAccount, fee - ag - 2 * tenth)>>

IsMultiple(amount) == amount >= MixerDenomination /\ amount % MixerDenomination = 0

deposit(depositor, commitment) ==
    LET amount == MixerValueOf[commitment]
    IN  /\ IsMultiple(amount)
        /\ commitment \notin DOMAIN mixer.commitments
        /\ pay_in_order(depositor, <<Payment(PoolAccount, amount)>> \o FeePayments(calculate_total_fee(amount)))
        /\ mixer' = [mixer EXCEPT !.commitments = Put(@, commitment, "Active"),
                                  !.poolLeafCount = @ + 1]
        /\ UNCHANGED block

\* Mutant: any commitment that was ever made will do.
WasMade(commitment) == commitment \in DOMAIN mixer.commitments

IsUnspent(commitment) == At(mixer.commitments, commitment, "None") = "Active"

withdraw_mixed(nullifier, commitment, recipient) ==
    LET amount == MixerValueOf[commitment]
    IN  /\ IsMultiple(amount)
        /\ nullifier \notin DOMAIN mixer.nullifiers
        /\ IsUnspent(commitment)
        /\ transfer(PoolAccount, recipient, amount, TRUE)
        /\ mixer' = [mixer EXCEPT !.commitments[commitment] = "Spent",
                                  !.nullifiers = Put(@, nullifier, block),
                                  !.poolLeafCount = IF @ = 0 THEN 0 ELSE @ - 1]
        /\ UNCHANGED block

\* The commitment need not exist.
reveal_transaction(authorized_by, target_commitment) ==
    /\ Len(mixer.auditLogs) < MaxReveals
    /\ mixer' = [mixer EXCEPT !.auditLogs =
          Append(@, [timestamp |-> block, authorized_by |-> authorized_by,
                     target_commitment |-> target_commitment])]
    /\ UNCHANGED <<ledger, block>>

submit_quarterly_audit(quarter_id) ==
    /\ quarter_id \notin mixer.audits
    /\ mixer' = [mixer EXCEPT !.audits = @ \cup {quarter_id}]
    /\ UNCHANGED <<ledger, block>>

MixerStep ==
    \/ \E a \in Depositors, c \in MixerCommitments :
          \/ deposit(a, c)
          \/ reveal_transaction(a, c)
          \/ \E n \in MixerNullifiers : withdraw_mixed(n, c, a)
    \/ \E q \in Quarters : submit_quarterly_audit(q)

-----------------------------------------------------------------------------
(***************************************************************************)
(* The pool holds the amounts of the unspent commitments, and the counter  *)
(* of the leaves counts them: nothing is withdrawn twice, and a deposit    *)
(* whose fees cannot be paid leaves nothing behind.  opening is what the   *)
(* pool held before the first deposit.                                     *)
(***************************************************************************)
MixIsBacked(opening) ==
    LET active == {c \in DOMAIN mixer.commitments : mixer.commitments[c] = "Active"}
    IN  /\ free[PoolAccount] = opening + SumOver(MixerValueOf, active)
        /\ mixer.poolLeafCount = Cardinality(active)
        /\ Cardinality(DOMAIN mixer.nullifiers) = Cardinality(DOMAIN mixer.commitments \ active)
=============================================================================
