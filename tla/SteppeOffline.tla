--------------------------- MODULE SteppeOffline ---------------------------
(***************************************************************************)
(* pallets/steppe-offline: a payer reserves money in an offline pocket and *)
(* signs IOUs off the chain; a receiver settles an IOU later.  An IOU over *)
(* more than the pocket is proof of fraud: the pocket is drained and the   *)
(* payer's citizenship is frozen by the runtime's IdentitySlasher.         *)
(*                                                                         *)
(* The IOUs that payers signed are the constant Ious: a payer may sign two *)
(* with one nonce.  A signature that does not verify fails the call, so    *)
(* only signed IOUs are brought.                                           *)
(***************************************************************************)
EXTENDS AltanBalances, CitizenRegistry

CONSTANTS
    Ious,            \* records [sender, nonce, amount] that were signed
    PocketAmounts,   \* amounts of lock_funds
    MaxPocket        \* bound on a pocket

ASSUME OfflineAssumption ==
    /\ Citizens \subseteq Accounts
    /\ \A iou \in Ious : iou.sender \in Citizens /\ iou.amount \in Nat
    /\ PocketAmounts \subseteq Nat
    /\ MaxPocket \in Nat

VARIABLES
    offlinePockets,   \* account -> amount
    processedIous     \* set of <<sender, nonce>>

offlineVars == <<offlinePockets, processedIous>>

OfflineInit ==
    /\ offlinePockets = [a \in Citizens |-> 0]
    /\ processedIous = {}

lock_funds(caller, amount) ==
    /\ offlinePockets[caller] + amount <= MaxPocket
    /\ free[caller] >= amount
    /\ reserve(caller, amount)
    /\ offlinePockets' = [offlinePockets EXCEPT ![caller] = @ + amount]
    /\ UNCHANGED <<processedIous, citizens>>

\* The free balances after unreserve(sender, v).
Unreserved(sender, v) == [free EXCEPT ![sender] = @ + Releasable(sender, v)]

HonestTransfer(sender, receiver, v, bal) ==
    /\ CanPay(bal, sender, receiver, v)
    /\ free' = PaidFrom(bal, sender, receiver, v)
    /\ UNCHANGED issuance

\* AllowDeath, after the whole pocket was unreserved; an error is ignored.
CanDrain(sender, receiver, v, bal) ==
    \/ v = 0 \/ sender = receiver
    \/ /\ bal[sender] >= v + frozen[sender]
       /\ bal[receiver] + v >= ExistentialDeposit
       /\ frozen[sender] > 0 => bal[sender] >= v + ExistentialDeposit

DrainTransfer(sender, receiver, v, bal) ==
    IF CanDrain(sender, receiver, v, bal) /\ Moves(sender, receiver, v)
    THEN LET rest == bal[sender] - v
             dust == IF rest < ExistentialDeposit THEN rest ELSE 0
         IN  /\ free' = [bal EXCEPT ![sender] = rest - dust, ![receiver] = @ + v]
             /\ issuance' = issuance - dust
    ELSE free' = bal /\ UNCHANGED issuance

\* Mutant: the replay guard is written by the honest path only.
MarkHonest(iou) ==
    processedIous' = IF iou.amount <= offlinePockets[iou.sender]
                     THEN processedIous \cup {<<iou.sender, iou.nonce>>} ELSE processedIous

MarkProcessed(iou) == processedIous' = processedIous \cup {<<iou.sender, iou.nonce>>}

\* Mutant: the pocket is left as it is when the fraud path drains it.
PocketUntouched(iou) ==
    IF iou.amount <= offlinePockets[iou.sender] THEN offlinePockets[iou.sender] - iou.amount
    ELSE offlinePockets[iou.sender]

PocketAfter(iou) ==
    IF iou.amount <= offlinePockets[iou.sender] THEN offlinePockets[iou.sender] - iou.amount
    ELSE 0

settle_iou(receiver, iou) ==
    LET sender == iou.sender
        honest == iou.amount <= offlinePockets[sender]
        paid == IF honest THEN iou.amount ELSE offlinePockets[sender]
    IN  /\ <<sender, iou.nonce>> \notin processedIous
        /\ MarkProcessed(iou)
        /\ reserved' = [reserved EXCEPT ![sender] = @ - Releasable(sender, paid)]
        /\ \/ honest /\ HonestTransfer(sender, receiver, paid, Unreserved(sender, paid))
                     /\ UNCHANGED citizens
           \/ ~honest /\ DrainTransfer(sender, receiver, paid, Unreserved(sender, paid))
                      /\ slash_citizen(sender)
        /\ offlinePockets' = [offlinePockets EXCEPT ![sender] = PocketAfter(iou)]
        /\ UNCHANGED frozen

OfflineStep ==
    \/ \E c \in Citizens, v \in PocketAmounts : lock_funds(c, v)
    \/ \E c \in Citizens, iou \in Ious : settle_iou(c, iou)

-----------------------------------------------------------------------------
(* Correctness                                                             *)

\* The shadow ledger: what a pocket says is what the ledger reserves, after
\* every order of locking, settling and fraud, also when the transfer of the
\* fraud path fails and its error is ignored.
PocketIsReserved == \A c \in Citizens : reserved[c] = offlinePockets[c]

(***************************************************************************)
(* A pocket shrinks only by settling an IOU of its owner that was never    *)
(* settled before, by the amount of the IOU or by all of it, and the money *)
(* is then in somebody's free balance.                                     *)
(***************************************************************************)
PocketPaysSignedIous ==
    [][\A c \in Citizens :
          offlinePockets'[c] < offlinePockets[c] =>
             LET paid == offlinePockets[c] - offlinePockets'[c]
             IN  \E iou \in Ious :
                    /\ iou.sender = c
                    /\ paid = IF iou.amount <= offlinePockets[c] THEN iou.amount
                              ELSE offlinePockets[c]
                    /\ processedIous' \ processedIous = {<<c, iou.nonce>>}
                    /\ \E r \in Accounts : free'[r] >= free[r] + paid
      ]_<<ledger, citizens, offlineVars>>
=============================================================================
