--------------------------- MODULE CustodyProofs ---------------------------
(***************************************************************************)
(* Proofs about the pallets that hold other people's money, as MCCustody   *)
(* composes them: every pocket is reserved, the wall of shame agrees with  *)
(* the registry, pools and vaults pay whom they are for, and the book of   *)
(* credits is balanced: no credit is lost or counted twice, no more is     *)
(* issued than is owed, and what a bank earns is interest on whole periods.*)
(*                                                                         *)
(* The invariant of each pallet is proved of its own steps; in a behaviour *)
(* about another pallet its storage stays as it was at first (Aside).      *)
(***************************************************************************)
EXTENDS MCCustody, LedgerSums

-----------------------------------------------------------------------------
(* Movements of money                                                      *)

\* What a transfer does to the account it takes from.
TransferTakes(src, dst, v, keepAlive) ==
    src # dst =>
        /\ free[src] - free'[src] - v \in 0 .. ExistentialDeposit - 1
        /\ keepAlive => free'[src] = free[src] - v
        /\ free'[dst] = free[dst] + v

\* What a transfer does to the ledger.
TransferMoves(src, dst, v, keepAlive) ==
    /\ LedgerTypeOK'
    /\ issuance' <= issuance
    /\ reserved' = reserved /\ frozen' = frozen
    /\ \A a \in Accounts \ {src} : free'[a] >= free[a]
    /\ \A a \in Accounts \ {src, dst} : free'[a] = free[a]
    /\ src = dst => free' = free

\* A transfer takes the amount and dust, gives the amount, and issues nothing.
LEMMA Transfer ==
    ASSUME LedgerTypeOK, NEW src \in Accounts, NEW dst \in Accounts, NEW v \in Nat,
           NEW keepAlive \in BOOLEAN, transfer(src, dst, v, keepAlive)
    PROVE  TransferMoves(src, dst, v, keepAlive) /\ TransferTakes(src, dst, v, keepAlive)
<1>0. ExistentialDeposit \in Nat \ {0}
  BY LedgerAssumption
<1>1. CASE ~Moves(src, dst, v)
  BY <1>0, <1>1 DEF transfer, TransferMoves, TransferTakes, Moves, LedgerTypeOK
<1>2. CASE Moves(src, dst, v)
  <2>1. /\ free' = [free EXCEPT ![src] = @ - v - Dust(src, v), ![dst] = @ + v]
        /\ issuance' = issuance - Dust(src, v)
        /\ reserved' = reserved /\ frozen' = frozen
    BY <1>2 DEF transfer
  <2>2. /\ v > 0 /\ src # dst /\ free[src] >= v + frozen[src]
        /\ keepAlive => free[src] >= v + ExistentialDeposit
    BY <1>2 DEF transfer, CanTransfer, Moves
  <2>3. Dust(src, v) \in 0 .. ExistentialDeposit - 1 /\ Dust(src, v) <= free[src] - v
    BY <1>0, <2>2 DEF Dust, LedgerTypeOK
  <2>4. keepAlive => Dust(src, v) = 0
    BY <1>0, <2>2 DEF Dust, LedgerTypeOK
  <2>5. /\ free'[src] = free[src] - v - Dust(src, v)
        /\ free'[dst] = free[dst] + v
        /\ \A a \in Accounts \ {src, dst} : free'[a] = free[a]
        /\ free' \in [Accounts -> Nat]
    <3> DEFINE dust == Dust(src, v)
    <3>1. dust \in Int /\ dust <= free[src] - v
      BY <1>0, <2>3
    <3>2. free' = [free EXCEPT ![src] = @ - v - dust, ![dst] = @ + v]
      BY <2>1
    <3> HIDE DEF dust
    <3>3. /\ free'[src] = free[src] - v - dust
          /\ free'[dst] = free[dst] + v
          /\ \A a \in Accounts \ {src, dst} : free'[a] = free[a]
          /\ free' \in [Accounts -> Nat]
      BY <2>2, <3>1, <3>2 DEF LedgerTypeOK
    <3> QED BY <3>3 DEF dust
  <2>6. LedgerTypeOK' /\ issuance' <= issuance
    BY <1>0, <2>1, <2>3, <2>5 DEF LedgerTypeOK
  <2>7. TransferMoves(src, dst, v, keepAlive)
    BY <1>0, <2>1, <2>2, <2>3, <2>5, <2>6 DEF TransferMoves, LedgerTypeOK
  <2>8. TransferTakes(src, dst, v, keepAlive)
    BY <1>0, <2>2, <2>3, <2>4, <2>5 DEF TransferTakes, LedgerTypeOK
  <2> QED BY <2>7, <2>8
<1> QED BY <1>1, <1>2

\* A payment out of given balances moves the amount and no more.
LEMMA PaymentMoves ==
    ASSUME NEW bal \in [Accounts -> Nat], frozen \in [Accounts -> Nat],
           NEW src \in Accounts, NEW dst \in Accounts, NEW v \in Nat, CanPay(bal, src, dst, v)
    PROVE  LET paid == PaidFrom(bal, src, dst, v)
           IN  /\ paid \in [Accounts -> Nat]
               /\ \A a \in Accounts \ {src, dst} : paid[a] = bal[a]
               /\ src # dst => paid[src] = bal[src] - v /\ paid[dst] = bal[dst] + v
               /\ src = dst => paid = bal
<1>1. ExistentialDeposit \in Nat
  BY LedgerAssumption
<1> QED BY <1>1 DEF CanPay, PaidFrom, Moves

-----------------------------------------------------------------------------
(* Offline pockets                                                         *)

PocketInv ==
    /\ LedgerTypeOK
    /\ citizens \in [Citizens -> CitizenRecord]
    /\ offlinePockets \in [Citizens -> Nat]
    /\ PocketIsReserved

\* What Root does to a record keeps exiles exiled.
LEMMA RecordsKeepExile ==
    ASSUME citizens \in [Citizens -> CitizenRecord], NEW c \in Citizens, RegistryStep(c)
    PROVE  /\ citizens' \in [Citizens -> CitizenRecord]
           /\ \A t \in Citizens : citizens[t].status = "Exiled" => citizens'[t].status = "Exiled"
<1>1. Roles \subseteq CitizenRole
  BY RegistryAssumption
<1> QED BY <1>1 DEF RegistryStep, update_role, freeze_citizen, unfreeze_citizen, IsActive,
                    CitizenRecord, CitizenStatus

\* What a pocket pays in a step.
PocketPays(c) ==
    offlinePockets'[c] < offlinePockets[c] =>
       LET paid == offlinePockets[c] - offlinePockets'[c]
       IN  \E iou \in Ious :
              /\ iou.sender = c
              /\ paid = IF iou.amount <= offlinePockets[c] THEN iou.amount
                        ELSE offlinePockets[c]
              /\ processedIous' \ processedIous = {<<c, iou.nonce>>}
              /\ \E r \in Accounts : free'[r] >= free[r] + paid

\* Locking funds reserves what the pocket shows more.
LEMMA LockStep ==
    ASSUME PocketInv, NEW c \in Citizens, NEW v \in PocketAmounts, lock_funds(c, v)
    PROVE  PocketInv' /\ \A k \in Citizens : PocketPays(k)
<1>1. /\ c \in Accounts /\ Citizens \subseteq Accounts /\ v \in Nat
      /\ ExistentialDeposit \in Nat
  BY OfflineAssumption, LedgerAssumption
<1>2. /\ free' = [free EXCEPT ![c] = @ - v]
      /\ reserved' = [reserved EXCEPT ![c] = @ + v]
      /\ frozen' = frozen /\ issuance' = issuance
      /\ free[c] >= v
      /\ offlinePockets' = [offlinePockets EXCEPT ![c] = @ + v]
      /\ citizens' = citizens
  BY DEF lock_funds, reserve
<1>3. LedgerTypeOK'
  BY <1>1, <1>2 DEF PocketInv, LedgerTypeOK
<1>4. offlinePockets' \in [Citizens -> Nat] /\ PocketIsReserved'
  BY <1>1, <1>2 DEF PocketInv, LedgerTypeOK, PocketIsReserved
<1>5. \A k \in Citizens : offlinePockets'[k] >= offlinePockets[k]
  BY <1>1, <1>2 DEF PocketInv
<1>6. ASSUME NEW k \in Citizens PROVE PocketPays(k)
  <2>1. ~(offlinePockets'[k] < offlinePockets[k])
    BY <1>4, <1>5 DEF PocketInv
  <2> QED BY <2>1 DEF PocketPays
<1> QED BY <1>2, <1>3, <1>4, <1>6 DEF PocketInv

\* The drain of a pocket, whether its transfer succeeds or fails, takes from
\* nobody but the sender, and somebody holds what was in the pocket.
LEMMA DrainMoves ==
    ASSUME NEW bal \in [Accounts -> Nat], frozen \in [Accounts -> Nat], issuance \in Int,
           NEW src \in Accounts, NEW dst \in Accounts, NEW v \in Nat, bal[src] >= v,
           DrainTransfer(src, dst, v, bal)
    PROVE  /\ free' \in [Accounts -> Nat]
           /\ issuance' \in Int /\ issuance' <= issuance
           /\ \A a \in Accounts \ {src, dst} : free'[a] = bal[a]
           /\ free' = bal \/ free'[dst] = bal[dst] + v
<1>1. ExistentialDeposit \in Nat
  BY LedgerAssumption
<1>2. CASE ~(CanDrain(src, dst, v, bal) /\ Moves(src, dst, v))
  BY <1>2 DEF DrainTransfer
<1>3. CASE CanDrain(src, dst, v, bal) /\ Moves(src, dst, v)
  <2> DEFINE rest == bal[src] - v
             dust == IF rest < ExistentialDeposit THEN rest ELSE 0
  <2>1. /\ free' = [bal EXCEPT ![src] = rest - dust, ![dst] = @ + v]
        /\ issuance' = issuance - dust
    BY <1>3 DEF DrainTransfer
  <2>2. rest \in Nat /\ dust \in Nat /\ rest - dust \in Nat
    BY <1>1
  <2>3. src # dst
    BY <1>3 DEF Moves
  <2> QED
    <3> HIDE DEF rest, dust
    <3> QED BY <2>1, <2>2, <2>3
<1> QED BY <1>2, <1>3

\* Settling an IOU pays out what the pocket loses, honest or drained.
LEMMA SettleStep ==
    ASSUME PocketInv, NEW c \in Citizens, NEW iou \in Ious, settle_iou(c, iou)
    PROVE  PocketInv' /\ \A k \in Citizens : PocketPays(k)
<1> DEFINE sender == iou.sender
           honest == iou.amount <= offlinePockets[sender]
           paid == IF honest THEN iou.amount ELSE offlinePockets[sender]
           bal == Unreserved(sender, paid)
<1>1. /\ sender \in Citizens /\ iou.amount \in Nat /\ Citizens \subseteq Accounts
      /\ sender \in Accounts /\ c \in Accounts
  BY OfflineAssumption
<1>2. /\ paid \in Nat /\ paid <= offlinePockets[sender]
      /\ offlinePockets[sender] = reserved[sender]
      /\ offlinePockets[sender] \in Nat
  BY <1>1 DEF PocketInv, PocketIsReserved
<1>3. Releasable(sender, paid) = paid
  BY <1>2 DEF Releasable
<1>4. /\ bal \in [Accounts -> Nat]
      /\ bal[sender] = free[sender] + paid
      /\ \A a \in Accounts \ {sender} : bal[a] = free[a]
  BY <1>1, <1>2, <1>3 DEF Unreserved, PocketInv, LedgerTypeOK
<1>5. /\ <<sender, iou.nonce>> \notin processedIous
      /\ processedIous' = processedIous \cup {<<sender, iou.nonce>>}
      /\ reserved' = [reserved EXCEPT ![sender] = @ - paid]
      /\ \/ honest /\ HonestTransfer(sender, c, paid, bal) /\ UNCHANGED citizens
         \/ ~honest /\ DrainTransfer(sender, c, paid, bal) /\ slash_citizen(sender)
      /\ offlinePockets' = [offlinePockets EXCEPT ![sender] = PocketAfter(iou)]
      /\ frozen' = frozen
  BY <1>3 DEF settle_iou, MarkProcessed
<1>6. PocketAfter(iou) = offlinePockets[sender] - paid
  BY <1>2 DEF PocketAfter
<1>7. offlinePockets' \in [Citizens -> Nat] /\ PocketIsReserved'
  <2> HIDE DEF paid, bal, honest
  <2>1. /\ offlinePockets' \in [Citizens -> Nat]
        /\ offlinePockets'[sender] = offlinePockets[sender] - paid
        /\ \A k \in Citizens \ {sender} : offlinePockets'[k] = offlinePockets[k]
    BY <1>1, <1>2, <1>5, <1>6 DEF PocketInv
  <2>2. /\ reserved'[sender] = reserved[sender] - paid
        /\ \A k \in Citizens \ {sender} : reserved'[k] = reserved[k]
    BY <1>1, <1>5 DEF PocketInv, LedgerTypeOK
  <2> QED BY <1>1, <1>2, <2>1, <2>2 DEF PocketInv, PocketIsReserved
<1>8. /\ free' \in [Accounts -> Nat] /\ issuance' \in Int
      /\ \E r \in Accounts : free'[r] >= free[r] + paid
      /\ citizens' \in [Citizens -> CitizenRecord]
  <2> HIDE DEF paid, bal, honest
  <2>0. frozen \in [Accounts -> Nat] /\ free \in [Accounts -> Nat] /\ issuance \in Int
    BY DEF PocketInv, LedgerTypeOK
  <2>1. CASE honest /\ HonestTransfer(sender, c, paid, bal) /\ UNCHANGED citizens
    <3>1. /\ CanPay(bal, sender, c, paid) /\ free' = PaidFrom(bal, sender, c, paid)
          /\ issuance' = issuance
      BY <2>1 DEF HonestTransfer
    <3>2. /\ free' \in [Accounts -> Nat]
          /\ sender # c => free'[c] = bal[c] + paid
          /\ sender = c => free' = bal
      BY <1>1, <1>2, <1>4, <2>0, <3>1, PaymentMoves
    <3>3. free'[c] >= free[c] + paid
      BY <1>1, <1>2, <1>4, <2>0, <3>2
    <3> QED BY <1>1, <2>0, <2>1, <3>1, <3>2, <3>3 DEF PocketInv
  <2>2. CASE ~honest /\ DrainTransfer(sender, c, paid, bal) /\ slash_citizen(sender)
    <3>1. bal[sender] >= paid
      BY <1>1, <1>2, <1>4, <2>0
    <3>2. /\ free' \in [Accounts -> Nat] /\ issuance' \in Int
          /\ free' = bal \/ free'[c] = bal[c] + paid
      BY <1>1, <1>2, <1>4, <2>0, <2>2, <3>1, DrainMoves
    <3>3. bal[c] >= free[c]
      BY <1>1, <1>2, <1>4, <2>0
    <3>4. free'[sender] >= free[sender] + paid \/ free'[c] >= free[c] + paid
      BY <1>1, <1>2, <1>4, <2>0, <3>2, <3>3
    <3>5. citizens' \in [Citizens -> CitizenRecord]
      BY <1>1, <2>2 DEF PocketInv, slash_citizen, CitizenRecord, CitizenStatus
    <3> QED BY <1>1, <3>2, <3>4, <3>5
  <2> QED BY <1>5, <2>1, <2>2
<1>9. PocketInv'
  <2> HIDE DEF paid, bal, honest
  <2>1. reserved' \in [Accounts -> Nat]
    BY <1>1, <1>2, <1>5 DEF PocketInv, LedgerTypeOK
  <2> QED BY <1>5, <1>7, <1>8, <2>1 DEF PocketInv, LedgerTypeOK
<1>10. ASSUME NEW k \in Citizens PROVE PocketPays(k)
  <2>1. SUFFICES ASSUME offlinePockets'[k] < offlinePockets[k]
                 PROVE  /\ sender = k
                        /\ offlinePockets[k] - offlinePockets'[k] = paid
                        /\ processedIous' \ processedIous = {<<k, iou.nonce>>}
    BY <1>8 DEF PocketPays
  <2> HIDE DEF paid, bal, honest
  <2>2. /\ offlinePockets'[sender] = offlinePockets[sender] - paid
        /\ \A a \in Citizens \ {sender} : offlinePockets'[a] = offlinePockets[a]
    BY <1>1, <1>5, <1>6 DEF PocketInv
  <2>3. sender = k
    BY <1>7, <2>1, <2>2 DEF PocketInv
  <2> QED BY <1>2, <1>5, <2>2, <2>3
<1> QED BY <1>9, <1>10

\* A settlement moves money between citizens and issues none.
LEMMA SettleLeaves ==
    ASSUME PocketInv, NEW c \in Citizens, NEW iou \in Ious, settle_iou(c, iou)
    PROVE  issuance' <= issuance /\ \A a \in Accounts \ Citizens : free'[a] = free[a]
<1> DEFINE sender == iou.sender
           honest == iou.amount <= offlinePockets[sender]
           paid == IF honest THEN iou.amount ELSE offlinePockets[sender]
           bal == Unreserved(sender, paid)
<1>1. /\ sender \in Citizens /\ iou.amount \in Nat /\ Citizens \subseteq Accounts
      /\ sender \in Accounts /\ c \in Accounts
  BY OfflineAssumption
<1>2. /\ paid \in Nat /\ paid <= reserved[sender]
  BY <1>1 DEF PocketInv, PocketIsReserved
<1>3. Releasable(sender, paid) = paid
  BY <1>2 DEF Releasable
<1>4. /\ bal \in [Accounts -> Nat] /\ bal[sender] >= paid
      /\ \A a \in Accounts \ {sender} : bal[a] = free[a]
  BY <1>1, <1>2, <1>3 DEF Unreserved, PocketInv, LedgerTypeOK
<1>5. \/ HonestTransfer(sender, c, paid, bal)
      \/ DrainTransfer(sender, c, paid, bal)
  BY DEF settle_iou
<1>6. frozen \in [Accounts -> Nat] /\ free \in [Accounts -> Nat] /\ issuance \in Int
  BY DEF PocketInv, LedgerTypeOK
<1> HIDE DEF paid, bal, honest, sender
<1>7. CASE HonestTransfer(sender, c, paid, bal)
  <2>1. /\ CanPay(bal, sender, c, paid) /\ free' = PaidFrom(bal, sender, c, paid)
        /\ issuance' = issuance
    BY <1>7 DEF HonestTransfer
  <2>2. \A a \in Accounts \ {sender, c} : free'[a] = bal[a]
    BY <1>1, <1>2, <1>4, <1>6, <2>1, PaymentMoves
  <2> QED BY <1>1, <1>4, <1>6, <2>1, <2>2
<1>8. CASE DrainTransfer(sender, c, paid, bal)
  <2>1. issuance' <= issuance /\ \A a \in Accounts \ {sender, c} : free'[a] = bal[a]
    BY <1>1, <1>2, <1>4, <1>6, <1>8, DrainMoves
  <2> QED BY <1>1, <1>4, <2>1
<1> QED BY <1>5, <1>7, <1>8

\* A citizen's transfer and Root's calls leave pockets and reserves alone.
LEMMA CitizenStepMoves ==
    ASSUME LedgerTypeOK, citizens \in [Citizens -> CitizenRecord], CitizenStep,
           Citizens \subseteq Accounts
    PROVE  /\ LedgerTypeOK' /\ reserved' = reserved /\ issuance' <= issuance
           /\ \A a \in Accounts \ Citizens : free'[a] = free[a]
           /\ citizens' \in [Citizens -> CitizenRecord]
           /\ \A t \in Citizens : citizens[t].status = "Exiled" => citizens'[t].status = "Exiled"
<1>1. CASE \E c \in Citizens : RegistryStep(c) /\ UNCHANGED ledger
  <2>1. UNCHANGED ledger
    BY <1>1
  <2>2. LedgerTypeOK' /\ reserved' = reserved /\ issuance' = issuance /\ free' = free
    BY <2>1 DEF ledger, LedgerTypeOK
  <2> QED BY <1>1, <2>2, RecordsKeepExile DEF LedgerTypeOK
<1>2. CASE \E src, dst \in Citizens, v \in BountyAmounts :
              transfer(src, dst, v, FALSE) /\ UNCHANGED citizens
  <2>1. PICK src \in Citizens, dst \in Citizens, v \in BountyAmounts :
           transfer(src, dst, v, FALSE) /\ UNCHANGED citizens
    BY <1>2
  <2>2. src \in Accounts /\ dst \in Accounts /\ v \in Nat
    BY BlackBookAssumption
  <2>3. TransferMoves(src, dst, v, FALSE)
    BY <2>1, <2>2, Transfer
  <2> QED BY <2>1, <2>3 DEF TransferMoves
<1> QED BY <1>1, <1>2 DEF CitizenStep

-----------------------------------------------------------------------------
(* The black book                                                          *)

Payout == [bounty_hunter : Citizens, unlock_block : Nat, amount : Nat]

BookTypeOK ==
    /\ DOMAIN wallOfShame \subseteq Citizens
    /\ DOMAIN bountyPools \subseteq Citizens
    /\ \A t \in DOMAIN bountyPools : bountyPools[t] \in Nat
    /\ DOMAIN lockedBountyPayouts \subseteq Citizens
    /\ \A t \in DOMAIN lockedBountyPayouts : lockedBountyPayouts[t] \in Payout

BountyInv ==
    /\ LedgerTypeOK
    /\ block \in Nat
    /\ citizens \in [Citizens -> CitizenRecord]
    /\ BookTypeOK
    /\ BookAgrees
    /\ ExileIsTerminal

\* What happens to a pool in a step.
PoolIsKept(t) ==
    \/ t \in DOMAIN bountyPools' /\ bountyPools'[t] >= bountyPools[t]
    \/ /\ t \in DOMAIN lockedBountyPayouts' \ DOMAIN lockedBountyPayouts
       /\ lockedBountyPayouts'[t].amount = bountyPools[t]
       /\ lockedBountyPayouts'[t].unlock_block = block + BountyLockPeriod

\* What happens to a payout in a step.
PayoutIsKept(t) ==
    LET payout == lockedBountyPayouts[t]
    IN  \/ t \in DOMAIN lockedBountyPayouts' /\ lockedBountyPayouts'[t] = payout
        \/ /\ t \notin DOMAIN lockedBountyPayouts'
           /\ \/ UNCHANGED ledger
              \/ /\ block >= payout.unlock_block
                 /\ payout.bounty_hunter # t =>
                       free'[payout.bounty_hunter] = free[payout.bounty_hunter] + payout.amount

Vested ==
    /\ \A t \in DOMAIN bountyPools : PoolIsKept(t)
    /\ \A t \in DOMAIN lockedBountyPayouts : PayoutIsKept(t)

\* What a bounty step leaves alone beside the book.
BountyLeaves ==
    /\ reserved' = reserved
    /\ issuance' <= issuance
    /\ \A a \in Accounts \ (Citizens \cup {StateTreasury}) : free'[a] = free[a]

\* Steps that leave the book alone and exile nobody back.
LEMMA BookStays ==
    ASSUME BountyInv, UNCHANGED bookVars, LedgerTypeOK', block' \in Nat,
           citizens' \in [Citizens -> CitizenRecord],
           \A t \in Citizens : citizens[t].status = "Exiled" => citizens'[t].status = "Exiled"
    PROVE  BountyInv' /\ Vested
<1>1. /\ wallOfShame' = wallOfShame /\ bountyPools' = bountyPools
      /\ lockedBountyPayouts' = lockedBountyPayouts
  BY DEF bookVars
<1>2. BookTypeOK' /\ BookAgrees' /\ ExileIsTerminal'
  BY <1>1 DEF BountyInv, BookTypeOK, BookAgrees, ExileIsTerminal
<1>3. Vested
  BY <1>1 DEF Vested, PoolIsKept, PayoutIsKept, BountyInv, BookTypeOK
<1> QED BY <1>2, <1>3 DEF BountyInv

\* A warrant is for somebody who is not on the wall yet.
LEMMA WarrantStep ==
    ASSUME BountyInv, NEW t \in Citizens, NEW fugitive \in BOOLEAN,
           NEW v \in BountyAmounts \cup {0}, condemn_and_issue_warrant(t, fugitive, v)
    PROVE  BountyInv' /\ Vested /\ BountyLeaves
<1> DEFINE seeded == fugitive /\ v > 0
           seed == IF seeded THEN v ELSE 0
           all == free[t]
           paid == PaidFrom(free, t, StateTreasury, all)
<1>1. /\ v \in Nat /\ seed \in Nat /\ Citizens \subseteq Accounts /\ t \in Accounts
      /\ StateTreasury \in Accounts /\ StateTreasury # t
  BY BlackBookAssumption
<1>2. /\ CanExile(t)
      /\ citizens' = [citizens EXCEPT ![t].status = "Exiled", ![t].role = "Regular"]
      /\ Confiscate(t, seed)
      /\ wallOfShame' = Put(wallOfShame, t, IF fugitive THEN "AtLarge" ELSE "NoFugitive")
      /\ bountyPools' = IF seeded THEN Put(bountyPools, t, v) ELSE bountyPools
      /\ lockedBountyPayouts' = lockedBountyPayouts /\ block' = block
  BY DEF condemn_and_issue_warrant, do_exile
<1>3. t \notin DOMAIN wallOfShame
  BY <1>2 DEF CanExile, BountyInv, BookAgrees, ExileIsTerminal
<1>4. t \notin DOMAIN bountyPools /\ t \notin DOMAIN lockedBountyPayouts
  BY <1>3 DEF BountyInv, BookAgrees, ExileIsTerminal
<1>5. /\ citizens' \in [Citizens -> CitizenRecord]
      /\ \A c \in Citizens : citizens[c].status = "Exiled" => citizens'[c].status = "Exiled"
      /\ citizens'[t].status = "Exiled"
  <2> DEFINE new == [citizens[t] EXCEPT !.status = "Exiled", !.role = "Regular"]
  <2>1. citizens \in [Citizens -> CitizenRecord]
    BY DEF BountyInv
  <2>2. new \in CitizenRecord /\ new.status = "Exiled"
    BY <2>1 DEF CitizenRecord, CitizenStatus, CitizenRole
  <2>3. citizens' = [citizens EXCEPT ![t] = new]
    <3>1. citizens' = [citizens EXCEPT ![t].status = "Exiled", ![t].role = "Regular"]
      BY <1>2
    <3> QED BY <2>1, <3>1 DEF CitizenRecord
  <2> HIDE DEF new
  <2> QED BY <2>1, <2>2, <2>3
<1>6. /\ DOMAIN wallOfShame' = DOMAIN wallOfShame \cup {t}
      /\ \A c \in DOMAIN wallOfShame : wallOfShame'[c] = wallOfShame[c]
      /\ wallOfShame'[t] = IF fugitive THEN "AtLarge" ELSE "NoFugitive"
  BY <1>2, <1>3 DEF Put
<1>7. /\ DOMAIN bountyPools' = IF seeded THEN DOMAIN bountyPools \cup {t} ELSE DOMAIN bountyPools
      /\ \A c \in DOMAIN bountyPools : bountyPools'[c] = bountyPools[c]
      /\ seeded => bountyPools'[t] = v
  BY <1>2, <1>4 DEF Put
<1>8. LedgerTypeOK' /\ BountyLeaves
  <2>0. free \in [Accounts -> Nat] /\ frozen \in [Accounts -> Nat] /\ issuance \in Int
    BY DEF BountyInv, LedgerTypeOK
  <2>1. /\ CanTransfer(t, StateTreasury, all, FALSE) /\ CanPay(paid, StateTreasury, t, seed)
        /\ free' = PaidFrom(paid, StateTreasury, t, seed)
        /\ reserved' = reserved /\ frozen' = frozen /\ issuance' = issuance
    BY <1>2 DEF Confiscate
  <2>2. /\ paid \in [Accounts -> Nat]
        /\ \A a \in Accounts \ {t, StateTreasury} : paid[a] = free[a]
    BY <1>1, <2>0 DEF PaidFrom, Moves
  <2> HIDE DEF paid, seed
  <2>3. /\ free' \in [Accounts -> Nat]
        /\ \A a \in Accounts \ {t, StateTreasury} : free'[a] = paid[a]
    BY <1>1, <2>0, <2>1, <2>2, PaymentMoves
  <2>4. LedgerTypeOK'
    BY <2>1, <2>3 DEF BountyInv, LedgerTypeOK
  <2>5. BountyLeaves
    BY <2>0, <2>1, <2>2, <2>3 DEF BountyLeaves
  <2> QED BY <2>4, <2>5
<1>9. BookTypeOK'
  BY <1>1, <1>2, <1>6, <1>7 DEF BountyInv, BookTypeOK
<1>10. BookAgrees' /\ ExileIsTerminal'
  BY <1>2, <1>4, <1>5, <1>6, <1>7 DEF BountyInv, BookTypeOK, BookAgrees, ExileIsTerminal
<1>11. Vested
  BY <1>2, <1>7 DEF Vested, PoolIsKept, PayoutIsKept, BountyInv, BookTypeOK
<1> QED BY <1>2, <1>5, <1>8, <1>9, <1>10, <1>11 DEF BountyInv

\* A donation adds to the pool of a fugitive at large.
LEMMA DonationStep ==
    ASSUME BountyInv, NEW c \in Citizens, NEW t \in Citizens, NEW v \in BountyAmounts,
           donate_to_bounty(c, t, v)
    PROVE  BountyInv' /\ Vested /\ BountyLeaves
<1>1. v \in Nat /\ Citizens \subseteq Accounts /\ c \in Accounts /\ t \in Accounts
  BY BlackBookAssumption
<1>2. /\ IsAtLarge(t) /\ transfer(c, t, v, TRUE)
      /\ bountyPools' = Put(bountyPools, t, PoolOf(t) + v)
      /\ block' = block /\ citizens' = citizens /\ wallOfShame' = wallOfShame
      /\ lockedBountyPayouts' = lockedBountyPayouts
  BY DEF donate_to_bounty
<1>3. TransferMoves(c, t, v, TRUE)
  BY <1>1, <1>2, Transfer DEF BountyInv
<1>4. PoolOf(t) \in Nat /\ (t \in DOMAIN bountyPools => PoolOf(t) = bountyPools[t])
  BY DEF PoolOf, BountyInv, BookTypeOK
<1>5. /\ DOMAIN bountyPools' = DOMAIN bountyPools \cup {t}
      /\ bountyPools'[t] = PoolOf(t) + v
      /\ \A k \in DOMAIN bountyPools \ {t} : bountyPools'[k] = bountyPools[k]
  BY <1>2 DEF Put
<1>6. BookTypeOK'
  BY <1>1, <1>2, <1>4, <1>5 DEF BountyInv, BookTypeOK
<1>7. BookAgrees' /\ ExileIsTerminal'
  BY <1>2, <1>5 DEF BountyInv, BookAgrees, ExileIsTerminal, IsAtLarge
<1>8. ASSUME NEW k \in DOMAIN bountyPools PROVE PoolIsKept(k)
  <2>1. CASE k = t
    BY <1>1, <1>4, <1>5, <2>1 DEF PoolIsKept
  <2>2. CASE k # t
    BY <1>5, <2>2 DEF PoolIsKept, BountyInv, BookTypeOK
  <2> QED BY <2>1, <2>2
<1>9. Vested
  BY <1>2, <1>8 DEF Vested, PayoutIsKept
<1>10. BountyLeaves
  BY <1>1, <1>3 DEF BountyLeaves, TransferMoves
<1> QED BY <1>2, <1>3, <1>6, <1>7, <1>9, <1>10 DEF BountyInv, TransferMoves

\* A capture turns the pool into a payout of the same amount.
LEMMA CaptureStep ==
    ASSUME BountyInv, NEW t \in Citizens, NEW c \in Citizens, register_capture_and_payout(t, c)
    PROVE  BountyInv' /\ Vested /\ BountyLeaves
<1> DEFINE payout == [bounty_hunter |-> c, unlock_block |-> block + BountyLockPeriod,
                      amount |-> PoolOf(t)]
<1>1. /\ IsAtLarge(t) /\ t \notin DOMAIN lockedBountyPayouts /\ PoolOf(t) > 0
      /\ wallOfShame' = Put(wallOfShame, t, "Captured")
      /\ lockedBountyPayouts' = Put(lockedBountyPayouts, t, payout)
      /\ bountyPools' = Without(bountyPools, t)
      /\ UNCHANGED ledger /\ block' = block /\ citizens' = citizens
  BY DEF register_capture_and_payout, ClosePool
<1>2. BountyLockPeriod \in Nat
  BY BlackBookAssumption
<1>3. t \in DOMAIN bountyPools /\ PoolOf(t) = bountyPools[t] /\ PoolOf(t) \in Nat
  BY <1>1 DEF PoolOf, BountyInv, BookTypeOK
<1>4. payout \in Payout
  BY <1>2, <1>3 DEF Payout, BountyInv
<1> HIDE DEF payout
<1>5. /\ DOMAIN wallOfShame' = DOMAIN wallOfShame /\ wallOfShame'[t] = "Captured"
      /\ \A k \in DOMAIN wallOfShame \ {t} : wallOfShame'[k] = wallOfShame[k]
  BY <1>1 DEF Put, IsAtLarge
<1>6. /\ DOMAIN lockedBountyPayouts' = DOMAIN lockedBountyPayouts \cup {t}
      /\ lockedBountyPayouts'[t] = payout
      /\ \A k \in DOMAIN lockedBountyPayouts : lockedBountyPayouts'[k] = lockedBountyPayouts[k]
  BY <1>1 DEF Put
<1>7. /\ DOMAIN bountyPools' = DOMAIN bountyPools \ {t}
      /\ \A k \in DOMAIN bountyPools \ {t} : bountyPools'[k] = bountyPools[k]
  BY <1>1 DEF Without
<1>8. LedgerTypeOK' /\ BountyLeaves
  BY <1>1 DEF BountyInv, LedgerTypeOK, BountyLeaves, ledger
<1>9. BookTypeOK'
  BY <1>4, <1>5, <1>6, <1>7 DEF BountyInv, BookTypeOK
<1>10. BookAgrees' /\ ExileIsTerminal'
  BY <1>1, <1>5, <1>6, <1>7 DEF BountyInv, BookAgrees, ExileIsTerminal, IsAtLarge
<1>11. PoolIsKept(t)
  BY <1>1, <1>3, <1>6 DEF PoolIsKept, payout
<1>12. Vested
  BY <1>6, <1>7, <1>11 DEF Vested, PoolIsKept, PayoutIsKept, BountyInv, BookTypeOK
<1> QED BY <1>1, <1>8, <1>9, <1>10, <1>12 DEF BountyInv

\* A claim pays the hunter the amount of the payout.
LEMMA ClaimStep ==
    ASSUME BountyInv, NEW t \in Citizens, claim_bounty_payout(t)
    PROVE  BountyInv' /\ Vested /\ BountyLeaves
<1> DEFINE hunter == lockedBountyPayouts[t].bounty_hunter
           amount == lockedBountyPayouts[t].amount
<1>1. /\ t \in DOMAIN lockedBountyPayouts
      /\ block >= lockedBountyPayouts[t].unlock_block
      /\ transfer(t, hunter, amount, FALSE)
      /\ lockedBountyPayouts' = Without(lockedBountyPayouts, t)
      /\ block' = block /\ citizens' = citizens
      /\ wallOfShame' = wallOfShame /\ bountyPools' = bountyPools
  BY DEF claim_bounty_payout, Unlocked
<1>2. /\ hunter \in Citizens /\ amount \in Nat /\ Citizens \subseteq Accounts
      /\ hunter \in Accounts /\ t \in Accounts
  BY <1>1, BlackBookAssumption DEF BountyInv, BookTypeOK, Payout
<1>3. TransferMoves(t, hunter, amount, FALSE) /\ TransferTakes(t, hunter, amount, FALSE)
  <2> HIDE DEF hunter, amount
  <2> QED BY <1>1, <1>2, Transfer DEF BountyInv
<1>4. /\ DOMAIN lockedBountyPayouts' = DOMAIN lockedBountyPayouts \ {t}
      /\ \A k \in DOMAIN lockedBountyPayouts \ {t} :
            lockedBountyPayouts'[k] = lockedBountyPayouts[k]
  BY <1>1 DEF Without
<1>5. BookTypeOK' /\ BookAgrees' /\ ExileIsTerminal'
  BY <1>1, <1>4 DEF BountyInv, BookTypeOK, BookAgrees, ExileIsTerminal
<1>6. PayoutIsKept(t)
  BY <1>1, <1>3, <1>4 DEF PayoutIsKept, TransferTakes
<1>7. Vested
  BY <1>1, <1>4, <1>6 DEF Vested, PoolIsKept, PayoutIsKept, BountyInv, BookTypeOK
<1>8. BountyLeaves
  BY <1>2, <1>3 DEF BountyLeaves, TransferMoves
<1> QED BY <1>1, <1>3, <1>5, <1>7, <1>8 DEF BountyInv, TransferMoves

\* Root cancels a payout and no money moves.
LEMMA CancelStep ==
    ASSUME BountyInv, NEW t \in Citizens, cancel_bounty_payout(t)
    PROVE  BountyInv' /\ Vested /\ BountyLeaves
<1>1. /\ t \in DOMAIN lockedBountyPayouts
      /\ lockedBountyPayouts' = Without(lockedBountyPayouts, t)
      /\ UNCHANGED ledger /\ block' = block /\ citizens' = citizens
      /\ wallOfShame' = wallOfShame /\ bountyPools' = bountyPools
  BY DEF cancel_bounty_payout
<1>2. /\ DOMAIN lockedBountyPayouts' = DOMAIN lockedBountyPayouts \ {t}
      /\ \A k \in DOMAIN lockedBountyPayouts \ {t} :
            lockedBountyPayouts'[k] = lockedBountyPayouts[k]
  BY <1>1 DEF Without
<1>3. LedgerTypeOK' /\ BountyLeaves
  BY <1>1 DEF BountyInv, LedgerTypeOK, BountyLeaves, ledger
<1>4. BookTypeOK' /\ BookAgrees' /\ ExileIsTerminal'
  BY <1>1, <1>2 DEF BountyInv, BookTypeOK, BookAgrees, ExileIsTerminal
<1>5. Vested
  BY <1>1, <1>2 DEF Vested, PoolIsKept, PayoutIsKept, BountyInv, BookTypeOK
<1> QED BY <1>1, <1>3, <1>4, <1>5 DEF BountyInv

\* Every step of the black book keeps its invariant and the bounties.
LEMMA BountySteps ==
    ASSUME BountyInv, BountyStep
    PROVE  BountyInv' /\ Vested /\ BountyLeaves
<1>1. CASE NextBlock /\ UNCHANGED <<ledger, citizens, bookVars>>
  <2>1. LedgerTypeOK' /\ BountyLeaves /\ block' \in Nat /\ citizens' = citizens
    BY <1>1 DEF BountyInv, LedgerTypeOK, BountyLeaves, ledger, NextBlock
  <2> QED BY <1>1, <2>1, BookStays DEF BountyInv
<1> QED BY <1>1, WarrantStep, DonationStep, CaptureStep, ClaimStep, CancelStep DEF BountyStep

-----------------------------------------------------------------------------
(* Keyless vaults                                                          *)

VaultInv ==
    /\ LedgerTypeOK
    /\ DOMAIN vaults \subseteq VaultAddresses
    /\ \A k \in DOMAIN vaults : vaults[k] \in [total_deposited : Nat, total_withdrawn : Nat]

\* What a vault pays in a step.
VaultPays(k) ==
    LET left == free[k] - free'[k]
        booked == vaults'[k].total_withdrawn - vaults[k].total_withdrawn
    IN  left > 0 =>
           /\ booked > 0 /\ left - booked \in 0 .. ExistentialDeposit - 1
           /\ free'[k[1]] = free[k[1]] + booked

\* What a vault step leaves alone beside the vaults.
VaultLeaves ==
    /\ reserved' = reserved
    /\ issuance' <= issuance
    /\ \A a \in Accounts \ (Owners \cup VaultAddresses) : free'[a] = free[a]

\* An address is an account of its own, and tells its owner.
LEMMA Addresses ==
    ASSUME NEW o \in Owners, NEW i \in VaultIndices
    PROVE  /\ vault_account(o, i) = <<o, i>>
           /\ <<o, i>> \in VaultAddresses
           /\ <<o, i>> \in Accounts /\ o \in Accounts
           /\ <<o, i>> # o
           /\ <<o, i>>[1] = o
<1>1. vault_account(o, i) = <<o, i>> /\ <<o, i>> \in VaultAddresses
  BY DEF vault_account, VaultAddresses
<1>2. /\ Owners \cup VaultAddresses \subseteq Accounts /\ Owners \cap VaultAddresses = {}
  BY VaultAssumption
<1>3. <<o, i>> # o
  BY <1>1, <1>2
<1> QED BY <1>1, <1>2, <1>3

\* Steps in which no vault has less money.
LEMMA VaultsStay ==
    ASSUME VaultInv, \A k \in DOMAIN vaults : free'[k] >= free[k], LedgerTypeOK'
    PROVE  \A k \in DOMAIN vaults : VaultPays(k)
<1>1. \A k \in DOMAIN vaults : free[k] \in Int /\ free'[k] \in Int
  BY VaultAssumption DEF VaultInv, LedgerTypeOK
<1> QED BY <1>1 DEF VaultPays

\* A withdrawal pays the owner what it books, and loses dust at most.
LEMMA WithdrawalStep ==
    ASSUME VaultInv, NEW o \in Owners, NEW i \in VaultIndices, NEW v \in VaultAmounts,
           withdraw_to_owner(o, i, v)
    PROVE  VaultInv' /\ (\A k \in DOMAIN vaults : VaultPays(k)) /\ VaultLeaves
<1> DEFINE key == <<o, i>>
<1>1. /\ key \in DOMAIN vaults /\ transfer(key, o, v, FALSE)
      /\ vaults' = [vaults EXCEPT ![key].total_withdrawn = @ + v]
  BY Addresses DEF withdraw_to_owner, RecordWithdrawn
<1>2. /\ key \in Accounts /\ o \in Accounts /\ key # o /\ key[1] = o /\ v \in Nat
      /\ key \in VaultAddresses
  BY Addresses, VaultAssumption
<1>3. Owners \cap VaultAddresses = {} /\ Owners \cup VaultAddresses \subseteq Accounts
  BY VaultAssumption
<1>4. ExistentialDeposit \in Nat \ {0}
  BY LedgerAssumption
<1> HIDE DEF key
<1>5. TransferMoves(key, o, v, FALSE) /\ TransferTakes(key, o, v, FALSE)
  BY <1>1, <1>2, Transfer DEF VaultInv
<1>6. /\ DOMAIN vaults' = DOMAIN vaults
      /\ vaults'[key] \in [total_deposited : Nat, total_withdrawn : Nat]
      /\ vaults'[key].total_withdrawn = vaults[key].total_withdrawn + v
      /\ \A k \in DOMAIN vaults \ {key} : vaults'[k] = vaults[k]
  BY <1>1, <1>2 DEF VaultInv
<1>7. VaultInv'
  BY <1>5, <1>6 DEF VaultInv, TransferMoves
<1>8. VaultPays(key)
  <2>1. /\ free[key] - free'[key] - v \in 0 .. ExistentialDeposit - 1
        /\ free'[o] = free[o] + v
    BY <1>2, <1>5 DEF TransferTakes
  <2>2. vaults[key].total_withdrawn \in Nat
    BY <1>1 DEF VaultInv
  <2>3. vaults'[key].total_withdrawn - vaults[key].total_withdrawn = v
    BY <1>2, <1>6, <2>2
  <2>4. free[key] \in Nat /\ free'[key] \in Nat
    BY <1>2, <1>5 DEF VaultInv, LedgerTypeOK, TransferMoves
  <2>5. CASE v > 0
    BY <1>2, <1>4, <2>1, <2>3, <2>4, <2>5 DEF VaultPays
  <2>6. CASE v = 0
    <3>1. free' = free
      BY <1>1, <2>6 DEF transfer, Moves
    <3> QED BY <2>4, <3>1 DEF VaultPays
  <2> QED BY <1>2, <2>5, <2>6
<1>9. ASSUME NEW k \in DOMAIN vaults, k # key PROVE VaultPays(k)
  <2>1. k \in Accounts /\ k # o
    BY <1>2, <1>3 DEF VaultInv
  <2>2. free'[k] = free[k] /\ free[k] \in Nat
    BY <1>5, <1>9, <2>1 DEF TransferMoves, VaultInv, LedgerTypeOK
  <2> QED BY <2>2 DEF VaultPays
<1>10. VaultLeaves
  BY <1>2, <1>5 DEF VaultLeaves, TransferMoves
<1> QED BY <1>7, <1>8, <1>9, <1>10

\* Payments of owners only add to vaults.
LEMMA PayInStep ==
    ASSUME VaultInv, PayIn
    PROVE  VaultInv' /\ (\A k \in DOMAIN vaults : VaultPays(k)) /\ VaultLeaves
<1>1. PICK src \in Owners, dst \in VaultAddresses \cup Owners, v \in VaultAmounts :
         transfer(src, dst, v, FALSE)
  BY DEF PayIn
<1>2. /\ src \in Accounts /\ dst \in Accounts /\ v \in Nat
      /\ Owners \cap VaultAddresses = {} /\ VaultAddresses \subseteq Accounts
  BY VaultAssumption
<1>3. TransferMoves(src, dst, v, FALSE)
  BY <1>1, <1>2, Transfer DEF VaultInv
<1>4. VaultInv'
  BY <1>3 DEF PayIn, vaultVars, VaultInv, TransferMoves
<1>5. \A k \in DOMAIN vaults : free'[k] >= free[k]
  BY <1>2, <1>3 DEF VaultInv, TransferMoves
<1>6. VaultLeaves
  BY <1>2, <1>3 DEF VaultLeaves, TransferMoves
<1> QED BY <1>3, <1>4, <1>5, <1>6, VaultsStay DEF TransferMoves

\* Every step of the vaults keeps their invariant and pays owners.
LEMMA VaultSteps ==
    ASSUME VaultInv, VaultStep
    PROVE  VaultInv' /\ (\A k \in DOMAIN vaults : VaultPays(k)) /\ VaultLeaves
<1>1. ASSUME UNCHANGED ledger
      PROVE  LedgerTypeOK' /\ VaultLeaves /\ \A k \in DOMAIN vaults : VaultPays(k)
  <2>1. /\ free' = free /\ reserved' = reserved /\ frozen' = frozen /\ issuance' = issuance
    BY <1>1 DEF ledger
  <2>2. LedgerTypeOK' /\ VaultLeaves
    BY <2>1 DEF VaultInv, LedgerTypeOK, VaultLeaves
  <2>3. \A k \in DOMAIN vaults : free'[k] >= free[k]
    BY <2>1, VaultAssumption DEF VaultInv, LedgerTypeOK
  <2> QED BY <2>2, <2>3, VaultsStay
<1>2. CASE \E o \in Owners, i \in VaultIndices : create_vault(o, i)
  <2>1. PICK o \in Owners, i \in VaultIndices : create_vault(o, i)
    BY <1>2
  <2>2. <<o, i>> \in VaultAddresses
    BY Addresses
  <2>3. /\ vaults' = Put(vaults, <<o, i>>, [total_deposited |-> 0, total_withdrawn |-> 0])
        /\ UNCHANGED ledger
    BY <2>1 DEF create_vault
  <2>4. VaultInv'
    BY <1>1, <2>2, <2>3 DEF VaultInv, Put
  <2> QED BY <1>1, <2>3, <2>4
<1>3. CASE \E o \in Owners, i \in VaultIndices, v \in VaultAmounts : record_inbound(o, i, v)
  <2>1. PICK o \in Owners, i \in VaultIndices, v \in VaultAmounts : record_inbound(o, i, v)
    BY <1>3
  <2> DEFINE key == <<o, i>>
  <2>2. /\ key \in DOMAIN vaults /\ UNCHANGED ledger
        /\ vaults' = [vaults EXCEPT ![key].total_deposited = @ + v]
    BY <2>1 DEF record_inbound
  <2>3. v \in Nat
    BY VaultAssumption
  <2> HIDE DEF key
  <2>4. VaultInv'
    BY <1>1, <2>2, <2>3 DEF VaultInv
  <2> QED BY <1>1, <2>2, <2>4
<1> QED BY <1>2, <1>3, WithdrawalStep, PayInStep DEF VaultStep

-----------------------------------------------------------------------------
(* Credits: interest                                                       *)

\* The interest on out over the periods of n blocks.
InterestOver(out, rate, n) == (out * rate * (n \div InterestPeriodBlocks)) \div 10000

\* Interest is a natural number.
LEMMA InterestIsNatural ==
    ASSUME NEW out \in Nat, NEW rate \in Nat, NEW n \in Nat
    PROVE  InterestOver(out, rate, n) \in Nat
<1>1. InterestPeriodBlocks \in Nat \ {0}
  BY OperatorAssumption
<1> DEFINE p == n \div InterestPeriodBlocks
<1>2. p \in Nat
  BY <1>1, DivisionOfSum
<1> HIDE DEF p
<1> DEFINE m == out * rate * p
<1>3. m \in Nat
  BY <1>2
<1> HIDE DEF m
<1>4. m \div 10000 \in Nat
  BY <1>3, DivisionOfSum
<1> QED BY <1>4 DEF InterestOver, m, p

\* Interest over two spans of whole periods, on no more than the amount, is no
\* more than the interest on the amount over both: periods that are cut short
\* are lost and never charged twice.
LEMMA InterestGrows ==
    ASSUME NEW out \in Nat, NEW amount \in Nat, out <= amount, NEW rate \in Nat,
           NEW early \in Nat, NEW late \in Nat
    PROVE  InterestOver(out, rate, late) + InterestOver(amount, rate, early)
              <= InterestOver(amount, rate, early + late)
<1>1. InterestPeriodBlocks \in Nat \ {0}
  BY OperatorAssumption
<1> DEFINE p == early \div InterestPeriodBlocks
           q == late \div InterestPeriodBlocks
           s == (early + late) \div InterestPeriodBlocks
<1>2. p \in Nat /\ q \in Nat /\ s \in Nat /\ p + q <= s
  BY <1>1, DivisionOfSum
<1> HIDE DEF p, q, s
<1> DEFINE c == out * rate
           d == amount * rate
<1>3. c \in Nat /\ d \in Nat /\ c <= d
  BY ProductKeepsOrder
<1> HIDE DEF c, d
<1>4. c * q \in Nat /\ d * q \in Nat /\ c * q <= d * q
  BY <1>2, <1>3, ProductKeepsOrder
<1>5. (p + q) * d \in Nat /\ s * d \in Nat /\ (p + q) * d <= s * d
  BY <1>2, <1>3, ProductKeepsOrder
<1>6. (p + q) * d = d * p + d * q /\ s * d = d * s /\ d * p \in Nat /\ d * q \in Nat
  BY <1>2, <1>3
<1> DEFINE x == c * q
           y == d * p
           z == d * s
<1>7. x \in Nat /\ y \in Nat /\ z \in Nat /\ x + y <= z
  BY <1>4, <1>5, <1>6
<1> HIDE DEF x, y, z
<1>8. /\ x \div 10000 \in Nat /\ y \div 10000 \in Nat
      /\ x \div 10000 + y \div 10000 <= (x + y) \div 10000
      /\ (x + y) \div 10000 \in Nat
  BY <1>7, DivisionOfSum
<1>9. (x + y) \div 10000 <= z \div 10000 /\ z \div 10000 \in Nat
  BY <1>7, DivisionKeepsOrder
<1>10. x \div 10000 + y \div 10000 <= z \div 10000
  BY <1>8, <1>9
<1> QED BY <1>10 DEF InterestOver, x, y, z, c, d, p, q, s

\* The rate of a tier is a natural number of basis points.
LEMMA RateIsNatural ==
    ASSUME NEW tier \in CreditTier
    PROVE  daily_rate_bps(tier) \in Nat
<1>1. annual_rate_bps[tier] \in Nat
  BY DEF CreditTier, annual_rate_bps
<1> DEFINE m == annual_rate_bps[tier] + 364
<1>2. m \in Nat
  BY <1>1
<1> HIDE DEF m
<1>3. m \div 365 \in Nat
  BY <1>2, DivisionOfSum
<1> QED BY <1>3 DEF daily_rate_bps, m

-----------------------------------------------------------------------------
(* Credits: the invariant                                                  *)

Collateral ==
    [citizen : Customers, collateral_amount : Nat, collateral_net : Nat,
     status : {"Locked", "Active", "Released"}, credit_requested : BOOLEAN]

Credit ==
    [citizen : Customers, collateral_id : Nat, credit_amount : Nat, outstanding : Nat,
     accrued_interest : Nat, issued_at : Nat, last_interest_block : Nat,
     tier : CreditTier, status : {"Active", "Repaid", "Default"}]

ScoreScale == 300 .. 850

ScoreRecord == [score : ScoreScale, credits_repaid : Nat, credits_defaulted : Nat]

\* What a record of a credit says of itself, at the block now.
CreditIsSound(k, now) ==
    /\ k \in Credit
    /\ k.outstanding <= k.credit_amount
    /\ k.issued_at <= k.last_interest_block /\ k.last_interest_block <= now

CollateralIsSound(col) == col \in Collateral /\ col.collateral_net <= col.collateral_amount

CreditTypeOK ==
    /\ LedgerTypeOK
    /\ block \in Nat
    /\ nextCollateralId \in Nat
    /\ DOMAIN collateralContracts = 0 .. nextCollateralId - 1
    /\ \A id \in DOMAIN collateralContracts : CollateralIsSound(collateralContracts[id])
    /\ nextCreditId \in Nat
    /\ DOMAIN creditContracts = 0 .. nextCreditId - 1
    /\ \A k \in DOMAIN creditContracts : CreditIsSound(creditContracts[k], block)
    /\ bankSpecialAccount \subseteq BankAccounts
    /\ DOMAIN creditScores \subseteq Customers
    /\ \A c \in DOMAIN creditScores : creditScores[c] \in ScoreRecord

\* The credit k and its collateral, which is not locked again.
IsBacked(k) ==
    LET credit == creditContracts[k]
        id == credit.collateral_id
    IN  /\ id \in DOMAIN collateralContracts
        /\ collateralContracts[id].citizen = credit.citizen
        /\ collateralContracts[id].status # "Locked"
        /\ collateralContracts[id].status = "Released" <=> credit.status = "Repaid"
        /\ credit.status = "Repaid" => FullyRepaid(credit)

\* A collateral backs one credit, from its issuance on.
BackingAgrees ==
    /\ \A k \in DOMAIN creditContracts : IsBacked(k)
    /\ \A k, j \in DOMAIN creditContracts :
          creditContracts[k].collateral_id = creditContracts[j].collateral_id => k = j
    /\ \A id \in DOMAIN collateralContracts :
          collateralContracts[id].status # "Locked" =>
             \E k \in DOMAIN creditContracts : creditContracts[k].collateral_id = id

TotalIsOwed == totalCreditOutstanding = SumOver(OutstandingOf, DOMAIN creditContracts)

CreditInv == CreditTypeOK /\ BackingAgrees /\ TotalIsOwed /\ CreditIsBorrowed /\ IncomeIsInterest

\* Identifiers in use are finitely many.
LEMMA ContractsAreFinite ==
    ASSUME NEW n \in Nat
    PROVE  IsFiniteSet(0 .. n - 1) /\ n \notin 0 .. n - 1 /\ 0 .. (n + 1) - 1 = (0 .. n - 1) \cup {n}
<1>1. IsFiniteSet(0 .. n - 1)
  BY FS_Interval
<1>2. 0 .. (n + 1) - 1 = (0 .. n - 1) \cup {n}
  OBVIOUS
<1> QED BY <1>1, <1>2

\* What the property says of collateral and credits follows.
LEMMA BackingIsBook ==
    ASSUME CreditTypeOK, BackingAgrees, TotalIsOwed
    PROVE  CreditBookAgrees
<1>1. ASSUME NEW id \in DOMAIN collateralContracts, collateralContracts[id].status = "Locked"
      PROVE  CreditsOn(id) = {}
  BY <1>1 DEF CreditsOn, BackingAgrees, IsBacked
<1>2. ASSUME NEW id \in DOMAIN collateralContracts, collateralContracts[id].status # "Locked"
      PROVE  \E k : CreditsOn(id) = {k}
  <2>1. PICK k \in DOMAIN creditContracts : creditContracts[k].collateral_id = id
    BY <1>2 DEF BackingAgrees
  <2>2. CreditsOn(id) = {k}
    BY <2>1 DEF CreditsOn, BackingAgrees
  <2> QED BY <2>2
<1>3. ASSUME NEW id \in DOMAIN collateralContracts
      PROVE  Cardinality(CreditsOn(id)) = IF collateralContracts[id].status = "Locked" THEN 0 ELSE 1
  <2>1. CASE collateralContracts[id].status = "Locked"
    BY <1>1, <2>1, FS_EmptySet
  <2>2. CASE collateralContracts[id].status # "Locked"
    BY <1>2, <2>2, FS_Singleton
  <2> QED BY <2>1, <2>2
<1>4. ASSUME NEW id \in DOMAIN collateralContracts, NEW k \in CreditsOn(id)
      PROVE  /\ creditContracts[k].citizen = collateralContracts[id].citizen
             /\ collateralContracts[id].status = "Released" <=> creditContracts[k].status = "Repaid"
             /\ collateralContracts[id].status = "Released" => FullyRepaid(creditContracts[k])
  <2>1. k \in DOMAIN creditContracts /\ creditContracts[k].collateral_id = id
    BY <1>4 DEF CreditsOn
  <2> QED BY <2>1 DEF BackingAgrees, IsBacked
<1>5. \A k \in DOMAIN creditContracts :
         creditContracts[k].outstanding \in 0 .. creditContracts[k].credit_amount
  BY DEF CreditTypeOK, CreditIsSound, Credit
<1>6. \A c \in DOMAIN creditScores : creditScores[c].score \in 300 .. 850
  <2>1. \A c \in DOMAIN creditScores : creditScores[c] \in ScoreRecord
    BY DEF CreditTypeOK
  <2> QED BY <2>1 DEF ScoreRecord, ScoreScale
<1> QED BY <1>3, <1>4, <1>5, <1>6 DEF CreditBookAgrees, TotalIsOwed

-----------------------------------------------------------------------------
(* Credits: sums over the contracts                                        *)

\* What the sums over the credits become when a step adds these amounts.
SumsAdd(owed, accrued, most) ==
    /\ SumOver(OutstandingOf', DOMAIN creditContracts') =
          SumOver(OutstandingOf, DOMAIN creditContracts) + owed
    /\ SumOver(AccruedOf', DOMAIN creditContracts') =
          SumOver(AccruedOf, DOMAIN creditContracts) + accrued
    /\ SumOver(MostInterestOf', DOMAIN creditContracts') =
          SumOver(MostInterestOf, DOMAIN creditContracts) + most

\* A sound credit has amounts to sum.
LEMMA CreditAmounts ==
    ASSUME NEW k, NEW now, CreditIsSound(k, now)
    PROVE  /\ k.outstanding \in Nat /\ k.accrued_interest \in Nat
           /\ MostInterest(k) \in Nat
           /\ MostInterest(k) = InterestOver(k.credit_amount, daily_rate_bps(k.tier),
                                             k.last_interest_block - k.issued_at)
<1>1. /\ k.credit_amount \in Nat /\ k.tier \in CreditTier
      /\ k.last_interest_block - k.issued_at \in Nat
      /\ k.outstanding \in Nat /\ k.accrued_interest \in Nat
  BY DEF CreditIsSound, Credit
<1>2. daily_rate_bps(k.tier) \in Nat
  BY <1>1, RateIsNatural
<1>3. InterestOver(k.credit_amount, daily_rate_bps(k.tier), k.last_interest_block - k.issued_at)
         \in Nat
  BY <1>1, <1>2, InterestIsNatural
<1>4. MostInterest(k) = InterestOver(k.credit_amount, daily_rate_bps(k.tier),
                                     k.last_interest_block - k.issued_at)
  BY DEF MostInterest, InterestOver
<1> QED BY <1>1, <1>3, <1>4

\* The functions to sum have these values.
LEMMA CreditCells ==
    ASSUME CreditTypeOK
    PROVE  \A k \in DOMAIN creditContracts :
              /\ OutstandingOf[k] = creditContracts[k].outstanding /\ OutstandingOf[k] \in Nat
              /\ AccruedOf[k] = creditContracts[k].accrued_interest /\ AccruedOf[k] \in Nat
              /\ MostInterestOf[k] = MostInterest(creditContracts[k]) /\ MostInterestOf[k] \in Nat
<1>1. ASSUME NEW k \in DOMAIN creditContracts
      PROVE  /\ OutstandingOf[k] = creditContracts[k].outstanding
             /\ AccruedOf[k] = creditContracts[k].accrued_interest
             /\ MostInterestOf[k] = MostInterest(creditContracts[k])
  BY DEF OutstandingOf, AccruedOf, MostInterestOf
<1>2. ASSUME NEW k \in DOMAIN creditContracts
      PROVE  /\ creditContracts[k].outstanding \in Nat
             /\ creditContracts[k].accrued_interest \in Nat
             /\ MostInterest(creditContracts[k]) \in Nat
  BY CreditAmounts DEF CreditTypeOK
<1> QED BY <1>1, <1>2

\* A credit is replaced by another.
LEMMA CreditReplaced ==
    ASSUME CreditTypeOK, NEW k \in DOMAIN creditContracts, NEW new, CreditIsSound(new, block),
           creditContracts' = [creditContracts EXCEPT ![k] = new]
    PROVE  SumsAdd(new.outstanding - creditContracts[k].outstanding,
                   new.accrued_interest - creditContracts[k].accrued_interest,
                   MostInterest(new) - MostInterest(creditContracts[k]))
<1> DEFINE D == DOMAIN creditContracts
           old == creditContracts[k]
<1>1. IsFiniteSet(D) /\ k \in D
  BY ContractsAreFinite DEF CreditTypeOK
<1>2. DOMAIN creditContracts' = D
  OBVIOUS
<1>3. /\ old.outstanding \in Nat /\ old.accrued_interest \in Nat /\ MostInterest(old) \in Nat
      /\ new.outstanding \in Nat /\ new.accrued_interest \in Nat /\ MostInterest(new) \in Nat
  BY CreditAmounts DEF CreditTypeOK
<1>4. /\ creditContracts'[k] = new
      /\ \A j \in D \ {k} : creditContracts'[j] = creditContracts[j]
  OBVIOUS
<1>5. /\ OutstandingOf'[k] = new.outstanding
      /\ AccruedOf'[k] = new.accrued_interest
      /\ MostInterestOf'[k] = MostInterest(new)
  BY <1>1, <1>2, <1>4 DEF OutstandingOf, AccruedOf, MostInterestOf
<1>6. \A j \in D \ {k} : /\ OutstandingOf'[j] = OutstandingOf[j]
                         /\ AccruedOf'[j] = AccruedOf[j]
                         /\ MostInterestOf'[j] = MostInterestOf[j]
  BY <1>2, <1>4 DEF OutstandingOf, AccruedOf, MostInterestOf
<1>7. \A j \in D : OutstandingOf[j] \in Int /\ AccruedOf[j] \in Int /\ MostInterestOf[j] \in Int
  BY CreditCells
<1>8. /\ OutstandingOf[k] = old.outstanding
      /\ AccruedOf[k] = old.accrued_interest
      /\ MostInterestOf[k] = MostInterest(old)
  BY CreditCells
<1> DEFINE owed == new.outstanding - old.outstanding
           accrued == new.accrued_interest - old.accrued_interest
           most == MostInterest(new) - MostInterest(old)
<1>9. /\ owed \in Int /\ OutstandingOf'[k] = OutstandingOf[k] + owed
      /\ accrued \in Int /\ AccruedOf'[k] = AccruedOf[k] + accrued
      /\ most \in Int /\ MostInterestOf'[k] = MostInterestOf[k] + most
  BY <1>3, <1>5, <1>8
<1> HIDE DEF owed, accrued, most, D
<1>10. SumOver(OutstandingOf', D) = SumOver(OutstandingOf, D) + owed
  BY <1>1, <1>6, <1>7, <1>9, SumOfChange
<1>11. SumOver(AccruedOf', D) = SumOver(AccruedOf, D) + accrued
  BY <1>1, <1>6, <1>7, <1>9, SumOfChange
<1>12. SumOver(MostInterestOf', D) = SumOver(MostInterestOf, D) + most
  BY <1>1, <1>6, <1>7, <1>9, SumOfChange
<1>13. SumsAdd(owed, accrued, most)
  <2>1. DOMAIN creditContracts' = D
    BY <1>2 DEF D
  <2> QED BY <1>10, <1>11, <1>12, <2>1 DEF SumsAdd, D
<1> QED BY <1>13 DEF owed, accrued, most

\* A credit is added.
LEMMA CreditAdded ==
    ASSUME CreditTypeOK, NEW new, CreditIsSound(new, block),
           creditContracts' = Put(creditContracts, nextCreditId, new)
    PROVE  SumsAdd(new.outstanding, new.accrued_interest, MostInterest(new))
<1> DEFINE D == DOMAIN creditContracts
           k == nextCreditId
<1>1. IsFiniteSet(D) /\ k \notin D
  BY ContractsAreFinite DEF CreditTypeOK
<1>2. /\ DOMAIN creditContracts' = D \cup {k}
      /\ creditContracts'[k] = new
      /\ \A j \in D : creditContracts'[j] = creditContracts[j]
  BY <1>1 DEF Put
<1>3. /\ new.outstanding \in Int /\ new.accrued_interest \in Int /\ MostInterest(new) \in Int
  BY CreditAmounts
<1>4. /\ OutstandingOf'[k] = new.outstanding
      /\ AccruedOf'[k] = new.accrued_interest
      /\ MostInterestOf'[k] = MostInterest(new)
  BY <1>2 DEF OutstandingOf, AccruedOf, MostInterestOf
<1>5. \A j \in D : /\ OutstandingOf'[j] = OutstandingOf[j]
                   /\ AccruedOf'[j] = AccruedOf[j]
                   /\ MostInterestOf'[j] = MostInterestOf[j]
  BY <1>2 DEF OutstandingOf, AccruedOf, MostInterestOf
<1>6. \A j \in D : OutstandingOf[j] \in Int /\ AccruedOf[j] \in Int /\ MostInterestOf[j] \in Int
  BY CreditCells
<1> HIDE DEF D, k
<1>7. \A j \in D \cup {k} :
         OutstandingOf'[j] \in Int /\ AccruedOf'[j] \in Int /\ MostInterestOf'[j] \in Int
  BY <1>3, <1>4, <1>5, <1>6
<1>8. /\ SumOver(OutstandingOf', D \cup {k}) = SumOver(OutstandingOf', D) + new.outstanding
      /\ SumOver(OutstandingOf', D) = SumOver(OutstandingOf, D)
  BY <1>1, <1>4, <1>5, <1>7, SumOfOneMore, SumOfSame
<1>9. /\ SumOver(AccruedOf', D \cup {k}) = SumOver(AccruedOf', D) + new.accrued_interest
      /\ SumOver(AccruedOf', D) = SumOver(AccruedOf, D)
  BY <1>1, <1>4, <1>5, <1>7, SumOfOneMore, SumOfSame
<1>10. /\ SumOver(MostInterestOf', D \cup {k}) = SumOver(MostInterestOf', D) + MostInterest(new)
       /\ SumOver(MostInterestOf', D) = SumOver(MostInterestOf, D)
  BY <1>1, <1>4, <1>5, <1>7, SumOfOneMore, SumOfSame
<1> QED BY <1>2, <1>8, <1>9, <1>10 DEF SumsAdd, D

\* The credits stay.
LEMMA CreditsStay ==
    ASSUME CreditTypeOK, creditContracts' = creditContracts
    PROVE  SumsAdd(0, 0, 0)
<1> DEFINE D == DOMAIN creditContracts
<1>1. IsFiniteSet(D) /\ DOMAIN creditContracts' = D
  BY ContractsAreFinite DEF CreditTypeOK
<1>2. OutstandingOf' = OutstandingOf /\ AccruedOf' = AccruedOf /\ MostInterestOf' = MostInterestOf
  BY DEF OutstandingOf, AccruedOf, MostInterestOf
<1>3. \A j \in D : OutstandingOf[j] \in Int /\ AccruedOf[j] \in Int /\ MostInterestOf[j] \in Int
  BY CreditCells
<1> HIDE DEF D
<1>4. /\ SumOver(OutstandingOf, D) \in Int
      /\ SumOver(AccruedOf, D) \in Int
      /\ SumOver(MostInterestOf, D) \in Int
  BY <1>1, <1>3, SumIsInt
<1> QED BY <1>1, <1>2, <1>4 DEF SumsAdd, D

\* What the collateral kept becomes when a step adds this.
KeptAdds(kept) ==
    SumOver(Kept', DOMAIN collateralContracts') = SumOver(Kept, DOMAIN collateralContracts) + kept

\* A sound collateral keeps an amount.
LEMMA KeptIsNatural ==
    ASSUME NEW col, CollateralIsSound(col)
    PROVE  KeptOf(col) \in Nat
BY DEF CollateralIsSound, Collateral, KeptOf

\* A collateral is replaced by another.
LEMMA CollateralReplaced ==
    ASSUME CreditTypeOK, NEW id \in DOMAIN collateralContracts, NEW new, CollateralIsSound(new),
           collateralContracts' = [collateralContracts EXCEPT ![id] = new]
    PROVE  KeptAdds(KeptOf(new) - KeptOf(collateralContracts[id]))
<1> DEFINE D == DOMAIN collateralContracts
           d == KeptOf(new) - KeptOf(collateralContracts[id])
<1>1. IsFiniteSet(D) /\ id \in D /\ DOMAIN collateralContracts' = D
  BY ContractsAreFinite DEF CreditTypeOK
<1>2. \A j \in D : Kept[j] = KeptOf(collateralContracts[j]) /\ Kept[j] \in Int
  BY KeptIsNatural DEF Kept, CreditTypeOK
<1>3. KeptOf(new) \in Int
  BY KeptIsNatural
<1>4. d \in Int /\ KeptOf(new) = Kept[id] + d
  BY <1>1, <1>2, <1>3
<1>5. Kept'[id] = KeptOf(new) /\ \A j \in D \ {id} : Kept'[j] = Kept[j]
  BY DEF Kept
<1> HIDE DEF d, D
<1>6. SumOver(Kept', D) = SumOver(Kept, D) + d
  BY <1>1, <1>2, <1>4, <1>5, SumOfChange
<1>7. KeptAdds(d)
  BY <1>1, <1>6 DEF KeptAdds, D
<1> QED BY <1>7 DEF d

\* A collateral is added.
LEMMA CollateralAdded ==
    ASSUME CreditTypeOK, NEW new, CollateralIsSound(new),
           collateralContracts' = Put(collateralContracts, nextCollateralId, new)
    PROVE  KeptAdds(KeptOf(new))
<1> DEFINE D == DOMAIN collateralContracts
           id == nextCollateralId
<1>1. IsFiniteSet(D) /\ id \notin D
  BY ContractsAreFinite DEF CreditTypeOK
<1>2. /\ DOMAIN collateralContracts' = D \cup {id}
      /\ collateralContracts'[id] = new
      /\ \A j \in D : collateralContracts'[j] = collateralContracts[j]
  BY <1>1 DEF Put
<1>3. \A j \in D : Kept[j] \in Int
  BY KeptIsNatural DEF Kept, CreditTypeOK
<1>4. KeptOf(new) \in Int
  BY KeptIsNatural
<1>5. Kept'[id] = KeptOf(new) /\ \A j \in D : Kept'[j] = Kept[j]
  BY <1>2 DEF Kept
<1> HIDE DEF D, id
<1>6. \A j \in D \cup {id} : Kept'[j] \in Int
  BY <1>3, <1>4, <1>5
<1>7. /\ SumOver(Kept', D \cup {id}) = SumOver(Kept', D) + KeptOf(new)
      /\ SumOver(Kept', D) = SumOver(Kept, D)
  BY <1>1, <1>5, <1>6, SumOfOneMore, SumOfSame
<1> QED BY <1>2, <1>7 DEF KeptAdds, D

\* The collaterals stay.
LEMMA CollateralsStay ==
    ASSUME CreditTypeOK, collateralContracts' = collateralContracts
    PROVE  KeptAdds(0)
<1> DEFINE D == DOMAIN collateralContracts
<1>1. IsFiniteSet(D) /\ DOMAIN collateralContracts' = D /\ Kept' = Kept
  BY ContractsAreFinite DEF CreditTypeOK, Kept
<1>2. \A j \in D : Kept[j] \in Int
  BY KeptIsNatural DEF Kept, CreditTypeOK
<1> HIDE DEF D
<1>3. SumOver(Kept, D) \in Int
  BY <1>1, <1>2, SumIsInt
<1> QED BY <1>1, <1>3 DEF KeptAdds, D

-----------------------------------------------------------------------------
(* Credits: the money of the banks                                         *)

\* What the special accounts hold more after a step.
BanksGain(gain) == SumOver(free', BankAccounts) = SumOver(free, BankAccounts) + gain

\* The accounts of banks are finitely many, and no customer's.
LEMMA BanksAreFinite ==
    /\ IsFiniteSet(BankAccounts) /\ BankAccounts \subseteq Accounts
    /\ Customers \cap BankAccounts = {} /\ Customers \subseteq Accounts
<1>1. IsFiniteSet(Accounts) /\ BankAccounts \subseteq Accounts \ Customers
  BY LedgerAssumption, OperatorAssumption
<1>2. IsFiniteSet(BankAccounts)
  BY <1>1, FS_Subset
<1> QED BY <1>1, <1>2, OperatorAssumption

\* One of the accounts changes.
LEMMA BankChanges ==
    ASSUME LedgerTypeOK, NEW bank \in BankAccounts, NEW gain \in Int,
           free'[bank] = free[bank] + gain,
           \A a \in BankAccounts \ {bank} : free'[a] = free[a]
    PROVE  BanksGain(gain)
<1>1. \A a \in BankAccounts : free[a] \in Int
  BY BanksAreFinite DEF LedgerTypeOK
<1> QED BY <1>1, BanksAreFinite, SumOfChange DEF BanksGain

\* None of them changes.
LEMMA BanksStay ==
    ASSUME LedgerTypeOK, \A a \in BankAccounts : free'[a] = free[a]
    PROVE  BanksGain(0)
<1>1. \A a \in BankAccounts : free[a] \in Int
  BY BanksAreFinite DEF LedgerTypeOK
<1>2. /\ SumOver(free', BankAccounts) = SumOver(free, BankAccounts)
      /\ SumOver(free, BankAccounts) \in Int
  BY <1>1, BanksAreFinite, SumOfSame, SumIsInt
<1> QED BY <1>2 DEF BanksGain

\* The sums are integers.
LEMMA SumsAreIntegers ==
    ASSUME CreditTypeOK
    PROVE  /\ SumOver(OutstandingOf, DOMAIN creditContracts) \in Int
           /\ SumOver(AccruedOf, DOMAIN creditContracts) \in Int
           /\ SumOver(MostInterestOf, DOMAIN creditContracts) \in Int
           /\ SumOver(Kept, DOMAIN collateralContracts) \in Int
           /\ SumOver(free, BankAccounts) \in Int
           /\ SumOver(InitialFree, BankAccounts) \in Int
           /\ SumOver(InitialFree, Accounts) \in Int
<1>1. IsFiniteSet(DOMAIN creditContracts) /\ IsFiniteSet(DOMAIN collateralContracts)
  BY ContractsAreFinite DEF CreditTypeOK
<1>2. \A k \in DOMAIN creditContracts :
         OutstandingOf[k] \in Int /\ AccruedOf[k] \in Int /\ MostInterestOf[k] \in Int
  BY CreditCells
<1>3. \A id \in DOMAIN collateralContracts : Kept[id] \in Int
  BY KeptIsNatural DEF Kept, CreditTypeOK
<1>4. /\ \A a \in BankAccounts : free[a] \in Int /\ InitialFree[a] \in Int
      /\ \A a \in Accounts : InitialFree[a] \in Int
  BY BanksAreFinite, OperatorAssumption DEF CreditTypeOK, LedgerTypeOK
<1> QED BY <1>1, <1>2, <1>3, <1>4, BanksAreFinite, LedgerAssumption, SumIsInt

\* What a step owes, charges and keeps is in proportion: then the totals are.
LEMMA BooksStayBalanced ==
    ASSUME CreditInv,
           NEW owed \in Int, NEW accrued \in Int, NEW most \in Int, NEW kept \in Int,
           NEW gain \in Int,
           SumsAdd(owed, accrued, most), KeptAdds(kept), BanksGain(gain),
           totalCreditOutstanding' = totalCreditOutstanding + owed,
           issuance' \in Int, issuance' <= issuance + owed,
           gain >= kept, gain - kept + accrued <= most
    PROVE  TotalIsOwed' /\ CreditIsBorrowed' /\ IncomeIsInterest'
<1> DEFINE o == SumOver(OutstandingOf, DOMAIN creditContracts)
           a == SumOver(AccruedOf, DOMAIN creditContracts)
           m == SumOver(MostInterestOf, DOMAIN creditContracts)
           h == SumOver(Kept, DOMAIN collateralContracts)
           f == SumOver(free, BankAccounts)
           i == SumOver(InitialFree, BankAccounts)
           t == SumOver(InitialFree, Accounts)
<1>1. o \in Int /\ a \in Int /\ m \in Int /\ h \in Int /\ f \in Int /\ i \in Int /\ t \in Int
  BY SumsAreIntegers DEF CreditInv
<1>2. /\ totalCreditOutstanding = o
      /\ issuance \in Int /\ issuance <= t + totalCreditOutstanding
      /\ f - i - h >= 0 /\ (f - i - h) + a <= m
  BY DEF CreditInv, TotalIsOwed, CreditIsBorrowed, IncomeIsInterest, Income, CreditTypeOK,
         LedgerTypeOK
<1>3. /\ SumOver(OutstandingOf', DOMAIN creditContracts') = o + owed
      /\ SumOver(AccruedOf', DOMAIN creditContracts') = a + accrued
      /\ SumOver(MostInterestOf', DOMAIN creditContracts') = m + most
      /\ SumOver(Kept', DOMAIN collateralContracts') = h + kept
      /\ SumOver(free', BankAccounts) = f + gain
  BY DEF SumsAdd, KeptAdds, BanksGain
<1> HIDE DEF o, a, m, h, f
<1>4. TotalIsOwed'
  BY <1>2, <1>3 DEF TotalIsOwed
<1>5. issuance' <= t + totalCreditOutstanding'
  BY <1>1, <1>2
<1>6. CreditIsBorrowed'
  BY <1>5 DEF CreditIsBorrowed
<1>7. Income' = (f + gain) - i - (h + kept)
  BY <1>3 DEF Income
<1>8. /\ (f + gain) - i - (h + kept) >= 0
      /\ ((f + gain) - i - (h + kept)) + (a + accrued) <= m + most
  BY <1>1, <1>2
<1>9. IncomeIsInterest'
  BY <1>3, <1>7, <1>8 DEF IncomeIsInterest
<1> QED BY <1>4, <1>6, <1>9

-----------------------------------------------------------------------------
(* Credits: the calls                                                      *)

\* Calls that move no money and change no amount.
LEMMA NothingMoves ==
    ASSUME CreditInv, UNCHANGED ledger, totalCreditOutstanding' = totalCreditOutstanding,
           SumsAdd(0, 0, 0), KeptAdds(0)
    PROVE  LedgerTypeOK' /\ TotalIsOwed' /\ CreditIsBorrowed' /\ IncomeIsInterest'
<1>1. /\ free' = free /\ reserved' = reserved /\ frozen' = frozen /\ issuance' = issuance
      /\ LedgerTypeOK
  BY DEF ledger, CreditInv, CreditTypeOK
<1>2. LedgerTypeOK'
  BY <1>1 DEF LedgerTypeOK
<1>3. BanksGain(0)
  BY <1>1, BanksStay
<1>4. totalCreditOutstanding \in Int
  BY SumsAreIntegers DEF CreditInv, TotalIsOwed
<1>5. /\ totalCreditOutstanding' = totalCreditOutstanding + 0
      /\ issuance' \in Int /\ issuance' <= issuance + 0
  BY <1>1, <1>4 DEF LedgerTypeOK
<1>6. TotalIsOwed' /\ CreditIsBorrowed' /\ IncomeIsInterest'
  BY <1>3, <1>5, BooksStayBalanced
<1> QED BY <1>2, <1>6

\* Naming the special account of the bank.
LEMMA SetBankStep ==
    ASSUME CreditInv, NEW a \in BankAccounts, set_bank_account(a)
    PROVE  CreditInv'
<1>1. /\ UNCHANGED ledger /\ block' = block /\ bankSpecialAccount' = {a}
      /\ collateralContracts' = collateralContracts /\ nextCollateralId' = nextCollateralId
      /\ creditContracts' = creditContracts /\ nextCreditId' = nextCreditId
      /\ totalCreditOutstanding' = totalCreditOutstanding /\ creditScores' = creditScores
  BY DEF set_bank_account
<1>2. SumsAdd(0, 0, 0) /\ KeptAdds(0)
  BY <1>1, CreditsStay, CollateralsStay DEF CreditInv
<1>3. LedgerTypeOK' /\ TotalIsOwed' /\ CreditIsBorrowed' /\ IncomeIsInterest'
  BY <1>1, <1>2, NothingMoves
<1>4. CreditTypeOK'
  BY <1>1, <1>3 DEF CreditInv, CreditTypeOK
<1>5. BackingAgrees'
  BY <1>1 DEF CreditInv, BackingAgrees, IsBacked
<1> QED BY <1>3, <1>4, <1>5 DEF CreditInv

\* A new block.
LEMMA BlockStep ==
    ASSUME CreditInv, NextBlock, UNCHANGED <<ledger, creditVars>>
    PROVE  CreditInv'
<1>1. /\ UNCHANGED ledger /\ block' = block + 1 /\ bankSpecialAccount' = bankSpecialAccount
      /\ collateralContracts' = collateralContracts /\ nextCollateralId' = nextCollateralId
      /\ creditContracts' = creditContracts /\ nextCreditId' = nextCreditId
      /\ totalCreditOutstanding' = totalCreditOutstanding /\ creditScores' = creditScores
  BY DEF NextBlock, creditVars
<1>2. SumsAdd(0, 0, 0) /\ KeptAdds(0)
  BY <1>1, CreditsStay, CollateralsStay DEF CreditInv
<1>3. LedgerTypeOK' /\ TotalIsOwed' /\ CreditIsBorrowed' /\ IncomeIsInterest'
  BY <1>1, <1>2, NothingMoves
<1>4. \A k \in DOMAIN creditContracts : CreditIsSound(creditContracts[k], block')
  BY <1>1 DEF CreditInv, CreditTypeOK, CreditIsSound, Credit
<1>5. CreditTypeOK'
  BY <1>1, <1>3, <1>4 DEF CreditInv, CreditTypeOK
<1>6. BackingAgrees'
  BY <1>1 DEF CreditInv, BackingAgrees, IsBacked
<1> QED BY <1>3, <1>5, <1>6 DEF CreditInv

\* Collateral is locked on the special account, which holds it.
LEMMA LockCollateralStep ==
    ASSUME CreditInv, NEW c \in Customers, NEW v \in CollateralAmounts, lock_collateral(c, v)
    PROVE  CreditInv' /\ reserved' = reserved
<1> DEFINE new == NewCollateral(c, v)
           n == nextCollateralId
<1>1. PICK bank \in bankSpecialAccount : transfer(c, bank, v, TRUE)
  BY DEF lock_collateral
<1>2. /\ collateralContracts' = Put(collateralContracts, nextCollateralId, new)
      /\ nextCollateralId' = nextCollateralId + 1 /\ block' = block
      /\ creditContracts' = creditContracts /\ nextCreditId' = nextCreditId
      /\ bankSpecialAccount' = bankSpecialAccount
      /\ totalCreditOutstanding' = totalCreditOutstanding /\ creditScores' = creditScores
  BY DEF lock_collateral
<1>3. /\ v \in Nat /\ c \in Accounts /\ bank \in BankAccounts /\ bank \in Accounts /\ c # bank
      /\ c \notin BankAccounts
  BY OperatorAssumption DEF CreditInv, CreditTypeOK
<1>4. TransferMoves(c, bank, v, TRUE) /\ TransferTakes(c, bank, v, TRUE)
  BY <1>1, <1>3, Transfer DEF CreditInv, CreditTypeOK
<1>5. new \in Collateral /\ new.collateral_net <= new.collateral_amount /\ KeptOf(new) = v
  <2> DEFINE fee == v \div 10
  <2>1. fee \in Nat /\ fee <= v
    BY <1>3
  <2>2. new = [citizen |-> c, collateral_amount |-> v, collateral_net |-> v - fee,
               status |-> "Locked", credit_requested |-> FALSE]
    BY DEF NewCollateral
  <2> HIDE DEF fee, new
  <2> QED BY <1>3, <2>1, <2>2 DEF Collateral, KeptOf
<1> HIDE DEF new
<1>6. CollateralIsSound(new)
  BY <1>5 DEF CollateralIsSound
<1>7. KeptAdds(v)
  BY <1>2, <1>5, <1>6, CollateralAdded DEF CreditInv
<1>8. SumsAdd(0, 0, 0)
  BY <1>2, CreditsStay DEF CreditInv
<1>9. BanksGain(v)
  <2>1. free'[bank] = free[bank] + v /\ \A a \in BankAccounts \ {bank} : free'[a] = free[a]
    BY <1>3, <1>4, BanksAreFinite DEF TransferMoves, TransferTakes
  <2> QED BY <1>3, <2>1, BankChanges DEF CreditInv, CreditTypeOK
<1>10. TotalIsOwed' /\ CreditIsBorrowed' /\ IncomeIsInterest'
  <2>1. totalCreditOutstanding \in Int
    BY SumsAreIntegers DEF CreditInv, TotalIsOwed
  <2>2. /\ totalCreditOutstanding' = totalCreditOutstanding + 0
        /\ issuance' \in Int /\ issuance' <= issuance + 0
    BY <1>2, <1>4, <2>1 DEF TransferMoves, LedgerTypeOK, CreditInv, CreditTypeOK
  <2>3. v >= v /\ v - v + 0 <= 0
    BY <1>3
  <2> QED BY <1>3, <1>7, <1>8, <1>9, <2>2, <2>3, BooksStayBalanced
<1>11. /\ n \in Nat /\ n \notin DOMAIN collateralContracts
       /\ DOMAIN collateralContracts' = DOMAIN collateralContracts \cup {n}
       /\ DOMAIN collateralContracts' = 0 .. (n + 1) - 1
       /\ collateralContracts'[n] = new
       /\ \A id \in DOMAIN collateralContracts : collateralContracts'[id] = collateralContracts[id]
  <2>1. /\ n \in Nat /\ n \notin DOMAIN collateralContracts
        /\ DOMAIN collateralContracts \cup {n} = 0 .. (n + 1) - 1
    BY ContractsAreFinite DEF CreditInv, CreditTypeOK
  <2> QED BY <1>2, <2>1 DEF Put
<1>12. CreditTypeOK'
  BY <1>2, <1>4, <1>6, <1>11 DEF CreditInv, CreditTypeOK, TransferMoves
<1>13. BackingAgrees'
  <2>1. \A k \in DOMAIN creditContracts : IsBacked(k)'
    BY <1>2, <1>11 DEF CreditInv, BackingAgrees, IsBacked
  <2>2. new.status = "Locked"
    BY DEF new, NewCollateral
  <2> QED BY <1>2, <1>11, <2>1, <2>2 DEF CreditInv, BackingAgrees
<1> QED BY <1>4, <1>10, <1>12, <1>13 DEF CreditInv, TransferMoves

\* A credit is requested for the collateral.
LEMMA RequestStep ==
    ASSUME CreditInv, NEW c \in Customers, NEW id \in ContractIds, request_credit(c, id)
    PROVE  CreditInv'
<1> DEFINE old == collateralContracts[id]
           new == [old EXCEPT !.credit_requested = TRUE]
<1>1. /\ id \in DOMAIN collateralContracts
      /\ collateralContracts' = [collateralContracts EXCEPT ![id] = new]
      /\ UNCHANGED ledger /\ block' = block
      /\ nextCollateralId' = nextCollateralId
      /\ creditContracts' = creditContracts /\ nextCreditId' = nextCreditId
      /\ bankSpecialAccount' = bankSpecialAccount
      /\ totalCreditOutstanding' = totalCreditOutstanding /\ creditScores' = creditScores
  BY DEF request_credit
<1>2. CollateralIsSound(old)
  BY <1>1 DEF CreditInv, CreditTypeOK
<1>3. /\ CollateralIsSound(new) /\ KeptOf(new) = KeptOf(old) /\ KeptOf(old) \in Nat
      /\ new.status = old.status /\ new.citizen = old.citizen
  <2> HIDE DEF old
  <2>1. old \in Collateral /\ old.collateral_net <= old.collateral_amount
    BY <1>2 DEF CollateralIsSound
  <2>2. /\ new \in Collateral
        /\ new.status = old.status /\ new.citizen = old.citizen
        /\ new.collateral_net = old.collateral_net
        /\ new.collateral_amount = old.collateral_amount
    BY <2>1 DEF Collateral
  <2>3. KeptOf(new) = KeptOf(old) /\ CollateralIsSound(new)
    BY <2>1, <2>2 DEF KeptOf, CollateralIsSound
  <2>4. KeptOf(old) \in Nat
    BY <1>2, KeptIsNatural
  <2> QED BY <2>2, <2>3, <2>4
<1> HIDE DEF new
<1>4. KeptAdds(0)
  <2>1. KeptAdds(KeptOf(new) - KeptOf(old))
    BY <1>1, <1>3, CollateralReplaced DEF CreditInv
  <2>2. KeptOf(new) - KeptOf(old) = 0
    BY <1>3
  <2> QED BY <2>1, <2>2
<1>5. SumsAdd(0, 0, 0)
  BY <1>1, CreditsStay DEF CreditInv
<1>6. LedgerTypeOK' /\ TotalIsOwed' /\ CreditIsBorrowed' /\ IncomeIsInterest'
  BY <1>1, <1>4, <1>5, NothingMoves
<1>7. /\ DOMAIN collateralContracts' = DOMAIN collateralContracts
      /\ collateralContracts'[id] = new
      /\ \A j \in DOMAIN collateralContracts \ {id} : collateralContracts'[j] = collateralContracts[j]
  BY <1>1
<1>8. CreditTypeOK'
  BY <1>1, <1>3, <1>6, <1>7 DEF CreditInv, CreditTypeOK
<1>9. \A j \in DOMAIN collateralContracts :
         /\ collateralContracts'[j].status = collateralContracts[j].status
         /\ collateralContracts'[j].citizen = collateralContracts[j].citizen
  BY <1>3, <1>7
<1>10. BackingAgrees'
  BY <1>1, <1>7, <1>9 DEF CreditInv, BackingAgrees, IsBacked
<1> QED BY <1>6, <1>8, <1>10 DEF CreditInv

\* A citizen's score and what becomes of it are on the scale.
LEMMA ScoresAreSound ==
    ASSUME CreditTypeOK, NEW c \in Customers
    PROVE  /\ ScoreOf(c) \in ScoreRecord
           /\ apply_full_repayment(ScoreOf(c)) \in ScoreRecord
           /\ apply_partial_repayment(ScoreOf(c)) \in ScoreRecord
           /\ apply_default(ScoreOf(c)) \in ScoreRecord
<1> DEFINE r == ScoreOf(c)
<1>1. r \in ScoreRecord
  BY DEF CreditTypeOK, ScoreOf, new_default, ScoreRecord, ScoreScale
<1> HIDE DEF r
<1>2. r.score \in 300 .. 850
  BY <1>1 DEF ScoreRecord, ScoreScale
<1>3. /\ Least(r.score + 20, 850) \in ScoreScale
      /\ Least(r.score + 5, 850) \in ScoreScale
      /\ Most(r.score - 100, 300) \in ScoreScale
  <2> DEFINE s == r.score
  <2>1. s \in 300 .. 850
    BY <1>2
  <2> HIDE DEF s
  <2>2. /\ Least(s + 20, 850) \in 300 .. 850
        /\ Least(s + 5, 850) \in 300 .. 850
        /\ Most(s - 100, 300) \in 300 .. 850
    BY <2>1 DEF Least, Most
  <2> QED BY <2>2 DEF s, ScoreScale
<1>4. apply_full_repayment(r) \in ScoreRecord
  <2> DEFINE x == Least(r.score + 20, 850)
  <2>1. x \in ScoreScale /\ r.credits_repaid + 1 \in Nat
    BY <1>1, <1>3 DEF ScoreRecord
  <2>2. apply_full_repayment(r) = [r EXCEPT !.score = x, !.credits_repaid = @ + 1]
    BY DEF apply_full_repayment
  <2> HIDE DEF x
  <2>3. [r EXCEPT !.score = x, !.credits_repaid = @ + 1] \in ScoreRecord
    BY <1>1, <2>1 DEF ScoreRecord
  <2> QED BY <2>2, <2>3
<1>5. apply_partial_repayment(r) \in ScoreRecord
  BY <1>1, <1>3 DEF ScoreRecord, apply_partial_repayment
<1>6. apply_default(r) \in ScoreRecord
  <2> DEFINE x == Most(r.score - 100, 300)
  <2>1. x \in ScoreScale /\ r.credits_defaulted + 1 \in Nat
    BY <1>1, <1>3 DEF ScoreRecord
  <2>2. apply_default(r) = [r EXCEPT !.score = x, !.credits_defaulted = @ + 1]
    BY DEF apply_default
  <2> HIDE DEF x
  <2>3. [r EXCEPT !.score = x, !.credits_defaulted = @ + 1] \in ScoreRecord
    BY <1>1, <2>1 DEF ScoreRecord
  <2> QED BY <2>2, <2>3
<1> QED BY <1>1, <1>4, <1>5, <1>6 DEF r

\* The score of a customer is stored.
LEMMA ScoreStored ==
    ASSUME CreditTypeOK, NEW c \in Customers, NEW r \in ScoreRecord,
           creditScores' = Put(creditScores, c, r)
    PROVE  DOMAIN creditScores' \subseteq Customers
           /\ \A k \in DOMAIN creditScores' : creditScores'[k] \in ScoreRecord
BY DEF Put, CreditTypeOK

\* The credit k is replaced by one of the same citizen on the same collateral.
LEMMA BackingStays ==
    ASSUME CreditInv, NEW k \in DOMAIN creditContracts, NEW new,
           creditContracts' = [creditContracts EXCEPT ![k] = new],
           new.citizen = creditContracts[k].citizen,
           new.collateral_id = creditContracts[k].collateral_id,
           creditContracts[k].status # "Repaid", new.status # "Repaid",
           collateralContracts' = collateralContracts
    PROVE  BackingAgrees'
<1>1. /\ DOMAIN creditContracts' = DOMAIN creditContracts
      /\ creditContracts'[k] = new
      /\ \A j \in DOMAIN creditContracts \ {k} : creditContracts'[j] = creditContracts[j]
  OBVIOUS
<1>2. \A j \in DOMAIN creditContracts :
         creditContracts'[j].collateral_id = creditContracts[j].collateral_id
  BY <1>1
<1>3. \A j \in DOMAIN creditContracts : IsBacked(j)
  BY DEF CreditInv, BackingAgrees
<1>4. IsBacked(k)'
  BY <1>1, <1>3 DEF IsBacked
<1>5. ASSUME NEW j \in DOMAIN creditContracts, j # k PROVE IsBacked(j)'
  BY <1>1, <1>3, <1>5 DEF IsBacked, FullyRepaid
<1> QED BY <1>1, <1>2, <1>4, <1>5 DEF CreditInv, BackingAgrees

\* What replaces a credit keeps the types.
LEMMA CreditsAreSound ==
    ASSUME CreditTypeOK, NEW k \in DOMAIN creditContracts, NEW new, CreditIsSound(new, block),
           creditContracts' = [creditContracts EXCEPT ![k] = new]
    PROVE  /\ DOMAIN creditContracts' = DOMAIN creditContracts
           /\ \A j \in DOMAIN creditContracts' : CreditIsSound(creditContracts'[j], block)
BY DEF CreditTypeOK

\* A credit of nine times the net collateral is issued on a locked collateral.
LEMMA IssueStep ==
    ASSUME CreditInv, NEW id \in ContractIds, issue_credit(id)
    PROVE  CreditInv' /\ reserved' = reserved
<1> DEFINE col == collateralContracts[id]
           amount == col.collateral_net * ReserveMultiplier
           who == col.citizen
           new == NewCredit(id, col, amount)
           active == [col EXCEPT !.status = "Active"]
<1>0. PICK n : n = nextCreditId
  OBVIOUS
<1>1. /\ id \in DOMAIN collateralContracts /\ col.status = "Locked"
      /\ creditScores' = Put(creditScores, who, ScoreOf(who))
      /\ deposit_creating(who, amount)
      /\ creditContracts' = Put(creditContracts, nextCreditId, new)
      /\ totalCreditOutstanding' = totalCreditOutstanding + amount
      /\ collateralContracts' = [collateralContracts EXCEPT ![id] = active]
      /\ nextCreditId' = nextCreditId + 1
      /\ block' = block /\ nextCollateralId' = nextCollateralId
      /\ bankSpecialAccount' = bankSpecialAccount
  BY DEF issue_credit, CanIssue
<1>2. CollateralIsSound(col)
  BY <1>1 DEF CreditInv, CreditTypeOK
<1>3. who \in Customers /\ who \in Accounts /\ who \notin BankAccounts /\ col.collateral_net \in Nat
  BY <1>2, BanksAreFinite DEF CollateralIsSound, Collateral
<1>4. amount \in Nat
  BY <1>3, OperatorAssumption
<1>5. ScoreOf(who) \in ScoreRecord
  BY <1>3, ScoresAreSound DEF CreditInv
<1>6. /\ CollateralIsSound(active) /\ KeptOf(active) = KeptOf(col) /\ KeptOf(col) \in Nat
      /\ active.status = "Active" /\ active.citizen = who
  <2> HIDE DEF col
  <2>1. col \in Collateral /\ col.collateral_net <= col.collateral_amount
    BY <1>2 DEF CollateralIsSound
  <2>2. /\ active \in Collateral
        /\ active.status = "Active" /\ active.citizen = who
        /\ active.collateral_net = col.collateral_net
        /\ active.collateral_amount = col.collateral_amount
    BY <2>1 DEF Collateral
  <2>3. KeptOf(active) = KeptOf(col) /\ CollateralIsSound(active)
    BY <1>1, <2>1, <2>2 DEF KeptOf, CollateralIsSound
  <2>4. KeptOf(col) \in Nat
    BY <1>2, KeptIsNatural
  <2> QED BY <2>2, <2>3, <2>4
<1>7. /\ CreditIsSound(new, block)
      /\ new.outstanding = amount /\ new.accrued_interest = 0
      /\ new.citizen = who /\ new.collateral_id = id /\ new.status = "Active"
  <2>1. from_score(ScoreOf(who).score) \in CreditTier
    BY DEF from_score, CreditTier
  <2>2. block \in Nat /\ id \in Nat
    BY <1>1 DEF CreditInv, CreditTypeOK
  <2> HIDE DEF amount, col
  <2> QED BY <1>3, <1>4, <2>1, <2>2 DEF NewCredit, CreditIsSound, Credit
<1>8. MostInterest(new) \in Nat
  BY <1>7, CreditAmounts
<1>9. /\ LedgerTypeOK' /\ reserved' = reserved
      /\ issuance' \in Int /\ issuance' <= issuance + amount
      /\ \A a \in BankAccounts : free'[a] = free[a]
  <2>1. Credited(who, amount) \in Nat /\ Credited(who, amount) <= amount
    BY <1>4 DEF Credited
  <2> DEFINE got == Credited(who, amount)
  <2>2. /\ free' = [free EXCEPT ![who] = @ + got]
        /\ issuance' = issuance + got
        /\ reserved' = reserved /\ frozen' = frozen
    BY <1>1 DEF deposit_creating
  <2> HIDE DEF got, who, amount
  <2>3. LedgerTypeOK' /\ issuance' <= issuance + amount
    <3>1. /\ free \in [Accounts -> Nat] /\ issuance \in Int
          /\ reserved \in [Accounts -> Nat] /\ frozen \in [Accounts -> Nat]
      BY DEF LedgerTypeOK, CreditInv, CreditTypeOK
    <3>2. got \in Nat /\ got <= amount
      BY <2>1 DEF got
    <3>3. free' \in [Accounts -> Nat]
      <4>1. free' = [free EXCEPT ![who] = @ + got]
        BY <2>2
      <4>2. who \in Accounts
        BY <1>3
      <4> QED BY <3>1, <3>2, <4>1, <4>2
    <3>4. issuance' \in Int /\ issuance' <= issuance + amount
      <4>1. amount \in Nat
        BY <1>4
      <4>2. issuance' = issuance + got
        BY <2>2
      <4> QED BY <3>1, <3>2, <4>1, <4>2
    <3> QED BY <2>2, <3>1, <3>3, <3>4 DEF LedgerTypeOK
  <2>4. \A a \in BankAccounts : free'[a] = free[a]
    BY <1>3, <2>2, BanksAreFinite DEF LedgerTypeOK, CreditInv, CreditTypeOK
  <2> QED BY <2>2, <2>3, <2>4 DEF LedgerTypeOK
<1>10. /\ DOMAIN collateralContracts' = DOMAIN collateralContracts
       /\ collateralContracts'[id] = active
       /\ \A j \in DOMAIN collateralContracts \ {id} :
             collateralContracts'[j] = collateralContracts[j]
  BY <1>1
<1>11. /\ n \in Nat /\ n \notin DOMAIN creditContracts
       /\ DOMAIN creditContracts' = DOMAIN creditContracts \cup {n}
       /\ DOMAIN creditContracts' = 0 .. (n + 1) - 1
       /\ creditContracts'[n] = new
       /\ \A j \in DOMAIN creditContracts : creditContracts'[j] = creditContracts[j]
  <2>1. /\ n \in Nat /\ n \notin DOMAIN creditContracts
        /\ DOMAIN creditContracts \cup {n} = 0 .. (n + 1) - 1
    BY <1>0, ContractsAreFinite DEF CreditInv, CreditTypeOK
  <2> QED BY <1>0, <1>1, <2>1 DEF Put
<1> HIDE DEF new, active, amount, col, who
<1>12. SumsAdd(amount, 0, MostInterest(new))
  <2>1. SumsAdd(new.outstanding, new.accrued_interest, MostInterest(new))
    BY <1>1, <1>7, CreditAdded DEF CreditInv
  <2> QED BY <1>7, <2>1
<1>13. KeptAdds(0)
  <2>1. KeptAdds(KeptOf(active) - KeptOf(collateralContracts[id]))
    BY <1>1, <1>6, CollateralReplaced DEF CreditInv
  <2>2. KeptOf(active) - KeptOf(collateralContracts[id]) = 0
    BY <1>6 DEF col
  <2> QED BY <2>1, <2>2
<1>14. BanksGain(0)
  BY <1>9, BanksStay DEF CreditInv, CreditTypeOK
<1>15. TotalIsOwed' /\ CreditIsBorrowed' /\ IncomeIsInterest'
  <2> DEFINE most == MostInterest(new)
  <2>1. amount \in Int /\ most \in Int /\ 0 - 0 + 0 <= most
    BY <1>4, <1>8
  <2>2. SumsAdd(amount, 0, most)
    BY <1>12
  <2>3. /\ totalCreditOutstanding' = totalCreditOutstanding + amount
        /\ issuance' \in Int /\ issuance' <= issuance + amount
    BY <1>1, <1>9
  <2> HIDE DEF most
  <2> QED BY <1>13, <1>14, <2>1, <2>2, <2>3, BooksStayBalanced
<1>16. CreditTypeOK'
  <2>1. \A k \in DOMAIN creditContracts' : CreditIsSound(creditContracts'[k], block')
    BY <1>1, <1>7, <1>11 DEF CreditInv, CreditTypeOK
  <2>2. \A j \in DOMAIN collateralContracts' : CollateralIsSound(collateralContracts'[j])
    BY <1>6, <1>10 DEF CreditInv, CreditTypeOK
  <2>3. /\ DOMAIN creditScores' \subseteq Customers
        /\ \A c \in DOMAIN creditScores' : creditScores'[c] \in ScoreRecord
    BY <1>1, <1>3, <1>5, ScoreStored DEF CreditInv
  <2> QED BY <1>0, <1>1, <1>9, <1>10, <1>11, <2>1, <2>2, <2>3 DEF CreditInv, CreditTypeOK
<1>17. BackingAgrees'
  <2>1. \A k \in DOMAIN creditContracts : IsBacked(k) /\ creditContracts[k].collateral_id # id
    BY <1>1 DEF CreditInv, BackingAgrees, IsBacked, col
  <2>2. \A k \in DOMAIN creditContracts : IsBacked(k)'
    BY <1>10, <1>11, <2>1 DEF IsBacked, FullyRepaid
  <2>3. IsBacked(n)'
    BY <1>1, <1>6, <1>7, <1>10, <1>11 DEF IsBacked
  <2>4. \A k, j \in DOMAIN creditContracts' :
           creditContracts'[k].collateral_id = creditContracts'[j].collateral_id => k = j
    BY <1>7, <1>11, <2>1 DEF CreditInv, BackingAgrees
  <2>5. \A j \in DOMAIN collateralContracts' :
           collateralContracts'[j].status # "Locked" =>
              \E k \in DOMAIN creditContracts' : creditContracts'[k].collateral_id = j
    BY <1>7, <1>10, <1>11 DEF CreditInv, BackingAgrees
  <2> QED BY <1>11, <2>2, <2>3, <2>4, <2>5 DEF BackingAgrees
<1> QED BY <1>9, <1>15, <1>16, <1>17 DEF CreditInv

\* The interest up to now is no more than the most that may be charged grows.
AccrualIsInterest(k) ==
    LET old == creditContracts[k]
        new == Accrued(old)
        interest == calculate_accrued_interest(old)
    IN  /\ CreditIsSound(new, block)
        /\ interest \in Nat
        /\ new.outstanding = old.outstanding
        /\ new.accrued_interest = old.accrued_interest + interest
        /\ interest <= MostInterest(new) - MostInterest(old)
        /\ new.citizen = old.citizen /\ new.collateral_id = old.collateral_id
        /\ new.status = old.status

\* An accrual charges interest on whole periods, each of them once.
LEMMA AccrualIsSound ==
    ASSUME CreditTypeOK, NEW k \in DOMAIN creditContracts
    PROVE  AccrualIsInterest(k)
<1> DEFINE old == creditContracts[k]
           new == Accrued(old)
           interest == calculate_accrued_interest(old)
           rate == daily_rate_bps(old.tier)
           early == old.last_interest_block - old.issued_at
           late == block - old.last_interest_block
<1>1. /\ old \in Credit /\ old.outstanding <= old.credit_amount
      /\ old.issued_at <= old.last_interest_block /\ old.last_interest_block <= block
      /\ block \in Nat
  BY DEF CreditTypeOK, CreditIsSound
<1>2. interest = InterestOver(old.outstanding, rate, late)
  BY DEF calculate_accrued_interest, InterestOver
<1> HIDE DEF old
<1>3. /\ old.outstanding \in Nat /\ old.credit_amount \in Nat /\ old.tier \in CreditTier
      /\ old.accrued_interest \in Nat /\ old.issued_at \in Nat /\ old.last_interest_block \in Nat
  BY <1>1 DEF Credit
<1>4. rate \in Nat
  BY <1>3, RateIsNatural
<1>5. /\ early \in Nat /\ late \in Nat /\ early + late = block - old.issued_at
  BY <1>1, <1>3
<1>6. interest \in Nat
  <2> HIDE DEF interest, rate, late
  <2> QED BY <1>2, <1>3, <1>4, <1>5, InterestIsNatural
<1>7. /\ new = [old EXCEPT !.accrued_interest = @ + interest, !.last_interest_block = block]
  BY DEF Accrued
<1> HIDE DEF interest, new
<1>8. /\ new \in Credit
      /\ new.outstanding = old.outstanding /\ new.credit_amount = old.credit_amount
      /\ new.accrued_interest = old.accrued_interest + interest
      /\ new.citizen = old.citizen /\ new.collateral_id = old.collateral_id
      /\ new.status = old.status /\ new.tier = old.tier
      /\ new.issued_at = old.issued_at /\ new.last_interest_block = block
  <2> DEFINE sum == old.accrued_interest + interest
  <2>1. sum \in Nat /\ new = [old EXCEPT !.accrued_interest = sum, !.last_interest_block = block]
    BY <1>3, <1>6, <1>7
  <2> HIDE DEF sum
  <2>2. /\ new \in Credit
        /\ new.outstanding = old.outstanding /\ new.credit_amount = old.credit_amount
        /\ new.accrued_interest = sum
        /\ new.citizen = old.citizen /\ new.collateral_id = old.collateral_id
        /\ new.status = old.status /\ new.tier = old.tier
        /\ new.issued_at = old.issued_at /\ new.last_interest_block = block
    BY <1>1, <2>1 DEF Credit
  <2> QED BY <2>2 DEF sum
<1>9. CreditIsSound(new, block)
  BY <1>1, <1>3, <1>8 DEF CreditIsSound
<1>10. /\ MostInterest(new) = InterestOver(old.credit_amount, rate, early + late)
       /\ MostInterest(old) = InterestOver(old.credit_amount, rate, early)
  <2>1. new.last_interest_block - new.issued_at = early + late
    BY <1>5, <1>8
  <2>2. /\ MostInterest(new) = InterestOver(new.credit_amount, daily_rate_bps(new.tier),
                                            new.last_interest_block - new.issued_at)
        /\ MostInterest(old) = InterestOver(old.credit_amount, daily_rate_bps(old.tier),
                                            old.last_interest_block - old.issued_at)
    BY DEF MostInterest, InterestOver
  <2> QED BY <1>8, <2>1, <2>2
<1>11. interest <= MostInterest(new) - MostInterest(old)
  <2> HIDE DEF rate, early, late
  <2> DEFINE i == InterestOver(old.outstanding, rate, late)
             m == InterestOver(old.credit_amount, rate, early)
             t == InterestOver(old.credit_amount, rate, early + late)
  <2>1. i + m <= t
    BY <1>1, <1>3, <1>4, <1>5, InterestGrows
  <2>2. i \in Nat /\ m \in Nat
    BY <1>3, <1>4, <1>5, InterestIsNatural
  <2>3. t \in Nat
    <3>1. early + late \in Nat
      BY <1>5
    <3> QED BY <1>3, <1>4, <3>1, InterestIsNatural
  <2> HIDE DEF i, m, t
  <2>4. i <= t - m
    BY <2>1, <2>2, <2>3
  <2> QED BY <1>2, <1>10, <2>4 DEF i, m, t
<1> QED BY <1>6, <1>8, <1>9, <1>11 DEF AccrualIsInterest, new, interest, old

\* An accrual on request.
LEMMA AccrueStep ==
    ASSUME CreditInv, NEW k \in ContractIds, accrue_interest(k)
    PROVE  CreditInv'
<1> DEFINE old == creditContracts[k]
           new == Accrued(old)
           interest == calculate_accrued_interest(old)
<1>1. /\ k \in DOMAIN creditContracts /\ old.status = "Active"
      /\ \/ creditContracts' = creditContracts
         \/ creditContracts' = [creditContracts EXCEPT ![k] = new]
      /\ UNCHANGED ledger /\ block' = block
      /\ collateralContracts' = collateralContracts /\ nextCollateralId' = nextCollateralId
      /\ nextCreditId' = nextCreditId /\ bankSpecialAccount' = bankSpecialAccount
      /\ totalCreditOutstanding' = totalCreditOutstanding /\ creditScores' = creditScores
  BY DEF accrue_interest, IsActiveCredit
<1>2. KeptAdds(0)
  BY <1>1, CollateralsStay DEF CreditInv
<1>3. CASE creditContracts' = creditContracts
  <2>1. SumsAdd(0, 0, 0)
    BY <1>3, CreditsStay DEF CreditInv
  <2>2. LedgerTypeOK' /\ TotalIsOwed' /\ CreditIsBorrowed' /\ IncomeIsInterest'
    BY <1>1, <1>2, <2>1, NothingMoves
  <2>3. CreditTypeOK' /\ BackingAgrees'
    BY <1>1, <1>3, <2>2 DEF CreditInv, CreditTypeOK, BackingAgrees, IsBacked
  <2> QED BY <2>2, <2>3 DEF CreditInv
<1>4. CASE creditContracts' = [creditContracts EXCEPT ![k] = new]
  <2>1. AccrualIsInterest(k)
    BY <1>1, AccrualIsSound DEF CreditInv
  <2>2. /\ CreditIsSound(new, block) /\ interest \in Nat
        /\ new.outstanding = old.outstanding
        /\ new.accrued_interest = old.accrued_interest + interest
        /\ interest <= MostInterest(new) - MostInterest(old)
        /\ new.citizen = old.citizen /\ new.collateral_id = old.collateral_id
        /\ new.status = old.status
    BY <2>1 DEF AccrualIsInterest
  <2>3. CreditIsSound(old, block)
    BY <1>1 DEF CreditInv, CreditTypeOK
  <2>4. /\ old.outstanding \in Nat /\ old.accrued_interest \in Nat /\ MostInterest(old) \in Nat
        /\ MostInterest(new) \in Nat
    BY <2>2, <2>3, CreditAmounts
  <2>5. SumsAdd(new.outstanding - old.outstanding, new.accrued_interest - old.accrued_interest,
                MostInterest(new) - MostInterest(old))
    <3> HIDE DEF new
    <3> QED BY <1>1, <1>4, <2>2, CreditReplaced DEF CreditInv
  <2> HIDE DEF new, interest, old
  <2> DEFINE most == MostInterest(new) - MostInterest(old)
  <2>6. most \in Int /\ interest \in Int /\ 0 - 0 + interest <= most
    BY <2>2, <2>4
  <2>7. SumsAdd(0, interest, most)
    <3>1. /\ new.outstanding - old.outstanding = 0
          /\ new.accrued_interest - old.accrued_interest = interest
      BY <2>2, <2>4
    <3> QED BY <2>5, <3>1
  <2> HIDE DEF most
  <2>8. /\ free' = free /\ reserved' = reserved /\ frozen' = frozen /\ issuance' = issuance
        /\ LedgerTypeOK
    BY <1>1 DEF ledger, CreditInv, CreditTypeOK
  <2>9. LedgerTypeOK'
    BY <2>8 DEF LedgerTypeOK
  <2>10. BanksGain(0)
    BY <2>8, BanksStay
  <2>11. /\ totalCreditOutstanding' = totalCreditOutstanding + 0
         /\ issuance' \in Int /\ issuance' <= issuance + 0
    BY <1>1, <2>8, SumsAreIntegers DEF LedgerTypeOK, CreditInv, TotalIsOwed
  <2>12. TotalIsOwed' /\ CreditIsBorrowed' /\ IncomeIsInterest'
    BY <1>2, <2>6, <2>7, <2>10, <2>11, BooksStayBalanced
  <2>13. BackingAgrees'
    BY <1>1, <1>4, <2>2, BackingStays DEF old
  <2>14. /\ DOMAIN creditContracts' = DOMAIN creditContracts
         /\ \A j \in DOMAIN creditContracts' : CreditIsSound(creditContracts'[j], block)
    BY <1>1, <1>4, <2>2, CreditsAreSound DEF CreditInv
  <2>15. CreditTypeOK'
    BY <1>1, <2>9, <2>14 DEF CreditInv, CreditTypeOK
  <2> QED BY <2>12, <2>13, <2>15 DEF CreditInv
<1> QED BY <1>1, <1>3, <1>4

\* A default changes what a credit is called, and the score of its citizen.
LEMMA DefaultStep ==
    ASSUME CreditInv, NEW k \in ContractIds, declare_default(k)
    PROVE  CreditInv'
<1> DEFINE old == creditContracts[k]
           new == [old EXCEPT !.status = "Default"]
           who == old.citizen
<1>1. /\ k \in DOMAIN creditContracts /\ old.status = "Active"
      /\ creditContracts' = [creditContracts EXCEPT ![k] = new]
      /\ creditScores' = Put(creditScores, who, apply_default(ScoreOf(who)))
      /\ UNCHANGED ledger /\ block' = block
      /\ collateralContracts' = collateralContracts /\ nextCollateralId' = nextCollateralId
      /\ nextCreditId' = nextCreditId /\ bankSpecialAccount' = bankSpecialAccount
      /\ totalCreditOutstanding' = totalCreditOutstanding
  BY DEF declare_default, IsActiveCredit
<1>2. CreditIsSound(old, block)
  BY <1>1 DEF CreditInv, CreditTypeOK
<1>3. /\ CreditIsSound(new, block)
      /\ new.outstanding = old.outstanding /\ new.accrued_interest = old.accrued_interest
      /\ MostInterest(new) = MostInterest(old)
      /\ new.citizen = who /\ new.collateral_id = old.collateral_id /\ new.status = "Default"
  <2> HIDE DEF old
  <2>1. /\ new \in Credit
        /\ new.outstanding = old.outstanding /\ new.accrued_interest = old.accrued_interest
        /\ new.credit_amount = old.credit_amount /\ new.tier = old.tier
        /\ new.issued_at = old.issued_at /\ new.last_interest_block = old.last_interest_block
        /\ new.citizen = who /\ new.collateral_id = old.collateral_id /\ new.status = "Default"
    BY <1>2 DEF CreditIsSound, Credit
  <2> HIDE DEF new
  <2>2. CreditIsSound(new, block)
    BY <1>2, <2>1 DEF CreditIsSound
  <2> QED BY <2>1, <2>2 DEF MostInterest
<1>4. /\ old.outstanding \in Nat /\ old.accrued_interest \in Nat /\ MostInterest(old) \in Nat
      /\ who \in Customers
  BY <1>2, CreditAmounts DEF CreditIsSound, Credit
<1> HIDE DEF new, who
<1>5. SumsAdd(0, 0, 0)
  <2>1. SumsAdd(new.outstanding - old.outstanding, new.accrued_interest - old.accrued_interest,
                MostInterest(new) - MostInterest(old))
    BY <1>1, <1>3, CreditReplaced DEF CreditInv
  <2>2. /\ new.outstanding - old.outstanding = 0
        /\ new.accrued_interest - old.accrued_interest = 0
        /\ MostInterest(new) - MostInterest(old) = 0
    BY <1>3, <1>4
  <2> QED BY <2>1, <2>2
<1>6. KeptAdds(0)
  BY <1>1, CollateralsStay DEF CreditInv
<1>7. LedgerTypeOK' /\ TotalIsOwed' /\ CreditIsBorrowed' /\ IncomeIsInterest'
  BY <1>1, <1>5, <1>6, NothingMoves
<1>8. BackingAgrees'
  BY <1>1, <1>3, BackingStays DEF who
<1>9. /\ DOMAIN creditContracts' = DOMAIN creditContracts
      /\ \A j \in DOMAIN creditContracts' : CreditIsSound(creditContracts'[j], block)
  BY <1>1, <1>3, CreditsAreSound DEF CreditInv
<1>10. /\ DOMAIN creditScores' \subseteq Customers
       /\ \A c \in DOMAIN creditScores' : creditScores'[c] \in ScoreRecord
  <2>1. apply_default(ScoreOf(who)) \in ScoreRecord
    BY <1>4, ScoresAreSound DEF CreditInv
  <2> QED BY <1>1, <1>4, <2>1, ScoreStored DEF CreditInv
<1>11. CreditTypeOK'
  BY <1>1, <1>7, <1>9, <1>10 DEF CreditInv, CreditTypeOK
<1> QED BY <1>7, <1>8, <1>11 DEF CreditInv

\* The three movements of a repayment: the bank gains the interest less what it
\* returns, and the principal leaves the issuance.
LEMMA RepaymentMoves ==
    ASSUME LedgerTypeOK, NEW c \in Customers, NEW bank \in BankAccounts,
           NEW interest \in Nat, NEW principal \in Nat, NEW returned \in Nat,
           MoveMoney(c, bank, interest, principal, returned)
    PROVE  /\ LedgerTypeOK' /\ reserved' = reserved
           /\ issuance' \in Int /\ issuance' = issuance - principal
           /\ BanksGain(interest - returned)
<1> DEFINE paid == PaidFrom(free, c, bank, interest)
           burned == Burned(paid, c, principal)
<1>0. /\ free \in [Accounts -> Nat] /\ frozen \in [Accounts -> Nat] /\ issuance \in Int
      /\ reserved \in [Accounts -> Nat]
  BY DEF LedgerTypeOK
<1>1. /\ c \in Accounts /\ bank \in Accounts /\ c # bank /\ c \notin BankAccounts
  BY BanksAreFinite
<1>2. /\ CanPay(free, c, bank, interest) /\ CanBurn(paid, c, principal)
      /\ CanPay(burned, bank, c, returned)
      /\ free' = PaidFrom(burned, bank, c, returned)
      /\ issuance' = issuance - principal /\ reserved' = reserved /\ frozen' = frozen
  BY DEF MoveMoney
<1>3. /\ paid \in [Accounts -> Nat] /\ paid[bank] = free[bank] + interest
      /\ \A a \in Accounts \ {c, bank} : paid[a] = free[a]
  BY <1>0, <1>1, <1>2, PaymentMoves
<1> HIDE DEF paid
<1>4. /\ burned \in [Accounts -> Nat]
      /\ \A a \in Accounts \ {c} : burned[a] = paid[a]
  <2>1. principal = 0 \/ paid[c] >= principal
    <3>1. Most(ExistentialDeposit, frozen[c]) \in Nat
      BY <1>0, <1>1, LedgerAssumption DEF Most
    <3>2. paid[c] \in Nat
      BY <1>1, <1>3
    <3> QED BY <1>2, <3>1, <3>2 DEF CanBurn
  <2>2. burned = [paid EXCEPT ![c] = @ - principal]
    BY DEF Burned
  <2> HIDE DEF burned
  <2> QED BY <1>1, <1>3, <2>1, <2>2
<1> HIDE DEF burned
<1>5. /\ free' \in [Accounts -> Nat] /\ free'[bank] = burned[bank] - returned
      /\ \A a \in Accounts \ {c, bank} : free'[a] = burned[a]
  BY <1>0, <1>1, <1>2, <1>4, PaymentMoves
<1>6. free'[bank] = free[bank] + (interest - returned)
  <2>1. free[bank] \in Nat /\ burned[bank] = free[bank] + interest
    BY <1>0, <1>1, <1>3, <1>4
  <2> QED BY <1>5, <2>1
<1>7. \A a \in BankAccounts \ {bank} : free'[a] = free[a]
  BY <1>1, <1>3, <1>4, <1>5, BanksAreFinite
<1>8. interest - returned \in Int
  OBVIOUS
<1>9. BanksGain(interest - returned)
  <2> DEFINE gain == interest - returned
  <2>1. gain \in Int /\ free'[bank] = free[bank] + gain
    BY <1>6, <1>8
  <2> HIDE DEF gain
  <2>2. BanksGain(gain)
    BY <1>7, <2>1, BankChanges
  <2> QED BY <2>2 DEF gain
<1>10. LedgerTypeOK' /\ issuance' \in Int
  BY <1>0, <1>2, <1>5 DEF LedgerTypeOK
<1> QED BY <1>2, <1>9, <1>10

\* A payment divided into interest and principal.
LEMMA ReductionIsSound ==
    ASSUME NEW k, NEW now, CreditIsSound(k, now), NEW v \in Nat
    PROVE  /\ InterestPart(k, v) \in 0 .. k.accrued_interest
           /\ PrincipalPart(k, v) \in 0 .. k.outstanding
           /\ CreditIsSound(Reduced(k, v), now)
           /\ Reduced(k, v).outstanding = k.outstanding - PrincipalPart(k, v)
           /\ Reduced(k, v).accrued_interest = k.accrued_interest - InterestPart(k, v)
           /\ MostInterest(Reduced(k, v)) = MostInterest(k)
           /\ Reduced(k, v).citizen = k.citizen
           /\ Reduced(k, v).collateral_id = k.collateral_id
           /\ Reduced(k, v).status = k.status
<1> DEFINE i == InterestPart(k, v)
           p == PrincipalPart(k, v)
           new == Reduced(k, v)
<1>1. k \in Credit /\ k.outstanding \in Nat /\ k.accrued_interest \in Nat
  BY DEF CreditIsSound, Credit
<1>2. i \in 0 .. k.accrued_interest /\ i <= v
  BY <1>1 DEF InterestPart, Least
<1>3. p \in 0 .. k.outstanding
  BY <1>1, <1>2 DEF PrincipalPart, Least
<1> HIDE DEF i, p
<1> DEFINE a == k.accrued_interest - i
           o == k.outstanding - p
<1>4. a \in Nat /\ o \in Nat /\ o <= k.outstanding
  BY <1>1, <1>2, <1>3
<1>5. new = [k EXCEPT !.accrued_interest = a, !.outstanding = o]
  BY DEF Reduced, i, p
<1> HIDE DEF a, o, new
<1>6. /\ new \in Credit
      /\ new.accrued_interest = a /\ new.outstanding = o
      /\ new.credit_amount = k.credit_amount /\ new.tier = k.tier
      /\ new.issued_at = k.issued_at /\ new.last_interest_block = k.last_interest_block
      /\ new.citizen = k.citizen /\ new.collateral_id = k.collateral_id
      /\ new.status = k.status
  BY <1>1, <1>4, <1>5 DEF Credit
<1>7. CreditIsSound(new, now)
  <2>1. k.outstanding <= k.credit_amount /\ k.credit_amount \in Nat
    BY <1>1 DEF CreditIsSound, Credit
  <2>2. new.outstanding <= new.credit_amount
    BY <1>1, <1>4, <1>6, <2>1
  <2> QED BY <1>6, <2>2 DEF CreditIsSound
<1>8. MostInterest(new) = MostInterest(k)
  BY <1>6 DEF MostInterest
<1> QED BY <1>2, <1>3, <1>6, <1>7, <1>8 DEF new, a, o, i, p

\* The credit k is repaid and its collateral released, and no other is touched.
LEMMA BackingReleased ==
    ASSUME CreditInv, NEW k \in DOMAIN creditContracts, NEW new, NEW col,
           creditContracts' = [creditContracts EXCEPT ![k] = new],
           new.citizen = creditContracts[k].citizen,
           new.collateral_id = creditContracts[k].collateral_id,
           new.status = "Repaid", FullyRepaid(new),
           collateralContracts' =
              [collateralContracts EXCEPT ![creditContracts[k].collateral_id] = col],
           col.citizen = creditContracts[k].citizen, col.status = "Released"
    PROVE  BackingAgrees'
<1> DEFINE id == creditContracts[k].collateral_id
<1>1. /\ DOMAIN creditContracts' = DOMAIN creditContracts
      /\ creditContracts'[k] = new
      /\ \A j \in DOMAIN creditContracts \ {k} : creditContracts'[j] = creditContracts[j]
  OBVIOUS
<1>2. \A j \in DOMAIN creditContracts :
         creditContracts'[j].collateral_id = creditContracts[j].collateral_id
  BY <1>1
<1>3. \A j \in DOMAIN creditContracts : IsBacked(j)
  BY DEF CreditInv, BackingAgrees
<1>4. id \in DOMAIN collateralContracts
  BY <1>3 DEF IsBacked
<1>5. /\ DOMAIN collateralContracts' = DOMAIN collateralContracts
      /\ collateralContracts'[id] = col
      /\ \A j \in DOMAIN collateralContracts \ {id} :
            collateralContracts'[j] = collateralContracts[j]
  BY <1>4
<1>6. IsBacked(k)'
  BY <1>1, <1>4, <1>5 DEF IsBacked
<1>7. ASSUME NEW j \in DOMAIN creditContracts, j # k PROVE IsBacked(j)'
  <2>1. creditContracts[j].collateral_id # id
    BY <1>7 DEF CreditInv, BackingAgrees
  <2> QED BY <1>1, <1>3, <1>5, <1>7, <2>1 DEF IsBacked, FullyRepaid
<1>8. \A i \in DOMAIN collateralContracts' :
         collateralContracts'[i].status # "Locked" =>
            \E j \in DOMAIN creditContracts : creditContracts[j].collateral_id = i
  BY <1>4, <1>5 DEF CreditInv, BackingAgrees
<1> QED BY <1>1, <1>2, <1>6, <1>7, <1>8 DEF CreditInv, BackingAgrees

\* What a repayment of v makes of the credit k.
AfterRepayment(k, v) ==
    LET left == Reduced(Accrued(creditContracts[k]), v)
    IN  IF FullyRepaid(left) THEN [left EXCEPT !.status = "Repaid"] ELSE left

RepaidInterest(k, v) == InterestPart(Accrued(creditContracts[k]), v)
RepaidPrincipal(k, v) == PrincipalPart(Accrued(creditContracts[k]), v)
IsRepaidBy(k, v) == FullyRepaid(Reduced(Accrued(creditContracts[k]), v))

\* The credit after a repayment: less by what was paid, and more by the accrual.
RepaymentIsSound(k, v) ==
    LET old == creditContracts[k]
        new == AfterRepayment(k, v)
        accrued == calculate_accrued_interest(old)
    IN  /\ CreditIsSound(new, block)
        /\ new.citizen = old.citizen /\ new.collateral_id = old.collateral_id
        /\ new.status = IF IsRepaidBy(k, v) THEN "Repaid" ELSE old.status
        /\ IsRepaidBy(k, v) => FullyRepaid(new)
        /\ RepaidInterest(k, v) \in Nat /\ RepaidPrincipal(k, v) \in Nat
        /\ accrued \in Nat
        /\ new.outstanding - old.outstanding = -RepaidPrincipal(k, v)
        /\ new.accrued_interest - old.accrued_interest = accrued - RepaidInterest(k, v)
        /\ accrued <= MostInterest(new) - MostInterest(old)

\* What is charged in a repayment is the accrual, and it is interest.
LEMMA RepaymentCharges ==
    ASSUME CreditTypeOK, NEW k \in DOMAIN creditContracts, NEW v \in Nat
    PROVE  RepaymentIsSound(k, v)
<1> DEFINE old == creditContracts[k]
           due == Accrued(old)
           left == Reduced(due, v)
           new == AfterRepayment(k, v)
           accrued == calculate_accrued_interest(old)
           i == InterestPart(due, v)
           p == PrincipalPart(due, v)
<1>1. /\ CreditIsSound(due, block) /\ accrued \in Nat
      /\ due.outstanding = old.outstanding
      /\ due.accrued_interest = old.accrued_interest + accrued
      /\ accrued <= MostInterest(due) - MostInterest(old)
      /\ due.citizen = old.citizen /\ due.collateral_id = old.collateral_id
      /\ due.status = old.status
  BY AccrualIsSound DEF AccrualIsInterest
<1>2. CreditIsSound(old, block)
  BY DEF CreditTypeOK
<1>3. /\ old.outstanding \in Nat /\ old.accrued_interest \in Nat
      /\ due.outstanding \in Nat /\ due.accrued_interest \in Nat
  BY <1>1, <1>2, CreditAmounts
<1> HIDE DEF due
<1>4. /\ i \in 0 .. due.accrued_interest /\ p \in 0 .. due.outstanding
      /\ CreditIsSound(left, block)
      /\ left.outstanding = due.outstanding - p
      /\ left.accrued_interest = due.accrued_interest - i
      /\ MostInterest(left) = MostInterest(due)
      /\ left.citizen = due.citizen /\ left.collateral_id = due.collateral_id
      /\ left.status = due.status
  BY <1>1, ReductionIsSound
<1>5. new = IF FullyRepaid(left) THEN [left EXCEPT !.status = "Repaid"] ELSE left
  BY DEF AfterRepayment, due
<1> HIDE DEF left, new, i, p, accrued, old
<1>6. /\ CreditIsSound(new, block)
      /\ new.outstanding = left.outstanding /\ new.accrued_interest = left.accrued_interest
      /\ MostInterest(new) = MostInterest(left)
      /\ new.citizen = left.citizen /\ new.collateral_id = left.collateral_id
      /\ new.status = IF FullyRepaid(left) THEN "Repaid" ELSE left.status
      /\ FullyRepaid(left) => FullyRepaid(new)
  <2>1. CASE ~FullyRepaid(left)
    BY <1>4, <1>5, <2>1
  <2>2. CASE FullyRepaid(left)
    <3>1. left \in Credit
      BY <1>4 DEF CreditIsSound
    <3>2. /\ new \in Credit
          /\ new.outstanding = left.outstanding /\ new.accrued_interest = left.accrued_interest
          /\ new.credit_amount = left.credit_amount /\ new.tier = left.tier
          /\ new.issued_at = left.issued_at /\ new.last_interest_block = left.last_interest_block
          /\ new.citizen = left.citizen /\ new.collateral_id = left.collateral_id
          /\ new.status = "Repaid"
      BY <1>5, <2>2, <3>1 DEF Credit
    <3>3. CreditIsSound(new, block)
      BY <1>4, <3>2 DEF CreditIsSound
    <3>4. FullyRepaid(new)
      BY <2>2, <3>2 DEF FullyRepaid
    <3> QED BY <2>2, <3>2, <3>3, <3>4 DEF MostInterest
  <2> QED BY <2>1, <2>2
<1>7. i \in Nat /\ p \in Nat
  BY <1>3, <1>4
<1>8. new.outstanding - old.outstanding = -p
  BY <1>1, <1>3, <1>4, <1>6, <1>7
<1>9. new.accrued_interest - old.accrued_interest = accrued - i
  BY <1>1, <1>3, <1>4, <1>6, <1>7
<1>10. accrued <= MostInterest(new) - MostInterest(old)
  BY <1>1, <1>4, <1>6
<1>11. /\ IsRepaidBy(k, v) <=> FullyRepaid(left)
       /\ RepaidInterest(k, v) = i /\ RepaidPrincipal(k, v) = p
  BY DEF IsRepaidBy, RepaidInterest, RepaidPrincipal, left, due, i, p, old
<1>12. new.status = IF IsRepaidBy(k, v) THEN "Repaid" ELSE old.status
  BY <1>1, <1>4, <1>6, <1>11
<1> QED BY <1>1, <1>4, <1>6, <1>7, <1>8, <1>9, <1>10, <1>11, <1>12
        DEF RepaymentIsSound, old, new, accrued

\* A repayment brings the bank interest, burns the principal and returns the
\* collateral when nothing is left.
LEMMA RepayStep ==
    ASSUME CreditInv, NEW c \in Customers, NEW k \in ContractIds, NEW v \in RepayAmounts,
           repay_credit(c, k, v)
    PROVE  CreditInv' /\ reserved' = reserved
<1> DEFINE old == creditContracts[k]
           new == AfterRepayment(k, v)
           full == IsRepaidBy(k, v)
           i == RepaidInterest(k, v)
           p == RepaidPrincipal(k, v)
           id == old.collateral_id
           col == collateralContracts[id]
           released == [col EXCEPT !.status = "Released"]
           returned == IF full THEN col.collateral_net ELSE 0
           accrued == calculate_accrued_interest(old)
           most == MostInterest(new) - MostInterest(old)
           kept == 0 - returned
<1>1. /\ k \in DOMAIN creditContracts /\ old.status = "Active" /\ old.citizen = c
  BY DEF repay_credit, CanRepay, IsActiveCredit
<1>2. v \in Nat /\ CreditTypeOK /\ LedgerTypeOK
  BY OperatorAssumption DEF CreditInv, CreditTypeOK
<1>3. RepaymentIsSound(k, v) /\ AccrualIsInterest(k)
  BY <1>1, <1>2, RepaymentCharges, AccrualIsSound
<1>4. Accrued(old).collateral_id = id
  BY <1>3 DEF AccrualIsInterest
<1>5. /\ creditContracts' = [creditContracts EXCEPT ![k] = new]
      /\ collateralContracts' = IF full THEN [collateralContracts EXCEPT ![id] = released]
                                ELSE collateralContracts
      /\ totalCreditOutstanding' = totalCreditOutstanding - p
      /\ creditScores' = ScoresAfter(c, full, p)
      /\ \E bank \in bankSpecialAccount : MoveMoney(c, bank, i, p, returned)
      /\ block' = block /\ nextCollateralId' = nextCollateralId /\ nextCreditId' = nextCreditId
      /\ bankSpecialAccount' = bankSpecialAccount
  BY <1>4 DEF repay_credit, AfterRepayment, IsRepaidBy, RepaidInterest, RepaidPrincipal,
              TotalAfter
<1>6. /\ CreditIsSound(new, block)
      /\ new.citizen = old.citizen /\ new.collateral_id = id
      /\ new.status = IF full THEN "Repaid" ELSE old.status
      /\ full => FullyRepaid(new)
      /\ i \in Nat /\ p \in Nat /\ accrued \in Nat
      /\ new.outstanding - old.outstanding = -p
      /\ new.accrued_interest - old.accrued_interest = accrued - i
      /\ accrued <= most
  BY <1>3 DEF RepaymentIsSound
<1>7. /\ id \in DOMAIN collateralContracts /\ col.citizen = c
      /\ col.status # "Locked" /\ col.status # "Released"
      /\ CollateralIsSound(col)
  <2>1. IsBacked(k)
    BY <1>1 DEF CreditInv, BackingAgrees
  <2>2. id \in DOMAIN collateralContracts /\ col.citizen = c
        /\ col.status # "Locked" /\ col.status # "Released"
    BY <1>1, <2>1 DEF IsBacked
  <2> QED BY <1>2, <2>2 DEF CreditTypeOK
<1>8. CreditIsSound(old, block)
  BY <1>1, <1>2 DEF CreditTypeOK
<1>9. MostInterest(new) \in Nat /\ MostInterest(old) \in Nat
  BY <1>6, <1>8, CreditAmounts
<1> HIDE DEF new, full, i, p, accrued
<1>10. /\ CollateralIsSound(released) /\ released.citizen = c /\ released.status = "Released"
       /\ KeptOf(released) - KeptOf(col) = -col.collateral_net
       /\ col.collateral_net \in Nat
  <2> HIDE DEF col
  <2>1. col \in Collateral /\ col.collateral_net <= col.collateral_amount
    BY <1>7 DEF CollateralIsSound
  <2>2. /\ released \in Collateral
        /\ released.status = "Released" /\ released.citizen = col.citizen
        /\ released.collateral_net = col.collateral_net
        /\ released.collateral_amount = col.collateral_amount
    BY <2>1 DEF Collateral
  <2>3. CollateralIsSound(released)
    BY <2>1, <2>2 DEF CollateralIsSound
  <2>4. col.collateral_net \in Nat /\ col.collateral_amount \in Nat
    BY <2>1 DEF Collateral
  <2>5. KeptOf(released) - KeptOf(col) = -col.collateral_net
    BY <1>7, <2>2, <2>4 DEF KeptOf
  <2> QED BY <1>7, <2>2, <2>3, <2>4, <2>5
<1>11. returned \in Nat
  BY <1>10
<1>12. SumsAdd(-p, accrued - i, most)
  <2>1. SumsAdd(new.outstanding - old.outstanding, new.accrued_interest - old.accrued_interest,
                MostInterest(new) - MostInterest(old))
    BY <1>1, <1>2, <1>5, <1>6, CreditReplaced
  <2> QED BY <1>6, <2>1
<1>13. KeptAdds(kept)
  <2>1. CASE full
    <3>1. collateralContracts' = [collateralContracts EXCEPT ![id] = released]
      BY <1>5, <2>1
    <3> HIDE DEF released
    <3>2. KeptAdds(KeptOf(released) - KeptOf(collateralContracts[id]))
      BY <1>2, <1>7, <1>10, <3>1, CollateralReplaced
    <3>3. KeptOf(released) - KeptOf(collateralContracts[id]) = kept
      BY <1>10, <2>1
    <3> QED BY <3>2, <3>3
  <2>2. CASE ~full
    <3>1. returned = 0
      BY <2>2
    <3> HIDE DEF returned
    <3>3. kept = 0
      BY <3>1
    <3>2. KeptAdds(0)
      BY <1>2, <1>5, <2>2, CollateralsStay
    <3> QED BY <3>2, <3>3
  <2> QED BY <2>1, <2>2
<1> HIDE DEF released, most
<1>14. /\ LedgerTypeOK' /\ reserved' = reserved
       /\ issuance' \in Int /\ issuance' = issuance - p
       /\ BanksGain(i - returned)
  <2>1. PICK bank \in bankSpecialAccount : MoveMoney(c, bank, i, p, returned)
    BY <1>5
  <2>2. bank \in BankAccounts
    BY <1>2 DEF CreditTypeOK
  <2> HIDE DEF returned
  <2> QED BY <1>2, <1>6, <1>11, <2>1, <2>2, RepaymentMoves
<1>15. TotalIsOwed' /\ CreditIsBorrowed' /\ IncomeIsInterest'
  <2> DEFINE owed == -p
             charged == accrued - i
             gain == i - returned
  <2> HIDE DEF returned
  <2>1. /\ owed \in Int /\ charged \in Int /\ kept \in Int /\ gain \in Int
        /\ gain >= kept /\ gain - kept + charged = accrued
    BY <1>6, <1>11
  <2>2. most \in Int
    BY <1>9 DEF most
  <2>3. gain - kept + charged <= most
    BY <1>6, <2>1
  <2>4. totalCreditOutstanding \in Int /\ issuance \in Int
    BY <1>2, SumsAreIntegers DEF CreditInv, TotalIsOwed, LedgerTypeOK
  <2>5. /\ totalCreditOutstanding' = totalCreditOutstanding + owed
        /\ issuance' \in Int /\ issuance' <= issuance + owed
    BY <1>5, <1>6, <1>14, <2>4
  <2>6. SumsAdd(owed, charged, most) /\ BanksGain(gain)
    BY <1>12, <1>14
  <2> HIDE DEF owed, charged, kept, gain
  <2> QED BY <1>13, <2>1, <2>2, <2>3, <2>5, <2>6, BooksStayBalanced
<1>16. /\ DOMAIN creditScores' \subseteq Customers
       /\ \A a \in DOMAIN creditScores' : creditScores'[a] \in ScoreRecord
  <2>1. /\ apply_full_repayment(ScoreOf(c)) \in ScoreRecord
        /\ apply_partial_repayment(ScoreOf(c)) \in ScoreRecord
        /\ ScoreOf(c) \in ScoreRecord
    BY <1>2, ScoresAreSound
  <2>2. \/ creditScores' = creditScores
        \/ \E r \in ScoreRecord : creditScores' = Put(creditScores, c, r)
    BY <1>5, <2>1 DEF ScoresAfter
  <2> QED BY <1>2, <2>2, ScoreStored DEF CreditTypeOK
<1>17. /\ DOMAIN creditContracts' = DOMAIN creditContracts
       /\ \A j \in DOMAIN creditContracts' : CreditIsSound(creditContracts'[j], block)
  BY <1>1, <1>2, <1>5, <1>6, CreditsAreSound
<1>18. /\ DOMAIN collateralContracts' = DOMAIN collateralContracts
       /\ \A j \in DOMAIN collateralContracts' : CollateralIsSound(collateralContracts'[j])
  BY <1>2, <1>5, <1>10 DEF CreditTypeOK
<1>19. CreditTypeOK'
  BY <1>2, <1>5, <1>14, <1>16, <1>17, <1>18 DEF CreditTypeOK
<1>20. BackingAgrees'
  <2>1. CASE full
    BY <1>1, <1>5, <1>6, <1>10, <2>1, BackingReleased
  <2>2. CASE ~full
    BY <1>1, <1>5, <1>6, <2>2, BackingStays
  <2> QED BY <2>1, <2>2
<1> QED BY <1>14, <1>15, <1>19, <1>20 DEF CreditInv

\* Every step of the credits keeps their invariant.
LEMMA CreditSteps ==
    ASSUME CreditInv, CreditStep
    PROVE  CreditInv' /\ reserved' = reserved
<1>1. ASSUME UNCHANGED ledger PROVE reserved' = reserved
  BY <1>1 DEF ledger
<1>2. ASSUME NEW a \in BankAccounts, set_bank_account(a) PROVE CreditInv' /\ reserved' = reserved
  BY <1>1, <1>2, SetBankStep DEF set_bank_account
<1>3. ASSUME NEW c \in Customers, NEW id \in ContractIds, request_credit(c, id)
      PROVE  CreditInv' /\ reserved' = reserved
  BY <1>1, <1>3, RequestStep DEF request_credit
<1>4. ASSUME NEW id \in ContractIds, accrue_interest(id) \/ declare_default(id)
      PROVE  CreditInv' /\ reserved' = reserved
  BY <1>1, <1>4, AccrueStep, DefaultStep DEF accrue_interest, declare_default
<1>5. ASSUME NextBlock, UNCHANGED <<ledger, creditVars>>
      PROVE  CreditInv' /\ reserved' = reserved
  BY <1>1, <1>5, BlockStep
<1> QED BY <1>2, <1>3, <1>4, <1>5, LockCollateralStep, IssueStep, RepayStep DEF CreditStep

-----------------------------------------------------------------------------
(* The composition                                                         *)

\* In a behaviour about another pallet nobody is on the wall, and no vault is.
Aside ==
    /\ part # "bounties" => DOMAIN wallOfShame = {}
    /\ part # "vaults" => DOMAIN vaults = {}

CustodyInv ==
    /\ CreditInv
    /\ PocketInv
    /\ BountyInv
    /\ VaultInv
    /\ Aside

\* The parts' accounts, as the assumptions of the pallets say.
LEMMA PartsAreApart ==
    /\ Citizens \cup {StateTreasury} \cup Owners \cup VaultAddresses \subseteq Accounts
    /\ BankAccounts \subseteq Accounts
    /\ BankAccounts \cap (Citizens \cup {StateTreasury} \cup Owners \cup VaultAddresses) = {}
BY CustodyAssumption, BlackBookAssumption, VaultAssumption, OperatorAssumption

\* The state at first.
LEMMA CustodyStart == MCInit => CustodyInv
<1> SUFFICES ASSUME MCInit PROVE CustodyInv
  OBVIOUS
<1>1. /\ free = InitialFree /\ reserved = [a \in Accounts |-> 0] /\ frozen = [a \in Accounts |-> 0]
      /\ issuance = SumOver(InitialFree, Accounts) /\ block = 0
      /\ citizens = Registered([c \in Citizens |-> "Regular"])
      /\ OperatorInit /\ OfflineInit /\ BookInit /\ VaultInit
  BY DEF MCInit, AnyInit
<1>2. InitialFree \in [Accounts -> Nat] /\ Citizens \subseteq Accounts
  BY OperatorAssumption, BlackBookAssumption
<1>3. /\ SumOver(InitialFree, BankAccounts) \in Int
      /\ SumOver(InitialFree, Accounts) \in Int
  BY <1>2, BanksAreFinite, LedgerAssumption, SumIsInt
<1>4. LedgerTypeOK /\ block \in Nat
  BY <1>1, <1>2, <1>3 DEF LedgerTypeOK
<1>5. citizens \in [Citizens -> CitizenRecord]
  BY <1>1, RegistryAssumption DEF Registered, CitizenRecord, CitizenRole, CitizenStatus
<1>6. PocketInv
  BY <1>1, <1>2, <1>4, <1>5 DEF PocketInv, PocketIsReserved, OfflineInit
<1>7. DOMAIN <<>> = {}
  OBVIOUS
<1>8. BountyInv
  BY <1>1, <1>4, <1>5, <1>7 DEF BountyInv, BookTypeOK, BookAgrees, ExileIsTerminal, BookInit
<1>9. VaultInv /\ Aside
  BY <1>1, <1>4, <1>7 DEF VaultInv, VaultInit, Aside, BookInit
<1>10. /\ DOMAIN collateralContracts = {} /\ DOMAIN creditContracts = {}
       /\ nextCollateralId = 0 /\ nextCreditId = 0 /\ bankSpecialAccount = {}
       /\ totalCreditOutstanding = 0 /\ DOMAIN creditScores = {}
  BY <1>1, <1>7 DEF OperatorInit
<1>11. 0 .. 0 - 1 = {}
  OBVIOUS
<1>12. CreditTypeOK
  BY <1>4, <1>10, <1>11 DEF CreditTypeOK
<1>13. BackingAgrees
  BY <1>10 DEF BackingAgrees
<1>14. \A f : SumOver(f, {}) = 0
  BY SumUnfolds, FS_EmptySet
<1>15. TotalIsOwed
  BY <1>10, <1>14 DEF TotalIsOwed
<1>16. CreditIsBorrowed
  BY <1>1, <1>3, <1>10 DEF CreditIsBorrowed
<1>17. IncomeIsInterest
  BY <1>1, <1>3, <1>10, <1>14 DEF IncomeIsInterest, Income
<1> QED BY <1>6, <1>8, <1>9, <1>12, <1>13, <1>15, <1>16, <1>17 DEF CustodyInv, CreditInv

\* A step that is none of the bank's leaves the book of credits balanced.
LEMMA CreditsAside ==
    ASSUME CreditInv, UNCHANGED creditVars, LedgerTypeOK', issuance' <= issuance,
           block' \in Nat, block' >= block, \A a \in BankAccounts : free'[a] = free[a]
    PROVE  CreditInv'
<1>1. /\ collateralContracts' = collateralContracts /\ nextCollateralId' = nextCollateralId
      /\ creditContracts' = creditContracts /\ nextCreditId' = nextCreditId
      /\ bankSpecialAccount' = bankSpecialAccount
      /\ totalCreditOutstanding' = totalCreditOutstanding /\ creditScores' = creditScores
  BY DEF creditVars
<1>2. SumsAdd(0, 0, 0) /\ KeptAdds(0)
  BY <1>1, CreditsStay, CollateralsStay DEF CreditInv
<1>3. BanksGain(0)
  BY BanksStay DEF CreditInv, CreditTypeOK
<1>4. totalCreditOutstanding \in Int /\ issuance \in Int /\ issuance' \in Int
  BY SumsAreIntegers DEF CreditInv, TotalIsOwed, CreditTypeOK, LedgerTypeOK
<1>5. /\ totalCreditOutstanding' = totalCreditOutstanding + 0
      /\ issuance' <= issuance + 0
  BY <1>1, <1>4
<1>6. TotalIsOwed' /\ CreditIsBorrowed' /\ IncomeIsInterest'
  BY <1>2, <1>3, <1>4, <1>5, BooksStayBalanced
<1>7. \A k \in DOMAIN creditContracts : CreditIsSound(creditContracts[k], block')
  BY DEF CreditInv, CreditTypeOK, CreditIsSound, Credit
<1>8. CreditTypeOK'
  BY <1>1, <1>7 DEF CreditInv, CreditTypeOK
<1>9. BackingAgrees'
  BY <1>1 DEF CreditInv, BackingAgrees, IsBacked
<1> QED BY <1>6, <1>8, <1>9 DEF CreditInv

\* What the properties say of a step.
PocketsPay == \A c \in Citizens : PocketPays(c)
VaultsPay == \A k \in DOMAIN vaults : VaultPays(k)

\* A step that leaves the pockets and reserves alone pays no IOU.
LEMMA PocketsAside ==
    ASSUME PocketInv, UNCHANGED offlineVars, LedgerTypeOK', reserved' = reserved,
           citizens' \in [Citizens -> CitizenRecord]
    PROVE  PocketInv' /\ PocketsPay
<1>1. offlinePockets' = offlinePockets
  BY DEF offlineVars
<1>2. PocketInv'
  BY <1>1 DEF PocketInv, PocketIsReserved
<1>3. \A c \in Citizens : ~(offlinePockets'[c] < offlinePockets[c])
  BY <1>1 DEF PocketInv
<1> QED BY <1>2, <1>3 DEF PocketsPay, PocketPays

\* A step of another pallet, where there is no vault.
LEMMA VaultsAside ==
    ASSUME VaultInv, Aside, part # "vaults", part' = part, UNCHANGED vaultVars, LedgerTypeOK'
    PROVE  VaultInv' /\ VaultsPay /\ DOMAIN vaults' = {}
BY DEF VaultInv, Aside, vaultVars, VaultsPay

\* A step of another pallet, where nobody is on the wall.
LEMMA BookAside ==
    ASSUME BountyInv, Aside, part # "bounties", part' = part, UNCHANGED bookVars, LedgerTypeOK',
           block' \in Nat, citizens' \in [Citizens -> CitizenRecord]
    PROVE  BountyInv' /\ Vested /\ DOMAIN wallOfShame' = {}
<1>1. /\ wallOfShame' = wallOfShame /\ bountyPools' = bountyPools
      /\ lockedBountyPayouts' = lockedBountyPayouts
      /\ DOMAIN wallOfShame = {} /\ DOMAIN bountyPools = {} /\ DOMAIN lockedBountyPayouts = {}
  BY DEF bookVars, Aside, BountyInv, BookAgrees, ExileIsTerminal
<1>2. BookTypeOK' /\ BookAgrees' /\ ExileIsTerminal'
  BY <1>1 DEF BookTypeOK, BookAgrees, ExileIsTerminal
<1>3. Vested
  BY <1>1 DEF Vested
<1> QED BY <1>1, <1>2, <1>3 DEF BountyInv

\* What every step does.
CustodyStepSays == CustodyInv' /\ PocketsPay /\ Vested /\ VaultsPay

\* A step about credits.
LEMMA CreditPart ==
    ASSUME CustodyInv, part = "credits", part' = part, CreditStep,
           UNCHANGED <<citizens, offlineVars, bookVars, vaultVars>>
    PROVE  CustodyStepSays
<1>1. CreditInv' /\ reserved' = reserved /\ LedgerTypeOK' /\ block' \in Nat
  BY CreditSteps DEF CustodyInv, CreditInv, CreditTypeOK
<1>2. citizens' \in [Citizens -> CitizenRecord]
  BY DEF CustodyInv, PocketInv
<1>3. PocketInv' /\ PocketsPay
  BY <1>1, <1>2, PocketsAside DEF CustodyInv
<1>4. VaultInv' /\ VaultsPay /\ DOMAIN vaults' = {}
  BY <1>1, VaultsAside DEF CustodyInv
<1>5. BountyInv' /\ Vested /\ DOMAIN wallOfShame' = {}
  BY <1>1, <1>2, BookAside DEF CustodyInv
<1> QED BY <1>1, <1>3, <1>4, <1>5 DEF CustodyStepSays, CustodyInv, Aside

\* A step about pockets.
LEMMA PocketPart ==
    ASSUME CustodyInv, part = "pockets", part' = part,
           OfflineStep \/ (CitizenStep /\ UNCHANGED offlineVars),
           UNCHANGED <<block, creditVars, bookVars, vaultVars>>
    PROVE  CustodyStepSays
<1>1. Citizens \subseteq Accounts
  BY PartsAreApart
<1>2. /\ PocketInv' /\ PocketsPay /\ issuance' <= issuance
      /\ \A a \in Accounts \ Citizens : free'[a] = free[a]
  <2>1. CASE \E c \in Citizens, v \in PocketAmounts : lock_funds(c, v)
    <3>1. PICK c \in Citizens, v \in PocketAmounts : lock_funds(c, v)
      BY <2>1
    <3>2. PocketInv' /\ PocketsPay
      BY <3>1, LockStep DEF CustodyInv, PocketsPay
    <3>3. free' = [free EXCEPT ![c] = @ - v] /\ issuance' = issuance
      BY <3>1 DEF lock_funds, reserve
    <3> QED BY <3>2, <3>3 DEF CustodyInv, PocketInv, LedgerTypeOK
  <2>2. CASE \E c \in Citizens, iou \in Ious : settle_iou(c, iou)
    <3>1. PICK c \in Citizens, iou \in Ious : settle_iou(c, iou)
      BY <2>2
    <3>2. PocketInv' /\ PocketsPay
      BY <3>1, SettleStep DEF CustodyInv, PocketsPay
    <3>3. issuance' <= issuance /\ \A a \in Accounts \ Citizens : free'[a] = free[a]
      BY <3>1, SettleLeaves DEF CustodyInv
    <3> QED BY <3>2, <3>3
  <2>3. CASE CitizenStep /\ UNCHANGED offlineVars
    <3>1. /\ LedgerTypeOK' /\ reserved' = reserved /\ issuance' <= issuance
          /\ \A a \in Accounts \ Citizens : free'[a] = free[a]
          /\ citizens' \in [Citizens -> CitizenRecord]
      BY <1>1, <2>3, CitizenStepMoves DEF CustodyInv, PocketInv
    <3>2. PocketInv' /\ PocketsPay
      BY <2>3, <3>1, PocketsAside DEF CustodyInv
    <3> QED BY <3>1, <3>2
  <2> QED BY <2>1, <2>2, <2>3 DEF OfflineStep
<1>3. /\ LedgerTypeOK' /\ citizens' \in [Citizens -> CitizenRecord]
      /\ block' = block /\ block \in Nat
  BY <1>2 DEF PocketInv, CustodyInv, BountyInv
<1>4. CreditInv'
  <2>1. \A a \in BankAccounts : free'[a] = free[a]
    BY <1>2, PartsAreApart
  <2> QED BY <1>2, <1>3, <2>1, CreditsAside DEF CustodyInv
<1>5. VaultInv' /\ VaultsPay /\ DOMAIN vaults' = {}
  BY <1>3, VaultsAside DEF CustodyInv
<1>6. BountyInv' /\ Vested /\ DOMAIN wallOfShame' = {}
  BY <1>3, BookAside DEF CustodyInv
<1> QED BY <1>2, <1>4, <1>5, <1>6 DEF CustodyStepSays, CustodyInv, Aside

\* A step about warrants and bounties.
LEMMA BountyPart ==
    ASSUME CustodyInv, part = "bounties", part' = part,
           BountyStep \/ (CitizenStep /\ UNCHANGED <<block, bookVars>>),
           UNCHANGED <<creditVars, offlineVars, vaultVars>>
    PROVE  CustodyStepSays
<1>1. Citizens \subseteq Accounts
  BY PartsAreApart
<1>2. BountyInv' /\ Vested /\ BountyLeaves /\ block' >= block
  <2>1. CASE BountyStep
    <3>1. block' >= block
      <4>1. block \in Nat
        BY DEF CustodyInv, BountyInv
      <4>2. block' = block \/ block' = block + 1
        BY <2>1 DEF BountyStep, condemn_and_issue_warrant, donate_to_bounty,
                    register_capture_and_payout, claim_bounty_payout, cancel_bounty_payout,
                    NextBlock
      <4> QED BY <4>1, <4>2
    <3> QED BY <2>1, <3>1, BountySteps DEF CustodyInv
  <2>2. CASE CitizenStep /\ UNCHANGED <<block, bookVars>>
    <3>1. /\ LedgerTypeOK' /\ reserved' = reserved /\ issuance' <= issuance
          /\ \A a \in Accounts \ Citizens : free'[a] = free[a]
          /\ citizens' \in [Citizens -> CitizenRecord]
          /\ \A t \in Citizens : citizens[t].status = "Exiled" => citizens'[t].status = "Exiled"
      BY <1>1, <2>2, CitizenStepMoves DEF CustodyInv, PocketInv
    <3>2. block' = block /\ block \in Nat
      BY <2>2 DEF CustodyInv, BountyInv
    <3>3. BountyInv' /\ Vested
      BY <2>2, <3>1, <3>2, BookStays DEF CustodyInv
    <3> QED BY <3>1, <3>2, <3>3 DEF BountyLeaves
  <2> QED BY <2>1, <2>2
<1>3. /\ LedgerTypeOK' /\ reserved' = reserved /\ issuance' <= issuance
      /\ citizens' \in [Citizens -> CitizenRecord] /\ block' \in Nat
      /\ \A a \in BankAccounts : free'[a] = free[a]
  BY <1>2, PartsAreApart DEF BountyInv, BountyLeaves
<1>4. CreditInv'
  BY <1>2, <1>3, CreditsAside DEF CustodyInv
<1>5. PocketInv' /\ PocketsPay
  BY <1>3, PocketsAside DEF CustodyInv
<1>6. VaultInv' /\ VaultsPay /\ DOMAIN vaults' = {}
  BY <1>3, VaultsAside DEF CustodyInv
<1> QED BY <1>2, <1>4, <1>5, <1>6 DEF CustodyStepSays, CustodyInv, Aside

\* A step about vaults.
LEMMA VaultPart ==
    ASSUME CustodyInv, part = "vaults", part' = part, VaultStep,
           UNCHANGED <<block, citizens, creditVars, offlineVars, bookVars>>
    PROVE  CustodyStepSays
<1>1. VaultInv' /\ VaultsPay /\ VaultLeaves
  BY VaultSteps DEF CustodyInv, VaultsPay
<1>2. /\ LedgerTypeOK' /\ reserved' = reserved /\ issuance' <= issuance
      /\ citizens' \in [Citizens -> CitizenRecord] /\ block' \in Nat /\ block' >= block
      /\ \A a \in BankAccounts : free'[a] = free[a]
  BY <1>1, PartsAreApart DEF VaultInv, VaultLeaves, CustodyInv, BountyInv
<1>3. CreditInv'
  BY <1>2, CreditsAside DEF CustodyInv
<1>4. PocketInv' /\ PocketsPay
  BY <1>2, PocketsAside DEF CustodyInv
<1>5. BountyInv' /\ Vested /\ DOMAIN wallOfShame' = {}
  BY <1>2, BookAside DEF CustodyInv
<1> QED BY <1>1, <1>3, <1>4, <1>5 DEF CustodyStepSays, CustodyInv, Aside

-----------------------------------------------------------------------------
(* Theorems                                                                *)

\* Every step keeps the invariant, and does what the properties say.
LEMMA CustodySteps == CustodyInv /\ MCNext => CustodyStepSays
<1> SUFFICES ASSUME CustodyInv, MCNext PROVE CustodyStepSays
  OBVIOUS
<1>1. part' = part
  BY DEF MCNext
<1>2. CASE part = "credits" /\ CreditStep /\ UNCHANGED <<citizens, offlineVars, bookVars, vaultVars>>
  BY <1>1, <1>2, CreditPart
<1>3. CASE /\ part = "pockets" /\ (OfflineStep \/ (CitizenStep /\ UNCHANGED offlineVars))
           /\ UNCHANGED <<block, creditVars, bookVars, vaultVars>>
  BY <1>1, <1>3, PocketPart
<1>4. CASE /\ part = "bounties" /\ (BountyStep \/ (CitizenStep /\ UNCHANGED <<block, bookVars>>))
           /\ UNCHANGED <<creditVars, offlineVars, vaultVars>>
  BY <1>1, <1>4, BountyPart
<1>5. CASE /\ part = "vaults" /\ VaultStep
           /\ UNCHANGED <<block, citizens, creditVars, offlineVars, bookVars>>
  BY <1>1, <1>5, VaultPart
<1> QED BY <1>2, <1>3, <1>4, <1>5 DEF MCNext

\* A step that changes nothing keeps the invariant.
LEMMA CustodyStutter == CustodyInv /\ UNCHANGED MCvars => CustodyInv'
<1> SUFFICES ASSUME CustodyInv, UNCHANGED MCvars PROVE CustodyInv'
  OBVIOUS
<1>1. /\ UNCHANGED ledger /\ block' = block /\ citizens' = citizens /\ part' = part
      /\ UNCHANGED creditVars /\ UNCHANGED offlineVars /\ UNCHANGED bookVars
      /\ UNCHANGED vaultVars
  BY DEF MCvars
<1>2. /\ free' = free /\ reserved' = reserved /\ frozen' = frozen /\ issuance' = issuance
  BY <1>1 DEF ledger
<1>3. /\ LedgerTypeOK' /\ issuance' <= issuance /\ block' \in Nat /\ block' >= block
      /\ citizens' \in [Citizens -> CitizenRecord]
  BY <1>1, <1>2 DEF CustodyInv, PocketInv, BountyInv, LedgerTypeOK
<1>4. CreditInv'
  BY <1>1, <1>2, <1>3, CreditsAside DEF CustodyInv
<1>5. PocketInv'
  BY <1>1, <1>2, <1>3, PocketsAside DEF CustodyInv
<1>6. BountyInv'
  BY <1>1, <1>3, BookStays DEF CustodyInv
<1>7. VaultInv' /\ Aside'
  BY <1>1, <1>3 DEF CustodyInv, VaultInv, Aside, vaultVars, bookVars
<1> QED BY <1>4, <1>5, <1>6, <1>7 DEF CustodyInv

\* Ledgers, records and contracts of the pallets that hold money have their types.
LEMMA CustodyAlways == MCSpec => []CustodyInv
<1>1. CustodyInv /\ [MCNext]_MCvars => CustodyInv'
  BY CustodySteps, CustodyStutter DEF CustodyStepSays
<1> QED BY <1>1, CustodyStart, PTL DEF MCSpec

(***************************************************************************)
(* No collateral backs two credits and it is released exactly when its     *)
(* credit is repaid; no more is issued than is owed; and what the special  *)
(* accounts earn is interest on whole periods, each charged once, for any  *)
(* number of contracts, rates, amounts and accounts of the bank.           *)
(***************************************************************************)
THEOREM CreditsAreAccounted == MCSpec => []CreditIsAccounted
<1>1. CustodyInv => CreditIsAccounted
  BY BackingIsBook DEF CustodyInv, CreditInv, CreditIsAccounted
<1> QED BY <1>1, CustodyAlways, PTL

(***************************************************************************)
(* What a pocket says is what the ledger reserves, money is collected only *)
(* for a fugitive at large and locked for a hunter only of a captured one: *)
(* no bounty is both collected and paid.  Nothing is said of the accounts  *)
(* of the exiles.                                                          *)
(***************************************************************************)
THEOREM HoldingsAlwaysAgree == MCSpec => []HoldingsAgree
<1>1. CustodyInv => HoldingsAgree
  BY DEF CustodyInv, PocketInv, BountyInv, HoldingsAgree
<1> QED BY <1>1, CustodyAlways, PTL

(***************************************************************************)
(* A pocket shrinks only by an IOU of its owner that was never settled,    *)
(* and somebody holds what it lost, also when the drain's transfer fails.  *)
(***************************************************************************)
THEOREM IousAreSettledOnce == MCSpec => PocketPaysSignedIous
<1>1. CustodyInv /\ [MCNext]_MCvars => [PocketsPay]_<<ledger, citizens, offlineVars>>
  BY CustodySteps DEF CustodyStepSays, MCvars
<1>2. MCSpec => [][PocketsPay]_<<ledger, citizens, offlineVars>>
  BY <1>1, CustodyAlways, PTL DEF MCSpec
<1> QED BY <1>2 DEF PocketPaysSignedIous, PocketsPay, PocketPays

(***************************************************************************)
(* A pool grows or becomes a payout of the same amount, locked for the     *)
(* whole period; a payout goes to its hunter after the period, or is       *)
(* cancelled; a vault pays its owner what it records.                      *)
(***************************************************************************)
THEOREM OwnersGetTheirHoldings == MCSpec => HoldingsGoToTheirOwners
<1>1. CustodyInv /\ [MCNext]_MCvars =>
         [Vested]_<<ledger, block, citizens, bookVars>> /\ [VaultsPay]_<<ledger, vaultVars>>
  BY CustodySteps DEF CustodyStepSays, MCvars
<1>2. MCSpec => [][Vested]_<<ledger, block, citizens, bookVars>>
  BY <1>1, CustodyAlways, PTL DEF MCSpec
<1>3. MCSpec => [][VaultsPay]_<<ledger, vaultVars>>
  BY <1>1, CustodyAlways, PTL DEF MCSpec
<1>4. MCSpec => BountyIsVested
  BY <1>2 DEF BountyIsVested, Vested, PoolIsKept, PayoutIsKept
<1>5. MCSpec => VaultPaysItsOwner
  BY <1>3 DEF VaultPaysItsOwner, VaultsPay, VaultPays
<1> QED BY <1>4, <1>5 DEF HoldingsGoToTheirOwners
-----------------------------------------------------------------------------
(* Pockets where warrants and IOUs meet                                    *)

\* The types of the ledger, the registry and the book, whoever is exiled.
WarrantTypeOK ==
    /\ LedgerTypeOK
    /\ block \in Nat
    /\ citizens \in [Citizens -> CitizenRecord]
    /\ BookTypeOK

\* A confiscation moves free money only.
LEMMA ConfiscationMoves ==
    ASSUME LedgerTypeOK, NEW t \in Citizens, NEW seed \in Nat, Confiscate(t, seed)
    PROVE  LedgerTypeOK' /\ reserved' = reserved
<1> DEFINE all == free[t]
           paid == PaidFrom(free, t, StateTreasury, all)
<1>1. /\ Citizens \subseteq Accounts /\ t \in Accounts
      /\ StateTreasury \in Accounts /\ StateTreasury # t
  BY BlackBookAssumption
<1>2. free \in [Accounts -> Nat] /\ frozen \in [Accounts -> Nat] /\ issuance \in Int
  BY DEF LedgerTypeOK
<1>3. /\ CanTransfer(t, StateTreasury, all, FALSE) /\ CanPay(paid, StateTreasury, t, seed)
      /\ free' = PaidFrom(paid, StateTreasury, t, seed)
      /\ reserved' = reserved /\ frozen' = frozen /\ issuance' = issuance
  BY DEF Confiscate
<1>4. paid \in [Accounts -> Nat]
  BY <1>1, <1>2 DEF PaidFrom, Moves
<1> HIDE DEF paid
<1>5. free' \in [Accounts -> Nat]
  BY <1>1, <1>2, <1>3, <1>4, PaymentMoves
<1> QED BY <1>3, <1>5 DEF LedgerTypeOK

\* A warrant, also against somebody who is on the wall already.
LEMMA WarrantKeepsReserves ==
    ASSUME WarrantTypeOK, NEW t \in Citizens, NEW fugitive \in BOOLEAN,
           NEW v \in BountyAmounts \cup {0}, condemn_and_issue_warrant(t, fugitive, v)
    PROVE  WarrantTypeOK' /\ reserved' = reserved
<1> DEFINE seeded == fugitive /\ v > 0
           seed == IF seeded THEN v ELSE 0
<1>1. v \in Nat /\ seed \in Nat
  BY BlackBookAssumption
<1>2. /\ citizens' = [citizens EXCEPT ![t].status = "Exiled", ![t].role = "Regular"]
      /\ Confiscate(t, seed)
      /\ wallOfShame' = Put(wallOfShame, t, IF fugitive THEN "AtLarge" ELSE "NoFugitive")
      /\ bountyPools' = IF seeded THEN Put(bountyPools, t, v) ELSE bountyPools
      /\ lockedBountyPayouts' = lockedBountyPayouts /\ block' = block
  BY DEF condemn_and_issue_warrant, do_exile
<1> HIDE DEF seed, seeded
<1>3. LedgerTypeOK' /\ reserved' = reserved
  BY <1>1, <1>2, ConfiscationMoves DEF WarrantTypeOK
<1>4. citizens' \in [Citizens -> CitizenRecord]
  <2> DEFINE new == [citizens[t] EXCEPT !.status = "Exiled", !.role = "Regular"]
  <2>1. citizens \in [Citizens -> CitizenRecord]
    BY DEF WarrantTypeOK
  <2>2. new \in CitizenRecord
    BY <2>1 DEF CitizenRecord, CitizenStatus, CitizenRole
  <2>3. citizens' = [citizens EXCEPT ![t] = new]
    <3>1. citizens' = [citizens EXCEPT ![t].status = "Exiled", ![t].role = "Regular"]
      BY <1>2
    <3> QED BY <2>1, <3>1 DEF CitizenRecord
  <2> HIDE DEF new
  <2> QED BY <2>1, <2>2, <2>3
<1>5. BookTypeOK'
  <2>1. DOMAIN wallOfShame' = DOMAIN wallOfShame \cup {t}
    BY <1>2 DEF Put
  <2>2. /\ DOMAIN bountyPools' \subseteq DOMAIN bountyPools \cup {t}
        /\ \A c \in DOMAIN bountyPools' :
              \/ bountyPools'[c] = v
              \/ c \in DOMAIN bountyPools /\ bountyPools'[c] = bountyPools[c]
    <3>1. CASE seeded
      BY <1>2, <3>1 DEF Put
    <3>2. CASE ~seeded
      BY <1>2, <3>2
    <3> QED BY <3>1, <3>2
  <2> QED BY <1>1, <1>2, <2>1, <2>2 DEF WarrantTypeOK, BookTypeOK
<1> QED BY <1>2, <1>3, <1>4, <1>5 DEF WarrantTypeOK

\* Donations, captures, claims and cancellations.
LEMMA BountyKeepsReserves ==
    ASSUME WarrantTypeOK, BountyStep
    PROVE  WarrantTypeOK' /\ reserved' = reserved
<1>1. CASE NextBlock /\ UNCHANGED <<ledger, citizens, bookVars>>
  BY <1>1 DEF WarrantTypeOK, LedgerTypeOK, BookTypeOK, ledger, bookVars, NextBlock
<1>2. ASSUME NEW c \in Citizens, NEW t \in Citizens, NEW v \in BountyAmounts,
             donate_to_bounty(c, t, v)
      PROVE  WarrantTypeOK' /\ reserved' = reserved
  <2>1. v \in Nat /\ c \in Accounts /\ t \in Accounts
    BY BlackBookAssumption
  <2>2. /\ transfer(c, t, v, TRUE) /\ bountyPools' = Put(bountyPools, t, PoolOf(t) + v)
        /\ UNCHANGED <<block, citizens, wallOfShame, lockedBountyPayouts>>
    BY <1>2 DEF donate_to_bounty
  <2>3. TransferMoves(c, t, v, TRUE)
    BY <2>1, <2>2, Transfer DEF WarrantTypeOK
  <2>4. PoolOf(t) + v \in Nat
    BY <2>1 DEF PoolOf, WarrantTypeOK, BookTypeOK
  <2>5. BookTypeOK'
    BY <2>2, <2>4 DEF WarrantTypeOK, BookTypeOK, Put
  <2> QED BY <2>2, <2>3, <2>5 DEF WarrantTypeOK, TransferMoves
<1>3. ASSUME NEW t \in Citizens, NEW c \in Citizens, register_capture_and_payout(t, c)
      PROVE  WarrantTypeOK' /\ reserved' = reserved
  <2> DEFINE payout == [bounty_hunter |-> c, unlock_block |-> block + BountyLockPeriod,
                        amount |-> PoolOf(t)]
  <2>1. /\ wallOfShame' = Put(wallOfShame, t, "Captured")
        /\ lockedBountyPayouts' = Put(lockedBountyPayouts, t, payout)
        /\ bountyPools' = Without(bountyPools, t)
        /\ UNCHANGED ledger /\ block' = block /\ citizens' = citizens
    BY <1>3 DEF register_capture_and_payout, ClosePool
  <2>2. payout \in Payout
    BY BlackBookAssumption DEF Payout, PoolOf, WarrantTypeOK, BookTypeOK
  <2> HIDE DEF payout
  <2>3. BookTypeOK'
    BY <2>1, <2>2 DEF WarrantTypeOK, BookTypeOK, Put, Without
  <2> QED BY <2>1, <2>3 DEF WarrantTypeOK, LedgerTypeOK, ledger
<1>4. ASSUME NEW t \in Citizens, claim_bounty_payout(t)
      PROVE  WarrantTypeOK' /\ reserved' = reserved
  <2> DEFINE hunter == lockedBountyPayouts[t].bounty_hunter
             amount == lockedBountyPayouts[t].amount
  <2>1. /\ t \in DOMAIN lockedBountyPayouts
        /\ transfer(t, hunter, amount, FALSE)
        /\ lockedBountyPayouts' = Without(lockedBountyPayouts, t)
        /\ UNCHANGED <<block, citizens, wallOfShame, bountyPools>>
    BY <1>4 DEF claim_bounty_payout
  <2>2. hunter \in Accounts /\ amount \in Nat /\ t \in Accounts
    BY <2>1, BlackBookAssumption DEF WarrantTypeOK, BookTypeOK, Payout
  <2> HIDE DEF hunter, amount
  <2>3. TransferMoves(t, hunter, amount, FALSE)
    BY <2>1, <2>2, Transfer DEF WarrantTypeOK
  <2>4. BookTypeOK'
    BY <2>1 DEF WarrantTypeOK, BookTypeOK, Without
  <2> QED BY <2>1, <2>3, <2>4 DEF WarrantTypeOK, TransferMoves
<1>5. ASSUME NEW t \in Citizens, cancel_bounty_payout(t)
      PROVE  WarrantTypeOK' /\ reserved' = reserved
  <2>1. /\ lockedBountyPayouts' = Without(lockedBountyPayouts, t)
        /\ UNCHANGED ledger
        /\ UNCHANGED <<block, citizens, wallOfShame, bountyPools>>
    BY <1>5 DEF cancel_bounty_payout
  <2>2. BookTypeOK'
    BY <2>1 DEF WarrantTypeOK, BookTypeOK, Without
  <2> QED BY <2>1, <2>2 DEF WarrantTypeOK, LedgerTypeOK, ledger
<1> QED BY <1>1, <1>2, <1>3, <1>4, <1>5, WarrantKeepsReserves DEF BountyStep

\* What holds of pockets where any citizen may be condemned, and an exile's
\* IOU settled.
ExileInv == PocketInv /\ WarrantTypeOK

\* Initially every pocket is empty.
LEMMA ExilesStart == ASSUME JusticeInit PROVE ExileInv
<1>1. AnyInit
  BY DEF JusticeInit
<1>2. InitialFree \in [Accounts -> Nat] /\ Citizens \subseteq Accounts
  BY OperatorAssumption, BlackBookAssumption
<1>3. SumOver(InitialFree, Accounts) \in Int
  BY <1>2, LedgerAssumption, SumIsInt
<1>4. LedgerTypeOK /\ block \in Nat
  BY <1>1, <1>2, <1>3 DEF AnyInit, LedgerTypeOK
<1>5. citizens \in [Citizens -> CitizenRecord]
  BY <1>1, RegistryAssumption
     DEF AnyInit, Registered, CitizenRecord, CitizenRole, CitizenStatus
<1>6. PocketInv
  BY <1>1, <1>2, <1>4, <1>5 DEF AnyInit, PocketInv, PocketIsReserved, OfflineInit
<1>7. DOMAIN <<>> = {}
  OBVIOUS
<1>8. BookTypeOK
  BY <1>1, <1>7 DEF AnyInit, BookTypeOK, BookInit
<1> QED BY <1>4, <1>5, <1>6, <1>8 DEF ExileInv, WarrantTypeOK

\* Every step keeps the pockets covered and pays what they lose.
LEMMA ExilesContinue ==
    ASSUME ExileInv, [JusticeNext]_MCvars
    PROVE  ExileInv' /\ [PocketsPay]_<<ledger, citizens, offlineVars>>
<1>1. CASE OfflineStep /\ UNCHANGED <<block, bookVars>>
  <2>1. PocketInv' /\ \A k \in Citizens : PocketPays(k)
    BY <1>1, LockStep, SettleStep DEF OfflineStep, ExileInv
  <2>2. BookTypeOK' /\ block' = block
    BY <1>1 DEF ExileInv, WarrantTypeOK, BookTypeOK, bookVars
  <2> QED BY <2>1, <2>2 DEF ExileInv, WarrantTypeOK, PocketInv, PocketsPay
<1>2. CASE BountyStep /\ UNCHANGED offlineVars
  <2>1. WarrantTypeOK' /\ reserved' = reserved
    BY <1>2, BountyKeepsReserves DEF ExileInv
  <2>2. offlinePockets' = offlinePockets
    BY <1>2 DEF offlineVars
  <2>3. PocketsPay
    BY <2>2 DEF ExileInv, PocketInv, PocketsPay, PocketPays
  <2> QED BY <2>1, <2>2, <2>3 DEF ExileInv, WarrantTypeOK, PocketInv, PocketIsReserved
<1>3. CASE CitizenStep /\ UNCHANGED <<block, offlineVars, bookVars>>
  <2>1. /\ LedgerTypeOK' /\ reserved' = reserved
        /\ citizens' \in [Citizens -> CitizenRecord]
    BY <1>3, CitizenStepMoves, BlackBookAssumption DEF ExileInv, WarrantTypeOK
  <2>2. offlinePockets' = offlinePockets /\ block' = block /\ BookTypeOK'
    BY <1>3 DEF offlineVars, bookVars, ExileInv, WarrantTypeOK, BookTypeOK
  <2>3. PocketsPay
    BY <2>2 DEF ExileInv, PocketInv, PocketsPay, PocketPays
  <2> QED BY <2>1, <2>2, <2>3 DEF ExileInv, WarrantTypeOK, PocketInv, PocketIsReserved
<1>4. CASE UNCHANGED MCvars
  <2>1. /\ UNCHANGED <<ledger, block, citizens>> /\ UNCHANGED offlineVars
        /\ UNCHANGED bookVars
    BY <1>4 DEF MCvars
  <2>2. LedgerTypeOK' /\ reserved' = reserved
    BY <2>1 DEF ExileInv, WarrantTypeOK, LedgerTypeOK, ledger
  <2>3. offlinePockets' = offlinePockets /\ BookTypeOK'
    BY <2>1 DEF offlineVars, bookVars, ExileInv, WarrantTypeOK, BookTypeOK
  <2> QED BY <2>1, <2>2, <2>3 DEF ExileInv, WarrantTypeOK, PocketInv, PocketIsReserved
<1> QED BY <1>1, <1>2, <1>3, <1>4 DEF JusticeNext

(***************************************************************************)
(* Where warrants, captures and IOUs concern the same citizens, a pocket   *)
(* is still what the ledger reserves: neither a confiscation nor a bounty  *)
(* takes what an exile signed away before.                                 *)
(***************************************************************************)
THEOREM PocketsOutliveExile == JusticeSpec => []PocketIsReserved
<1>1. JusticeInit => ExileInv
  BY ExilesStart
<1>2. ExileInv /\ [JusticeNext]_MCvars => ExileInv'
  BY ExilesContinue
<1>3. ExileInv => PocketIsReserved
  BY DEF ExileInv, PocketInv
<1> QED BY <1>1, <1>2, <1>3, PTL DEF JusticeSpec

(***************************************************************************)
(* There too a pocket shrinks only by an IOU of its owner that was never   *)
(* settled, and somebody holds what it lost.                               *)
(***************************************************************************)
THEOREM ExilesPayOnce == JusticeSpec => PocketPaysSignedIous
<1>1. JusticeInit => ExileInv
  BY ExilesStart
<1>2. ExileInv /\ [JusticeNext]_MCvars =>
         ExileInv' /\ [PocketsPay]_<<ledger, citizens, offlineVars>>
  BY ExilesContinue
<1>3. JusticeSpec => [][PocketsPay]_<<ledger, citizens, offlineVars>>
  BY <1>1, <1>2, PTL DEF JusticeSpec
<1> QED BY <1>3 DEF PocketPaysSignedIous, PocketsPay, PocketPays
=============================================================================
