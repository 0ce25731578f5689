------------------------------ MODULE Terminal ------------------------------
(***************************************************************************)
(* What the runtime composes at the end of a citizenship: register_death   *)
(* and do_exile of the identity pallet call TerminalHookImpl, which cleans *)
(* up the guilds and the chancery and, for the dead, triggers the          *)
(* inheritance, all in one step.                                           *)
(***************************************************************************)
EXTENDS Guilds, Chancery, Identity, SequencesExt

(***************************************************************************)
(* pallets/inheritance: a citizen drafts a will, a notary of the guild     *)
(* certifies it for a fee, and after the citizen's death it shares out     *)
(* what the deceased held in reserve, debts first.                         *)
(***************************************************************************)

CONSTANTS
    HeirLists,       \* the lists of <<heir, percent>> that wills declare
    MaxHeirs,
    Fees,            \* fees notaries charge
    StateTreasury,
    OutstandingDebt  \* account -> total_outstanding_debt of bank-operator

ASSUME InheritanceAssumption ==
    /\ StateTreasury \in Accounts
    /\ MaxHeirs \in Nat /\ Fees \subseteq Nat
    /\ OutstandingDebt \in [Accounts -> Nat]

VARIABLE wills   \* ActiveWills: citizen -> Will

Will(heirs) == [heirs |-> heirs, is_notarized |-> FALSE, notary |-> {}]

Percents(heirs) == SumOver([i \in DOMAIN heirs |-> heirs[i][2]], DOMAIN heirs)

draft_will(who, heirs) ==
    /\ Len(heirs) \in 1 .. MaxHeirs
    /\ Percents(heirs) = 100
    /\ wills' = Put(wills, who, Will(heirs))
    /\ UNCHANGED ledger

\* The caller knows whether the notary is one of the guild: is_valid_notary.
notarize_will(notary, who, fee) ==
    /\ notary # who
    /\ who \in DOMAIN wills
    /\ transfer(who, notary, fee, TRUE)
    /\ wills' = [wills EXCEPT ![who].is_notarized = TRUE, ![who].notary = {notary}]

-----------------------------------------------------------------------------
(* do_execute_will works on balances e that the same call has changed      *)
(* before; a failing transfer is passed over.                              *)

CurrentBalances == [free |-> free, reserved |-> reserved, issuance |-> issuance]

Unreserved(e, who, v) ==
    [e EXCEPT !.free[who] = @ + v, !.reserved[who] = @ - v]

\* unreserve: as much of v as is reserved.
Released(e, who, v) == Unreserved(e, who, IF v < e.reserved[who] THEN v ELSE e.reserved[who])

Burned(e, who, v) == [e EXCEPT !.reserved[who] = @ - v, !.issuance = @ - v]

\* transfer with AllowDeath, where it succeeds.
Given(e, src, dst, v) ==
    LET left == e.free[src] - v
        stays == frozen[src] > 0 \/ e.reserved[src] > 0
    IN  IF \/ v = 0 \/ src = dst
           \/ left < frozen[src]
           \/ e.free[dst] + v < ExistentialDeposit
           \/ stays /\ left < ExistentialDeposit
        THEN e
        ELSE LET dust == IF left < ExistentialDeposit THEN left ELSE 0
             IN  [e EXCEPT !.free[src] = left - dust, !.free[dst] = @ + v, !.issuance = @ - dust]

\* Mutant: the last share is rounded down as well.
FlooredShares(total, heirs) == [i \in DOMAIN heirs |-> (total * heirs[i][2]) \div 100]

\* The shares of the heirs: the last one gets what the floors have left.
Shares(total, heirs) ==
    LET floor == [i \in DOMAIN heirs |-> (total * heirs[i][2]) \div 100]
        others == 1 .. Len(heirs) - 1
    IN  [i \in DOMAIN heirs |-> IF i \in others THEN floor[i] ELSE total - SumOver(floor, others)]

Distributed(e, who, heirs, total) ==
    FoldLeft(LAMBDA acc, i : Given(acc, who, heirs[i][1], Shares(total, heirs)[i]),
             e, [i \in DOMAIN heirs |-> i])

IsNotarized(who) == who \in DOMAIN wills /\ wills[who].is_notarized

\* Mutant: the heirs come before the creditors.
NoDebt(e, who) == 0

DebtToBurn(e, who) ==
    IF OutstandingDebt[who] < e.reserved[who] THEN OutstandingDebt[who] ELSE e.reserved[who]

\* The balances after do_execute_will.
Settled(e, who) ==
    LET held == e.reserved[who]
        burn == DebtToBurn(e, who)
        net == held - burn
    IN  IF IsNotarized(who)
        THEN Distributed(Unreserved(Burned(e, who, burn), who, net), who, wills[who].heirs, net)
        ELSE Given(Unreserved(e, who, held), who, StateTreasury, held)

\* A notarized will over nothing reserved is kept for a later call.
WillsAfter(e, who) ==
    IF IsNotarized(who) /\ e.reserved[who] = 0 THEN wills ELSE Without(wills, who)

HasBalances(e) ==
    /\ free' = e.free
    /\ reserved' = e.reserved
    /\ issuance' = e.issuance
    /\ UNCHANGED frozen

do_execute_will(e, who) ==
    /\ HasBalances(Settled(e, who))
    /\ wills' = WillsAfter(e, who)

-----------------------------------------------------------------------------
(* The hooks of the runtime                                                *)

CONSTANT NotaryGuildId

\* GuildsBridge of the runtime.
is_valid_notary(who) == At(guilds.members, <<NotaryGuildId, who>>, "Apprentice") # "Apprentice"

\* IdentityInheritanceBridge of the runtime.
is_deceased(who) == IsRegistered(who) /\ citizens[who].status = "Deceased"

civicVars == <<citizens, civil, guilds, agreements, wills>>

-----------------------------------------------------------------------------
\* Mutant: the escrow stays in reserve when the quests are cancelled.
KeepsEscrow(e, who) == e

\* The balances e after cleanup_account has returned the escrow of who.
EscrowReturned(e, who) == Released(e, who, Escrow(who, {"Open", "InProgress"}))

\* Mutant: the agreements that wait for the citizen's signature stay.
KeepAgreements(who) ==
    /\ guilds' = GuildsAfterCleanup(who)
    /\ agreements' = agreements

\* cleanup_account and annul_signatures.
CleanUp(who) ==
    /\ guilds' = GuildsAfterCleanup(who)
    /\ agreements' = AnnulledFor(who)

\* do_exile with on_exiled, in a call that leaves the balances e.
ExileWithHook(e, who) ==
    /\ citizens' = Exile(who)
    /\ CleanUp(who)
    /\ HasBalances(EscrowReturned(e, who))

\* register_death with on_deceased: the estate is settled at once.
DeathWithHook(who) ==
    /\ register_death(who)
    /\ CleanUp(who)
    /\ do_execute_will(EscrowReturned(CurrentBalances, who), who)

\* execute_will, which anybody may call for one of the dead.
execute_will(who) ==
    /\ is_deceased(who)
    /\ do_execute_will(CurrentBalances, who)
    /\ UNCHANGED <<citizens, civil, guilds, agreements>>

WillStep ==
    \/ \E c \in Citizens, heirs \in HeirLists :
          draft_will(c, heirs) /\ UNCHANGED <<citizens, civil, guilds, agreements>>
    \/ \E notary, c \in Citizens, fee \in Fees :
          /\ is_valid_notary(notary)
          /\ notarize_will(notary, c, fee)
          /\ UNCHANGED <<citizens, civil, guilds, agreements>>
    \/ \E c \in Citizens : execute_will(c) \/ DeathWithHook(c)

-----------------------------------------------------------------------------
(* Correctness                                                             *)

IsTerminal(c) == IsRegistered(c) /\ citizens[c].status \in {"Deceased", "Exiled"}

(***************************************************************************)
(* The step that makes a citizen one of the dead or the exiled leaves no   *)
(* unfinished quest of theirs, no seat in the academy and no agreement     *)
(* that waits for signatures with them as a party, in whichever pallet the *)
(* step began.                                                             *)
(***************************************************************************)
NothingIsLeftOpen ==
    [][\A c \in DOMAIN citizens :
          ~IsTerminal(c) /\ IsTerminal(c)' =>
             /\ QuestsOf(c, {"Open", "InProgress"})' = {}
             /\ c \notin guilds'.academy
             /\ \A d \in DOMAIN agreements' :
                   agreements'[d].status = "PendingSignatures" => c \notin agreements'[d].parties]_civicVars

(***************************************************************************)
(* A notarized estate goes to the creditors and then to the heirs: what is *)
(* burned is the debt, as far as the reserve covers it, and what the heirs *)
(* together gain is all that was left of the reserve, whatever the floors. *)
(***************************************************************************)
HeirsGetTheRest ==
    [][\A c \in DOMAIN wills :
          IsNotarized(c) /\ c \notin DOMAIN wills' =>
             LET heirs == {wills[c].heirs[i][1] : i \in DOMAIN wills[c].heirs} \ {c}
                 held == IF is_deceased(c) THEN reserved[c]
                         ELSE EscrowReturned(CurrentBalances, c).reserved[c]
                 debt == IF OutstandingDebt[c] < held THEN OutstandingDebt[c] ELSE held
             IN  /\ reserved'[c] = 0
                 /\ c \notin {wills[c].heirs[i][1] : i \in DOMAIN wills[c].heirs} =>
                       SumOver(free', heirs) - SumOver(free, heirs) = held - debt]_civicVars
=============================================================================
