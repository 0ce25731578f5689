---------------------------- MODULE CitizenVoice ----------------------------
(***************************************************************************)
(* pallets/citizen-voice: tickets with a deposit that whoever they are     *)
(* about, or Root, returns or burns, and stings, in which a citizen lends  *)
(* the marked money and Root springs the trap.  The commitment of a sting  *)
(* is left out: Root reveals it or the call fails.                         *)
(***************************************************************************)
EXTENDS Terminal

CONSTANTS
    Targets,                  \* FeedbackTargets of the tickets
    TicketDeposit,
    StingAmounts,
    WhistleblowerRewardPercent,
    MaxTickets, MaxStings     \* bounds on the counters

ASSUME VoiceAssumption ==
    /\ TicketDeposit \in Nat \ {0}
    /\ StingAmounts \subseteq Nat
    /\ {WhistleblowerRewardPercent, MaxTickets, MaxStings} \subseteq Nat

VARIABLE voice   \* the storage of the pallet

\* FeedbackTarget.
Guild(guild_id) == [kind |-> "Guild", guild_id |-> guild_id]

Government(branch) == [kind |-> "Government", branch |-> branch]

Entity(account) == [kind |-> "Entity", account |-> account]

BranchType == {"Khural", "Academy", "JudicialCourt", "BankingAuthority", "CivilRegistry"}

TicketStatus == {"Open", "InReview", "Escalated", "Resolved", "Rejected"}

StingStatus == {"Pending", "Approved", "Sprung"}

NoVoices ==
    [tickets |-> <<>>,   \* ticket_id -> Ticket
     stings  |-> <<>>]   \* sting_id -> StingOperation

Ticket(author, target) == [author |-> author, target |-> target, status |-> "Open"]

StingOperation(citizen, target, amount) ==
    [citizen |-> citizen, target |-> target, amount |-> amount, status |-> "Pending"]

\* is_guild_master of the runtime's CitizenVoiceGuildsBridge.
is_guild_master(guild_id, who) == At(guilds.members, <<guild_id, who>>, "Apprentice") = "Master"

\* Root is written as an empty set of callers.
IsRoot(caller) == caller = {}

\* ensure_signed_target_authority, or Root for the branches of government.
HasTargetAuthority(caller, target) ==
    CASE target.kind = "Government" -> IsRoot(caller)
      [] target.kind = "Guild" -> \E who \in caller : is_guild_master(target.guild_id, who)
      [] target.kind = "Entity" -> caller = {target.account}

TicketIs(id, statuses) == id \in DOMAIN voice.tickets /\ voice.tickets[id].status \in statuses

-----------------------------------------------------------------------------
submit_ticket(caller, target) ==
    LET id == FreshId(voice.tickets)
    IN  /\ id < MaxTickets
        /\ reserve(caller, TicketDeposit)
        /\ voice' = [voice EXCEPT !.tickets = Put(@, id, Ticket(caller, target))]
        /\ UNCHANGED civicVars

\* Mutant: the resolved ticket stays open.
StaysOpen(id, is_helpful) == voice.tickets[id].status

StatusAfter(id, is_helpful) == IF is_helpful THEN "Resolved" ELSE "Rejected"

resolve_ticket(caller, id, is_helpful) ==
    /\ TicketIs(id, {"Open", "InReview", "Escalated"})
    /\ LET t == voice.tickets[id]
       IN  /\ IF t.status = "Escalated" THEN IsRoot(caller) ELSE HasTargetAuthority(caller, t.target)
           /\ IF is_helpful
              THEN unreserve(t.author, TicketDeposit)
              ELSE slash_reserved(t.author, TicketDeposit)
    /\ voice' = [voice EXCEPT !.tickets[id].status = StatusAfter(id, is_helpful)]
    /\ UNCHANGED civicVars

mark_in_review(caller, id) ==
    /\ TicketIs(id, {"Open"})
    /\ HasTargetAuthority(caller, voice.tickets[id].target)
    /\ voice' = [voice EXCEPT !.tickets[id].status = "InReview"]
    /\ UNCHANGED <<ledger, civicVars>>

escalate_ticket(caller, id) ==
    /\ TicketIs(id, {"Open", "InReview"})
    /\ caller = voice.tickets[id].author
    /\ voice' = [voice EXCEPT !.tickets[id].status = "Escalated"]
    /\ UNCHANGED <<ledger, civicVars>>

request_sting_operation(citizen, target, amount) ==
    LET id == FreshId(voice.stings)
    IN  /\ id < MaxStings
        /\ reserve(citizen, amount)
        /\ voice' = [voice EXCEPT !.stings = Put(@, id, StingOperation(citizen, target, amount))]
        /\ UNCHANGED civicVars

approve_sting(id) ==
    /\ voice.stings[id].status = "Pending"
    /\ voice' = [voice EXCEPT !.stings[id].status = "Approved"]
    /\ UNCHANGED <<ledger, civicVars>>

IsApproved(id) == voice.stings[id].status = "Approved"

\* The target is exiled, the citizen's money released and the reward paid.
reveal_and_spring_trap(id) ==
    LET op == voice.stings[id]
        e == Released(EscrowReturned(CurrentBalances, op.target), op.citizen, op.amount)
        reward == (op.amount * WhistleblowerRewardPercent) \div 100
    IN  /\ IsApproved(id)
        /\ IsRegistered(op.target)
        /\ CanExile(op.target)
        /\ CanPay(e.free, StateTreasury, op.citizen, reward)
        /\ HasBalances([e EXCEPT !.free = PaidFrom(@, StateTreasury, op.citizen, reward)])
        /\ citizens' = Exile(op.target)
        /\ CleanUp(op.target)
        /\ voice' = [voice EXCEPT !.stings[id].status = "Sprung"]
        /\ UNCHANGED <<civil, wills>>

Callers == {{}} \cup {{c} : c \in Citizens}

VoiceStep ==
    \/ \E c \in Citizens, t \in Targets : submit_ticket(c, t)
    \/ \E i \in DOMAIN voice.tickets :
          \/ \E caller \in Callers :
                mark_in_review(caller, i) \/ \E helpful \in BOOLEAN : resolve_ticket(caller, i, helpful)
          \/ \E c \in Citizens : escalate_ticket(c, i)
    \/ \E c, t \in Citizens, v \in StingAmounts : request_sting_operation(c, t, v)
    \/ \E i \in DOMAIN voice.stings : approve_sting(i) \/ reveal_and_spring_trap(i)

-----------------------------------------------------------------------------
(* Correctness                                                             *)

\* What is held of c by the books: rewards of quests that are not settled,
\* deposits of unresolved tickets, and stakes of stings that are not sprung.
BookedFor(c) ==
    LET open == {i \in DOMAIN voice.tickets :
                    voice.tickets[i].author = c /\ TicketIs(i, {"Open", "InReview", "Escalated"})}
        waiting == {i \in DOMAIN voice.stings :
                      voice.stings[i].citizen = c /\ voice.stings[i].status # "Sprung"}
    IN  Escrow(c, {"Open", "InProgress", "Review"})
          + TicketDeposit * Cardinality(open)
          + SumOver([i \in waiting |-> voice.stings[i].amount], waiting)

(***************************************************************************)
(* The one reserve of a citizen is what quests, tickets and stings hold of *)
(* it together, each of them returned or burned once, whoever resolves it, *)
(* through trials, freezing and exile.  A death takes the whole reserve    *)
(* for the estate and leaves the books of the pallets open: from then on   *)
(* less may be there than they say, and never more.                        *)
(***************************************************************************)
HeldIsBooked ==
    \A c \in Citizens :
        /\ reserved[c] <= BookedFor(c)
        /\ c \notin civil.deaths => reserved[c] = BookedFor(c)
=============================================================================
