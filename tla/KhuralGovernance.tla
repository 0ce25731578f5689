-------------------------- MODULE KhuralGovernance --------------------------
(***************************************************************************)
(* pallets/khural-governance: citizens of a nation propose and vote how    *)
(* its treasury is spent, and every block's on_initialize settles what has *)
(* expired; Academicians put up a deposit to propose expert bills, which   *)
(* leaders vote on.  Composed with the records of the citizens             *)
(* (CitizenRegistry), which freeze, thaw and change role between the       *)
(* calls, and with the ledger.                                             *)
(***************************************************************************)
EXTENDS AltanBalances, StorageMaps, CitizenRegistry, SequencesExt

CONSTANTS
    NationTreasuries,    \* sequence of treasury accounts, of nation 1, 2, ..
    Academicians,        \* citizens T::AcademyInterface accepts
    Beneficiaries,       \* accounts proposals name
    SpendAmounts,        \* amounts proposals ask for
    VotingPeriods,       \* the values T::VotingPeriod has had over runtime upgrades
    MinQuorum,           \* T::MinQuorum
    ExpertBillDeposit,   \* T::ExpertBillDeposit
    InitialFree,         \* balances at the start
    MaxBlock,            \* bound on the block number
    MaxProposals,        \* bound on NextProposalId
    MaxBills             \* bound on NextExpertBillId

ASSUME KhuralAssumption ==
    /\ Citizens \subseteq Accounts
    /\ Beneficiaries \subseteq Accounts
    /\ NationTreasuries \in Seq(Accounts \ Citizens)   \* derived from a PalletId, keyless
    /\ SpendAmounts \subseteq Nat /\ VotingPeriods \subseteq Nat
    /\ MinQuorum \in Nat /\ ExpertBillDeposit \in Nat
    /\ InitialFree \in [Accounts -> Nat]
    /\ MaxBlock \in Nat /\ MaxProposals \in Nat /\ MaxBills \in Nat

VARIABLES
    block,
    proposals,             \* proposal id -> Proposal, of the stored keys
    nextProposalId,
    hasVoted,              \* set of <<proposal id, voter>> with the value true
    expertBills,           \* bill id -> ExpertBill, of the stored keys
    nextExpertBillId,
    hasVotedOnBill,        \* set of <<bill id, voter>> with the value true
    expertBillDepositor    \* bill id -> [who, deposit], of the stored keys

proposalVars == <<proposals, nextProposalId, hasVoted>>
billVars == <<expertBills, nextExpertBillId, hasVotedOnBill, expertBillDepositor>>
khuralState == <<ledger, citizens, block, proposalVars, billVars>>

ProposalStatus == {"Active", "Executed", "Rejected"}

Proposal == [proposer : Citizens, nation_id : 1 .. 79, amount : SpendAmounts,
             beneficiary : Beneficiaries, votes_for : Nat, votes_against : Nat,
             status : ProposalStatus, end_block : 0 .. MaxBlock]

ExpertBill == [proposer : Citizens, votes_for : Nat, votes_against : Nat,
               status : ProposalStatus]

\* Mutant: the identifier is used again.
SameId(id) == id

NextId(id) == id + 1

-----------------------------------------------------------------------------
(* Treasury proposals                                                      *)

validated_citizen(who) == IsActive(who)

\* A deadline beyond MaxBlock, or after the last block's hook, is out of bounds.
create_proposal(caller, nation_id, amount, beneficiary) ==
    /\ validated_citizen(caller)
    /\ citizens[caller].nation_id = nation_id
    /\ nextProposalId < MaxProposals
    /\ \E period \in VotingPeriods :
          /\ block < MaxBlock /\ block + period <= MaxBlock
          /\ proposals' = Put(proposals, nextProposalId,
                [proposer |-> caller, nation_id |-> nation_id, amount |-> amount,
                 beneficiary |-> beneficiary, votes_for |-> 0, votes_against |-> 0,
                 status |-> "Active", end_block |-> block + period])
    /\ nextProposalId' = NextId(nextProposalId)
    /\ UNCHANGED <<ledger, citizens, block, hasVoted, billVars>>

\* The record of a proposal or bill with one more vote.
Counted(motion, approve) ==
    IF approve THEN [motion EXCEPT !.votes_for = @ + 1]
               ELSE [motion EXCEPT !.votes_against = @ + 1]

\* Mutant: the nation of the voter is not compared.
VoteAcrossNations(caller, proposal_id) ==
    /\ validated_citizen(caller)
    /\ proposals[proposal_id].status = "Active"
    /\ block < proposals[proposal_id].end_block
    /\ <<proposal_id, caller>> \notin hasVoted

CanVote(caller, proposal_id) ==
    /\ validated_citizen(caller)
    /\ proposals[proposal_id].status = "Active"
    /\ block < proposals[proposal_id].end_block
    /\ citizens[caller].nation_id = proposals[proposal_id].nation_id
    /\ <<proposal_id, caller>> \notin hasVoted

vote(caller, proposal_id, approve) ==
    /\ CanVote(caller, proposal_id)
    /\ hasVoted' = hasVoted \cup {<<proposal_id, caller>>}
    /\ proposals' = [proposals EXCEPT ![proposal_id] = Counted(@, approve)]
    /\ UNCHANGED <<ledger, citizens, block, nextProposalId, billVars>>

Passes(p) == p.votes_for >= MinQuorum /\ p.votes_for > p.votes_against

\* Mutant: the status is Executed also when the treasury cannot pay.
EnactUnpaid(state, proposal_id) ==
    LET p == state.proposals[proposal_id]
        treasury == NationTreasuries[p.nation_id]
        enacted == Passes(p) /\ p.nation_id \in DOMAIN NationTreasuries
    IN [free |-> IF enacted /\ CanPay(state.free, treasury, p.beneficiary, p.amount)
                 THEN PaidFrom(state.free, treasury, p.beneficiary, p.amount) ELSE state.free,
        proposals |-> [state.proposals EXCEPT
                          ![proposal_id].status = IF enacted THEN "Executed" ELSE "Rejected"]]

\* A transfer that fails is swallowed and the proposal rejected.
enact_proposal(state, proposal_id) ==
    LET p == state.proposals[proposal_id]
        treasury == NationTreasuries[p.nation_id]
        enacted == /\ Passes(p)
                   /\ p.nation_id \in DOMAIN NationTreasuries
                   /\ CanPay(state.free, treasury, p.beneficiary, p.amount)
    IN [free |-> IF enacted THEN PaidFrom(state.free, treasury, p.beneficiary, p.amount)
                 ELSE state.free,
        proposals |-> [state.proposals EXCEPT
                          ![proposal_id].status = IF enacted THEN "Executed" ELSE "Rejected"]]

\* The state after the first 0, 1, .. of the proposals of the sequence.
Enacted(ids) ==
    LET after[i \in 0 .. Len(ids)] ==
            IF i = 0 THEN [free |-> free, proposals |-> proposals]
                     ELSE enact_proposal(after[i - 1], ids[i])
    IN  after

\* Enacts the proposals of the sequence one after the other.
EnactAll(ids) ==
    LET result == Enacted(ids)[Len(ids)]
    IN  free' = result.free /\ proposals' = result.proposals

\* Mutant: the hook leaves proposals alone that did not pass.
ExpiredAndPassing(current) ==
    {id \in DOMAIN proposals : /\ proposals[id].status = "Active"
                               /\ current >= proposals[id].end_block
                               /\ Passes(proposals[id])}

\* Mutant: the hook comes a block late.
ExpiredYesterday(current) ==
    {id \in DOMAIN proposals : /\ proposals[id].status = "Active"
                               /\ current > proposals[id].end_block}

Expired(current) ==
    {id \in DOMAIN proposals : /\ proposals[id].status = "Active"
                               /\ current >= proposals[id].end_block}

\* The proposals come in the order of their hashed keys, which is any order.
on_initialize ==
    /\ block < MaxBlock
    /\ block' = block + 1
    /\ \E order \in SetToSeqs(Expired(block + 1)) : EnactAll(order)
    /\ UNCHANGED <<reserved, frozen, issuance, citizens, nextProposalId, hasVoted, billVars>>

execute_proposal(proposal_id) ==
    /\ proposals[proposal_id].status = "Active"
    /\ block >= proposals[proposal_id].end_block
    /\ EnactAll(<<proposal_id>>)
    /\ UNCHANGED <<reserved, frozen, issuance, citizens, block, nextProposalId, hasVoted,
                   billVars>>

-----------------------------------------------------------------------------
(* Expert bills                                                            *)

is_at_least_arbad_leader(role) ==
    role \in {"ArbadLeader", "ZunLeader", "MyangadLeader", "TumedLeader",
              "KhuralDelegate", "ConfederationDelegate"}

propose_expert_bill(caller) ==
    /\ validated_citizen(caller)
    /\ caller \in Academicians
    /\ nextExpertBillId < MaxBills
    /\ reserve(caller, ExpertBillDeposit)
    /\ expertBills' = Put(expertBills, nextExpertBillId,
          [proposer |-> caller, votes_for |-> 0, votes_against |-> 0, status |-> "Active"])
    /\ nextExpertBillId' = NextId(nextExpertBillId)
    /\ expertBillDepositor' = Put(expertBillDepositor, nextExpertBillId,
                                  [who |-> caller, deposit |-> ExpertBillDeposit])
    /\ UNCHANGED <<citizens, block, hasVotedOnBill, proposalVars>>

vote_on_expert_bill(caller, bill_id, approve) ==
    /\ validated_citizen(caller)
    /\ is_at_least_arbad_leader(citizens[caller].role)
    /\ expertBills[bill_id].status = "Active"
    /\ <<bill_id, caller>> \notin hasVotedOnBill
    /\ hasVotedOnBill' = hasVotedOnBill \cup {<<bill_id, caller>>}
    /\ expertBills' = [expertBills EXCEPT ![bill_id] = Counted(@, approve)]
    /\ UNCHANGED <<ledger, citizens, block, nextExpertBillId, expertBillDepositor,
                   proposalVars>>

\* Mutant: the rejected deposit is slashed but its record kept.
KeepDepositor(bill_id) == UNCHANGED expertBillDepositor

TakeDepositor(bill_id) ==
    expertBillDepositor' = Without(expertBillDepositor, bill_id)

SettleDeposit(bill_id, passed) ==
    LET d == expertBillDepositor[bill_id] IN
    IF passed THEN unreserve(d.who, d.deposit) ELSE slash_reserved(d.who, d.deposit)

execute_expert_bill(bill_id) ==
    LET passed == expertBills[bill_id].votes_for > 2 IN
    /\ expertBills[bill_id].status = "Active"
    /\ expertBills' = [expertBills EXCEPT
                          ![bill_id].status = IF passed THEN "Executed" ELSE "Rejected"]
    /\ IF bill_id \in DOMAIN expertBillDepositor
       THEN SettleDeposit(bill_id, passed) ELSE UNCHANGED ledger
    /\ TakeDepositor(bill_id)
    /\ UNCHANGED <<citizens, block, nextExpertBillId, hasVotedOnBill, proposalVars>>

-----------------------------------------------------------------------------
KhuralInit ==
    /\ free = InitialFree
    /\ reserved = [a \in Accounts |-> 0]
    /\ frozen = [a \in Accounts |-> 0]
    /\ issuance = SumOver(InitialFree, Accounts)
    /\ \E role \in [Citizens -> Roles] : citizens = Registered(role)
    /\ block = 0
    /\ proposals = <<>> /\ nextProposalId = 0 /\ hasVoted = {}
    /\ expertBills = <<>> /\ nextExpertBillId = 0 /\ hasVotedOnBill = {}
    /\ expertBillDepositor = <<>>

ProposalStep ==
    \/ \E c \in Citizens, n \in {NationOf[d] : d \in Citizens},
          v \in SpendAmounts, b \in Beneficiaries : create_proposal(c, n, v, b)
    \/ \E c \in Citizens, id \in DOMAIN proposals, approve \in BOOLEAN : vote(c, id, approve)
    \/ \E id \in DOMAIN proposals : execute_proposal(id)

BillStep ==
    \/ \E c \in Citizens : propose_expert_bill(c)
    \/ \E c \in Citizens, id \in DOMAIN expertBills, approve \in BOOLEAN :
          vote_on_expert_bill(c, id, approve)
    \/ \E id \in DOMAIN expertBills : execute_expert_bill(id)

CitizenStep ==
    /\ \E c \in Citizens : RegistryStep(c)
    /\ UNCHANGED <<ledger, block, proposalVars, billVars>>

KhuralNext == on_initialize \/ ProposalStep \/ BillStep \/ CitizenStep

\* The chain goes on producing blocks; nobody is obliged to call anything.
KhuralSpec == KhuralInit /\ [][KhuralNext]_khuralState /\ WF_khuralState(on_initialize)

-----------------------------------------------------------------------------
(* Correctness                                                             *)

KhuralTypeOK ==
    /\ LedgerTypeOK
    /\ citizens \in [Citizens -> CitizenRecord]
    /\ \A c \in Citizens : citizens[c].nation_id = NationOf[c]
    /\ block \in 0 .. MaxBlock
    /\ nextProposalId \in 0 .. MaxProposals /\ nextExpertBillId \in 0 .. MaxBills
    /\ proposals \in [0 .. nextProposalId - 1 -> Proposal]
    /\ expertBills \in [0 .. nextExpertBillId - 1 -> ExpertBill]
    /\ hasVoted \subseteq (DOMAIN proposals) \X Citizens
    /\ hasVotedOnBill \subseteq (DOMAIN expertBills) \X Citizens
    /\ DOMAIN expertBillDepositor \subseteq DOMAIN expertBills
    /\ \A id \in DOMAIN expertBillDepositor :
          expertBillDepositor[id] \in [who : Citizens, deposit : Nat]

(***************************************************************************)
(* The hook leaves nothing behind: a block begins with no active proposal  *)
(* whose window is closed, so that there is no block in which a proposal   *)
(* can neither be voted on nor has been settled.                           *)
(***************************************************************************)
ActiveUntilDeadline ==
    [][block' # block =>
          \A id \in DOMAIN proposals' :
              proposals'[id].status = "Active" => block' < proposals'[id].end_block]_khuralState

(***************************************************************************)
(* One citizen, one vote, in one nation: the counted votes of a proposal   *)
(* are as many as the citizens of its nation on record as voters, whatever *)
(* happened to their status since, and what was executed had the quorum    *)
(* and the majority of those votes.                                        *)
(***************************************************************************)
DecidedByItsNation ==
    \A id \in DOMAIN proposals :
        LET p == proposals[id]
            voters == {c \in Citizens : <<id, c>> \in hasVoted /\ NationOf[c] = p.nation_id}
        IN  /\ p.votes_for + p.votes_against = Cardinality(voters)
            /\ p.status = "Executed" => p.votes_for >= MinQuorum
                                        /\ 2 * p.votes_for > Cardinality(voters)

Amounts == [id \in DOMAIN proposals |-> proposals[id].amount]

Treasury(id) == NationTreasuries[proposals[id].nation_id]

\* What the proposals in S ask of the account a for others.
AskedOf(a, S) ==
    SumOver(Amounts, {id \in S : Treasury(id) = a /\ proposals[id].beneficiary # a})

\* What the proposals in S grant the account a from others.
GrantedTo(a, S) ==
    SumOver(Amounts, {id \in S : Treasury(id) # a /\ proposals[id].beneficiary = a})

(***************************************************************************)
(* Money and decisions agree in every step, also when several proposals on *)
(* one treasury expire together and it cannot pay them all, or one nation  *)
(* grants another's treasury what that is to pay from: a treasury pays and *)
(* gets exactly what the proposals say that the step marks Executed, and   *)
(* no step leaves it without its existential deposit.                      *)
(***************************************************************************)
TreasuryPaysDecisions ==
    [][LET executed == {id \in DOMAIN proposals : /\ proposals[id].status = "Active"
                                                  /\ proposals'[id].status = "Executed"}
       IN  \A n \in DOMAIN NationTreasuries :
              LET t == NationTreasuries[n] IN
              /\ free'[t] = free[t] - AskedOf(t, executed) + GrantedTo(t, executed)
              /\ free[t] >= ExistentialDeposit => free'[t] >= ExistentialDeposit]_khuralState

Deposits == [id \in DOMAIN expertBillDepositor |-> expertBillDepositor[id].deposit]

Depositor(id) == expertBillDepositor[id].who

(***************************************************************************)
(* The reserves are the deposits of the open bills, no more and no less:   *)
(* every settled bill has given its deposit back or lost it, once.         *)
(***************************************************************************)
DepositsAreHeld ==
    /\ DOMAIN expertBillDepositor = {id \in DOMAIN expertBills : expertBills[id].status = "Active"}
    /\ \A a \in Accounts :
          reserved[a] = SumOver(Deposits, {id \in DOMAIN Deposits : Depositor(id) = a})

(***************************************************************************)
(* The books of the Khural agree with what was done: votes with the        *)
(* ballots of the nation, and reserves with the deposits of open bills.    *)
(***************************************************************************)
KhuralBooksAgree == KhuralTypeOK /\ DecidedByItsNation /\ DepositsAreHeld

(***************************************************************************)
(* Every proposal is settled, although nobody calls execute_proposal and   *)
(* whatever happens to its voters: blocks go on.                           *)
(***************************************************************************)
EveryProposalSettles ==
    \A id \in 0 .. MaxProposals - 1 :
        (id \in DOMAIN proposals) ~>
            (id \in DOMAIN proposals /\ proposals[id].status # "Active")
=============================================================================
