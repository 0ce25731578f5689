----------------------------- MODULE DecimalDao -----------------------------
(***************************************************************************)
(* pallets/decimal-dao: organizations with a council that the relayer      *)
(* replaces after elections, a keyless treasury, and proposals to spend    *)
(* from it.  Every call is Root's; the relayer names proposer and voter.   *)
(***************************************************************************)
EXTENDS AltanBalances, StorageMaps, SequencesExt

CONSTANTS
    DaoOrgs, Proposals, Councillors,
    DaoTreasury,          \* org_id -> treasury_account(org_id)
    Spendings,
    MaxDaoCouncil         \* MaxCouncilMembers

\* Treasuries are derived from identifiers, each from its own.
ASSUME DaoAssumption ==
    /\ DaoTreasury \in [DaoOrgs -> Accounts] /\ Councillors \subseteq Accounts
    /\ \A o, p \in DaoOrgs : DaoTreasury[o] = DaoTreasury[p] => o = p
    /\ Spendings \subseteq Nat /\ MaxDaoCouncil \in Nat

VARIABLE dao   \* the storage of the pallet

DaoStatus == {"Open", "Passed", "Rejected"}

NoDaos ==
    [councils  |-> <<>>,   \* org_id -> list of accounts; OrgTreasuries has the same keys
     proposals |-> <<>>,   \* prop_id -> ProposalRecord
     ballots   |-> {}]     \* <<prop_id, voter>>

\* A council is a list, which may name somebody twice.
is_council_member(org_id, who) == who \in ToSet(At(dao.councils, org_id, <<>>))

instantiate_org(org_id, council) ==
    /\ org_id \notin DOMAIN dao.councils
    /\ Len(council) <= MaxDaoCouncil
    /\ dao' = [dao EXCEPT !.councils = Put(@, org_id, council)]
    /\ UNCHANGED ledger

sync_council(org_id, new_council) ==
    /\ org_id \in DOMAIN dao.councils
    /\ Len(new_council) <= MaxDaoCouncil
    /\ dao' = [dao EXCEPT !.councils[org_id] = new_council]
    /\ UNCHANGED ledger

create_dao_proposal(org_id, prop_id, proposer, amount, beneficiary) ==
    /\ is_council_member(org_id, proposer)
    /\ prop_id \notin DOMAIN dao.proposals
    /\ dao' = [dao EXCEPT !.proposals = Put(@, prop_id,
          [org_id |-> org_id, amount |-> amount, beneficiary |-> beneficiary,
           votes_for |-> 0, votes_against |-> 0, status |-> "Open"])]
    /\ UNCHANGED ledger

\* Of the places of the council, whoever has them.
majority(org_id) == Len(dao.councils[org_id]) \div 2 + 1

\* The outcome of a count, for the council of now.
Outcome(p) ==
    CASE p.votes_for >= majority(p.org_id) -> "Passed"
      [] p.votes_for < majority(p.org_id) /\ p.votes_against >= majority(p.org_id) -> "Rejected"
      [] OTHER -> "Open"

\* Mutant: a voter who left the council may come back and vote again.
AnyBallot(prop_id, voter) == TRUE

NoBallotYet(prop_id, voter) == <<prop_id, voter>> \notin dao.ballots

vote_dao_proposal(prop_id, voter, support) ==
    /\ prop_id \in DOMAIN dao.proposals
    /\ dao.proposals[prop_id].status = "Open"
    /\ is_council_member(dao.proposals[prop_id].org_id, voter)
    /\ NoBallotYet(prop_id, voter)
    /\ LET p == dao.proposals[prop_id]
           counted == IF support THEN [p EXCEPT !.votes_for = @ + 1]
                      ELSE [p EXCEPT !.votes_against = @ + 1]
       IN  dao' = [dao EXCEPT
              !.ballots = @ \cup {<<prop_id, voter>>},
              !.proposals[prop_id] = [counted EXCEPT !.status = Outcome(counted)]]
    /\ UNCHANGED ledger

\* Mutant: what was paid stays, to be paid again.
KeepsExecuted(prop_id) == dao.proposals

DropsExecuted(prop_id) == Without(dao.proposals, prop_id)

\* The proposal goes and its ballots stay, for another with its identifier.
execute_dao_proposal(prop_id) ==
    /\ prop_id \in DOMAIN dao.proposals
    /\ dao.proposals[prop_id].status = "Passed"
    /\ LET p == dao.proposals[prop_id]
       IN  transfer(DaoTreasury[p.org_id], p.beneficiary, p.amount, TRUE)
    /\ dao' = [dao EXCEPT !.proposals = DropsExecuted(prop_id)]

DaoCouncils == UNION {[1 .. n -> Councillors] : n \in 0 .. MaxDaoCouncil}

DaoStep ==
    \/ \E o \in DaoOrgs, list \in DaoCouncils : instantiate_org(o, list) \/ sync_council(o, list)
    \/ \E o \in DaoOrgs, p \in Proposals, a, b \in Councillors, v \in Spendings :
          create_dao_proposal(o, p, a, v, b)
    \/ \E p \in Proposals :
          \/ \E a \in Councillors, support \in BOOLEAN : vote_dao_proposal(p, a, support)
          \/ execute_dao_proposal(p)

-----------------------------------------------------------------------------
(***************************************************************************)
(* A vote is one person's: whoever is dismissed from a council and comes   *)
(* back, or votes on another proposal with an identifier used before, has  *)
(* no second one.                                                          *)
(***************************************************************************)
VotesAreBallots ==
    \A p \in DOMAIN dao.proposals :
        dao.proposals[p].votes_for + dao.proposals[p].votes_against
            <= Cardinality({b \in dao.ballots : b[1] = p})

(***************************************************************************)
(* A treasury pays what a passed proposal of its own organization says and *)
(* no other: the proposal is gone when it is paid.                         *)
(***************************************************************************)
TreasurySpendsPassed ==
    [][\A o \in DaoOrgs :
          free'[DaoTreasury[o]] < free[DaoTreasury[o]] =>
             \E p \in DOMAIN dao.proposals \ DOMAIN dao'.proposals :
                /\ dao.proposals[p].org_id = o /\ dao.proposals[p].status = "Passed"
                /\ free[DaoTreasury[o]] - free'[DaoTreasury[o]] = dao.proposals[p].amount]_<<ledger, dao>>
=============================================================================
