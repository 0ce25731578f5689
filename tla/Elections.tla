----------------------------- MODULE Elections -----------------------------
(***************************************************************************)
(* pallets/inomad-elections: enrolment in Arbads, the promotion of leaders *)
(* through the decimal hierarchy, its elections, the councils and supreme  *)
(* leaders of three branches, the chairman of the Khural, and the origin   *)
(* checks of the runtime that read who holds those offices.                *)
(*                                                                         *)
(* A storage map without a default (OptionQuery) is a total function whose *)
(* value at a missing key is None; a double map is a function of its first *)
(* key.  The calls of Root are the actions without a voter.                *)
(***************************************************************************)
EXTENDS Integers, FiniteSets, Sequences

CONSTANTS
    People,                \* accounts that vote, stand and lead
    None,                  \* the value of a missing storage entry
    IndigenousPeople,      \* accounts T::IsIndigenous accepts
    Zones,                 \* arbad, zun and myangad identifiers, one u32 space
    ElectionIds,           \* identifiers create_election is called with
    MaxCandidates,         \* T::MaxCandidates
    MaxBranchCandidates,   \* T::MaxBranchCandidates
    MinArbadSize,          \* T::MinArbadSize
    MinZunLeaders,         \* T::MinZunLeaders
    MinMyangadLeaders,     \* T::MinMyangadLeaders
    COUNCIL_SIZE,          \* seats of a branch council
    MaxCount               \* the largest u32: beyond it a call fails with MathOverflow

ElectionLevel == {"Arbad", "Zun", "Myangad", "Tumed"}

ASSUME ElectionsAssumption ==
    /\ IsFiniteSet(People)
    /\ None \notin People /\ None \notin Zones /\ None \notin ElectionLevel
    /\ MaxCandidates \in Nat /\ MaxBranchCandidates \in Nat
    /\ MinArbadSize \in Nat \ {0}
    /\ MinZunLeaders \in Nat \ {0}
    /\ MinMyangadLeaders \in Nat \ {0}
    /\ COUNCIL_SIZE \in Nat
    /\ MaxCount \in Nat

VARIABLES
    citizenArbad, citizenZun, citizenMyangad,
    arbadMemberCount, zunLeaderCount, myangadLeaderCount,
    electedLeaders,            \* person -> ElectionLevel
    elections,                 \* election id -> Election
    votes, voteCounts,         \* election id -> voter -> candidate, -> candidate -> u32
    branchVotes, branchVoteCounts, branchCandidateCount,
    branchCouncils,            \* branch -> sequence of members
    supremeLeaderVotes, supremeLeaderVoteCounts, supremeLeaders,
    khuralVotes, khuralVoteCounts,
    khuralChairman             \* <<person, arbad_id>>

zoneVars == <<citizenArbad, citizenZun, citizenMyangad,
              arbadMemberCount, zunLeaderCount, myangadLeaderCount>>
ballotVars == <<elections, votes, voteCounts>>
councilVars == <<branchVotes, branchVoteCounts, branchCandidateCount, branchCouncils>>
supremeVars == <<supremeLeaderVotes, supremeLeaderVoteCounts, supremeLeaders>>
khuralVars == <<khuralVotes, khuralVoteCounts, khuralChairman>>

electVars == <<zoneVars, electedLeaders, ballotVars, councilVars, supremeVars, khuralVars>>

\* The derived order of the levels.
Rank == [Arbad |-> 1, Zun |-> 2, Myangad |-> 3, Tumed |-> 4]

GovernmentBranch == {"Executive", "Judicial", "Banking", "Legislative"}

Election == [level : ElectionLevel, is_active : BOOLEAN, candidates : SUBSET People]

HasLevel(who, level) ==
    electedLeaders[who] # None /\ Rank[electedLeaders[who]] >= Rank[level]

ensure_tumed(who) == HasLevel(who, "Tumed")

NoVotes == [p \in People |-> None]
NoCounts == [p \in People |-> 0]

\* checked_add(1) on a stored u32.
Increment(counter, key) ==
    [counter EXCEPT ![key] = @ + 1]

-----------------------------------------------------------------------------
(* The decimal hierarchy                                                   *)

add_citizen_to_arbad(citizen, arbad_id) ==
    /\ arbadMemberCount[arbad_id] < MaxCount
    /\ citizenArbad' = [citizenArbad EXCEPT ![citizen] = arbad_id]
    /\ arbadMemberCount' = Increment(arbadMemberCount, arbad_id)
    /\ UNCHANGED <<citizenZun, citizenMyangad, zunLeaderCount, myangadLeaderCount,
                   electedLeaders, ballotVars, councilVars, supremeVars, khuralVars>>

PromoteToArbad ==
    UNCHANGED zoneVars

PromoteToZun(leader) ==
    LET arbad_id == citizenArbad[leader] IN
    /\ arbad_id # None
    /\ arbadMemberCount[arbad_id] >= MinArbadSize
    /\ zunLeaderCount[arbad_id] < MaxCount
    /\ zunLeaderCount' = Increment(zunLeaderCount, arbad_id)
    /\ citizenZun' = [citizenZun EXCEPT ![leader] = arbad_id]
    /\ UNCHANGED <<citizenArbad, citizenMyangad, arbadMemberCount, myangadLeaderCount>>

\* Mutant: the size of the zun is not compared.
PromoteFromAnyZun(leader, zun_id) ==
    /\ myangadLeaderCount[zun_id] < MaxCount
    /\ myangadLeaderCount' = Increment(myangadLeaderCount, zun_id)
    /\ citizenMyangad' = [citizenMyangad EXCEPT ![leader] = zun_id]
    /\ UNCHANGED <<citizenArbad, citizenZun, arbadMemberCount, zunLeaderCount>>

PromoteToMyangad(leader, zun_id) ==
    /\ zunLeaderCount[zun_id] >= MinZunLeaders
    /\ myangadLeaderCount[zun_id] < MaxCount
    /\ myangadLeaderCount' = Increment(myangadLeaderCount, zun_id)
    /\ citizenMyangad' = [citizenMyangad EXCEPT ![leader] = zun_id]
    /\ UNCHANGED <<citizenArbad, citizenZun, arbadMemberCount, zunLeaderCount>>

PromoteToTumed(myangad_id) ==
    /\ myangadLeaderCount[myangad_id] >= MinMyangadLeaders
    /\ UNCHANGED zoneVars

\* zone_id is None where the caller gives no zone; Myangad and Tumed need one.
promote_leader(leader, new_level, zone_id) ==
    /\ \/ new_level = "Arbad" /\ PromoteToArbad
       \/ new_level = "Zun" /\ PromoteToZun(leader)
       \/ new_level = "Myangad" /\ zone_id # None /\ PromoteToMyangad(leader, zone_id)
       \/ new_level = "Tumed" /\ zone_id # None /\ PromoteToTumed(zone_id)
    /\ electedLeaders' = [electedLeaders EXCEPT ![leader] = new_level]
    /\ UNCHANGED <<ballotVars, councilVars, supremeVars, khuralVars>>

create_election(election_id, level, candidates) ==
    /\ elections[election_id] = None
    /\ Cardinality(candidates) <= MaxCandidates
    /\ elections' = [elections EXCEPT ![election_id] =
                        [level |-> level, is_active |-> TRUE, candidates |-> candidates]]
    /\ UNCHANGED <<votes, voteCounts>>
    /\ UNCHANGED <<zoneVars, electedLeaders, councilVars, supremeVars, khuralVars>>

\* Who may vote in an election of the level.
MayVote(voter, level) ==
    IF level = "Arbad" THEN citizenArbad[voter] # None ELSE HasLevel(voter, level)

cast_vote(voter, election_id, candidate) ==
    LET election == elections[election_id] IN
    /\ election # None
    /\ election.is_active
    /\ candidate \in election.candidates
    /\ votes[election_id][voter] = None
    /\ MayVote(voter, election.level)
    /\ voteCounts[election_id][candidate] < MaxCount
    /\ votes' = [votes EXCEPT ![election_id][voter] = candidate]
    /\ voteCounts' = [voteCounts EXCEPT ![election_id][candidate] = @ + 1]
    /\ UNCHANGED <<zoneVars, electedLeaders, elections, councilVars, supremeVars, khuralVars>>

-----------------------------------------------------------------------------
(* Branch councils and supreme leaders                                     *)

\* The number of distinct candidates of the branch once candidate has a vote.
CandidatesWith(branch, candidate) ==
    IF branchVoteCounts[branch][candidate] = 0
    THEN branchCandidateCount[branch] + 1 ELSE branchCandidateCount[branch]

elect_branch_council(voter, branch, candidate) ==
    /\ branch # "Legislative"
    /\ HasLevel(candidate, "Tumed")
    /\ ensure_tumed(voter)
    /\ branchVotes[branch][voter] = None
    /\ branchVoteCounts[branch][candidate] = 0 =>
          /\ branchCandidateCount[branch] < MaxCount
          /\ CandidatesWith(branch, candidate) <= MaxBranchCandidates
    /\ branchVoteCounts[branch][candidate] < MaxCount
    /\ branchCandidateCount' = [branchCandidateCount EXCEPT
                                   ![branch] = CandidatesWith(branch, candidate)]
    /\ branchVotes' = [branchVotes EXCEPT ![branch][voter] = candidate]
    /\ branchVoteCounts' = [branchVoteCounts EXCEPT ![branch][candidate] = @ + 1]
    /\ UNCHANGED <<branchCouncils, zoneVars, electedLeaders, ballotVars, supremeVars,
                   khuralVars>>

confirm_branch_council(branch, winners) ==
    /\ branch # "Legislative"
    /\ Len(winners) = COUNCIL_SIZE
    /\ \A i \in DOMAIN winners : branchVoteCounts[branch][winners[i]] > 0
    /\ branchCouncils' = [branchCouncils EXCEPT ![branch] = winners]
    /\ UNCHANGED <<branchVotes, branchVoteCounts, branchCandidateCount,
                   zoneVars, electedLeaders, ballotVars, supremeVars, khuralVars>>

\* is_branch_council_member of the origin checks, and the check of the voters.
is_branch_council_member(branch, who) ==
    /\ branchCouncils[branch] # None
    /\ \E i \in DOMAIN branchCouncils[branch] : branchCouncils[branch][i] = who

elect_supreme_leader(voter, branch, candidate) ==
    /\ branch # "Legislative"
    /\ is_branch_council_member(branch, voter)
    /\ supremeLeaderVotes[branch][voter] = None
    /\ supremeLeaderVoteCounts[branch][candidate] < MaxCount
    /\ supremeLeaderVotes' = [supremeLeaderVotes EXCEPT ![branch][voter] = candidate]
    /\ supremeLeaderVoteCounts' = [supremeLeaderVoteCounts EXCEPT ![branch][candidate] = @ + 1]
    /\ UNCHANGED <<supremeLeaders, zoneVars, electedLeaders, ballotVars, councilVars,
                   khuralVars>>

confirm_supreme_leader(branch, leader) ==
    /\ branch # "Legislative"
    /\ supremeLeaders' = [supremeLeaders EXCEPT ![branch] = leader]
    /\ UNCHANGED <<supremeLeaderVotes, supremeLeaderVoteCounts,
                   zoneVars, electedLeaders, ballotVars, councilVars, khuralVars>>

is_supreme_leader(branch, who) == supremeLeaders[branch] = who

-----------------------------------------------------------------------------
(* The chairman of the Khural                                              *)

elect_khural_chairman(voter, candidate) ==
    /\ voter \in IndigenousPeople
    /\ candidate \in IndigenousPeople
    /\ ensure_tumed(voter)
    /\ khuralVotes[voter] = None
    /\ khuralVoteCounts[candidate] < MaxCount
    /\ khuralVotes' = [khuralVotes EXCEPT ![voter] = candidate]
    /\ khuralVoteCounts' = Increment(khuralVoteCounts, candidate)
    /\ UNCHANGED <<khuralChairman, zoneVars, electedLeaders, ballotVars, councilVars,
                   supremeVars>>

confirm_khural_chairman(chairman) ==
    /\ citizenArbad[chairman] # None
    /\ khuralChairman' = <<chairman, citizenArbad[chairman]>>
    /\ UNCHANGED <<khuralVotes, khuralVoteCounts, zoneVars, electedLeaders, ballotVars,
                   councilVars, supremeVars>>

ResetKhural ==
    /\ khuralVotes' = NoVotes
    /\ khuralVoteCounts' = NoCounts
    /\ khuralChairman' = None
    /\ UNCHANGED <<councilVars, supremeVars>>

\* Mutant: the counter of candidates survives the reset.
PurgeButCandidateCount(branch) ==
    /\ branchVotes' = [branchVotes EXCEPT ![branch] = NoVotes]
    /\ branchVoteCounts' = [branchVoteCounts EXCEPT ![branch] = NoCounts]
    /\ UNCHANGED branchCandidateCount

PurgeCouncilBallot(branch) ==
    /\ branchVotes' = [branchVotes EXCEPT ![branch] = NoVotes]
    /\ branchVoteCounts' = [branchVoteCounts EXCEPT ![branch] = NoCounts]
    /\ branchCandidateCount' = [branchCandidateCount EXCEPT ![branch] = 0]

\* Mutant: the tallies survive the reset.
PurgeButTallies(branch) ==
    /\ supremeLeaderVotes' = [supremeLeaderVotes EXCEPT ![branch] = NoVotes]
    /\ UNCHANGED supremeLeaderVoteCounts

PurgeSupremeBallot(branch) ==
    /\ supremeLeaderVotes' = [supremeLeaderVotes EXCEPT ![branch] = NoVotes]
    /\ supremeLeaderVoteCounts' = [supremeLeaderVoteCounts EXCEPT ![branch] = NoCounts]

\* Mutant: the council stays seated when its ballot is purged.
UnseatLeaderOnly(branch) ==
    /\ supremeLeaders' = [supremeLeaders EXCEPT ![branch] = None]
    /\ UNCHANGED branchCouncils

Unseat(branch) ==
    /\ branchCouncils' = [branchCouncils EXCEPT ![branch] = None]
    /\ supremeLeaders' = [supremeLeaders EXCEPT ![branch] = None]

ResetBranch(branch) ==
    /\ PurgeCouncilBallot(branch)
    /\ PurgeSupremeBallot(branch)
    /\ Unseat(branch)
    /\ UNCHANGED khuralVars

reset_ballot(branch) ==
    /\ IF branch = "Legislative" THEN ResetKhural ELSE ResetBranch(branch)
    /\ UNCHANGED <<zoneVars, electedLeaders, ballotVars>>

-----------------------------------------------------------------------------
(* The origin checks of the runtime that read these offices                *)

EnsureKhuralChairman(who) == is_supreme_leader("Legislative", who)

-----------------------------------------------------------------------------
ElectInit ==
    /\ citizenArbad = NoVotes /\ citizenZun = NoVotes /\ citizenMyangad = NoVotes
    /\ arbadMemberCount = [z \in Zones |-> 0]
    /\ zunLeaderCount = [z \in Zones |-> 0]
    /\ myangadLeaderCount = [z \in Zones |-> 0]
    /\ electedLeaders = NoVotes
    /\ elections = [e \in ElectionIds |-> None]
    /\ votes = [e \in ElectionIds |-> NoVotes]
    /\ voteCounts = [e \in ElectionIds |-> NoCounts]
    /\ branchVotes = [b \in GovernmentBranch |-> NoVotes]
    /\ branchVoteCounts = [b \in GovernmentBranch |-> NoCounts]
    /\ branchCandidateCount = [b \in GovernmentBranch |-> 0]
    /\ branchCouncils = [b \in GovernmentBranch |-> None]
    /\ supremeLeaderVotes = [b \in GovernmentBranch |-> NoVotes]
    /\ supremeLeaderVoteCounts = [b \in GovernmentBranch |-> NoCounts]
    /\ supremeLeaders = [b \in GovernmentBranch |-> None]
    /\ khuralVotes = NoVotes
    /\ khuralVoteCounts = NoCounts
    /\ khuralChairman = None

\* What Root does for the hierarchy.
HierarchyStep ==
    \E who \in People :
        \/ \E z \in Zones : add_citizen_to_arbad(who, z)
        \/ \E level \in ElectionLevel, z \in Zones \cup {None} :
              promote_leader(who, level, z)

\* The elections of the hierarchy.
BallotStep ==
    \E e \in ElectionIds :
        \/ \E level \in ElectionLevel, c \in SUBSET People : create_election(e, level, c)
        \/ \E voter, c \in People : cast_vote(voter, e, c)

\* The offices of one branch.
BranchStep(b) ==
    \/ \E voter, c \in People : elect_branch_council(voter, b, c)
    \/ \E winners \in [1 .. COUNCIL_SIZE -> People] : confirm_branch_council(b, winners)
    \/ \E voter, c \in People : elect_supreme_leader(voter, b, c)
    \/ \E leader \in People : confirm_supreme_leader(b, leader)
    \/ reset_ballot(b)

KhuralStep ==
    \/ \E voter, c \in People : elect_khural_chairman(voter, c)
    \/ \E chairman \in People : confirm_khural_chairman(chairman)

ElectNext ==
    \/ HierarchyStep
    \/ BallotStep
    \/ \E b \in GovernmentBranch : BranchStep(b)
    \/ KhuralStep

ElectSpec == ElectInit /\ [][ElectNext]_electVars

-----------------------------------------------------------------------------
(* Correctness                                                             *)

Ballots == [People -> People \cup {None}]
Tallies == [People -> Nat]

ElectTypeOK ==
    /\ citizenArbad \in [People -> Zones \cup {None}]
    /\ citizenZun \in [People -> Zones \cup {None}]
    /\ citizenMyangad \in [People -> Zones \cup {None}]
    /\ arbadMemberCount \in [Zones -> Nat]
    /\ zunLeaderCount \in [Zones -> Nat]
    /\ myangadLeaderCount \in [Zones -> Nat]
    /\ electedLeaders \in [People -> ElectionLevel \cup {None}]
    /\ elections \in [ElectionIds -> Election \cup {None}]
    /\ votes \in [ElectionIds -> Ballots]
    /\ voteCounts \in [ElectionIds -> Tallies]
    /\ branchVotes \in [GovernmentBranch -> Ballots]
    /\ branchVoteCounts \in [GovernmentBranch -> Tallies]
    /\ branchCandidateCount \in [GovernmentBranch -> Nat]
    /\ branchCouncils \in [GovernmentBranch -> [1 .. COUNCIL_SIZE -> People] \cup {None}]
    /\ supremeLeaderVotes \in [GovernmentBranch -> Ballots]
    /\ supremeLeaderVoteCounts \in [GovernmentBranch -> Tallies]
    /\ supremeLeaders \in [GovernmentBranch -> People \cup {None}]
    /\ khuralVotes \in Ballots
    /\ khuralVoteCounts \in Tallies
    /\ khuralChairman \in (People \X Zones) \cup {None}

\* A tally is the number of recorded votes for the candidate.
CountsVotes(ballot, tally) ==
    \A c \in People : tally[c] = Cardinality({v \in People : ballot[v] = c})

(***************************************************************************)
(* Every published tally is the number of votes on record for the          *)
(* candidate, in each of the four ballots: the two are written by separate *)
(* statements and purged by separate statements of reset_ballot.           *)
(***************************************************************************)
TalliesAgree ==
    /\ \A e \in ElectionIds : CountsVotes(votes[e], voteCounts[e])
    /\ \A b \in GovernmentBranch :
          /\ CountsVotes(branchVotes[b], branchVoteCounts[b])
          /\ CountsVotes(supremeLeaderVotes[b], supremeLeaderVoteCounts[b])
    /\ CountsVotes(khuralVotes, khuralVoteCounts)

\* The guard against unbounded candidate lists counts what it bounds: the
\* distinct candidates with a vote, through every reset and new cycle.
CandidatesCounted ==
    \A b \in GovernmentBranch :
        /\ branchCandidateCount[b] = Cardinality({c \in People : branchVoteCounts[b][c] > 0})
        /\ branchCandidateCount[b] <= MaxBranchCandidates

\* Both at once: what reset_ballot must purge together, votes, tallies and the
\* counter of candidates, agrees after every call.
BallotsAgree == TalliesAgree /\ CandidatesCounted

(***************************************************************************)
(* No seat without a vote: whoever sits in a council, or has voted for its *)
(* supreme leader, has votes in the branch ballot that is still on record, *)
(* also after a second confirmation replaced the council.                  *)
(***************************************************************************)
SeatsHaveVotes ==
    \A b \in GovernmentBranch, p \in People :
        is_branch_council_member(b, p) \/ supremeLeaderVotes[b][p] # None
            => branchVoteCounts[b][p] > 0

(***************************************************************************)
(* Who votes at the peak stands on a full hierarchy: a leader of Tumed     *)
(* rank implies a zone whose three counters have reached the three         *)
(* constitutional sizes, although each promotion compares only the one     *)
(* below it.                                                               *)
(***************************************************************************)
TumedNeedsFullZone ==
    \A p \in People : electedLeaders[p] = "Tumed" =>
        \E z \in Zones :
            /\ myangadLeaderCount[z] >= MinMyangadLeaders
            /\ zunLeaderCount[z] >= MinZunLeaders
            /\ arbadMemberCount[z] >= MinArbadSize

\* An election is decided by the electorate and the list it was opened with:
\* every vote on record is for a candidate of the stored list.
VotesAreForCandidates ==
    \A e \in ElectionIds, v \in People :
        votes[e][v] # None => elections[e] # None /\ votes[e][v] \in elections[e].candidates

-----------------------------------------------------------------------------
(* What the documentation says and the code does not do                    *)

\* EnsureRootOrKhuralChairman: "Root (Sudo) OR the elected Khural Chairman";
\* the check reads SupremeLeaders[Legislative], which confirm_supreme_leader
\* refuses to write, and not KhuralChairman.
ChairmanPassesOrigin ==
    khuralChairman # None => EnsureKhuralChairman(khuralChairman[1])
=============================================================================
