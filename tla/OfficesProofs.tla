--------------------------- MODULE OfficesProofs ---------------------------
(***************************************************************************)
(* Proofs about who holds an office: the role keys of organizations        *)
(* (OrgRoles), the elected councils (Elections) and the units of the       *)
(* people on the register of citizens (FractalUnits), for every set of     *)
(* accounts, any number of organizations, elections and units, every set   *)
(* of zones and every constitutional size.                                 *)
(***************************************************************************)
EXTENDS MCIdentity, LedgerSums

-----------------------------------------------------------------------------
(* Role keys.  TypeOK and FounderStaysRoot are inductive together: a new   *)
(* organization gets an identifier that no key names yet, a mint never     *)
(* overwrites a key and a revocation never removes a Root key.             *)

\* The keys and slots are well typed and the founder's key is one of them.
RoleInv == TypeOK /\ FounderStaysRoot

\* Founding an organization preserves the invariant.
LEMMA CreateStep ==
    ASSUME RoleInv, NEW owner \in KeyHolders, NEW o, NEW m, create_organization(owner, o, m)
    PROVE  RoleInv'
<1>1. nextOrgId \in Nat /\ MaxOrgs \in Nat /\ nextOrgId < MaxOrgs
  BY OrgAssumption DEF RoleInv, TypeOK, create_organization
<1>2. /\ 0 .. nextOrgId' - 1 = (0 .. nextOrgId - 1) \cup {nextOrgId}
      /\ nextOrgId \notin 0 .. nextOrgId - 1
      /\ nextOrgId' \in 0 .. MaxOrgs
  BY <1>1 DEF create_organization, CounterAdvances
<1>3. TypeOK'
  <2>1. organizations' \in [0 .. nextOrgId' - 1 -> KeyHolders]
    BY <1>2 DEF RoleInv, TypeOK, create_organization
  <2>2. DOMAIN roleSlots' = 0 .. nextOrgId' - 1
    BY <1>2 DEF RoleInv, TypeOK, create_organization
  <2>3. /\ DOMAIN issuedKeys' = DOMAIN issuedKeys \cup {<<nextOrgId, owner>>}
        /\ \A k \in DOMAIN issuedKeys' : issuedKeys'[k] \in RoleTier
    BY DEF RoleInv, TypeOK, create_organization, RoleTier
  <2>4. DOMAIN issuedKeys' \subseteq (0 .. nextOrgId' - 1) \X KeyHolders
    BY <1>2, <2>3 DEF RoleInv, TypeOK
  <2> QED BY <1>2, <2>1, <2>2, <2>3, <2>4 DEF TypeOK, create_organization
<1>4. FounderStaysRoot'
  <2> SUFFICES ASSUME NEW org_id \in DOMAIN organizations'
               PROVE  /\ <<org_id, organizations'[org_id]>> \in DOMAIN issuedKeys'
                      /\ issuedKeys'[<<org_id, organizations'[org_id]>>] = "Root"
    BY DEF FounderStaysRoot, HasTier
  <2>1. CASE org_id = nextOrgId
    BY <2>1 DEF create_organization
  <2>2. CASE org_id # nextOrgId
    <3>1. org_id \in DOMAIN organizations /\ organizations'[org_id] = organizations[org_id]
      BY <2>2 DEF create_organization
    <3>2. /\ <<org_id, organizations[org_id]>> \in DOMAIN issuedKeys
          /\ issuedKeys[<<org_id, organizations[org_id]>>] = "Root"
      BY <3>1 DEF RoleInv, FounderStaysRoot, HasTier
    <3> QED BY <2>2, <3>1, <3>2 DEF create_organization
  <2> QED BY <2>1, <2>2
<1> QED BY <1>3, <1>4 DEF RoleInv

\* Minting a key preserves the invariant.
LEMMA MintStep ==
    ASSUME RoleInv, NEW minter \in KeyHolders, NEW org_id \in OrgIds, NEW target \in KeyHolders,
           NEW tier \in RoleTier, mint_role_key(minter, org_id, target, tier)
    PROVE  RoleInv'
<1>1. /\ org_id \in 0 .. nextOrgId - 1
      /\ <<org_id, target>> \notin DOMAIN issuedKeys
      /\ DOMAIN issuedKeys' = DOMAIN issuedKeys \cup {<<org_id, target>>}
      /\ issuedKeys'[<<org_id, target>>] = tier
      /\ \A k \in DOMAIN issuedKeys : issuedKeys'[k] = issuedKeys[k]
      /\ UNCHANGED <<nextOrgId, organizations, roleSlots>>
      /\ eventBy' = {minter}
  BY DEF RoleInv, TypeOK, mint_role_key
<1>2. TypeOK'
  <2>1. DOMAIN issuedKeys' \subseteq (0 .. nextOrgId - 1) \X KeyHolders
    BY <1>1 DEF RoleInv, TypeOK
  <2>2. \A k \in DOMAIN issuedKeys' : issuedKeys'[k] \in RoleTier
    BY <1>1 DEF RoleInv, TypeOK
  <2> QED BY <1>1, <2>1, <2>2 DEF RoleInv, TypeOK
<1>3. FounderStaysRoot'
  BY <1>1 DEF RoleInv, FounderStaysRoot, HasTier
<1> QED BY <1>2, <1>3 DEF RoleInv

\* Revoking a key preserves the invariant.
LEMMA RevokeStep ==
    ASSUME RoleInv, NEW revoker \in KeyHolders, NEW org_id \in OrgIds, NEW target \in KeyHolders,
           revoke_role_key(revoker, org_id, target)
    PROVE  RoleInv'
<1>1. /\ issuedKeys[<<org_id, target>>] # "Root"
      /\ DOMAIN issuedKeys' = DOMAIN issuedKeys \ {<<org_id, target>>}
      /\ \A k \in DOMAIN issuedKeys' : issuedKeys'[k] = issuedKeys[k]
      /\ UNCHANGED <<nextOrgId, organizations, roleSlots>>
      /\ eventBy' = {revoker}
  BY DEF revoke_role_key, MayRevoke, HasTier
<1>2. TypeOK'
  BY <1>1 DEF RoleInv, TypeOK
<1>3. FounderStaysRoot'
  BY <1>1 DEF RoleInv, FounderStaysRoot, HasTier
<1> QED BY <1>2, <1>3 DEF RoleInv

\* The inductive invariant holds in every reachable state.
THEOREM RoleInvariance == Spec => []RoleInv
<1>1. Init => RoleInv
  BY OrgAssumption DEF Init, RoleInv, TypeOK, FounderStaysRoot
<1>2. ASSUME RoleInv, [Next]_vars
      PROVE  RoleInv'
  <2>1. CASE Next
    BY <1>2, <2>1, CreateStep, MintStep, RevokeStep DEF Next
  <2>2. CASE UNCHANGED vars
    BY <1>2, <2>2 DEF vars, RoleInv, TypeOK, FounderStaysRoot, HasTier
  <2> QED BY <1>2, <2>1, <2>2
<1> QED BY <1>1, <1>2, PTL DEF Spec

\* No sequence of mints and revocations takes the founder's Root key away:
\* every organization, a bank's Board among them, always has a head.
THEOREM FounderIsRoot == Spec => []FounderStaysRoot
<1>1. RoleInv => FounderStaysRoot
  BY DEF RoleInv
<1> QED BY <1>1, RoleInvariance, PTL

\* The caller of a step that changes who is an officer is a Root.
LEMMA OfficerChange ==
    ASSUME RoleInv, [Next]_vars, NEW org_id \in DOMAIN organizations, NEW who \in KeyHolders,
           EnsureOrgOfficer(org_id, who)' # EnsureOrgOfficer(org_id, who),
           NEW caller \in eventBy'
    PROVE  HasTier(org_id, caller, {"Root"})
<1> DEFINE key == <<org_id, who>>
<1>1. \/ issuedKeys'[key] # issuedKeys[key]
      \/ key \in DOMAIN issuedKeys' /\ key \notin DOMAIN issuedKeys
      \/ key \notin DOMAIN issuedKeys' /\ key \in DOMAIN issuedKeys
  BY DEF EnsureOrgOfficer, HasTier
<1>2. ASSUME NEW owner \in KeyHolders, NEW o, NEW m, create_organization(owner, o, m)
      PROVE  FALSE
  <2>1. org_id # nextOrgId
    BY DEF RoleInv, TypeOK
  <2>2. key # <<nextOrgId, owner>>
    BY <2>1
  <2> QED BY <1>1, <1>2, <2>2 DEF create_organization, EnsureOrgOfficer, HasTier
<1>3. ASSUME NEW minter \in KeyHolders, NEW id \in OrgIds, NEW target \in KeyHolders,
             NEW tier \in RoleTier, mint_role_key(minter, id, target, tier)
      PROVE  HasTier(org_id, caller, {"Root"})
  <2>1. CASE key # <<id, target>>
    BY <1>1, <1>3, <2>1 DEF mint_role_key, EnsureOrgOfficer, HasTier
  <2>2. CASE key = <<id, target>>
    <3>1. tier \in {"Root", "Officer"}
      BY <1>3, <2>2 DEF mint_role_key, EnsureOrgOfficer, HasTier
    <3>2. HasTier(id, minter, {"Root"})
      BY <1>3, <3>1 DEF mint_role_key, MayMint
    <3> QED BY <1>3, <2>2, <3>2 DEF mint_role_key
  <2> QED BY <2>1, <2>2
<1>4. ASSUME NEW revoker \in KeyHolders, NEW id \in OrgIds, NEW target \in KeyHolders,
             revoke_role_key(revoker, id, target)
      PROVE  HasTier(org_id, caller, {"Root"})
  <2>1. CASE key # <<id, target>>
    BY <1>1, <1>4, <2>1 DEF revoke_role_key, EnsureOrgOfficer, HasTier
  <2>2. CASE key = <<id, target>>
    <3>1. ~HasTier(id, target, {"Member"})
      BY <1>4, <2>2 DEF revoke_role_key, EnsureOrgOfficer, HasTier
    <3>2. HasTier(id, revoker, {"Root"})
      BY <1>4, <3>1 DEF revoke_role_key, MayRevoke
    <3> QED BY <1>4, <2>2, <3>2 DEF revoke_role_key
  <2> QED BY <2>1, <2>2
<1>5. CASE UNCHANGED vars
  BY <1>5 DEF vars, EnsureOrgOfficer, HasTier
<1> QED BY <1>2, <1>3, <1>4, <1>5 DEF Next

\* Who passes EnsureOrgOfficer changes only by a call of that organization's Root.
THEOREM OfficersComeFromRoot == Spec => OnlyRootMakesOfficers
<1>1. ASSUME RoleInv, [Next]_vars
      PROVE  [\A org_id \in DOMAIN organizations, who \in KeyHolders :
                 EnsureOrgOfficer(org_id, who)' # EnsureOrgOfficer(org_id, who) =>
                     \A caller \in eventBy' : HasTier(org_id, caller, {"Root"})]_vars
  BY <1>1, OfficerChange
<1> QED BY <1>1, RoleInvariance, PTL DEF Spec, OnlyRootMakesOfficers

-----------------------------------------------------------------------------
(* Types                                                                   *)

\* The empty storage is well typed.
LEMMA TypeInit == ElectInit => ElectTypeOK
  BY ElectionsAssumption
  DEF ElectInit, ElectTypeOK, NoVotes, NoCounts, Ballots, Tallies

\* Every call keeps the types, one step per call.
LEMMA TypeNext == ElectTypeOK /\ [ElectNext]_electVars => ElectTypeOK'
<1> SUFFICES ASSUME ElectTypeOK, [ElectNext]_electVars
             PROVE  ElectTypeOK'
  OBVIOUS
<1> USE DEF ElectTypeOK, Ballots, Tallies, Increment
<1>1. ASSUME NEW who \in People, NEW z \in Zones, add_citizen_to_arbad(who, z)
      PROVE  ElectTypeOK'
  BY <1>1 DEF add_citizen_to_arbad, ballotVars, councilVars, supremeVars, khuralVars
<1>2. ASSUME NEW who \in People, NEW level \in ElectionLevel, NEW z \in Zones \cup {None},
             promote_leader(who, level, z)
      PROVE  ElectTypeOK'
  <2>1. electedLeaders' \in [People -> ElectionLevel \cup {None}]
    BY <1>2 DEF promote_leader
  <2>2. /\ citizenArbad' \in [People -> Zones \cup {None}]
        /\ citizenZun' \in [People -> Zones \cup {None}]
        /\ citizenMyangad' \in [People -> Zones \cup {None}]
        /\ arbadMemberCount' \in [Zones -> Nat]
        /\ zunLeaderCount' \in [Zones -> Nat]
        /\ myangadLeaderCount' \in [Zones -> Nat]
    <3>1. CASE PromoteToArbad
      BY <3>1 DEF PromoteToArbad, zoneVars
    <3>2. CASE PromoteToZun(who)
      BY <3>2 DEF PromoteToZun
    <3>3. CASE z # None /\ PromoteToMyangad(who, z)
      BY <3>3 DEF PromoteToMyangad
    <3>4. CASE PromoteToTumed(z)
      BY <3>4 DEF PromoteToTumed, zoneVars
    <3>5. QED BY <1>2, <3>1, <3>2, <3>3, <3>4 DEF promote_leader
  <2>3. QED
    BY <1>2, <2>1, <2>2 DEF promote_leader, ballotVars, councilVars, supremeVars, khuralVars
<1>3. ASSUME NEW e \in ElectionIds, NEW level \in ElectionLevel, NEW c \in SUBSET People,
             create_election(e, level, c)
      PROVE  ElectTypeOK'
  BY <1>3 DEF create_election, Election, zoneVars, councilVars, supremeVars, khuralVars
<1>4. ASSUME NEW e \in ElectionIds, NEW voter \in People, NEW c \in People,
             cast_vote(voter, e, c)
      PROVE  ElectTypeOK'
  <2>1. /\ votes' \in [ElectionIds -> Ballots]
        /\ voteCounts' \in [ElectionIds -> Tallies]
    BY <1>4 DEF cast_vote
  <2> HIDE DEF Ballots, Tallies, Increment
  <2> QED BY <1>4, <2>1 DEF cast_vote, zoneVars, councilVars, supremeVars, khuralVars
<1>5. ASSUME NEW b \in GovernmentBranch, NEW voter \in People, NEW c \in People,
             elect_branch_council(voter, b, c)
      PROVE  ElectTypeOK'
  <2>1. /\ branchVotes' \in [GovernmentBranch -> Ballots]
        /\ branchVoteCounts' \in [GovernmentBranch -> Tallies]
    BY <1>5 DEF elect_branch_council
  <2>2. branchCandidateCount' \in [GovernmentBranch -> Nat]
    BY <1>5 DEF elect_branch_council, CandidatesWith
  <2> HIDE DEF Ballots, Tallies, Increment
  <2> QED BY <1>5, <2>1, <2>2 DEF elect_branch_council, zoneVars, ballotVars, supremeVars, khuralVars
<1>6. ASSUME NEW b \in GovernmentBranch, NEW winners \in [1 .. COUNCIL_SIZE -> People],
             confirm_branch_council(b, winners)
      PROVE  ElectTypeOK'
  BY <1>6 DEF confirm_branch_council, zoneVars, ballotVars, supremeVars, khuralVars
<1>7. ASSUME NEW b \in GovernmentBranch, NEW voter \in People, NEW c \in People,
             elect_supreme_leader(voter, b, c)
      PROVE  ElectTypeOK'
  BY <1>7 DEF elect_supreme_leader, zoneVars, ballotVars, councilVars, khuralVars
<1>8. ASSUME NEW b \in GovernmentBranch, NEW leader \in People,
             confirm_supreme_leader(b, leader)
      PROVE  ElectTypeOK'
  BY <1>8 DEF confirm_supreme_leader, zoneVars, ballotVars, councilVars, khuralVars
<1>9. ASSUME NEW b \in GovernmentBranch, reset_ballot(b)
      PROVE  ElectTypeOK'
  <2>1. CASE b = "Legislative"
    BY <1>9, <2>1, ElectionsAssumption
    DEF reset_ballot, ResetKhural, NoVotes, NoCounts, zoneVars, ballotVars, councilVars,
        supremeVars
  <2>2. CASE b # "Legislative"
    <3>1. NoVotes \in Ballots /\ NoCounts \in Tallies
      BY DEF NoVotes, NoCounts
    <3>2. ResetBranch(b)
      BY <1>9, <2>2 DEF reset_ballot
    <3>3. /\ branchVotes' \in [GovernmentBranch -> Ballots]
          /\ branchVoteCounts' \in [GovernmentBranch -> Tallies]
          /\ branchCandidateCount' \in [GovernmentBranch -> Nat]
      <4> HIDE DEF Ballots, Tallies
      <4>1. QED BY <3>1, <3>2 DEF ResetBranch, PurgeCouncilBallot
    <3>4. /\ supremeLeaderVotes' \in [GovernmentBranch -> Ballots]
          /\ supremeLeaderVoteCounts' \in [GovernmentBranch -> Tallies]
      <4> HIDE DEF Ballots, Tallies
      <4>1. QED BY <3>1, <3>2 DEF ResetBranch, PurgeSupremeBallot
    <3>5. /\ branchCouncils' \in [GovernmentBranch -> [1 .. COUNCIL_SIZE -> People] \cup {None}]
          /\ supremeLeaders' \in [GovernmentBranch -> People \cup {None}]
      BY <3>2 DEF ResetBranch, Unseat
    <3>6. UNCHANGED <<zoneVars, electedLeaders, ballotVars, khuralVars>>
      BY <1>9, <3>2 DEF reset_ballot, ResetBranch
    <3>7. QED
      BY <3>3, <3>4, <3>5, <3>6 DEF zoneVars, ballotVars, khuralVars
  <2>3. QED BY <2>1, <2>2
<1>10. ASSUME NEW voter \in People, NEW c \in People, elect_khural_chairman(voter, c)
       PROVE  ElectTypeOK'
  <2>1. khuralVotes' \in Ballots /\ khuralVoteCounts' \in Tallies
    BY <1>10 DEF elect_khural_chairman
  <2> HIDE DEF Ballots, Tallies, Increment
  <2> QED BY <1>10, <2>1 DEF elect_khural_chairman, zoneVars, ballotVars, councilVars, supremeVars
<1>11. ASSUME NEW chairman \in People, confirm_khural_chairman(chairman)
       PROVE  ElectTypeOK'
  BY <1>11 DEF confirm_khural_chairman, zoneVars, ballotVars, councilVars, supremeVars
<1>12. CASE UNCHANGED electVars
  BY <1>12 DEF electVars, zoneVars, ballotVars, councilVars, supremeVars, khuralVars
<1>13. QED
  BY <1>1, <1>2, <1>3, <1>4, <1>5, <1>6, <1>7, <1>8, <1>9, <1>10, <1>11, <1>12
  DEF ElectNext, HierarchyStep, BallotStep, BranchStep, KhuralStep

-----------------------------------------------------------------------------
(* Ballots and tallies                                                     *)

\* Recording a vote of somebody who has none and raising the candidate's
\* count by one keeps a tally equal to the votes on record.
LEMMA CountOneVote ==
    ASSUME NEW ballot \in Ballots, NEW tally \in Tallies,
           NEW v \in People, NEW c \in People,
           ballot[v] = None, CountsVotes(ballot, tally)
    PROVE  CountsVotes([ballot EXCEPT ![v] = c], [tally EXCEPT ![c] = @ + 1])
<1> DEFINE new == [ballot EXCEPT ![v] = c]
           For(b, d) == {u \in People : b[u] = d}
<1> SUFFICES ASSUME NEW d \in People
             PROVE  [tally EXCEPT ![c] = @ + 1][d] = Cardinality(For(new, d))
  BY DEF CountsVotes
<1>1. tally[d] = Cardinality(For(ballot, d))
  BY DEF CountsVotes
<1>2. IsFiniteSet(For(ballot, d))
  BY FS_Subset, ElectionsAssumption
<1>3. CASE d = c
  <2>1. For(new, d) = For(ballot, d) \cup {v}
    BY <1>3 DEF Ballots
  <2>2. v \notin For(ballot, d)
    BY ElectionsAssumption
  <2>3. Cardinality(For(ballot, d) \cup {v}) = Cardinality(For(ballot, d)) + 1
    <3> HIDE DEF For
    <3>1. QED BY <1>2, <2>2, FS_AddElement
  <2>4. QED BY <1>1, <1>3, <2>1, <2>3 DEF Tallies
<1>4. CASE d # c
  <2>1. For(new, d) = For(ballot, d)
    BY <1>4, ElectionsAssumption DEF Ballots
  <2>2. QED BY <1>1, <1>4, <2>1 DEF Tallies
<1>5. QED BY <1>3, <1>4

\* An empty ballot and an empty tally agree: what reset_ballot leaves behind.
LEMMA EmptyBallot == CountsVotes(NoVotes, NoCounts)
<1> SUFFICES ASSUME NEW d \in People
             PROVE  NoCounts[d] = Cardinality({u \in People : NoVotes[u] = d})
  BY DEF CountsVotes
<1>1. {u \in People : NoVotes[u] = d} = {}
  BY ElectionsAssumption DEF NoVotes
<1>2. QED BY <1>1, FS_EmptySet DEF NoCounts

\* The same for one ballot of a family: a vote disturbs no other ballot.
LEMMA CountOneOfMany ==
    ASSUME NEW K, NEW ballots \in [K -> Ballots], NEW tallies \in [K -> Tallies],
           NEW k \in K, NEW v \in People, NEW c \in People, ballots[k][v] = None,
           \A j \in K : CountsVotes(ballots[j], tallies[j])
    PROVE  \A j \in K : CountsVotes([ballots EXCEPT ![k][v] = c][j],
                                    [tallies EXCEPT ![k][c] = @ + 1][j])
<1> SUFFICES ASSUME NEW j \in K
             PROVE  CountsVotes([ballots EXCEPT ![k][v] = c][j],
                                [tallies EXCEPT ![k][c] = @ + 1][j])
  OBVIOUS
<1>1. CASE j = k
  <2>1. ballots[k] \in Ballots /\ tallies[k] \in Tallies
    OBVIOUS
  <2>2. CountsVotes([ballots[k] EXCEPT ![v] = c], [tallies[k] EXCEPT ![c] = @ + 1])
    BY <2>1, CountOneVote
  <2>3. [ballots EXCEPT ![k][v] = c][j] = [ballots[k] EXCEPT ![v] = c]
    BY <1>1
  <2>4. [tallies EXCEPT ![k][c] = @ + 1][j] = [tallies[k] EXCEPT ![c] = @ + 1]
    BY <1>1
  <2>5. QED BY <2>2, <2>3, <2>4
<1>2. CASE j # k
  <2>1. /\ [ballots EXCEPT ![k][v] = c][j] = ballots[j]
        /\ [tallies EXCEPT ![k][c] = @ + 1][j] = tallies[j]
    BY <1>2
  <2>2. QED BY <2>1
<1>3. QED BY <1>1, <1>2

\* Purging one ballot of a family together with its tally keeps them all in step.
LEMMA PurgeOneOfMany ==
    ASSUME NEW K, NEW ballots \in [K -> Ballots], NEW tallies \in [K -> Tallies],
           NEW k \in K, \A j \in K : CountsVotes(ballots[j], tallies[j])
    PROVE  \A j \in K : CountsVotes([ballots EXCEPT ![k] = NoVotes][j],
                                    [tallies EXCEPT ![k] = NoCounts][j])
<1> SUFFICES ASSUME NEW j \in K
             PROVE  CountsVotes([ballots EXCEPT ![k] = NoVotes][j],
                                [tallies EXCEPT ![k] = NoCounts][j])
  OBVIOUS
<1>1. CASE j = k
  <2>1. /\ [ballots EXCEPT ![k] = NoVotes][j] = NoVotes
        /\ [tallies EXCEPT ![k] = NoCounts][j] = NoCounts
    BY <1>1
  <2>2. QED BY <2>1, EmptyBallot
<1>2. CASE j # k
  <2>1. /\ [ballots EXCEPT ![k] = NoVotes][j] = ballots[j]
        /\ [tallies EXCEPT ![k] = NoCounts][j] = tallies[j]
    BY <1>2
  <2>2. QED BY <2>1
<1>3. QED BY <1>1, <1>2

ElectionTallies == \A e \in ElectionIds : CountsVotes(votes[e], voteCounts[e])
CouncilTallies == \A b \in GovernmentBranch : CountsVotes(branchVotes[b], branchVoteCounts[b])
SupremeTallies == \A b \in GovernmentBranch :
                     CountsVotes(supremeLeaderVotes[b], supremeLeaderVoteCounts[b])
KhuralTallies == CountsVotes(khuralVotes, khuralVoteCounts)

\* All ballots start empty.
LEMMA TalliesInit == ElectInit => TalliesAgree
<1> SUFFICES ASSUME ElectInit PROVE TalliesAgree
  OBVIOUS
<1>1. QED BY EmptyBallot DEF ElectInit, TalliesAgree

\* Every call keeps the four families of ballots in step with their tallies.
LEMMA TalliesNext == ElectTypeOK /\ TalliesAgree /\ [ElectNext]_electVars => TalliesAgree'
<1> SUFFICES ASSUME ElectTypeOK, TalliesAgree, [ElectNext]_electVars
             PROVE  TalliesAgree'
  OBVIOUS
<1>0. ElectionTallies /\ CouncilTallies /\ SupremeTallies /\ KhuralTallies
  BY DEF TalliesAgree, ElectionTallies, CouncilTallies, SupremeTallies, KhuralTallies
<1>1. ElectionTallies'
  <2>1. CASE UNCHANGED <<votes, voteCounts>>
    BY <1>0, <2>1 DEF ElectionTallies, CountsVotes
  <2>2. ASSUME NEW e \in ElectionIds, NEW voter \in People, NEW c \in People,
               cast_vote(voter, e, c)
        PROVE  ElectionTallies'
    <3>1. votes \in [ElectionIds -> Ballots] /\ voteCounts \in [ElectionIds -> Tallies]
      BY DEF ElectTypeOK
    <3>2. /\ votes[e][voter] = None
          /\ votes' = [votes EXCEPT ![e][voter] = c]
          /\ voteCounts' = [voteCounts EXCEPT ![e][c] = @ + 1]
      BY <2>2 DEF cast_vote
    <3>3. QED BY <1>0, <3>1, <3>2, CountOneOfMany DEF ElectionTallies
  <2>3. \/ UNCHANGED <<votes, voteCounts>>
        \/ \E e \in ElectionIds, voter, c \in People : cast_vote(voter, e, c)
    BY DEF ElectNext, HierarchyStep, BallotStep, BranchStep, KhuralStep, electVars,
           add_citizen_to_arbad, promote_leader, create_election, elect_branch_council,
           confirm_branch_council, elect_supreme_leader, confirm_supreme_leader,
           reset_ballot, elect_khural_chairman, confirm_khural_chairman, ballotVars
  <2>4. QED BY <2>1, <2>2, <2>3
<1>2. CouncilTallies'
  <2> DEFINE B == GovernmentBranch
  <2>1. branchVotes \in [B -> Ballots] /\ branchVoteCounts \in [B -> Tallies]
    BY DEF ElectTypeOK
  <2>2. CASE UNCHANGED <<branchVotes, branchVoteCounts>>
    BY <1>0, <2>2 DEF CouncilTallies, CountsVotes
  <2>3. ASSUME NEW b \in B, NEW voter \in People, NEW c \in People,
               elect_branch_council(voter, b, c)
        PROVE  CouncilTallies'
    <3>1. /\ branchVotes[b][voter] = None
          /\ branchVotes' = [branchVotes EXCEPT ![b][voter] = c]
          /\ branchVoteCounts' = [branchVoteCounts EXCEPT ![b][c] = @ + 1]
      BY <2>3 DEF elect_branch_council
    <3>2. QED BY <1>0, <2>1, <3>1, CountOneOfMany DEF CouncilTallies
  <2>4. ASSUME NEW b \in B, PurgeCouncilBallot(b)
        PROVE  CouncilTallies'
    BY <1>0, <2>1, <2>4, PurgeOneOfMany DEF CouncilTallies, PurgeCouncilBallot
  <2>5. \/ UNCHANGED <<branchVotes, branchVoteCounts>>
        \/ \E b \in B, voter, c \in People : elect_branch_council(voter, b, c)
        \/ \E b \in B : PurgeCouncilBallot(b)
    BY DEF ElectNext, HierarchyStep, BallotStep, BranchStep, KhuralStep, electVars,
           add_citizen_to_arbad, promote_leader, create_election, cast_vote,
           confirm_branch_council, elect_supreme_leader, confirm_supreme_leader,
           reset_ballot, ResetKhural, ResetBranch, elect_khural_chairman,
           confirm_khural_chairman, councilVars
  <2>6. QED BY <2>2, <2>3, <2>4, <2>5
<1>3. SupremeTallies'
  <2> DEFINE B == GovernmentBranch
  <2>1. supremeLeaderVotes \in [B -> Ballots] /\ supremeLeaderVoteCounts \in [B -> Tallies]
    BY DEF ElectTypeOK
  <2>2. CASE UNCHANGED <<supremeLeaderVotes, supremeLeaderVoteCounts>>
    BY <1>0, <2>2 DEF SupremeTallies, CountsVotes
  <2>3. ASSUME NEW b \in B, NEW voter \in People, NEW c \in People,
               elect_supreme_leader(voter, b, c)
        PROVE  SupremeTallies'
    <3>1. /\ supremeLeaderVotes[b][voter] = None
          /\ supremeLeaderVotes' = [supremeLeaderVotes EXCEPT ![b][voter] = c]
          /\ supremeLeaderVoteCounts' = [supremeLeaderVoteCounts EXCEPT ![b][c] = @ + 1]
      BY <2>3 DEF elect_supreme_leader
    <3>2. QED BY <1>0, <2>1, <3>1, CountOneOfMany DEF SupremeTallies
  <2>4. ASSUME NEW b \in B, PurgeSupremeBallot(b)
        PROVE  SupremeTallies'
    BY <1>0, <2>1, <2>4, PurgeOneOfMany DEF SupremeTallies, PurgeSupremeBallot
  <2>5. \/ UNCHANGED <<supremeLeaderVotes, supremeLeaderVoteCounts>>
        \/ \E b \in B, voter, c \in People : elect_supreme_leader(voter, b, c)
        \/ \E b \in B : PurgeSupremeBallot(b)
    BY DEF ElectNext, HierarchyStep, BallotStep, BranchStep, KhuralStep, electVars,
           add_citizen_to_arbad, promote_leader, create_election, cast_vote,
           elect_branch_council, confirm_branch_council, confirm_supreme_leader,
           reset_ballot, ResetKhural, ResetBranch, elect_khural_chairman,
           confirm_khural_chairman, supremeVars
  <2>6. QED BY <2>2, <2>3, <2>4, <2>5
<1>4. KhuralTallies'
  <2>1. CASE UNCHANGED <<khuralVotes, khuralVoteCounts>>
    BY <1>0, <2>1 DEF KhuralTallies, CountsVotes
  <2>2. ASSUME NEW voter \in People, NEW c \in People, elect_khural_chairman(voter, c)
        PROVE  KhuralTallies'
    <3>1. khuralVotes \in Ballots /\ khuralVoteCounts \in Tallies
      BY DEF ElectTypeOK
    <3>2. /\ khuralVotes[voter] = None
          /\ khuralVotes' = [khuralVotes EXCEPT ![voter] = c]
          /\ khuralVoteCounts' = [khuralVoteCounts EXCEPT ![c] = @ + 1]
      BY <2>2 DEF elect_khural_chairman, Increment
    <3>3. QED BY <1>0, <3>1, <3>2, CountOneVote DEF KhuralTallies
  <2>3. CASE ResetKhural
    BY <2>3, EmptyBallot DEF ResetKhural, KhuralTallies
  <2>4. \/ UNCHANGED <<khuralVotes, khuralVoteCounts>>
        \/ \E voter, c \in People : elect_khural_chairman(voter, c)
        \/ ResetKhural
    BY DEF ElectNext, HierarchyStep, BallotStep, BranchStep, KhuralStep, electVars,
           add_citizen_to_arbad, promote_leader, create_election, cast_vote,
           elect_branch_council, confirm_branch_council, elect_supreme_leader,
           confirm_supreme_leader, reset_ballot, ResetBranch, confirm_khural_chairman,
           khuralVars
  <2>5. QED BY <2>1, <2>2, <2>3, <2>4
<1>5. QED
  BY <1>1, <1>2, <1>3, <1>4
  DEF TalliesAgree, ElectionTallies, CouncilTallies, SupremeTallies, KhuralTallies

-----------------------------------------------------------------------------
(* The counter of candidates                                               *)

\* The candidates of a tally.
Standing(tally) == {c \in People : tally[c] > 0}

\* One more vote adds the candidate to those who stand, if it was not there.
LEMMA StandingGrows ==
    ASSUME NEW tally \in Tallies, NEW c \in People
    PROVE  Cardinality(Standing([tally EXCEPT ![c] = @ + 1])) =
             IF tally[c] = 0 THEN Cardinality(Standing(tally)) + 1
                             ELSE Cardinality(Standing(tally))
<1>1. Standing([tally EXCEPT ![c] = @ + 1]) = Standing(tally) \cup {c}
  BY DEF Standing, Tallies
<1>2. IsFiniteSet(Standing(tally))
  BY FS_Subset, ElectionsAssumption DEF Standing
<1>3. c \in Standing(tally) <=> tally[c] # 0
  BY DEF Standing, Tallies
<1>4. QED BY <1>1, <1>2, <1>3, FS_AddElement

\* Nobody stands in an empty tally.
LEMMA NobodyStands == Cardinality(Standing(NoCounts)) = 0
  BY FS_EmptySet DEF Standing, NoCounts

\* No branch starts with candidates.
LEMMA CandidatesInit == ElectInit => CandidatesCounted
<1> SUFFICES ASSUME ElectInit, NEW b \in GovernmentBranch
             PROVE  /\ branchCandidateCount[b] = Cardinality(Standing(branchVoteCounts[b]))
                    /\ branchCandidateCount[b] <= MaxBranchCandidates
  BY DEF CandidatesCounted, Standing
<1>1. branchVoteCounts[b] = NoCounts /\ branchCandidateCount[b] = 0
  BY DEF ElectInit
<1>2. QED BY <1>1, NobodyStands, ElectionsAssumption

\* Votes and resets keep the counter of candidates right.
LEMMA CandidatesNext ==
    ElectTypeOK /\ CandidatesCounted /\ [ElectNext]_electVars => CandidatesCounted'
<1> SUFFICES ASSUME ElectTypeOK, CandidatesCounted, [ElectNext]_electVars
             PROVE  CandidatesCounted'
  OBVIOUS
<1> DEFINE B == GovernmentBranch
           Right(b, n, t) == n = Cardinality(Standing(t)) /\ n <= MaxBranchCandidates
<1>0. \A b \in B : Right(b, branchCandidateCount[b], branchVoteCounts[b])
  BY DEF CandidatesCounted, Standing
<1>1. SUFFICES \A b \in B : Right(b, branchCandidateCount'[b], branchVoteCounts'[b])
  BY DEF CandidatesCounted, Standing
<1>2. CASE UNCHANGED <<branchVoteCounts, branchCandidateCount>>
  BY <1>0, <1>2
<1>3. ASSUME NEW b \in B, NEW voter \in People, NEW c \in People,
             elect_branch_council(voter, b, c), NEW d \in B
      PROVE  Right(d, branchCandidateCount'[d], branchVoteCounts'[d])
  <2>1. branchVoteCounts \in [B -> Tallies] /\ branchCandidateCount \in [B -> Nat]
    BY DEF ElectTypeOK
  <2>2. CASE d = b
    <3>1. branchVoteCounts[b] \in Tallies
      BY <2>1
    <3>2. branchVoteCounts'[b] = [branchVoteCounts[b] EXCEPT ![c] = @ + 1]
      BY <1>3, <2>1 DEF elect_branch_council
    <3>3. branchCandidateCount'[b] = CandidatesWith(b, c)
      BY <1>3, <2>1 DEF elect_branch_council
    <3>4. CandidatesWith(b, c) <= MaxBranchCandidates
      BY <1>0, <1>3 DEF elect_branch_council, CandidatesWith
    <3>5. CandidatesWith(b, c) =
            Cardinality(Standing([branchVoteCounts[b] EXCEPT ![c] = @ + 1]))
      BY <1>0, <3>1, StandingGrows DEF CandidatesWith
    <3>6. QED BY <2>2, <3>2, <3>3, <3>4, <3>5
  <2>3. CASE d # b
    <3>1. /\ branchVoteCounts'[d] = branchVoteCounts[d]
          /\ branchCandidateCount'[d] = branchCandidateCount[d]
      BY <1>3, <2>1, <2>3 DEF elect_branch_council
    <3>2. QED BY <1>0, <3>1
  <2>4. QED BY <2>2, <2>3
<1>4. ASSUME NEW b \in B, PurgeCouncilBallot(b), NEW d \in B
      PROVE  Right(d, branchCandidateCount'[d], branchVoteCounts'[d])
  <2>1. branchVoteCounts \in [B -> Tallies] /\ branchCandidateCount \in [B -> Nat]
    BY DEF ElectTypeOK
  <2>2. CASE d = b
    <3>1. branchVoteCounts'[d] = NoCounts /\ branchCandidateCount'[d] = 0
      BY <1>4, <2>1, <2>2 DEF PurgeCouncilBallot
    <3>2. QED BY <3>1, NobodyStands, ElectionsAssumption
  <2>3. CASE d # b
    <3>1. /\ branchVoteCounts'[d] = branchVoteCounts[d]
          /\ branchCandidateCount'[d] = branchCandidateCount[d]
      BY <1>4, <2>1, <2>3 DEF PurgeCouncilBallot
    <3>2. QED BY <1>0, <3>1
  <2>4. QED BY <2>2, <2>3
<1>5. \/ UNCHANGED <<branchVoteCounts, branchCandidateCount>>
      \/ \E b \in B, voter, c \in People : elect_branch_council(voter, b, c)
      \/ \E b \in B : PurgeCouncilBallot(b)
  BY DEF ElectNext, HierarchyStep, BallotStep, BranchStep, KhuralStep, electVars,
         add_citizen_to_arbad, promote_leader, create_election, cast_vote,
         confirm_branch_council, elect_supreme_leader, confirm_supreme_leader,
         reset_ballot, ResetKhural, ResetBranch, elect_khural_chairman,
         confirm_khural_chairman, councilVars
<1>6. QED BY <1>2, <1>3, <1>4, <1>5

-----------------------------------------------------------------------------
(* Seats                                                                   *)

\* No branch starts with a council or with votes for its leader.
LEMMA SeatsInit == ElectInit => SeatsHaveVotes
  BY DEF ElectInit, SeatsHaveVotes, is_branch_council_member, NoVotes

\* Votes, confirmations and resets leave no seat without a vote.
LEMMA SeatsNext == ElectTypeOK /\ SeatsHaveVotes /\ [ElectNext]_electVars => SeatsHaveVotes'
<1> SUFFICES ASSUME ElectTypeOK, SeatsHaveVotes, [ElectNext]_electVars,
                    NEW b \in GovernmentBranch, NEW p \in People,
                    is_branch_council_member(b, p)' \/ supremeLeaderVotes'[b][p] # None
             PROVE  branchVoteCounts'[b][p] > 0
  BY DEF SeatsHaveVotes
<1> USE DEF is_branch_council_member
<1>0. is_branch_council_member(b, p) \/ supremeLeaderVotes[b][p] # None
        => branchVoteCounts[b][p] > 0
  BY DEF SeatsHaveVotes
<1>1. branchVoteCounts[b] \in [People -> Nat]
  BY DEF ElectTypeOK, Tallies
<1>2. CASE UNCHANGED <<branchVoteCounts, branchCouncils, supremeLeaderVotes>>
  BY <1>0, <1>2
<1>3. ASSUME NEW d \in GovernmentBranch, NEW voter \in People, NEW c \in People,
             elect_branch_council(voter, d, c)
      PROVE  branchVoteCounts'[b][p] > 0
  <2>1. branchVoteCounts[b][p] > 0
    BY <1>0, <1>3 DEF elect_branch_council, supremeVars
  <2>2. branchVoteCounts \in [GovernmentBranch -> [People -> Nat]]
    BY DEF ElectTypeOK, Tallies
  <2>3. branchVoteCounts' = [branchVoteCounts EXCEPT ![d][c] = @ + 1]
    BY <1>3 DEF elect_branch_council
  <2>5. /\ branchVoteCounts'[b][p] \in Nat
        /\ branchVoteCounts'[b][p] >= branchVoteCounts[b][p]
    BY <1>3, <2>2, <2>3
  <2>4. QED BY <1>1, <2>1, <2>5
<1>4. ASSUME NEW d \in GovernmentBranch, NEW winners \in [1 .. COUNCIL_SIZE -> People],
             confirm_branch_council(d, winners)
      PROVE  branchVoteCounts'[b][p] > 0
  <2>1. branchVoteCounts' = branchVoteCounts /\ supremeLeaderVotes' = supremeLeaderVotes
    BY <1>4 DEF confirm_branch_council, supremeVars
  <2>2. CASE d = b
    <3>1. branchCouncils'[b] = winners
      BY <1>4, <2>2 DEF confirm_branch_council, ElectTypeOK
    <3>2. \A i \in DOMAIN winners : branchVoteCounts[b][winners[i]] > 0
      BY <1>4, <2>2 DEF confirm_branch_council
    <3>3. QED BY <1>0, <2>1, <3>1, <3>2
  <2>3. CASE d # b
    <3>1. branchCouncils'[b] = branchCouncils[b]
      BY <1>4, <2>3 DEF confirm_branch_council, ElectTypeOK
    <3>2. QED BY <1>0, <2>1, <3>1
  <2>4. QED BY <2>2, <2>3
<1>5. ASSUME NEW d \in GovernmentBranch, NEW voter \in People, NEW c \in People,
             elect_supreme_leader(voter, d, c)
      PROVE  branchVoteCounts'[b][p] > 0
  <2>1. branchVoteCounts' = branchVoteCounts /\ branchCouncils' = branchCouncils
    BY <1>5 DEF elect_supreme_leader, councilVars
  <2>2. CASE d = b /\ voter = p
    BY <1>0, <1>5, <2>1, <2>2 DEF elect_supreme_leader
  <2>3. CASE ~(d = b /\ voter = p)
    <3>1. supremeLeaderVotes'[b][p] = supremeLeaderVotes[b][p]
      BY <1>5, <2>3 DEF elect_supreme_leader, ElectTypeOK, Ballots
    <3>2. QED BY <1>0, <2>1, <3>1
  <2>4. QED BY <2>2, <2>3
<1>6. ASSUME NEW d \in GovernmentBranch, ResetBranch(d)
      PROVE  branchVoteCounts'[b][p] > 0
  <2>1. CASE d = b
    <3>1. branchCouncils'[b] = None /\ supremeLeaderVotes'[b] = NoVotes
      BY <1>6, <2>1 DEF ResetBranch, Unseat, PurgeSupremeBallot, ElectTypeOK
    <3>2. QED BY <3>1 DEF NoVotes
  <2>2. CASE d # b
    <3>1. /\ branchCouncils'[b] = branchCouncils[b]
          /\ supremeLeaderVotes'[b] = supremeLeaderVotes[b]
          /\ branchVoteCounts'[b] = branchVoteCounts[b]
      BY <1>6, <2>2
      DEF ResetBranch, Unseat, PurgeSupremeBallot, PurgeCouncilBallot, ElectTypeOK
    <3>2. QED BY <1>0, <3>1
  <2>3. QED BY <2>1, <2>2
<1>7. \/ UNCHANGED <<branchVoteCounts, branchCouncils, supremeLeaderVotes>>
      \/ \E d \in GovernmentBranch, voter, c \in People : elect_branch_council(voter, d, c)
      \/ \E d \in GovernmentBranch, winners \in [1 .. COUNCIL_SIZE -> People] :
            confirm_branch_council(d, winners)
      \/ \E d \in GovernmentBranch, voter, c \in People : elect_supreme_leader(voter, d, c)
      \/ \E d \in GovernmentBranch : ResetBranch(d)
  BY DEF ElectNext, HierarchyStep, BallotStep, BranchStep, KhuralStep, electVars,
         add_citizen_to_arbad, promote_leader, create_election, cast_vote,
         confirm_supreme_leader, reset_ballot, ResetKhural, elect_khural_chairman,
         confirm_khural_chairman, councilVars, supremeVars
<1>8. QED BY <1>2, <1>3, <1>4, <1>5, <1>6, <1>7

-----------------------------------------------------------------------------
(* The hierarchy                                                           *)

\* What makes TumedNeedsFullZone inductive: no zone has leaders of a rank
\* before the rank below them is full.
ZonesFillUpwards ==
    \A z \in Zones :
        /\ zunLeaderCount[z] > 0 => arbadMemberCount[z] >= MinArbadSize
        /\ myangadLeaderCount[z] > 0 => zunLeaderCount[z] >= MinZunLeaders

\* A zone whose three counters have reached their sizes.
FullZone(z) ==
    /\ myangadLeaderCount[z] >= MinMyangadLeaders
    /\ zunLeaderCount[z] >= MinZunLeaders
    /\ arbadMemberCount[z] >= MinArbadSize

\* All zones start empty.
LEMMA ZonesInit == ElectInit => ZonesFillUpwards /\ TumedNeedsFullZone
<1> SUFFICES ASSUME ElectInit
             PROVE  ZonesFillUpwards /\ TumedNeedsFullZone
  OBVIOUS
<1>1. ZonesFillUpwards
  BY DEF ElectInit, ZonesFillUpwards
<1>2. \A p \in People : electedLeaders[p] # "Tumed"
  BY ElectionsAssumption DEF ElectInit, NoVotes, ElectionLevel
<1>3. QED BY <1>1, <1>2 DEF TumedNeedsFullZone

\* Enrolments and promotions fill zones from below.
LEMMA ZonesNext ==
    ElectTypeOK /\ ZonesFillUpwards /\ TumedNeedsFullZone /\ [ElectNext]_electVars
        => ZonesFillUpwards' /\ TumedNeedsFullZone'
<1> SUFFICES ASSUME ElectTypeOK, ZonesFillUpwards, TumedNeedsFullZone,
                    [ElectNext]_electVars
             PROVE  ZonesFillUpwards' /\ TumedNeedsFullZone'
  OBVIOUS
<1>0. /\ arbadMemberCount \in [Zones -> Nat]
      /\ zunLeaderCount \in [Zones -> Nat]
      /\ myangadLeaderCount \in [Zones -> Nat]
      /\ electedLeaders \in [People -> ElectionLevel \cup {None}]
      /\ citizenArbad \in [People -> Zones \cup {None}]
  BY DEF ElectTypeOK
<1>1. CASE UNCHANGED <<zoneVars, electedLeaders>>
  BY <1>1 DEF zoneVars, ZonesFillUpwards, TumedNeedsFullZone
<1>2. ASSUME NEW who \in People, NEW y \in Zones, add_citizen_to_arbad(who, y)
      PROVE  ZonesFillUpwards' /\ TumedNeedsFullZone'
  <2>1. \A z \in Zones : /\ arbadMemberCount'[z] >= arbadMemberCount[z]
                         /\ arbadMemberCount'[z] \in Nat
    BY <1>0, <1>2 DEF add_citizen_to_arbad, Increment
  <2>2. UNCHANGED <<zunLeaderCount, myangadLeaderCount, electedLeaders>>
    BY <1>2 DEF add_citizen_to_arbad
  <2>3. ZonesFillUpwards'
    BY <1>0, <2>1, <2>2, ElectionsAssumption DEF ZonesFillUpwards
  <2>4. \A z \in Zones : FullZone(z) => FullZone(z)'
    BY <1>0, <2>1, <2>2, ElectionsAssumption DEF FullZone
  <2>5. QED BY <2>2, <2>3, <2>4 DEF TumedNeedsFullZone, FullZone
<1>3. ASSUME NEW who \in People, NEW level \in ElectionLevel, NEW y \in Zones \cup {None},
             promote_leader(who, level, y)
      PROVE  ZonesFillUpwards' /\ TumedNeedsFullZone'
  <2>1. \A p \in People : electedLeaders'[p] = IF p = who THEN level ELSE electedLeaders[p]
    BY <1>0, <1>3 DEF promote_leader
  <2>2. CASE level = "Arbad" /\ PromoteToArbad
    <3>1. UNCHANGED zoneVars
      BY <2>2 DEF PromoteToArbad
    <3>2. QED BY <2>1, <2>2, <3>1 DEF zoneVars, ZonesFillUpwards, TumedNeedsFullZone
  <2>3. CASE level = "Zun" /\ PromoteToZun(who)
    <3>1. PICK a \in Zones : /\ arbadMemberCount[a] >= MinArbadSize
                             /\ zunLeaderCount' = Increment(zunLeaderCount, a)
      BY <1>0, <2>3 DEF PromoteToZun
    <3>2. UNCHANGED <<arbadMemberCount, myangadLeaderCount>>
      BY <2>3 DEF PromoteToZun
    <3>3. \A z \in Zones :
             /\ zunLeaderCount'[z] = IF z = a THEN zunLeaderCount[z] + 1 ELSE zunLeaderCount[z]
      BY <1>0, <3>1 DEF Increment
    <3>4. ZonesFillUpwards'
      BY <1>0, <3>1, <3>2, <3>3, ElectionsAssumption DEF ZonesFillUpwards
    <3>5. \A z \in Zones : FullZone(z) => FullZone(z)'
      BY <1>0, <3>2, <3>3, ElectionsAssumption DEF FullZone
    <3>6. QED BY <2>1, <2>3, <3>4, <3>5 DEF TumedNeedsFullZone, FullZone
  <2>4. CASE level = "Myangad" /\ y # None /\ PromoteToMyangad(who, y)
    <3>1. /\ y \in Zones
          /\ zunLeaderCount[y] >= MinZunLeaders
          /\ myangadLeaderCount' = Increment(myangadLeaderCount, y)
          /\ UNCHANGED <<arbadMemberCount, zunLeaderCount>>
      BY <2>4 DEF PromoteToMyangad
    <3>2. \A z \in Zones : myangadLeaderCount'[z] =
             IF z = y THEN myangadLeaderCount[z] + 1 ELSE myangadLeaderCount[z]
      BY <1>0, <3>1 DEF Increment
    <3>3. ZonesFillUpwards'
      BY <1>0, <3>1, <3>2, ElectionsAssumption DEF ZonesFillUpwards
    <3>4. \A z \in Zones : FullZone(z) => FullZone(z)'
      BY <1>0, <3>1, <3>2, ElectionsAssumption DEF FullZone
    <3>5. QED BY <2>1, <2>4, <3>3, <3>4 DEF TumedNeedsFullZone, FullZone
  <2>5. CASE level = "Tumed" /\ y # None /\ PromoteToTumed(y)
    <3>1. UNCHANGED zoneVars /\ y \in Zones /\ myangadLeaderCount[y] >= MinMyangadLeaders
      BY <2>5 DEF PromoteToTumed
    <3>2. ZonesFillUpwards'
      BY <3>1 DEF zoneVars, ZonesFillUpwards
    <3>3. FullZone(y)
      <4>1. myangadLeaderCount[y] > 0
        BY <1>0, <3>1, ElectionsAssumption
      <4>2. zunLeaderCount[y] >= MinZunLeaders
        BY <3>1, <4>1 DEF ZonesFillUpwards
      <4>3. zunLeaderCount[y] > 0
        BY <1>0, <3>1, <4>2, ElectionsAssumption
      <4>4. QED BY <3>1, <4>2, <4>3 DEF ZonesFillUpwards, FullZone
    <3>4. \A z \in Zones : FullZone(z)' <=> FullZone(z)
      BY <3>1 DEF zoneVars, FullZone
    <3>5. QED BY <2>1, <3>1, <3>2, <3>3, <3>4 DEF TumedNeedsFullZone, FullZone
  <2>6. QED BY <1>3, <2>2, <2>3, <2>4, <2>5 DEF promote_leader
<1>4. \/ UNCHANGED <<zoneVars, electedLeaders>>
      \/ \E who \in People, y \in Zones : add_citizen_to_arbad(who, y)
      \/ \E who \in People, level \in ElectionLevel, y \in Zones \cup {None} :
            promote_leader(who, level, y)
  BY DEF ElectNext, HierarchyStep, BallotStep, BranchStep, KhuralStep, electVars,
         create_election, cast_vote, elect_branch_council, confirm_branch_council,
         elect_supreme_leader, confirm_supreme_leader, reset_ballot,
         elect_khural_chairman, confirm_khural_chairman
<1>5. QED BY <1>1, <1>2, <1>3, <1>4

-----------------------------------------------------------------------------
(* Votes and candidate lists                                               *)

\* No election starts with votes.
LEMMA ListsInit == ElectInit => VotesAreForCandidates
  BY DEF ElectInit, VotesAreForCandidates, NoVotes

\* Elections are opened once and votes follow their lists.
LEMMA ListsNext ==
    ElectTypeOK /\ VotesAreForCandidates /\ [ElectNext]_electVars => VotesAreForCandidates'
<1> SUFFICES ASSUME ElectTypeOK, VotesAreForCandidates, [ElectNext]_electVars,
                    NEW e \in ElectionIds, NEW v \in People, votes'[e][v] # None
             PROVE  elections'[e] # None /\ votes'[e][v] \in elections'[e].candidates
  BY DEF VotesAreForCandidates
<1>0. votes[e][v] # None => elections[e] # None /\ votes[e][v] \in elections[e].candidates
  BY DEF VotesAreForCandidates
<1>1. CASE UNCHANGED <<elections, votes>>
  BY <1>0, <1>1
<1>2. ASSUME NEW f \in ElectionIds, NEW level \in ElectionLevel, NEW c \in SUBSET People,
             create_election(f, level, c)
      PROVE  elections'[e] # None /\ votes'[e][v] \in elections'[e].candidates
  BY <1>0, <1>2 DEF create_election, ElectTypeOK
<1>3. ASSUME NEW f \in ElectionIds, NEW voter \in People, NEW c \in People,
             cast_vote(voter, f, c)
      PROVE  elections'[e] # None /\ votes'[e][v] \in elections'[e].candidates
  <2>1. elections' = elections
    BY <1>3 DEF cast_vote
  <2>2. CASE f = e /\ voter = v
    <3>1. votes'[e][v] = c
      BY <1>3, <2>2 DEF cast_vote, ElectTypeOK, Ballots
    <3>2. QED BY <1>3, <2>1, <2>2, <3>1 DEF cast_vote
  <2>3. CASE ~(f = e /\ voter = v)
    <3>1. votes'[e][v] = votes[e][v]
      BY <1>3, <2>3 DEF cast_vote, ElectTypeOK, Ballots
    <3>2. QED BY <1>0, <2>1, <3>1
  <2>4. QED BY <2>2, <2>3
<1>4. \/ UNCHANGED <<elections, votes>>
      \/ \E f \in ElectionIds, level \in ElectionLevel, c \in SUBSET People :
            create_election(f, level, c)
      \/ \E f \in ElectionIds, voter, c \in People : cast_vote(voter, f, c)
  BY DEF ElectNext, HierarchyStep, BallotStep, BranchStep, KhuralStep, electVars,
         add_citizen_to_arbad, promote_leader, elect_branch_council,
         confirm_branch_council, elect_supreme_leader, confirm_supreme_leader,
         reset_ballot, elect_khural_chairman, confirm_khural_chairman, ballotVars
<1>5. QED BY <1>1, <1>2, <1>3, <1>4

-----------------------------------------------------------------------------
(* The theorems                                                            *)

\* What holds in every reachable state of inomad-elections.
ElectInv ==
    /\ ElectTypeOK
    /\ TalliesAgree
    /\ CandidatesCounted
    /\ SeatsHaveVotes
    /\ ZonesFillUpwards
    /\ TumedNeedsFullZone
    /\ VotesAreForCandidates

\* Every sequence of calls of inomad-elections keeps the invariant above.
THEOREM ElectionInvariance == ElectSpec => []ElectInv
<1>1. ElectInit => ElectInv
  BY TypeInit, TalliesInit, CandidatesInit, SeatsInit, ZonesInit, ListsInit DEF ElectInv
<1>2. ElectInv /\ [ElectNext]_electVars => ElectInv'
  BY TypeNext, TalliesNext, CandidatesNext, SeatsNext, ZonesNext, ListsNext DEF ElectInv
<1>3. QED BY <1>1, <1>2, PTL DEF ElectSpec

\* Every storage item of inomad-elections keeps its type: in particular a
\* confirmed chairman always has an Arbad.
THEOREM TypeCorrect == ElectSpec => []ElectTypeOK
<1>1. ElectInv => ElectTypeOK
  BY DEF ElectInv
<1>2. QED BY <1>1, ElectionInvariance, PTL

\* Every published tally is the number of votes on record, for every
\* electorate and through every reset_ballot.
THEOREM TalliesAreVotes == ElectSpec => []TalliesAgree
<1>1. ElectInv => TalliesAgree
  BY DEF ElectInv
<1>2. QED BY <1>1, ElectionInvariance, PTL

\* The counter that bounds the candidates of a branch counts them.
THEOREM CandidatesAreBounded == ElectSpec => []CandidatesCounted
<1>1. ElectInv => CandidatesCounted
  BY DEF ElectInv
<1>2. QED BY <1>1, ElectionInvariance, PTL

\* Votes, tallies and candidate counters agree after every call and reset.
THEOREM BallotsStayInStep == ElectSpec => []BallotsAgree
<1>1. TalliesAgree /\ CandidatesCounted => BallotsAgree
  BY DEF BallotsAgree
<1>2. QED BY <1>1, TalliesAreVotes, CandidatesAreBounded, PTL

\* Members of a council, and past voters of its leader, have votes on record.
THEOREM SeatsAreElected == ElectSpec => []SeatsHaveVotes
<1>1. ElectInv => SeatsHaveVotes
  BY DEF ElectInv
<1>2. QED BY <1>1, ElectionInvariance, PTL

\* promote_leader makes a Tumed leader only on top of a full zone, for all
\* constitutional sizes.
THEOREM TumedStandsOnFullZone == ElectSpec => []TumedNeedsFullZone
<1>1. ElectInv => TumedNeedsFullZone
  BY DEF ElectInv
<1>2. QED BY <1>1, ElectionInvariance, PTL

\* No recorded vote is for somebody outside the stored candidate list.
THEOREM VotesFollowLists == ElectSpec => []VotesAreForCandidates
<1>1. ElectInv => VotesAreForCandidates
  BY DEF ElectInv
<1>2. QED BY <1>1, ElectionInvariance, PTL


-----------------------------------------------------------------------------
(* The units of the people, in the composition of MCIdentity.              *)

\* A citizen's record.
Person(r) ==
    r = [citizen_id |-> r.citizen_id, nation_id |-> r.nation_id, role |-> r.role,
         status |-> r.status, verification |-> r.verification,
         vesting_level |-> r.vesting_level, branch |-> r.branch,
         khural_terms_served |-> r.khural_terms_served,
         citizenship_status |-> r.citizenship_status]

\* The record s is r after a change of anything but the nation and the terms.
SamePerson(r, s) ==
    /\ Person(s)
    /\ s.nation_id = r.nation_id
    /\ s.khural_terms_served = r.khural_terms_served

\* The calls that change one field of a record keep the nation and the terms.
LEMMA FieldsChange ==
    ASSUME NEW r, Person(r), NEW x
    PROVE  /\ SamePerson(r, r)
           /\ SamePerson(r, [r EXCEPT !.role = x])
           /\ SamePerson(r, [r EXCEPT !.status = x])
           /\ SamePerson(r, [r EXCEPT !.branch = x])
           /\ SamePerson(r, [r EXCEPT !.vesting_level = x])
           /\ SamePerson(r, [r EXCEPT !.verification = x])
           /\ SamePerson(r, [r EXCEPT !.citizenship_status = x])
<1>1. SamePerson(r, r)
  BY DEF SamePerson
<1>2. SamePerson(r, [r EXCEPT !.role = x])
  BY DEF SamePerson, Person
<1>3. SamePerson(r, [r EXCEPT !.status = x])
  BY DEF SamePerson, Person
<1>4. SamePerson(r, [r EXCEPT !.branch = x])
  BY DEF SamePerson, Person
<1>5. SamePerson(r, [r EXCEPT !.vesting_level = x])
  BY DEF SamePerson, Person
<1>6. SamePerson(r, [r EXCEPT !.verification = x])
  BY DEF SamePerson, Person
<1>7. SamePerson(r, [r EXCEPT !.citizenship_status = x])
  BY DEF SamePerson, Person
<1> QED BY <1>1, <1>2, <1>3, <1>4, <1>5, <1>6, <1>7

\* The record r with the role and a further term.
Serves(r, role) == [r EXCEPT !.role = role, !.khural_terms_served = r.khural_terms_served + 1]

\* A further term changes the role and the terms only.
LEMMA TermServed ==
    ASSUME NEW r, Person(r), NEW role
    PROVE  /\ Person(Serves(r, role))
           /\ Serves(r, role).nation_id = r.nation_id
           /\ Serves(r, role).khural_terms_served = r.khural_terms_served + 1
<1> DEFINE t == [r EXCEPT !.role = role]
           k == r.khural_terms_served + 1
           s == [t EXCEPT !.khural_terms_served = k]
<1>1. SamePerson(r, t)
  BY FieldsChange
<1>2. s = Serves(r, role)
  BY DEF Person, Serves
<1> HIDE DEF t, k
<1>3. Person(s) /\ s.nation_id = t.nation_id /\ s.khural_terms_served = k
  BY <1>1 DEF Person, SamePerson
<1> HIDE DEF s
<1> QED BY <1>1, <1>2, <1>3 DEF SamePerson, k

-----------------------------------------------------------------------------
\* Everybody keeps the nation, those in S serve one more term, and who is new has served none.
PeopleChange(S) ==
    /\ citizens' = [c \in DOMAIN citizens' |-> citizens'[c]]
    /\ DOMAIN citizens \subseteq DOMAIN citizens'
    /\ \A c \in DOMAIN citizens' : Person(citizens'[c])
    /\ \A c \in DOMAIN citizens :
          /\ citizens'[c].nation_id = citizens[c].nation_id
          /\ citizens'[c].khural_terms_served =
                IF c \in S THEN citizens[c].khural_terms_served + 1
                ELSE citizens[c].khural_terms_served
    /\ \A c \in DOMAIN citizens' \ DOMAIN citizens :
          citizens'[c].khural_terms_served = 0 /\ citizens'[c].nation_id \in 0 .. 79

\* The register is a map of records.
PeopleOK ==
    /\ citizens = [c \in DOMAIN citizens |-> citizens[c]]
    /\ \A c \in DOMAIN citizens : Person(citizens[c]) /\ citizens[c].nation_id \in 0 .. 79

\* The record of a unit.
UnitRecord ==
    [leader : Citizens, parts : SUBSET (Citizens \cup Nat), nation_id : 0 .. 79,
     branch : BranchOfPower \cup {"None"}]

\* The units of each kind are numbered, and the storage has its three maps.
UnitsShape(us) ==
    /\ us = [of |-> us.of, led |-> us.led, lastLeave |-> us.lastLeave]
    /\ us.of = [k \in UnitKind |-> us.of[k]]
    /\ us.led = [k \in UnitKind |-> us.led[k]]
    /\ \A k \in UnitKind : \E n \in Nat : us.of[k] \in Numbered(n, UnitRecord)

\* Leaders and the members of Arbads are registered, and the other parts are units.
PartsExist ==
    /\ \A k \in UnitKind : \A i \in DOMAIN units.of[k] : units.of[k][i].leader \in DOMAIN citizens
    /\ \A i \in DOMAIN units.of["Arbad"] : units.of["Arbad"][i].parts \subseteq DOMAIN citizens
    /\ \A k \in DOMAIN Below : \A i \in DOMAIN units.of[k] :
          units.of[k][i].parts \subseteq DOMAIN units.of[Below[k]]

\* The units are numbered, stand on what exists, and agree with the register and the terms.
UnitsInv ==
    /\ PeopleOK
    /\ UnitsShape(units)
    /\ PartsExist
    /\ UnitsAreRooted
    /\ TermsAreCounted

\* What a new unit brings to the storage.
NewUnit(kind, id, unit) ==
    /\ OneMore(units.of[kind], units'.of[kind], id, unit)
    /\ units'.led[kind] = Put(units.led[kind], unit.leader, id)
    /\ \A k \in UnitKind \ {kind} : units'.of[k] = units.of[k] /\ units'.led[k] = units.led[k]

\* A new unit gets an identifier of its own and disturbs no other.
LEMMA UnitIsNew ==
    ASSUME UnitsShape(units), NEW kind \in UnitKind, NEW unit \in UnitRecord, Formed(kind, unit)
    PROVE  /\ UnitsShape(units')
           /\ \E id \in Nat : NewUnit(kind, id, unit)
<1>1. PICK n \in Nat : units.of[kind] \in Numbered(n, UnitRecord)
  BY DEF UnitsShape
<1> DEFINE id == FreshId(units.of[kind])
           o  == Put(units.of[kind], id, unit)
           l  == Put(units.led[kind], unit.leader, id)
<1>2. /\ id = n /\ OneMore(units.of[kind], o, id, unit)
      /\ n + 1 \in Nat /\ o \in Numbered(n + 1, UnitRecord)
  BY <1>1, FreshRecord
<1>3. units' = [units EXCEPT !.of[kind] = o, !.led[kind] = l]
  BY DEF Formed
<1> HIDE DEF id, o, l
<1>4. /\ units' = [of |-> units'.of, led |-> units'.led, lastLeave |-> units'.lastLeave]
      /\ units'.of = [units.of EXCEPT ![kind] = o]
      /\ units'.led = [units.led EXCEPT ![kind] = l]
  BY <1>3 DEF UnitsShape
<1>5. /\ units'.of[kind] = o /\ units'.led[kind] = l
      /\ \A k \in UnitKind \ {kind} : units'.of[k] = units.of[k] /\ units'.led[k] = units.led[k]
      /\ units'.of = [k \in UnitKind |-> units'.of[k]]
      /\ units'.led = [k \in UnitKind |-> units'.led[k]]
  BY <1>4 DEF UnitsShape
<1>6. \A k \in UnitKind : \E m \in Nat : units'.of[k] \in Numbered(m, UnitRecord)
  BY <1>2, <1>5 DEF UnitsShape
<1>7. UnitsShape(units')
  BY <1>4, <1>5, <1>6 DEF UnitsShape
<1>8. NewUnit(kind, id, unit) /\ id \in Nat
  BY <1>2, <1>5 DEF NewUnit, l
<1> QED BY <1>7, <1>8

\* The unit stands on citizens or units of its own nation and branch.
StandsOn(kind, unit) ==
    /\ unit.leader \in DOMAIN citizens
    /\ kind = "Arbad" =>
          /\ unit.parts \subseteq DOMAIN citizens
          /\ \A m \in unit.parts \cup {unit.leader} : citizens[m].nation_id = unit.nation_id
    /\ kind \in DOMAIN Below =>
          /\ unit.parts \subseteq DOMAIN units.of[Below[kind]]
          /\ \A j \in unit.parts :
                /\ units.of[Below[kind]][j].nation_id = unit.nation_id
                /\ kind \in {"Tumed", "Khural"} => units.of[Below[kind]][j].branch = unit.branch

\* Who serves a further term by leading a new unit of the kind.
Serving(kind, unit) == IF kind \in {"Khural", "Confederation"} THEN {unit.leader} ELSE {}

\* The units of one kind that c leads.
LedBy(of, c) == {i \in DOMAIN of : of[i].leader = c}

\* The terms of c are the Khurals and Confederations that c leads, at most two.
TermsOf(us, c, terms) ==
    /\ terms = Cardinality(LedBy(us.of["Khural"], c))
                 + Cardinality(LedBy(us.of["Confederation"], c))
    /\ terms <= 2

\* TermsAreCounted in these words.
LEMMA TermsInWords ==
    TermsAreCounted <=>
        \A c \in DOMAIN citizens : TermsOf(units, c, citizens[c].khural_terms_served)
BY DEF TermsAreCounted, TermsOf, LedBy

\* A citizen leads one unit more of the kind, if it is the leader of the new one.
LEMMA LedOneMore ==
    ASSUME NEW n \in Nat, NEW f, f \in Numbered(n, UnitRecord), NEW g, NEW id, NEW unit,
           OneMore(f, g, id, unit), NEW c
    PROVE  /\ Cardinality(LedBy(f, c)) \in Nat
           /\ Cardinality(LedBy(g, c)) =
                IF c = unit.leader THEN Cardinality(LedBy(f, c)) + 1 ELSE Cardinality(LedBy(f, c))
<1>1. IsFiniteSet(LedBy(f, c))
  BY RecordsAreTyped, FS_Subset DEF LedBy
<1>2. id \notin LedBy(f, c)
  BY DEF OneMore, LedBy
<1>3. CASE c = unit.leader
  <2>1. LedBy(g, c) = LedBy(f, c) \cup {id}
    BY <1>3 DEF OneMore, LedBy
  <2> QED BY <1>1, <1>2, <1>3, <2>1, FS_AddElement, FS_CardinalityType
<1>4. CASE c # unit.leader
  <2>1. LedBy(g, c) = LedBy(f, c)
    BY <1>4 DEF OneMore, LedBy
  <2> QED BY <1>1, <1>4, <2>1, FS_CardinalityType
<1> QED BY <1>3, <1>4

\* The new unit is linked to its leader, and the other links are untouched.
LEMMA NewUnitIsRooted ==
    ASSUME UnitsInv, NEW kind \in UnitKind, NEW id \in Nat, NEW unit \in UnitRecord,
           NewUnit(kind, id, unit), StandsOn(kind, unit), PeopleChange(Serving(kind, unit))
    PROVE  PartsExist' /\ UnitsAreRooted'
<1>1. \A k \in UnitKind : \A i \in DOMAIN units.of[k] :
          i \in DOMAIN units'.of[k] /\ units'.of[k][i] = units.of[k][i]
  BY DEF NewUnit, OneMore
<1>2. \A k \in UnitKind : \A i \in DOMAIN units'.of[k] :
          i \in DOMAIN units.of[k] \/ (k = kind /\ i = id /\ units'.of[k][i] = unit)
  BY DEF NewUnit, OneMore
<1>3. \A c \in DOMAIN citizens :
          c \in DOMAIN citizens' /\ citizens'[c].nation_id = citizens[c].nation_id
  BY DEF PeopleChange
<1>4. /\ DOMAIN Below = {"Zun", "Myangad", "Tumed", "Khural"}
      /\ \A k \in DOMAIN Below : k \in UnitKind /\ Below[k] \in UnitKind
  BY DEF Below, UnitKind
<1>5. "Arbad" \in UnitKind
  BY DEF UnitKind
<1>6. PartsExist'
  <2>1. \A k \in UnitKind : \A i \in DOMAIN units'.of[k] :
            units'.of[k][i].leader \in DOMAIN citizens'
    BY <1>1, <1>2, <1>3 DEF UnitsInv, PartsExist, StandsOn
  <2>2. \A i \in DOMAIN units'.of["Arbad"] : units'.of["Arbad"][i].parts \subseteq DOMAIN citizens'
    BY <1>1, <1>2, <1>3, <1>5 DEF UnitsInv, PartsExist, StandsOn
  <2>3. \A k \in DOMAIN Below : \A i \in DOMAIN units'.of[k] :
            units'.of[k][i].parts \subseteq DOMAIN units'.of[Below[k]]
    BY <1>1, <1>2, <1>4 DEF UnitsInv, PartsExist, StandsOn
  <2> QED BY <2>1, <2>2, <2>3 DEF PartsExist
<1>7. \A k \in UnitKind : \A who \in DOMAIN units'.led[k] :
          /\ units'.led[k][who] \in DOMAIN units'.of[k]
          /\ units'.of[k][units'.led[k][who]].leader = who
  <2> SUFFICES ASSUME NEW k \in UnitKind, NEW who \in DOMAIN units'.led[k]
               PROVE  /\ units'.led[k][who] \in DOMAIN units'.of[k]
                      /\ units'.of[k][units'.led[k][who]].leader = who
    OBVIOUS
  <2>1. CASE k = kind /\ who = unit.leader
    BY <2>1 DEF NewUnit, OneMore, Put
  <2>2. CASE ~(k = kind /\ who = unit.leader)
    <3>1. who \in DOMAIN units.led[k] /\ units'.led[k][who] = units.led[k][who]
      BY <2>2 DEF NewUnit, Put
    <3> QED BY <1>1, <3>1 DEF UnitsInv, UnitsAreRooted
  <2> QED BY <2>1, <2>2
<1>8. \A i \in DOMAIN units'.of["Arbad"] :
          \A m \in units'.of["Arbad"][i].parts \cup {units'.of["Arbad"][i].leader} :
              citizens'[m].nation_id = units'.of["Arbad"][i].nation_id
  BY <1>1, <1>2, <1>3, <1>5 DEF UnitsInv, PartsExist, UnitsAreRooted, StandsOn
<1>9. \A k \in DOMAIN Below : \A i \in DOMAIN units'.of[k] : \A j \in units'.of[k][i].parts :
          /\ units'.of[Below[k]][j].nation_id = units'.of[k][i].nation_id
          /\ k \in {"Tumed", "Khural"} => units'.of[Below[k]][j].branch = units'.of[k][i].branch
  BY <1>1, <1>2, <1>4 DEF UnitsInv, PartsExist, UnitsAreRooted, StandsOn
<1> QED BY <1>6, <1>7, <1>8, <1>9 DEF UnitsAreRooted

\* A new Khural or Confederation is a further term of its leader, and no unit of another kind is.
LEMMA NewUnitIsCounted ==
    ASSUME UnitsInv, NEW kind \in UnitKind, NEW id \in Nat, NEW unit \in UnitRecord,
           NewUnit(kind, id, unit), unit.leader \in DOMAIN citizens,
           PeopleChange(Serving(kind, unit)),
           kind \in {"Khural", "Confederation"} => WithinTermLimit(unit.leader)
    PROVE  TermsAreCounted'
<1> SUFFICES ASSUME NEW c \in DOMAIN citizens'
             PROVE  TermsOf(units', c, citizens'[c].khural_terms_served)
  BY DEF TermsAreCounted, TermsOf, LedBy
<1>1. {"Khural", "Confederation"} \subseteq UnitKind
  BY DEF UnitKind
<1>2. \A k \in {"Khural", "Confederation"} :
          /\ Cardinality(LedBy(units.of[k], c)) \in Nat
          /\ Cardinality(LedBy(units'.of[k], c)) =
                IF k = kind /\ c = unit.leader THEN Cardinality(LedBy(units.of[k], c)) + 1
                ELSE Cardinality(LedBy(units.of[k], c))
  <2> SUFFICES ASSUME NEW k \in {"Khural", "Confederation"}
               PROVE  /\ Cardinality(LedBy(units.of[k], c)) \in Nat
                      /\ Cardinality(LedBy(units'.of[k], c)) =
                            IF k = kind /\ c = unit.leader
                            THEN Cardinality(LedBy(units.of[k], c)) + 1
                            ELSE Cardinality(LedBy(units.of[k], c))
    OBVIOUS
  <2>1. PICK n \in Nat : units.of[k] \in Numbered(n, UnitRecord)
    BY <1>1 DEF UnitsInv, UnitsShape
  <2>2. CASE k = kind
    BY <2>1, <2>2, LedOneMore DEF NewUnit
  <2>3. CASE k # kind
    <3>1. units'.of[k] = units.of[k]
      BY <1>1, <2>3 DEF NewUnit
    <3>2. Cardinality(LedBy(units.of[k], c)) \in Nat
      BY <2>1, RecordsAreTyped, FS_Subset, FS_CardinalityType DEF LedBy
    <3> QED BY <2>3, <3>1, <3>2
  <2> QED BY <2>2, <2>3
<1>3. CASE c \in DOMAIN citizens
  <2>1. TermsOf(units, c, citizens[c].khural_terms_served)
    BY <1>3, TermsInWords DEF UnitsInv
  <2>2. c \in Serving(kind, unit) => citizens[c].khural_terms_served < 2
    BY DEF Serving, WithinTermLimit
  <2>3. citizens'[c].khural_terms_served =
          IF c \in Serving(kind, unit) THEN citizens[c].khural_terms_served + 1
          ELSE citizens[c].khural_terms_served
    BY <1>3 DEF PeopleChange
  <2> QED BY <1>2, <2>1, <2>2, <2>3 DEF TermsOf, Serving
<1>4. CASE c \notin DOMAIN citizens
  <2>1. \A k \in {"Khural", "Confederation"} : LedBy(units.of[k], c) = {}
    BY <1>1, <1>4 DEF UnitsInv, PartsExist, LedBy
  <2>2. c # unit.leader
    BY <1>4
  <2>3. citizens'[c].khural_terms_served = 0
    BY <1>4 DEF PeopleChange
  <2> QED BY <1>2, <2>1, <2>2, <2>3, FS_EmptySet DEF TermsOf
<1> QED BY <1>3, <1>4

\* Calls that found a unit preserve the invariant.
LEMMA UnitIsFounded ==
    ASSUME UnitsInv, NEW kind \in UnitKind, NEW unit \in UnitRecord, Formed(kind, unit),
           StandsOn(kind, unit), PeopleChange(Serving(kind, unit)),
           kind \in {"Khural", "Confederation"} => WithinTermLimit(unit.leader)
    PROVE  UnitsInv'
<1>1. UnitsShape(units') /\ \E id \in Nat : NewUnit(kind, id, unit)
  BY UnitIsNew DEF UnitsInv
<1>2. PICK id \in Nat : NewUnit(kind, id, unit)
  BY <1>1
<1>3. PartsExist' /\ UnitsAreRooted'
  BY <1>2, NewUnitIsRooted
<1>4. TermsAreCounted'
  BY <1>2, NewUnitIsCounted DEF StandsOn
<1>5. PeopleOK'
  BY DEF UnitsInv, PeopleOK, PeopleChange
<1> QED BY <1>1, <1>3, <1>4, <1>5 DEF UnitsInv

\* Calls on the register that touch no unit preserve the invariant.
LEMMA RegisterChanges ==
    ASSUME UnitsInv, PeopleChange({}), units' = units
    PROVE  UnitsInv'
<1>1. \A c \in DOMAIN citizens :
          /\ c \in DOMAIN citizens'
          /\ citizens'[c].nation_id = citizens[c].nation_id
          /\ citizens'[c].khural_terms_served = citizens[c].khural_terms_served
  BY DEF PeopleChange
<1>2. PeopleOK'
  BY DEF UnitsInv, PeopleOK, PeopleChange
<1>3. PartsExist'
  BY <1>1 DEF UnitsInv, PartsExist
<1>4. UnitsAreRooted'
  <2>1. "Arbad" \in UnitKind
    BY DEF UnitKind
  <2> QED BY <1>1, <2>1 DEF UnitsInv, PartsExist, UnitsAreRooted
<1>5. TermsAreCounted'
  <2> SUFFICES ASSUME NEW c \in DOMAIN citizens'
               PROVE  TermsOf(units, c, citizens'[c].khural_terms_served)
    BY DEF TermsAreCounted, TermsOf, LedBy
  <2>1. CASE c \in DOMAIN citizens
    BY <1>1, <2>1, TermsInWords DEF UnitsInv
  <2>2. CASE c \notin DOMAIN citizens
    <3>1. {"Khural", "Confederation"} \subseteq UnitKind
      BY DEF UnitKind
    <3>2. \A k \in {"Khural", "Confederation"} : LedBy(units.of[k], c) = {}
      BY <2>2, <3>1 DEF UnitsInv, PartsExist, LedBy
    <3>3. citizens'[c].khural_terms_served = 0
      BY <2>2 DEF PeopleChange
    <3> QED BY <3>2, <3>3, FS_EmptySet DEF TermsOf
  <2> QED BY <2>1, <2>2
<1> QED BY <1>2, <1>3, <1>4, <1>5 DEF UnitsInv

\* Records that are changed one by one, in nothing that units or terms depend on.
LEMMA RecordsChange ==
    ASSUME PeopleOK, citizens' = [c \in DOMAIN citizens |-> citizens'[c]],
           \A c \in DOMAIN citizens : SamePerson(citizens[c], citizens'[c])
    PROVE  PeopleChange({})
BY DEF PeopleOK, PeopleChange, SamePerson

\* One record is changed, in nothing that units or terms depend on.
LEMMA OneRecordChanges ==
    ASSUME PeopleOK, NEW who \in DOMAIN citizens, NEW rec, SamePerson(citizens[who], rec),
           citizens' = [citizens EXCEPT ![who] = rec]
    PROVE  PeopleChange({})
<1>1. citizens' = [c \in DOMAIN citizens |-> citizens'[c]]
  BY DEF PeopleOK
<1>2. \A c \in DOMAIN citizens : SamePerson(citizens[c], citizens'[c])
  BY DEF PeopleOK, SamePerson
<1> QED BY <1>1, <1>2, RecordsChange

-----------------------------------------------------------------------------
(* The calls that form units.                                              *)

\* The vesting level is raised.
LEMMA RaisedIsSame ==
    ASSUME NEW r, Person(r), NEW level
    PROVE  SamePerson(r, Raised(r, level))
BY FieldsChange DEF Raised

\* The role is given and the vesting level raised.
LEMMA RankedIsSame ==
    ASSUME NEW r, Person(r), NEW role, NEW level
    PROVE  SamePerson(r, Raised([r EXCEPT !.role = role], level))
<1> DEFINE t == [r EXCEPT !.role = role]
<1>1. SamePerson(r, t)
  BY FieldsChange
<1> HIDE DEF t
<1>2. SamePerson(t, Raised(t, level))
  BY <1>1, RaisedIsSame DEF SamePerson
<1>3. SamePerson(r, Raised(t, level))
  BY <1>1, <1>2 DEF SamePerson
<1> QED BY <1>3 DEF t

\* An Arbad's members and leader keep their nations and terms.
LEMMA ArbadRecords ==
    ASSUME PeopleOK, NEW leader, NEW members, citizens' = WithArbad(leader, members)
    PROVE  PeopleChange({})
<1>1. citizens' = [c \in DOMAIN citizens |-> citizens'[c]]
  BY DEF WithArbad
<1>2. ASSUME NEW c \in DOMAIN citizens PROVE SamePerson(citizens[c], citizens'[c])
  <2>1. Person(citizens[c])
    BY DEF PeopleOK
  <2>2. CASE c = leader
    <3>1. citizens'[c] =
            Raised([citizens[c] EXCEPT !.role = "ArbadLeader"], VestingLevel.ArbadMember)
      BY <2>2 DEF WithArbad
    <3> QED BY <2>1, <3>1, RankedIsSame
  <2>3. CASE c # leader
    <3>1. citizens'[c] = Raised(citizens[c], VestingLevel.ArbadMember) \/ citizens'[c] = citizens[c]
      BY <2>3 DEF WithArbad
    <3> QED BY <2>1, <3>1, RaisedIsSame, FieldsChange
  <2> QED BY <2>2, <2>3
<1> QED BY <1>1, <1>2, RecordsChange

\* An Arbad of registered citizens of one nation.
LEMMA ArbadIsFounded ==
    ASSUME UnitsInv, NEW leader \in Citizens, NEW members \in SUBSET Citizens, NEW nation_id,
           leader \in DOMAIN citizens, members \subseteq DOMAIN citizens,
           \A m \in members \cup {leader} : citizens[m].nation_id = nation_id,
           citizens' = WithArbad(leader, members),
           Formed("Arbad", Unit(leader, members, nation_id, "None"))
    PROVE  UnitsInv'
<1> DEFINE u == Unit(leader, members, nation_id, "None")
<1>1. u \in UnitRecord
  BY DEF UnitsInv, PeopleOK, UnitRecord, Unit
<1>2. u.leader = leader /\ u.parts = members /\ u.nation_id = nation_id
  BY DEF Unit
<1>3. Formed("Arbad", u)
  OBVIOUS
<1> HIDE DEF u
<1>4. "Arbad" \in UnitKind /\ "Arbad" \notin DOMAIN Below /\ Serving("Arbad", u) = {}
  BY DEF UnitKind, Below, Serving
<1>5. StandsOn("Arbad", u)
  BY <1>2, <1>4 DEF StandsOn
<1>6. PeopleChange(Serving("Arbad", u))
  BY <1>4, ArbadRecords DEF UnitsInv
<1> QED BY <1>1, <1>3, <1>4, <1>5, <1>6, UnitIsFounded

\* form_arbad and form_family_arbad ask that the members are of the founder's nation.
LEMMA FormArbadStep ==
    ASSUME UnitsInv, NEW c \in Citizens, NEW S \in SUBSET Citizens, form_arbad(c, S)
    PROVE  UnitsInv'
<1>1. c \in DOMAIN citizens /\ S \subseteq DOMAIN citizens
  BY DEF form_arbad, MayFoundArbad, MayJoinArbad, HasRank, IsActiveCitizen, IsRegistered
<1>2. \A m \in S \cup {c} : citizens[m].nation_id = citizens[c].nation_id
  BY DEF form_arbad, MayJoinArbad
<1> QED BY <1>1, <1>2, ArbadIsFounded DEF form_arbad

\* The head of a family leads its Arbad.
LEMMA FormFamilyStep ==
    ASSUME UnitsInv, NEW c \in Citizens, NEW s \in Citizens, NEW h \in Citizens,
           form_family_arbad(c, s, h)
    PROVE  UnitsInv'
<1> DEFINE other == IF h = c THEN s ELSE c
<1>1. /\ h \in DOMAIN citizens /\ {other} \subseteq DOMAIN citizens
      /\ other \in Citizens
  BY DEF form_family_arbad, MayFoundArbad, HasRank, IsActiveCitizen, IsRegistered
<1>2. \A m \in {other} \cup {h} : citizens[m].nation_id = citizens[c].nation_id
  BY DEF form_family_arbad
<1>3. /\ citizens' = WithArbad(h, {other})
      /\ Formed("Arbad", Unit(h, {other}, citizens[c].nation_id, "None"))
  BY DEF form_family_arbad
<1> HIDE DEF other
<1> QED BY <1>1, <1>2, <1>3, ArbadIsFounded

\* Who leaves an Arbad is not its leader, and the others are as before.
LEMMA LeaveArbadStep ==
    ASSUME UnitsInv, NEW c \in Citizens, NEW i, leave_arbad(c, i)
    PROVE  UnitsInv'
<1> DEFINE us   == units.of["Arbad"]
           u    == us[i]
           v    == [u EXCEPT !.parts = @ \ {c}]
           left == Put(units.lastLeave, c, block)
<1>1. i \in DOMAIN us /\ "Arbad" \in UnitKind
  BY DEF leave_arbad, UnitKind
<1>2. PICK n \in Nat : us \in Numbered(n, UnitRecord)
  BY <1>1 DEF UnitsInv, UnitsShape
<1>3. u \in UnitRecord
  BY <1>1, <1>2, RecordsAreTyped
<1>4. /\ v \in UnitRecord /\ v.leader = u.leader /\ v.parts \subseteq u.parts
      /\ v.nation_id = u.nation_id /\ v.branch = u.branch
  BY <1>3 DEF UnitRecord
<1>5. units' = [units EXCEPT !.of["Arbad"][i] = v, !.lastLeave = left]
  BY DEF leave_arbad
<1>6. citizens' = citizens
  BY DEF leave_arbad
<1> HIDE DEF left, v
<1>7. units' = [units EXCEPT !.of["Arbad"] = [us EXCEPT ![i] = v], !.lastLeave = left]
  BY <1>5 DEF UnitsInv, UnitsShape
<1> DEFINE us2 == [us EXCEPT ![i] = v]
<1>8. /\ us2 \in Numbered(n, UnitRecord) /\ DOMAIN us2 = DOMAIN us
      /\ \A j \in DOMAIN us : us2[j] = IF j = i THEN v ELSE us[j]
  BY <1>1, <1>2, <1>4, RecordChanged
<1> HIDE DEF us2
<1>9. /\ units' = [of |-> units'.of, led |-> units'.led, lastLeave |-> units'.lastLeave]
      /\ units'.of = [units.of EXCEPT !["Arbad"] = us2]
      /\ units'.led = units.led
  BY <1>7 DEF UnitsInv, UnitsShape, us2
<1>10. /\ units'.of["Arbad"] = us2
       /\ \A k \in UnitKind \ {"Arbad"} : units'.of[k] = units.of[k]
       /\ units'.of = [k \in UnitKind |-> units'.of[k]]
  BY <1>1, <1>9 DEF UnitsInv, UnitsShape
<1>11. UnitsShape(units')
  BY <1>2, <1>8, <1>9, <1>10 DEF UnitsInv, UnitsShape
<1>12. \A k \in UnitKind : /\ DOMAIN units'.of[k] = DOMAIN units.of[k]
                           /\ \A j \in DOMAIN units.of[k] :
                                 /\ units'.of[k][j].leader = units.of[k][j].leader
                                 /\ units'.of[k][j].nation_id = units.of[k][j].nation_id
                                 /\ units'.of[k][j].branch = units.of[k][j].branch
                                 /\ units'.of[k][j].parts \subseteq units.of[k][j].parts
  <2> SUFFICES ASSUME NEW k \in UnitKind
               PROVE  /\ DOMAIN units'.of[k] = DOMAIN units.of[k]
                      /\ \A j \in DOMAIN units.of[k] :
                            /\ units'.of[k][j].leader = units.of[k][j].leader
                            /\ units'.of[k][j].nation_id = units.of[k][j].nation_id
                            /\ units'.of[k][j].branch = units.of[k][j].branch
                            /\ units'.of[k][j].parts \subseteq units.of[k][j].parts
    OBVIOUS
  <2>1. CASE k = "Arbad"
    BY <1>4, <1>8, <1>10, <2>1
  <2>2. CASE k # "Arbad"
    BY <1>10, <2>2
  <2> QED BY <2>1, <2>2
<1>13. \A k \in DOMAIN Below : k \in UnitKind /\ Below[k] \in UnitKind
  BY DEF Below, UnitKind
<1>14. PartsExist'
  BY <1>1, <1>6, <1>12, <1>13 DEF UnitsInv, PartsExist
<1>15. UnitsAreRooted'
  <2>1. \A k \in UnitKind : \A who \in DOMAIN units'.led[k] :
            /\ units'.led[k][who] \in DOMAIN units'.of[k]
            /\ units'.of[k][units'.led[k][who]].leader = who
    BY <1>9, <1>12 DEF UnitsInv, UnitsAreRooted
  <2>2. \A j \in DOMAIN units'.of["Arbad"] :
            \A m \in units'.of["Arbad"][j].parts \cup {units'.of["Arbad"][j].leader} :
                citizens'[m].nation_id = units'.of["Arbad"][j].nation_id
    BY <1>1, <1>6, <1>12 DEF UnitsInv, UnitsAreRooted
  <2>3. \A k \in DOMAIN Below : \A e \in DOMAIN units'.of[k] : \A j \in units'.of[k][e].parts :
            /\ units'.of[Below[k]][j].nation_id = units'.of[k][e].nation_id
            /\ k \in {"Tumed", "Khural"} => units'.of[Below[k]][j].branch = units'.of[k][e].branch
    BY <1>12, <1>13 DEF UnitsInv, UnitsAreRooted, PartsExist
  <2> QED BY <2>1, <2>2, <2>3 DEF UnitsAreRooted
<1>16. TermsAreCounted'
  <2>1. /\ units'.of["Khural"] = units.of["Khural"]
        /\ units'.of["Confederation"] = units.of["Confederation"]
    BY <1>10 DEF UnitKind
  <2> QED BY <1>6, <2>1 DEF UnitsInv, TermsAreCounted
<1> QED BY <1>6, <1>11, <1>14, <1>15, <1>16 DEF UnitsInv, PeopleOK

\* What a leader who unites units of one kind brings together.
LEMMA UnitedAreUnits ==
    ASSUME UnitsInv, NEW c \in Citizens, NEW kind \in UnitKind, NEW S, MayUnite(c, kind, S)
    PROVE  /\ c \in DOMAIN citizens
           /\ OwnUnit(c, kind) \in UnitRecord
           /\ Together(c, kind, S) \subseteq DOMAIN units.of[kind]
           /\ Together(c, kind, S) \in SUBSET (Citizens \cup Nat)
           /\ \A j \in Together(c, kind, S) :
                 units.of[kind][j].nation_id = OwnUnit(c, kind).nation_id
           /\ \A j \in Together(c, kind, S) :
                 j \in S \/ units.of[kind][j] = OwnUnit(c, kind)
<1>1. units.led[kind][c] \in DOMAIN units.of[kind]
  BY DEF UnitsInv, UnitsAreRooted, MayUnite
<1>2. PICK n \in Nat : units.of[kind] \in Numbered(n, UnitRecord)
  BY DEF UnitsInv, UnitsShape
<1>3. OwnUnit(c, kind) \in UnitRecord
  BY <1>1, <1>2, RecordsAreTyped DEF OwnUnit
<1>4. S \subseteq DOMAIN units.of[kind] /\ DOMAIN units.of[kind] \subseteq Nat
  BY <1>2, RecordsAreTyped DEF MayUnite, OfNation
<1>5. c \in DOMAIN citizens
  BY DEF MayUnite, HasRank, IsActiveCitizen, IsRegistered
<1>6. \A j \in Together(c, kind, S) : j \in S \/ units.of[kind][j] = OwnUnit(c, kind)
  BY DEF Together, OwnUnit
<1>7. \A j \in Together(c, kind, S) : units.of[kind][j].nation_id = OwnUnit(c, kind).nation_id
  BY <1>6 DEF MayUnite, OfNation
<1> QED BY <1>1, <1>3, <1>4, <1>5, <1>6, <1>7 DEF Together

\* A unit of the level above, of the parts that were brought together.
LEMMA UnionIsFounded ==
    ASSUME UnitsInv, NEW c \in Citizens, NEW kind \in {"Zun", "Myangad", "Tumed"}, NEW S,
           NEW nation_id, NEW branch,
           MayUnite(c, Below[kind], S), nation_id = OwnUnit(c, Below[kind]).nation_id,
           branch \in BranchOfPower \cup {"None"},
           kind = "Tumed" => /\ branch = OwnUnit(c, "Myangad").branch
                             /\ \A i \in S : units.of["Myangad"][i].branch = branch,
           PeopleChange({}),
           Formed(kind, Unit(c, Together(c, Below[kind], S), nation_id, branch))
    PROVE  UnitsInv'
<1> DEFINE low  == Below[kind]
           own  == OwnUnit(c, low)
           both == Together(c, low, S)
           u    == Unit(c, both, nation_id, branch)
<1>1. /\ low \in UnitKind /\ kind \in UnitKind /\ kind # "Arbad" /\ kind # "Khural"
      /\ kind \in DOMAIN Below /\ Serving(kind, u) = {} /\ (kind = "Tumed" => low = "Myangad")
      /\ kind \notin {"Khural", "Confederation"}
  BY DEF UnitKind, Below, Serving
<1>2. /\ c \in DOMAIN citizens /\ own \in UnitRecord /\ both \subseteq DOMAIN units.of[low]
      /\ both \in SUBSET (Citizens \cup Nat)
      /\ \A j \in both : units.of[low][j].nation_id = own.nation_id
      /\ \A j \in both : j \in S \/ units.of[low][j] = own
  <2>1. MayUnite(c, low, S)
    OBVIOUS
  <2> HIDE DEF low
  <2> QED BY <1>1, <2>1, UnitedAreUnits
<1>3. nation_id = own.nation_id /\ own.nation_id \in 0 .. 79
  BY <1>2 DEF UnitRecord
<1>4. u \in UnitRecord
  <2> HIDE DEF own, both
  <2> QED BY <1>2, <1>3 DEF UnitRecord, Unit
<1>5. u.leader = c /\ u.parts = both /\ u.nation_id = own.nation_id /\ u.branch = branch
  BY DEF Unit
<1>6. kind = "Tumed" => \A j \in both : units.of[low][j].branch = branch
  BY <1>1, <1>2
<1>7. StandsOn(kind, u)
  <2> HIDE DEF u, both, own
  <2> QED BY <1>1, <1>2, <1>5, <1>6 DEF StandsOn
<1>8. Formed(kind, u)
  OBVIOUS
<1>9. PeopleChange(Serving(kind, u))
  BY <1>1
<1> HIDE DEF u
<1> QED BY <1>1, <1>4, <1>7, <1>8, <1>9, UnitIsFounded

\* A Zun of Arbads of one nation.
LEMMA FormZunStep ==
    ASSUME UnitsInv, NEW c \in Citizens, NEW S, form_zun(c, S)
    PROVE  UnitsInv'
<1>1. Below["Zun"] = "Arbad" /\ "Arbad" \in UnitKind
  BY DEF Below, UnitKind
<1>2. MayUnite(c, "Arbad", S)
  BY DEF form_zun
<1>3. c \in DOMAIN citizens /\ Person(citizens[c])
  BY <1>1, <1>2, UnitedAreUnits DEF UnitsInv, PeopleOK
<1> DEFINE rec == Raised([citizens[c] EXCEPT !.role = "ZunLeader"], VestingLevel.ZunMember)
<1>4. SamePerson(citizens[c], rec)
  BY <1>3, RankedIsSame
<1>5. citizens' = [citizens EXCEPT ![c] = rec]
  BY DEF form_zun
<1> HIDE DEF rec
<1>6. PeopleChange({})
  BY <1>3, <1>4, <1>5, OneRecordChanges DEF UnitsInv
<1>7. Formed("Zun", Unit(c, Together(c, "Arbad", S), OwnUnit(c, "Arbad").nation_id, "None"))
  BY DEF form_zun
<1> QED BY <1>1, <1>2, <1>6, <1>7, UnionIsFounded

\* A new role and branch keep the nation and the terms.
LEMMA RoleAndBranch ==
    ASSUME NEW r, Person(r), NEW role, NEW branch
    PROVE  SamePerson(r, [r EXCEPT !.role = role, !.branch = branch])
<1> DEFINE t == [r EXCEPT !.role = role]
<1>1. SamePerson(r, t)
  BY FieldsChange
<1>2. [t EXCEPT !.branch = branch] = [r EXCEPT !.role = role, !.branch = branch]
  BY DEF Person
<1> HIDE DEF t
<1>3. SamePerson(t, [t EXCEPT !.branch = branch])
  BY <1>1, FieldsChange DEF SamePerson
<1>4. SamePerson(r, [t EXCEPT !.branch = branch])
  BY <1>1, <1>3 DEF SamePerson
<1> QED BY <1>2, <1>4

\* The leader of a Myangad or of a Tumed gets role and branch.
LEMMA LeaderIsRanked ==
    ASSUME PeopleOK, NEW c \in DOMAIN citizens, NEW role, NEW branch,
           citizens' = [citizens EXCEPT ![c].role = role, ![c].branch = branch]
    PROVE  PeopleChange({})
<1> DEFINE rec == [citizens[c] EXCEPT !.role = role, !.branch = branch]
<1>1. SamePerson(citizens[c], rec)
  BY RoleAndBranch DEF PeopleOK
<1>2. citizens' = [citizens EXCEPT ![c] = rec]
  BY DEF PeopleOK
<1> HIDE DEF rec
<1> QED BY <1>1, <1>2, OneRecordChanges

\* A Myangad of Zuns of one nation gets the branch that its former names.
LEMMA FormMyangadStep ==
    ASSUME UnitsInv, NEW c \in Citizens, NEW b \in Branches, NEW S, form_myangad(c, b, S)
    PROVE  UnitsInv'
<1>1. Below["Myangad"] = "Zun" /\ "Zun" \in UnitKind
  BY DEF Below, UnitKind
<1>2. MayUnite(c, "Zun", S) /\ b \in BranchOfPower \cup {"None"}
  BY UnitsAssumption DEF form_myangad
<1>3. c \in DOMAIN citizens
  BY <1>1, <1>2, UnitedAreUnits
<1>4. PeopleChange({})
  BY <1>3, LeaderIsRanked DEF form_myangad, UnitsInv
<1>5. Formed("Myangad", Unit(c, Together(c, "Zun", S), OwnUnit(c, "Zun").nation_id, b))
  BY DEF form_myangad
<1> QED BY <1>1, <1>2, <1>4, <1>5, UnionIsFounded

\* A Tumed of Myangads of one nation and one branch.
LEMMA FormTumedStep ==
    ASSUME UnitsInv, NEW c \in Citizens, NEW S, form_tumed(c, S)
    PROVE  UnitsInv'
<1> DEFINE branch == OwnUnit(c, "Myangad").branch
<1>1. Below["Tumed"] = "Myangad" /\ "Myangad" \in UnitKind
  BY DEF Below, UnitKind
<1>2. MayUnite(c, "Myangad", S)
  BY DEF form_tumed
<1>3. c \in DOMAIN citizens /\ OwnUnit(c, "Myangad") \in UnitRecord
  BY <1>1, <1>2, UnitedAreUnits
<1>4. branch \in BranchOfPower \cup {"None"}
  BY <1>3 DEF UnitRecord
<1>5. \A i \in S : units.of["Myangad"][i].branch = branch
  BY DEF form_tumed
<1>6. PeopleChange({})
  BY <1>3, LeaderIsRanked DEF form_tumed, UnitsInv
<1>7. Formed("Tumed", Unit(c, Together(c, "Myangad", S), OwnUnit(c, "Myangad").nation_id, branch))
  BY DEF form_tumed
<1> QED BY <1>1, <1>2, <1>4, <1>5, <1>6, <1>7, UnionIsFounded

\* The leader of a Khural or of a Confederation serves a further term.
LEMMA LeaderServes ==
    ASSUME PeopleOK, NEW c \in DOMAIN citizens, NEW role,
           citizens' = [citizens EXCEPT ![c].role = role, ![c].khural_terms_served = @ + 1]
    PROVE  PeopleChange({c})
<1> DEFINE rec == Serves(citizens[c], role)
<1>1. /\ Person(rec) /\ rec.nation_id = citizens[c].nation_id
      /\ rec.khural_terms_served = citizens[c].khural_terms_served + 1
  BY TermServed DEF PeopleOK
<1>2. citizens' = [citizens EXCEPT ![c] = rec]
  BY DEF PeopleOK, Serves
<1> HIDE DEF rec
<1> QED BY <1>1, <1>2 DEF PeopleOK, PeopleChange

\* A Khural of Legislative Tumeds of one nation.
LEMMA FormKhuralStep ==
    ASSUME UnitsInv, NEW c \in Citizens, NEW S, form_khural(c, S)
    PROVE  UnitsInv'
<1> DEFINE nation_id == units.of["Tumed"][CHOOSE i \in S : TRUE].nation_id
           u == Unit(c, S, nation_id, "Legislative")
<1>1. /\ Below["Khural"] = "Tumed" /\ {"Tumed", "Khural"} \subseteq UnitKind
      /\ "Khural" \in DOMAIN Below /\ Serving("Khural", u) = {c}
  BY DEF Below, UnitKind, Serving, Unit
<1>2. /\ c \in DOMAIN citizens /\ WithinTermLimit(c) /\ Formed("Khural", u)
      /\ citizens' = [citizens EXCEPT ![c].role = "KhuralDelegate",
                                      ![c].khural_terms_served = @ + 1]
  BY DEF form_khural, HasRank, IsActiveCitizen, IsRegistered
<1>3. /\ S # {} /\ S \subseteq DOMAIN units.of["Tumed"]
      /\ \A i \in S : /\ units.of["Tumed"][i].branch = "Legislative"
                      /\ units.of["Tumed"][i].nation_id = nation_id
  BY DEF form_khural, OfNation
<1>4. PICK n \in Nat : units.of["Tumed"] \in Numbered(n, UnitRecord)
  BY <1>1 DEF UnitsInv, UnitsShape
<1>5. /\ S \in SUBSET (Citizens \cup Nat)
      /\ \A i \in S : units.of["Tumed"][i].nation_id \in 0 .. 79
  BY <1>3, <1>4, RecordsAreTyped DEF UnitRecord
<1>6. nation_id \in 0 .. 79
  BY <1>3, <1>5
<1>7. u.leader = c /\ u.parts = S /\ u.nation_id = nation_id /\ u.branch = "Legislative"
  BY DEF Unit
<1>8. u \in UnitRecord
  <2> HIDE DEF nation_id
  <2> QED BY <1>5, <1>6 DEF UnitRecord, Unit, BranchOfPower
<1> HIDE DEF nation_id, u
<1>9. StandsOn("Khural", u)
  BY <1>1, <1>2, <1>3, <1>7 DEF StandsOn
<1>10. PeopleChange(Serving("Khural", u))
  BY <1>1, <1>2, LeaderServes DEF UnitsInv
<1> QED BY <1>1, <1>2, <1>7, <1>8, <1>9, <1>10, UnitIsFounded

\* A Confederation of Khurals.
LEMMA FormConfederationStep ==
    ASSUME UnitsInv, NEW c \in Citizens, NEW S, form_confederation(c, S)
    PROVE  UnitsInv'
<1> DEFINE u == Unit(c, S, 0, "Legislative")
<1>1. /\ {"Khural", "Confederation"} \subseteq UnitKind
      /\ "Confederation" \notin DOMAIN Below /\ Serving("Confederation", u) = {c}
  BY DEF Below, UnitKind, Serving, Unit
<1>2. /\ c \in DOMAIN citizens /\ WithinTermLimit(c) /\ Formed("Confederation", u)
      /\ S \subseteq DOMAIN units.of["Khural"]
      /\ citizens' = [citizens EXCEPT ![c].role = "ConfederationDelegate",
                                      ![c].khural_terms_served = @ + 1]
  BY DEF form_confederation, HasRank, IsActiveCitizen, IsRegistered
<1>3. PICK n \in Nat : units.of["Khural"] \in Numbered(n, UnitRecord)
  BY <1>1 DEF UnitsInv, UnitsShape
<1>4. S \in SUBSET (Citizens \cup Nat)
  BY <1>2, <1>3, RecordsAreTyped
<1>5. u.leader = c
  BY DEF Unit
<1>6. u \in UnitRecord
  BY <1>4 DEF UnitRecord, Unit, BranchOfPower
<1> HIDE DEF u
<1>7. StandsOn("Confederation", u)
  BY <1>1, <1>2, <1>5 DEF StandsOn
<1>8. PeopleChange(Serving("Confederation", u))
  BY <1>1, <1>2, LeaderServes DEF UnitsInv
<1> QED BY <1>1, <1>2, <1>5, <1>6, <1>7, <1>8, UnitIsFounded

\* Every call that forms or leaves a unit preserves the invariant.
LEMMA UnitSteps ==
    ASSUME UnitsInv, UnitStep
    PROVE  UnitsInv'
<1>1. PICK c \in Citizens :
        \/ \E S \in SUBSET Citizens : form_arbad(c, S)
        \/ \E s, h \in Citizens : form_family_arbad(c, s, h)
        \/ \E i \in DOMAIN units.of["Arbad"] : leave_arbad(c, i)
        \/ \E S \in SomeUnits("Arbad") : form_zun(c, S)
        \/ \E b \in Branches, S \in SomeUnits("Zun") : form_myangad(c, b, S)
        \/ \E S \in SomeUnits("Myangad") : form_tumed(c, S)
        \/ \E S \in SomeUnits("Tumed") : form_khural(c, S)
        \/ \E S \in SomeUnits("Khural") : form_confederation(c, S)
  BY DEF UnitStep
<1> QED BY <1>1, FormArbadStep, FormFamilyStep, LeaveArbadStep, FormZunStep, FormMyangadStep,
           FormTumedStep, FormKhuralStep, FormConfederationStep

-----------------------------------------------------------------------------
(* The other calls on the register, and the blocks.                        *)

\* Two fields of a verified record are new.
LEMMA VerifiedIsSame ==
    ASSUME NEW r, Person(r), NEW x, NEW y
    PROVE  SamePerson(r, [r EXCEPT !.verification = x, !.vesting_level = y])
<1> DEFINE t == [r EXCEPT !.verification = x]
<1>1. SamePerson(r, t)
  BY FieldsChange
<1>2. [t EXCEPT !.vesting_level = y] = [r EXCEPT !.verification = x, !.vesting_level = y]
  BY DEF Person
<1> HIDE DEF t
<1>3. SamePerson(t, [t EXCEPT !.vesting_level = y])
  BY <1>1, FieldsChange DEF SamePerson
<1>4. SamePerson(r, [t EXCEPT !.vesting_level = y])
  BY <1>1, <1>3 DEF SamePerson
<1> QED BY <1>2, <1>4

\* A new record is well formed, and its citizen has served no term.
LEMMA IdentifiedIsPerson ==
    ASSUME NEW id, NEW nation_id, NEW role, NEW status, NEW citizenship
    PROVE  /\ Person(Identified(id, nation_id, role, status, citizenship))
           /\ Identified(id, nation_id, role, status, citizenship).nation_id = nation_id
           /\ Identified(id, nation_id, role, status, citizenship).khural_terms_served = 0
BY DEF Person, Identified

\* Who is registered brings a record of a nation, and changes no other.
LEMMA PersonIsAdded ==
    ASSUME PeopleOK, NEW c, c \notin DOMAIN citizens, NEW id, NEW nation_id \in 0 .. 79,
           NEW role, NEW status, NEW citizenship,
           citizens' = Put(citizens, c, Identified(id, nation_id, role, status, citizenship))
    PROVE  PeopleChange({}) /\ DOMAIN citizens' = DOMAIN citizens \cup {c}
<1> DEFINE rec == Identified(id, nation_id, role, status, citizenship)
<1>1. Person(rec) /\ rec.nation_id = nation_id /\ rec.khural_terms_served = 0
  BY IdentifiedIsPerson
<1>2. citizens' = Put(citizens, c, rec)
  OBVIOUS
<1> HIDE DEF rec
<1>3. /\ citizens' = [d \in DOMAIN citizens' |-> citizens'[d]]
      /\ DOMAIN citizens' = DOMAIN citizens \cup {c}
      /\ citizens'[c] = rec
      /\ \A d \in DOMAIN citizens : citizens'[d] = citizens[d]
  BY <1>2 DEF Put
<1> QED BY <1>1, <1>3 DEF PeopleOK, PeopleChange

\* Nothing happens to the people.
LEMMA NobodyChanges ==
    ASSUME PeopleOK, citizens' = citizens
    PROVE  PeopleChange({})
BY DEF PeopleOK, PeopleChange

\* The calls of Root change role and status.
LEMMA RootSteps ==
    ASSUME PeopleOK, NEW c \in DOMAIN citizens, RegistryStep(c)
    PROVE  PeopleChange({})
<1>1. PICK x : \/ citizens' = [citizens EXCEPT ![c].role = x]
               \/ citizens' = [citizens EXCEPT ![c].status = x]
  BY DEF RegistryStep, update_role, freeze_citizen, unfreeze_citizen
<1>2. Person(citizens[c])
  BY DEF PeopleOK
<1> DEFINE ranked == [citizens[c] EXCEPT !.role = x]
           moved  == [citizens[c] EXCEPT !.status = x]
<1>3. SamePerson(citizens[c], ranked) /\ SamePerson(citizens[c], moved)
  BY <1>2, FieldsChange
<1>4. citizens' = [citizens EXCEPT ![c] = ranked] \/ citizens' = [citizens EXCEPT ![c] = moved]
  BY <1>1
<1> HIDE DEF ranked, moved
<1> QED BY <1>3, <1>4, OneRecordChanges

\* A verification changes one record.
LEMMA VerifySteps ==
    ASSUME PeopleOK, NEW c \in DOMAIN citizens, citizens' = [citizens EXCEPT ![c] = Verified(@)]
    PROVE  PeopleChange({})
<1> DEFINE rec == Verified(citizens[c])
<1>1. SamePerson(citizens[c], rec)
  BY VerifiedIsSame DEF PeopleOK, Verified
<1>2. citizens' = [citizens EXCEPT ![c] = rec]
  OBVIOUS
<1> HIDE DEF rec
<1> QED BY <1>1, <1>2, OneRecordChanges

\* A claim to citizenship changes one record.
LEMMA ClaimSteps ==
    ASSUME PeopleOK, NEW c \in DOMAIN citizens, NEW x,
           citizens' = [citizens EXCEPT ![c].citizenship_status = x]
    PROVE  PeopleChange({})
<1> DEFINE rec == [citizens[c] EXCEPT !.citizenship_status = x]
<1>1. SamePerson(citizens[c], rec)
  BY FieldsChange DEF PeopleOK
<1>2. citizens' = [citizens EXCEPT ![c] = rec]
  OBVIOUS
<1> HIDE DEF rec
<1> QED BY <1>1, <1>2, OneRecordChanges

-----------------------------------------------------------------------------
(* One person has one record.                                              *)

\* The storage of the identity pallet is a record of its maps and sets.
CivilOK ==
    civil = [nextCitizenId |-> civil.nextCitizenId, hashes |-> civil.hashes,
             births |-> civil.births, parents |-> civil.parents, deaths |-> civil.deaths,
             guardian |-> civil.guardian, oracle |-> civil.oracle, spouse |-> civil.spouse,
             nicknameOf |-> civil.nicknameOf, holderOf |-> civil.holderOf]

\* Every record rests on papers or on a birth of its own, and what is counted is finite.
PapersInv ==
    /\ CivilOK
    /\ DOMAIN citizens \subseteq Citizens
    /\ IsFiniteSet(civil.births) /\ IsFiniteSet(civil.hashes)
    /\ RecordsRestOnPapers

\* A registration adds two hashes and a record.
LEMMA RegisterCitizenStep ==
    ASSUME PeopleOK, NEW c \in Citizens, NEW role, NEW papers \in Papers, NEW indigenous,
           register_citizen(c, role, papers, indigenous)
    PROVE  PeopleChange({}) /\ (PapersInv => PapersInv')
<1> DEFINE id == civil.nextCitizenId + 1
           citizenship == IF indigenous THEN "Indigenous" ELSE "Foreigner"
<1>1. c \notin DOMAIN citizens /\ papers \cap civil.hashes = {}
  BY DEF register_citizen, IsRegistered, AllAreNew
<1>2. NationOf[c] \in 0 .. 79
  BY RegistryAssumption
<1>3. citizens' = Put(citizens, c, Identified(id, NationOf[c], role, "Active", citizenship))
  BY DEF register_citizen
<1>4. PeopleChange({}) /\ DOMAIN citizens' = DOMAIN citizens \cup {c}
  <2> HIDE DEF id, citizenship
  <2> QED BY <1>1, <1>2, <1>3, PersonIsAdded
<1>5. ASSUME PapersInv PROVE PapersInv'
  <2> DEFINE hs == civil.hashes \cup papers
  <2>1. civil' = [civil EXCEPT !.nextCitizenId = id, !.hashes = hs]
    BY DEF register_citizen
  <2> HIDE DEF id, hs
  <2>2. /\ CivilOK' /\ civil'.hashes = hs /\ civil'.births = civil.births
        /\ civil'.parents = civil.parents
    BY <1>5, <2>1 DEF PapersInv, CivilOK
  <2>3. IsFiniteSet(papers) /\ Cardinality(papers) = 2
    BY SettlersAssumption
  <2>4. IsFiniteSet(hs) /\ Cardinality(hs) = Cardinality(civil.hashes) + 2
    <3>1. Cardinality(civil.hashes \cap papers) = 0
      <4>1. civil.hashes \cap papers = {}
        BY <1>1
      <4> QED BY <4>1, FS_EmptySet
    <3>2. IsFiniteSet(civil.hashes)
      BY <1>5 DEF PapersInv
    <3>3. /\ IsFiniteSet(civil.hashes \cup papers)
          /\ Cardinality(civil.hashes \cup papers) =
                Cardinality(civil.hashes) + Cardinality(papers)
                    - Cardinality(civil.hashes \cap papers)
      BY <2>3, <3>2, FS_Union
    <3>4. Cardinality(civil.hashes) \in Nat
      BY <3>2, FS_CardinalityType
    <3> QED BY <2>3, <3>1, <3>3, <3>4 DEF hs
  <2> DEFINE born == DOMAIN civil.parents
             D    == DOMAIN citizens \ born
  <2>5. born \subseteq DOMAIN citizens
    BY <1>5 DEF PapersInv, RecordsRestOnPapers
  <2>6. IsFiniteSet(D)
    BY <1>5, SettlersAssumption, FS_Subset DEF PapersInv
  <2>7. DOMAIN citizens' \ born = D \cup {c} /\ c \notin D
    BY <1>1, <1>4, <2>5
  <2>8. Cardinality(DOMAIN citizens' \ born) = Cardinality(D) + 1 /\ Cardinality(D) \in Nat
    BY <2>6, <2>7, FS_AddElement, FS_CardinalityType
  <2>9. Cardinality(civil.hashes) = 2 * Cardinality(D)
    BY <1>5 DEF PapersInv, RecordsRestOnPapers
  <2>10. Cardinality(civil'.births) = Cardinality(DOMAIN civil'.parents)
    BY <1>5, <2>2 DEF PapersInv, RecordsRestOnPapers
  <2>11. Cardinality(hs) = 2 * Cardinality(DOMAIN citizens' \ born)
    <3> HIDE DEF D
    <3> QED BY <2>4, <2>8, <2>9
  <2> QED BY <1>4, <1>5, <2>2, <2>4, <2>5, <2>10, <2>11 DEF PapersInv, RecordsRestOnPapers
<1> QED BY <1>4, <1>5

\* A birth adds its hash, a record, and the link to the parent.
LEMMA RegisterBirthStep ==
    ASSUME PeopleOK, NEW c \in Citizens, NEW p \in Citizens, NEW hash, NEW byAuthority,
           register_birth(c, p, hash, byAuthority)
    PROVE  PeopleChange({}) /\ (PapersInv => PapersInv')
<1> DEFINE id == civil.nextCitizenId
<1>1. /\ c \notin DOMAIN citizens /\ p \in DOMAIN citizens /\ hash \notin civil.births
      /\ citizens' = Put(citizens, c,
            Identified(id, citizens[p].nation_id, "Regular", "Minor", "Foreigner"))
  BY DEF register_birth, IsRegistered
<1>2. citizens[p].nation_id \in 0 .. 79
  BY <1>1 DEF PeopleOK
<1>3. PeopleChange({}) /\ DOMAIN citizens' = DOMAIN citizens \cup {c}
  <2> HIDE DEF id
  <2> QED BY <1>1, <1>2, PersonIsAdded
<1>4. ASSUME PapersInv PROVE PapersInv'
  <2> DEFINE bs   == civil.births \cup {hash}
             ps   == Put(civil.parents, c, p)
             next_id == civil.nextCitizenId + 1
             rate == IF byAuthority THEN check_and_increment_oracle_rate ELSE civil.oracle
  <2>1. civil' = [civil EXCEPT !.nextCitizenId = next_id, !.births = bs, !.parents = ps,
                               !.oracle = rate]
    BY DEF register_birth
  <2>2. DOMAIN ps = DOMAIN civil.parents \cup {c}
    BY DEF Put
  <2> HIDE DEF bs, ps, next_id, rate
  <2>3. /\ CivilOK' /\ civil'.hashes = civil.hashes /\ civil'.births = bs /\ civil'.parents = ps
    BY <1>4, <2>1 DEF PapersInv, CivilOK
  <2> DEFINE born == DOMAIN civil.parents
  <2>4. born \subseteq DOMAIN citizens /\ c \notin born
    BY <1>1, <1>4 DEF PapersInv, RecordsRestOnPapers
  <2>5. IsFiniteSet(born)
    BY <1>4, <2>4, SettlersAssumption, FS_Subset DEF PapersInv
  <2>6. Cardinality(DOMAIN ps) = Cardinality(born) + 1
    BY <2>2, <2>4, <2>5, FS_AddElement
  <2>7. IsFiniteSet(bs) /\ Cardinality(bs) = Cardinality(civil.births) + 1
    BY <1>1, <1>4, FS_AddElement DEF PapersInv, bs
  <2>8. DOMAIN citizens' \ DOMAIN ps = DOMAIN citizens \ born
    BY <1>1, <1>3, <2>2
  <2>9. DOMAIN ps \subseteq DOMAIN citizens'
    BY <1>3, <2>2, <2>4
  <2>10. Cardinality(bs) = Cardinality(DOMAIN ps)
    BY <1>4, <2>6, <2>7 DEF PapersInv, RecordsRestOnPapers
  <2>11. Cardinality(civil'.hashes) = 2 * Cardinality(DOMAIN citizens' \ DOMAIN civil'.parents)
    BY <1>4, <2>3, <2>8 DEF PapersInv, RecordsRestOnPapers
  <2> QED BY <1>3, <1>4, <2>3, <2>7, <2>9, <2>10, <2>11 DEF PapersInv, RecordsRestOnPapers
<1> QED BY <1>3, <1>4

\* A call that changes one record and no paper.
LEMMA PapersUntouched ==
    ASSUME PapersInv, DOMAIN citizens' = DOMAIN citizens, CivilOK', civil'.hashes = civil.hashes,
           civil'.births = civil.births, civil'.parents = civil.parents
    PROVE  PapersInv'
BY DEF PapersInv, RecordsRestOnPapers

\* The calls of the register change a record or add one.
LEMMA RegistrationSteps ==
    ASSUME PeopleOK, RegistrationStep
    PROVE  PeopleChange({}) /\ (PapersInv => PapersInv')
<1>1. CASE \E c \in Citizens, r \in Roles, p \in Papers, indigenous \in BOOLEAN :
             register_citizen(c, r, p, indigenous)
  BY <1>1, RegisterCitizenStep
<1>2. CASE \E c, p \in Citizens, h \in BirthHashes, byAuthority \in BOOLEAN :
             register_birth(c, p, h, byAuthority)
  BY <1>2, RegisterBirthStep
<1>3. ASSUME NEW c \in Citizens, NEW v \in Citizens,
             verify_citizen(v, c) \/ bootstrap_verify_creator(c)
      PROVE  PeopleChange({}) /\ (PapersInv => PapersInv')
  <2>1. /\ c \in DOMAIN citizens /\ citizens' = [citizens EXCEPT ![c] = Verified(@)]
        /\ civil' = civil
    BY <1>3 DEF verify_citizen, bootstrap_verify_creator, IsActiveCitizen, IsRegistered
  <2>2. DOMAIN citizens' = DOMAIN citizens
    BY <2>1
  <2>3. PeopleChange({})
    BY <2>1, VerifySteps
  <2> QED BY <2>1, <2>2, <2>3, PapersUntouched DEF PapersInv, CivilOK
<1>4. ASSUME NEW c \in Citizens, claim_repatriation(c) \/ claim_birthright(c)
      PROVE  PeopleChange({}) /\ (PapersInv => PapersInv')
  <2>1. /\ c \in DOMAIN citizens /\ civil' = civil
        /\ \/ citizens' = [citizens EXCEPT ![c].citizenship_status = "Indigenous"]
           \/ citizens' = [citizens EXCEPT ![c].citizenship_status = "Naturalized"]
    BY <1>4 DEF claim_repatriation, claim_birthright, IsActiveCitizen, IsRegistered
  <2>2. DOMAIN citizens' = DOMAIN citizens
    BY <2>1
  <2>3. PeopleChange({})
    BY <2>1, ClaimSteps
  <2> QED BY <2>1, <2>2, <2>3, PapersUntouched DEF PapersInv, CivilOK
<1>5. ASSUME NEW c \in Citizens, NEW v \in Citizens, assign_guardian(c, v)
      PROVE  PeopleChange({}) /\ (PapersInv => PapersInv')
  <2> DEFINE gs == Put(civil.guardian, c, v)
  <2>1. citizens' = citizens /\ civil' = [civil EXCEPT !.guardian = gs]
    BY <1>5 DEF assign_guardian
  <2> HIDE DEF gs
  <2>2. PeopleChange({})
    BY <2>1, NobodyChanges
  <2>3. ASSUME PapersInv
        PROVE  /\ CivilOK' /\ civil'.hashes = civil.hashes /\ civil'.births = civil.births
               /\ civil'.parents = civil.parents
    BY <2>1, <2>3 DEF PapersInv, CivilOK
  <2> QED BY <2>1, <2>2, <2>3, PapersUntouched
<1> QED BY <1>1, <1>2, <1>3, <1>4, <1>5 DEF RegistrationStep

-----------------------------------------------------------------------------
(* Where the behaviours start.                                             *)

\* The citizens that the initial states name are different people, of the nations meant.
LEMMA Cast ==
    /\ {First, Second, Stranger, Kin} \subseteq Adults
    /\ Adults \subseteq Citizens
    /\ First # Second /\ Stranger # First /\ Stranger # Second
    /\ NationOf[First] = 1 /\ NationOf[Second] = 1
    /\ NationOf[Stranger] = 2 /\ NationOf[Kin] = 2
<1>1. First \in Locals
  BY SettlersAssumption DEF First
<1>2. \E c \in Locals \ {First} : TRUE
  BY SettlersAssumption
<1>3. Second \in Locals \ {First}
  BY <1>2 DEF Second
<1>4. Stranger \in Strangers
  BY SettlersAssumption DEF Stranger
<1>5. \E c \in Strangers \ {Stranger} : TRUE
  BY SettlersAssumption
<1>6. Kin \in Strangers \ {Stranger}
  BY <1>5 DEF Kin
<1>7. Strangers \subseteq Adults /\ Locals \subseteq Adults /\ Locals \cap Strangers = {}
      /\ Adults \subseteq Citizens
  BY SettlersAssumption DEF Locals, Adults
<1>8. \A c \in Adults : NationOf[c] = IF c \in Strangers THEN 2 ELSE 1
  BY SettlersAssumption
<1> QED BY <1>1, <1>3, <1>4, <1>6, <1>7, <1>8

\* The adults are on record with their nation, and have served no term.
OnRecord ==
    /\ PeopleOK
    /\ DOMAIN citizens = Adults
    /\ \A c \in Adults : citizens[c].nation_id = NationOf[c] /\ citizens[c].khural_terms_served = 0

\* Role, vesting level and branch are given at once.
LEMMA RankIsSame ==
    ASSUME NEW r, Person(r), NEW x, NEW y, NEW z
    PROVE  SamePerson(r, [r EXCEPT !.role = x, !.vesting_level = y, !.branch = z])
<1> DEFINE t == [r EXCEPT !.role = x]
           s == [t EXCEPT !.vesting_level = y]
<1>1. SamePerson(r, t)
  BY FieldsChange
<1>2. [s EXCEPT !.branch = z] = [r EXCEPT !.role = x, !.vesting_level = y, !.branch = z]
  BY DEF Person
<1>3. SamePerson(t, s)
  <2> HIDE DEF t
  <2> QED BY <1>1, FieldsChange DEF SamePerson
<1> HIDE DEF t, s
<1>4. SamePerson(s, [s EXCEPT !.branch = z])
  BY <1>3, FieldsChange DEF SamePerson
<1>5. SamePerson(r, [s EXCEPT !.branch = z])
  BY <1>1, <1>3, <1>4 DEF SamePerson
<1> QED BY <1>2, <1>5

\* The citizens that a behaviour starts with.
LEMMA RankedAreOnRecord ==
    ASSUME NEW first, NEW second, NEW b1, NEW b2, citizens = Ranked(first, second, b1, b2)
    PROVE  OnRecord
<1>1. citizens = [c \in DOMAIN citizens |-> citizens[c]] /\ DOMAIN citizens = Adults
  BY DEF Ranked
<1>2. ASSUME NEW c \in Adults
      PROVE  /\ Person(Adult(c)) /\ Adult(c).nation_id = NationOf[c]
             /\ Adult(c).khural_terms_served = 0
  <2> DEFINE rec == Identified(Number[c], NationOf[c], "Regular", "Active", "Foreigner")
  <2>1. Person(rec) /\ rec.nation_id = NationOf[c] /\ rec.khural_terms_served = 0
    BY IdentifiedIsPerson
  <2> HIDE DEF rec
  <2>2. SamePerson(rec, Verified(rec))
    BY <2>1, VerifiedIsSame DEF Verified
  <2> QED BY <2>1, <2>2 DEF SamePerson, Adult, rec
<1>3. ASSUME NEW c \in Adults
      PROVE  SamePerson(Adult(c), citizens[c])
  <2> DEFINE r == Adult(c)
             asFirst  == [r EXCEPT !.role = first, !.vesting_level = VestingLevel.ArbadMember,
                                   !.branch = b1]
             asSecond == [r EXCEPT !.role = second, !.vesting_level = VestingLevel.ArbadMember,
                                   !.branch = b2]
             asNew    == [r EXCEPT !.verification = "Unverified",
                                   !.vesting_level = VestingLevel.None]
  <2>1. citizens[c] \in {asFirst, asSecond, asNew, r}
    BY DEF Ranked, Placed
  <2>2. Person(r)
    BY <1>2
  <2>3. SamePerson(r, asFirst) /\ SamePerson(r, asSecond)
    <3> HIDE DEF r
    <3> QED BY <2>2, RankIsSame
  <2>4. SamePerson(r, asNew) /\ SamePerson(r, r)
    <3> HIDE DEF r
    <3>1. SamePerson(r, r)
      BY <2>2 DEF SamePerson
    <3>2. SamePerson(r, asNew)
      BY <2>2, VerifiedIsSame
    <3> QED BY <3>1, <3>2
  <2> HIDE DEF r, asFirst, asSecond, asNew
  <2>5. SamePerson(r, citizens[c])
    BY <2>1, <2>3, <2>4
  <2> QED BY <2>5 DEF r
<1>4. \A c \in Adults : NationOf[c] \in 0 .. 79
  BY Cast, RegistryAssumption
<1> QED BY <1>1, <1>2, <1>3, <1>4 DEF OnRecord, PeopleOK, SamePerson

\* Without Khurals and Confederations, nobody has served a term.
LEMMA NoTermsYet ==
    ASSUME \A c \in DOMAIN citizens : citizens[c].khural_terms_served = 0,
           units.of["Khural"] = <<>>, units.of["Confederation"] = <<>>
    PROVE  TermsAreCounted
<1>1. \A c : LedBy(units.of["Khural"], c) = {} /\ LedBy(units.of["Confederation"], c) = {}
  BY DEF LedBy
<1>2. \A c \in DOMAIN citizens : TermsOf(units, c, citizens[c].khural_terms_served)
  BY <1>1, FS_EmptySet DEF TermsOf
<1> QED BY <1>2, TermsInWords

\* No records of any type.
LEMMA NoRecords == \A R : <<>> \in Numbered(0, R) /\ DOMAIN <<>> = {}
BY DEF Numbered

\* The storage without units.
LEMMA EmptyStorage ==
    /\ UnitsShape(NoUnits)
    /\ \A k \in UnitKind : NoUnits.of[k] = <<>> /\ NoUnits.led[k] = <<>>
<1>1. \A k \in UnitKind : NoUnits.of[k] = <<>> /\ NoUnits.led[k] = <<>>
  BY DEF NoUnits
<1>2. \A k \in UnitKind : \E n \in Nat : NoUnits.of[k] \in Numbered(n, UnitRecord)
  BY <1>1, NoRecords
<1>3. /\ NoUnits = [of |-> NoUnits.of, led |-> NoUnits.led, lastLeave |-> NoUnits.lastLeave]
      /\ NoUnits.of = [k \in UnitKind |-> NoUnits.of[k]]
      /\ NoUnits.led = [k \in UnitKind |-> NoUnits.led[k]]
  BY DEF NoUnits
<1> QED BY <1>1, <1>2, <1>3 DEF UnitsShape

\* A register and no units.
LEMMA InitWithoutUnits ==
    ASSUME PeopleOK, units = NoUnits, \A c \in DOMAIN citizens : citizens[c].khural_terms_served = 0
    PROVE  UnitsInv
<1>1. UnitsShape(units) /\ \A k \in UnitKind : DOMAIN units.of[k] = {} /\ DOMAIN units.led[k] = {}
  BY EmptyStorage
<1>2. \A k \in DOMAIN Below : k \in UnitKind
  BY DEF Below, UnitKind
<1>3. {"Arbad", "Khural", "Confederation"} \subseteq UnitKind
  BY DEF UnitKind
<1>4. PartsExist
  BY <1>1, <1>2, <1>3 DEF PartsExist
<1>5. UnitsAreRooted
  BY <1>1, <1>2, <1>3 DEF UnitsAreRooted
<1>6. TermsAreCounted
  BY <1>3, EmptyStorage, NoTermsYet
<1> QED BY <1>1, <1>4, <1>5, <1>6 DEF UnitsInv

\* The three Arbads that a behaviour may start with.
LEMMA HearthsAreRooted ==
    /\ Hearths \in Numbered(3, UnitRecord)
    /\ \A i \in DOMAIN Hearths :
          /\ Hearths[i].leader \in Adults /\ Hearths[i].parts \subseteq Adults
          /\ \A m \in Hearths[i].parts \cup {Hearths[i].leader} : NationOf[m] = Hearths[i].nation_id
    /\ Hearths[0].nation_id = 1 /\ Hearths[1].nation_id = 1
    /\ \A c \in DOMAIN HearthOf : HearthOf[c] \in DOMAIN Hearths /\ Hearths[HearthOf[c]].leader = c
<1>1. /\ DOMAIN Hearths = 0 .. 2
      /\ Hearths[0] = Unit(First, {Second}, 1, "None")
      /\ Hearths[1] = Unit(Second, {First}, 1, "None")
      /\ Hearths[2] = Unit(Stranger, {Kin}, 2, "None")
      /\ Hearths = [i \in 0 .. 2 |-> Hearths[i]]
  BY DEF Hearths, Locally
<1>2. \A i \in 0 .. 2 : i = 0 \/ i = 1 \/ i = 2
  OBVIOUS
<1>3. \A i \in 0 .. 2 : Hearths[i] \in UnitRecord
  BY <1>1, <1>2, Cast DEF UnitRecord, Unit
<1>4. Hearths \in Numbered(3, UnitRecord)
  BY <1>1, <1>3 DEF Numbered
<1>5. \A i \in 0 .. 2 :
          /\ Hearths[i].leader \in Adults /\ Hearths[i].parts \subseteq Adults
          /\ \A m \in Hearths[i].parts \cup {Hearths[i].leader} : NationOf[m] = Hearths[i].nation_id
  BY <1>1, <1>2, Cast DEF Unit
<1>6. \A c \in DOMAIN HearthOf : HearthOf[c] \in 0 .. 2 /\ Hearths[HearthOf[c]].leader = c
  BY <1>1, Cast DEF HearthOf, Unit
<1> QED BY <1>1, <1>4, <1>5, <1>6 DEF Unit

\* The storage with the three Arbads, and with nothing else.
LEMMA AssemblyStorage ==
    /\ UnitsShape(Assembly)
    /\ Assembly.of["Arbad"] = Hearths /\ Assembly.led["Arbad"] = HearthOf
    /\ \A k \in UnitKind \ {"Arbad"} : Assembly.of[k] = <<>> /\ Assembly.led[k] = <<>>
<1>1. /\ Assembly = [of |-> Assembly.of, led |-> Assembly.led, lastLeave |-> Assembly.lastLeave]
      /\ Assembly.of = [NoUnits.of EXCEPT !["Arbad"] = Hearths]
      /\ Assembly.led = [NoUnits.led EXCEPT !["Arbad"] = HearthOf]
  <2> DEFINE hs == Hearths
             ho == HearthOf
  <2>1. Assembly = [NoUnits EXCEPT !.of["Arbad"] = hs, !.led["Arbad"] = ho]
    BY DEF Assembly
  <2> HIDE DEF hs, ho
  <2>2. /\ Assembly = [of |-> Assembly.of, led |-> Assembly.led, lastLeave |-> Assembly.lastLeave]
        /\ Assembly.of = [NoUnits.of EXCEPT !["Arbad"] = hs]
        /\ Assembly.led = [NoUnits.led EXCEPT !["Arbad"] = ho]
    BY <2>1, EmptyStorage DEF UnitsShape
  <2> QED BY <2>2 DEF hs, ho
<1>2. "Arbad" \in UnitKind
  BY DEF UnitKind
<1>3. /\ Assembly.of["Arbad"] = Hearths /\ Assembly.led["Arbad"] = HearthOf
      /\ \A k \in UnitKind \ {"Arbad"} : Assembly.of[k] = <<>> /\ Assembly.led[k] = <<>>
      /\ Assembly.of = [k \in UnitKind |-> Assembly.of[k]]
      /\ Assembly.led = [k \in UnitKind |-> Assembly.led[k]]
  BY <1>1, <1>2, EmptyStorage DEF UnitsShape
<1>4. \A k \in UnitKind : \E n \in Nat : Assembly.of[k] \in Numbered(n, UnitRecord)
  BY <1>3, HearthsAreRooted, NoRecords
<1> QED BY <1>1, <1>3, <1>4 DEF UnitsShape

\* A register and the Arbads.
LEMMA InitWithArbads ==
    ASSUME OnRecord, units = Assembly
    PROVE  UnitsInv
<1>1. {"Arbad", "Khural", "Confederation"} \subseteq UnitKind
      /\ \A k \in DOMAIN Below : k \in UnitKind \ {"Arbad"}
  BY DEF Below, UnitKind
<1>2. \A k \in UnitKind \ {"Arbad"} : DOMAIN units.of[k] = {} /\ DOMAIN units.led[k] = {}
  BY AssemblyStorage, NoRecords
<1>3. PartsExist
  BY <1>1, <1>2, AssemblyStorage, HearthsAreRooted DEF PartsExist, OnRecord
<1>4. UnitsAreRooted
  <2>1. \A k \in UnitKind : \A who \in DOMAIN units.led[k] :
            /\ units.led[k][who] \in DOMAIN units.of[k]
            /\ units.of[k][units.led[k][who]].leader = who
    BY <1>2, AssemblyStorage, HearthsAreRooted
  <2>2. \A i \in DOMAIN units.of["Arbad"] :
            \A m \in units.of["Arbad"][i].parts \cup {units.of["Arbad"][i].leader} :
                citizens[m].nation_id = units.of["Arbad"][i].nation_id
    BY AssemblyStorage, HearthsAreRooted DEF OnRecord
  <2> QED BY <1>1, <1>2, <2>1, <2>2 DEF UnitsAreRooted
<1>5. TermsAreCounted
  BY <1>1, AssemblyStorage, NoTermsYet DEF OnRecord
<1> QED BY <1>3, <1>4, <1>5, AssemblyStorage DEF UnitsInv, OnRecord

\* The Zuns, Myangads and Tumeds that a behaviour may start with.
LEMMA SummitIsRooted ==
    /\ Zuns \in Numbered(2, UnitRecord) /\ Myangads \in Numbered(4, UnitRecord)
    /\ Tumeds \in Numbered(2, UnitRecord)
    /\ \A i \in 0 .. 1 :
          Zuns[i].leader \in Adults /\ Zuns[i].parts = {0, 1} /\ Zuns[i].nation_id = 1
    /\ \A i \in 0 .. 3 :
          Myangads[i].leader \in Adults /\ Myangads[i].parts = {0, 1} /\ Myangads[i].nation_id = 1
    /\ \A i \in 0 .. 1 :
          /\ Tumeds[i].leader \in Adults /\ Tumeds[i].parts \subseteq 0 .. 3
          /\ Tumeds[i].nation_id = 1
          /\ \A j \in Tumeds[i].parts : Myangads[j].branch = Tumeds[i].branch
    /\ \A c \in DOMAIN OfTwo : /\ OfTwo[c] \in 0 .. 1
                               /\ Zuns[OfTwo[c]].leader = c /\ Tumeds[OfTwo[c]].leader = c
    /\ \A c \in DOMAIN OfFour : OfFour[c] \in 0 .. 3 /\ Myangads[OfFour[c]].leader = c
<1>1. /\ Zuns[0] = Unit(First, {0, 1}, 1, "None") /\ Zuns[1] = Unit(Second, {0, 1}, 1, "None")
      /\ Zuns = [i \in 0 .. 1 |-> Zuns[i]]
  BY DEF Zuns, Locally
<1>2. /\ Myangads[0] = Unit(First, {0, 1}, 1, "Legislative")
      /\ Myangads[1] = Unit(First, {0, 1}, 1, "Legislative")
      /\ Myangads[2] = Unit(Second, {0, 1}, 1, "Executive")
      /\ Myangads[3] = Unit(Second, {0, 1}, 1, "Executive")
      /\ Myangads = [i \in 0 .. 3 |-> Myangads[i]]
  BY DEF Myangads, Locally
<1>3. /\ Tumeds[0] = Unit(First, {0, 1}, 1, "Legislative")
      /\ Tumeds[1] = Unit(Second, {2, 3}, 1, "Executive")
      /\ Tumeds = [i \in 0 .. 1 |-> Tumeds[i]]
  BY DEF Tumeds, Locally
<1>4. /\ \A i \in 0 .. 1 : i = 0 \/ i = 1
      /\ \A i \in 0 .. 3 : i = 0 \/ i = 1 \/ i = 2 \/ i = 3
  OBVIOUS
<1>5. ASSUME NEW c \in {First, Second}, NEW parts \in {{0, 1}, {2, 3}},
             NEW b \in {"None", "Legislative", "Executive"}
      PROVE  /\ Unit(c, parts, 1, b) \in UnitRecord
             /\ Unit(c, parts, 1, b).leader = c /\ Unit(c, parts, 1, b).parts = parts
             /\ Unit(c, parts, 1, b).nation_id = 1 /\ Unit(c, parts, 1, b).branch = b
  BY Cast DEF UnitRecord, Unit, BranchOfPower
<1>6. /\ \A i \in 0 .. 1 : Zuns[i] \in UnitRecord /\ Tumeds[i] \in UnitRecord
      /\ \A i \in 0 .. 3 : Myangads[i] \in UnitRecord
  BY <1>1, <1>2, <1>3, <1>4, <1>5
<1>7. /\ Zuns \in Numbered(2, UnitRecord) /\ Myangads \in Numbered(4, UnitRecord)
      /\ Tumeds \in Numbered(2, UnitRecord)
  BY <1>1, <1>2, <1>3, <1>6 DEF Numbered
<1>8. \A i \in 0 .. 1 :
         Zuns[i].leader \in Adults /\ Zuns[i].parts = {0, 1} /\ Zuns[i].nation_id = 1
  BY <1>1, <1>4, <1>5, Cast
<1>9. \A i \in 0 .. 3 :
         Myangads[i].leader \in Adults /\ Myangads[i].parts = {0, 1} /\ Myangads[i].nation_id = 1
  BY <1>2, <1>4, <1>5, Cast
<1>10. \A i \in 0 .. 1 :
          /\ Tumeds[i].leader \in Adults /\ Tumeds[i].parts \subseteq 0 .. 3
          /\ Tumeds[i].nation_id = 1
  BY <1>3, <1>4, <1>5, Cast
<1>11. /\ Tumeds[0].parts = {0, 1} /\ Tumeds[1].parts = {2, 3}
       /\ Tumeds[0].branch = "Legislative" /\ Tumeds[1].branch = "Executive"
       /\ Myangads[0].branch = "Legislative" /\ Myangads[1].branch = "Legislative"
       /\ Myangads[2].branch = "Executive" /\ Myangads[3].branch = "Executive"
  BY <1>2, <1>3, <1>5
<1>12. \A i \in 0 .. 1 : \A j \in Tumeds[i].parts : Myangads[j].branch = Tumeds[i].branch
  BY <1>4, <1>11
<1>13. \A c \in DOMAIN OfTwo : /\ OfTwo[c] \in 0 .. 1
                               /\ Zuns[OfTwo[c]].leader = c /\ Tumeds[OfTwo[c]].leader = c
  <2>1. DOMAIN OfTwo = {First, Second} /\ OfTwo[First] = 0 /\ OfTwo[Second] = 1
    BY Cast DEF OfTwo
  <2> QED BY <1>1, <1>3, <1>5, <2>1
<1>14. \A c \in DOMAIN OfFour : OfFour[c] \in 0 .. 3 /\ Myangads[OfFour[c]].leader = c
  <2>1. DOMAIN OfFour = {First, Second} /\ OfFour[First] = 1 /\ OfFour[Second] = 3
    BY Cast DEF OfFour
  <2> QED BY <1>2, <1>5, <2>1
<1> QED BY <1>7, <1>8, <1>9, <1>10, <1>12, <1>13, <1>14

\* The storage with the units up to the Tumeds.
LEMMA SummitStorage ==
    /\ UnitsShape(Summit)
    /\ Summit.of["Arbad"] = Hearths /\ Summit.led["Arbad"] = HearthOf
    /\ Summit.of["Zun"] = Zuns /\ Summit.led["Zun"] = OfTwo
    /\ Summit.of["Myangad"] = Myangads /\ Summit.led["Myangad"] = OfFour
    /\ Summit.of["Tumed"] = Tumeds /\ Summit.led["Tumed"] = OfTwo
    /\ Summit.of["Khural"] = <<>> /\ Summit.led["Khural"] = <<>>
    /\ Summit.of["Confederation"] = <<>> /\ Summit.led["Confederation"] = <<>>
<1>1. /\ Summit = [of |-> Summit.of, led |-> Summit.led, lastLeave |-> Summit.lastLeave]
      /\ Summit.of = [Assembly.of EXCEPT !["Zun"] = Zuns, !["Myangad"] = Myangads,
                                         !["Tumed"] = Tumeds]
      /\ Summit.led = [Assembly.led EXCEPT !["Zun"] = OfTwo, !["Myangad"] = OfFour,
                                           !["Tumed"] = OfTwo]
  BY DEF Summit
<1>2. UnitKind = {"Arbad", "Zun", "Myangad", "Tumed", "Khural", "Confederation"}
  BY DEF UnitKind
<1>3. /\ Summit.of["Arbad"] = Hearths /\ Summit.led["Arbad"] = HearthOf
      /\ Summit.of["Zun"] = Zuns /\ Summit.led["Zun"] = OfTwo
      /\ Summit.of["Myangad"] = Myangads /\ Summit.led["Myangad"] = OfFour
      /\ Summit.of["Tumed"] = Tumeds /\ Summit.led["Tumed"] = OfTwo
      /\ Summit.of["Khural"] = <<>> /\ Summit.led["Khural"] = <<>>
      /\ Summit.of["Confederation"] = <<>> /\ Summit.led["Confederation"] = <<>>
  <2>1. /\ DOMAIN Assembly.of = UnitKind /\ DOMAIN Assembly.led = UnitKind
        /\ Assembly.of["Khural"] = <<>> /\ Assembly.led["Khural"] = <<>>
        /\ Assembly.of["Confederation"] = <<>> /\ Assembly.led["Confederation"] = <<>>
    BY <1>2, AssemblyStorage DEF UnitsShape
  <2> DEFINE ao == Assembly.of
             al == Assembly.led
             so == Summit.of
             sl == Summit.led
  <2>2. /\ so = [ao EXCEPT !["Zun"] = Zuns, !["Myangad"] = Myangads, !["Tumed"] = Tumeds]
        /\ sl = [al EXCEPT !["Zun"] = OfTwo, !["Myangad"] = OfFour, !["Tumed"] = OfTwo]
    BY <1>1
  <2>3. ao["Arbad"] = Hearths /\ al["Arbad"] = HearthOf
    BY AssemblyStorage
  <2>4. DOMAIN ao = UnitKind /\ DOMAIN al = UnitKind
    BY <2>1
  <2> HIDE DEF ao, al, so, sl
  <2>5. /\ so["Arbad"] = ao["Arbad"] /\ so["Zun"] = Zuns /\ so["Myangad"] = Myangads
        /\ so["Tumed"] = Tumeds /\ so["Khural"] = ao["Khural"]
        /\ so["Confederation"] = ao["Confederation"]
    BY <1>2, <2>2, <2>4
  <2>6. /\ sl["Arbad"] = al["Arbad"] /\ sl["Zun"] = OfTwo /\ sl["Myangad"] = OfFour
        /\ sl["Tumed"] = OfTwo /\ sl["Khural"] = al["Khural"]
        /\ sl["Confederation"] = al["Confederation"]
    BY <1>2, <2>2, <2>4
  <2> QED BY <2>1, <2>3, <2>5, <2>6 DEF ao, al, so, sl
<1>4. /\ Summit.of = [k \in UnitKind |-> Summit.of[k]]
      /\ Summit.led = [k \in UnitKind |-> Summit.led[k]]
  BY <1>1, AssemblyStorage DEF UnitsShape
<1>5. \A k \in UnitKind : \E n \in Nat : Summit.of[k] \in Numbered(n, UnitRecord)
  BY <1>2, <1>3, HearthsAreRooted, SummitIsRooted, NoRecords
<1> QED BY <1>1, <1>3, <1>4, <1>5 DEF UnitsShape

\* A register and the units up to the Tumeds.
LEMMA InitWithTumeds ==
    ASSUME OnRecord, units = Summit
    PROVE  UnitsInv
<1>1. UnitKind = {"Arbad", "Zun", "Myangad", "Tumed", "Khural", "Confederation"}
      /\ DOMAIN Below = {"Zun", "Myangad", "Tumed", "Khural"}
      /\ Below["Zun"] = "Arbad" /\ Below["Myangad"] = "Zun" /\ Below["Tumed"] = "Myangad"
      /\ Below["Khural"] = "Tumed"
  BY DEF Below, UnitKind
<1>2. /\ DOMAIN Hearths = 0 .. 2 /\ DOMAIN Zuns = 0 .. 1 /\ DOMAIN Myangads = 0 .. 3
      /\ DOMAIN Tumeds = 0 .. 1 /\ DOMAIN <<>> = {}
  BY DEF Hearths, Zuns, Myangads, Tumeds
<1>3. PartsExist
  <2>1. \A k \in UnitKind : \A i \in DOMAIN units.of[k] : units.of[k][i].leader \in DOMAIN citizens
    BY <1>1, <1>2, SummitStorage, SummitIsRooted, HearthsAreRooted DEF OnRecord
  <2>2. \A i \in DOMAIN units.of["Arbad"] : units.of["Arbad"][i].parts \subseteq DOMAIN citizens
    BY <1>2, SummitStorage, HearthsAreRooted DEF OnRecord
  <2>3. \A k \in DOMAIN Below : \A i \in DOMAIN units.of[k] :
            units.of[k][i].parts \subseteq DOMAIN units.of[Below[k]]
    BY <1>1, <1>2, SummitStorage, SummitIsRooted
  <2> QED BY <2>1, <2>2, <2>3 DEF PartsExist
<1>4. UnitsAreRooted
  <2>1. \A k \in UnitKind : \A who \in DOMAIN units.led[k] :
            /\ units.led[k][who] \in DOMAIN units.of[k]
            /\ units.of[k][units.led[k][who]].leader = who
    BY <1>1, <1>2, SummitStorage, SummitIsRooted, HearthsAreRooted
  <2>2. \A i \in DOMAIN units.of["Arbad"] :
            \A m \in units.of["Arbad"][i].parts \cup {units.of["Arbad"][i].leader} :
                citizens[m].nation_id = units.of["Arbad"][i].nation_id
    BY SummitStorage, HearthsAreRooted DEF OnRecord
  <2>3. \A i \in DOMAIN units.of["Zun"] : \A j \in units.of["Zun"][i].parts :
            units.of["Arbad"][j].nation_id = units.of["Zun"][i].nation_id
    BY <1>2, SummitStorage, SummitIsRooted, HearthsAreRooted
  <2>4. \A i \in DOMAIN units.of["Myangad"] : \A j \in units.of["Myangad"][i].parts :
            units.of["Zun"][j].nation_id = units.of["Myangad"][i].nation_id
    BY <1>2, SummitStorage, SummitIsRooted
  <2>5. \A i \in DOMAIN units.of["Tumed"] : \A j \in units.of["Tumed"][i].parts :
            /\ units.of["Myangad"][j].nation_id = units.of["Tumed"][i].nation_id
            /\ units.of["Myangad"][j].branch = units.of["Tumed"][i].branch
    BY <1>2, SummitStorage, SummitIsRooted
  <2>6. \A i \in DOMAIN units.of["Khural"] : FALSE
    BY <1>2, SummitStorage
  <2>7. \A k \in DOMAIN Below : \A i \in DOMAIN units.of[k] : \A j \in units.of[k][i].parts :
            /\ units.of[Below[k]][j].nation_id = units.of[k][i].nation_id
            /\ k \in {"Tumed", "Khural"} => units.of[Below[k]][j].branch = units.of[k][i].branch
    BY <1>1, <2>3, <2>4, <2>5, <2>6
  <2> QED BY <2>1, <2>2, <2>7 DEF UnitsAreRooted
<1>5. TermsAreCounted
  BY SummitStorage, NoTermsYet DEF OnRecord
<1> QED BY <1>3, <1>4, <1>5, SummitStorage DEF UnitsInv, OnRecord

-----------------------------------------------------------------------------
(* The register as the composition runs it.                                *)

\* The units are rooted, and where the register starts empty the records rest on papers.
RegisterInv == UnitsInv /\ (part = "registry" => PapersInv)

\* What the composition starts with.
LEMMA RegisterInit == MCInit => RegisterInv
<1> SUFFICES ASSUME MCInit
             PROVE  RegisterInv
  OBVIOUS
<1>1. Settled /\ part \in OfficeParts \cup UnitParts \cup {"registry"}
  BY DEF MCInit
<1>2. CASE part = "registry"
  <2>1. /\ citizens = <<>> /\ units = NoUnits
        /\ civil = [NoCivilRecords EXCEPT !.nextCitizenId = 0]
    BY <1>1, <1>2 DEF Settled, OfficeParts, UnitParts
  <2>2. DOMAIN citizens = {} /\ citizens = [c \in DOMAIN citizens |-> citizens[c]]
    BY <2>1
  <2>3. PeopleOK
    BY <2>2 DEF PeopleOK
  <2>4. UnitsInv
    BY <2>1, <2>2, <2>3, InitWithoutUnits
  <2>5. CivilOK /\ civil.births = {} /\ civil.hashes = {} /\ civil.parents = <<>>
    BY <2>1 DEF CivilOK, NoCivilRecords
  <2>6. DOMAIN civil.parents = {} /\ DOMAIN citizens \ DOMAIN civil.parents = {}
    BY <2>2, <2>5
  <2>7. PapersInv
    BY <2>2, <2>5, <2>6, FS_EmptySet DEF PapersInv, RecordsRestOnPapers
  <2> QED BY <2>4, <2>7 DEF RegisterInv
<1>3. CASE part \in OfficeParts \cup {"hearths"}
  <2>1. citizens = Ranked("Regular", "Regular", "None", "None") /\ units = NoUnits
    BY <1>1, <1>3 DEF Settled, OfficeParts, UnitParts
  <2>2. OnRecord
    BY <2>1, RankedAreOnRecord
  <2> QED BY <1>3, <2>1, <2>2, InitWithoutUnits DEF RegisterInv, OnRecord, OfficeParts
<1>4. CASE part = "assembly"
  <2>1. citizens = Ranked("ArbadLeader", "ArbadLeader", "None", "None") /\ units = Assembly
    BY <1>1, <1>4 DEF Settled, OfficeParts, UnitParts
  <2>2. OnRecord
    BY <2>1, RankedAreOnRecord
  <2> QED BY <1>4, <2>1, <2>2, InitWithArbads DEF RegisterInv
<1>5. CASE part = "summit"
  <2>1. /\ citizens = Ranked("TumedLeader", "TumedLeader", "Legislative", "Executive")
        /\ units = Summit
    BY <1>1, <1>5 DEF Settled, OfficeParts, UnitParts
  <2>2. OnRecord
    BY <2>1, RankedAreOnRecord
  <2> QED BY <1>5, <2>1, <2>2, InitWithTumeds DEF RegisterInv
<1> QED BY <1>1, <1>2, <1>3, <1>4, <1>5 DEF UnitParts

\* Nothing of the register moves.
LEMMA RegisterRests ==
    ASSUME RegisterInv, UNCHANGED <<citizens, civil, units, part>>
    PROVE  RegisterInv'
<1>1. UnitsInv'
  BY NobodyChanges, RegisterChanges DEF RegisterInv, UnitsInv
<1>2. PapersInv => PapersInv'
  BY PapersUntouched DEF PapersInv, CivilOK
<1> QED BY <1>1, <1>2 DEF RegisterInv

\* Every step of the composition preserves the invariant.
LEMMA RegisterNextKeeps == RegisterInv /\ [MCNext]_MCvars => RegisterInv'
<1> SUFFICES ASSUME RegisterInv, [MCNext]_MCvars
             PROVE  RegisterInv'
  OBVIOUS
<1>1. UnitsInv /\ PeopleOK
  BY DEF RegisterInv, UnitsInv
<1>2. CASE RegisterNext
  <2>1. part' = part
    BY <1>2 DEF RegisterNext
  <2>2. CASE part = "registry" /\ RegistrationStep /\ UNCHANGED <<block, units>>
    BY <1>1, <2>1, <2>2, RegistrationSteps, RegisterChanges DEF RegisterInv
  <2>3. CASE part \in UnitParts /\ UnitStep
    BY <1>1, <2>1, <2>3, UnitSteps DEF RegisterInv, UnitParts
  <2>4. CASE part \in UnitParts /\ RootStep
    <3>1. PeopleChange({}) /\ units' = units
      BY <1>1, <2>4, RootSteps DEF RootStep
    <3> QED BY <1>1, <2>1, <2>4, <3>1, RegisterChanges DEF RegisterInv, UnitParts
  <2>5. CASE part = "hearths" /\ LateVerification
    <3>1. PICK c : c \in DOMAIN citizens /\ citizens' = [citizens EXCEPT ![c] = Verified(@)]
      BY <2>5 DEF LateVerification, verify_citizen, IsActiveCitizen, IsRegistered
    <3>2. PeopleChange({}) /\ units' = units
      BY <1>1, <2>5, <3>1, VerifySteps DEF LateVerification
    <3> QED BY <1>1, <2>1, <2>5, <3>2, RegisterChanges DEF RegisterInv
  <2>6. CASE Tick
    BY <2>1, <2>6, RegisterRests DEF Tick
  <2> QED BY <1>2, <2>2, <2>3, <2>4, <2>5, <2>6 DEF RegisterNext
<1>3. CASE OfficesNext /\ UNCHANGED registerVars
  BY <1>3, RegisterRests DEF OfficesNext, registerVars
<1>4. CASE UNCHANGED MCvars
  BY <1>4, RegisterRests DEF MCvars, registerVars
<1> QED BY <1>2, <1>3, <1>4 DEF MCNext

\* The units stand on the register, and the terms of their leaders are counted.
LEMMA RegisterInvariance == MCSpec => []RegisterInv
BY RegisterInit, RegisterNextKeeps, PTL DEF MCSpec

\* form_arbad to form_confederation, between registrations, the calls of Root on roles and
\* statuses and late verifications: a unit is of one nation down to its members, a Tumed of one
\* branch and a Khural of Legislative Tumeds, the register of leaders names units that they lead,
\* and every record rests on papers or on a birth that no other record was made from.
THEOREM UnitsStandOnTheRegister == MCSpec => []RegisterIsRooted
<1>1. RegisterInv => RegisterIsRooted
  BY DEF RegisterInv, UnitsInv, PapersInv, RegisterIsRooted
<1> QED BY <1>1, RegisterInvariance, PTL

\* form_khural and form_confederation: khural_terms_served is the number of Khurals and
\* Confederations that a citizen has ever led, and it is never more than two.
THEOREM TwoTermsAtMost == MCSpec => []TermsAreCounted
<1>1. RegisterInv => TermsAreCounted
  BY DEF RegisterInv, UnitsInv
<1> QED BY <1>1, RegisterInvariance, PTL
=============================================================================
