----------------------------- MODULE CivilProofs -----------------------------
(***************************************************************************)
(* Proofs about the pallets of MCCivil, for any number of people, calls    *)
(* and records.  Of ForeignAffairs: a council exists only beside a         *)
(* representative, without which a first representative could find a       *)
(* council somebody else appointed.  Of the guilds: what is counted is     *)
(* what is stored.  Of quests, shielded vaults and licences: what is held  *)
(* for somebody is there, and is settled once.  Of the organizations: the  *)
(* scan of every block comes to each of them in time, and what leaves the  *)
(* account of one is a declared tax or what a director spends.             *)
(***************************************************************************)
EXTENDS MCCivil, LedgerSums

-----------------------------------------------------------------------------
(* The delegation of the voice of a state                                  *)

ForeignTypeOK ==
    /\ foreign = [states |-> foreign.states, totalStates |-> foreign.totalStates,
                  Diplomatic |-> foreign.Diplomatic, Legalization |-> foreign.Legalization,
                  representative |-> foreign.representative, council |-> foreign.council]
    /\ \E D \in SUBSET Countries : foreign.representative \in [D -> Diplomats]
    /\ \E D \in SUBSET Countries : foreign.council \in [D -> SUBSET Diplomats]

CouncilIsAppointed == DOMAIN foreign.council \subseteq DOMAIN foreign.representative

ForeignInv == ForeignTypeOK /\ CouncilIsAppointed

\* A step that leaves the representatives and the councils as they are.
SameVoices ==
    /\ foreign' = [states |-> foreign'.states, totalStates |-> foreign'.totalStates,
                   Diplomatic |-> foreign'.Diplomatic, Legalization |-> foreign'.Legalization,
                   representative |-> foreign.representative, council |-> foreign.council]

\* What a step must do to keep VoiceIsDelegated.
VoicesFollow ==
    \A c \in Countries :
        At(foreign'.representative, c, {}) # At(foreign.representative, c, {})
           => /\ At(foreign'.council, c, {}) = {}
              /\ \A a \in Diplomats :
                    is_council_authorized(c, a)' => At(foreign'.representative, c, {}) = a

\* A call that touches neither representatives nor councils keeps the invariant.
LEMMA SameVoicesStep ==
    ASSUME ForeignInv, SameVoices
    PROVE  ForeignInv' /\ VoicesFollow
<1>1. foreign'.representative = foreign.representative /\ foreign'.council = foreign.council
  BY DEF SameVoices
<1>2. foreign' = [states |-> foreign'.states, totalStates |-> foreign'.totalStates,
                  Diplomatic |-> foreign'.Diplomatic, Legalization |-> foreign'.Legalization,
                  representative |-> foreign'.representative, council |-> foreign'.council]
  BY <1>1 DEF SameVoices
<1>3. ForeignInv'
  BY <1>1, <1>2 DEF ForeignInv, ForeignTypeOK, CouncilIsAppointed
<1>4. VoicesFollow
  BY <1>1 DEF VoicesFollow
<1> QED BY <1>3, <1>4

\* A new representative starts with no council.
LEMMA RepresentativeStep ==
    ASSUME ForeignInv, NEW c \in Countries, NEW r \in Diplomats, register_representative(c, r)
    PROVE  ForeignInv' /\ VoicesFollow
<1>1. /\ foreign' = [foreign EXCEPT !.representative = Put(foreign.representative, c, r),
                                    !.council = CouncilDismissed(c)]
      /\ foreign'.representative = Put(foreign.representative, c, r)
      /\ foreign'.council = CouncilDismissed(c)
  BY DEF register_representative, ForeignInv, ForeignTypeOK
<1>2. PICK D \in SUBSET Countries : foreign.representative \in [D -> Diplomats]
  BY DEF ForeignInv, ForeignTypeOK
<1>3. PICK E \in SUBSET Countries : foreign.council \in [E -> SUBSET Diplomats]
  BY DEF ForeignInv, ForeignTypeOK
<1>4. /\ foreign'.representative \in [D \cup {c} -> Diplomats]
      /\ foreign'.representative[c] = r
      /\ \A x \in D : x # c => foreign'.representative[x] = foreign.representative[x]
  BY <1>1, <1>2 DEF Put
<1>5. foreign'.council = Without(foreign.council, c)
  <2>1. CASE c \in DOMAIN foreign.representative
    BY <2>1, <1>1 DEF CouncilDismissed
  <2>2. CASE c \notin DOMAIN foreign.representative
    <3>1. E \ {c} = E
      BY <2>2, <1>2, <1>3 DEF ForeignInv, CouncilIsAppointed
    <3>2. Without(foreign.council, c) = foreign.council
      BY <3>1, <1>3 DEF Without
    <3> QED BY <2>2, <3>2, <1>1 DEF CouncilDismissed
  <2> QED BY <2>1, <2>2
<1>6. /\ foreign'.council \in [E \ {c} -> SUBSET Diplomats]
  BY <1>3, <1>5 DEF Without
<1>7. ForeignTypeOK'
  <2>1. D \cup {c} \in SUBSET Countries /\ E \ {c} \in SUBSET Countries
    OBVIOUS
  <2>2. foreign' = [states |-> foreign'.states, totalStates |-> foreign'.totalStates,
                    Diplomatic |-> foreign'.Diplomatic, Legalization |-> foreign'.Legalization,
                    representative |-> foreign'.representative, council |-> foreign'.council]
    BY <1>1 DEF ForeignInv, ForeignTypeOK
  <2>3. \E B \in SUBSET Countries : foreign'.representative \in [B -> Diplomats]
    BY <2>1, <1>4
  <2>4. \E B \in SUBSET Countries : foreign'.council \in [B -> SUBSET Diplomats]
    BY <2>1, <1>6
  <2> QED BY <2>2, <2>3, <2>4 DEF ForeignTypeOK
<1>8. CouncilIsAppointed'
  BY <1>2, <1>3, <1>4, <1>6 DEF ForeignInv, CouncilIsAppointed
<1>9. VoicesFollow
  <2> SUFFICES ASSUME NEW d \in Countries,
                      At(foreign'.representative, d, {}) # At(foreign.representative, d, {})
               PROVE  /\ At(foreign'.council, d, {}) = {}
                      /\ \A a \in Diplomats :
                            is_council_authorized(d, a)' => At(foreign'.representative, d, {}) = a
    BY DEF VoicesFollow
  <2>1. d = c
    BY <1>2, <1>4 DEF At
  <2>2. At(foreign'.council, d, {}) = {}
    BY <2>1, <1>6 DEF At
  <2>3. ASSUME NEW a \in Diplomats, is_council_authorized(d, a)'
        PROVE  At(foreign'.representative, d, {}) = a
    BY <2>2, <2>3 DEF is_council_authorized, At
  <2> QED BY <2>2, <2>3
<1> QED BY <1>7, <1>8, <1>9 DEF ForeignInv

\* Only the representative changes the council, and never who speaks first.
LEMMA CouncilChange ==
    ASSUME ForeignInv, NEW c \in DOMAIN foreign.representative, NEW members \in SUBSET Diplomats,
           foreign' = [foreign EXCEPT !.council = Put(foreign.council, c, members)]
    PROVE  ForeignInv' /\ VoicesFollow
<1>1. /\ foreign'.representative = foreign.representative
      /\ foreign'.council = Put(foreign.council, c, members)
  BY DEF ForeignInv, ForeignTypeOK
<1>2. PICK D \in SUBSET Countries : foreign.representative \in [D -> Diplomats]
  BY DEF ForeignInv, ForeignTypeOK
<1>3. PICK E \in SUBSET Countries : foreign.council \in [E -> SUBSET Diplomats]
  BY DEF ForeignInv, ForeignTypeOK
<1>4. foreign'.council \in [E \cup {c} -> SUBSET Diplomats] /\ E \cup {c} \in SUBSET Countries
  BY <1>1, <1>2, <1>3 DEF Put
<1>5. ForeignTypeOK'
  <2>1. foreign' = [states |-> foreign'.states, totalStates |-> foreign'.totalStates,
                    Diplomatic |-> foreign'.Diplomatic, Legalization |-> foreign'.Legalization,
                    representative |-> foreign'.representative, council |-> foreign'.council]
    BY DEF ForeignInv, ForeignTypeOK
  <2>2. \E B \in SUBSET Countries : foreign'.council \in [B -> SUBSET Diplomats]
    BY <1>4
  <2> QED BY <2>1, <2>2, <1>1, <1>2 DEF ForeignTypeOK
<1>6. CouncilIsAppointed'
  BY <1>1, <1>3, <1>4 DEF ForeignInv, CouncilIsAppointed
<1>7. VoicesFollow
  BY <1>1 DEF VoicesFollow
<1> QED BY <1>5, <1>6, <1>7 DEF ForeignInv

\* Every step keeps the invariant and the delegation.
LEMMA ForeignStepInv ==
    ASSUME ForeignInv, ForeignStep
    PROVE  ForeignInv' /\ VoicesFollow
<1>1. ASSUME NEW c \in Countries, NEW s \in DiplomaticStatus, register_foreign_state(c, s)
      PROVE  ForeignInv' /\ VoicesFollow
  <2>1. SameVoices
    BY <1>1 DEF register_foreign_state, SameVoices, ForeignInv, ForeignTypeOK
  <2> QED BY <2>1, SameVoicesStep
<1>2. ASSUME NEW c \in Countries, NEW s, update_diplomatic_status(c, s)
      PROVE  ForeignInv' /\ VoicesFollow
  <2>1. SameVoices
    BY <1>2 DEF update_diplomatic_status, SameVoices, ForeignInv, ForeignTypeOK
  <2> QED BY <2>1, SameVoicesStep
<1>3. ASSUME NEW c \in Countries, NEW a \in Diplomats,
             send_diplomatic_message(a, c, "DiplomaticNote")
      PROVE  ForeignInv' /\ VoicesFollow
  <2>1. SameVoices
    BY <1>3 DEF send_diplomatic_message, SameVoices, ForeignInv, ForeignTypeOK
  <2> QED BY <2>1, SameVoicesStep
<1>4. ASSUME NEW c \in Countries, NEW a \in Diplomats, submit_legalization_document(a, c)
      PROVE  ForeignInv' /\ VoicesFollow
  <2>1. SameVoices
    BY <1>4 DEF submit_legalization_document, SameVoices, ForeignInv, ForeignTypeOK
  <2> QED BY <2>1, SameVoicesStep
<1>5. ASSUME NEW c \in Countries, NEW a \in Diplomats, NEW k \in ChannelKind,
             NEW i \in 1 .. MaxChannelMessages, acknowledge_message(a, c, k, i)
      PROVE  ForeignInv' /\ VoicesFollow
  <2>1. SameVoices
    <3>1. CASE k = "Diplomatic"
      BY <1>5, <3>1 DEF acknowledge_message, SameVoices, ForeignInv, ForeignTypeOK
    <3>2. CASE k = "Legalization"
      BY <1>5, <3>2 DEF acknowledge_message, SameVoices, ForeignInv, ForeignTypeOK
    <3> QED BY <3>1, <3>2 DEF ChannelKind
  <2> QED BY <2>1, SameVoicesStep
<1>6. ASSUME NEW c \in Countries, NEW r \in Diplomats, register_representative(c, r)
      PROVE  ForeignInv' /\ VoicesFollow
  BY <1>6, RepresentativeStep
<1>7. ASSUME NEW c \in Countries, NEW a \in Diplomats, NEW b \in Diplomats,
             appoint_council_member(a, c, b)
      PROVE  ForeignInv' /\ VoicesFollow
  <2> DEFINE members == At(foreign.council, c, {}) \cup {b}
  <2>1. /\ c \in DOMAIN foreign.representative
        /\ foreign' = [foreign EXCEPT !.council = Put(foreign.council, c, members)]
    BY <1>7 DEF appoint_council_member, IsRepresentative
  <2>2. members \in SUBSET Diplomats
    BY DEF At, ForeignInv, ForeignTypeOK
  <2> QED BY <2>1, <2>2, CouncilChange
<1>8. ASSUME NEW c \in Countries, NEW a \in Diplomats, NEW b \in Diplomats,
             remove_council_member(a, c, b)
      PROVE  ForeignInv' /\ VoicesFollow
  <2> DEFINE members == foreign.council[c] \ {b}
  <2>1. c \in DOMAIN foreign.representative /\ c \in DOMAIN foreign.council
    BY <1>8 DEF remove_council_member, IsRepresentative, At
  <2>2. PICK E \in SUBSET Countries : foreign.council \in [E -> SUBSET Diplomats]
    BY DEF ForeignInv, ForeignTypeOK
  <2>3. [foreign.council EXCEPT ![c] = members] = Put(foreign.council, c, members)
    <3>1. DOMAIN foreign.council \cup {c} = DOMAIN foreign.council
      BY <2>1
    <3> QED BY <2>1, <2>2, <3>1 DEF Put
  <2>4. foreign' = [foreign EXCEPT !.council = Put(foreign.council, c, members)]
    BY <1>8, <2>3 DEF remove_council_member, ForeignInv, ForeignTypeOK
  <2>5. members \in SUBSET Diplomats
    BY <2>1, <2>2
  <2> QED BY <2>1, <2>4, <2>5, CouncilChange
<1> QED
  BY <1>1, <1>2, <1>3, <1>4, <1>5, <1>6, <1>7, <1>8 DEF ForeignStep, freeze_country_operations

\* The invariant holds before the first state is registered.
LEMMA ForeignInitInv == ForeignInit => ForeignInv
<1> SUFFICES ASSUME ForeignInit PROVE ForeignInv
  OBVIOUS
<1>1. foreign = [states |-> <<>>, totalStates |-> 0, Diplomatic |-> <<>>, Legalization |-> <<>>,
                 representative |-> <<>>, council |-> <<>>]
  BY DEF ForeignInit, NoStates
<1>2. /\ {} \in SUBSET Countries
      /\ foreign.representative \in [{} -> Diplomats]
      /\ foreign.council \in [{} -> SUBSET Diplomats]
  BY <1>1
<1>3. ForeignTypeOK
  BY <1>1, <1>2 DEF ForeignTypeOK
<1> QED BY <1>2, <1>3 DEF ForeignInv, CouncilIsAppointed

(***************************************************************************)
(* Of pallets/foreign-affairs: a new representative of a state starts      *)
(* without the council of the former one, who loses his own voice too.     *)
(***************************************************************************)
THEOREM DelegatedVoice == ForeignSpec => VoiceIsDelegated
<1>1. ForeignInit => ForeignInv
  BY ForeignInitInv
<1>2. ForeignInv /\ [ForeignStep]_foreign => ForeignInv'
  <2>1. ASSUME ForeignInv, UNCHANGED foreign
        PROVE  ForeignInv'
    BY <2>1 DEF ForeignInv, ForeignTypeOK, CouncilIsAppointed
  <2> QED BY <2>1, ForeignStepInv
<1>3. ForeignInv /\ [ForeignStep]_foreign => [VoicesFollow]_foreign
  BY ForeignStepInv
<1>4. ForeignSpec => [][VoicesFollow]_foreign
  BY <1>1, <1>2, <1>3, PTL DEF ForeignSpec
<1> QED BY <1>4 DEF VoiceIsDelegated, VoicesFollow

-----------------------------------------------------------------------------
(* The counts of the guilds                                                *)

GuildRecord == [founder : Artisans, quest_count : Nat, member_count : Nat]

QuestRecord ==
    [guild_id : Nat, employer : Artisans, reward : Nat, status : QuestStatus,
     assignee : {{}} \cup {{a} : a \in Artisans}, assignee_quest_count : Nat]

ProposalRecord ==
    [guild_id : Uuids, proposer : Artisans, votes_for : Nat, votes_against : Nat,
     status : ProposalStatus]

GuildsShape ==
    guilds = [guilds |-> guilds.guilds, members |-> guilds.members,
              questCount |-> guilds.questCount, quests |-> guilds.quests,
              achievements |-> guilds.achievements, holders |-> guilds.holders,
              unions |-> guilds.unions, nextUnionId |-> guilds.nextUnionId,
              unionOf |-> guilds.unionOf, gmVotes |-> guilds.gmVotes,
              academy |-> guilds.academy, byUuid |-> guilds.byUuid,
              proposals |-> guilds.proposals, ballots |-> guilds.ballots]

\* Of the guilds gs, the members ms and the quests qs.
RollsAgree(gs, ms, qs) ==
    /\ \E n \in Nat : gs \in Numbered(n, GuildRecord)
    /\ \E n \in Nat : qs \in Numbered(n, QuestRecord)
    /\ IsFiniteSet(DOMAIN ms)
    /\ \A k \in DOMAIN ms : k[1] \in DOMAIN gs
    /\ \A q \in DOMAIN qs : qs[q].guild_id \in DOMAIN gs
    /\ \A g \in DOMAIN gs :
          /\ gs[g].member_count = Cardinality({k \in DOMAIN ms : k[1] = g})
          /\ gs[g].quest_count = Cardinality({q \in DOMAIN qs : qs[q].guild_id = g})

\* The quests that k, a guild and a member, has done.
DoneBy(qs, k) ==
    {q \in DOMAIN qs :
        qs[q].guild_id = k[1] /\ qs[q].assignee = {k[2]} /\ qs[q].status = "Completed"}

DoneAgree(counts, qs) ==
    \A k \in DOMAIN counts : counts[k] \in Nat /\ counts[k] <= Cardinality(DoneBy(qs, k))

BallotsAreVotes(ps, bs) ==
    /\ IsFiniteSet(bs) /\ \A b \in bs : b[1] \in DOMAIN ps
    /\ \A p \in DOMAIN ps :
          /\ ps[p] \in ProposalRecord
          /\ ps[p].votes_for + ps[p].votes_against = Cardinality({b \in bs : b[1] = p})

GuildsInv ==
    /\ GuildsShape
    /\ RollsAgree(guilds.guilds, guilds.members, guilds.quests)
    /\ DoneAgree(guilds.questCount, guilds.quests)
    /\ BallotsAreVotes(guilds.proposals, guilds.ballots)

\* What the other calls leave as it is.
SameRolls ==
    /\ guilds'.guilds = guilds.guilds /\ guilds'.members = guilds.members
    /\ guilds'.questCount = guilds.questCount /\ guilds'.quests = guilds.quests
    /\ guilds'.proposals = guilds.proposals /\ guilds'.ballots = guilds.ballots

\* A call that writes none of this keeps it.
LEMMA OthersKeepRolls ==
    ASSUME GuildsInv, GuildsShape', SameRolls
    PROVE  GuildsInv'
<1>1. /\ RollsAgree(guilds'.guilds, guilds'.members, guilds'.quests)
      /\ DoneAgree(guilds'.questCount, guilds'.quests)
      /\ BallotsAreVotes(guilds'.proposals, guilds'.ballots)
  BY DEF GuildsInv, SameRolls
<1> QED BY <1>1 DEF GuildsInv

\* The calls about unions, their elections and the academy.
LEMMA UnionStepKeeps ==
    ASSUME GuildsInv, UnionStep
    PROVE  GuildsInv'
<1>1. ASSUME NEW a \in Artisans, NEW list \in GuildLists, form_guild_union(a, list)
      PROVE  GuildsInv'
  <2>1. GuildsShape' /\ SameRolls
    BY <1>1 DEF form_guild_union, GuildsInv, GuildsShape, SameRolls
  <2> QED BY <2>1, OthersKeepRolls
<1>2. ASSUME NEW a, NEW c, NEW u, NEW g, vote_for_grandmaster(a, u, g, c)
      PROVE  GuildsInv'
  <2> DEFINE union == guilds.unions[u]
             votes == Put(guilds.gmVotes, <<u, g>>, c)
             elected == tally_grandmaster_votes(votes, u, union.member_guild_count)
  <2>1. ASSUME NEW winner,
               guilds' = [guilds EXCEPT
                  !.gmVotes = Cleared(votes, u), !.unions[u].grandmaster = winner,
                  !.unions[u].election_votes_cast = 0,
                  !.academy = grant_academician(@, winner, union.level)]
        PROVE  GuildsShape' /\ SameRolls
    <3> HIDE DEF votes, union
    <3> QED BY <2>1 DEF GuildsInv, GuildsShape, SameRolls
  <2>2. ASSUME NEW n,
               guilds' = [guilds EXCEPT !.gmVotes = n, !.unions[u].election_votes_cast = 0]
        PROVE  GuildsShape' /\ SameRolls
    BY <2>2 DEF GuildsInv, GuildsShape, SameRolls
  <2>3. ASSUME NEW n, NEW k,
               guilds' = [guilds EXCEPT !.gmVotes = n, !.unions[u].election_votes_cast = k]
        PROVE  GuildsShape' /\ SameRolls
    BY <2>3 DEF GuildsInv, GuildsShape, SameRolls
  <2>4. \/ \E winner \in elected :
              guilds' = [guilds EXCEPT
                  !.gmVotes = Cleared(votes, u), !.unions[u].grandmaster = winner,
                  !.unions[u].election_votes_cast = 0,
                  !.academy = grant_academician(@, winner, union.level)]
        \/ guilds' = [guilds EXCEPT !.gmVotes = Cleared(votes, u),
                                    !.unions[u].election_votes_cast = 0]
        \/ guilds' = [guilds EXCEPT !.gmVotes = votes,
                                    !.unions[u].election_votes_cast = union.election_votes_cast + 1]
    BY <1>2 DEF vote_for_grandmaster
  <2>5. GuildsShape' /\ SameRolls
    <3> HIDE DEF votes, elected, union
    <3> QED BY <2>1, <2>2, <2>3, <2>4
  <2> QED BY <2>5, OthersKeepRolls
<1>3. ASSUME NEW a, NEW u, NEW peers, elevate_union(a, u, peers)
      PROVE  GuildsInv'
  <2>1. GuildsShape' /\ SameRolls
    BY <1>3 DEF elevate_union, GuildsInv, GuildsShape, SameRolls
  <2> QED BY <2>1, OthersKeepRolls
<1> QED BY <1>1, <1>2, <1>3 DEF UnionStep

-----------------------------------------------------------------------------
(* Members and guilds                                                      *)

\* The members of a guild and its quests, of the members ms and the quests qs.
MembersOf(ms, g) == {k \in DOMAIN ms : k[1] = g}
QuestsIn(qs, g) == {q \in DOMAIN qs : qs[q].guild_id = g}

\* The sets that the counters of a guild count are finite.
LEMMA RollsAreFinite ==
    ASSUME NEW gs, NEW ms, NEW qs, RollsAgree(gs, ms, qs), NEW g
    PROVE  /\ IsFiniteSet(DOMAIN gs) /\ IsFiniteSet(DOMAIN qs)
           /\ IsFiniteSet(MembersOf(ms, g)) /\ IsFiniteSet(QuestsIn(qs, g))
           /\ Cardinality(MembersOf(ms, g)) \in Nat /\ Cardinality(QuestsIn(qs, g)) \in Nat
<1>1. IsFiniteSet(DOMAIN gs) /\ IsFiniteSet(DOMAIN qs) /\ IsFiniteSet(DOMAIN ms)
  BY RecordsAreTyped DEF RollsAgree
<1>2. IsFiniteSet(MembersOf(ms, g)) /\ IsFiniteSet(QuestsIn(qs, g))
  BY <1>1, FS_Subset DEF MembersOf, QuestsIn
<1> QED BY <1>1, <1>2, FS_CardinalityType

\* A guild with its founder as only member.
LEMMA GuildFounded ==
    ASSUME NEW gs, NEW ms, NEW qs, RollsAgree(gs, ms, qs), NEW a \in Artisans,
           NEW gs2, NEW ms2,
           gs2 = Put(gs, FreshId(gs), [founder |-> a, quest_count |-> 0, member_count |-> 1]),
           ms2 = Put(ms, <<FreshId(gs), a>>, "Master")
    PROVE  RollsAgree(gs2, ms2, qs)
<1> DEFINE rec == [founder |-> a, quest_count |-> 0, member_count |-> 1]
<1>1. PICK n \in Nat : gs \in Numbered(n, GuildRecord)
  BY DEF RollsAgree
<1>2. rec \in GuildRecord /\ rec.quest_count = 0 /\ rec.member_count = 1
  BY DEF GuildRecord
<1> HIDE DEF rec
<1>3. FreshId(gs) = n /\ gs2 = Put(gs, n, rec) /\ ms2 = Put(ms, <<n, a>>, "Master")
  BY <1>1, <1>2, FreshRecord DEF rec
<1>4. /\ OneMore(gs, gs2, n, rec) /\ n + 1 \in Nat /\ gs2 \in Numbered(n + 1, GuildRecord)
  BY <1>1, <1>2, <1>3, FreshRecord
<1>5. DOMAIN ms2 = DOMAIN ms \cup {<<n, a>>} /\ IsFiniteSet(DOMAIN ms2)
  BY <1>3, FS_AddElement DEF Put, RollsAgree
<1>6. /\ \A k \in DOMAIN ms2 : k[1] \in DOMAIN gs2
      /\ \A q \in DOMAIN qs : qs[q].guild_id \in DOMAIN gs2
  BY <1>4, <1>5 DEF OneMore, RollsAgree
<1>7. ASSUME NEW g \in DOMAIN gs2
      PROVE  /\ gs2[g].member_count = Cardinality(MembersOf(ms2, g))
             /\ gs2[g].quest_count = Cardinality(QuestsIn(qs, g))
  <2>1. CASE g = n
    <3>1. MembersOf(ms2, g) = {<<n, a>>} /\ QuestsIn(qs, g) = {}
      BY <1>4, <1>5, <2>1 DEF MembersOf, QuestsIn, RollsAgree, OneMore
    <3>2. gs2[g] = rec
      BY <1>4, <2>1 DEF OneMore
    <3> QED BY <1>2, <3>1, <3>2, FS_EmptySet, FS_Singleton
  <2>2. CASE g # n
    <3>1. g \in DOMAIN gs /\ gs2[g] = gs[g]
      BY <1>4, <2>2 DEF OneMore
    <3>2. MembersOf(ms2, g) = MembersOf(ms, g)
      BY <1>5, <2>2 DEF MembersOf
    <3> QED BY <3>1, <3>2 DEF RollsAgree, MembersOf, QuestsIn
  <2> QED BY <2>1, <2>2
<1> QED BY <1>4, <1>5, <1>6, <1>7 DEF RollsAgree, MembersOf, QuestsIn

\* A record of a guild with one of its counters changed is a record of a guild.
LEMMA CounterRaised ==
    ASSUME NEW r \in GuildRecord
    PROVE  /\ LET s == [r EXCEPT !.member_count = @ + 1]
              IN  /\ s \in GuildRecord /\ s.member_count = r.member_count + 1
                  /\ s.quest_count = r.quest_count
           /\ LET s == [r EXCEPT !.quest_count = @ + 1]
              IN  /\ s \in GuildRecord /\ s.quest_count = r.quest_count + 1
                  /\ s.member_count = r.member_count
BY DEF GuildRecord

\* One more member of a guild.
LEMMA MemberJoined ==
    ASSUME NEW gs, NEW ms, NEW qs, RollsAgree(gs, ms, qs), NEW h \in DOMAIN gs, NEW a,
           <<h, a>> \notin DOMAIN ms, NEW role, NEW gs2, NEW ms2,
           gs2 = [gs EXCEPT ![h].member_count = @ + 1], ms2 = Put(ms, <<h, a>>, role)
    PROVE  RollsAgree(gs2, ms2, qs)
<1> DEFINE rec == [gs[h] EXCEPT !.member_count = @ + 1]
<1>1. PICK n \in Nat : gs \in Numbered(n, GuildRecord)
  BY DEF RollsAgree
<1>2. gs[h] \in GuildRecord
  BY <1>1, RecordsAreTyped
<1>3. /\ rec \in GuildRecord /\ rec.member_count = gs[h].member_count + 1
      /\ rec.quest_count = gs[h].quest_count
  BY <1>2, CounterRaised
<1>4. gs2 = [gs EXCEPT ![h] = rec]
  OBVIOUS
<1> HIDE DEF rec
<1>5. /\ gs2 \in Numbered(n, GuildRecord) /\ DOMAIN gs2 = DOMAIN gs
      /\ \A g \in DOMAIN gs : gs2[g] = IF g = h THEN rec ELSE gs[g]
  <2> DEFINE t == [gs EXCEPT ![h] = rec]
  <2>1. /\ t \in Numbered(n, GuildRecord) /\ DOMAIN t = DOMAIN gs
        /\ \A g \in DOMAIN gs : t[g] = IF g = h THEN rec ELSE gs[g]
    BY <1>1, <1>3, RecordChanged
  <2> HIDE DEF t
  <2>2. gs2 = t
    BY <1>4 DEF t
  <2> QED BY <2>1, <2>2
<1>6. DOMAIN ms2 = DOMAIN ms \cup {<<h, a>>} /\ IsFiniteSet(DOMAIN ms2)
  BY FS_AddElement DEF Put, RollsAgree
<1>7. ASSUME NEW g \in DOMAIN gs
      PROVE  /\ gs2[g].member_count = Cardinality(MembersOf(ms2, g))
             /\ gs2[g].quest_count = Cardinality(QuestsIn(qs, g))
  <2>1. /\ gs[g].member_count = Cardinality(MembersOf(ms, g))
        /\ gs[g].quest_count = Cardinality(QuestsIn(qs, g))
    BY DEF RollsAgree, MembersOf, QuestsIn
  <2>2. CASE g = h
    <3>1. MembersOf(ms2, g) = MembersOf(ms, g) \cup {<<h, a>>} /\ <<h, a>> \notin MembersOf(ms, g)
      BY <1>6, <2>2 DEF MembersOf
    <3>2. Cardinality(MembersOf(ms2, g)) = Cardinality(MembersOf(ms, g)) + 1
      BY <3>1, RollsAreFinite, FS_AddElement
    <3> QED BY <1>3, <1>5, <2>1, <2>2, <3>2
  <2>3. CASE g # h
    <3>1. MembersOf(ms2, g) = MembersOf(ms, g)
      BY <1>6, <2>3 DEF MembersOf
    <3> QED BY <1>5, <2>1, <2>3, <3>1
  <2> QED BY <2>2, <2>3
<1>8. \A k \in DOMAIN ms2 : k[1] \in DOMAIN gs2
  BY <1>5, <1>6 DEF RollsAgree
<1>9. /\ \E l \in Nat : qs \in Numbered(l, QuestRecord)
      /\ \A q \in DOMAIN qs : qs[q].guild_id \in DOMAIN gs2
  BY <1>5 DEF RollsAgree
<1>10. /\ \E l \in Nat : gs2 \in Numbered(l, GuildRecord)
       /\ \A g \in DOMAIN gs2 :
             /\ gs2[g].member_count = Cardinality(MembersOf(ms2, g))
             /\ gs2[g].quest_count = Cardinality(QuestsIn(qs, g))
  BY <1>5, <1>7
<1> HIDE DEF rec
<1> QED BY <1>6, <1>8, <1>9, <1>10 DEF RollsAgree, MembersOf, QuestsIn

\* Members with other roles.
LEMMA RolesChanged ==
    ASSUME NEW gs, NEW ms, NEW qs, RollsAgree(gs, ms, qs), NEW ms2, DOMAIN ms2 = DOMAIN ms
    PROVE  RollsAgree(gs, ms2, qs)
BY DEF RollsAgree

\* The storage with other rolls, counts and proposals.
OtherRolls(gs, ms, counts, qs, ac, ps, bs) ==
    [guilds |-> gs, members |-> ms, questCount |-> counts, quests |-> qs,
     achievements |-> guilds.achievements, holders |-> guilds.holders, unions |-> guilds.unions,
     nextUnionId |-> guilds.nextUnionId, unionOf |-> guilds.unionOf, gmVotes |-> guilds.gmVotes,
     academy |-> ac, byUuid |-> guilds.byUuid, proposals |-> ps, ballots |-> bs]

\* The storage keeps its shape, whatever is written.
LEMMA RollsWritten ==
    ASSUME NEW gs, NEW ms, NEW counts, NEW qs, NEW ac, NEW ps, NEW bs,
           guilds' = OtherRolls(gs, ms, counts, qs, ac, ps, bs),
           RollsAgree(gs, ms, qs), DoneAgree(counts, qs), BallotsAreVotes(ps, bs)
    PROVE  GuildsInv' /\ guilds'.quests = qs
<1>1. /\ guilds'.guilds = gs /\ guilds'.members = ms /\ guilds'.questCount = counts
      /\ guilds'.quests = qs /\ guilds'.proposals = ps /\ guilds'.ballots = bs
  BY DEF OtherRolls
<1>2. GuildsShape'
  BY DEF OtherRolls, GuildsShape
<1>3. GuildsInv'
  BY <1>1, <1>2 DEF GuildsInv
<1> QED BY <1>1, <1>3

\* The calls that found and join a guild, its roles and achievements.
LEMMA MemberStepKeeps ==
    ASSUME GuildsInv, MemberStep
    PROVE  GuildsInv'
<1> DEFINE gs == guilds.guilds
           ms == guilds.members
           qs == guilds.quests
           counts == guilds.questCount
           ac == guilds.academy
           ps == guilds.proposals
           bs == guilds.ballots
<1>0. /\ GuildsShape /\ RollsAgree(gs, ms, qs) /\ DoneAgree(counts, qs)
      /\ BallotsAreVotes(ps, bs)
  BY DEF GuildsInv
<1>1. ASSUME NEW a \in Artisans, create_guild(a)
      PROVE  GuildsInv'
  <2> DEFINE gs2 == Put(gs, FreshId(gs), [founder |-> a, quest_count |-> 0, member_count |-> 1])
             ms2 == Put(ms, <<FreshId(gs), a>>, "Master")
  <2>1. guilds' = [guilds EXCEPT !.guilds = gs2, !.members = ms2]
    BY <1>1 DEF create_guild, WithGuild
  <2>2. RollsAgree(gs2, ms2, qs)
    BY <1>0, GuildFounded
  <2> HIDE DEF gs2, ms2
  <2>3. guilds' = OtherRolls(gs2, ms2, counts, qs, ac, ps, bs)
    BY <1>0, <2>1 DEF GuildsShape, OtherRolls
  <2> QED BY <1>0, <2>2, <2>3, RollsWritten
<1>2. ASSUME NEW a \in Artisans, NEW g \in GuildIds, join_guild(a, g)
      PROVE  GuildsInv'
  <2> DEFINE gs2 == [gs EXCEPT ![g].member_count = @ + 1]
             ms2 == Put(ms, <<g, a>>, "Apprentice")
  <2>1. /\ guilds' = [guilds EXCEPT !.members = ms2, !.guilds[g].member_count = @ + 1]
        /\ g \in DOMAIN gs /\ <<g, a>> \notin DOMAIN ms
    BY <1>2 DEF join_guild, CanJoin
  <2>2. RollsAgree(gs2, ms2, qs)
    BY <1>0, <2>1, MemberJoined
  <2> HIDE DEF ms2
  <2>3. guilds' = OtherRolls(gs2, ms2, counts, qs, ac, ps, bs)
    BY <1>0, <2>1 DEF GuildsShape, OtherRolls
  <2> HIDE DEF gs2
  <2> QED BY <1>0, <2>2, <2>3, RollsWritten
<1>3. ASSUME NEW a \in Artisans, NEW g \in GuildIds, NEW b \in Artisans, NEW role \in MemberRole,
             promote_member(a, g, b, role)
      PROVE  GuildsInv'
  <2> DEFINE ms2 == [ms EXCEPT ![<<g, b>>] = role]
  <2>1. guilds' = [guilds EXCEPT !.members = ms2]
    BY <1>0, <1>3 DEF promote_member, GuildsShape
  <2>2. DOMAIN ms2 = DOMAIN ms
    OBVIOUS
  <2> HIDE DEF ms2
  <2>3. RollsAgree(gs, ms2, qs)
    BY <1>0, <2>2, RolesChanged
  <2>4. guilds' = OtherRolls(gs, ms2, counts, qs, ac, ps, bs)
    BY <1>0, <2>1 DEF GuildsShape, OtherRolls
  <2> QED BY <1>0, <2>3, <2>4, RollsWritten
<1>4. ASSUME NEW a \in Artisans, NEW g \in GuildIds, NEW b \in Artisans, NEW n \in 0 .. 1,
             propose_achievement(a, g, b, n)
      PROVE  GuildsInv'
  <2>1. PICK x, y : guilds' = [guilds EXCEPT !.achievements = x, !.holders = y]
    BY <1>4 DEF propose_achievement
  <2>2. GuildsShape' /\ SameRolls
    BY <1>0, <2>1 DEF GuildsShape, SameRolls
  <2> QED BY <2>2, OthersKeepRolls
<1> QED BY <1>1, <1>2, <1>3, <1>4 DEF MemberStep

-----------------------------------------------------------------------------
(* Proposals of the mirrored guilds                                        *)

BallotsOn(bs, p) == {b \in bs : b[1] = p}

\* A new proposal has no votes and no ballots.
LEMMA ProposalMade ==
    ASSUME NEW ps, NEW bs, BallotsAreVotes(ps, bs), NEW p, p \notin DOMAIN ps, NEW rec,
           rec \in ProposalRecord, rec.votes_for = 0, rec.votes_against = 0,
           NEW ps2, ps2 = Put(ps, p, rec)
    PROVE  BallotsAreVotes(ps2, bs)
<1>1. DOMAIN ps2 = DOMAIN ps \cup {p} /\ ps2[p] = rec /\ \A q \in DOMAIN ps : ps2[q] = ps[q]
  BY DEF Put
<1>2. BallotsOn(bs, p) = {}
  BY DEF BallotsOn, BallotsAreVotes
<1>3. Cardinality(BallotsOn(bs, p)) = 0
  BY <1>2, FS_EmptySet
<1>4. ASSUME NEW q \in DOMAIN ps2
      PROVE  /\ ps2[q] \in ProposalRecord
             /\ ps2[q].votes_for + ps2[q].votes_against = Cardinality(BallotsOn(bs, q))
  <2>1. CASE q = p
    BY <1>1, <1>3, <2>1
  <2>2. CASE q # p
    BY <1>1, <2>2 DEF BallotsAreVotes, BallotsOn
  <2> QED BY <2>1, <2>2
<1> QED BY <1>1, <1>4 DEF BallotsAreVotes, BallotsOn

\* A vote on a proposal is counted with its ballot.
LEMMA BallotCast ==
    ASSUME NEW ps, NEW bs, BallotsAreVotes(ps, bs), NEW p \in DOMAIN ps, NEW v,
           <<p, v>> \notin bs, NEW rec, rec \in ProposalRecord,
           rec.votes_for + rec.votes_against = ps[p].votes_for + ps[p].votes_against + 1,
           NEW ps2, ps2 = [ps EXCEPT ![p] = rec], NEW bs2, bs2 = bs \cup {<<p, v>>}
    PROVE  BallotsAreVotes(ps2, bs2)
<1>1. DOMAIN ps2 = DOMAIN ps /\ \A q \in DOMAIN ps : ps2[q] = IF q = p THEN rec ELSE ps[q]
  OBVIOUS
<1>2. IsFiniteSet(bs2) /\ \A b \in bs2 : b[1] \in DOMAIN ps2
  BY <1>1, FS_AddElement DEF BallotsAreVotes
<1>3. ASSUME NEW q \in DOMAIN ps
      PROVE  /\ ps2[q] \in ProposalRecord
             /\ ps2[q].votes_for + ps2[q].votes_against = Cardinality(BallotsOn(bs2, q))
  <2>1. /\ ps[q] \in ProposalRecord
        /\ ps[q].votes_for + ps[q].votes_against = Cardinality(BallotsOn(bs, q))
    BY DEF BallotsAreVotes, BallotsOn
  <2>2. CASE q = p
    <3>1. /\ BallotsOn(bs2, q) = BallotsOn(bs, q) \cup {<<p, v>>}
          /\ <<p, v>> \notin BallotsOn(bs, q) /\ IsFiniteSet(BallotsOn(bs, q))
      BY <2>2, FS_Subset DEF BallotsOn, BallotsAreVotes
    <3>2. Cardinality(BallotsOn(bs2, q)) = Cardinality(BallotsOn(bs, q)) + 1
      BY <3>1, FS_AddElement
    <3> QED BY <1>1, <2>1, <2>2, <3>2
  <2>3. CASE q # p
    <3>1. BallotsOn(bs2, q) = BallotsOn(bs, q)
      BY <2>3 DEF BallotsOn
    <3> QED BY <1>1, <2>1, <2>3, <3>1
  <2> QED BY <2>2, <2>3
<1> QED BY <1>1, <1>2, <1>3 DEF BallotsAreVotes, BallotsOn

\* The calls of the relayer: guilds by uuid, their councils, proposals and votes.
LEMMA CouncilCallsKeep ==
    ASSUME GuildsInv, CouncilStep
    PROVE  GuildsInv'
<1> DEFINE gs == guilds.guilds
           ms == guilds.members
           qs == guilds.quests
           counts == guilds.questCount
           ac == guilds.academy
           ps == guilds.proposals
           bs == guilds.ballots
<1>0. /\ GuildsShape /\ RollsAgree(gs, ms, qs) /\ DoneAgree(counts, qs)
      /\ BallotsAreVotes(ps, bs)
  BY DEF GuildsInv
<1>1. ASSUME NEW u, NEW a, NEW list, create_guild_from_relayer(u, a, list)
      PROVE  GuildsInv'
  <2>1. PICK x : guilds' = [guilds EXCEPT !.byUuid = x]
    BY <1>1 DEF create_guild_from_relayer
  <2>2. GuildsShape' /\ SameRolls
    BY <1>0, <2>1 DEF GuildsShape, SameRolls
  <2> QED BY <2>2, OthersKeepRolls
<1>2. ASSUME NEW u, NEW list, update_council_from_relayer(u, list)
      PROVE  GuildsInv'
  <2>1. guilds' = [guilds EXCEPT !.byUuid[u].council = list]
    BY <1>2 DEF update_council_from_relayer
  <2>2. GuildsShape' /\ SameRolls
    BY <1>0, <2>1 DEF GuildsShape, SameRolls
  <2> QED BY <2>2, OthersKeepRolls
<1>3. ASSUME NEW u \in Uuids, NEW p \in Uuids, NEW a \in Artisans,
             create_proposal_from_relayer(u, p, a)
      PROVE  GuildsInv'
  <2> DEFINE rec == [guild_id |-> u, proposer |-> a, votes_for |-> 0, votes_against |-> 0,
                     status |-> "Open"]
             ps2 == Put(ps, p, rec)
  <2>1. guilds' = [guilds EXCEPT !.proposals = ps2] /\ p \notin DOMAIN ps
    BY <1>3 DEF create_proposal_from_relayer
  <2>2. rec \in ProposalRecord /\ rec.votes_for = 0 /\ rec.votes_against = 0
    BY DEF ProposalRecord, ProposalStatus
  <2> HIDE DEF rec
  <2>3. BallotsAreVotes(ps2, bs)
    BY <1>0, <2>1, <2>2, ProposalMade
  <2> HIDE DEF ps2
  <2>4. guilds' = OtherRolls(gs, ms, counts, qs, ac, ps2, bs)
    BY <1>0, <2>1 DEF GuildsShape, OtherRolls
  <2> QED BY <1>0, <2>3, <2>4, RollsWritten
<1>4. ASSUME NEW u \in Uuids, NEW p \in Uuids, NEW a \in Artisans, NEW in_favor \in BOOLEAN,
             vote_proposal_from_relayer(u, p, a, in_favor)
      PROVE  GuildsInv'
  <2> DEFINE counted == IF in_favor THEN [ps[p] EXCEPT !.votes_for = @ + 1]
                        ELSE [ps[p] EXCEPT !.votes_against = @ + 1]
             rec == [counted EXCEPT !.status = Decision(counted, Len(guilds.byUuid[u].council))]
             ps2 == [ps EXCEPT ![p] = rec]
             bs2 == bs \cup {<<p, a>>}
  <2>1. /\ guilds' = [guilds EXCEPT !.ballots = bs2, !.proposals[p] = rec]
        /\ p \in DOMAIN ps /\ <<p, a>> \notin bs
    BY <1>4 DEF vote_proposal_from_relayer, WithBallot
  <2>2. ps[p] \in ProposalRecord
    BY <1>0, <2>1 DEF BallotsAreVotes
  <2>3. /\ counted \in ProposalRecord
        /\ counted.votes_for + counted.votes_against = ps[p].votes_for + ps[p].votes_against + 1
    BY <2>2 DEF ProposalRecord
  <2> HIDE DEF counted
  <2>4. Decision(counted, Len(guilds.byUuid[u].council)) \in ProposalStatus
    <3> DEFINE n == Len(guilds.byUuid[u].council)
    <3>1. (counted.votes_for > n \div 2) \/ ~(counted.votes_for > n \div 2)
      OBVIOUS
    <3> QED BY DEF Decision, ProposalStatus
  <2>5. /\ rec \in ProposalRecord
        /\ rec.votes_for + rec.votes_against = ps[p].votes_for + ps[p].votes_against + 1
    BY <2>3, <2>4 DEF ProposalRecord
  <2> HIDE DEF rec
  <2>6. BallotsAreVotes(ps2, bs2)
    BY <1>0, <2>1, <2>5, BallotCast
  <2> HIDE DEF bs2
  <2>7. guilds' = OtherRolls(gs, ms, counts, qs, ac, ps2, bs2)
    BY <1>0, <2>1 DEF GuildsShape, OtherRolls
  <2> HIDE DEF ps2
  <2> QED BY <1>0, <2>6, <2>7, RollsWritten
<1> QED BY <1>1, <1>2, <1>3, <1>4 DEF CouncilStep

-----------------------------------------------------------------------------
(* Quests                                                                  *)

\* What a call does to the quests that are there: what was done stays done.
QuestsMove(qs, qs2) ==
    /\ DOMAIN qs2 = DOMAIN qs
    /\ \A q \in DOMAIN qs :
          /\ qs2[q] \in QuestRecord
          /\ qs2[q].guild_id = qs[q].guild_id
          /\ qs2[q].employer = qs[q].employer /\ qs2[q].reward = qs[q].reward
          /\ qs[q].status = "Completed" => qs2[q] = qs[q]

\* The rolls stay true as the quests that are there move.
LEMMA QuestsMoved ==
    ASSUME NEW gs, NEW ms, NEW qs, NEW qs2, RollsAgree(gs, ms, qs), QuestsMove(qs, qs2)
    PROVE  qs2 = [q \in DOMAIN qs |-> qs2[q]] => RollsAgree(gs, ms, qs2)
<1> SUFFICES ASSUME qs2 = [q \in DOMAIN qs |-> qs2[q]]
             PROVE  RollsAgree(gs, ms, qs2)
  OBVIOUS
<1>1. PICK n \in Nat : qs \in Numbered(n, QuestRecord)
  BY DEF RollsAgree
<1>2. qs2 \in Numbered(n, QuestRecord)
  <2>1. DOMAIN qs = 0 .. n - 1
    BY <1>1, RecordsAreTyped
  <2>2. \A q \in 0 .. n - 1 : qs2[q] \in QuestRecord
    BY <2>1 DEF QuestsMove
  <2> QED BY <2>1, <2>2 DEF Numbered
<1>3. \A g : QuestsIn(qs2, g) = QuestsIn(qs, g)
  BY DEF QuestsMove, QuestsIn
<1> QED BY <1>2, <1>3 DEF RollsAgree, QuestsMove, QuestsIn

\* Nothing that was done is taken back.
LEMMA DoneStaysDone ==
    ASSUME NEW counts, NEW qs, NEW qs2, IsFiniteSet(DOMAIN qs2), DOMAIN qs \subseteq DOMAIN qs2,
           \A q \in DOMAIN qs : qs[q].status = "Completed" => qs2[q] = qs[q]
    PROVE  \A k : /\ DoneBy(qs, k) \subseteq DoneBy(qs2, k)
                  /\ IsFiniteSet(DoneBy(qs, k)) /\ Cardinality(DoneBy(qs, k)) \in Nat
                  /\ IsFiniteSet(DoneBy(qs2, k)) /\ Cardinality(DoneBy(qs2, k)) \in Nat
                  /\ Cardinality(DoneBy(qs, k)) <= Cardinality(DoneBy(qs2, k))
<1> TAKE k
<1>1. DoneBy(qs, k) \subseteq DoneBy(qs2, k)
  BY DEF DoneBy
<1>2. DoneBy(qs2, k) \subseteq DOMAIN qs2
  BY DEF DoneBy
<1>3. IsFiniteSet(DoneBy(qs2, k))
  BY <1>2, FS_Subset
<1> QED BY <1>1, <1>3, FS_Subset, FS_CardinalityType

\* With the counts that are there.
LEMMA CountsStay ==
    ASSUME NEW counts, NEW qs, NEW qs2, IsFiniteSet(DOMAIN qs2), DOMAIN qs \subseteq DOMAIN qs2,
           \A q \in DOMAIN qs : qs[q].status = "Completed" => qs2[q] = qs[q],
           DoneAgree(counts, qs)
    PROVE  DoneAgree(counts, qs2)
<1>1. SUFFICES ASSUME NEW k \in DOMAIN counts
               PROVE  counts[k] \in Nat /\ counts[k] <= Cardinality(DoneBy(qs2, k))
  BY DEF DoneAgree
<1>2. counts[k] \in Nat /\ counts[k] <= Cardinality(DoneBy(qs, k))
  BY DEF DoneAgree
<1>3. /\ Cardinality(DoneBy(qs, k)) \in Nat /\ Cardinality(DoneBy(qs2, k)) \in Nat
      /\ Cardinality(DoneBy(qs, k)) <= Cardinality(DoneBy(qs2, k))
  BY DoneStaysDone
<1> QED BY <1>2, <1>3

\* And with one more, of a quest done just now.
LEMMA CountRaised ==
    ASSUME NEW counts, NEW qs, NEW qs2, IsFiniteSet(DOMAIN qs2), DOMAIN qs \subseteq DOMAIN qs2,
           \A q \in DOMAIN qs : qs[q].status = "Completed" => qs2[q] = qs[q],
           DoneAgree(counts, qs), NEW k, NEW q \in DOMAIN qs, qs[q].status # "Completed",
           q \in DoneBy(qs2, k), NEW counts2, counts2 = Put(counts, k, At(counts, k, 0) + 1)
    PROVE  DoneAgree(counts2, qs2)
<1>1. /\ DOMAIN counts2 = DOMAIN counts \cup {k} /\ counts2[k] = At(counts, k, 0) + 1
      /\ \A j \in DOMAIN counts \ {k} : counts2[j] = counts[j]
  BY DEF Put
<1>2. \A j : /\ Cardinality(DoneBy(qs, j)) \in Nat /\ Cardinality(DoneBy(qs2, j)) \in Nat
             /\ Cardinality(DoneBy(qs, j)) <= Cardinality(DoneBy(qs2, j))
  BY DoneStaysDone
<1>3. At(counts, k, 0) \in Nat /\ At(counts, k, 0) <= Cardinality(DoneBy(qs, k))
  BY <1>2 DEF At, DoneAgree
<1>4. Cardinality(DoneBy(qs, k)) + 1 <= Cardinality(DoneBy(qs2, k))
  <2> DEFINE A == DoneBy(qs, k)
             B == DoneBy(qs2, k)
  <2>0. q \notin A /\ q \in B
    BY DEF DoneBy
  <2>1. A \subseteq B /\ IsFiniteSet(A) /\ IsFiniteSet(B) /\ q \in B /\ q \notin A
    BY <2>0, DoneStaysDone
  <2> HIDE DEF A, B
  <2>2. Cardinality(A \cup {q}) = Cardinality(A) + 1
    BY <2>1, FS_AddElement
  <2>3. Cardinality(A \cup {q}) <= Cardinality(B)
    BY <2>1, FS_Subset
  <2> QED BY <2>2, <2>3 DEF A, B
<1>5. ASSUME NEW j \in DOMAIN counts2
      PROVE  counts2[j] \in Nat /\ counts2[j] <= Cardinality(DoneBy(qs2, j))
  <2>1. CASE j = k
    BY <1>1, <1>2, <1>3, <1>4, <2>1
  <2>2. CASE j # k
    <3>1. counts2[j] = counts[j] /\ counts[j] \in Nat /\ counts[j] <= Cardinality(DoneBy(qs, j))
      BY <1>1, <2>2 DEF DoneAgree
    <3> QED BY <1>2, <3>1
  <2> QED BY <2>1, <2>2
<1> QED BY <1>5 DEF DoneAgree

\* One more quest of a guild.
LEMMA QuestPublished ==
    ASSUME NEW gs, NEW ms, NEW qs, RollsAgree(gs, ms, qs), NEW h \in DOMAIN gs,
           NEW rec \in QuestRecord, rec.guild_id = h, NEW gs2, NEW qs2,
           gs2 = [gs EXCEPT ![h].quest_count = @ + 1], qs2 = Put(qs, FreshId(qs), rec)
    PROVE  /\ RollsAgree(gs2, ms, qs2)
           /\ OneMore(qs, qs2, FreshId(qs), rec) /\ IsFiniteSet(DOMAIN qs2)
<1> DEFINE grec == [gs[h] EXCEPT !.quest_count = @ + 1]
           m == FreshId(qs)
<1>1. PICK n \in Nat : gs \in Numbered(n, GuildRecord)
  BY DEF RollsAgree
<1>2. gs[h] \in GuildRecord
  BY <1>1, RecordsAreTyped
<1>3. /\ grec \in GuildRecord /\ grec.quest_count = gs[h].quest_count + 1
      /\ grec.member_count = gs[h].member_count
  BY <1>2, CounterRaised
<1>4. gs2 = [gs EXCEPT ![h] = grec]
  OBVIOUS
<1> HIDE DEF grec
<1>5. /\ gs2 \in Numbered(n, GuildRecord) /\ DOMAIN gs2 = DOMAIN gs
      /\ \A g \in DOMAIN gs : gs2[g] = IF g = h THEN grec ELSE gs[g]
  <2> DEFINE t == [gs EXCEPT ![h] = grec]
  <2>1. /\ t \in Numbered(n, GuildRecord) /\ DOMAIN t = DOMAIN gs
        /\ \A g \in DOMAIN gs : t[g] = IF g = h THEN grec ELSE gs[g]
    BY <1>1, <1>3, RecordChanged
  <2> HIDE DEF t
  <2>2. gs2 = t
    BY <1>4 DEF t
  <2> QED BY <2>1, <2>2
<1>6. PICK l \in Nat : qs \in Numbered(l, QuestRecord)
  BY DEF RollsAgree
<1>7. m = l /\ OneMore(qs, qs2, l, rec) /\ l + 1 \in Nat /\ qs2 \in Numbered(l + 1, QuestRecord)
  BY <1>6, FreshRecord
<1> HIDE DEF m
<1>8. IsFiniteSet(DOMAIN qs2)
  BY <1>7, RecordsAreTyped
<1>9. \A q \in DOMAIN qs2 : qs2[q].guild_id \in DOMAIN gs2
  BY <1>5, <1>7 DEF OneMore, RollsAgree
<1>10. ASSUME NEW g \in DOMAIN gs
       PROVE  /\ gs2[g].member_count = Cardinality(MembersOf(ms, g))
              /\ gs2[g].quest_count = Cardinality(QuestsIn(qs2, g))
  <2>1. /\ gs[g].member_count = Cardinality(MembersOf(ms, g))
        /\ gs[g].quest_count = Cardinality(QuestsIn(qs, g))
    BY DEF RollsAgree, MembersOf, QuestsIn
  <2>2. CASE g = h
    <3>1. QuestsIn(qs2, g) = QuestsIn(qs, g) \cup {l} /\ l \notin QuestsIn(qs, g)
      BY <1>7, <2>2 DEF QuestsIn, OneMore
    <3>2. Cardinality(QuestsIn(qs2, g)) = Cardinality(QuestsIn(qs, g)) + 1
      BY <3>1, RollsAreFinite, FS_AddElement
    <3> QED BY <1>3, <1>5, <2>1, <2>2, <3>2
  <2>3. CASE g # h
    <3>1. QuestsIn(qs2, g) = QuestsIn(qs, g)
      BY <1>7, <2>3 DEF QuestsIn, OneMore
    <3> QED BY <1>5, <2>1, <2>3, <3>1
  <2> QED BY <2>2, <2>3
<1>11. RollsAgree(gs2, ms, qs2)
  BY <1>5, <1>7, <1>9, <1>10 DEF RollsAgree, MembersOf, QuestsIn
<1> QED BY <1>7, <1>8, <1>11 DEF m

\* One quest changes, and was not done before.
OneQuest(qs, qs2, q, rec) ==
    /\ DOMAIN qs2 = DOMAIN qs /\ qs2[q] = rec
    /\ \A j \in DOMAIN qs \ {q} : qs2[j] = qs[j]

\* The rolls stay true as one quest moves that was not done.
LEMMA OneQuestMoves ==
    ASSUME NEW gs, NEW ms, NEW qs, RollsAgree(gs, ms, qs), NEW q \in DOMAIN qs,
           NEW rec \in QuestRecord, rec.guild_id = qs[q].guild_id,
           rec.employer = qs[q].employer, rec.reward = qs[q].reward,
           qs[q].status # "Completed", NEW qs2, qs2 = [qs EXCEPT ![q] = rec]
    PROVE  /\ OneQuest(qs, qs2, q, rec) /\ RollsAgree(gs, ms, qs2) /\ IsFiniteSet(DOMAIN qs2)
           /\ \A j \in DOMAIN qs : qs[j].status = "Completed" => qs2[j] = qs[j]
<1>1. OneQuest(qs, qs2, q, rec) /\ qs2 = [j \in DOMAIN qs |-> qs2[j]]
  BY DEF OneQuest
<1>2. \A j \in DOMAIN qs : qs[j] \in QuestRecord
  BY RecordsAreTyped DEF RollsAgree
<1>3. QuestsMove(qs, qs2)
  <2> SUFFICES ASSUME NEW j \in DOMAIN qs
               PROVE  /\ qs2[j] \in QuestRecord /\ qs2[j].guild_id = qs[j].guild_id
                      /\ qs2[j].employer = qs[j].employer /\ qs2[j].reward = qs[j].reward
                      /\ qs[j].status = "Completed" => qs2[j] = qs[j]
    BY <1>1 DEF QuestsMove, OneQuest
  <2>1. CASE j = q
    BY <1>1, <2>1 DEF OneQuest
  <2>2. CASE j # q
    BY <1>1, <1>2, <2>2 DEF OneQuest
  <2> QED BY <2>1, <2>2
<1>4. RollsAgree(gs, ms, qs2)
  BY <1>1, <1>3, QuestsMoved
<1>5. IsFiniteSet(DOMAIN qs2)
  BY <1>4, RollsAreFinite
<1> QED BY <1>1, <1>3, <1>4, <1>5 DEF QuestsMove

-----------------------------------------------------------------------------
(* The calls about quests                                                  *)

Pending == {"Open", "InProgress", "Review"}

QuestsAreTyped(qs) == IsFiniteSet(DOMAIN qs) /\ \A q \in DOMAIN qs : qs[q] \in QuestRecord

\* What the calls about a quest start from.
LEMMA QuestFacts ==
    ASSUME GuildsInv
    PROVE  /\ GuildsShape /\ RollsAgree(guilds.guilds, guilds.members, guilds.quests)
           /\ DoneAgree(guilds.questCount, guilds.quests)
           /\ BallotsAreVotes(guilds.proposals, guilds.ballots)
           /\ QuestsAreTyped(guilds.quests)
<1>1. QuestsAreTyped(guilds.quests)
  BY RecordsAreTyped DEF GuildsInv, RollsAgree, QuestsAreTyped
<1> QED BY <1>1 DEF GuildsInv

\* The record t is that of the quest r at a later time, with the status s.
LaterQuest(t, r, s) ==
    /\ t \in QuestRecord /\ t.status = s
    /\ t.guild_id = r.guild_id /\ t.employer = r.employer /\ t.reward = r.reward

\* A record with another status and another assignee.
LEMMA QuestRecordMoves ==
    ASSUME NEW r \in QuestRecord
    PROVE  /\ r.employer \in Artisans /\ r.reward \in Nat
           /\ r.assignee \in {{}} \cup {{a} : a \in Artisans}
           /\ \A s \in QuestStatus :
                 /\ LaterQuest([r EXCEPT !.status = s], r, s)
                 /\ [r EXCEPT !.status = s].assignee = r.assignee
                 /\ \A a \in Artisans : LaterQuest([r EXCEPT !.status = s, !.assignee = {a}], r, s)
                 /\ \A n \in Nat :
                       /\ LaterQuest([r EXCEPT !.status = s, !.assignee_quest_count = n], r, s)
                       /\ [r EXCEPT !.status = s, !.assignee_quest_count = n].assignee = r.assignee
BY DEF QuestRecord, LaterQuest

\* A quest is written, and the counts are other.
LEMMA QuestWritten ==
    ASSUME GuildsInv, NEW q \in DOMAIN guilds.quests, guilds.quests[q].status # "Completed",
           NEW rec \in QuestRecord, rec.guild_id = guilds.quests[q].guild_id,
           rec.employer = guilds.quests[q].employer, rec.reward = guilds.quests[q].reward,
           NEW counts2,
           \/ counts2 = guilds.questCount
           \/ \E a : /\ rec.assignee = {a} /\ rec.status = "Completed"
                     /\ counts2 = CountQuest(guilds.quests[q], a),
           guilds' = [guilds EXCEPT !.questCount = counts2,
                               !.quests = [guilds.quests EXCEPT ![q] = rec]]
    PROVE  GuildsInv' /\ OneQuest(guilds.quests, guilds'.quests, q, rec)
<1> DEFINE qs == guilds.quests
           qs2 == [guilds.quests EXCEPT ![q] = rec]
           counts == guilds.questCount
<1>1. /\ GuildsShape /\ RollsAgree(guilds.guilds, guilds.members, qs)
      /\ DoneAgree(counts, qs) /\ BallotsAreVotes(guilds.proposals, guilds.ballots)
  BY QuestFacts
<1>2. /\ OneQuest(qs, qs2, q, rec) /\ RollsAgree(guilds.guilds, guilds.members, qs2)
      /\ IsFiniteSet(DOMAIN qs2)
      /\ \A j \in DOMAIN qs : qs[j].status = "Completed" => qs2[j] = qs[j]
  BY <1>1, OneQuestMoves
<1>3. guilds' = OtherRolls(guilds.guilds, guilds.members, counts2, qs2, guilds.academy,
                           guilds.proposals, guilds.ballots)
  BY <1>1 DEF GuildsShape, OtherRolls
<1> HIDE DEF qs2
<1>4. DoneAgree(counts2, qs2)
  <2>1. DOMAIN qs2 = DOMAIN qs
    BY <1>2 DEF OneQuest
  <2>2. CASE counts2 = counts
    BY <1>1, <1>2, <2>1, <2>2, CountsStay
  <2>3. ASSUME NEW a, rec.assignee = {a}, rec.status = "Completed", counts2 = CountQuest(qs[q], a)
        PROVE  DoneAgree(counts2, qs2)
    <3> DEFINE k == <<qs[q].guild_id, a>>
    <3>1. q \in DoneBy(qs2, k)
      BY <1>2, <2>3 DEF DoneBy, OneQuest
    <3>2. counts2 = Put(counts, k, At(counts, k, 0) + 1)
      BY <2>3 DEF CountQuest
    <3> HIDE DEF k
    <3> QED BY <1>1, <1>2, <2>1, <3>1, <3>2, CountRaised
  <2> QED BY <2>2, <2>3
<1>5. GuildsInv' /\ guilds'.quests = qs2
  BY <1>1, <1>2, <1>3, <1>4, RollsWritten
<1>7. OneQuest(guilds.quests, guilds'.quests, q, rec)
  BY <1>2, <1>5, Zenon
<1> QED BY <1>5, <1>7

\* A quest more.
LEMMA PublishStep ==
    ASSUME GuildsInv, NEW a \in Artisans, NEW g, NEW r \in Rewards, publish_quest(a, g, r)
    PROVE  GuildsInv'
<1> DEFINE qs == guilds.quests
           rec == NewQuest(g, a, r)
           gs2 == [guilds.guilds EXCEPT ![g].quest_count = @ + 1]
           qs2 == Put(qs, FreshId(qs), rec)
<1>1. /\ GuildsShape /\ RollsAgree(guilds.guilds, guilds.members, qs)
      /\ DoneAgree(guilds.questCount, qs) /\ BallotsAreVotes(guilds.proposals, guilds.ballots)
      /\ QuestsAreTyped(qs)
  BY QuestFacts
<1>2. /\ g \in DOMAIN guilds.guilds /\ reserve(a, r)
      /\ guilds' = [guilds EXCEPT !.quests = qs2, !.guilds[g].quest_count = @ + 1]
  BY DEF publish_quest
<1>3. g \in Nat /\ r \in Nat
  <2>1. \A h \in DOMAIN guilds.guilds : h \in Nat
    BY <1>1, RecordsAreTyped DEF RollsAgree
  <2> QED BY <1>2, <2>1, GuildsAssumption
<1>4. /\ rec \in QuestRecord /\ rec.guild_id = g /\ rec.employer = a /\ rec.reward = r
      /\ rec.status \in Pending
  BY <1>3 DEF NewQuest, QuestRecord, QuestStatus, Pending
<1> HIDE DEF rec
<1>5. /\ RollsAgree(gs2, guilds.members, qs2) /\ OneMore(qs, qs2, FreshId(qs), rec)
      /\ IsFiniteSet(DOMAIN qs2)
  BY <1>1, <1>2, <1>4, QuestPublished
<1>6. guilds' = OtherRolls(gs2, guilds.members, guilds.questCount, qs2, guilds.academy,
                           guilds.proposals, guilds.ballots)
  BY <1>1, <1>2 DEF GuildsShape, OtherRolls
<1> HIDE DEF qs2, gs2
<1>7. DoneAgree(guilds.questCount, qs2)
  <2>1. /\ DOMAIN qs \subseteq DOMAIN qs2
        /\ \A q \in DOMAIN qs : qs[q].status = "Completed" => qs2[q] = qs[q]
    BY <1>5 DEF OneMore
  <2> QED BY <1>1, <1>5, <2>1, CountsStay
<1>8. GuildsInv'
  BY <1>1, <1>5, <1>6, <1>7, RollsWritten
<1> QED BY <1>8

\* A quest is taken, or handed in.
LEMMA WorkStep ==
    ASSUME GuildsInv, NEW a \in Artisans, NEW q, assign_quest(a, q) \/ submit_quest(a, q)
    PROVE  GuildsInv'
<1> DEFINE qs == guilds.quests
           rec == IF qs[q].status = "Open"
                  THEN [qs[q] EXCEPT !.status = "InProgress", !.assignee = {a}]
                  ELSE [qs[q] EXCEPT !.status = "Review"]
<1>1. GuildsShape /\ QuestsAreTyped(qs)
  BY QuestFacts
<1>2. /\ q \in DOMAIN qs /\ qs[q].status \in {"Open", "InProgress"} /\ UNCHANGED ledger
      /\ guilds' = [guilds EXCEPT !.questCount = guilds.questCount,
                                  !.quests = [guilds.quests EXCEPT ![q] = rec]]
  <2>1. CASE assign_quest(a, q)
    BY <1>1, <2>1 DEF assign_quest, Is, GuildsShape
  <2>2. CASE submit_quest(a, q)
    BY <1>1, <2>2 DEF submit_quest, Is, GuildsShape
  <2> QED BY <2>1, <2>2
<1>3. qs[q] \in QuestRecord
  BY <1>1, <1>2 DEF QuestsAreTyped
<1>4. /\ rec \in QuestRecord /\ rec.guild_id = qs[q].guild_id
      /\ rec.employer = qs[q].employer /\ rec.reward = qs[q].reward /\ rec.status \in Pending
  <2>1. "InProgress" \in QuestStatus /\ "Review" \in QuestStatus
    BY DEF QuestStatus
  <2> DEFINE r == qs[q]
  <2> HIDE DEF r
  <2>2. r \in QuestRecord
    BY <1>3 DEF r
  <2>3. /\ LaterQuest([r EXCEPT !.status = "InProgress", !.assignee = {a}], r, "InProgress")
        /\ LaterQuest([r EXCEPT !.status = "Review"], r, "Review")
    BY <2>1, <2>2, QuestRecordMoves
  <2>4. LaterQuest(rec, r, "InProgress") \/ LaterQuest(rec, r, "Review")
    BY <2>3 DEF r
  <2> HIDE DEF rec
  <2> QED BY <2>4 DEF LaterQuest, Pending, r
<1> HIDE DEF rec
<1>5. GuildsInv' /\ OneQuest(qs, guilds'.quests, q, rec)
  BY <1>2, <1>4, QuestWritten
<1> QED BY <1>5

\* A quest ends.
LEMMA QuestEnds ==
    ASSUME GuildsInv, NEW q \in DOMAIN guilds.quests, guilds.quests[q].status \in Pending,
           NEW rec \in QuestRecord, rec.guild_id = guilds.quests[q].guild_id,
           rec.employer = guilds.quests[q].employer, rec.reward = guilds.quests[q].reward,
           rec.status = "Completed", NEW counts2,
           \/ counts2 = guilds.questCount
           \/ \E a : rec.assignee = {a} /\ counts2 = CountQuest(guilds.quests[q], a),
           guilds' = [guilds EXCEPT !.questCount = counts2,
                               !.quests = [guilds.quests EXCEPT ![q] = rec]]
    PROVE  GuildsInv'
BY QuestWritten DEF Pending

\* A quest that is done counts for the assignee.
LEMMA CompleteStep ==
    ASSUME GuildsInv, NEW a \in Artisans, NEW q, complete_quest(a, q)
    PROVE  GuildsInv'
<1> DEFINE quest == guilds.quests[q]
<1>1. GuildsShape /\ QuestsAreTyped(guilds.quests) /\ DoneAgree(guilds.questCount, guilds.quests)
  BY QuestFacts
<1>2. q \in DOMAIN guilds.quests /\ quest.status = "Review"
  BY DEF complete_quest, Is
<1>3. PICK b \in quest.assignee :
         guilds' = [guilds EXCEPT
            !.questCount = CountQuest(quest, b),
            !.quests[q].status = "Completed",
            !.quests[q].assignee_quest_count = CountQuest(quest, b)[<<quest.guild_id, b>>]]
  BY DEF complete_quest
<1>4. quest \in QuestRecord
  BY <1>1, <1>2 DEF QuestsAreTyped
<1>5. quest.assignee = {b} /\ b \in Artisans
  <2> HIDE DEF quest
  <2>1. quest.assignee \in {{}} \cup {{x} : x \in Artisans}
    BY <1>4, QuestRecordMoves
  <2> QED BY <1>3, <2>1
<1> DEFINE n == CountQuest(quest, b)[<<quest.guild_id, b>>]
           counts2 == CountQuest(quest, b)
           rec == [quest EXCEPT !.status = "Completed", !.assignee_quest_count = n]
<1>6. n \in Nat
  BY <1>1 DEF CountQuest, Put, At, DoneAgree
<1> HIDE DEF n, counts2
<1>7. /\ rec \in QuestRecord /\ rec.guild_id = quest.guild_id /\ rec.employer = quest.employer
      /\ rec.reward = quest.reward /\ rec.status = "Completed" /\ rec.assignee = {b}
  <2>1. "Completed" \in QuestStatus
    BY DEF QuestStatus
  <2> HIDE DEF quest
  <2>2. LaterQuest(rec, quest, "Completed") /\ rec.assignee = quest.assignee
    BY <1>4, <1>6, <2>1, QuestRecordMoves
  <2> QED BY <1>5, <2>2 DEF LaterQuest
<1>8. guilds' = [guilds EXCEPT !.questCount = counts2,
                               !.quests = [guilds.quests EXCEPT ![q] = rec]]
  BY <1>1, <1>2, <1>3, <1>4 DEF n, counts2, GuildsShape, QuestRecord
<1> HIDE DEF rec
<1>9. counts2 = CountQuest(guilds.quests[q], b) /\ guilds.quests[q].status \in Pending
  BY <1>2 DEF counts2, Pending
<1> QED BY <1>2, <1>5, <1>7, <1>8, <1>9, QuestEnds

\* A master decides who is paid for a quest that was handed in.
LEMMA ResolveStep ==
    ASSUME GuildsInv, NEW a \in Artisans, NEW q, NEW b \in Artisans, force_resolve_quest(a, q, b)
    PROVE  GuildsInv'
<1> DEFINE quest == guilds.quests[q]
           counts2 == IF quest.assignee = {b} THEN CountQuest(quest, b) ELSE guilds.questCount
           rec == [quest EXCEPT !.status = "Completed"]
<1>1. GuildsShape /\ QuestsAreTyped(guilds.quests)
  BY QuestFacts
<1>2. q \in DOMAIN guilds.quests /\ quest.status = "Review"
  BY DEF force_resolve_quest, Is
<1>3. guilds' = [guilds EXCEPT
            !.questCount = IF quest.assignee = {b} THEN CountQuest(quest, b) ELSE @,
            !.quests[q].status = "Completed"]
  BY DEF force_resolve_quest
<1>4. quest \in QuestRecord
  BY <1>1, <1>2 DEF QuestsAreTyped
<1>5. LaterQuest(rec, quest, "Completed") /\ rec.assignee = quest.assignee
  <2> HIDE DEF quest
  <2>1. "Completed" \in QuestStatus
    BY DEF QuestStatus
  <2> QED BY <1>4, <2>1, QuestRecordMoves
<1>6. guilds' = [guilds EXCEPT !.questCount = counts2,
                               !.quests = [guilds.quests EXCEPT ![q] = rec]]
  BY <1>1, <1>3 DEF GuildsShape
<1>7. \/ counts2 = guilds.questCount
      \/ rec.assignee = {b} /\ counts2 = CountQuest(guilds.quests[q], b)
  BY <1>5
<1> HIDE DEF counts2, rec
<1>8. /\ rec \in QuestRecord /\ rec.guild_id = guilds.quests[q].guild_id
      /\ rec.employer = guilds.quests[q].employer /\ rec.reward = guilds.quests[q].reward
      /\ rec.status = "Completed"
      /\ guilds.quests[q].status \in Pending
  BY <1>2, <1>3, <1>5 DEF LaterQuest, Pending
<1> QED BY <1>2, <1>6, <1>7, <1>8, QuestEnds

\* A quest that nobody took is cancelled.
LEMMA CancelStep ==
    ASSUME GuildsInv, NEW a \in Artisans, NEW q, cancel_quest(a, q)
    PROVE  GuildsInv'
<1> DEFINE quest == guilds.quests[q]
           rec == [quest EXCEPT !.status = "Completed"]
<1>1. GuildsShape /\ QuestsAreTyped(guilds.quests)
  BY QuestFacts
<1>2. /\ q \in DOMAIN guilds.quests /\ quest.status = "Open"
      /\ guilds' = [guilds EXCEPT !.quests[q].status = "Completed"]
  BY DEF cancel_quest, Is
<1>3. quest \in QuestRecord
  BY <1>1, <1>2 DEF QuestsAreTyped
<1>4. LaterQuest(rec, quest, "Completed")
  <2> HIDE DEF quest
  <2>1. "Completed" \in QuestStatus
    BY DEF QuestStatus
  <2> QED BY <1>3, <2>1, QuestRecordMoves
<1> DEFINE counts2 == guilds.questCount
<1>5. guilds' = [guilds EXCEPT !.questCount = counts2,
                               !.quests = [guilds.quests EXCEPT ![q] = rec]]
  BY <1>1, <1>2 DEF GuildsShape
<1>6. \/ counts2 = guilds.questCount
      \/ \E b : rec.assignee = {b} /\ counts2 = CountQuest(guilds.quests[q], b)
  OBVIOUS
<1> HIDE DEF rec, counts2
<1>7. /\ rec \in QuestRecord /\ rec.guild_id = guilds.quests[q].guild_id
      /\ rec.employer = guilds.quests[q].employer /\ rec.reward = guilds.quests[q].reward
      /\ rec.status = "Completed"
      /\ guilds.quests[q].status \in Pending
  BY <1>2, <1>4 DEF LaterQuest, Pending
<1>8. q \in DOMAIN guilds.quests
  BY <1>2
<1> QED BY <1>5, <1>6, <1>7, <1>8, QuestEnds

\* The quests of a citizen who died or was exiled.
LEMMA CleanupStep ==
    ASSUME GuildsInv, NEW a \in Artisans, cleanup_account(a)
    PROVE  GuildsInv'
<1> DEFINE qs == guilds.quests
           gone == QuestsOf(a, {"Open", "InProgress"})
           qs2 == QuestsAfterCleanup(a)
<1>1. /\ GuildsShape /\ RollsAgree(guilds.guilds, guilds.members, qs)
      /\ DoneAgree(guilds.questCount, qs) /\ BallotsAreVotes(guilds.proposals, guilds.ballots)
      /\ QuestsAreTyped(qs)
  BY QuestFacts
<1>3. guilds' = [guilds EXCEPT !.quests = qs2, !.academy = @ \ {a}]
  BY DEF cleanup_account, GuildsAfterCleanup
<1>4. qs2 = [q \in DOMAIN qs |->
                IF q \in gone THEN [qs[q] EXCEPT !.status = "Cancelled"] ELSE qs[q]]
  BY Zenon DEF QuestsAfterCleanup
<1>5. gone \subseteq DOMAIN qs /\ \A q \in gone : qs[q].status \in {"Open", "InProgress"}
  BY DEF QuestsOf
<1> HIDE DEF gone, qs2
<1>6. /\ DOMAIN qs2 = DOMAIN qs /\ qs2 = [q \in DOMAIN qs |-> qs2[q]]
      /\ \A q \in gone : qs2[q] = [qs[q] EXCEPT !.status = "Cancelled"]
      /\ \A q \in DOMAIN qs \ gone : qs2[q] = qs[q]
  BY <1>4, <1>5
<1>7. ASSUME NEW q \in gone
      PROVE  LaterQuest(qs2[q], qs[q], "Cancelled")
  <2> DEFINE r == qs[q]
  <2>1. r \in QuestRecord /\ "Cancelled" \in QuestStatus
    BY <1>1, <1>5 DEF QuestsAreTyped, QuestStatus
  <2>2. qs2[q] = [r EXCEPT !.status = "Cancelled"]
    BY <1>6
  <2> HIDE DEF r
  <2>3. LaterQuest([r EXCEPT !.status = "Cancelled"], r, "Cancelled")
    BY <2>1, QuestRecordMoves
  <2>4. LaterQuest(qs2[q], r, "Cancelled")
    BY <2>2, <2>3
  <2> QED BY <2>4 DEF r
<1>8. QuestsMove(qs, qs2)
  <2> SUFFICES ASSUME NEW j \in DOMAIN qs
               PROVE  /\ qs2[j] \in QuestRecord /\ qs2[j].guild_id = qs[j].guild_id
                      /\ qs2[j].employer = qs[j].employer /\ qs2[j].reward = qs[j].reward
                      /\ qs[j].status = "Completed" => qs2[j] = qs[j]
    BY <1>6 DEF QuestsMove
  <2>1. CASE j \in gone
    BY <1>5, <1>7, <2>1 DEF LaterQuest
  <2>2. CASE j \notin gone
    BY <1>1, <1>6, <2>2 DEF QuestsAreTyped
  <2> QED BY <2>1, <2>2
<1>9. RollsAgree(guilds.guilds, guilds.members, qs2) /\ IsFiniteSet(DOMAIN qs2)
  BY <1>1, <1>6, <1>8, QuestsMoved, RollsAreFinite
<1>10. DoneAgree(guilds.questCount, qs2)
  <2>1. /\ DOMAIN qs \subseteq DOMAIN qs2
        /\ \A q \in DOMAIN qs : qs[q].status = "Completed" => qs2[q] = qs[q]
    BY <1>6, <1>8 DEF QuestsMove
  <2> QED BY <1>1, <1>9, <2>1, CountsStay
<1>11. guilds' = OtherRolls(guilds.guilds, guilds.members, guilds.questCount, qs2,
                            guilds.academy \ {a}, guilds.proposals, guilds.ballots)
  BY <1>1, <1>3 DEF GuildsShape, OtherRolls
<1>12. GuildsInv' /\ guilds'.quests = qs2
  BY <1>1, <1>9, <1>10, <1>11, RollsWritten
<1> QED BY <1>12

\* Every call about quests keeps the counts.
LEMMA QuestStepKeeps ==
    ASSUME GuildsInv, QuestStep
    PROVE  GuildsInv'
<1>1. ASSUME NEW a \in Artisans, NEW b \in Artisans, NEW r \in Rewards,
             subscribe_to_academy(a, b, r)
      PROVE  GuildsInv'
  BY <1>1 DEF subscribe_to_academy, GuildsInv, GuildsShape
<1> QED
  BY <1>1, PublishStep, WorkStep, CompleteStep, ResolveStep, CancelStep, CleanupStep
  DEF QuestStep, QuestCall

-----------------------------------------------------------------------------
(* The guilds of every part                                                *)

\* The storage of a new chain has no guilds.
LEMMA NoGuildsAgree ==
    /\ RollsAgree(NoGuilds.guilds, NoGuilds.members, NoGuilds.quests)
    /\ DoneAgree(NoGuilds.questCount, NoGuilds.quests)
    /\ BallotsAreVotes(NoGuilds.proposals, NoGuilds.ballots)
<1>1. \A R : <<>> \in Numbered(0, R) /\ DOMAIN <<>> = {}
  <2>1. 0 .. 0 - 1 = {}
    OBVIOUS
  <2> QED BY <2>1 DEF Numbered
<1>2. IsFiniteSet({})
  BY FS_EmptySet
<1>3. /\ NoGuilds.guilds = <<>> /\ NoGuilds.members = <<>> /\ NoGuilds.quests = <<>>
      /\ NoGuilds.questCount = <<>> /\ NoGuilds.proposals = <<>> /\ NoGuilds.ballots = {}
  BY DEF NoGuilds
<1>4. RollsAgree(<<>>, <<>>, <<>>)
  BY <1>1, <1>2 DEF RollsAgree
<1>5. DoneAgree(<<>>, <<>>) /\ BallotsAreVotes(<<>>, {})
  BY <1>1, <1>2 DEF DoneAgree, BallotsAreVotes
<1> QED BY <1>3, <1>4, <1>5

\* A storage that differs from that of a new chain in its guilds and members.
Rolled(gs, ms) == [NoGuilds EXCEPT !.guilds = gs, !.members = ms]

\* A storage g, by its fields.
OfGuilds(g) ==
    [guilds |-> g.guilds, members |-> g.members, questCount |-> g.questCount, quests |-> g.quests,
     achievements |-> g.achievements, holders |-> g.holders, unions |-> g.unions,
     nextUnionId |-> g.nextUnionId, unionOf |-> g.unionOf, gmVotes |-> g.gmVotes,
     academy |-> g.academy, byUuid |-> g.byUuid, proposals |-> g.proposals, ballots |-> g.ballots]

\* A storage with true rolls and nothing else keeps the counts.
LEMMA RolledInit ==
    ASSUME NEW gs, NEW ms, guilds = Rolled(gs, ms), RollsAgree(gs, ms, <<>>)
    PROVE  GuildsInv
<1>0. /\ NoGuilds.quests = <<>> /\ NoGuilds.questCount = <<>> /\ NoGuilds.proposals = <<>>
      /\ NoGuilds.ballots = {}
      /\ NoGuilds = OfGuilds(NoGuilds)
  BY DEF NoGuilds, OfGuilds
<1>1. /\ guilds.guilds = gs /\ guilds.members = ms /\ guilds.quests = <<>>
      /\ guilds.questCount = <<>> /\ guilds.proposals = <<>> /\ guilds.ballots = {}
      /\ guilds = OfGuilds(guilds)
  BY <1>0 DEF Rolled, OfGuilds
<1>2. DoneAgree(<<>>, <<>>) /\ BallotsAreVotes(<<>>, {})
  BY NoGuildsAgree DEF NoGuilds
<1> QED BY <1>1, <1>2 DEF GuildsInv, GuildsShape, OfGuilds

\* The storage of gs2 and ms2 has one guild more, which a has founded.
GuildMore(gs, ms, a, gs2, ms2) ==
    /\ WithGuild(Rolled(gs, ms), a) = Rolled(gs2, ms2)
    /\ RollsAgree(gs2, ms2, <<>>)
    /\ gs2 = Put(gs, FreshId(gs), [founder |-> a, quest_count |-> 0, member_count |-> 1])
    /\ ms2 = Put(ms, <<FreshId(gs), a>>, "Master")

\* A guild more, of a storage with guilds and members alone.
LEMMA RolledGuild ==
    ASSUME NEW gs, NEW ms, RollsAgree(gs, ms, <<>>), NEW a \in Artisans
    PROVE  \E gs2, ms2 : GuildMore(gs, ms, a, gs2, ms2)
<1> DEFINE gs2 == Put(gs, FreshId(gs), [founder |-> a, quest_count |-> 0, member_count |-> 1])
           ms2 == Put(ms, <<FreshId(gs), a>>, "Master")
<1>1. RollsAgree(gs2, ms2, <<>>)
  BY GuildFounded
<1>2. WithGuild(Rolled(gs, ms), a) = Rolled(gs2, ms2)
  <2> DEFINE r == Rolled(gs, ms)
  <2>1. r.guilds = gs /\ r.members = ms
    BY DEF Rolled, NoGuilds
  <2> HIDE DEF r
  <2>2. WithGuild(r, a) = [r EXCEPT !.guilds = gs2, !.members = ms2]
    BY <2>1 DEF WithGuild
  <2> HIDE DEF gs2, ms2
  <2>3. [Rolled(gs, ms) EXCEPT !.guilds = gs2, !.members = ms2] = Rolled(gs2, ms2)
    BY DEF Rolled
  <2>4. r = Rolled(gs, ms)
    BY DEF r
  <2>5. WithGuild(r, a) = Rolled(gs2, ms2)
    BY <2>2, <2>3, <2>4, Zenon
  <2> QED BY <2>4, <2>5, Zenon
<1> QED BY <1>1, <1>2 DEF GuildMore

\* The guilds that a behaviour starts with.
LEMMA GuildsAreRolled ==
    ASSUME MCInit
    PROVE  \E gs, ms : guilds = Rolled(gs, ms) /\ RollsAgree(gs, ms, <<>>)
<1>1. Founder \in Artisans /\ Joiner \in Artisans /\ Joiner # Founder
  <2>1. PICK a \in Artisans, b \in Artisans : a # b
    BY CivilAssumption
  <2>2. Founder \in Artisans
    BY <2>1 DEF Founder
  <2>3. \E c \in Artisans \ {Founder} : TRUE
    BY <2>1
  <2>4. Joiner \in Artisans \ {Founder}
    BY <2>3 DEF Joiner
  <2> QED BY <2>2, <2>4
<1>2. NoGuilds = Rolled(<<>>, <<>>) /\ RollsAgree(<<>>, <<>>, <<>>)
  <2>1. NoGuilds = Rolled(<<>>, <<>>)
    <3>1. /\ NoGuilds = OfGuilds(NoGuilds) /\ NoGuilds.guilds = <<>> /\ NoGuilds.members = <<>>
      BY DEF NoGuilds, OfGuilds
    <3> QED BY <3>1 DEF Rolled, OfGuilds
  <2>2. NoGuilds.guilds = <<>> /\ NoGuilds.members = <<>> /\ NoGuilds.quests = <<>>
    BY DEF NoGuilds
  <2> QED BY <2>1, <2>2, NoGuildsAgree
<1> HIDE DEF Founder, Joiner
<1>0. PICK g1, m1 : GuildMore(<<>>, <<>>, Founder, g1, m1)
  BY <1>1, <1>2, RolledGuild
<1>3. /\ WithGuild(NoGuilds, Founder) = Rolled(g1, m1) /\ RollsAgree(g1, m1, <<>>)
      /\ g1 = Put(<<>>, FreshId(<<>>), [founder |-> Founder, quest_count |-> 0, member_count |-> 1])
      /\ m1 = Put(<<>>, <<FreshId(<<>>), Founder>>, "Master")
  BY <1>0, <1>2 DEF GuildMore
<1>4. CASE guilds = NoGuilds
  BY <1>2, <1>4
<1>5. CASE guilds = OneGuild
  <2>1. FreshId(<<>>) = 0
    BY FS_EmptySet DEF FreshId
  <2>2. /\ 0 \in DOMAIN g1 /\ DOMAIN m1 = {<<0, Founder>>}
        /\ g1[0] = [founder |-> Founder, quest_count |-> 0, member_count |-> 1]
    BY <1>3, <2>1 DEF Put
  <2> DEFINE g2 == [g1 EXCEPT ![0].member_count = @ + 1]
             m2 == Put(m1, <<0, Joiner>>, "Apprentice")
  <2>3. RollsAgree(g2, m2, <<>>)
    BY <1>1, <1>3, <2>2, MemberJoined
  <2>4. g2 = [g1 EXCEPT ![0].member_count = 2]
    BY <2>2
  <2> HIDE DEF g2, m2
  <2>5. OneGuild = [Rolled(g1, m1) EXCEPT !.members = m2, !.guilds[0].member_count = 2]
    <3> DEFINE r == Rolled(g1, m1)
    <3>1. r.members = m1 /\ WithGuild(NoGuilds, Founder) = r
      BY <1>3 DEF Rolled, NoGuilds
    <3> HIDE DEF r
    <3>2. OneGuild = [r EXCEPT !.members = m2, !.guilds[0].member_count = 2]
      BY <3>1 DEF OneGuild, m2
    <3> QED BY <3>2 DEF r
  <2>6. OneGuild = Rolled(g2, m2)
    <3>1. NoGuilds = OfGuilds(NoGuilds)
      BY DEF NoGuilds, OfGuilds
    <3> QED BY <2>4, <2>5, <3>1 DEF Rolled, OfGuilds
  <2> QED BY <1>5, <2>3, <2>6
<1>6. CASE guilds = ThreeGuilds
  <2>1. PICK g2, m2 : GuildMore(g1, m1, Founder, g2, m2)
    BY <1>1, <1>3, RolledGuild
  <2>2. RollsAgree(g2, m2, <<>>)
    BY <2>1 DEF GuildMore
  <2>3. PICK g3, m3 : GuildMore(g2, m2, Joiner, g3, m3)
    BY <1>1, <2>2, RolledGuild
  <2>4. guilds = Rolled(g3, m3) /\ RollsAgree(g3, m3, <<>>)
    BY <1>3, <1>6, <2>1, <2>3 DEF ThreeGuilds, GuildMore
  <2> QED BY <2>4
<1>7. guilds = NoGuilds \/ guilds = OneGuild \/ guilds = ThreeGuilds
  BY DEF MCInit
<1> QED BY <1>4, <1>5, <1>6, <1>7

\* Their counts agree.
LEMMA GuildsStart == MCInit => GuildsInv
BY GuildsAreRolled, RolledInit

\* No other part writes the guilds.
LEMMA GuildsGoOn ==
    ASSUME GuildsInv, [MCNext]_MCvars
    PROVE  GuildsInv'
<1>1. CASE guilds' = guilds
  BY <1>1 DEF GuildsInv, GuildsShape
<1>2. CASE GuildStep
  BY <1>2, QuestStepKeeps, MemberStepKeeps, UnionStepKeeps, CouncilCallsKeep
  DEF GuildStep
<1>3. guilds' = guilds \/ GuildStep
  BY DEF MCNext, MCvars, FirmStep, MinistryStep
<1> QED BY <1>1, <1>2, <1>3

(***************************************************************************)
(* What a page shows of a guild is what is stored of it: its counters are  *)
(* the numbers of its members and of its quests, nobody has more quests    *)
(* counted than were completed, and the votes on a proposal are ballots.   *)
(***************************************************************************)
THEOREM Guildbooks == MCSpec => []GuildCountsAgree
<1>1. MCInit => GuildsInv
  BY GuildsStart
<1>2. GuildsInv /\ [MCNext]_MCvars => GuildsInv'
  BY GuildsGoOn
<1>3. GuildsInv => GuildCountsAgree
  <2> SUFFICES ASSUME GuildsInv
               PROVE  GuildCountsAgree
    OBVIOUS
  <2>1. \A g \in DOMAIN guilds.guilds :
           /\ guilds.guilds[g].member_count = Cardinality({k \in DOMAIN guilds.members : k[1] = g})
           /\ guilds.guilds[g].quest_count =
                 Cardinality({q \in DOMAIN guilds.quests : guilds.quests[q].guild_id = g})
    BY DEF GuildsInv, RollsAgree
  <2>2. \A k \in DOMAIN guilds.questCount :
           guilds.questCount[k] <= Cardinality(DoneBy(guilds.quests, k))
    BY DEF GuildsInv, DoneAgree
  <2>3. \A p \in DOMAIN guilds.proposals :
           guilds.proposals[p].votes_for + guilds.proposals[p].votes_against =
              Cardinality({b \in guilds.ballots : b[1] = p})
    BY DEF GuildsInv, BallotsAreVotes
  <2> QED BY <2>1, <2>2, <2>3 DEF GuildCountsAgree, DoneBy
<1> QED BY <1>1, <1>2, <1>3, PTL DEF MCSpec

-----------------------------------------------------------------------------
(* The notes of the vaults                                                 *)

\* What everybody had before the first note.
Opening ==
    Capital * Cardinality(People \cup FirmAccounts) + ExistentialDeposit * Cardinality(Offices)

PoolShape ==
    pool = [commitments |-> pool.commitments, nullifiers |-> pool.nullifiers,
            orgVault |-> pool.orgVault, totalShielded |-> pool.totalShielded]

\* The commitments that were destroyed, each with a nullifier of its own.
Gone(notes) == {c \in DOMAIN notes : ~notes[c]}

NotesAgree(notes, spent) ==
    /\ IsFiniteSet(DOMAIN notes) /\ IsFiniteSet(DOMAIN spent)
    /\ Cardinality(Gone(notes)) <= Cardinality(DOMAIN spent)

\* No account is below the existential deposit, so that whatever is minted arrives.
AllLive == LedgerTypeOK /\ \A a \in Accounts : ExistentialDeposit <= free[a]

VaultInv ==
    /\ AllLive /\ PoolShape
    /\ NotesAgree(pool.commitments, pool.nullifiers)
    /\ pool.totalShielded \in Nat
    /\ issuance + pool.totalShielded >= Opening

\* A commitment is registered, again perhaps.
LEMMA NoteAdded ==
    ASSUME NEW notes, NEW spent, NotesAgree(notes, spent), NEW c
    PROVE  NotesAgree(Put(notes, c, TRUE), spent)
<1> DEFINE more == Put(notes, c, TRUE)
<1>1. DOMAIN more = DOMAIN notes \cup {c}
  BY DEF Put
<1>2. more[c] = TRUE /\ \A d \in DOMAIN notes \ {c} : more[d] = notes[d]
  BY DEF Put
<1> HIDE DEF more
<1>3. Gone(more) \subseteq Gone(notes)
  BY <1>1, <1>2, Zenon DEF Gone
<1>4. IsFiniteSet(Gone(notes))
  BY FS_Subset DEF NotesAgree, Gone
<1>5. Cardinality(Gone(more)) <= Cardinality(Gone(notes)) /\ IsFiniteSet(Gone(more))
  BY <1>3, <1>4, FS_Subset
<1>6. IsFiniteSet(DOMAIN more)
  BY <1>1, FS_AddElement DEF NotesAgree
<1>7. /\ Cardinality(Gone(more)) \in Nat /\ Cardinality(Gone(notes)) \in Nat
      /\ Cardinality(DOMAIN spent) \in Nat
  BY <1>4, <1>5, FS_CardinalityType DEF NotesAgree
<1>8. Cardinality(Gone(more)) <= Cardinality(DOMAIN spent)
  BY <1>5, <1>7 DEF NotesAgree
<1> QED BY <1>6, <1>8 DEF more, NotesAgree

\* A commitment is destroyed with a fresh nullifier.
LEMMA NoteTaken ==
    ASSUME NEW notes, NEW spent, NotesAgree(notes, spent), NEW c, NEW n, n \notin DOMAIN spent,
           NEW when
    PROVE  NotesAgree(Put(notes, c, FALSE), Put(spent, n, when))
<1> DEFINE more == Put(notes, c, FALSE)
           now == Put(spent, n, when)
<1>1. DOMAIN more = DOMAIN notes \cup {c} /\ DOMAIN now = DOMAIN spent \cup {n}
  BY DEF Put
<1>2. \A d \in DOMAIN notes \ {c} : more[d] = notes[d]
  BY DEF Put
<1> HIDE DEF more, now
<1>3. Gone(more) \subseteq Gone(notes) \cup {c}
  BY <1>1, <1>2, Zenon DEF Gone
<1>4. IsFiniteSet(Gone(notes))
  BY FS_Subset DEF NotesAgree, Gone
<1>5. /\ IsFiniteSet(Gone(notes) \cup {c})
      /\ Cardinality(Gone(notes) \cup {c}) <= Cardinality(Gone(notes)) + 1
  <2> DEFINE G == Gone(notes)
             H == G \cup {c}
  <2> HIDE DEF G
  <2>1. IsFiniteSet(G)
    BY <1>4 DEF G
  <2>2. Cardinality(G) \in Nat
    BY <2>1, FS_CardinalityType
  <2>3. IsFiniteSet(H) /\ (Cardinality(H) = Cardinality(G) \/ Cardinality(H) = Cardinality(G) + 1)
    BY <2>1, FS_AddElement
  <2> HIDE DEF H
  <2>4. IsFiniteSet(H) /\ Cardinality(H) <= Cardinality(G) + 1
    BY <2>2, <2>3
  <2> QED BY <2>4 DEF G, H
<1>6. IsFiniteSet(Gone(more)) /\ Cardinality(Gone(more)) <= Cardinality(Gone(notes) \cup {c})
  BY <1>3, <1>5, FS_Subset
<1>7. /\ IsFiniteSet(DOMAIN more) /\ IsFiniteSet(DOMAIN now)
      /\ Cardinality(DOMAIN now) = Cardinality(DOMAIN spent) + 1
  BY <1>1, FS_AddElement DEF NotesAgree
<1>8. /\ Cardinality(Gone(more)) \in Nat /\ Cardinality(Gone(notes)) \in Nat
      /\ Cardinality(Gone(notes) \cup {c}) \in Nat /\ Cardinality(DOMAIN spent) \in Nat
  BY <1>4, <1>5, <1>6, FS_CardinalityType DEF NotesAgree
<1>9. Cardinality(Gone(more)) <= Cardinality(DOMAIN now)
  BY <1>5, <1>6, <1>7, <1>8 DEF NotesAgree
<1> QED BY <1>7, <1>9 DEF more, now, NotesAgree

\* What is minted to an account that is there arrives.
LEMMA MintArrives ==
    ASSUME AllLive, NEW a \in Accounts, NEW v \in Nat
    PROVE  Credited(a, v) = v
BY LedgerAssumption DEF AllLive, LedgerTypeOK, Credited, Exists

\* Balances that keep every account alive.
Live(bal) == bal \in [Accounts -> Nat] /\ \A a \in Accounts : ExistentialDeposit <= bal[a]

\* And do so with more for one of them.
LEMMA LiveWithMore ==
    ASSUME NEW bal, Live(bal), NEW a \in Accounts, NEW v \in Nat
    PROVE  Live([bal EXCEPT ![a] = @ + v])
BY LedgerAssumption DEF Live

\* A payment that keeps the payer alive keeps all others alive.
LEMMA LiveAfterPayment ==
    ASSUME NEW bal, Live(bal), NEW src \in Accounts, NEW dst \in Accounts, NEW v \in Nat,
           CanPay(bal, src, dst, v)
    PROVE  Live(PaidFrom(bal, src, dst, v))
<1>1. CASE Moves(src, dst, v)
  <2>1. bal[src] - v \in Nat /\ ExistentialDeposit <= bal[src] - v /\ src # dst
    BY <1>1, LedgerAssumption DEF CanPay, Moves, Live
  <2>2. bal[dst] + v \in Nat /\ ExistentialDeposit <= bal[dst] + v
    BY LedgerAssumption DEF Live
  <2>3. PaidFrom(bal, src, dst, v) = [bal EXCEPT ![src] = @ - v, ![dst] = @ + v]
    BY <1>1 DEF PaidFrom
  <2> QED BY <2>1, <2>2, <2>3 DEF Live
<1>2. CASE ~Moves(src, dst, v)
  BY <1>2 DEF PaidFrom
<1> QED BY <1>1, <1>2

\* The ledger with live balances and another issuance.
LEMMA LiveLedger ==
    ASSUME AllLive, Live(free'), issuance' \in Int, reserved' = reserved, frozen' = frozen
    PROVE  AllLive'
BY DEF AllLive, LedgerTypeOK, Live

\* The pool of the next state, from its parts.
PoolWith(notes, spent, total) ==
    /\ PoolShape' /\ pool'.commitments = notes /\ pool'.nullifiers = spent
    /\ pool'.totalShielded = total

\* The invariant of the next state: what the issuance loses the counter gains.
LEMMA VaultGoesOn ==
    ASSUME VaultInv, AllLive', NEW notes, NEW spent, NEW total, PoolWith(notes, spent, total),
           NotesAgree(notes, spent), total \in Nat,
           issuance' + total >= issuance + pool.totalShielded
    PROVE  VaultInv'
<1>1. NotesAgree(pool'.commitments, pool'.nullifiers) /\ pool'.totalShielded \in Nat
  BY DEF PoolWith
<1>2. Opening \in Int /\ Opening' = Opening
  <2>1. /\ Capital \in Nat /\ ExistentialDeposit \in Nat
        /\ IsFiniteSet(People \cup FirmAccounts) /\ IsFiniteSet(Offices)
    <3>1. Accounts = (People \cup FirmAccounts) \cup Offices /\ IsFiniteSet(Accounts)
      BY CivilAssumption, LedgerAssumption DEF MCAccounts
    <3>2. IsFiniteSet(People \cup FirmAccounts) /\ IsFiniteSet(Offices)
      BY <3>1, FS_Subset
    <3> QED BY <3>2, CivilAssumption, LedgerAssumption
  <2>2. Cardinality(People \cup FirmAccounts) \in Nat /\ Cardinality(Offices) \in Nat
    BY <2>1, FS_CardinalityType
  <2> QED BY <2>1, <2>2 DEF Opening
<1>3. /\ issuance \in Int /\ issuance' \in Int /\ pool.totalShielded \in Nat
      /\ issuance + pool.totalShielded >= Opening
  BY DEF VaultInv, AllLive, LedgerTypeOK
<1> DEFINE i == issuance
           j == issuance'
           t == pool.totalShielded
<1>4. j + total >= Opening
  <2>1. i \in Int /\ j \in Int /\ t \in Nat /\ i + t >= Opening /\ j + total >= i + t
    BY <1>3
  <2> HIDE DEF i, j, t
  <2> QED BY <1>2, <2>1
<1>5. issuance' + pool'.totalShielded >= Opening'
  BY <1>2, <1>4 DEF PoolWith
<1> QED BY <1>1, <1>5 DEF VaultInv, PoolWith

\* A caller hides money of his own.
LEMMA ShieldStep ==
    ASSUME VaultInv, NEW a \in Holders, NEW v \in ShieldedAmounts, NEW c, NEW o,
           shield_funds(a, v, c, o)
    PROVE  VaultInv'
<1> DEFINE notes == Put(pool.commitments, c, TRUE)
           total == pool.totalShielded + v
<1>1. /\ withdraw(a, v)
      /\ pool' = [pool EXCEPT !.commitments = notes,
                              !.orgVault = Booked(pool.orgVault, o, v), !.totalShielded = total]
  BY DEF shield_funds
<1>2. v \in Nat /\ pool.totalShielded \in Nat /\ total \in Nat
  BY ShieldedAssumption DEF VaultInv
<1>3. NotesAgree(notes, pool.nullifiers)
  BY NoteAdded DEF VaultInv
<1> HIDE DEF notes, total
<1>4. PoolWith(notes, pool.nullifiers, total)
  BY <1>1 DEF PoolWith, PoolShape, VaultInv
<1>5. a \in Accounts
  BY ShieldedAssumption
<1>6. /\ free[a] \in Nat /\ free[a] - v \in Nat /\ ExistentialDeposit <= free[a] - v
      /\ free' = [free EXCEPT ![a] = @ - v] /\ issuance' = issuance - v
      /\ reserved' = reserved /\ frozen' = frozen /\ issuance \in Int
  BY <1>1, <1>2, <1>5, LedgerAssumption DEF withdraw, VaultInv, AllLive, LedgerTypeOK
<1>7. AllLive'
  <2>1. AllLive /\ issuance' \in Int
    BY <1>2, <1>6 DEF VaultInv
  <2>2. Live(free')
    BY <1>5, <1>6 DEF VaultInv, AllLive, LedgerTypeOK, Live
  <2> QED BY <1>6, <2>1, <2>2, LiveLedger
<1>8. issuance' + total >= issuance + pool.totalShielded
  BY <1>2, <1>6 DEF total
<1> QED BY <1>2, <1>3, <1>4, <1>7, <1>8, VaultGoesOn

\* The pool after a note is spent.
PoolAfter(n, c) ==
    [commitments |-> Put(pool.commitments, c, FALSE), nullifiers |-> Put(pool.nullifiers, n, block),
     orgVault |-> pool.orgVault, totalShielded |-> pool.totalShielded]

\* It has lost the note and has a nullifier more.
LEMMA SpentPool ==
    ASSUME PoolShape, NEW n, NEW c
    PROVE  Spent(n, c) = PoolAfter(n, c)
<1> DEFINE notes == Put(pool.commitments, c, FALSE)
           nulls == Put(pool.nullifiers, n, block)
<1>1. Spent(n, c) = [pool EXCEPT !.commitments = notes, !.nullifiers = nulls]
  BY DEF Spent
<1>2. PoolAfter(n, c) = [commitments |-> notes, nullifiers |-> nulls, orgVault |-> pool.orgVault,
                         totalShielded |-> pool.totalShielded]
  BY DEF PoolAfter
<1> HIDE DEF notes, nulls
<1> QED BY <1>1, <1>2 DEF PoolShape

\* A note is replaced by another one.
LEMMA HiddenTransferStep ==
    ASSUME VaultInv, NEW n, NEW c, NEW d, shielded_transfer(n, c, d)
    PROVE  VaultInv'
<1> DEFINE left == Put(pool.commitments, c, FALSE)
           spent == Put(pool.nullifiers, n, block)
           notes == Put(left, d, TRUE)
           total == pool.totalShielded
<1>1. n \notin DOMAIN pool.nullifiers
  BY DEF shielded_transfer, CanSpend
<1>2. Spent(n, c) = [commitments |-> left, nullifiers |-> spent,
                     orgVault |-> pool.orgVault, totalShielded |-> total]
  BY SpentPool DEF PoolAfter, VaultInv
<1>3. pool' = [Spent(n, c) EXCEPT !.commitments = notes]
  BY <1>2 DEF shielded_transfer
<1>4. NotesAgree(left, spent)
  BY <1>1, NoteTaken DEF VaultInv
<1> HIDE DEF left, spent
<1>5. NotesAgree(notes, spent)
  BY <1>4, NoteAdded
<1> HIDE DEF notes
<1>6. PoolWith(notes, spent, total)
  BY <1>2, <1>3 DEF PoolWith, PoolShape
<1>7. AllLive' /\ issuance' = issuance /\ issuance \in Int /\ total \in Nat
  BY DEF shielded_transfer, ledger, VaultInv, AllLive, LedgerTypeOK
<1> HIDE DEF total
<1>8. issuance' + total >= issuance + pool.totalShielded
  BY <1>7 DEF total
<1> QED BY <1>5, <1>6, <1>7, <1>8, VaultGoesOn

\* What a call does that spends the note c and mints v.
NoteSpentFor(n, c, v) ==
    /\ n \notin DOMAIN pool.nullifiers
    /\ pool'.commitments = Put(pool.commitments, c, FALSE)
    /\ pool'.nullifiers = Put(pool.nullifiers, n, block)
    /\ pool'.totalShielded = SatSub(pool.totalShielded, v)
    /\ PoolShape'
    /\ issuance' = issuance + v

\* The counter gives up at most what comes back.
LEMMA NoteSpentKeeps ==
    ASSUME VaultInv, AllLive', NEW n, NEW c, NEW v \in Nat, NoteSpentFor(n, c, v)
    PROVE  VaultInv'
<1> DEFINE notes == Put(pool.commitments, c, FALSE)
           spent == Put(pool.nullifiers, n, block)
           total == SatSub(pool.totalShielded, v)
<1>1. NotesAgree(notes, spent)
  BY NoteTaken DEF VaultInv, NoteSpentFor
<1>2. issuance \in Int /\ pool.totalShielded \in Nat
  BY DEF VaultInv, AllLive, LedgerTypeOK
<1>3. PoolWith(notes, spent, total)
  BY DEF NoteSpentFor, PoolWith
<1>4. total \in Nat /\ total >= pool.totalShielded - v
  BY <1>2 DEF SatSub
<1>5. issuance' = issuance + v
  BY DEF NoteSpentFor
<1> HIDE DEF notes, spent, total
<1>6. issuance' + total >= issuance + pool.totalShielded
  BY <1>2, <1>4, <1>5
<1> QED BY <1>1, <1>3, <1>4, <1>6, VaultGoesOn

\* What is left of the pool when v is paid out of it.
LEMMA PoolPays ==
    ASSUME VaultInv, NEW n, NEW c, NEW v, NEW w,
           pool' = [Spent(n, c) EXCEPT !.orgVault = w, !.totalShielded = SatSub(@, v)]
    PROVE  /\ PoolShape' /\ pool'.commitments = Put(pool.commitments, c, FALSE)
           /\ pool'.nullifiers = Put(pool.nullifiers, n, block)
           /\ pool'.totalShielded = SatSub(pool.totalShielded, v)
<1> DEFINE s == Spent(n, c)
           notes == Put(pool.commitments, c, FALSE)
           spent == Put(pool.nullifiers, n, block)
<1>1. /\ s = [commitments |-> s.commitments, nullifiers |-> s.nullifiers,
              orgVault |-> s.orgVault, totalShielded |-> s.totalShielded]
      /\ s.commitments = notes /\ s.nullifiers = spent /\ s.totalShielded = pool.totalShielded
  <2>1. s = [commitments |-> notes, nullifiers |-> spent, orgVault |-> pool.orgVault,
             totalShielded |-> pool.totalShielded]
    BY SpentPool DEF PoolAfter, VaultInv
  <2> HIDE DEF s, notes, spent
  <2> QED BY <2>1
<1>2. pool' = [s EXCEPT !.orgVault = w, !.totalShielded = SatSub(s.totalShielded, v)]
  OBVIOUS
<1> HIDE DEF s, notes, spent
<1>3. /\ PoolShape' /\ pool'.commitments = notes /\ pool'.nullifiers = spent
      /\ pool'.totalShielded = SatSub(pool.totalShielded, v)
  BY <1>1, <1>2 DEF PoolShape
<1> QED BY <1>3 DEF notes, spent

\* A note becomes public money of the recipient.
LEMMA UnshieldStep ==
    ASSUME VaultInv, NEW n, NEW c, NEW v \in ShieldedAmounts, NEW a \in Holders, NEW o,
           unshield_to_account(n, c, v, a, o)
    PROVE  VaultInv'
<1>1. n \notin DOMAIN pool.nullifiers /\ deposit_creating(a, v)
  BY DEF unshield_to_account, CanSpend
<1>2. v \in Nat /\ a \in Accounts
  BY ShieldedAssumption
<1>3. Credited(a, v) = v
  BY <1>2, MintArrives DEF VaultInv
<1>4. /\ free' = [free EXCEPT ![a] = @ + v] /\ issuance' = issuance + v
      /\ reserved' = reserved /\ frozen' = frozen /\ issuance \in Int
      /\ Live(free)
  BY <1>1, <1>3 DEF deposit_creating, VaultInv, AllLive, LedgerTypeOK, Live
<1>5. /\ PoolShape' /\ pool'.commitments = Put(pool.commitments, c, FALSE)
      /\ pool'.nullifiers = Put(pool.nullifiers, n, block)
      /\ pool'.totalShielded = SatSub(pool.totalShielded, v)
  <2> DEFINE w == Booked(Spent(n, c).orgVault, o, -v)
  <2>1. pool' = [Spent(n, c) EXCEPT !.orgVault = w, !.totalShielded = SatSub(@, v)]
    BY DEF unshield_to_account
  <2> HIDE DEF w
  <2> QED BY <2>1, PoolPays
<1>6. Live(free')
  BY <1>2, <1>4, LiveWithMore
<1>7. AllLive'
  BY <1>2, <1>4, <1>6, LiveLedger DEF VaultInv
<1> QED BY <1>1, <1>2, <1>4, <1>5, <1>7, NoteSpentKeeps DEF NoteSpentFor

\* Two mints that both arrive.
LEMMA BothArrive ==
    ASSUME AllLive, NEW a \in Accounts, NEW b \in Accounts, NEW v \in Nat, NEW w \in Nat,
           MintBoth(a, v, b, w)
    PROVE  AllLive' /\ issuance' = issuance + (v + w)
<1>1. Credited(a, v) = v
  BY MintArrives
<1> DEFINE bal == [free EXCEPT ![a] = @ + v]
           second == IF bal[b] + reserved[b] = 0 /\ w < ExistentialDeposit THEN 0 ELSE w
<1>2. Live(free) /\ reserved \in [Accounts -> Nat] /\ issuance \in Int
  BY DEF AllLive, LedgerTypeOK, Live
<1>3. Live(bal)
  BY <1>2, LiveWithMore
<1>4. /\ free' = [bal EXCEPT ![b] = @ + second] /\ issuance' = issuance + v + second
      /\ reserved' = reserved /\ frozen' = frozen
  BY <1>1 DEF MintBoth
<1> HIDE DEF bal
<1>5. second = w
  BY <1>2, <1>3, LedgerAssumption DEF Live
<1>6. Live(free')
  BY <1>3, <1>4, <1>5, LiveWithMore
<1>7. issuance' = issuance + (v + w) /\ issuance' \in Int
  BY <1>2, <1>4, <1>5
<1> QED BY <1>4, <1>6, <1>7, LiveLedger

\* The taxes of an organization are paid with a note.
LEMMA TaxNoteStep ==
    ASSUME VaultInv, NEW n, NEW c, NEW o, NEW v \in ShieldedAmounts,
           NEW treasury \in SUBSET Accounts,
           org_unshield_tax_payment(o, n, c, v, treasury)
    PROVE  VaultInv'
<1> DEFINE w == region_amount(v)
           u == confederation_amount(v)
           payee == IF treasury = {} THEN ConfederationTreasury ELSE CHOOSE t \in treasury : TRUE
<1>1. n \notin DOMAIN pool.nullifiers /\ MintBoth(ConfederationTreasury, u, payee, w)
  BY DEF org_unshield_tax_payment, CanSpend
<1>2. v \in Nat
  BY ShieldedAssumption
<1>3. w \in Nat /\ u \in Nat /\ u + w = v
  BY <1>2 DEF region_amount, confederation_amount
<1>4. payee \in Accounts /\ ConfederationTreasury \in Accounts
  BY ShieldedAssumption
<1>5. /\ PoolShape' /\ pool'.commitments = Put(pool.commitments, c, FALSE)
      /\ pool'.nullifiers = Put(pool.nullifiers, n, block)
      /\ pool'.totalShielded = SatSub(pool.totalShielded, v)
  <2> DEFINE rest == Booked(Spent(n, c).orgVault, o, -v)
  <2>1. pool' = [Spent(n, c) EXCEPT !.orgVault = rest, !.totalShielded = SatSub(@, v)]
    BY DEF org_unshield_tax_payment
  <2> HIDE DEF rest
  <2> QED BY <2>1, PoolPays
<1> HIDE DEF u, w, payee
<1>6. AllLive' /\ issuance' = issuance + (u + w)
  BY <1>1, <1>3, <1>4, BothArrive DEF VaultInv
<1>7. issuance' = issuance + v
  BY <1>3, <1>6
<1> QED BY <1>1, <1>2, <1>5, <1>6, <1>7, NoteSpentKeeps DEF NoteSpentFor

\* A tax return that a note pays.
LEMMA TaxReturnStep ==
    ASSUME VaultInv, NEW a, NEW o, NEW n, NEW c, NEW v \in ShieldedAmounts,
           file_tax_return_zk(a, o, n, c, v)
    PROVE  VaultInv'
<1> DEFINE share == constitutional_tax_split(v).confederation
           minted == [free EXCEPT ![RegionTreasury] = @ + Credited(RegionTreasury, v)]
<1>1. /\ n \notin DOMAIN pool.nullifiers
      /\ CanPay(minted, RegionTreasury, ConfederationTreasury, share)
      /\ free' = PaidFrom(minted, RegionTreasury, ConfederationTreasury, share)
      /\ issuance' = issuance + Credited(RegionTreasury, v)
      /\ reserved' = reserved /\ frozen' = frozen /\ pool' = PoolAfterTax(n, c, v)
  BY DEF file_tax_return_zk, CanSpend
<1>2. /\ v \in Nat /\ RegionTreasury \in Accounts /\ ConfederationTreasury \in Accounts
  BY ShieldedAssumption, OrganizationAssumption
<1>3. Credited(RegionTreasury, v) = v
  BY <1>2, MintArrives DEF VaultInv
<1>4. share \in Nat
  BY <1>2 DEF constitutional_tax_split
<1>5. /\ PoolShape' /\ pool'.commitments = Put(pool.commitments, c, FALSE)
      /\ pool'.nullifiers = Put(pool.nullifiers, n, block)
      /\ pool'.totalShielded = SatSub(pool.totalShielded, v)
  <2> DEFINE s == Spent(n, c)
             notes == Put(pool.commitments, c, FALSE)
             spent == Put(pool.nullifiers, n, block)
  <2>1. /\ s = [commitments |-> s.commitments, nullifiers |-> s.nullifiers,
                orgVault |-> s.orgVault, totalShielded |-> s.totalShielded]
        /\ s.commitments = notes /\ s.nullifiers = spent
        /\ s.totalShielded = pool.totalShielded
    <3>1. s = [commitments |-> notes, nullifiers |-> spent, orgVault |-> pool.orgVault,
               totalShielded |-> pool.totalShielded]
      BY SpentPool DEF PoolAfter, VaultInv
    <3> HIDE DEF s, notes, spent
    <3> QED BY <3>1
  <2>2. pool' = [s EXCEPT !.totalShielded = SatSub(s.totalShielded, v)]
    BY <1>1 DEF PoolAfterTax
  <2> HIDE DEF s, notes, spent
  <2>3. /\ PoolShape' /\ pool'.commitments = notes /\ pool'.nullifiers = spent
        /\ pool'.totalShielded = SatSub(pool.totalShielded, v)
    BY <2>1, <2>2 DEF PoolShape
  <2> QED BY <2>3 DEF notes, spent
<1>6. Live(free) /\ issuance \in Int
  BY DEF VaultInv, AllLive, LedgerTypeOK, Live
<1>7. Live(minted)
  <2>1. minted = [free EXCEPT ![RegionTreasury] = @ + v]
    BY <1>3
  <2> HIDE DEF minted
  <2> QED BY <1>2, <1>6, <2>1, LiveWithMore
<1> HIDE DEF share, minted
<1>8. Live(free')
  BY <1>1, <1>2, <1>4, <1>7, LiveAfterPayment
<1>9. issuance' = issuance + v /\ issuance' \in Int
  BY <1>1, <1>2, <1>3, <1>6
<1>10. AllLive'
  BY <1>1, <1>8, <1>9, LiveLedger DEF VaultInv
<1> QED BY <1>1, <1>2, <1>5, <1>9, <1>10, NoteSpentKeeps DEF NoteSpentFor

-----------------------------------------------------------------------------
(* Beginning and steps                                                     *)

\* The ledger of a new chain: everybody is alive, and the issuance is the opening.
LEMMA LedgerStarts ==
    ASSUME MCInit
    PROVE  AllLive /\ issuance = Opening /\ \A a \in Accounts : reserved[a] = 0
<1> DEFINE Rich == People \cup FirmAccounts
<1>1. /\ free = [a \in Accounts |-> IF a \in Rich THEN Capital ELSE ExistentialDeposit]
      /\ reserved = [a \in Accounts |-> 0] /\ frozen = [a \in Accounts |-> 0]
      /\ issuance = SumOver(free, Accounts)
  BY DEF MCInit
<1>2. /\ Accounts = Rich \cup Offices /\ Rich \cap Offices = {}
      /\ Capital \in Nat /\ ExistentialDeposit \in Nat /\ ExistentialDeposit <= Capital
      /\ IsFiniteSet(Accounts)
  BY CivilAssumption, LedgerAssumption DEF MCAccounts
<1> HIDE DEF Rich
<1>3. IsFiniteSet(Rich) /\ IsFiniteSet(Offices)
  BY <1>2, FS_Subset
<1>4. /\ \A a \in Accounts : free[a] \in Nat /\ ExistentialDeposit <= free[a]
      /\ \A a \in Rich : free[a] = Capital
      /\ \A a \in Offices : free[a] = ExistentialDeposit
  BY <1>1, <1>2
<1>5. SumOver(free, Rich \cup Offices) = SumOver(free, Rich) + SumOver(free, Offices)
  <2>1. \A a \in Rich \cup Offices : free[a] \in Int
    BY <1>2, <1>4
  <2> QED BY <1>2, <1>3, <2>1, SumOfParts
<1>6. SumOver(free, Rich) = Cardinality(Rich) * Capital
  <2>1. Capital \in Int
    BY <1>2
  <2> QED BY <1>3, <1>4, <2>1, SumOfConstant
<1>7. SumOver(free, Offices) = Cardinality(Offices) * ExistentialDeposit
  <2>1. ExistentialDeposit \in Int
    BY <1>2
  <2> QED BY <1>3, <1>4, <2>1, SumOfConstant
<1>8. issuance = Opening
  <2>1. Cardinality(Rich) \in Nat /\ Cardinality(Offices) \in Nat
    BY <1>3, FS_CardinalityType
  <2>2. Opening = Capital * Cardinality(Rich) + ExistentialDeposit * Cardinality(Offices)
    BY DEF Opening, Rich
  <2> QED BY <1>1, <1>2, <1>5, <1>6, <1>7, <2>1, <2>2
<1>9. issuance \in Int
  <2>1. SumOver(free, Accounts) \in Int
    BY <1>2, <1>4, SumIsInt
  <2> QED BY <1>1, <2>1
<1>10. free \in [Accounts -> Nat] /\ reserved \in [Accounts -> Nat] /\ frozen \in [Accounts -> Nat]
  BY <1>1, <1>4
<1> QED BY <1>1, <1>4, <1>8, <1>9, <1>10 DEF AllLive, LedgerTypeOK

\* No note is out yet.
LEMMA VaultStarts == MCInit => VaultInv
<1> SUFFICES ASSUME MCInit PROVE VaultInv
  OBVIOUS
<1>1. pool = EmptyPool
  BY DEF MCInit
<1>2. /\ DOMAIN pool.commitments = {} /\ DOMAIN pool.nullifiers = {}
      /\ pool.totalShielded = 0 /\ PoolShape
  BY <1>1 DEF EmptyPool, PoolShape
<1>3. Gone(pool.commitments) = {} /\ IsFiniteSet({}) /\ Cardinality({}) = 0
  BY <1>2, FS_EmptySet DEF Gone
<1>4. NotesAgree(pool.commitments, pool.nullifiers)
  BY <1>2, <1>3 DEF NotesAgree
<1>5. AllLive /\ issuance = Opening /\ issuance \in Int
  BY LedgerStarts DEF AllLive, LedgerTypeOK
<1> QED BY <1>2, <1>4, <1>5 DEF VaultInv

\* The notes through a step of any part.
LEMMA VaultContinues ==
    ASSUME VaultInv, part = "vault", [MCNext]_MCvars
    PROVE  VaultInv'
<1>1. CASE UNCHANGED MCvars
  BY <1>1 DEF MCvars, ledger, VaultInv, AllLive, LedgerTypeOK, PoolShape, NotesAgree, Opening
<1>2. CASE VaultStep
  <2>1. ASSUME NEW n \in Nullifiers, NEW c \in Commitments, NEW o \in OrgIds,
               NEW v \in ShieldedAmounts,
               org_unshield_tax_payment(o, n, c, v, regional_treasury_for(o))
        PROVE  VaultInv'
    <3>1. regional_treasury_for(o) \in SUBSET Accounts
      BY OrganizationAssumption DEF regional_treasury_for
    <3> QED BY <2>1, <3>1, TaxNoteStep
  <2> QED BY <1>2, <2>1, ShieldStep, HiddenTransferStep, UnshieldStep DEF VaultStep
<1>3. CASE TaxFromVault
  BY <1>3, TaxReturnStep DEF TaxFromVault
<1> QED BY <1>1, <1>2, <1>3 DEF MCNext, GuildStep, FirmStep, MinistryStep

-----------------------------------------------------------------------------
(* Enacting several applications                                           *)

\* One step of the enactment, from what g is after the sets with one less.
EnactStep(base, now, g, s) ==
    IF s = {} THEN base ELSE Enacted(g[s \ {LastOf(s)}], LastOf(s), now)

\* g is the storage after the enactment of each set in D.
Enactments(base, now, D, g) == g = [s \in D |-> EnactStep(base, now, g, s)]

\* Sets of numbers below a bound are finite.
LEMMA SmallNumbersAreFinite ==
    ASSUME NEW n \in Nat, NEW s \in SUBSET (0 .. n - 1)
    PROVE  IsFiniteSet(s)
<1>1. 0 \in Int /\ n - 1 \in Int
  OBVIOUS
<1>2. IsFiniteSet(0 .. n - 1)
  BY <1>1, FS_Interval
<1> QED BY <1>2, FS_Subset

\* A set of numbers below a bound has a last one.
LEMMA LastIsElement ==
    ASSUME NEW n \in Nat, NEW s \in SUBSET (0 .. n - 1), s # {}
    PROVE  /\ LastOf(s) \in s /\ \A j \in s : j <= LastOf(s)
           /\ IsFiniteSet(s) /\ IsFiniteSet(s \ {LastOf(s)})
           /\ Cardinality(s) \in Nat
           /\ Cardinality(s \ {LastOf(s)}) = Cardinality(s) - 1
<1> DEFINE T == {n - i : i \in s}
<1>0. \A i \in s : i \in Nat /\ n - i \in Nat
  OBVIOUS
<1>1. T \subseteq Nat /\ T # {}
  BY <1>0
<1>2. PICK m \in T : \A k \in T : m <= k
  <2> HIDE DEF T
  <2> QED BY <1>1, LeastNatural
<1>3. PICK i \in s : m = n - i
  BY <1>2
<1>4. \A j \in s : j <= i
  <2> SUFFICES ASSUME NEW j \in s
               PROVE  j <= i
    OBVIOUS
  <2>1. n - i <= n - j
    BY <1>2, <1>3
  <2> QED BY <1>0, <2>1
<1>5. LastOf(s) \in s /\ \A j \in s : j <= LastOf(s)
  BY <1>4 DEF LastOf
<1>6. IsFiniteSet(s)
  BY SmallNumbersAreFinite
<1> QED BY <1>5, <1>6, FS_RemoveElement, FS_CardinalityType

\* What the sets of at most k applications lead to extends to those of k + 1.
LEMMA EnactmentsExtend ==
    ASSUME NEW base, NEW now, NEW n \in Nat, NEW S \in SUBSET (0 .. n - 1), NEW k \in Nat, NEW g,
           Enactments(base, now, Small(S, k), g)
    PROVE  \E h : Enactments(base, now, Small(S, k + 1), h)
<1> DEFINE h == [s \in Small(S, k + 1) |-> EnactStep(base, now, g, s)]
<1>1. \A s \in Small(S, k) : s \in Small(S, k + 1)
  <2> SUFFICES ASSUME NEW s \in Small(S, k)
               PROVE  s \in Small(S, k + 1)
    OBVIOUS
  <2>1. s \in SUBSET (0 .. n - 1)
    BY DEF Small
  <2>2. Cardinality(s) \in Nat
    BY <2>1, SmallNumbersAreFinite, FS_CardinalityType
  <2> QED BY <2>2 DEF Small
<1>2. \A s \in Small(S, k) : h[s] = g[s]
  BY <1>1 DEF Enactments
<1>3. \A s \in Small(S, k + 1) : s # {} => s \ {LastOf(s)} \in Small(S, k)
  <2> SUFFICES ASSUME NEW s \in Small(S, k + 1), s # {}
               PROVE  s \ {LastOf(s)} \in Small(S, k)
    OBVIOUS
  <2>1. s \in SUBSET (0 .. n - 1) /\ Cardinality(s) <= k + 1 /\ s \ {LastOf(s)} \in SUBSET S
    BY DEF Small
  <2>2. Cardinality(s) \in Nat /\ Cardinality(s \ {LastOf(s)}) = Cardinality(s) - 1
    BY <2>1, LastIsElement
  <2> QED BY <2>1, <2>2 DEF Small
<1>4. \A s \in Small(S, k + 1) : EnactStep(base, now, h, s) = EnactStep(base, now, g, s)
  <2> HIDE DEF h
  <2> QED BY <1>2, <1>3 DEF EnactStep
<1>5. h = [s \in Small(S, k + 1) |-> EnactStep(base, now, h, s)]
  <2> DEFINE H(s) == EnactStep(base, now, h, s)
             G(s) == EnactStep(base, now, g, s)
  <2>1. h = [s \in Small(S, k + 1) |-> G(s)]
    OBVIOUS
  <2>2. \A s \in Small(S, k + 1) : H(s) = G(s)
    BY <1>4
  <2> HIDE DEF H, G, h
  <2>3. h = [s \in Small(S, k + 1) |-> H(s)]
    BY <2>1, <2>2
  <2> QED BY <2>3 DEF H
<1> HIDE DEF h
<1> QED BY <1>5 DEF Enactments

\* The storage after each set of applications exists.
LEMMA EnactmentsExist ==
    ASSUME NEW base, NEW now, NEW n \in Nat, NEW S \in SUBSET (0 .. n - 1)
    PROVE  \E g : Enactments(base, now, SUBSET S, g)
<1>1. IsFiniteSet(S)
  BY SmallNumbersAreFinite
<1> DEFINE T == {k \in Nat : ~ \E g : Enactments(base, now, Small(S, k), g)}
<1>2. T = {}
  <2> SUFFICES ASSUME T # {} PROVE FALSE
    OBVIOUS
  <2>1. PICK m \in T : \A k \in T : m <= k
    BY LeastNatural
  <2>2. CASE m = 0
    <3>1. \A s \in Small(S, 0) : s = {}
      <4> SUFFICES ASSUME NEW s \in Small(S, 0) PROVE s = {}
        OBVIOUS
      <4>1. IsFiniteSet(s) /\ Cardinality(s) <= 0
        BY <1>1, FS_Subset DEF Small
      <4>2. Cardinality(s) = 0
        BY <4>1, FS_CardinalityType
      <4> QED BY <4>1, <4>2, FS_EmptySet
    <3> DEFINE g == [s \in Small(S, 0) |-> base]
               Z(s) == EnactStep(base, now, g, s)
    <3>2. \A s \in Small(S, 0) : Z(s) = base
      BY <3>1 DEF EnactStep
    <3>3. g = [s \in Small(S, 0) |-> base]
      OBVIOUS
    <3> HIDE DEF g, Z
    <3>4. g = [s \in Small(S, 0) |-> Z(s)]
      BY <3>2, <3>3
    <3>5. Enactments(base, now, Small(S, 0), g)
      BY <3>4 DEF Enactments, Z
    <3> QED BY <2>1, <2>2, <3>5
  <2>3. CASE m # 0
    <3>1. m - 1 \in Nat /\ m - 1 \notin T /\ (m - 1) + 1 = m
      BY <2>1, <2>3
    <3>2. PICK g : Enactments(base, now, Small(S, m - 1), g)
      BY <3>1
    <3>3. \E h : Enactments(base, now, Small(S, (m - 1) + 1), h)
      BY <3>1, <3>2, EnactmentsExtend
    <3> QED BY <2>1, <3>1, <3>3
  <2> QED BY <2>2, <2>3
<1>3. \E g : Enactments(base, now, Small(S, Cardinality(S)), g)
  <2>1. Cardinality(S) \in Nat
    BY <1>1, AllAreSmall
  <2> QED BY <1>2, <2>1
<1> QED BY <1>1, <1>3, AllAreSmall

\* g is the storage after each set of the applications S, which are enacted in turn.
InTurn(g, S, now) ==
    /\ EnactedAll(S, now) = g[S] /\ g[{}] = licensing
    /\ \A s \in SUBSET S : s # {} =>
          LastOf(s) \in s /\ g[s] = Enacted(g[s \ {LastOf(s)}], LastOf(s), now)

\* What holds of the storage and stays true with each application holds at the end.
LEMMA EnactedInTurn ==
    ASSUME NEW n \in Nat, NEW S \in SUBSET (0 .. n - 1), NEW now
    PROVE  \E g : InTurn(g, S, now)
<1> DEFINE base == licensing
           g == CHOOSE g : Enactments(base, now, SUBSET S, g)
<1>1. Enactments(base, now, SUBSET S, g)
  BY EnactmentsExist
<1>2. EnactedAll(S, now) = g[S]
  BY DEF EnactedAll, Enactments, EnactStep
<1> HIDE DEF g
<1>3. \A s \in SUBSET S : g[s] = EnactStep(base, now, g, s)
  BY <1>1 DEF Enactments
<1>4. \A s \in SUBSET S : s # {} => LastOf(s) \in s
  BY LastIsElement
<1>5. g[{}] = licensing
  BY <1>3 DEF EnactStep
<1>6. \A s \in SUBSET S : s # {} => g[s] = Enacted(g[s \ {LastOf(s)}], LastOf(s), now)
  BY <1>3 DEF EnactStep
<1>7. InTurn(g, S, now)
  BY <1>2, <1>4, <1>5, <1>6 DEF InTurn
<1> QED BY <1>7

-----------------------------------------------------------------------------
(* The licences                                                            *)

LicenseApp ==
    [org_account : Firms, license_type : LicenseTypes, region_id : LicenseRegions,
     nation_id : 1 .. 79, requested_duration : Nat, votes_for : Nat, votes_against : Nat,
     status : AppStatus, end_block : Nat, renews_license_id : SUBSET Nat]

LicenseRecord ==
    [org_account : Firms, license_type : LicenseTypes, region_id : LicenseRegions,
     issued_block : Nat, expires_block : Nat, is_active : BOOLEAN, app_id : Nat]

LicensingShape(s) ==
    s = [ministries |-> s.ministries, apps |-> s.apps, ending |-> s.ending, voted |-> s.voted,
         licenses |-> s.licenses, byOrg |-> s.byOrg, depositors |-> s.depositors]

PendingIn(apps) == {i \in DOMAIN apps : apps[i].status = "PendingKhural"}

\* The approved applications have one licence each.
EachHasOne(apps, licenses) ==
    /\ \A l \in DOMAIN licenses :
          licenses[l].app_id \in DOMAIN apps /\ apps[licenses[l].app_id].status = "Approved"
    /\ \A i \in DOMAIN apps :
          apps[i].status = "Approved" => \E l \in DOMAIN licenses : licenses[l].app_id = i
    /\ \A l, k \in DOMAIN licenses : licenses[l].app_id = licenses[k].app_id => l = k

Voters(voted, i) == {c \in Citizens : <<i, c>> \in voted}

VotesAreVoters(apps, voted) ==
    /\ \A v \in voted : v[1] \in DOMAIN apps
    /\ \A i \in DOMAIN apps :
          /\ IsFiniteSet(Voters(voted, i))
          /\ apps[i].votes_for + apps[i].votes_against = Cardinality(Voters(voted, i))

Earlier(licenses, i) ==
    {k \in DOMAIN licenses : k < i /\ licenses[k].org_account = licenses[i].org_account}

\* The list of an organization has its first licences, and no other's.
FirstAreListed(licenses, byOrg) ==
    /\ byOrg \in [Firms -> SUBSET (DOMAIN licenses)]
    /\ \A f \in Firms : \A i \in byOrg[f] : licenses[i].org_account = f
    /\ \A i \in DOMAIN licenses :
          Cardinality(Earlier(licenses, i)) < MaxLicensesPerOrg =>
             i \in byOrg[licenses[i].org_account]

LicenceBooks(n, s) ==
    /\ LicensingShape(s)
    /\ s.apps \in Numbered(n, LicenseApp)
    /\ \E m \in Nat : s.licenses \in Numbered(m, LicenseRecord)
    /\ EachHasOne(s.apps, s.licenses)
    /\ VotesAreVoters(s.apps, s.voted)
    /\ FirstAreListed(s.licenses, s.byOrg)

HeldFor(depositors, m) == {i \in DOMAIN depositors : depositors[i] = m}

\* The deposits of the pending applications are reserved, and nothing else is.
DepositsAreHeld(apps, depositors, res) ==
    /\ depositors \in [PendingIn(apps) -> Ministries]
    /\ res = [a \in Accounts |-> res[a]]
    /\ \A m \in Ministries : res[m] = ApplicationDeposit * Cardinality(HeldFor(depositors, m))

\* Every pending application is enacted by a block to come.
EndsAreListed(apps, ending, now) ==
    /\ \A x \in DOMAIN ending : ending[x] \subseteq DOMAIN apps
    /\ \A i \in PendingIn(apps) :
          /\ now < apps[i].end_block
          /\ apps[i].end_block \in DOMAIN ending
          /\ i \in ending[apps[i].end_block]

LicencesInv ==
    /\ block \in Nat
    /\ \E n \in Nat : LicenceBooks(n, licensing)
    /\ DepositsAreHeld(licensing.apps, licensing.depositors, reserved)
    /\ EndsAreListed(licensing.apps, licensing.ending, block)

-----------------------------------------------------------------------------
\* An application lasts a number of blocks.
LEMMA DurationIsNatural ==
    ASSUME NEW type, NEW d \in Nat
    PROVE  DurationOf(type, d) \in Nat
<1>1. BlocksPerYear \in Nat
  BY LicensingAssumption
<1>2. BlocksPerYear * 10 \in Nat /\ BlocksPerYear * 5 \in Nat /\ BlocksPerYear * 3 \in Nat
  BY <1>1
<1> QED BY <1>2 DEF DurationOf, default_duration, MaxLicenseBlocks

\* The licence of an approved application is its only one.
LEMMA LicenceIssued ==
    ASSUME NEW apps, NEW aps, NEW licenses, EachHasOne(apps, licenses), NEW i \in DOMAIN apps,
           apps[i].status # "Approved", NEW n, NEW v, v.app_id = i, NEW lics,
           OneMore(licenses, lics, n, v), DOMAIN aps = DOMAIN apps, aps[i].status = "Approved",
           \A j \in DOMAIN apps : j # i => aps[j].status = apps[j].status
    PROVE  EachHasOne(aps, lics)
<1>1. \A l \in DOMAIN lics : l = n \/ (l \in DOMAIN licenses /\ lics[l] = licenses[l])
  BY DEF OneMore
<1>2. \A l \in DOMAIN licenses : licenses[l].app_id # i
  BY DEF EachHasOne
<1>3. lics[n].app_id = i /\ n \in DOMAIN lics
  BY DEF OneMore
<1>4. \A l \in DOMAIN lics :
         lics[l].app_id \in DOMAIN aps /\ aps[lics[l].app_id].status = "Approved"
  BY <1>1, <1>2, <1>3 DEF EachHasOne
<1>5. \A j \in DOMAIN aps :
         aps[j].status = "Approved" => \E l \in DOMAIN lics : lics[l].app_id = j
  BY <1>3 DEF EachHasOne, OneMore
<1>6. \A l, k \in DOMAIN lics : lics[l].app_id = lics[k].app_id => l = k
  BY <1>1, <1>2, <1>3 DEF EachHasOne
<1> QED BY <1>4, <1>5, <1>6 DEF EachHasOne

\* Licences that differ in nothing but whether they are active.
LEMMA LicencesStay ==
    ASSUME NEW apps, NEW aps, NEW licenses, EachHasOne(apps, licenses), NEW lics,
           DOMAIN lics = DOMAIN licenses,
           \A l \in DOMAIN licenses : lics[l].app_id = licenses[l].app_id,
           \A j \in DOMAIN apps : j \in DOMAIN aps /\ aps[j].status = apps[j].status,
           \A j \in DOMAIN aps : j \notin DOMAIN apps => aps[j].status # "Approved"
    PROVE  EachHasOne(aps, lics)
BY DEF EachHasOne

\* A rejected application has none.
LEMMA LicenceRefused ==
    ASSUME NEW apps, NEW aps, NEW licenses, EachHasOne(apps, licenses), NEW i \in DOMAIN apps,
           apps[i].status # "Approved", DOMAIN aps = DOMAIN apps, aps[i].status # "Approved",
           \A j \in DOMAIN apps : j # i => aps[j].status = apps[j].status
    PROVE  EachHasOne(aps, licenses)
BY DEF EachHasOne

\* The list that a licence of the organization f is added to while there is room.
Listed(byOrg, f, n) ==
    [byOrg EXCEPT ![f] = IF Cardinality(@) < MaxLicensesPerOrg THEN @ \cup {n} ELSE @]

\* A new licence comes after all others of its organization.
LEMMA LicenceListed ==
    ASSUME NEW n \in Nat, NEW licenses, licenses \in Numbered(n, LicenseRecord), NEW byOrg,
           FirstAreListed(licenses, byOrg), NEW v \in LicenseRecord, NEW lics,
           OneMore(licenses, lics, n, v)
    PROVE  FirstAreListed(lics, Listed(byOrg, v.org_account, n))
<1> DEFINE f == v.org_account
           list == Listed(byOrg, f, n)
<1>1. f \in Firms
  BY DEF LicenseRecord
<1>2. /\ DOMAIN licenses = 0 .. n - 1 /\ IsFiniteSet(DOMAIN licenses)
      /\ DOMAIN lics = DOMAIN licenses \cup {n} /\ lics[n] = v
      /\ \A i \in DOMAIN licenses : i # n /\ lics[i] = licenses[i]
  BY RecordsAreTyped DEF OneMore
<1>3. byOrg \in [Firms -> SUBSET (DOMAIN licenses)]
  BY DEF FirstAreListed
<1>4. /\ list[f] = IF Cardinality(byOrg[f]) < MaxLicensesPerOrg THEN byOrg[f] \cup {n} ELSE byOrg[f]
      /\ \A g \in Firms : g # f => list[g] = byOrg[g]
      /\ DOMAIN list = Firms
      /\ list = [g \in Firms |-> list[g]]
  BY <1>1, <1>3 DEF Listed
<1> HIDE DEF f, list
<1>5. \A g \in Firms : byOrg[g] \subseteq list[g] /\ list[g] \subseteq byOrg[g] \cup {n}
  BY <1>4
<1>6. \A g \in Firms : n \in list[g] => g = f
  BY <1>2, <1>3, <1>4
<1>7. \A g \in Firms : list[g] \in SUBSET (DOMAIN lics)
  BY <1>2, <1>3, <1>5
<1>8. list \in [Firms -> SUBSET (DOMAIN lics)]
  BY <1>4, <1>7
<1>9. \A g \in Firms : \A i \in list[g] : lics[i].org_account = g
  <2> SUFFICES ASSUME NEW g \in Firms, NEW i \in list[g]
               PROVE  lics[i].org_account = g
    OBVIOUS
  <2>1. CASE i = n
    BY <1>2, <1>6, <2>1 DEF f
  <2>2. CASE i \in byOrg[g]
    <3>1. i \in DOMAIN licenses /\ licenses[i].org_account = g
      BY <1>3, <2>2 DEF FirstAreListed
    <3> QED BY <1>2, <3>1
  <2> QED BY <1>5, <2>1, <2>2
<1>10. ASSUME NEW i \in DOMAIN lics, Cardinality(Earlier(lics, i)) < MaxLicensesPerOrg
       PROVE  i \in list[lics[i].org_account]
  <2>1. CASE i = n
    <3>1. byOrg[f] \subseteq Earlier(lics, n)
      <4> SUFFICES ASSUME NEW k \in byOrg[f]
                   PROVE  k \in Earlier(lics, n)
        OBVIOUS
      <4>1. k \in DOMAIN licenses /\ licenses[k].org_account = f
        BY <1>1, <1>3 DEF FirstAreListed
      <4>2. k < n
        BY <1>2, <4>1
      <4> QED BY <1>2, <4>1, <4>2 DEF Earlier, f
    <3>2. IsFiniteSet(Earlier(lics, n)) /\ Cardinality(Earlier(lics, n)) \in Nat
      <4>1. IsFiniteSet(DOMAIN lics)
        BY <1>2, FS_AddElement
      <4>2. Earlier(lics, n) \subseteq DOMAIN lics
        BY DEF Earlier
      <4> QED BY <4>1, <4>2, FS_Subset, FS_CardinalityType
    <3>3. Cardinality(byOrg[f]) \in Nat /\ Cardinality(byOrg[f]) <= Cardinality(Earlier(lics, n))
      BY <3>1, <3>2, FS_Subset, FS_CardinalityType
    <3>4. Cardinality(byOrg[f]) < MaxLicensesPerOrg
      BY <1>10, <2>1, <3>2, <3>3, LicensingAssumption
    <3> QED BY <1>2, <1>4, <2>1, <3>4 DEF f
  <2>2. CASE i # n
    <3>1. i \in DOMAIN licenses /\ lics[i] = licenses[i] /\ i < n
      BY <1>2, <2>2
    <3>2. Earlier(lics, i) = Earlier(licenses, i)
      <4>1. \A k \in DOMAIN lics : k < i => k \in DOMAIN licenses
        BY <1>2, <3>1
      <4> QED BY <1>2, <3>1, <4>1 DEF Earlier
    <3>3. licenses[i].org_account \in Firms
      <4>1. licenses[i] \in LicenseRecord
        BY <3>1, RecordsAreTyped
      <4> QED BY <4>1 DEF LicenseRecord
    <3>4. i \in byOrg[licenses[i].org_account]
      BY <1>10, <3>1, <3>2 DEF FirstAreListed
    <3> QED BY <1>5, <3>1, <3>3, <3>4
  <2> QED BY <2>1, <2>2
<1> QED BY <1>8, <1>9, <1>10 DEF FirstAreListed, list, f

\* The lists do not change with what else changes of a licence.
LEMMA ListsStay ==
    ASSUME NEW licenses, NEW byOrg, FirstAreListed(licenses, byOrg), NEW lics,
           DOMAIN lics = DOMAIN licenses,
           \A i \in DOMAIN licenses : lics[i].org_account = licenses[i].org_account
    PROVE  FirstAreListed(lics, byOrg)
<1>1. \A i \in DOMAIN licenses : Earlier(lics, i) = Earlier(licenses, i)
  BY DEF Earlier
<1>2. \A f \in Firms : byOrg[f] \subseteq DOMAIN licenses
  BY DEF FirstAreListed
<1> QED BY <1>1, <1>2 DEF FirstAreListed

\* The applications aps are apps with another status of i.
StatusSet(apps, aps, i, status) ==
    /\ DOMAIN aps = DOMAIN apps
    /\ aps[i].status = status /\ aps[i].end_block = apps[i].end_block
    /\ aps[i].votes_for = apps[i].votes_for /\ aps[i].votes_against = apps[i].votes_against
    /\ \A j \in DOMAIN apps : j # i => aps[j] = apps[j]

\* Writing the status of an application leaves the rest of it as it was.
LEMMA StatusWritten ==
    ASSUME NEW n \in Nat, NEW apps, apps \in Numbered(n, LicenseApp), NEW i \in DOMAIN apps,
           NEW status \in AppStatus
    PROVE  /\ [apps EXCEPT ![i].status = status] \in Numbered(n, LicenseApp)
           /\ StatusSet(apps, [apps EXCEPT ![i].status = status], i, status)
<1> DEFINE app == apps[i]
           new == [app EXCEPT !.status = status]
<1>1. app \in LicenseApp
  BY RecordsAreTyped
<1> HIDE DEF app
<1>2. /\ new \in LicenseApp /\ new.status = status /\ new.end_block = app.end_block
      /\ new.votes_for = app.votes_for /\ new.votes_against = app.votes_against
  BY <1>1 DEF LicenseApp
<1> HIDE DEF new
<1>3. /\ [apps EXCEPT ![i] = new] \in Numbered(n, LicenseApp)
      /\ DOMAIN [apps EXCEPT ![i] = new] = DOMAIN apps
      /\ \A j \in DOMAIN apps : [apps EXCEPT ![i] = new][j] = IF j = i THEN new ELSE apps[j]
  BY <1>2, RecordChanged
<1>4. [apps EXCEPT ![i].status = status] = [apps EXCEPT ![i] = new]
  BY DEF new, app
<1> QED BY <1>2, <1>3, <1>4 DEF StatusSet, app

\* Votes on applications whose status changes.
LEMMA VotesStay ==
    ASSUME NEW apps, NEW aps, NEW voted, VotesAreVoters(apps, voted), NEW i \in DOMAIN apps,
           NEW status, StatusSet(apps, aps, i, status)
    PROVE  VotesAreVoters(aps, voted)
BY DEF VotesAreVoters, StatusSet

\* A licence of the application is a record.
LEMMA LicenceIsRecord ==
    ASSUME NEW app \in LicenseApp, NEW i \in Nat, NEW now \in Nat
    PROVE  /\ License(i, app, now) \in LicenseRecord
           /\ License(i, app, now).app_id = i
           /\ License(i, app, now).org_account = app.org_account
BY DEF License, LicenseApp, LicenseRecord

\* What an enactment writes, whichever way the vote went.
Settles(s, t, i) ==
    /\ t.ministries = s.ministries /\ t.ending = s.ending /\ t.voted = s.voted
    /\ t.depositors = Without(s.depositors, i)
    /\ \/ StatusSet(s.apps, t.apps, i, "Approved")
       \/ StatusSet(s.apps, t.apps, i, "Rejected")

\* The storage with other applications, licences, lists and deposits.
LicensingWith(s, apps, licenses, byOrg, depositors) ==
    [ministries |-> s.ministries, apps |-> apps, ending |-> s.ending, voted |-> s.voted,
     licenses |-> licenses, byOrg |-> byOrg, depositors |-> depositors]

IsWritten(t, s, apps, licenses, byOrg, deps) ==
    t = [s EXCEPT !.licenses = licenses, !.byOrg = byOrg, !.apps = apps, !.depositors = deps]

\* Writing these fields leaves the others.
LEMMA StorageWritten ==
    ASSUME NEW s, LicensingShape(s), NEW apps, NEW licenses, NEW byOrg, NEW deps, NEW t,
           IsWritten(t, s, apps, licenses, byOrg, deps)
    PROVE  t = LicensingWith(s, apps, licenses, byOrg, deps)
BY DEF LicensingShape, LicensingWith, IsWritten

\* The application i is enacted: its votes are those of delegates, and it has a
\* licence exactly if it was approved.
LEMMA EnactedKeeps ==
    ASSUME NEW n \in Nat, NEW s, LicenceBooks(n, s), NEW i \in PendingIn(s.apps), NEW now \in Nat
    PROVE  LicenceBooks(n, Enacted(s, i, now)) /\ Settles(s, Enacted(s, i, now), i)
<1> DEFINE app == s.apps[i]
           new == License(i, app, now)
           id == FreshId(s.licenses)
           yes == [s EXCEPT !.licenses = Put(@, id, new),
                            !.byOrg[app.org_account] =
                               IF Cardinality(@) < MaxLicensesPerOrg THEN @ \cup {id} ELSE @,
                            !.apps[i].status = "Approved",
                            !.depositors = DepositTaken(s, i)]
           no == [s EXCEPT !.apps[i].status = "Rejected", !.depositors = DepositTaken(s, i)]
<1>1. LicensingShape(s) /\ s.apps \in Numbered(n, LicenseApp)
  BY DEF LicenceBooks
<1>2. PICK m \in Nat : s.licenses \in Numbered(m, LicenseRecord)
  BY DEF LicenceBooks
<1>3. i \in DOMAIN s.apps /\ app.status = "PendingKhural" /\ app \in LicenseApp /\ i \in Nat
  BY <1>1, RecordsAreTyped DEF PendingIn
<1>4. new \in LicenseRecord /\ new.app_id = i /\ new.org_account = app.org_account
  BY <1>3, LicenceIsRecord
<1>5. Enacted(s, i, now) = IF Accepted(app) THEN yes ELSE no
  BY DEF Enacted
<1> HIDE DEF app, new
<1>6. /\ id = m /\ OneMore(s.licenses, Put(s.licenses, m, new), m, new)
      /\ m + 1 \in Nat /\ Put(s.licenses, m, new) \in Numbered(m + 1, LicenseRecord)
  BY <1>2, <1>4, FreshRecord
<1> HIDE DEF id
<1> DEFINE approved == [s.apps EXCEPT ![i].status = "Approved"]
           rejected == [s.apps EXCEPT ![i].status = "Rejected"]
           lists == Listed(s.byOrg, app.org_account, m)
<1>7. /\ approved \in Numbered(n, LicenseApp) /\ StatusSet(s.apps, approved, i, "Approved")
      /\ rejected \in Numbered(n, LicenseApp) /\ StatusSet(s.apps, rejected, i, "Rejected")
  BY <1>1, <1>3, StatusWritten DEF AppStatus
<1>8. /\ LicensingShape(yes)
      /\ yes.ministries = s.ministries /\ yes.apps = approved /\ yes.ending = s.ending
      /\ yes.voted = s.voted /\ yes.licenses = Put(s.licenses, m, new)
      /\ yes.byOrg = lists /\ yes.depositors = Without(s.depositors, i)
  <2> DEFINE L == Put(s.licenses, m, new)
             D == Without(s.depositors, i)
  <2>0. IsWritten(yes, s, approved, L, lists, D)
    BY <1>6 DEF DepositTaken, Listed, IsWritten
  <2> HIDE DEF L, D, lists, approved, yes
  <2>1. yes = LicensingWith(s, approved, L, lists, D)
    BY <1>1, <2>0, StorageWritten
  <2> QED BY <2>1 DEF LicensingShape, LicensingWith, L, D
<1>9. /\ LicensingShape(no)
      /\ no.ministries = s.ministries /\ no.apps = rejected /\ no.ending = s.ending
      /\ no.voted = s.voted /\ no.licenses = s.licenses
      /\ no.byOrg = s.byOrg /\ no.depositors = Without(s.depositors, i)
  <2> DEFINE D == Without(s.depositors, i)
  <2>0. no = [s EXCEPT !.apps = rejected, !.depositors = D]
    BY DEF DepositTaken
  <2> HIDE DEF D, rejected, no
  <2>1. no = LicensingWith(s, rejected, s.licenses, s.byOrg, D)
    BY <1>1, <2>0 DEF LicensingShape, LicensingWith
  <2> QED BY <2>1 DEF LicensingShape, LicensingWith, D
<1> HIDE DEF yes, no, approved, rejected, lists
<1>10. CASE Accepted(app)
  <2>1. EachHasOne(approved, Put(s.licenses, m, new))
    BY <1>3, <1>4, <1>6, <1>7, LicenceIssued DEF LicenceBooks, StatusSet, app
  <2>2. VotesAreVoters(approved, s.voted)
    BY <1>3, <1>7, VotesStay DEF LicenceBooks
  <2>3. FirstAreListed(Put(s.licenses, m, new), lists)
    BY <1>2, <1>4, <1>6, LicenceListed DEF LicenceBooks, lists
  <2>4. LicenceBooks(n, yes)
    BY <1>6, <1>7, <1>8, <2>1, <2>2, <2>3 DEF LicenceBooks
  <2>5. Settles(s, yes, i)
    BY <1>7, <1>8 DEF Settles
  <2> QED BY <1>5, <1>10, <2>4, <2>5
<1>11. CASE ~Accepted(app)
  <2>1. EachHasOne(rejected, s.licenses)
    BY <1>3, <1>7, LicenceRefused DEF LicenceBooks, StatusSet, app
  <2>2. VotesAreVoters(rejected, s.voted)
    BY <1>3, <1>7, VotesStay DEF LicenceBooks
  <2>3. LicenceBooks(n, no)
    BY <1>2, <1>7, <1>9, <2>1, <2>2 DEF LicenceBooks
  <2>4. Settles(s, no, i)
    BY <1>7, <1>9 DEF Settles
  <2> QED BY <1>5, <1>11, <2>3, <2>4
<1> QED BY <1>10, <1>11

\* What licensing has become when the applications E are enacted.
AfterEnacting(n, s, E) ==
    /\ LicenceBooks(n, s)
    /\ s.ministries = licensing.ministries /\ s.ending = licensing.ending
    /\ s.voted = licensing.voted
    /\ \A j \in DOMAIN licensing.apps :
          IF j \in E THEN s.apps[j].status \in {"Approved", "Rejected"}
                     ELSE s.apps[j] = licensing.apps[j]
    /\ s.depositors = [j \in DOMAIN licensing.depositors \ E |-> licensing.depositors[j]]

\* One application more is enacted.
LEMMA OneEnacted ==
    ASSUME NEW n \in Nat, LicenceBooks(n, licensing), NEW now \in Nat,
           NEW E \in SUBSET PendingIn(licensing.apps), NEW i \in E, NEW s,
           AfterEnacting(n, s, E \ {i})
    PROVE  AfterEnacting(n, Enacted(s, i, now), E)
<1> DEFINE t == Enacted(s, i, now)
<1>1. DOMAIN s.apps = 0 .. n - 1 /\ DOMAIN licensing.apps = 0 .. n - 1
  BY DEF AfterEnacting, LicenceBooks, Numbered
<1>2. i \in PendingIn(s.apps)
  BY <1>1 DEF AfterEnacting, PendingIn
<1>3. LicenceBooks(n, t) /\ Settles(s, t, i)
  BY <1>2, EnactedKeeps DEF AfterEnacting
<1> HIDE DEF t
<1>4. \A j \in DOMAIN licensing.apps :
         IF j \in E THEN t.apps[j].status \in {"Approved", "Rejected"}
                    ELSE t.apps[j] = licensing.apps[j]
  <2> SUFFICES ASSUME NEW j \in DOMAIN licensing.apps
               PROVE  IF j \in E THEN t.apps[j].status \in {"Approved", "Rejected"}
                                 ELSE t.apps[j] = licensing.apps[j]
    OBVIOUS
  <2>1. CASE j = i
    BY <1>3, <2>1 DEF Settles, StatusSet
  <2>2. CASE j # i
    <3>1. t.apps[j] = s.apps[j]
      BY <1>1, <1>3, <2>2 DEF Settles, StatusSet
    <3> QED BY <2>2, <3>1 DEF AfterEnacting
  <2> QED BY <2>1, <2>2
<1>5. t.depositors = [j \in DOMAIN licensing.depositors \ E |-> licensing.depositors[j]]
  <2>1. t.depositors = Without(s.depositors, i)
    BY <1>3 DEF Settles
  <2>2. (DOMAIN licensing.depositors \ (E \ {i})) \ {i} = DOMAIN licensing.depositors \ E
    OBVIOUS
  <2> QED BY <2>1, <2>2 DEF Without, AfterEnacting
<1>6. /\ t.ministries = licensing.ministries /\ t.ending = licensing.ending
      /\ t.voted = licensing.voted
  BY <1>3 DEF Settles, AfterEnacting
<1>7. AfterEnacting(n, t, E)
  BY <1>3, <1>4, <1>5, <1>6 DEF AfterEnacting
<1> QED BY <1>7 DEF t

\* All that end at a block are enacted.
LEMMA AllEnacted ==
    ASSUME NEW n \in Nat, LicenceBooks(n, licensing), NEW now \in Nat,
           NEW E \in SUBSET PendingIn(licensing.apps),
           licensing.depositors = [j \in DOMAIN licensing.depositors |-> licensing.depositors[j]]
    PROVE  AfterEnacting(n, EnactedAll(E, now), E)
<1>1. E \in SUBSET (0 .. n - 1)
  BY DEF PendingIn, LicenceBooks, Numbered
<1>2. PICK g : InTurn(g, E, now)
  BY <1>1, EnactedInTurn
<1>3. /\ EnactedAll(E, now) = g[E] /\ g[{}] = licensing
      /\ \A s \in SUBSET E : s # {} =>
            LastOf(s) \in s /\ g[s] = Enacted(g[s \ {LastOf(s)}], LastOf(s), now)
  BY <1>2 DEF InTurn
<1> DEFINE P == {s \in SUBSET E : AfterEnacting(n, g[s], s)}
<1>4. ASSUME NEW s \in SUBSET E, \A x \in s : s \ {x} \in P
      PROVE  s \in P
  <2>1. CASE s = {}
    <3>1. DOMAIN licensing.depositors \ {} = DOMAIN licensing.depositors
      OBVIOUS
    <3>2. AfterEnacting(n, licensing, {})
      BY <3>1 DEF AfterEnacting
    <3> QED BY <1>3, <2>1, <3>2
  <2>2. CASE s # {}
    <3>1. LastOf(s) \in s /\ g[s] = Enacted(g[s \ {LastOf(s)}], LastOf(s), now)
      BY <1>3, <2>2
    <3>2. AfterEnacting(n, g[s \ {LastOf(s)}], s \ {LastOf(s)})
      BY <1>4, <3>1
    <3>3. s \in SUBSET PendingIn(licensing.apps)
      OBVIOUS
    <3>4. AfterEnacting(n, Enacted(g[s \ {LastOf(s)}], LastOf(s), now), s)
      BY <3>1, <3>2, <3>3, OneEnacted
    <3> QED BY <3>1, <3>4
  <2> QED BY <2>1, <2>2
<1>5. IsFiniteSet(E)
  BY <1>1, SmallNumbersAreFinite
<1> HIDE DEF P
<1>6. E \in P
  BY <1>4, <1>5, SubsetInduction
<1> QED BY <1>3, <1>6 DEF P

\* left is dep without the keys E.
IsRest(left, dep, E) == left = [j \in DOMAIN dep \ E |-> dep[j]]

HeldIn(E, dep, m) == {i \in E : dep[i] = m}

\* What is reserved for some applications, and for the others.
LEMMA DepositsSplit ==
    ASSUME NEW dep, IsFiniteSet(DOMAIN dep), NEW E, E \subseteq DOMAIN dep, NEW left,
           IsRest(left, dep, E), NEW m
    PROVE  /\ Cardinality(HeldFor(left, m)) \in Nat
           /\ Cardinality(HeldIn(E, dep, m)) \in Nat
           /\ Cardinality(HeldFor(dep, m)) =
                 Cardinality(HeldFor(left, m)) + Cardinality(HeldIn(E, dep, m))
<1> DEFINE X == HeldFor(left, m)
           Y == HeldIn(E, dep, m)
<1>1. /\ X \subseteq DOMAIN dep /\ Y \subseteq DOMAIN dep /\ X \cap Y = {}
      /\ HeldFor(dep, m) = X \cup Y
  BY DEF HeldFor, HeldIn, IsRest
<1> HIDE DEF X, Y
<1>2. IsFiniteSet(X) /\ IsFiniteSet(Y)
  BY <1>1, FS_Subset
<1>3. Cardinality(X \cup Y) = Cardinality(X) + Cardinality(Y) - Cardinality(X \cap Y)
  BY <1>2, FS_Union
<1>4. Cardinality(X \cap Y) = 0 /\ Cardinality(X) \in Nat /\ Cardinality(Y) \in Nat
  BY <1>1, <1>2, FS_EmptySet, FS_CardinalityType
<1> QED BY <1>1, <1>3, <1>4 DEF X, Y

\* A deposit of d for each.
LEMMA ProductOfSum ==
    ASSUME NEW d \in Nat, NEW x \in Nat, NEW y \in Nat
    PROVE  d * (x + y) - d * y = d * x /\ d * x \in Nat /\ d * y \in Nat
OBVIOUS

\* A new block enacts what ends at it, and nothing that ends later.
LEMMA LicensingHook ==
    ASSUME LicencesInv, on_initialize_licensing
    PROVE  LicencesInv'
<1> DEFINE apps == licensing.apps
           dep == licensing.depositors
           E == {i \in At(licensing.ending, block', {}) : apps[i].status = "PendingKhural"}
           after == EnactedAll(E, block')
           Deposits(S, m) == ApplicationDeposit * Cardinality({i \in S : dep[i] = m})
<1>1. PICK n \in Nat : LicenceBooks(n, licensing)
  BY DEF LicencesInv
<1>2. /\ block \in Nat /\ block' = block + 1 /\ block' \in Nat
      /\ DepositsAreHeld(apps, dep, reserved)
      /\ EndsAreListed(apps, licensing.ending, block)
  <2>1. NextBlock
    BY DEF on_initialize_licensing
  <2>2. block \in Nat /\ block' = block + 1 /\ block' \in Nat
    BY <2>1 DEF LicencesInv, NextBlock
  <2> QED BY <2>2 DEF LicencesInv
<1>3. /\ licensing' = [after EXCEPT !.ending = Without(@, block')]
      /\ reserved' = [a \in Accounts |-> reserved[a] - Deposits(E, a)]
  BY DEF on_initialize_licensing
<1>4. E \in SUBSET PendingIn(apps)
  BY <1>2 DEF EndsAreListed, PendingIn, At
<1>5. DOMAIN dep = PendingIn(apps) /\ dep = [j \in DOMAIN dep |-> dep[j]]
  BY <1>2 DEF DepositsAreHeld
<1> HIDE DEF E, after, apps, dep
<1>6. AfterEnacting(n, after, E)
  BY <1>1, <1>2, <1>4, <1>5, AllEnacted DEF after, apps, dep
<1>7. LicensingShape(after) /\ after.apps \in Numbered(n, LicenseApp)
  BY <1>6 DEF AfterEnacting, LicenceBooks
<1>8. /\ LicensingShape(licensing') /\ licensing'.apps = after.apps
      /\ licensing'.voted = after.voted /\ licensing'.licenses = after.licenses
      /\ licensing'.byOrg = after.byOrg /\ licensing'.depositors = after.depositors
      /\ licensing'.ending = Without(after.ending, block')
  BY <1>3, <1>7 DEF LicensingShape
<1>9. LicenceBooks(n, licensing')
  BY <1>6, <1>8 DEF AfterEnacting, LicenceBooks
<1>10. DOMAIN apps = 0 .. n - 1 /\ DOMAIN after.apps = 0 .. n - 1
  BY <1>1, <1>7 DEF LicenceBooks, Numbered, apps
<1>11. PendingIn(after.apps) = PendingIn(apps) \ E
  BY <1>6, <1>10 DEF AfterEnacting, PendingIn, apps
<1>12. after.depositors = [j \in PendingIn(apps) \ E |-> dep[j]]
  BY <1>5, <1>6 DEF AfterEnacting, dep
<1>13. DepositsAreHeld(after.apps, after.depositors, reserved')
  <2>1. after.depositors \in [PendingIn(after.apps) -> Ministries]
    BY <1>2, <1>11, <1>12 DEF DepositsAreHeld
  <2>2. reserved' = [a \in Accounts |-> reserved'[a]]
    BY <1>3
  <2>3. ASSUME NEW m \in Ministries
        PROVE  reserved'[m] = ApplicationDeposit * Cardinality(HeldFor(after.depositors, m))
    <3>1. m \in Accounts /\ ApplicationDeposit \in Nat
      BY LicensingAssumption
    <3>2. reserved'[m] = reserved[m] - ApplicationDeposit * Cardinality(HeldIn(E, dep, m))
      BY <1>3, <3>1 DEF HeldIn
    <3>3. reserved[m] = ApplicationDeposit * Cardinality(HeldFor(dep, m))
      BY <1>2 DEF DepositsAreHeld
    <3>4. PendingIn(apps) \in SUBSET (0 .. n - 1)
      BY <1>10 DEF PendingIn
    <3> DEFINE x == Cardinality(HeldFor(after.depositors, m))
               y == Cardinality(HeldIn(E, dep, m))
    <3>5. x \in Nat /\ y \in Nat /\ Cardinality(HeldFor(dep, m)) = x + y
      <4> DEFINE left == after.depositors
      <4>1. IsFiniteSet(DOMAIN dep) /\ E \subseteq DOMAIN dep /\ IsRest(left, dep, E)
        BY <1>4, <1>5, <1>12, <3>4, SmallNumbersAreFinite DEF IsRest
      <4> HIDE DEF left
      <4>2. /\ Cardinality(HeldFor(left, m)) \in Nat
            /\ Cardinality(HeldIn(E, dep, m)) \in Nat
            /\ Cardinality(HeldFor(dep, m)) =
                  Cardinality(HeldFor(left, m)) + Cardinality(HeldIn(E, dep, m))
        BY <4>1, DepositsSplit
      <4> QED BY <4>2 DEF left
    <3> HIDE DEF x, y
    <3>6. ApplicationDeposit * (x + y) - ApplicationDeposit * y = ApplicationDeposit * x
      BY <3>1, <3>5, ProductOfSum
    <3> QED BY <3>2, <3>3, <3>5, <3>6 DEF x, y
  <2> QED BY <2>1, <2>2, <2>3 DEF DepositsAreHeld
<1>14. EndsAreListed(after.apps, Without(after.ending, block'), block')
  <2>1. after.ending = licensing.ending
    BY <1>6 DEF AfterEnacting
  <2>2. \A x \in DOMAIN licensing.ending : licensing.ending[x] \subseteq DOMAIN after.apps
    BY <1>2, <1>10 DEF EndsAreListed
  <2>3. ASSUME NEW i \in PendingIn(after.apps)
        PROVE  /\ block' < after.apps[i].end_block
               /\ after.apps[i].end_block \in DOMAIN licensing.ending
               /\ i \in licensing.ending[after.apps[i].end_block]
    <3>1. i \in PendingIn(apps) /\ i \notin E
      BY <1>11
    <3>2. after.apps[i] = apps[i] /\ apps[i].status = "PendingKhural"
      BY <1>6, <3>1 DEF AfterEnacting, PendingIn, apps
    <3>3. /\ block < apps[i].end_block /\ apps[i].end_block \in DOMAIN licensing.ending
          /\ i \in licensing.ending[apps[i].end_block]
      BY <1>2, <3>1 DEF EndsAreListed
    <3>4. apps[i].end_block # block'
      BY <3>1, <3>2, <3>3 DEF E, At
    <3>5. apps[i].end_block \in Nat
      <4>1. apps[i] \in LicenseApp
        BY <1>1, <3>1, RecordsAreTyped DEF LicenceBooks, PendingIn, apps
      <4> QED BY <4>1 DEF LicenseApp
    <3> QED BY <1>2, <3>2, <3>3, <3>4, <3>5
  <2>4. \A i \in PendingIn(after.apps) : after.apps[i].end_block # block'
    BY <1>2, <2>3
  <2> QED BY <2>1, <2>2, <2>3, <2>4 DEF EndsAreListed, Without
<1> QED BY <1>2, <1>8, <1>9, <1>13, <1>14 DEF LicencesInv

-----------------------------------------------------------------------------
(* The calls about licences                                                *)

\* The storage with other ministries, applications, ends, votes and deposits.
LicensingChanged(apps, ending, voted, deps) ==
    /\ LicensingShape(licensing')
    /\ licensing'.apps = apps /\ licensing'.ending = ending /\ licensing'.voted = voted
    /\ licensing'.licenses = licensing.licenses /\ licensing'.byOrg = licensing.byOrg
    /\ licensing'.depositors = deps

\* The deposit of one application more.
LEMMA DepositAdded ==
    ASSUME NEW dep, IsFiniteSet(DOMAIN dep), NEW n, n \notin DOMAIN dep, NEW who, NEW m
    PROVE  /\ Cardinality(HeldFor(dep, m)) \in Nat
           /\ Cardinality(HeldFor(Put(dep, n, who), m)) =
                 Cardinality(HeldFor(dep, m)) + (IF m = who THEN 1 ELSE 0)
<1> DEFINE X == HeldFor(dep, m)
           Y == HeldFor(Put(dep, n, who), m)
<1>1. X \subseteq DOMAIN dep /\ n \notin X
  BY DEF HeldFor
<1>2. Y = IF m = who THEN X \cup {n} ELSE X
  BY DEF HeldFor, Put
<1> HIDE DEF X, Y
<1>3. IsFiniteSet(X) /\ Cardinality(X) \in Nat /\ Cardinality(X \cup {n}) = Cardinality(X) + 1
  BY <1>1, FS_Subset, FS_CardinalityType, FS_AddElement
<1> QED BY <1>2, <1>3 DEF X, Y

\* Applying for a licence, the first time or again.
LEMMA SubmitKeeps ==
    ASSUME LicencesInv, NEW who \in Ministries, NEW app \in LicenseApp, Submit(who, app),
           app.status = "PendingKhural", app.votes_for = 0, app.votes_against = 0,
           app.end_block = block + LicenseVotingPeriod
    PROVE  LicencesInv'
<1> DEFINE apps == licensing.apps
           dep == licensing.depositors
           ending == licensing.ending
           voted == licensing.voted
<1>1. PICK n \in Nat : LicenceBooks(n, licensing)
  BY DEF LicencesInv
<1>2. /\ block \in Nat /\ DepositsAreHeld(apps, dep, reserved)
      /\ EndsAreListed(apps, ending, block)
  BY DEF LicencesInv
<1>3. LicensingShape(licensing) /\ apps \in Numbered(n, LicenseApp)
  BY <1>1 DEF LicenceBooks
<1> DEFINE aps == Put(apps, n, app)
           ends == Put(ending, app.end_block, At(ending, app.end_block, {}) \cup {n})
           deps == Put(dep, n, who)
<1>4. /\ FreshId(apps) = n /\ OneMore(apps, aps, n, app) /\ n + 1 \in Nat
      /\ aps \in Numbered(n + 1, LicenseApp)
  BY <1>3, FreshRecord
<1>5. /\ licensing' = [licensing EXCEPT !.apps = aps, !.ending = ends, !.depositors = deps]
      /\ reserved' = [reserved EXCEPT ![who] = @ + ApplicationDeposit]
      /\ block' = block
  BY <1>4 DEF Submit, reserve
<1> HIDE DEF apps, dep, ending, voted, aps, ends, deps
<1>6. LicensingChanged(aps, ends, voted, deps)
  BY <1>3, <1>5 DEF LicensingShape, LicensingChanged, voted
<1>7. PendingIn(aps) = PendingIn(apps) \cup {n} /\ n \notin DOMAIN apps /\ n \notin PendingIn(apps)
  BY <1>4 DEF OneMore, PendingIn
<1>8. EachHasOne(aps, licensing.licenses)
  <2>1. \A j \in DOMAIN apps : j \in DOMAIN aps /\ aps[j].status = apps[j].status
    BY <1>4 DEF OneMore
  <2>2. \A j \in DOMAIN aps : j \notin DOMAIN apps => aps[j].status # "Approved"
    BY <1>4 DEF OneMore
  <2> QED BY <1>1, <2>1, <2>2, LicencesStay DEF LicenceBooks, apps
<1>9. VotesAreVoters(aps, voted)
  <2>1. VotesAreVoters(apps, voted)
    BY <1>1 DEF LicenceBooks, apps, voted
  <2>2. Voters(voted, n) = {}
    BY <1>7, <2>1 DEF VotesAreVoters, Voters
  <2>3. IsFiniteSet(Voters(voted, n)) /\ Cardinality(Voters(voted, n)) = 0
    BY <2>2, FS_EmptySet
  <2>4. aps[n].votes_for + aps[n].votes_against = 0
    BY <1>4 DEF OneMore
  <2> QED BY <1>4, <2>1, <2>3, <2>4 DEF VotesAreVoters, OneMore
<1>10. \E k \in Nat : LicenceBooks(k, licensing')
  BY <1>1, <1>4, <1>6, <1>8, <1>9 DEF LicenceBooks, LicensingChanged
<1>11. DepositsAreHeld(aps, deps, reserved')
  <2>1. /\ dep \in [PendingIn(apps) -> Ministries] /\ DOMAIN dep = PendingIn(apps)
        /\ reserved = [a \in Accounts |-> reserved[a]]
    BY <1>2 DEF DepositsAreHeld
  <2>2. deps \in [PendingIn(aps) -> Ministries]
    BY <1>7, <2>1 DEF deps, Put
  <2>3. reserved' = [a \in Accounts |-> reserved'[a]]
    BY <1>5, <2>1
  <2>4. IsFiniteSet(DOMAIN dep)
    <3>1. DOMAIN dep \in SUBSET (0 .. n - 1)
      BY <1>3, <2>1 DEF Numbered, PendingIn
    <3> QED BY <3>1, SmallNumbersAreFinite
  <2>5. ASSUME NEW m \in Ministries
        PROVE  reserved'[m] = ApplicationDeposit * Cardinality(HeldFor(deps, m))
    <3> DEFINE x == Cardinality(HeldFor(dep, m))
               y == Cardinality(HeldFor(deps, m))
    <3>1. x \in Nat /\ y = x + (IF m = who THEN 1 ELSE 0)
      BY <1>7, <2>1, <2>4, DepositAdded DEF deps
    <3>2. reserved[m] = ApplicationDeposit * x
      BY <1>2 DEF DepositsAreHeld
    <3>3. m \in Accounts /\ who \in Accounts /\ ApplicationDeposit \in Nat
      BY LicensingAssumption
    <3>4. reserved'[m] = reserved[m] + (IF m = who THEN ApplicationDeposit ELSE 0)
      <4>1. reserved[m] \in Nat
        BY <3>1, <3>2, <3>3, ProductOfSum
      <4> QED BY <1>5, <2>1, <3>3, <4>1
    <3> HIDE DEF x, y
    <3>5. ApplicationDeposit * (x + 1) - ApplicationDeposit * 1 = ApplicationDeposit * x
      BY <3>1, <3>3, ProductOfSum
    <3>6. ApplicationDeposit * (x + 1) \in Nat /\ ApplicationDeposit * x \in Nat
      BY <3>1, <3>3, ProductOfSum
    <3>7. ApplicationDeposit * y =
             ApplicationDeposit * x + (IF m = who THEN ApplicationDeposit ELSE 0)
      BY <3>1, <3>3, <3>5, <3>6
    <3> QED BY <3>2, <3>4, <3>7 DEF y
  <2> QED BY <2>2, <2>3, <2>5 DEF DepositsAreHeld
<1>12. EndsAreListed(aps, ends, block)
  <2> DEFINE e == app.end_block
  <2>1. e \in Nat /\ block < e
    BY <1>2, LicensingAssumption
  <2>2. /\ DOMAIN ends = DOMAIN ending \cup {e} /\ n \in ends[e]
        /\ ends[e] = At(ending, e, {}) \cup {n}
        /\ \A x \in DOMAIN ending : x # e => ends[x] = ending[x]
    BY DEF ends, Put
  <2> HIDE DEF e
  <2>3. \A x \in DOMAIN ends : ends[x] \subseteq DOMAIN aps
    <3>1. \A x \in DOMAIN ending : ending[x] \subseteq DOMAIN apps
      BY <1>2 DEF EndsAreListed
    <3>2. DOMAIN aps = DOMAIN apps \cup {n}
      BY <1>4 DEF OneMore
    <3> QED BY <2>2, <3>1, <3>2 DEF At
  <2>4. ASSUME NEW i \in PendingIn(aps)
        PROVE  /\ block < aps[i].end_block /\ aps[i].end_block \in DOMAIN ends
               /\ i \in ends[aps[i].end_block]
    <3>1. CASE i = n
      <4>1. aps[i].end_block = e
        BY <1>4, <3>1 DEF OneMore, e
      <4> QED BY <2>1, <2>2, <3>1, <4>1
    <3>2. CASE i \in PendingIn(apps)
      <4>1. aps[i] = apps[i]
        BY <1>4, <3>2 DEF OneMore, PendingIn
      <4>2. /\ block < apps[i].end_block /\ apps[i].end_block \in DOMAIN ending
            /\ i \in ending[apps[i].end_block]
        BY <1>2, <3>2 DEF EndsAreListed
      <4> QED BY <2>2, <4>1, <4>2 DEF At
    <3> QED BY <1>7, <3>1, <3>2
  <2> QED BY <2>3, <2>4 DEF EndsAreListed
<1> QED BY <1>2, <1>5, <1>6, <1>10, <1>11, <1>12 DEF LicencesInv, LicensingChanged

\* The applications aps are apps with a vote more on i.
VoteCounted(n, apps, aps, i) ==
    /\ aps \in Numbered(n, LicenseApp)
    /\ \A j \in DOMAIN apps : j # i => aps[j] = apps[j]
    /\ aps[i].status = apps[i].status /\ aps[i].end_block = apps[i].end_block
    /\ aps[i].votes_for + aps[i].votes_against = apps[i].votes_for + apps[i].votes_against + 1

\* A vote raises one of the two counts.
LEMMA VoteWritten ==
    ASSUME NEW n \in Nat, NEW apps, apps \in Numbered(n, LicenseApp), NEW i \in DOMAIN apps,
           NEW p \in {0, 1}, NEW aps,
           aps = [apps EXCEPT ![i].votes_for = @ + p, ![i].votes_against = @ + (1 - p)]
    PROVE  VoteCounted(n, apps, aps, i)
<1> DEFINE app == apps[i]
           new == [app EXCEPT !.votes_for = @ + p, !.votes_against = @ + (1 - p)]
<1>1. app \in LicenseApp
  BY RecordsAreTyped
<1>2. aps = [apps EXCEPT ![i] = new]
  OBVIOUS
<1> HIDE DEF app
<1>3. /\ new \in LicenseApp /\ new.status = app.status /\ new.end_block = app.end_block
      /\ new.votes_for = app.votes_for + p /\ new.votes_against = app.votes_against + (1 - p)
      /\ app.votes_for \in Nat /\ app.votes_against \in Nat
  <2>1. app.votes_for \in Nat /\ app.votes_against \in Nat
    BY <1>1 DEF LicenseApp
  <2>2. app.votes_for + p \in Nat /\ app.votes_against + (1 - p) \in Nat
    BY <2>1
  <2> QED BY <1>1, <2>1, <2>2 DEF LicenseApp
<1> HIDE DEF new
<1>4. /\ [apps EXCEPT ![i] = new] \in Numbered(n, LicenseApp)
      /\ \A j \in DOMAIN apps : [apps EXCEPT ![i] = new][j] = IF j = i THEN new ELSE apps[j]
  BY <1>3, RecordChanged
<1>5. /\ aps \in Numbered(n, LicenseApp) /\ aps[i] = new
      /\ \A j \in DOMAIN apps : j # i => aps[j] = apps[j]
  BY <1>2, <1>4
<1>6. new.votes_for + new.votes_against = app.votes_for + app.votes_against + 1
  BY <1>3
<1> QED BY <1>3, <1>5, <1>6 DEF VoteCounted, app

\* The vote of a delegate who has not voted before.
LEMMA VoteKeeps ==
    ASSUME LicencesInv, NEW c \in Citizens, NEW i \in DOMAIN licensing.apps,
           NEW approve \in BOOLEAN, vote_on_license(c, i, approve)
    PROVE  LicencesInv'
<1> DEFINE apps == licensing.apps
           dep == licensing.depositors
           ending == licensing.ending
           voted == licensing.voted
           p == IF approve THEN 1 ELSE 0
           aps == [apps EXCEPT ![i].votes_for = @ + p, ![i].votes_against = @ + (1 - p)]
           more == voted \cup {<<i, c>>}
<1>1. PICK n \in Nat : LicenceBooks(n, licensing)
  BY DEF LicencesInv
<1>2. /\ block \in Nat /\ DepositsAreHeld(apps, dep, reserved)
      /\ EndsAreListed(apps, ending, block)
  BY DEF LicencesInv
<1>3. LicensingShape(licensing) /\ apps \in Numbered(n, LicenseApp)
  BY <1>1 DEF LicenceBooks
<1>4. /\ licensing' = [licensing EXCEPT !.voted = more, !.apps = aps]
      /\ <<i, c>> \notin voted /\ block' = block /\ reserved' = reserved
  <2>1. (IF approve THEN 0 ELSE 1) = 1 - p
    OBVIOUS
  <2>2. licensing' = [licensing EXCEPT
          !.voted = @ \cup {<<i, c>>},
          !.apps[i].votes_for = @ + IF approve THEN 1 ELSE 0,
          !.apps[i].votes_against = @ + IF approve THEN 0 ELSE 1]
    BY DEF vote_on_license
  <2>3. licensing' = [licensing EXCEPT !.voted = more, !.apps = aps]
    BY <2>1, <2>2
  <2> QED BY <2>3 DEF vote_on_license, HasNotVoted, ledger
<1>5. VoteCounted(n, apps, aps, i)
  <2>1. p \in {0, 1}
    OBVIOUS
  <2> HIDE DEF p, apps
  <2> QED BY <1>3, <2>1, VoteWritten DEF apps
<1> HIDE DEF apps, dep, ending, voted, aps, more, p
<1>6. LicensingChanged(aps, ending, more, dep)
  BY <1>3, <1>4 DEF LicensingShape, LicensingChanged, ending, dep
<1>7. /\ DOMAIN aps = DOMAIN apps /\ i \in DOMAIN apps
      /\ \A j \in DOMAIN apps :
            aps[j].status = apps[j].status /\ aps[j].end_block = apps[j].end_block
  BY <1>3, <1>5 DEF VoteCounted, Numbered, apps
<1>8. PendingIn(aps) = PendingIn(apps)
  BY <1>7 DEF PendingIn
<1>9. EachHasOne(aps, licensing.licenses)
  BY <1>1, <1>7, LicencesStay DEF LicenceBooks, apps
<1>10. VotesAreVoters(aps, more)
  <2>1. VotesAreVoters(apps, voted)
    BY <1>1 DEF LicenceBooks, apps, voted
  <2>2. \A v \in more : v[1] \in DOMAIN aps
    BY <1>7, <2>1 DEF VotesAreVoters, more
  <2>3. ASSUME NEW j \in DOMAIN aps
        PROVE  /\ IsFiniteSet(Voters(more, j))
               /\ aps[j].votes_for + aps[j].votes_against = Cardinality(Voters(more, j))
    <3>1. /\ j \in DOMAIN apps /\ IsFiniteSet(Voters(voted, j))
          /\ apps[j].votes_for + apps[j].votes_against = Cardinality(Voters(voted, j))
      BY <1>7, <2>1 DEF VotesAreVoters
    <3>2. CASE j = i
      <4>1. Voters(more, j) = Voters(voted, j) \cup {c} /\ c \notin Voters(voted, j)
        BY <1>4, <3>2 DEF Voters, more
      <4>2. /\ IsFiniteSet(Voters(more, j))
            /\ Cardinality(Voters(more, j)) = Cardinality(Voters(voted, j)) + 1
        BY <3>1, <4>1, FS_AddElement
      <4> QED BY <1>5, <3>1, <3>2, <4>2 DEF VoteCounted
    <3>3. CASE j # i
      <4>1. Voters(more, j) = Voters(voted, j)
        BY <3>3 DEF Voters, more
      <4> QED BY <1>5, <3>1, <3>3, <4>1 DEF VoteCounted
    <3> QED BY <3>2, <3>3
  <2> QED BY <2>2, <2>3 DEF VotesAreVoters
<1>11. LicenceBooks(n, licensing')
  BY <1>1, <1>5, <1>6, <1>9, <1>10 DEF LicenceBooks, LicensingChanged, VoteCounted
<1>12. DepositsAreHeld(aps, dep, reserved')
  BY <1>2, <1>4, <1>8 DEF DepositsAreHeld
<1>13. EndsAreListed(aps, ending, block')
  <2>1. \A j \in PendingIn(apps) : aps[j].end_block = apps[j].end_block
    BY <1>7 DEF PendingIn
  <2> QED BY <1>2, <1>4, <1>7, <1>8, <2>1 DEF EndsAreListed
<1> QED BY <1>2, <1>4, <1>6, <1>11, <1>12, <1>13 DEF LicencesInv, LicensingChanged

\* Calls that write ministries or licences and move no money.
LicensingRestWritten(lics) ==
    /\ LicensingShape(licensing')
    /\ licensing'.apps = licensing.apps /\ licensing'.ending = licensing.ending
    /\ licensing'.voted = licensing.voted /\ licensing'.byOrg = licensing.byOrg
    /\ licensing'.depositors = licensing.depositors /\ licensing'.licenses = lics
    /\ block' = block /\ reserved' = reserved

\* Ministries come and go.
LEMMA MinistriesChange ==
    ASSUME LicencesInv, LicensingRestWritten(licensing.licenses)
    PROVE  LicencesInv'
BY DEF LicencesInv, LicensingRestWritten, LicenceBooks

\* A licence ends before its time.
LEMMA RevokeKeeps ==
    ASSUME LicencesInv, NEW i \in DOMAIN licensing.licenses,
           licensing' = [licensing EXCEPT !.licenses[i].is_active = FALSE],
           UNCHANGED <<ledger, block, citizens>>
    PROVE  LicencesInv'
<1> DEFINE licenses == licensing.licenses
           new == [licenses[i] EXCEPT !.is_active = FALSE]
           lics == [licenses EXCEPT ![i] = new]
<1>1. PICK n \in Nat : LicenceBooks(n, licensing)
  BY DEF LicencesInv
<1>2. PICK m \in Nat : licenses \in Numbered(m, LicenseRecord)
  BY <1>1 DEF LicenceBooks
<1>3. licenses[i] \in LicenseRecord
  BY <1>2, RecordsAreTyped
<1>4. licensing' = [licensing EXCEPT !.licenses = lics] /\ block' = block /\ reserved' = reserved
  BY DEF ledger
<1>5. LicensingShape(licensing)
  BY <1>1 DEF LicenceBooks
<1> HIDE DEF licenses
<1>6. /\ new \in LicenseRecord /\ new.app_id = licenses[i].app_id
      /\ new.org_account = licenses[i].org_account
  BY <1>3 DEF LicenseRecord
<1> HIDE DEF new
<1>7. /\ lics \in Numbered(m, LicenseRecord) /\ DOMAIN lics = DOMAIN licenses
      /\ \A l \in DOMAIN licenses : lics[l] = IF l = i THEN new ELSE licenses[l]
  BY <1>2, <1>6, RecordChanged DEF licenses
<1> HIDE DEF lics
<1>8. LicensingRestWritten(lics)
  BY <1>4, <1>5 DEF LicensingShape, LicensingRestWritten
<1>9. EachHasOne(licensing.apps, lics)
  <2>1. \A l \in DOMAIN licenses : lics[l].app_id = licenses[l].app_id
    BY <1>6, <1>7
  <2> QED BY <1>1, <1>7, <2>1, LicencesStay DEF LicenceBooks, licenses
<1>10. FirstAreListed(lics, licensing.byOrg)
  <2>1. \A l \in DOMAIN licenses : lics[l].org_account = licenses[l].org_account
    BY <1>6, <1>7
  <2> QED BY <1>1, <1>7, <2>1, ListsStay DEF LicenceBooks, licenses
<1>11. LicenceBooks(n, licensing')
  BY <1>1, <1>7, <1>8, <1>9, <1>10 DEF LicenceBooks, LicensingRestWritten
<1> QED BY <1>8, <1>11 DEF LicencesInv, LicensingRestWritten

\* An application without votes.
IsNewApplication(app) ==
    /\ app \in LicenseApp /\ app.status = "PendingKhural"
    /\ app.votes_for = 0 /\ app.votes_against = 0
    /\ app.end_block = block + LicenseVotingPeriod

\* A new application is a record without votes.
LEMMA ApplicationIsRecord ==
    ASSUME block \in Nat, NEW f \in Firms, NEW t \in LicenseTypes, NEW r \in LicenseRegions,
           NEW k \in 1 .. 79, NEW d \in Nat, NEW renews, renews \subseteq Nat
    PROVE  IsNewApplication(LicenseApplication(f, t, r, k, DurationOf(t, d), renews))
<1>1. DurationOf(t, d) \in Nat /\ block + LicenseVotingPeriod \in Nat
  BY DurationIsNatural, LicensingAssumption
<1> QED BY <1>1 DEF LicenseApplication, LicenseApp, AppStatus, IsNewApplication

\* The calls and the hook of the pallet.
LEMMA LicensingStepKeeps ==
    ASSUME LicencesInv, LicensingStep
    PROVE  LicencesInv'
<1>1. PICK n \in Nat : LicenceBooks(n, licensing)
  BY DEF LicencesInv
<1>2. block \in Nat /\ LicensingShape(licensing)
  BY <1>1 DEF LicencesInv, LicenceBooks
<1>3. ASSUME NEW m \in Ministries, authorize_ministry(m) \/ deauthorize_ministry(m)
      PROVE  LicencesInv'
  <2>1. \/ licensing' = [licensing EXCEPT !.ministries = @ \cup {m}]
        \/ licensing' = [licensing EXCEPT !.ministries = @ \ {m}]
    BY <1>3 DEF authorize_ministry, deauthorize_ministry
  <2>2. block' = block /\ reserved' = reserved
    BY <1>3 DEF authorize_ministry, deauthorize_ministry, ledger
  <2>3. LicensingRestWritten(licensing.licenses)
    BY <1>2, <2>1, <2>2 DEF LicensingShape, LicensingRestWritten
  <2> QED BY <2>3, MinistriesChange
<1>4. ASSUME NEW m \in Ministries, NEW f \in Firms, NEW t \in LicenseTypes,
             NEW r \in LicenseRegions, NEW d \in Durations,
             NEW k \in {NationOf[c] : c \in Citizens},
             submit_license_application(m, f, t, r, k, d)
      PROVE  LicencesInv'
  <2>1. k \in 1 .. 79 /\ d \in Nat /\ {} \subseteq Nat
    BY RegistryAssumption, LicensingAssumption
  <2> DEFINE app == LicenseApplication(f, t, r, k, DurationOf(t, d), {})
  <2>2. IsNewApplication(app)
    BY <1>2, <2>1, ApplicationIsRecord
  <2>3. Submit(m, app)
    BY <1>4 DEF submit_license_application
  <2> HIDE DEF app
  <2> QED BY <2>2, <2>3, SubmitKeeps DEF IsNewApplication
<1>5. ASSUME NEW m \in Ministries, NEW i \in DOMAIN licensing.licenses, NEW d \in Durations,
             renew_license(m, i, d)
      PROVE  LicencesInv'
  <2> DEFINE license == licensing.licenses[i]
             k == licensing.apps[license.app_id].nation_id
             app == LicenseApplication(license.org_account, license.license_type,
                       license.region_id, k, DurationOf(license.license_type, d), {i})
  <2>1. license \in LicenseRecord /\ i \in Nat
    BY <1>1, RecordsAreTyped DEF LicenceBooks
  <2>2. license.app_id \in DOMAIN licensing.apps
    BY <1>1 DEF LicenceBooks, EachHasOne
  <2>3. licensing.apps[license.app_id] \in LicenseApp
    BY <1>1, <2>2, RecordsAreTyped DEF LicenceBooks
  <2>4. k \in 1 .. 79
    BY <2>3 DEF LicenseApp
  <2>5. /\ license.org_account \in Firms /\ license.license_type \in LicenseTypes
        /\ license.region_id \in LicenseRegions
    BY <2>1 DEF LicenseRecord
  <2>6. Submit(m, app)
    BY <1>5 DEF renew_license
  <2> HIDE DEF license, k
  <2>7. d \in Nat /\ {i} \subseteq Nat
    BY <2>1, LicensingAssumption
  <2>8. IsNewApplication(app)
    BY <1>2, <2>4, <2>5, <2>7, ApplicationIsRecord
  <2> HIDE DEF app
  <2> QED BY <2>6, <2>8, SubmitKeeps DEF IsNewApplication
<1>6. ASSUME NEW i \in DOMAIN licensing.licenses, revoke_license(i) \/ judicial_revoke(i)
      PROVE  LicencesInv'
  BY <1>6, RevokeKeeps DEF revoke_license, judicial_revoke
<1> QED BY <1>3, <1>4, <1>5, <1>6, VoteKeeps, LicensingHook DEF LicensingStep

\* A new chain has no licences.
LEMMA LicencesStart ==
    ASSUME MCInit
    PROVE  LicencesInv
<1>1. /\ licensing = NoLicenses /\ block = 0
      /\ reserved = [a \in Accounts |-> 0]
  BY DEF MCInit
<1>2. /\ LicensingShape(licensing) /\ licensing.apps = <<>> /\ licensing.ending = <<>>
      /\ licensing.voted = {} /\ licensing.licenses = <<>>
      /\ licensing.byOrg = [f \in Firms |-> {}] /\ licensing.depositors = <<>>
  BY <1>1 DEF NoLicenses, LicensingShape
<1>3. 0 \in Nat /\ <<>> \in Numbered(0, LicenseApp) /\ <<>> \in Numbered(0, LicenseRecord)
  BY DEF Numbered
<1>4. DOMAIN <<>> = {}
  OBVIOUS
<1>5. LicenceBooks(0, licensing)
  <2>1. EachHasOne(<<>>, <<>>) /\ VotesAreVoters(<<>>, {})
    BY <1>4 DEF EachHasOne, VotesAreVoters
  <2>2. FirstAreListed(<<>>, [f \in Firms |-> {}])
    BY <1>4 DEF FirstAreListed
  <2> QED BY <1>2, <1>3, <2>1, <2>2 DEF LicenceBooks
<1>6. PendingIn(<<>>) = {}
  BY <1>4 DEF PendingIn
<1>7. DepositsAreHeld(<<>>, <<>>, reserved)
  <2>1. \A m : HeldFor(<<>>, m) = {}
    BY <1>4 DEF HeldFor
  <2>2. \A m : Cardinality(HeldFor(<<>>, m)) = 0
    BY <2>1, FS_EmptySet
  <2>3. \A m \in Ministries : m \in Accounts /\ reserved[m] = 0
    BY <1>1, LicensingAssumption
  <2>4. ApplicationDeposit * 0 = 0
    BY LicensingAssumption
  <2>5. <<>> \in [PendingIn(<<>>) -> Ministries] /\ reserved = [a \in Accounts |-> reserved[a]]
    BY <1>1, <1>4, <1>6
  <2> QED BY <2>2, <2>3, <2>4, <2>5 DEF DepositsAreHeld
<1>8. EndsAreListed(<<>>, <<>>, block)
  BY <1>4, <1>6 DEF EndsAreListed
<1> QED BY <1>1, <1>2, <1>5, <1>7, <1>8 DEF LicencesInv

\* What ApplicationsSettleOnce and LicencesAreSeen say is in the books.
LEMMA LicencesAreFunded ==
    ASSUME LicencesInv
    PROVE  ApplicationsSettleOnce /\ LicencesAreSeen
<1>1. PICK n \in Nat : LicenceBooks(n, licensing)
  BY DEF LicencesInv
<1>2. /\ DepositsAreHeld(licensing.apps, licensing.depositors, reserved)
      /\ EndsAreListed(licensing.apps, licensing.ending, block)
  BY DEF LicencesInv
<1> DEFINE pending == {i \in DOMAIN licensing.apps : licensing.apps[i].status = "PendingKhural"}
<1>3. pending = PendingIn(licensing.apps)
  BY DEF PendingIn
<1>4. DOMAIN licensing.depositors = pending
  BY <1>2, <1>3 DEF DepositsAreHeld
<1>5. \A m \in Ministries :
         reserved[m] = ApplicationDeposit
                         * Cardinality({i \in pending : licensing.depositors[i] = m})
  BY <1>2, <1>4 DEF DepositsAreHeld, HeldFor
<1>6. \A i \in pending : block < licensing.apps[i].end_block
  BY <1>2, <1>3 DEF EndsAreListed
<1>7. \A i \in DOMAIN licensing.apps :
         /\ licensing.apps[i].votes_for + licensing.apps[i].votes_against =
               Cardinality({c \in Citizens : <<i, c>> \in licensing.voted})
         /\ (licensing.apps[i].status = "Approved")
               <=> (\E l \in DOMAIN licensing.licenses : licensing.licenses[l].app_id = i)
  BY <1>1 DEF LicenceBooks, VotesAreVoters, Voters, EachHasOne
<1>8. \A l, k \in DOMAIN licensing.licenses :
         licensing.licenses[l].app_id = licensing.licenses[k].app_id => l = k
  BY <1>1 DEF LicenceBooks, EachHasOne
<1>9. ApplicationsSettleOnce
  BY <1>4, <1>5, <1>6, <1>7, <1>8 DEF ApplicationsSettleOnce
<1>10. LicencesAreSeen
  <2>1. FirstAreListed(licensing.licenses, licensing.byOrg)
    BY <1>1 DEF LicenceBooks
  <2> QED BY <2>1 DEF LicencesAreSeen, FirstAreListed, Earlier, is_licensed
<1> QED BY <1>9, <1>10

-----------------------------------------------------------------------------
(* Everything that is held                                                 *)

EscrowsInv ==
    /\ GuildsInv
    /\ part = "vault" => VaultInv
    /\ part = "licences" => LicencesInv

\* Each part keeps what it holds, and takes nothing of another's.
LEMMA EscrowsContinue ==
    ASSUME EscrowsInv, [MCNext]_MCvars
    PROVE  EscrowsInv'
<1>1. GuildsInv /\ GuildsInv' /\ part' = part
  BY GuildsGoOn DEF EscrowsInv, MCNext, MCvars
<1>2. CASE UNCHANGED MCvars
  <2>1. part = "licences" => LicencesInv'
    BY <1>2 DEF EscrowsInv, MCvars, ledger, LedgerTypeOK, LicencesInv
  <2> QED BY <1>1, <1>2, <2>1, VaultContinues DEF EscrowsInv
<1>3. CASE MCNext
  <2>2. ASSUME part = "licences"
        PROVE  LicencesInv'
    <3>1. LicensingStep
      BY <1>3, <2>2 DEF MCNext, GuildStep, FirmStep, MinistryStep
    <3> QED BY <2>2, <3>1, LicensingStepKeeps DEF EscrowsInv
  <2>3. ASSUME part = "vault"
        PROVE  VaultInv'
    BY <1>3, <2>3, VaultContinues DEF EscrowsInv
  <2> QED BY <1>1, <2>2, <2>3 DEF EscrowsInv
<1> QED BY <1>2, <1>3

(***************************************************************************)
(* Nothing is lost in the vaults: what the public ledger is short of is in *)
(* the counter of the pool, and every note that was destroyed cost a       *)
(* nullifier; and a ministry holds the deposits of the applications under  *)
(* vote, which end approved with one licence or rejected with none.        *)
(***************************************************************************)
THEOREM EscrowsAlwaysFunded == MCSpec => []EscrowsAreFunded
<1>1. MCInit => EscrowsInv
  BY GuildsStart, VaultStarts, LicencesStart DEF EscrowsInv
<1>2. EscrowsInv /\ [MCNext]_MCvars => EscrowsInv'
  BY EscrowsContinue
<1>3. EscrowsInv => EscrowsAreFunded
  <2> SUFFICES ASSUME EscrowsInv
               PROVE  EscrowsAreFunded
    OBVIOUS
  <2>2. ASSUME part = "vault"
        PROVE  PoolLosesNothing(Opening)
    <3>1. /\ issuance + pool.totalShielded >= Opening
          /\ Cardinality(Gone(pool.commitments)) <= Cardinality(DOMAIN pool.nullifiers)
      BY <2>2 DEF EscrowsInv, VaultInv, NotesAgree
    <3> QED BY <3>1 DEF PoolLosesNothing, Gone
  <2>3. part = "licences" => ApplicationsSettleOnce /\ LicencesAreSeen
    BY LicencesAreFunded DEF EscrowsInv
  <2> QED BY <2>2, <2>3 DEF EscrowsAreFunded, Opening
<1> QED BY <1>1, <1>2, <1>3, PTL DEF MCSpec

-----------------------------------------------------------------------------
(* The scan of organizations                                               *)

OrgRecord ==
    [hq_region : Regions \cup {1, 2}, status : OrgStatus, last_tax_period_paid : Nat,
     registered_at : Nat]

OrgsShape(s) ==
    s = [organizations |-> s.organizations, crew |-> s.crew, declarations |-> s.declarations,
         penaltyDebt |-> s.penaltyDebt, lastPenalty |-> s.lastPenalty, deposits |-> s.deposits,
         required |-> s.required, cursor |-> s.cursor]

\* The block DueFrom, of what was last paid and of the deposits.
DueOf(last, deposits) ==
    LET activated == {d.block_number : d \in deposits}
        expired == last + TaxPeriodBlocks
    IN  CHOOSE b \in activated \cup {expired} : \A c \in activated \cup {expired} : c <= b

\* How far the cursor c has to go to the organization o of n.
Ahead(c, o, n) == IF c <= o THEN o - c ELSE o + n - c

\* Nobody waits w blocks whom the scan would pass meanwhile.
Behind(w, c, o, n) == w <= 0 \/ MaxOrgsPerBlock * w + Ahead(c, o, n) + 1 <= n

Dated(deposits, now) == \A d \in deposits : d.block_number \in 0 .. now

\* The debt of a delinquent organization, and the last block it grew.
Punishable(s, o, n, now) ==
    /\ now - s.organizations[o].last_tax_period_paid > TaxPeriodBlocks
    /\ o \in DOMAIN s.penaltyDebt /\ s.penaltyDebt[o] >= BasePenaltyAmount
    /\ o \in DOMAIN s.lastPenalty
    /\ Behind(now - s.lastPenalty[o] - PenaltyAccrualPeriodBlocks, s.cursor, o, n)

InTime(s, o, n, now) ==
    /\ s.organizations[o].status = "Active" =>
          Behind(now - DueOf(s.organizations[o].last_tax_period_paid, At(s.deposits, o, {})),
                 s.cursor, o, n)
    /\ s.organizations[o].status = "Delinquent" => Punishable(s, o, n, now)

\* Numbers and dates, without which there is nothing to compare.
OrgsTyped(s, n, now) ==
    /\ OrgsShape(s)
    /\ s.organizations \in Numbered(n, OrgRecord)
    /\ s.cursor \in Nat /\ (n > 0 => s.cursor < n) /\ (n = 0 => s.cursor = 0)
    /\ \A o \in DOMAIN s.deposits : Dated(s.deposits[o], now)
    /\ \E D : s.penaltyDebt \in [D -> Nat]
    /\ \E D : s.lastPenalty \in [D -> 0 .. now]

OrgBooks(s, n, now) ==
    OrgsTyped(s, n, now) /\ \A o \in DOMAIN s.organizations : InTime(s, o, n, now)

ScanInv ==
    IF part \in {"orgs", "vault"}
    THEN block \in Nat /\ \E n \in Nat : OrgBooks(orgs, n, block)
    ELSE orgs = NoOrgs

-----------------------------------------------------------------------------
\* The due block is no earlier than the end of the period and than each deposit.
LEMMA DueIsLast ==
    ASSUME NEW last \in Nat, NEW now \in Nat, NEW deposits, Dated(deposits, now)
    PROVE  /\ DueOf(last, deposits) \in Nat /\ last + TaxPeriodBlocks <= DueOf(last, deposits)
           /\ \A d \in deposits : d.block_number <= DueOf(last, deposits)
<1> DEFINE ids == {d.block_number : d \in deposits} \cup {last + TaxPeriodBlocks}
           n == now + last + TaxPeriodBlocks + 1
<1>1. TaxPeriodBlocks \in Nat
  BY OrganizationAssumption
<1>2. n \in Nat
  BY <1>1
<1>3. ids \in SUBSET (0 .. n - 1) /\ ids # {} /\ \A i \in ids : i \in Nat
  <2>1. \A d \in deposits : d.block_number \in 0 .. n - 1
    BY <1>1 DEF Dated
  <2>2. last + TaxPeriodBlocks \in 0 .. n - 1
    BY <1>1
  <2> QED BY <2>1, <2>2
<1> HIDE DEF ids, n
<1>4. LastOf(ids) \in ids
  BY <1>2, <1>3, LastIsElement
<1>5. \A j \in ids : j <= LastOf(ids)
  BY <1>2, <1>3, LastIsElement
<1>6. LastOf(ids) = DueOf(last, deposits)
  BY DEF LastOf, DueOf, ids
<1>7. LastOf(ids) \in Nat
  BY <1>3, <1>4
<1>8. last + TaxPeriodBlocks \in ids /\ \A d \in deposits : d.block_number \in ids
  BY DEF ids
<1> QED BY <1>5, <1>6, <1>7, <1>8

\* With the deposits of today an organization is not due before.
LEMMA DueToday ==
    ASSUME NEW last \in Nat, NEW now \in Nat, NEW deposits, Dated(deposits, now),
           \/ now <= last + TaxPeriodBlocks
           \/ \E d \in deposits : d.block_number = now
    PROVE  now - DueOf(last, deposits) <= 0
<1>1. /\ DueOf(last, deposits) \in Nat /\ last + TaxPeriodBlocks <= DueOf(last, deposits)
      /\ \A d \in deposits : d.block_number <= DueOf(last, deposits)
  BY DueIsLast
<1>2. TaxPeriodBlocks \in Nat
  BY OrganizationAssumption
<1> QED BY <1>1, <1>2

\* Remainders of what is less than two rounds.
LEMMA RemainderOfOneRound ==
    ASSUME NEW n \in Nat, NEW x \in 0 .. n - 1
    PROVE  x % n = x /\ (x + n) % n = x
OBVIOUS

\* What a block scans from the cursor c, and where it leaves the cursor.
SeenFrom(c, n) ==
    {(c + i) % n : i \in 0 .. (IF MaxOrgsPerBlock <= n THEN MaxOrgsPerBlock ELSE n) - 1}

NextFrom(c, n) == IF MaxOrgsPerBlock >= n THEN 0 ELSE (c + MaxOrgsPerBlock) % n

Nearer(c, c2, o, n) ==
    MaxOrgsPerBlock <= Ahead(c, o, n) /\ Ahead(c2, o, n) = Ahead(c, o, n) - MaxOrgsPerBlock

\* The scan finds organizations.
LEMMA ScannedExist ==
    ASSUME NEW n \in Nat, n > 0, NEW c \in 0 .. n - 1
    PROVE  SeenFrom(c, n) \subseteq 0 .. n - 1
<1>1. \A k \in Nat : (c + k) % n \in 0 .. n - 1
  OBVIOUS
<1>2. MaxOrgsPerBlock \in Nat
  BY OrganizationAssumption
<1> QED BY <1>1, <1>2 DEF SeenFrom

\* The cursor comes nearer by as many as a block scans, or has come by.
LEMMA ScanMoves ==
    ASSUME NEW n \in Nat, NEW c \in 0 .. n - 1, NEW o \in 0 .. n - 1
    PROVE  /\ NextFrom(c, n) \in 0 .. n - 1
           /\ o \in SeenFrom(c, n) \/ Nearer(c, NextFrom(c, n), o, n)
<1> DEFINE m == MaxOrgsPerBlock
           seen == SeenFrom(c, n)
           c2 == NextFrom(c, n)
<1>0. /\ seen = {(c + i) % n : i \in 0 .. (IF m <= n THEN m ELSE n) - 1}
      /\ c2 = IF m >= n THEN 0 ELSE (c + m) % n
  BY DEF SeenFrom, NextFrom
<1> HIDE DEF seen, c2
<1>1. m \in Nat \ {0}
  BY OrganizationAssumption
<1> HIDE DEF m
<1> SUFFICES /\ c2 \in 0 .. n - 1
             /\ o \in seen \/ (m <= Ahead(c, o, n) /\ Ahead(c2, o, n) = Ahead(c, o, n) - m)
  BY DEF Nearer, seen, c2, m
<1>2. \A x \in 0 .. n - 1 : x % n = x /\ (x + n) % n = x
  BY RemainderOfOneRound
<1>3. Ahead(c, o, n) \in 0 .. n - 1 /\ (c + Ahead(c, o, n)) % n = o
  BY <1>2 DEF Ahead
<1>4. CASE Ahead(c, o, n) < m
  <2> DEFINE i == Ahead(c, o, n)
  <2>1. i \in 0 .. (IF m <= n THEN m ELSE n) - 1 /\ (c + i) % n = o
    BY <1>1, <1>3, <1>4
  <2> HIDE DEF i
  <2>2. o \in seen
    BY <1>0, <2>1
  <2>3. c2 \in 0 .. n - 1
    <3>1. CASE m >= n
      BY <1>0, <3>1
    <3>2. CASE m < n
      BY <1>0, <1>1, <1>2, <3>2
    <3> QED BY <1>1, <3>1, <3>2
  <2> QED BY <2>2, <2>3
<1>5. CASE m <= Ahead(c, o, n)
  <2>1. m < n
    BY <1>1, <1>3, <1>5
  <2>2. CASE c + m < n
    <3>1. c2 = c + m
      <4>1. c + m \in 0 .. n - 1 /\ ~ m >= n
        BY <1>1, <2>1, <2>2
      <4>2. (c + m) % n = c + m
        BY <1>2, <4>1
      <4> QED BY <1>0, <4>1, <4>2
    <3> QED BY <1>1, <1>5, <2>1, <2>2, <3>1 DEF Ahead
  <2>3. CASE c + m >= n
    <3>1. c2 = c + m - n
      <4>1. c + m - n \in 0 .. n - 1 /\ (c + m - n) + n = c + m
        BY <1>1, <2>1, <2>3
      <4>2. ((c + m - n) + n) % n = c + m - n
        BY <1>2, <4>1
      <4>3. (c + m) % n = c + m - n /\ ~ m >= n
        BY <1>1, <2>1, <4>1, <4>2
      <4> QED BY <1>0, <4>3
    <3> QED BY <1>1, <1>5, <2>1, <2>3, <3>1 DEF Ahead
  <2> QED BY <1>1, <2>2, <2>3
<1> QED BY <1>1, <1>3, <1>4, <1>5

\* Who is not scanned waits on, and the cursor has come nearer.
LEMMA WaitsOn ==
    ASSUME NEW n \in Nat, NEW c \in 0 .. n - 1, NEW o \in 0 .. n - 1, NEW w \in Int,
           Behind(w, c, o, n), NEW c2 \in 0 .. n - 1, Nearer(c, c2, o, n)
    PROVE  Behind(w + 1, c2, o, n)
<1> DEFINE m == MaxOrgsPerBlock
<1>1. m \in Nat \ {0} /\ Ahead(c, o, n) \in 0 .. n - 1
  BY OrganizationAssumption DEF Ahead
<1>0. m <= Ahead(c, o, n) /\ Ahead(c2, o, n) = Ahead(c, o, n) - m
  BY DEF Nearer
<1> DEFINE a == Ahead(c, o, n)
<1>2. w <= 0 \/ m * w + a + 1 <= n
  BY <1>1 DEF Behind
<1>3. m * (w + 1) = m * w + m /\ m * w \in Int
  BY <1>1
<1>4. w = 0 => m * w = 0
  BY <1>1
<1> HIDE DEF a, m
<1>5. w + 1 <= 0 \/ m * (w + 1) + (a - m) + 1 <= n
  BY <1>0, <1>1, <1>2, <1>3, <1>4 DEF a
<1> QED BY <1>0, <1>5 DEF Behind, a, m

\* Another organization is one more to pass.
LEMMA OneMoreToPass ==
    ASSUME NEW n \in Nat, NEW c \in 0 .. n - 1, NEW o \in 0 .. n - 1, NEW w \in Int,
           Behind(w, c, o, n)
    PROVE  Behind(w, c, o, n + 1)
<1>1. MaxOrgsPerBlock * w \in Int
  BY OrganizationAssumption
<1> DEFINE p == MaxOrgsPerBlock * w
<1>2. w <= 0 \/ p + Ahead(c, o, n) + 1 <= n
  BY DEF Behind
<1> HIDE DEF p
<1>3. w <= 0 \/ p + Ahead(c, o, n + 1) + 1 <= n + 1
  BY <1>1, <1>2 DEF Ahead, p
<1> QED BY <1>3 DEF Behind, p

\* The storage with other organizations, debts and blocks of penalties.
OrgsWith(os, debts, lasts) ==
    [organizations |-> os, crew |-> orgs.crew, declarations |-> orgs.declarations,
     penaltyDebt |-> debts, lastPenalty |-> lasts, deposits |-> orgs.deposits,
     required |-> orgs.required, cursor |-> orgs.cursor]

\* An organization after a visit of the scan: delinquent if it was due, and
\* with a debt that has grown if the time had come.
Visited(s, o, ids, now) ==
    /\ s.organizations[o].last_tax_period_paid = orgs.organizations[o].last_tax_period_paid
    /\ IF o \in ids /\ TurnsDelinquent(o, now)
       THEN /\ s.organizations[o].status = "Delinquent"
            /\ o \in DOMAIN s.penaltyDebt /\ s.penaltyDebt[o] >= BasePenaltyAmount
            /\ o \in DOMAIN s.lastPenalty /\ s.lastPenalty[o] = now
       ELSE /\ s.organizations[o].status = Status(o)
            /\ o \in DOMAIN orgs.penaltyDebt =>
                  o \in DOMAIN s.penaltyDebt /\ s.penaltyDebt[o] >= orgs.penaltyDebt[o]
            /\ o \in DOMAIN orgs.lastPenalty =>
                  /\ o \in DOMAIN s.lastPenalty
                  /\ s.lastPenalty[o] \in {orgs.lastPenalty[o], now}
            /\ /\ o \in ids /\ IsOverdue(o, now)
               /\ o \in DOMAIN orgs.penaltyDebt /\ orgs.penaltyDebt[o] >= BasePenaltyAmount
               /\ o \in DOMAIN orgs.lastPenalty
               /\ now - orgs.lastPenalty[o] >= PenaltyAccrualPeriodBlocks
               => s.lastPenalty[o] = now

\* A hundredth of a debt of a hundred is not nothing.
LEMMA DebtsGrow ==
    ASSUME NEW debt \in Nat
    PROVE  /\ WithAccrual(debt) \in Nat /\ debt <= WithAccrual(debt)
           /\ 100 <= debt => debt < WithAccrual(debt)
BY DEF WithAccrual

\* What the punishment writes.
LEMMA PunishmentWritten ==
    ASSUME NEW n \in Nat, NEW then \in Nat, NEW now \in Nat, then <= now,
           OrgsTyped(orgs, n, then), NEW ids \in SUBSET (0 .. n - 1)
    PROVE  /\ OrgsTyped(Punished(ids, now), n, now)
           /\ \A o \in 0 .. n - 1 : Visited(Punished(ids, now), o, ids, now)
           /\ Punished(ids, now).deposits = orgs.deposits
           /\ Punished(ids, now).cursor = orgs.cursor
           /\ Punished(ids, now).declarations = orgs.declarations
           /\ Punished(ids, now).crew = orgs.crew
<1> DEFINE overdue == {i \in ids : IsOverdue(i, now)}
           newly == {i \in ids : TurnsDelinquent(i, now)}
           base == [i \in DOMAIN orgs.penaltyDebt \cup newly |->
                       At(orgs.penaltyDebt, i, 0) + IF i \in newly THEN BasePenaltyAmount ELSE 0]
           last == PutAll(orgs.lastPenalty, newly, now)
           accrue == {i \in overdue : /\ now - At(last, i, 0) >= PenaltyAccrualPeriodBlocks
                                      /\ WithAccrual(At(base, i, 0)) > At(base, i, 0)}
           os == [i \in DOMAIN orgs.organizations |->
                     IF i \in newly THEN [orgs.organizations[i] EXCEPT !.status = "Delinquent"]
                     ELSE orgs.organizations[i]]
           debts == [i \in DOMAIN base |-> IF i \in accrue THEN WithAccrual(base[i]) ELSE base[i]]
           lasts == PutAll(last, accrue, now)
           s == Punished(ids, now)
<1>1. /\ OrgsShape(orgs) /\ orgs.organizations \in Numbered(n, OrgRecord)
      /\ DOMAIN orgs.organizations = 0 .. n - 1
      /\ \A o \in 0 .. n - 1 : orgs.organizations[o] \in OrgRecord
      /\ BasePenaltyAmount \in Nat /\ 100 <= BasePenaltyAmount
      /\ PenaltyAccrualPeriodBlocks \in Nat \ {0}
  BY OrganizationAssumption DEF OrgsTyped, Numbered
<1>2. s = OrgsWith(os, debts, lasts)
  <2>1. s = [orgs EXCEPT !.organizations = os, !.penaltyDebt = debts, !.lastPenalty = lasts]
    BY DEF Punished
  <2> HIDE DEF s, os, debts, lasts
  <2> QED BY <1>1, <2>1 DEF OrgsShape, OrgsWith
<1> HIDE DEF s
<1>3. /\ OrgsShape(s) /\ s.organizations = os /\ s.penaltyDebt = debts /\ s.lastPenalty = lasts
      /\ s.deposits = orgs.deposits /\ s.cursor = orgs.cursor
      /\ s.declarations = orgs.declarations /\ s.crew = orgs.crew
  <2> HIDE DEF os, debts, lasts
  <2> QED BY <1>2 DEF OrgsShape, OrgsWith
<1>4. /\ os \in Numbered(n, OrgRecord)
      /\ \A o \in 0 .. n - 1 :
            /\ os[o].last_tax_period_paid = orgs.organizations[o].last_tax_period_paid
            /\ os[o].status = IF o \in newly THEN "Delinquent" ELSE Status(o)
  <2>1. ASSUME NEW o \in 0 .. n - 1
        PROVE  /\ os[o] \in OrgRecord
               /\ os[o].last_tax_period_paid = orgs.organizations[o].last_tax_period_paid
               /\ os[o].status = IF o \in newly THEN "Delinquent" ELSE Status(o)
    <3> DEFINE r == orgs.organizations[o]
    <3>1. r \in OrgRecord /\ os[o] = IF o \in newly THEN [r EXCEPT !.status = "Delinquent"] ELSE r
      BY <1>1
    <3>2. Status(o) = r.status
      BY DEF Status
    <3> HIDE DEF r, os, newly
    <3>3. /\ [r EXCEPT !.status = "Delinquent"] \in OrgRecord
          /\ [r EXCEPT !.status = "Delinquent"].status = "Delinquent"
          /\ [r EXCEPT !.status = "Delinquent"].last_tax_period_paid = r.last_tax_period_paid
      BY <3>1 DEF OrgRecord, OrgStatus
    <3> QED BY <3>1, <3>2, <3>3 DEF r
  <2>2. os = [o \in 0 .. n - 1 |-> os[o]]
    BY <1>1
  <2> HIDE DEF os
  <2> QED BY <2>1, <2>2 DEF Numbered
<1> HIDE DEF os
<1>5. /\ \A o \in DOMAIN orgs.penaltyDebt : orgs.penaltyDebt[o] \in Nat
      /\ \A o \in DOMAIN orgs.lastPenalty : orgs.lastPenalty[o] \in 0 .. then
  BY DEF OrgsTyped
<1>6. /\ DOMAIN base = DOMAIN orgs.penaltyDebt \cup newly
      /\ \A o \in DOMAIN base : base[o] \in Nat
      /\ \A o \in newly : base[o] >= BasePenaltyAmount
      /\ \A o \in DOMAIN orgs.penaltyDebt : base[o] >= orgs.penaltyDebt[o]
  <2> HIDE DEF newly
  <2> QED BY <1>1, <1>5 DEF At
<1>7. /\ DOMAIN last = DOMAIN orgs.lastPenalty \cup newly
      /\ \A o \in newly : last[o] = now
      /\ \A o \in DOMAIN orgs.lastPenalty : o \notin newly => last[o] = orgs.lastPenalty[o]
  <2> HIDE DEF newly
  <2> QED BY DEF PutAll
<1> HIDE DEF base, last
<1>8. /\ DOMAIN debts = DOMAIN base
      /\ \A o \in DOMAIN debts : debts[o] \in Nat /\ debts[o] >= base[o]
      /\ debts = [o \in DOMAIN debts |-> debts[o]]
  BY <1>6, DebtsGrow
<1>9. /\ DOMAIN lasts = DOMAIN last \cup accrue
      /\ \A o \in accrue : lasts[o] = now
      /\ \A o \in DOMAIN last : o \notin accrue => lasts[o] = last[o]
      /\ lasts = [o \in DOMAIN lasts |-> lasts[o]]
  BY DEF PutAll
<1> HIDE DEF debts, lasts
<1>10. \A o \in DOMAIN lasts : lasts[o] \in 0 .. now
  BY <1>5, <1>7, <1>9
<1>11. OrgsTyped(s, n, now)
  <2>1. debts \in [DOMAIN debts -> Nat] /\ lasts \in [DOMAIN lasts -> 0 .. now]
    BY <1>8, <1>9, <1>10
  <2>2. \A o \in DOMAIN s.deposits : Dated(s.deposits[o], now)
    BY <1>3 DEF OrgsTyped, Dated
  <2> QED BY <1>3, <1>4, <2>1, <2>2 DEF OrgsTyped
<1>12. ASSUME NEW o \in 0 .. n - 1
       PROVE  Visited(s, o, ids, now)
  <2>1. s.organizations[o].last_tax_period_paid = orgs.organizations[o].last_tax_period_paid
    BY <1>3, <1>4
  <2>2. CASE o \in newly
    <3>1. o \in ids /\ TurnsDelinquent(o, now)
      BY <2>2
    <3>2. s.penaltyDebt[o] >= BasePenaltyAmount /\ o \in DOMAIN s.penaltyDebt
      <4>1. o \in DOMAIN debts /\ base[o] \in Nat /\ debts[o] \in Nat /\ debts[o] >= base[o]
            /\ base[o] >= BasePenaltyAmount
        BY <1>6, <1>8, <2>2
      <4> QED BY <1>1, <1>3, <4>1
    <3>3. o \in DOMAIN s.lastPenalty /\ s.lastPenalty[o] = now
      BY <1>3, <1>7, <1>9, <2>2
    <3> QED BY <1>3, <1>4, <2>1, <2>2, <3>1, <3>2, <3>3 DEF Visited
  <2>3. CASE o \notin newly
    <3>1. ~ (o \in ids /\ TurnsDelinquent(o, now))
      BY <2>3
    <3>2. o \in DOMAIN orgs.penaltyDebt =>
             o \in DOMAIN s.penaltyDebt /\ s.penaltyDebt[o] >= orgs.penaltyDebt[o]
      BY <1>3, <1>5, <1>6, <1>8
    <3>3. o \in DOMAIN orgs.lastPenalty =>
             o \in DOMAIN s.lastPenalty /\ s.lastPenalty[o] \in {orgs.lastPenalty[o], now}
      BY <1>3, <1>7, <1>9, <2>3
    <3>4. ASSUME o \in ids, IsOverdue(o, now), o \in DOMAIN orgs.penaltyDebt,
                 orgs.penaltyDebt[o] >= BasePenaltyAmount, o \in DOMAIN orgs.lastPenalty,
                 now - orgs.lastPenalty[o] >= PenaltyAccrualPeriodBlocks
          PROVE  s.lastPenalty[o] = now
      <4>1. o \in overdue /\ At(last, o, 0) = orgs.lastPenalty[o]
        BY <1>7, <2>3, <3>4 DEF At
      <4>2. /\ At(base, o, 0) = base[o] /\ base[o] \in Nat /\ orgs.penaltyDebt[o] \in Nat
            /\ base[o] >= orgs.penaltyDebt[o]
        BY <1>5, <1>6, <3>4 DEF At
      <4>3. 100 <= base[o]
        BY <1>1, <3>4, <4>2
      <4>4. WithAccrual(base[o]) > base[o]
        BY <4>2, <4>3, DebtsGrow
      <4>5. o \in accrue
        BY <3>4, <4>1, <4>2, <4>4
      <4> QED BY <1>3, <1>9, <4>5
    <3> QED BY <1>3, <1>4, <2>1, <2>3, <3>1, <3>2, <3>3, <3>4 DEF Visited
  <2> QED BY <2>2, <2>3
<1> QED BY <1>3, <1>11, <1>12 DEF s

\* Beginning a block, the scan visits who is next.
LEMMA ScanKeeps ==
    ASSUME NEW n \in Nat, block \in Nat, OrgBooks(orgs, n, block), on_initialize_orgs
    PROVE  OrgBooks(orgs', n, block') /\ block' = block + 1
<1> DEFINE now == block'
           c == orgs.cursor
           seen == SeenFrom(c, n)
           scanned == {i \in seen : Status(i) # "Frozen"}
           c2 == NextFrom(c, n)
           s == Punished(scanned, now)
<1>1. OrgsTyped(orgs, n, block) /\ \A o \in DOMAIN orgs.organizations : InTime(orgs, o, n, block)
  BY DEF OrgBooks
<1>2. /\ OrgsShape(orgs) /\ DOMAIN orgs.organizations = 0 .. n - 1
      /\ \A o \in 0 .. n - 1 : orgs.organizations[o] \in OrgRecord
      /\ MaxOrgsPerBlock \in Nat \ {0} /\ PenaltyAccrualPeriodBlocks \in Nat \ {0}
      /\ TaxPeriodBlocks \in Nat \ {0}
  BY <1>1, OrganizationAssumption DEF OrgsTyped, Numbered
<1>3. FreshId(orgs.organizations) = n
  <2>1. Cardinality(0 .. n - 1) = n
    <3>1. 0 \in Int /\ n - 1 \in Int
      OBVIOUS
    <3> QED BY <3>1, FS_Interval
  <2> QED BY <1>2, <2>1 DEF FreshId
<1>4. now = block + 1 /\ now \in Nat
  BY DEF on_initialize_orgs, NextBlock
<1>5. CASE n = 0
  <2>1. orgs' = orgs
    BY <1>3, <1>5 DEF on_initialize_orgs
  <2>2. OrgsTyped(orgs, n, now)
    <3>1. \A D : orgs.lastPenalty \in [D -> 0 .. block] => orgs.lastPenalty \in [D -> 0 .. now]
      BY <1>4
    <3>2. \A ds : Dated(ds, block) => Dated(ds, now)
      BY <1>4 DEF Dated
    <3> QED BY <1>1, <3>1, <3>2 DEF OrgsTyped
  <2>3. \A o \in DOMAIN orgs.organizations : FALSE
    BY <1>2, <1>5
  <2> QED BY <1>4, <2>1, <2>2, <2>3 DEF OrgBooks
<1>6. CASE n > 0
  <2>1. orgs' = [s EXCEPT !.cursor = c2]
    BY <1>3, <1>6 DEF on_initialize_orgs, NextCursor, SeenFrom, NextFrom
  <2>2. c \in 0 .. n - 1
    BY <1>1, <1>6 DEF OrgsTyped
  <2>3. ASSUME NEW o \in 0 .. n - 1
        PROVE  /\ c2 \in 0 .. n - 1
               /\ o \in seen \/ Nearer(c, c2, o, n)
    BY <2>2, ScanMoves
  <2>4. c2 \in 0 .. n - 1
    BY <1>6, <2>3
  <2>5. scanned \in SUBSET (0 .. n - 1)
    BY <1>2, <1>6, <2>2, ScannedExist
  <2> HIDE DEF c, seen, scanned, c2, s, now
  <2>6. /\ OrgsTyped(s, n, now)
        /\ \A o \in 0 .. n - 1 : Visited(s, o, scanned, now)
        /\ s.deposits = orgs.deposits
    BY <1>1, <1>4, <2>5, PunishmentWritten DEF s
  <2>7. /\ OrgsShape(orgs') /\ orgs'.organizations = s.organizations
        /\ orgs'.penaltyDebt = s.penaltyDebt /\ orgs'.lastPenalty = s.lastPenalty
        /\ orgs'.deposits = orgs.deposits /\ orgs'.cursor = c2
    BY <2>1, <2>6 DEF OrgsTyped, OrgsShape
  <2>8. OrgsTyped(orgs', n, now)
    BY <1>6, <2>4, <2>6, <2>7 DEF OrgsTyped
  <2>9. ASSUME NEW o \in 0 .. n - 1
        PROVE  InTime(orgs', o, n, now)
    <3> DEFINE r == orgs.organizations[o]
               due == DueOf(r.last_tax_period_paid, At(orgs.deposits, o, {}))
    <3>1. /\ InTime(orgs, o, n, block) /\ Visited(s, o, scanned, now)
          /\ r \in OrgRecord /\ Status(o) = r.status
          /\ r.last_tax_period_paid \in Nat
      BY <1>1, <1>2, <2>6 DEF Status, OrgRecord
    <3>2. due \in Nat /\ r.last_tax_period_paid + TaxPeriodBlocks <= due
      <4>1. Dated(At(orgs.deposits, o, {}), block)
        BY <1>1 DEF OrgsTyped, At, Dated
      <4> QED BY <3>1, <4>1, DueIsLast
    <3>3. CASE o \in scanned /\ TurnsDelinquent(o, now)
      <4>1. Punishable(orgs', o, n, now) /\ orgs'.organizations[o].status = "Delinquent"
        <5>1. now - now - PenaltyAccrualPeriodBlocks <= 0
          BY <1>2, <1>4
        <5> QED BY <2>7, <3>1, <3>3, <5>1 DEF Visited, Punishable, Behind, TurnsDelinquent,
               IsOverdue
      <4> QED BY <4>1 DEF InTime
    <3>4. CASE ~(o \in scanned /\ TurnsDelinquent(o, now))
      <4>1. /\ orgs'.organizations[o].status = r.status
            /\ orgs'.organizations[o].last_tax_period_paid = r.last_tax_period_paid
        BY <2>7, <3>1, <3>4 DEF Visited
      <4>2. o \notin scanned => Nearer(c, c2, o, n) \/ r.status = "Frozen"
        BY <2>3, <3>1 DEF scanned
      <4>3. ASSUME r.status = "Active"
            PROVE  Behind(now - due, c2, o, n)
        <5>1. CASE o \in scanned
          <6>1. ~IsOverdue(o, now)
            BY <3>1, <3>4, <4>3, <5>1 DEF TurnsDelinquent
          <6>2. now - due <= 0
            BY <1>2, <1>4, <3>1, <3>2, <6>1 DEF IsOverdue
          <6> QED BY <6>2 DEF Behind
        <5>2. CASE o \notin scanned
          <6>1. Behind(block - due, c, o, n)
            BY <3>1, <4>3 DEF InTime, c
          <6>2. block - due \in Int /\ now - due = (block - due) + 1
            BY <1>4, <3>2
          <6> HIDE DEF due, r
          <6>3. Nearer(c, c2, o, n)
            BY <4>2, <4>3, <5>2
          <6>4. Behind((block - due) + 1, c2, o, n)
            BY <2>2, <2>4, <6>1, <6>2, <6>3, WaitsOn
          <6> QED BY <6>2, <6>4
        <5> QED BY <5>1, <5>2
      <4>4. ASSUME r.status = "Delinquent"
            PROVE  Punishable(orgs', o, n, now)
        <5> DEFINE debt == orgs.penaltyDebt[o]
                   last == orgs.lastPenalty[o]
        <5>1. /\ block - r.last_tax_period_paid > TaxPeriodBlocks
              /\ o \in DOMAIN orgs.penaltyDebt /\ debt >= BasePenaltyAmount
              /\ o \in DOMAIN orgs.lastPenalty
              /\ Behind(block - last - PenaltyAccrualPeriodBlocks, c, o, n)
          BY <3>1, <4>4 DEF InTime, Punishable, c
        <5>2. debt \in Nat /\ last \in 0 .. block /\ BasePenaltyAmount \in Nat
          BY <1>1, <5>1, OrganizationAssumption DEF OrgsTyped
        <5>3. /\ o \in DOMAIN s.penaltyDebt /\ s.penaltyDebt[o] >= debt
              /\ o \in DOMAIN s.lastPenalty /\ s.lastPenalty[o] \in {last, now}
          BY <3>1, <3>4, <5>1 DEF Visited
        <5>4. now - r.last_tax_period_paid > TaxPeriodBlocks
          BY <1>2, <1>4, <3>1, <5>1
        <5>5. s.penaltyDebt[o] >= BasePenaltyAmount
          <6>1. s.penaltyDebt[o] \in Nat
            BY <2>6, <5>3 DEF OrgsTyped
          <6> QED BY <5>1, <5>2, <5>3, <6>1
        <5>6. Behind(now - s.lastPenalty[o] - PenaltyAccrualPeriodBlocks, c2, o, n)
          <6>1. CASE s.lastPenalty[o] = now
            <7>1. now - now - PenaltyAccrualPeriodBlocks <= 0
              BY <1>2, <1>4
            <7> QED BY <6>1, <7>1 DEF Behind
          <6>2. CASE s.lastPenalty[o] = last /\ s.lastPenalty[o] # now
            <7>1. CASE o \in scanned
              <8>1. IsOverdue(o, now)
                BY <5>4 DEF IsOverdue
              <8>2. ~ now - last >= PenaltyAccrualPeriodBlocks
                BY <3>1, <3>4, <5>1, <6>2, <7>1, <8>1 DEF Visited
              <8>3. now - last - PenaltyAccrualPeriodBlocks <= 0
                BY <1>2, <1>4, <5>2, <8>2
              <8> QED BY <6>2, <8>3 DEF Behind
            <7>2. CASE o \notin scanned
              <8> DEFINE w == block - last - PenaltyAccrualPeriodBlocks
              <8>1. w \in Int /\ now - last - PenaltyAccrualPeriodBlocks = w + 1
                <9> HIDE DEF last
                <9>1. last \in Int /\ PenaltyAccrualPeriodBlocks \in Int
                  BY <1>2, <5>2
                <9> QED BY <1>4, <9>1
              <8>2. Behind(w, c, o, n)
                BY <5>1
              <8> HIDE DEF w, r, last
              <8>3. Nearer(c, c2, o, n)
                BY <4>2, <4>4, <7>2
              <8>4. Behind(w + 1, c2, o, n)
                BY <2>2, <2>4, <8>1, <8>2, <8>3, WaitsOn
              <8> QED BY <6>2, <8>1, <8>4
            <7> QED BY <7>1, <7>2
          <6> QED BY <5>3, <6>1, <6>2
        <5> QED BY <2>7, <4>1, <5>3, <5>4, <5>5, <5>6 DEF Punishable
      <4> QED BY <2>7, <4>1, <4>3, <4>4 DEF InTime
    <3> QED BY <3>3, <3>4
  <2>10. DOMAIN orgs'.organizations = 0 .. n - 1
    BY <2>8 DEF OrgsTyped, Numbered
  <2> QED BY <1>4, <2>8, <2>9, <2>10 DEF OrgBooks, now
<1> QED BY <1>5, <1>6

-----------------------------------------------------------------------------
(* The calls on organizations                                              *)

\* Nothing in time about the organization o differs between s and t.
SameOf(s, t, o) ==
    /\ t.organizations[o] = s.organizations[o]
    /\ At(t.deposits, o, {}) = At(s.deposits, o, {})
    /\ o \in DOMAIN s.penaltyDebt =>
          o \in DOMAIN t.penaltyDebt /\ t.penaltyDebt[o] = s.penaltyDebt[o]
    /\ o \in DOMAIN s.lastPenalty =>
          o \in DOMAIN t.lastPenalty /\ t.lastPenalty[o] = s.lastPenalty[o]

\* A call on one organization leaves the others in time.
LEMMA OneOrgChanges ==
    ASSUME NEW n \in Nat, NEW now, NEW s, NEW t, NEW o, OrgBooks(s, n, now), OrgsTyped(t, n, now),
           t.cursor = s.cursor, InTime(t, o, n, now),
           \A i \in 0 .. n - 1 : i # o => SameOf(s, t, i)
    PROVE  OrgBooks(t, n, now)
<1>1. DOMAIN s.organizations = 0 .. n - 1 /\ DOMAIN t.organizations = 0 .. n - 1
  BY DEF OrgBooks, OrgsTyped, Numbered
<1>2. ASSUME NEW i \in 0 .. n - 1, i # o
      PROVE  InTime(t, i, n, now)
  <2>1. InTime(s, i, n, now) /\ SameOf(s, t, i)
    BY <1>1, <1>2 DEF OrgBooks
  <2>2. t.organizations[i].status = "Delinquent" => Punishable(t, i, n, now)
    BY <2>1 DEF InTime, Punishable, SameOf
  <2>3. /\ t.organizations[i].status = "Active" =>
              Behind(now - DueOf(t.organizations[i].last_tax_period_paid, At(t.deposits, i, {})),
                     t.cursor, i, n)
    BY <2>1 DEF InTime, SameOf
  <2> QED BY <2>2, <2>3 DEF InTime
<1> QED BY <1>1, <1>2 DEF OrgBooks

\* What is not about tax and time.
LEMMA OtherFieldsChange ==
    ASSUME NEW n \in Nat, NEW now, NEW s, NEW t, OrgBooks(s, n, now), OrgsShape(t),
           t.organizations = s.organizations, t.penaltyDebt = s.penaltyDebt,
           t.lastPenalty = s.lastPenalty, t.deposits = s.deposits, t.cursor = s.cursor
    PROVE  OrgBooks(t, n, now)
<1>1. OrgsTyped(t, n, now)
  BY DEF OrgBooks, OrgsTyped
<1>2. \A i : InTime(s, i, n, now) => InTime(t, i, n, now)
  BY DEF InTime, Punishable
<1> QED BY <1>1, <1>2 DEF OrgBooks

\* A new organization is pending, and one more to pass for the others.
LEMMA RegisterKeeps ==
    ASSUME NEW n \in Nat, block \in Nat, OrgBooks(orgs, n, block),
           NEW a, NEW r \in Regions, NEW m \in 0 .. MaxFounders, register_organization(a, r, m)
    PROVE  OrgBooks(orgs', n + 1, block') /\ n + 1 \in Nat /\ block' = block
<1> DEFINE rec == [hq_region |-> r, status |-> "Pending",
                   last_tax_period_paid |-> block, registered_at |-> block]
           os == Put(orgs.organizations, n, rec)
           crew == Put(orgs.crew, <<n, a>>, "Director")
           required == Put(orgs.required, n, IF m = 0 THEN 1 ELSE m)
<1>1. OrgsTyped(orgs, n, block) /\ \A o \in DOMAIN orgs.organizations : InTime(orgs, o, n, block)
  BY DEF OrgBooks
<1>2. OrgsShape(orgs) /\ orgs.organizations \in Numbered(n, OrgRecord)
      /\ DOMAIN orgs.organizations = 0 .. n - 1
  BY <1>1 DEF OrgsTyped, Numbered
<1>3. rec \in OrgRecord
  BY DEF OrgRecord, OrgStatus
<1>4. /\ FreshId(orgs.organizations) = n /\ OneMore(orgs.organizations, os, n, rec)
      /\ n + 1 \in Nat /\ os \in Numbered(n + 1, OrgRecord)
  <2> HIDE DEF rec
  <2> QED BY <1>2, <1>3, FreshRecord
<1>5. /\ orgs' = [orgs EXCEPT !.organizations = os, !.crew = crew, !.required = required]
      /\ block' = block
  BY <1>4 DEF register_organization
<1> HIDE DEF os, crew, required, rec
<1>6. /\ OrgsShape(orgs') /\ orgs'.organizations = os
      /\ orgs'.penaltyDebt = orgs.penaltyDebt /\ orgs'.lastPenalty = orgs.lastPenalty
      /\ orgs'.deposits = orgs.deposits /\ orgs'.cursor = orgs.cursor
  BY <1>2, <1>5 DEF OrgsShape
<1>7. OrgsTyped(orgs', n + 1, block)
  BY <1>1, <1>4, <1>6 DEF OrgsTyped
<1>8. ASSUME NEW o \in 0 .. n
      PROVE  InTime(orgs', o, n + 1, block)
  <2>1. CASE o = n
    <3>1. orgs'.organizations[o].status = "Pending"
      BY <1>4, <1>6, <2>1 DEF OneMore, rec
    <3> QED BY <3>1 DEF InTime
  <2>2. CASE o # n
    <3> DEFINE rc == orgs.organizations[o]
               c == orgs.cursor
    <3>1. /\ o \in 0 .. n - 1 /\ InTime(orgs, o, n, block) /\ orgs'.organizations[o] = rc
          /\ rc \in OrgRecord /\ c \in 0 .. n - 1
      <4>1. o \in 0 .. n - 1 /\ n > 0
        BY <2>2
      <4>2. c \in 0 .. n - 1
        BY <1>1, <4>1 DEF OrgsTyped
      <4>3. o \in DOMAIN orgs.organizations /\ rc \in OrgRecord
        BY <1>2, <4>1 DEF Numbered
      <4> QED BY <1>1, <1>4, <1>6, <4>1, <4>2, <4>3 DEF OneMore
    <3> HIDE DEF rc, c
    <3>2. \A w \in Int : Behind(w, c, o, n) => Behind(w, c, o, n + 1)
      BY <3>1, OneMoreToPass
    <3>3. ASSUME rc.status = "Active"
          PROVE  Behind(block - DueOf(rc.last_tax_period_paid, At(orgs.deposits, o, {})),
                        c, o, n + 1)
      <4>1. DueOf(rc.last_tax_period_paid, At(orgs.deposits, o, {})) \in Nat
        <5>1. Dated(At(orgs.deposits, o, {}), block)
          BY <1>1 DEF OrgsTyped, At, Dated
        <5>2. rc.last_tax_period_paid \in Nat
          BY <3>1 DEF OrgRecord
        <5> QED BY <5>1, <5>2, DueIsLast
      <4>2. Behind(block - DueOf(rc.last_tax_period_paid, At(orgs.deposits, o, {})), c, o, n)
        BY <3>1, <3>3 DEF InTime, rc, c
      <4>3. block - DueOf(rc.last_tax_period_paid, At(orgs.deposits, o, {})) \in Int
        BY <4>1
      <4> QED BY <3>2, <4>2, <4>3
    <3>4. ASSUME rc.status = "Delinquent"
          PROVE  Punishable(orgs', o, n + 1, block)
      <4>1. Punishable(orgs, o, n, block)
        BY <3>1, <3>4 DEF InTime, rc
      <4>2. block - orgs.lastPenalty[o] - PenaltyAccrualPeriodBlocks \in Int
        <5>1. orgs.lastPenalty[o] \in Int /\ PenaltyAccrualPeriodBlocks \in Int
          BY <1>1, <4>1, OrganizationAssumption DEF OrgsTyped, Punishable
        <5> QED BY <5>1
      <4>3. Behind(block - orgs.lastPenalty[o] - PenaltyAccrualPeriodBlocks, c, o, n + 1)
        BY <3>2, <4>1, <4>2 DEF Punishable, c
      <4> QED BY <1>6, <3>1, <4>1, <4>3 DEF Punishable, rc, c
    <3> QED BY <1>6, <3>1, <3>3, <3>4 DEF InTime, rc, c
  <2> QED BY <2>1, <2>2
<1>9. DOMAIN orgs'.organizations = 0 .. n
  <2>1. 0 .. (n + 1) - 1 = 0 .. n
    OBVIOUS
  <2> QED BY <1>4, <1>6, <2>1 DEF Numbered
<1> QED BY <1>4, <1>5, <1>7, <1>8, <1>9 DEF OrgBooks

\* A founder pays a deposit of today, and the last one activates the organization.
LEMMA ActivateKeeps ==
    ASSUME NEW n \in Nat, block \in Nat, OrgBooks(orgs, n, block),
           NEW a, NEW o, activate_organization(a, o)
    PROVE  OrgBooks(orgs', n, block') /\ block' = block
<1> DEFINE before == At(orgs.deposits, o, {})
           paid == before \cup {[founder |-> a, block_number |-> block]}
           r == orgs.organizations[o]
           status == IF Cardinality(paid) >= orgs.required[o] THEN "Active" ELSE r.status
           new == [r EXCEPT !.status = status]
           os == [orgs.organizations EXCEPT ![o] = new]
           deps == Put(orgs.deposits, o, paid)
<1>1. OrgsTyped(orgs, n, block) /\ OrgsShape(orgs)
      /\ orgs.organizations \in Numbered(n, OrgRecord) /\ DOMAIN orgs.organizations = 0 .. n - 1
  BY DEF OrgBooks, OrgsTyped, Numbered
<1>2. o \in 0 .. n - 1 /\ r.status = "Pending" /\ block' = block
  BY <1>1 DEF activate_organization, ensure_director, IsOrg, Status
<1>3. orgs' = [orgs EXCEPT !.deposits = deps, !.organizations = os]
  <2>1. orgs' = [orgs EXCEPT !.deposits = deps,
                    !.organizations[o].status =
                        IF Cardinality(paid) >= orgs.required[o] THEN "Active" ELSE @]
    BY DEF activate_organization
  <2> HIDE DEF deps, paid
  <2> QED BY <1>1, <2>1 DEF OrgsShape
<1>4. r \in OrgRecord /\ status \in {"Active", "Pending"}
  BY <1>1, <1>2 DEF Numbered
<1>5. /\ new \in OrgRecord /\ new.last_tax_period_paid = r.last_tax_period_paid
      /\ new.status = status
  <2> HIDE DEF r, status
  <2> QED BY <1>4 DEF OrgRecord, OrgStatus
<1> HIDE DEF status, new
<1>6. /\ os \in Numbered(n, OrgRecord) /\ os[o] = new
      /\ \A i \in 0 .. n - 1 : i # o => os[i] = orgs.organizations[i]
  <2> HIDE DEF os, r
  <2> QED BY <1>1, <1>2, <1>5, RecordChanged DEF os
<1> HIDE DEF os, deps
<1>7. /\ OrgsShape(orgs') /\ orgs'.organizations = os /\ orgs'.deposits = deps
      /\ orgs'.penaltyDebt = orgs.penaltyDebt /\ orgs'.lastPenalty = orgs.lastPenalty
      /\ orgs'.cursor = orgs.cursor
  BY <1>1, <1>3 DEF OrgsShape
<1>8. /\ DOMAIN deps = DOMAIN orgs.deposits \cup {o} /\ deps[o] = paid
      /\ \A i \in DOMAIN orgs.deposits : i # o => deps[i] = orgs.deposits[i]
  BY DEF deps, Put
<1>9. Dated(paid, block)
  <2>1. Dated(before, block)
    BY <1>1 DEF OrgsTyped, At, Dated
  <2>2. [founder |-> a, block_number |-> block].block_number \in 0 .. block
    OBVIOUS
  <2> QED BY <2>1, <2>2 DEF Dated
<1>10. \E d \in paid : d.block_number = block
  <2> DEFINE d == [founder |-> a, block_number |-> block]
  <2>1. d \in paid /\ d.block_number = block
    OBVIOUS
  <2> HIDE DEF d, paid
  <2> QED BY <2>1
<1> HIDE DEF paid, before
<1>11. OrgsTyped(orgs', n, block)
  BY <1>1, <1>6, <1>7, <1>8, <1>9 DEF OrgsTyped
<1>12. InTime(orgs', o, n, block)
  <2>1. At(deps, o, {}) = paid
    BY <1>8 DEF At
  <2>2. r.last_tax_period_paid \in Nat
    BY <1>4 DEF OrgRecord
  <2>3. block - DueOf(r.last_tax_period_paid, paid) <= 0
    <3> HIDE DEF r
    <3> QED BY <1>9, <1>10, <2>2, DueToday
  <2> QED BY <1>4, <1>5, <1>6, <1>7, <2>1, <2>3 DEF InTime, Behind
<1>13. \A i \in 0 .. n - 1 : i # o => SameOf(orgs, orgs', i)
  BY <1>6, <1>7, <1>8 DEF SameOf, At
<1> QED BY <1>2, <1>7, <1>11, <1>12, <1>13, OneOrgChanges

\* After its tax return an organization owes nothing until its period is over.
LEMMA FiledKeeps ==
    ASSUME NEW n \in Nat, block \in Nat, OrgBooks(orgs, n, block),
           NEW a, NEW o, NEW v, CanFile(a, o, v), NEW via, orgs' = Filed(o, v, via)
    PROVE  OrgBooks(orgs', n, block)
<1> DEFINE r == orgs.organizations[o]
           status == IF r.status = "Delinquent" THEN "Active" ELSE r.status
           new == [r EXCEPT !.last_tax_period_paid = block, !.status = status]
           os == [orgs.organizations EXCEPT ![o] = new]
           debts == Without(orgs.penaltyDebt, o)
           lasts == Without(orgs.lastPenalty, o)
           decl == orgs'.declarations
<1>1. OrgsTyped(orgs, n, block) /\ OrgsShape(orgs)
      /\ orgs.organizations \in Numbered(n, OrgRecord) /\ DOMAIN orgs.organizations = 0 .. n - 1
  BY DEF OrgBooks, OrgsTyped, Numbered
<1>2. o \in 0 .. n - 1 /\ r.status # "Frozen"
  BY <1>1 DEF CanFile, ensure_director, IsOrg, Status
<1>3. r \in OrgRecord
  BY <1>1, <1>2 DEF Numbered
<1>4. /\ new \in OrgRecord /\ new.last_tax_period_paid = block
      /\ new.status = status /\ status \notin {"Delinquent", "Frozen"}
  <2>1. status \in OrgStatus /\ status \notin {"Delinquent", "Frozen"}
    BY <1>2, <1>3 DEF OrgRecord, OrgStatus
  <2> HIDE DEF r, status
  <2> QED BY <1>3, <2>1 DEF OrgRecord
<1>5. /\ OrgsShape(orgs') /\ orgs'.organizations = os
      /\ orgs'.penaltyDebt = debts /\ orgs'.lastPenalty = lasts
      /\ orgs'.deposits = orgs.deposits /\ orgs'.cursor = orgs.cursor
  <2> DEFINE entry == Put(orgs.declarations, FreshId(orgs.declarations),
                [org_id |-> o, amount_paid |-> v,
                 confederation_share |-> constitutional_tax_split(v).confederation,
                 regional_share |-> constitutional_tax_split(v).region,
                 timestamp |-> block, via_zk_vault |-> via])
  <2>1. orgs' = [orgs EXCEPT !.declarations = entry,
                    !.organizations[o].last_tax_period_paid = block,
                    !.organizations[o].status = status,
                    !.penaltyDebt = debts, !.lastPenalty = lasts]
    BY DEF Filed
  <2> DEFINE os1 == [orgs.organizations EXCEPT ![o].last_tax_period_paid = block]
             os2 == [os1 EXCEPT ![o].status = status]
             s0 == [orgs EXCEPT !.declarations = entry]
             s1 == [s0 EXCEPT !.organizations[o].last_tax_period_paid = block]
             s2 == [s1 EXCEPT !.organizations[o].status = status]
  <2> HIDE DEF entry, debts, lasts, status
  <2>2. orgs' = [s2 EXCEPT !.penaltyDebt = debts, !.lastPenalty = lasts]
    BY <2>1
  <2>3. os2 = os
    <3> DEFINE f == orgs.organizations
               r1 == [f[o] EXCEPT !.last_tax_period_paid = block]
               f1 == [f EXCEPT ![o] = r1]
    <3>1. o \in DOMAIN f
      BY <1>1, <1>2
    <3>2. new = [r1 EXCEPT !.status = status]
      BY <1>3 DEF OrgRecord
    <3>3. f1[o] = r1 /\ DOMAIN f1 = DOMAIN f /\ os1 = f1
      BY <3>1
    <3> HIDE DEF f1, r1, new, os1
    <3>4. [f1 EXCEPT ![o].status = status] = [f1 EXCEPT ![o] = new]
      BY <3>1, <3>2, <3>3
    <3>5. [f1 EXCEPT ![o] = new] = [f EXCEPT ![o] = new]
      BY <3>1, <3>3 DEF f1
    <3> QED BY <3>3, <3>4, <3>5
  <2>4. s0 = [orgs EXCEPT !.declarations = entry] /\ OrgsShape(s0)
        /\ s0.organizations = orgs.organizations /\ s0.penaltyDebt = orgs.penaltyDebt
        /\ s0.lastPenalty = orgs.lastPenalty /\ s0.deposits = orgs.deposits
        /\ s0.cursor = orgs.cursor
    BY <1>1 DEF OrgsShape
  <2> HIDE DEF s0, os1
  <2>5. s1 = [s0 EXCEPT !.organizations = os1]
    BY <2>4 DEF os1
  <2> HIDE DEF s1
  <2>6. /\ OrgsShape(s1) /\ s1.organizations = os1 /\ s1.penaltyDebt = orgs.penaltyDebt
        /\ s1.lastPenalty = orgs.lastPenalty /\ s1.deposits = orgs.deposits
        /\ s1.cursor = orgs.cursor
    BY <2>4, <2>5 DEF OrgsShape
  <2> HIDE DEF os2
  <2>7. s2 = [s1 EXCEPT !.organizations = os2]
    BY <2>6 DEF os2
  <2> HIDE DEF s2, os
  <2>8. /\ OrgsShape(s2) /\ s2.organizations = os2 /\ s2.penaltyDebt = orgs.penaltyDebt
        /\ s2.lastPenalty = orgs.lastPenalty /\ s2.deposits = orgs.deposits
        /\ s2.cursor = orgs.cursor
    BY <2>6, <2>7 DEF OrgsShape
  <2> QED BY <2>2, <2>3, <2>8 DEF OrgsShape
<1> HIDE DEF new, status
<1>6. /\ os \in Numbered(n, OrgRecord) /\ os[o] = new
      /\ \A i \in 0 .. n - 1 : i # o => os[i] = orgs.organizations[i]
  <2> HIDE DEF os, r
  <2> QED BY <1>1, <1>2, <1>4, RecordChanged DEF os
<1> HIDE DEF os
<1>7. /\ \A i \in DOMAIN orgs.penaltyDebt :
            i # o => i \in DOMAIN debts /\ debts[i] = orgs.penaltyDebt[i]
      /\ \A i \in DOMAIN orgs.lastPenalty :
            i # o => i \in DOMAIN lasts /\ lasts[i] = orgs.lastPenalty[i]
  BY DEF Without
<1>8. (\E D : debts \in [D -> Nat]) /\ (\E D : lasts \in [D -> 0 .. block])
  <2>1. /\ \A i \in DOMAIN orgs.penaltyDebt : orgs.penaltyDebt[i] \in Nat
        /\ \A i \in DOMAIN orgs.lastPenalty : orgs.lastPenalty[i] \in 0 .. block
    BY <1>1 DEF OrgsTyped
  <2>2. debts \in [DOMAIN orgs.penaltyDebt \ {o} -> Nat]
    BY <2>1 DEF Without
  <2>3. lasts \in [DOMAIN orgs.lastPenalty \ {o} -> 0 .. block]
    BY <2>1 DEF Without
  <2> QED BY <2>2, <2>3
<1> HIDE DEF debts, lasts
<1>9. OrgsTyped(orgs', n, block)
  BY <1>1, <1>5, <1>6, <1>8 DEF OrgsTyped
<1>10. InTime(orgs', o, n, block)
  <2> DEFINE deps == At(orgs.deposits, o, {})
  <2>1. Dated(deps, block)
    BY <1>1 DEF OrgsTyped, At, Dated
  <2>2. block <= block + TaxPeriodBlocks
    BY OrganizationAssumption
  <2> HIDE DEF deps
  <2>3. block - DueOf(block, deps) <= 0
    BY <2>1, <2>2, DueToday
  <2> QED BY <1>4, <1>5, <1>6, <2>3 DEF InTime, Behind, deps
<1>11. \A i \in 0 .. n - 1 : i # o => SameOf(orgs, orgs', i)
  BY <1>5, <1>6, <1>7 DEF SameOf
<1> QED BY <1>5, <1>9, <1>10, <1>11, OneOrgChanges

\* Nobody owes who is frozen.
LEMMA FreezeKeeps ==
    ASSUME NEW n \in Nat, block \in Nat, OrgBooks(orgs, n, block), NEW o, freeze_organization(o)
    PROVE  OrgBooks(orgs', n, block') /\ block' = block
<1> DEFINE r == orgs.organizations[o]
           new == [r EXCEPT !.status = "Frozen"]
           os == [orgs.organizations EXCEPT ![o] = new]
<1>1. OrgsTyped(orgs, n, block) /\ OrgsShape(orgs)
      /\ orgs.organizations \in Numbered(n, OrgRecord) /\ DOMAIN orgs.organizations = 0 .. n - 1
  BY DEF OrgBooks, OrgsTyped, Numbered
<1>2. o \in 0 .. n - 1 /\ block' = block
  BY <1>1 DEF freeze_organization, IsOrg
<1>3. r \in OrgRecord
  BY <1>1, <1>2 DEF Numbered
<1>4. new \in OrgRecord /\ new.status = "Frozen"
  <2> HIDE DEF r
  <2> QED BY <1>3 DEF OrgRecord, OrgStatus
<1>5. /\ OrgsShape(orgs') /\ orgs'.organizations = os
      /\ orgs'.penaltyDebt = orgs.penaltyDebt /\ orgs'.lastPenalty = orgs.lastPenalty
      /\ orgs'.deposits = orgs.deposits /\ orgs'.cursor = orgs.cursor
  BY <1>1 DEF freeze_organization, OrgsShape
<1> HIDE DEF new
<1>6. /\ os \in Numbered(n, OrgRecord) /\ os[o] = new
      /\ \A i \in 0 .. n - 1 : i # o => os[i] = orgs.organizations[i]
  <2> HIDE DEF os, r
  <2> QED BY <1>1, <1>2, <1>4, RecordChanged DEF os
<1> HIDE DEF os
<1>7. OrgsTyped(orgs', n, block)
  BY <1>1, <1>5, <1>6 DEF OrgsTyped
<1>8. InTime(orgs', o, n, block)
  BY <1>4, <1>5, <1>6 DEF InTime
<1>9. \A i \in 0 .. n - 1 : i # o => SameOf(orgs, orgs', i)
  BY <1>5, <1>6 DEF SameOf
<1> QED BY <1>2, <1>5, <1>7, <1>8, <1>9, OneOrgChanges

\* A report is a visit of the scan to one organization.
LEMMA ReportKeeps ==
    ASSUME NEW n \in Nat, block \in Nat, OrgBooks(orgs, n, block),
           NEW a, NEW o, report_tax_evasion(a, o)
    PROVE  OrgBooks(orgs', n, block') /\ block' = block
<1> DEFINE s == Punished({o}, block)
<1>1. /\ OrgsTyped(orgs, n, block) /\ DOMAIN orgs.organizations = 0 .. n - 1
      /\ \A i \in 0 .. n - 1 : InTime(orgs, i, n, block)
  BY DEF OrgBooks, OrgsTyped, Numbered
<1>2. o \in 0 .. n - 1 /\ block' = block /\ orgs' = s
  BY <1>1 DEF report_tax_evasion, IsOrg
<1>3. /\ OrgsTyped(s, n, block) /\ \A i \in 0 .. n - 1 : Visited(s, i, {o}, block)
      /\ s.deposits = orgs.deposits /\ s.cursor = orgs.cursor
  <2>1. {o} \in SUBSET (0 .. n - 1) /\ block <= block
    BY <1>2
  <2> QED BY <1>1, <2>1, PunishmentWritten
<1> HIDE DEF s
<1>4. PenaltyAccrualPeriodBlocks \in Nat \ {0}
  BY OrganizationAssumption
<1>5. ASSUME NEW i \in 0 .. n - 1
      PROVE  InTime(s, i, n, block)
  <2> DEFINE r == orgs.organizations[i]
  <2>1. InTime(orgs, i, n, block) /\ Visited(s, i, {o}, block) /\ Status(i) = r.status
    BY <1>1, <1>3 DEF Status
  <2>2. CASE i \in {o} /\ TurnsDelinquent(i, block)
    <3>1. Behind(block - block - PenaltyAccrualPeriodBlocks, s.cursor, i, n)
      BY <1>4 DEF Behind
    <3>2. Punishable(s, i, n, block) /\ s.organizations[i].status = "Delinquent"
      BY <2>1, <2>2, <3>1 DEF Visited, Punishable, TurnsDelinquent, IsOverdue
    <3> QED BY <3>2 DEF InTime
  <2>3. CASE ~(i \in {o} /\ TurnsDelinquent(i, block))
    <3>1. /\ s.organizations[i].status = r.status
          /\ s.organizations[i].last_tax_period_paid = r.last_tax_period_paid
      BY <2>1, <2>3 DEF Visited
    <3>2. ASSUME r.status = "Delinquent"
          PROVE  Punishable(s, i, n, block)
      <4>1. Punishable(orgs, i, n, block)
        BY <2>1, <3>2 DEF InTime
      <4>2. /\ i \in DOMAIN s.penaltyDebt /\ s.penaltyDebt[i] >= orgs.penaltyDebt[i]
            /\ i \in DOMAIN s.lastPenalty /\ s.lastPenalty[i] \in {orgs.lastPenalty[i], block}
        BY <2>1, <2>3, <4>1 DEF Visited, Punishable
      <4>3. s.penaltyDebt[i] >= BasePenaltyAmount
        <5>1. s.penaltyDebt[i] \in Nat /\ orgs.penaltyDebt[i] \in Nat /\ BasePenaltyAmount \in Nat
          BY <1>1, <1>3, <4>1, <4>2, OrganizationAssumption DEF OrgsTyped, Punishable
        <5>2. orgs.penaltyDebt[i] >= BasePenaltyAmount
          BY <4>1 DEF Punishable
        <5> QED BY <4>2, <5>1, <5>2
      <4>4. Behind(block - s.lastPenalty[i] - PenaltyAccrualPeriodBlocks, s.cursor, i, n)
        <5>1. block - block - PenaltyAccrualPeriodBlocks <= 0
          BY <1>4
        <5> QED BY <1>3, <4>1, <4>2, <5>1 DEF Punishable, Behind
      <4> QED BY <3>1, <4>1, <4>2, <4>3, <4>4 DEF Punishable
    <3>3. ASSUME r.status = "Active"
          PROVE  Behind(block - DueOf(r.last_tax_period_paid, At(s.deposits, i, {})),
                        s.cursor, i, n)
      BY <1>3, <2>1, <3>3 DEF InTime
    <3> QED BY <3>1, <3>2, <3>3 DEF InTime
  <2> QED BY <2>2, <2>3
<1>6. DOMAIN s.organizations = 0 .. n - 1
  BY <1>3 DEF OrgsTyped, Numbered
<1> QED BY <1>2, <1>3, <1>5, <1>6 DEF OrgBooks

\* A crew has nothing to do with tax.
LEMMA CrewKeeps ==
    ASSUME NEW n \in Nat, OrgBooks(orgs, n, block),
           NEW a, NEW o, NEW b, NEW role, add_crew_member(a, o, b, role)
    PROVE  OrgBooks(orgs', n, block') /\ block' = block
<1> DEFINE crew == Put(orgs.crew, <<o, b>>, role)
<1>1. OrgsShape(orgs)
  BY DEF OrgBooks, OrgsTyped
<1>2. orgs' = [orgs EXCEPT !.crew = crew] /\ block' = block
  BY DEF add_crew_member
<1> HIDE DEF crew
<1>3. /\ OrgsShape(orgs') /\ orgs'.organizations = orgs.organizations
      /\ orgs'.penaltyDebt = orgs.penaltyDebt /\ orgs'.lastPenalty = orgs.lastPenalty
      /\ orgs'.deposits = orgs.deposits /\ orgs'.cursor = orgs.cursor
  BY <1>1, <1>2 DEF OrgsShape
<1> QED BY <1>2, <1>3, OtherFieldsChange

\* Every call of the pallet keeps its books, whether n or one more.
LEMMA OrgStepKeeps ==
    ASSUME NEW n \in Nat, block \in Nat, OrgBooks(orgs, n, block), OrgStep
    PROVE  block' \in Nat /\ \E m \in Nat : OrgBooks(orgs', m, block')
<1>1. ASSUME NEW a \in Citizens, NEW r \in Regions, NEW m \in 0 .. MaxFounders,
             register_organization(a, r, m)
      PROVE  block' \in Nat /\ \E k \in Nat : OrgBooks(orgs', k, block')
  BY <1>1, RegisterKeeps
<1>2. ASSUME NEW a \in Citizens, NEW o \in OrgIds, activate_organization(a, o)
      PROVE  block' \in Nat /\ \E k \in Nat : OrgBooks(orgs', k, block')
  BY <1>2, ActivateKeeps
<1>3. ASSUME NEW a \in Citizens, NEW o \in OrgIds, report_tax_evasion(a, o)
      PROVE  block' \in Nat /\ \E k \in Nat : OrgBooks(orgs', k, block')
  BY <1>3, ReportKeeps
<1>4. ASSUME NEW a \in Citizens, NEW o \in OrgIds, NEW b \in Citizens, NEW role \in OrgRole,
             add_crew_member(a, o, b, role)
      PROVE  block' \in Nat /\ \E k \in Nat : OrgBooks(orgs', k, block')
  BY <1>4, CrewKeeps
<1>5. ASSUME NEW a \in Citizens, NEW o \in OrgIds, NEW v \in Payments, file_tax_return(a, o, v)
      PROVE  block' \in Nat /\ \E k \in Nat : OrgBooks(orgs', k, block')
  <2>1. CanFile(a, o, v) /\ orgs' = Filed(o, v, FALSE) /\ block' = block
    BY <1>5 DEF file_tax_return
  <2> QED BY <2>1, FiledKeeps
<1>6. ASSUME NEW a \in Citizens, NEW o \in OrgIds, NEW b \in Citizens, NEW v \in Payments,
             spend_org_funds(a, o, b, v)
      PROVE  block' \in Nat /\ \E k \in Nat : OrgBooks(orgs', k, block')
  BY <1>6 DEF spend_org_funds
<1>7. ASSUME NEW o \in OrgIds, freeze_organization(o)
      PROVE  block' \in Nat /\ \E k \in Nat : OrgBooks(orgs', k, block')
  BY <1>7, FreezeKeeps
<1>8. ASSUME on_initialize_orgs
      PROVE  block' \in Nat /\ \E k \in Nat : OrgBooks(orgs', k, block')
  <2>1. OrgBooks(orgs', n, block') /\ block' = block + 1
    BY <1>8, ScanKeeps
  <2> QED BY <2>1
<1> QED BY <1>1, <1>2, <1>3, <1>4, <1>5, <1>6, <1>7, <1>8 DEF OrgStep

\* Two organizations of the first block owe nothing yet.
LEMMA ScanStarts == MCInit => ScanInv
<1> SUFFICES ASSUME MCInit PROVE ScanInv
  OBVIOUS
<1>1. block = 0 /\ block \in Nat
  BY DEF MCInit
<1>2. OrgsShape(NoOrgs) /\ NoOrgs.organizations = <<>> /\ NoOrgs.deposits = <<>>
      /\ NoOrgs.penaltyDebt = <<>> /\ NoOrgs.lastPenalty = <<>> /\ NoOrgs.cursor = 0
  BY DEF NoOrgs, OrgsShape
<1>3. /\ DOMAIN <<>> = {} /\ <<>> \in [{} -> Nat] /\ <<>> \in [{} -> 0 .. block]
      /\ <<>> \in Numbered(0, OrgRecord)
  <2>1. 0 .. 0 - 1 = {}
    OBVIOUS
  <2>2. \A R : <<>> \in [{} -> R]
    OBVIOUS
  <2> QED BY <2>1, <2>2 DEF Numbered
<1>4. CASE part = "vault"
  <2> DEFINE director == CHOOSE c \in Citizens : TRUE
             os == [o \in {0, 1} |-> [hq_region |-> o + 1, status |-> "Active",
                                      last_tax_period_paid |-> 0, registered_at |-> 0]]
             deps == [o \in {0, 1} |-> {[founder |-> director, block_number |-> 0]}]
             crew == [k \in {0, 1} \X {director} |-> "Director"]
             required == [o \in {0, 1} |-> 1]
  <2>1. orgs = [NoOrgs EXCEPT !.organizations = os, !.crew = crew, !.deposits = deps,
                   !.required = required]
    BY <1>4 DEF MCInit, TwoFirms
  <2>2. \A o \in {0, 1} : os[o] \in OrgRecord /\ os[o].status = "Active"
                          /\ os[o].last_tax_period_paid = 0
    BY DEF OrgRecord, OrgStatus
  <2>3. os \in Numbered(2, OrgRecord) /\ DOMAIN os = 0 .. 1
    <3>1. 0 .. 2 - 1 = {0, 1} /\ 0 .. 1 = {0, 1} /\ DOMAIN os = {0, 1}
      OBVIOUS
    <3>2. os = [o \in {0, 1} |-> os[o]]
      OBVIOUS
    <3> HIDE DEF os
    <3> QED BY <2>2, <3>1, <3>2 DEF Numbered
  <2>4. \A o \in {0, 1} : Dated(deps[o], 0) /\ DOMAIN deps = {0, 1}
    BY DEF Dated
  <2> HIDE DEF os, deps, crew, required
  <2>5. /\ OrgsShape(orgs) /\ orgs.organizations = os /\ orgs.deposits = deps
        /\ orgs.penaltyDebt = <<>> /\ orgs.lastPenalty = <<>> /\ orgs.cursor = 0
    BY <1>2, <2>1 DEF OrgsShape
  <2>6. OrgsTyped(orgs, 2, block)
    BY <1>1, <1>3, <2>3, <2>4, <2>5 DEF OrgsTyped
  <2>7. ASSUME NEW o \in 0 .. 1
        PROVE  InTime(orgs, o, 2, block)
    <3>1. At(deps, o, {}) = deps[o] /\ Dated(deps[o], 0) /\ os[o].last_tax_period_paid = 0
          /\ os[o].status = "Active"
      BY <2>2, <2>4 DEF At
    <3>2. 0 <= 0 + TaxPeriodBlocks
      BY OrganizationAssumption
    <3>3. 0 - DueOf(0, deps[o]) <= 0
      BY <3>1, <3>2, DueToday
    <3> QED BY <1>1, <2>5, <3>1, <3>3 DEF InTime, Behind
  <2>8. OrgBooks(orgs, 2, block) /\ 2 \in Nat
    BY <2>3, <2>5, <2>6, <2>7 DEF OrgBooks
  <2> QED BY <1>1, <1>4, <2>8 DEF ScanInv
<1>5. CASE part # "vault"
  <2>1. orgs = NoOrgs
    BY <1>5 DEF MCInit
  <2>2. OrgsTyped(orgs, 0, block)
    <3>1. /\ OrgsShape(orgs) /\ orgs.organizations = <<>> /\ orgs.deposits = <<>>
          /\ orgs.penaltyDebt = <<>> /\ orgs.lastPenalty = <<>> /\ orgs.cursor = 0
      BY <1>2, <2>1
    <3>2. /\ \E D : orgs.penaltyDebt \in [D -> Nat]
          /\ \E D : orgs.lastPenalty \in [D -> 0 .. block]
      BY <1>3, <3>1
    <3>3. \A o \in DOMAIN orgs.deposits : Dated(orgs.deposits[o], block)
      BY <1>3, <3>1
    <3>4. OrgsShape(orgs) /\ orgs.organizations \in Numbered(0, OrgRecord) /\ orgs.cursor = 0
      BY <1>3, <3>1
    <3>5. orgs.cursor \in Nat /\ (0 > 0 => orgs.cursor < 0) /\ (0 = 0 => orgs.cursor = 0)
      BY <3>4
    <3> QED BY <3>2, <3>3, <3>4, <3>5 DEF OrgsTyped
  <2>3. OrgBooks(orgs, 0, block)
    BY <1>2, <1>3, <2>1, <2>2 DEF OrgBooks
  <2> QED BY <1>1, <2>1, <2>3 DEF ScanInv
<1> QED BY <1>4, <1>5

\* The other parts have no organizations.
LEMMA ScanContinues ==
    ASSUME ScanInv, [MCNext]_MCvars
    PROVE  ScanInv'
<1>1. part' = part
  BY DEF MCNext, MCvars
<1>2. CASE UNCHANGED <<block, orgs>>
  BY <1>1, <1>2 DEF ScanInv
<1>3. CASE part \in {"orgs", "vault"} /\ ~UNCHANGED <<block, orgs>>
  <2>1. PICK n \in Nat : block \in Nat /\ OrgBooks(orgs, n, block)
    BY <1>3 DEF ScanInv
  <2>2. CASE part = "orgs" /\ OrgStep
    BY <1>1, <1>3, <2>1, <2>2, OrgStepKeeps DEF ScanInv
  <2>3. ASSUME NEW c \in Citizens, NEW m \in Nullifiers, NEW note \in Commitments,
               NEW v, file_tax_return_zk(c, 0, m, note, v)
        PROVE  ScanInv'
    <3>1. CanFile(c, 0, v) /\ orgs' = Filed(0, v, TRUE) /\ block' = block
      BY <2>3 DEF file_tax_return_zk
    <3>2. OrgBooks(orgs', n, block)
      BY <2>1, <3>1, FiledKeeps
    <3> QED BY <1>1, <1>3, <2>1, <3>1, <3>2 DEF ScanInv
  <2>4. CASE part = "vault" /\ VaultStep /\ UNCHANGED <<citizens, orgs>>
    <3>1. block' = block
      <4>1. ASSUME NEW a, NEW v, NEW c, NEW o, shield_funds(a, v, c, o) PROVE block' = block
        BY <4>1 DEF shield_funds
      <4>2. ASSUME NEW m, NEW c, NEW d, shielded_transfer(m, c, d) PROVE block' = block
        BY <4>2 DEF shielded_transfer
      <4>3. ASSUME NEW m, NEW c, NEW v, NEW a, NEW o, unshield_to_account(m, c, v, a, o)
            PROVE  block' = block
        BY <4>3 DEF unshield_to_account
      <4>4. ASSUME NEW o, NEW m, NEW c, NEW v, NEW t, org_unshield_tax_payment(o, m, c, v, t)
            PROVE  block' = block
        BY <4>4 DEF org_unshield_tax_payment
      <4> QED BY <2>4, <4>1, <4>2, <4>3, <4>4 DEF VaultStep
    <3> QED BY <1>3, <2>4, <3>1
  <2> QED BY <1>3, <2>2, <2>3, <2>4 DEF MCNext, MCvars, GuildStep, FirmStep, MinistryStep,
         TaxFromVault
<1>4. CASE part \notin {"orgs", "vault"}
  <2>1. orgs' = orgs
    BY <1>4 DEF MCNext, MCvars, GuildStep, FirmStep, MinistryStep
  <2> QED BY <1>1, <1>4, <2>1 DEF ScanInv
<1> QED BY <1>2, <1>3, <1>4

\* Waiting for less than a round is waiting for at most a round of blocks.
LEMMA RoundsOfBlocks ==
    ASSUME NEW n \in Nat, NEW m \in Nat \ {0}, NEW w \in Int,
           w <= 0 \/ m * w + 1 <= n
    PROVE  w <= (n + m - 1) \div m
<1> DEFINE q == (n + m - 1) \div m
<1>1. q \in Nat /\ n <= m * q
  OBVIOUS
<1>2. w > q => m * q + m <= m * w
  <2>1. m * w - m * q - m = m * (w - q - 1)
    BY <1>1
  <2>2. w > q => m * (w - q - 1) >= 0
    BY <1>1
  <2>3. m * w \in Int /\ m * q \in Int
    BY <1>1
  <2> HIDE DEF q
  <2> QED BY <1>1, <2>1, <2>2, <2>3
<1> HIDE DEF q
<1>3. m * w \in Int /\ m * q \in Int
  BY <1>1
<1>4. w <= q
  BY <1>1, <1>2, <1>3
<1> QED BY <1>4 DEF q

(***************************************************************************)
(* Nobody escapes the scan: an organization that owes a return is          *)
(* delinquent after one round of the cursor, however many others register  *)
(* meanwhile, and a delinquent one has a debt of a penalty at least, which *)
(* grows once in every accrual period and round.                           *)
(***************************************************************************)
THEOREM ScanAlwaysTimely == MCSpec => []ScanIsTimely
<1>1. MCInit => ScanInv
  BY ScanStarts
<1>2. ScanInv /\ [MCNext]_MCvars => ScanInv'
  BY ScanContinues
<1>3. ScanInv => ScanIsTimely
  <2> SUFFICES ASSUME ScanInv, NEW o \in DOMAIN orgs.organizations
               PROVE  LET total == FreshId(orgs.organizations)
                          round == (total + MaxOrgsPerBlock - 1) \div MaxOrgsPerBlock
                      IN  /\ Status(o) = "Active" => block - DueFrom(o) <= round
                          /\ Status(o) = "Delinquent" =>
                                /\ At(orgs.penaltyDebt, o, 0) >= BasePenaltyAmount
                                /\ block - At(orgs.lastPenalty, o, 0)
                                      <= PenaltyAccrualPeriodBlocks + round
    BY DEF ScanIsTimely
  <2>1. PICK n \in Nat : OrgBooks(orgs, n, block)
    <3>1. CASE part \in {"orgs", "vault"}
      BY <3>1 DEF ScanInv
    <3>2. CASE orgs = NoOrgs
      <4>1. DOMAIN orgs.organizations = {}
        BY <3>2 DEF NoOrgs
      <4> QED BY <4>1
    <3> QED BY <3>1, <3>2 DEF ScanInv
  <2>2. block \in Nat
    <3>1. CASE orgs = NoOrgs
      <4>1. DOMAIN orgs.organizations = {}
        BY <3>1 DEF NoOrgs
      <4> QED BY <4>1
    <3> QED BY <3>1 DEF ScanInv
  <2>3. /\ OrgsTyped(orgs, n, block) /\ InTime(orgs, o, n, block)
        /\ o \in 0 .. n - 1 /\ orgs.cursor \in 0 .. n - 1
        /\ orgs.organizations[o] \in OrgRecord
    <3>1. OrgsTyped(orgs, n, block) /\ InTime(orgs, o, n, block)
      BY <2>1 DEF OrgBooks
    <3>2. o \in 0 .. n - 1 /\ orgs.organizations[o] \in OrgRecord
      BY <3>1 DEF OrgsTyped, Numbered
    <3>3. orgs.cursor \in 0 .. n - 1
      BY <3>1, <3>2 DEF OrgsTyped
    <3> QED BY <3>1, <3>2, <3>3
  <2>4. FreshId(orgs.organizations) = n
    <3>1. orgs.organizations \in Numbered(n, OrgRecord)
      BY <2>3 DEF OrgsTyped
    <3> QED BY <2>3, <3>1, FreshRecord
  <2> DEFINE round == (n + MaxOrgsPerBlock - 1) \div MaxOrgsPerBlock
             c == orgs.cursor
             due == DueFrom(o)
             last == orgs.lastPenalty[o]
  <2>5. /\ MaxOrgsPerBlock \in Nat \ {0} /\ PenaltyAccrualPeriodBlocks \in Nat
        /\ round \in Nat
    <3>1. MaxOrgsPerBlock \in Nat \ {0} /\ PenaltyAccrualPeriodBlocks \in Nat
      BY OrganizationAssumption
    <3> QED BY <3>1
  <2>6. \A w \in Int : Behind(w, c, o, n) => w <= round
    <3> SUFFICES ASSUME NEW w \in Int, Behind(w, c, o, n) PROVE w <= round
      OBVIOUS
    <3>1. Ahead(c, o, n) \in Nat
      BY <2>3 DEF Ahead
    <3>2. MaxOrgsPerBlock * w \in Int
      BY <2>5
    <3>3. w <= 0 \/ MaxOrgsPerBlock * w + 1 <= n
      <4> DEFINE p == MaxOrgsPerBlock * w
      <4>1. w <= 0 \/ p + Ahead(c, o, n) + 1 <= n
        BY DEF Behind
      <4> HIDE DEF p
      <4>2. w <= 0 \/ p + 1 <= n
        BY <3>1, <3>2, <4>1 DEF p
      <4> QED BY <4>2 DEF p
    <3> QED BY <2>5, <3>3, RoundsOfBlocks
  <2>7. Status(o) = "Active" => block - due <= round
    <3> SUFFICES ASSUME Status(o) = "Active" PROVE block - due <= round
      OBVIOUS
    <3>1. due = DueOf(orgs.organizations[o].last_tax_period_paid, At(orgs.deposits, o, {}))
      BY DEF DueFrom, DueOf
    <3>2. due \in Nat
      <4>1. Dated(At(orgs.deposits, o, {}), block)
        BY <2>3 DEF OrgsTyped, At, Dated
      <4>2. orgs.organizations[o].last_tax_period_paid \in Nat
        BY <2>3 DEF OrgRecord
      <4> QED BY <2>2, <3>1, <4>1, <4>2, DueIsLast
    <3>3. Behind(block - due, c, o, n)
      BY <2>3, <3>1 DEF InTime, Status
    <3> HIDE DEF due, round, c
    <3>4. block - due \in Int
      BY <2>2, <3>2
    <3> QED BY <2>6, <3>3, <3>4
  <2>8. ASSUME Status(o) = "Delinquent"
        PROVE  /\ At(orgs.penaltyDebt, o, 0) >= BasePenaltyAmount
               /\ block - At(orgs.lastPenalty, o, 0) <= PenaltyAccrualPeriodBlocks + round
    <3>1. Punishable(orgs, o, n, block)
      BY <2>3, <2>8 DEF InTime, Status
    <3>2. /\ At(orgs.penaltyDebt, o, 0) = orgs.penaltyDebt[o]
          /\ At(orgs.lastPenalty, o, 0) = last /\ last \in 0 .. block
      BY <2>3, <3>1 DEF Punishable, At, OrgsTyped
    <3>3. Behind(block - last - PenaltyAccrualPeriodBlocks, c, o, n)
      BY <3>1 DEF Punishable
    <3> HIDE DEF last, round, c
    <3>4. block - last - PenaltyAccrualPeriodBlocks \in Int
      BY <2>2, <2>5, <3>2
    <3>5. block - last - PenaltyAccrualPeriodBlocks <= round
      BY <2>6, <3>3, <3>4
    <3> QED BY <2>2, <2>5, <3>1, <3>2, <3>5 DEF Punishable
  <2> QED BY <2>4, <2>7, <2>8
<1> QED BY <1>1, <1>2, <1>3, PTL DEF MCSpec

-----------------------------------------------------------------------------
(* The money of the organizations                                          *)

\* Accounts without a key.
Keyless == FirmAccounts \cup Offices

\* The ledger has a balance of every organization and of the treasuries.
FirmFunds == DOMAIN free = Accounts /\ \A a \in Keyless : free[a] \in Int

\* A step, or the balances bal it computes, that leave the organizations what they have.
Untouched(bal) ==
    /\ DOMAIN bal = Accounts /\ \A a \in FirmAccounts : bal[a] = free[a]
    /\ \A a \in Offices : bal[a] \in Int

\* The treasuries and the people are not organizations.
LEMMA FirmsAreApart ==
    /\ Keyless \subseteq Accounts /\ FirmAccounts \subseteq Keyless /\ Offices \subseteq Keyless
    /\ \A a \in People : a \in Accounts /\ a \notin Keyless
    /\ \A a \in Offices : a \notin FirmAccounts
    /\ RegionTreasury \in Offices /\ ConfederationTreasury \in Offices
    /\ RegionTreasury # ConfederationTreasury
    /\ \A o \in OrgIds : OrgAccount[o] \in FirmAccounts
    /\ \A o, p \in OrgIds : OrgAccount[o] = OrgAccount[p] => o = p
BY CivilAssumption DEF MCAccounts, FirmAccounts, Keyless, Offices

\* A payment between two people.
LEMMA PaymentOfPeople ==
    ASSUME NEW bal, Untouched(bal), NEW src, NEW dst, NEW v, src \notin Keyless, dst \notin Keyless
    PROVE  Untouched(PaidFrom(bal, src, dst, v))
<1> DEFINE x == bal[src] - v
           y == bal[dst] + v
<1>1. PaidFrom(bal, src, dst, v) = bal
      \/ PaidFrom(bal, src, dst, v) = [bal EXCEPT ![src] = x, ![dst] = y]
  BY DEF PaidFrom, Moves
<1> HIDE DEF x, y
<1>2. Untouched([bal EXCEPT ![src] = x, ![dst] = y])
  BY FirmsAreApart DEF Untouched
<1> QED BY <1>1, <1>2

\* A payment that may come from a treasury or go to one.
LEMMA PaymentOfOthers ==
    ASSUME NEW bal, Untouched(bal), NEW src, NEW dst, NEW v \in Int,
           src \notin FirmAccounts, dst \notin FirmAccounts
    PROVE  Untouched(PaidFrom(bal, src, dst, v))
<1> DEFINE x == bal[src] - v
           y == bal[dst] + v
<1>1. PaidFrom(bal, src, dst, v) = bal
      \/ PaidFrom(bal, src, dst, v) = [bal EXCEPT ![src] = x, ![dst] = y]
  BY DEF PaidFrom, Moves
<1>2. (src \in Offices => x \in Int) /\ (dst \in Offices => y \in Int)
  BY DEF Untouched
<1> HIDE DEF x, y
<1>3. Untouched([bal EXCEPT ![src] = x, ![dst] = y])
  BY <1>2, FirmsAreApart DEF Untouched
<1> QED BY <1>1, <1>3

\* What the other calls of the ledger do to one or two people.
LEMMA OthersMove ==
    ASSUME FirmFunds, NEW a, NEW b, NEW v, a \notin Keyless, b \notin Keyless
    PROVE  /\ \A alive : transfer(a, b, v, alive) => Untouched(free')
           /\ reserve(a, v) => Untouched(free')
           /\ unreserve(a, v) => Untouched(free')
           /\ PayReserved(a, b, v) => Untouched(free')
           /\ withdraw(a, v) => Untouched(free')
           /\ deposit_creating(a, v) => Untouched(free')
<1>1. \A x, y : Untouched([free EXCEPT ![a] = x, ![b] = y])
  BY FirmsAreApart DEF Untouched, FirmFunds
<1>2. \A x : Untouched([free EXCEPT ![a] = x])
  BY FirmsAreApart DEF Untouched, FirmFunds
<1>3. Untouched(free)
  BY FirmsAreApart DEF Untouched, FirmFunds
<1>4. ASSUME NEW alive, transfer(a, b, v, alive)
      PROVE  Untouched(free')
  <2>1. CASE Moves(a, b, v)
    <3>1. free' = [free EXCEPT ![a] = free[a] - v - Dust(a, v), ![b] = @ + v]
      BY <1>4, <2>1 DEF transfer
    <3> DEFINE x == free[a] - v - Dust(a, v)
    <3> HIDE DEF x
    <3>2. free' = [free EXCEPT ![a] = x, ![b] = free[b] + v]
      BY <2>1, <3>1 DEF x, Moves
    <3> QED BY <1>1, <3>2
  <2>2. CASE ~Moves(a, b, v)
    BY <1>3, <1>4, <2>2 DEF transfer
  <2> QED BY <2>1, <2>2
<1>5. ASSUME PayReserved(a, b, v)
      PROVE  Untouched(free')
  <2> DEFINE bal == [free EXCEPT ![a] = @ + Releasable(a, v)]
  <2>1. free' = PaidFrom(bal, a, b, v)
    BY <1>5 DEF PayReserved
  <2>2. Untouched(bal)
    BY <1>2
  <2> HIDE DEF bal
  <2> QED BY <2>1, <2>2, PaymentOfPeople
<1>6. /\ reserve(a, v) => Untouched(free')
      /\ unreserve(a, v) => Untouched(free')
      /\ withdraw(a, v) => Untouched(free')
      /\ deposit_creating(a, v) => Untouched(free')
  BY <1>2 DEF reserve, unreserve, withdraw, deposit_creating
<1> QED BY <1>4, <1>5, <1>6

\* Calls about quests are calls of people about what people hold.
LEMMA QuestsAreOfOthers ==
    ASSUME FirmFunds, GuildsInv, QuestStep
    PROVE  Untouched(free')
<1>1. \A a \in Artisans : a \notin Keyless
  BY FirmsAreApart, CivilAssumption
<1>2. Untouched(free)
  BY FirmsAreApart DEF Untouched, FirmFunds
<1>3. \A q \in DOMAIN guilds.quests :
         /\ guilds.quests[q].employer \in Artisans
         /\ \A a \in guilds.quests[q].assignee : a \in Artisans
  BY QuestFacts DEF QuestsAreTyped, QuestRecord
<1>4. ASSUME NEW a \in Artisans, NEW b \in Artisans, NEW r,
             publish_quest(a, 0, r) \/ subscribe_to_academy(a, b, r)
      PROVE  Untouched(free')
  BY <1>1, <1>4, OthersMove DEF publish_quest, subscribe_to_academy
<1>5. ASSUME NEW a \in Artisans, NEW q, assign_quest(a, q) \/ submit_quest(a, q)
      PROVE  Untouched(free')
  BY <1>2, <1>5 DEF assign_quest, submit_quest, ledger
<1>6. ASSUME NEW a \in Artisans, NEW q, complete_quest(a, q)
      PROVE  Untouched(free')
  <2>1. q \in DOMAIN guilds.quests
    BY <1>6 DEF complete_quest, Is
  <2>2. PICK b \in guilds.quests[q].assignee :
           PayReserved(guilds.quests[q].employer, b, guilds.quests[q].reward)
    BY <1>6 DEF complete_quest
  <2> QED BY <1>1, <1>3, <2>1, <2>2, OthersMove
<1>7. ASSUME NEW a \in Artisans, NEW q, cancel_quest(a, q)
      PROVE  Untouched(free')
  BY <1>1, <1>7, OthersMove DEF cancel_quest
<1>8. ASSUME NEW a \in Artisans, NEW b \in Artisans, NEW q, force_resolve_quest(a, q, b)
      PROVE  Untouched(free')
  <2>1. /\ q \in DOMAIN guilds.quests
        /\ PayReserved(guilds.quests[q].employer, b, guilds.quests[q].reward)
    BY <1>8 DEF force_resolve_quest, Is
  <2> QED BY <1>1, <1>3, <2>1, OthersMove
<1>9. ASSUME NEW a \in Artisans, cleanup_account(a)
      PROVE  Untouched(free')
  BY <1>1, <1>9, OthersMove DEF cleanup_account
<1> QED BY <1>4, <1>5, <1>6, <1>7, <1>8, <1>9 DEF QuestStep, QuestCall

\* Two mints, of a note whose money goes to two treasuries.
LEMMA OthersAreMinted ==
    ASSUME FirmFunds, NEW a, NEW b, a \notin FirmAccounts, b \notin FirmAccounts,
           NEW v \in Int, NEW w \in Int, MintBoth(a, v, b, w)
    PROVE  Untouched(free')
<1> DEFINE x == Credited(a, v)
           bal == [free EXCEPT ![a] = @ + x]
           y == IF bal[b] + reserved[b] = 0 /\ w < ExistentialDeposit THEN 0 ELSE w
<1>1. free' = [bal EXCEPT ![b] = @ + y]
  BY DEF MintBoth
<1>2. x \in Int /\ y \in Int
  BY DEF Credited
<1> HIDE DEF x, y
<1>3. Untouched(bal)
  <2> DEFINE z == free[a] + x
  <2>1. a \in Offices => z \in Int
    BY <1>2, FirmsAreApart DEF FirmFunds
  <2>2. bal = [free EXCEPT ![a] = z]
    OBVIOUS
  <2> HIDE DEF z, bal
  <2> QED BY <2>1, <2>2, FirmsAreApart DEF Untouched, FirmFunds
<1> HIDE DEF bal
<1> DEFINE u == bal[b] + y
<1>4. b \in Offices => u \in Int
  BY <1>2, <1>3 DEF Untouched
<1>5. free' = [bal EXCEPT ![b] = u]
  BY <1>1
<1> HIDE DEF u
<1> QED BY <1>3, <1>4, <1>5, FirmsAreApart DEF Untouched

\* The treasury of a region is an office.
LEMMA TreasuriesAreOffices ==
    ASSUME NEW o
    PROVE  \A t \in regional_treasury_for(o) : t \in Offices
BY CivilAssumption DEF regional_treasury_for

\* Notes are bought by people and paid out to people and treasuries.
LEMMA NotesAreOfOthers ==
    ASSUME FirmFunds, VaultStep
    PROVE  Untouched(free')
<1>1. /\ \A a \in Holders : a \notin Keyless
      /\ \A a \in Offices : a \notin FirmAccounts
      /\ ConfederationTreasury \in Offices
  BY FirmsAreApart, CivilAssumption
<1>2. Untouched(free)
  BY FirmsAreApart DEF Untouched, FirmFunds
<1>3. ASSUME NEW a \in Holders, NEW v, NEW c, NEW o, shield_funds(a, v, c, o)
      PROVE  Untouched(free')
  BY <1>1, <1>3, OthersMove DEF shield_funds
<1>4. ASSUME NEW n, NEW c, NEW d, shielded_transfer(n, c, d)
      PROVE  Untouched(free')
  BY <1>2, <1>4 DEF shielded_transfer, ledger
<1>5. ASSUME NEW n, NEW c, NEW v, NEW a \in Holders, NEW o, unshield_to_account(n, c, v, a, o)
      PROVE  Untouched(free')
  BY <1>1, <1>5, OthersMove DEF unshield_to_account
<1>6. ASSUME NEW n, NEW c, NEW v \in ShieldedAmounts, NEW o,
             org_unshield_tax_payment(o, n, c, v, regional_treasury_for(o))
      PROVE  Untouched(free')
  <2> DEFINE T == regional_treasury_for(o)
             payee == IF T = {} THEN ConfederationTreasury ELSE CHOOSE t \in T : TRUE
  <2>1. MintBoth(ConfederationTreasury, confederation_amount(v), payee, region_amount(v))
    BY <1>6 DEF org_unshield_tax_payment
  <2>2. \A t \in T : t \in Offices
    BY TreasuriesAreOffices
  <2> HIDE DEF T
  <2>3. payee \in Offices
    BY <1>1, <2>2
  <2> HIDE DEF payee
  <2>4. confederation_amount(v) \in Int /\ region_amount(v) \in Int
    BY ShieldedAssumption DEF confederation_amount, region_amount
  <2> QED BY <1>1, <2>1, <2>3, <2>4, OthersAreMinted
<1> QED BY <1>3, <1>4, <1>5, <1>6 DEF VaultStep

\* A tax return paid with a note is minted for the treasuries.
LEMMA NoteTaxIsOfOthers ==
    ASSUME FirmFunds, NEW a, NEW o, NEW n, NEW c, NEW v \in ShieldedAmounts,
           file_tax_return_zk(a, o, n, c, v)
    PROVE  Untouched(free')
<1> DEFINE x == Credited(RegionTreasury, v)
           share == constitutional_tax_split(v).confederation
           z == free[RegionTreasury] + x
           minted == [free EXCEPT ![RegionTreasury] = @ + x]
<1>1. free' = PaidFrom(minted, RegionTreasury, ConfederationTreasury, share)
  BY DEF file_tax_return_zk
<1>2. v \in Int /\ x \in Int /\ share \in Int
  BY ShieldedAssumption DEF Credited, constitutional_tax_split
<1> HIDE DEF x, share
<1>3. z \in Int
  BY <1>2, FirmsAreApart DEF FirmFunds
<1>4. Untouched(minted)
  <2>1. minted = [free EXCEPT ![RegionTreasury] = z]
    OBVIOUS
  <2> HIDE DEF z, minted
  <2> QED BY <1>3, <2>1, FirmsAreApart DEF Untouched, FirmFunds
<1> HIDE DEF minted
<1> QED BY <1>1, <1>2, <1>4, FirmsAreApart, PaymentOfOthers

\* Applications are paid for by ministries, to whom the deposits come back.
LEMMA LicencesAreOfOthers ==
    ASSUME FirmFunds, LicencesInv, LicensingStep
    PROVE  Untouched(free')
<1>1. \A m \in Ministries : m \notin Keyless
  BY FirmsAreApart, CivilAssumption
<1>2. Untouched(free)
  BY FirmsAreApart DEF Untouched, FirmFunds
<1>3. ASSUME NEW m \in Ministries, NEW app, Submit(m, app)
      PROVE  Untouched(free')
  BY <1>1, <1>3, OthersMove DEF Submit
<1>4. ASSUME NEW m \in Ministries, NEW f, NEW t, NEW r, NEW n, NEW d,
             submit_license_application(m, f, t, r, n, d)
      PROVE  Untouched(free')
  BY <1>3, <1>4 DEF submit_license_application
<1>5. ASSUME NEW m \in Ministries, NEW i, NEW d, renew_license(m, i, d)
      PROVE  Untouched(free')
  BY <1>3, <1>5 DEF renew_license
<1>6. ASSUME NEW m, authorize_ministry(m) \/ deauthorize_ministry(m)
      PROVE  Untouched(free')
  BY <1>2, <1>6 DEF authorize_ministry, deauthorize_ministry, ledger
<1>7. ASSUME NEW c, NEW i, NEW approve, vote_on_license(c, i, approve)
      PROVE  Untouched(free')
  BY <1>2, <1>7 DEF vote_on_license, ledger
<1>8. ASSUME NEW i, revoke_license(i) \/ judicial_revoke(i)
      PROVE  Untouched(free')
  BY <1>2, <1>8 DEF revoke_license, judicial_revoke, ledger
<1>9. ASSUME on_initialize_licensing
      PROVE  Untouched(free')
  <2> DEFINE E == {i \in At(licensing.ending, block', {}) :
                      licensing.apps[i].status = "PendingKhural"}
             after == EnactedAll(E, block')
             kept == E \ {i \in E : after.apps[i].status = "Rejected"}
             D(a) == {i \in kept : licensing.depositors[i] = a}
             back(a) == ApplicationDeposit * Cardinality(D(a))
  <2>1. free' = [a \in Accounts |-> free[a] + back(a)]
    BY <1>9 DEF on_initialize_licensing
  <2>2. kept \subseteq PendingIn(licensing.apps)
    BY DEF LicencesInv, EndsAreListed, PendingIn, At
  <2>3. \A i \in PendingIn(licensing.apps) : licensing.depositors[i] \in Ministries
    BY DEF LicencesInv, DepositsAreHeld
  <2>4. \A a \in Keyless : D(a) = {}
    BY <1>1, <2>2, <2>3
  <2> HIDE DEF D
  <2>5. Cardinality({}) = 0 /\ ApplicationDeposit * 0 = 0
    BY FS_EmptySet, LicensingAssumption
  <2>6. \A a \in Keyless : back(a) = 0
    BY <2>4, <2>5
  <2> HIDE DEF back
  <2>7. \A a \in Keyless : a \in Accounts /\ free[a] \in Int
    BY FirmsAreApart DEF FirmFunds
  <2>8. \A a \in Keyless : free'[a] = free[a]
    BY <2>1, <2>6, <2>7
  <2> QED BY <2>1, <2>7, <2>8, FirmsAreApart DEF Untouched
<1> QED BY <1>4, <1>5, <1>6, <1>7, <1>8, <1>9 DEF LicensingStep

-----------------------------------------------------------------------------
\* The record of a tax return.
Return(o, v, via) ==
    [org_id |-> o, amount_paid |-> v,
     confederation_share |-> constitutional_tax_split(v).confederation,
     regional_share |-> constitutional_tax_split(v).region,
     timestamp |-> block, via_zk_vault |-> via]

\* The returns are numbered.
ReturnsCount == \E m \in Nat : DOMAIN orgs.declarations = 0 .. m - 1

\* The return of o is the next one.
NextReturn(o, v, via) ==
    orgs'.declarations = Put(orgs.declarations, FreshId(orgs.declarations), Return(o, v, via))

Declared == FreshId(orgs'.declarations) > FreshId(orgs.declarations)

\* What OrgMoneyIsAccounted says of the money that leaves an organization.
LeavesFor(o) ==
    LET left == free[OrgAccount[o]] - free'[OrgAccount[o]]
        last == orgs'.declarations[FreshId(orgs.declarations)]
    IN  left > 0 =>
           /\ Status(o) # "Frozen"
           /\ \/ /\ Declared /\ last.org_id = o /\ ~last.via_zk_vault
                 /\ left = last.amount_paid
                 /\ Splits(OrgAccount[o], left, RegionTreasury, last.regional_share,
                           ConfederationTreasury, last.confederation_share)
              \/ ~Declared /\ \E b \in Accounts \ {OrgAccount[o]} : Arrives(OrgAccount[o], left, b)

\* The returns stay numbered and the money of the organizations is accounted for.
FirmsGoOn == FirmFunds' /\ ReturnsCount' /\ \A o \in OrgIds : LeavesFor(o)

\* Where the organizations keep what they have, nothing leaves.
LEMMA NothingLeaves ==
    ASSUME FirmFunds, Untouched(free'), ReturnsCount'
    PROVE  FirmsGoOn
<1>1. FirmFunds'
  BY FirmsAreApart DEF FirmFunds, Untouched, Keyless
<1>2. ASSUME NEW o \in OrgIds
      PROVE  LeavesFor(o)
  <2>1. free'[OrgAccount[o]] = free[OrgAccount[o]] /\ free[OrgAccount[o]] \in Int
    BY FirmsAreApart DEF FirmFunds, Untouched
  <2>2. ~(free[OrgAccount[o]] - free'[OrgAccount[o]] > 0)
    BY <2>1
  <2> QED BY <2>2 DEF LeavesFor
<1> QED BY <1>1, <1>2 DEF FirmsGoOn

\* A return gets the number of those before it.
LEMMA ReturnNumbered ==
    ASSUME ReturnsCount, NEW o, NEW v, NEW via, NextReturn(o, v, via)
    PROVE  /\ ReturnsCount' /\ Declared
           /\ orgs'.declarations[FreshId(orgs.declarations)] = Return(o, v, via)
<1> DEFINE ds == orgs.declarations
           r == Return(o, v, via)
<1>1. PICK m \in Nat : DOMAIN ds = 0 .. m - 1
  BY DEF ReturnsCount
<1>2. FreshId(ds) = m
  <2>1. 0 \in Int /\ m - 1 \in Int /\ Cardinality(0 .. m - 1) = m
    BY FS_Interval
  <2> QED BY <1>1, <2>1 DEF FreshId
<1> DEFINE ds2 == orgs'.declarations
<1>3. DOMAIN ds2 = 0 .. m /\ ds2[m] = r
  <2>1. ds2 = Put(ds, m, r)
    BY <1>2 DEF NextReturn
  <2>2. (0 .. m - 1) \cup {m} = 0 .. m
    OBVIOUS
  <2> HIDE DEF r, ds, ds2
  <2> QED BY <1>1, <2>1, <2>2 DEF Put
<1> HIDE DEF r
<1>4. FreshId(ds2) = m + 1
  <2>1. 0 \in Int /\ m \in Int /\ Cardinality(0 .. m) = m + 1
    BY FS_Interval
  <2> QED BY <1>3, <2>1 DEF FreshId
<1>5. m + 1 \in Nat /\ 0 .. (m + 1) - 1 = 0 .. m /\ m + 1 > m
  OBVIOUS
<1>6. ReturnsCount'
  BY <1>3, <1>5 DEF ReturnsCount
<1> QED BY <1>2, <1>3, <1>4, <1>5, <1>6 DEF Declared, r

\* A return of an organization is written down.
LEMMA ReturnWritten ==
    ASSUME OrgsShape(orgs), NEW o, NEW v, NEW via, orgs' = Filed(o, v, via)
    PROVE  NextReturn(o, v, via)
<1> DEFINE entry == Put(orgs.declarations, FreshId(orgs.declarations), Return(o, v, via))
           r == orgs.organizations[o]
           status == IF r.status = "Delinquent" THEN "Active" ELSE r.status
           debts == Without(orgs.penaltyDebt, o)
           lasts == Without(orgs.lastPenalty, o)
<1>1. orgs' = [orgs EXCEPT !.declarations = entry,
                  !.organizations[o].last_tax_period_paid = block,
                  !.organizations[o].status = status,
                  !.penaltyDebt = debts, !.lastPenalty = lasts]
  BY DEF Filed, Return
<1>2. "declarations" \in DOMAIN orgs
  BY DEF OrgsShape
<1> HIDE DEF entry, status, debts, lasts
<1>3. orgs'.declarations = entry
  BY <1>1, <1>2
<1> QED BY <1>3 DEF NextReturn, entry

\* The balances bal after x and y were paid by the organization f.
BothPaid(bal, f, x, y) ==
    /\ DOMAIN bal = Accounts /\ bal[f] = free[f] - (x + y)
    /\ \A a \in Keyless : bal[a] \in Int
    /\ \A a \in FirmAccounts \ {f} : bal[a] = free[a]
    /\ x > 0 => bal = [free EXCEPT ![f] = @ - (x + y), ![RegionTreasury] = @ + x,
                                   ![ConfederationTreasury] = @ + y]

\* Two payments of one organization, to two treasuries.
LEMMA FirmPaysBoth ==
    ASSUME FirmFunds, NEW f \in FirmAccounts, NEW x \in Nat, NEW y \in Nat, NEW bal,
           bal = PaidFrom(PaidFrom(free, f, RegionTreasury, x), f, ConfederationTreasury, y)
    PROVE  BothPaid(bal, f, x, y)
<1> DEFINE r == RegionTreasury
           c == ConfederationTreasury
           paid == PaidFrom(free, f, r, x)
           f1 == free[f] - x
           f2 == free[f] - (x + y)
           r1 == free[r] + x
           c1 == free[c] + y
<1>1. /\ f \in Accounts /\ r \in Accounts /\ c \in Accounts /\ DOMAIN free = Accounts
      /\ f # r /\ f # c /\ r # c
      /\ f \in Keyless /\ r \in Keyless /\ c \in Keyless /\ Keyless \subseteq Accounts
      /\ FirmAccounts \subseteq Keyless /\ r \notin FirmAccounts /\ c \notin FirmAccounts
  BY FirmsAreApart DEF FirmFunds
<1>2. \A a \in Keyless : free[a] \in Int
  BY DEF FirmFunds
<1>3. free[f] \in Int /\ free[r] \in Int /\ free[c] \in Int
  BY <1>1, <1>2
<1>4. f1 \in Int /\ f2 \in Int /\ r1 \in Int /\ c1 \in Int /\ f1 - y = f2
  BY <1>3
<1>5. (x = 0 => f1 = free[f] /\ r1 = free[r]) /\ (y = 0 => f2 = f1 /\ c1 = free[c])
  BY <1>3
<1>6. /\ x = 0 => paid = free
      /\ x > 0 => paid = [free EXCEPT ![f] = f1, ![r] = r1]
  BY <1>1 DEF PaidFrom, Moves
<1> HIDE DEF f1, r1, paid
<1>7. DOMAIN paid = Accounts /\ paid[f] = f1 /\ paid[r] = r1 /\ paid[c] = free[c]
      /\ \A a \in Keyless \ {f, r} : paid[a] = free[a]
  <2>1. x = 0 \/ x > 0
    OBVIOUS
  <2> QED BY <1>1, <1>5, <1>6, <2>1
<1>8. /\ y = 0 => bal = paid
      /\ y > 0 => bal = [paid EXCEPT ![f] = f2, ![c] = c1]
  <2>1. bal = PaidFrom(paid, f, c, y)
    BY DEF paid
  <2>2. y > 0 => bal = [paid EXCEPT ![f] = paid[f] - y, ![c] = paid[c] + y]
    BY <1>1, <2>1 DEF PaidFrom, Moves
  <2>3. paid[f] - y = f2 /\ paid[c] + y = c1
    BY <1>4, <1>7
  <2>4. y = 0 => bal = paid
    BY <1>1, <2>1 DEF PaidFrom, Moves
  <2> HIDE DEF f2, c1
  <2> QED BY <2>2, <2>3, <2>4
<1> HIDE DEF f2, c1
<1>9. DOMAIN bal = Accounts /\ bal[f] = f2 /\ bal[r] = r1 /\ bal[c] = c1
      /\ \A a \in Keyless \ {f, r, c} : bal[a] = free[a]
  <2>1. y = 0 \/ y > 0
    OBVIOUS
  <2> QED BY <1>1, <1>5, <1>7, <1>8, <2>1
<1>10. \A a \in Keyless : bal[a] \in Int
  BY <1>2, <1>4, <1>9
<1>11. ASSUME x > 0
       PROVE  bal = [free EXCEPT ![f] = f2, ![r] = r1, ![c] = c1]
  <2>1. paid = [free EXCEPT ![f] = f1, ![r] = r1]
    BY <1>6, <1>11
  <2>2. CASE y = 0
    BY <1>1, <1>5, <1>8, <2>1, <2>2
  <2>3. CASE y > 0
    BY <1>1, <1>8, <2>1, <2>3
  <2> QED BY <2>2, <2>3
<1>12. \A a \in FirmAccounts \ {f} : bal[a] = free[a]
  BY <1>1, <1>9
<1>13. x > 0 => bal = [free EXCEPT ![f] = @ - (x + y), ![RegionTreasury] = @ + x,
                                   ![ConfederationTreasury] = @ + y]
  BY <1>1, <1>11 DEF f2, r1, c1
<1>14. bal[f] = free[f] - (x + y)
  BY <1>9 DEF f2
<1> QED BY <1>9, <1>10, <1>12, <1>13, <1>14 DEF BothPaid

\* An organization pays its taxes in full, and writes down what it paid.
LEMMA TaxIsPaid ==
    ASSUME FirmFunds, ReturnsCount, OrgsShape(orgs),
           NEW a, NEW o \in OrgIds, NEW v \in Payments, file_tax_return(a, o, v)
    PROVE  FirmsGoOn
<1> DEFINE f == OrgAccount[o]
           conf == (v * 3) \div 10
           region == v - conf
<1>1. v \in Nat /\ conf \in Nat /\ region \in Nat /\ region + conf = v /\ (v > 0 => region > 0)
  BY OrganizationAssumption
<1>2. /\ constitutional_tax_split(v).confederation = conf
      /\ constitutional_tax_split(v).region = region
  BY DEF constitutional_tax_split
<1> HIDE DEF conf, region
<1>3. /\ free' = PaidFrom(PaidFrom(free, f, RegionTreasury, region), f, ConfederationTreasury, conf)
      /\ reserved' = reserved /\ orgs' = Filed(o, v, FALSE) /\ Status(o) # "Frozen"
  BY <1>2 DEF file_tax_return, CanFile
<1>4. f \in FirmAccounts
  BY FirmsAreApart
<1>5. /\ DOMAIN free' = Accounts /\ free'[f] = free[f] - (region + conf)
      /\ \A b \in Keyless : free'[b] \in Int
      /\ \A b \in FirmAccounts \ {f} : free'[b] = free[b]
      /\ region > 0 => free' = [free EXCEPT ![f] = @ - (region + conf),
                                   ![RegionTreasury] = @ + region, ![ConfederationTreasury] = @ + conf]
  <2>1. BothPaid(free', f, region, conf)
    BY <1>1, <1>3, <1>4, FirmPaysBoth
  <2> HIDE DEF f
  <2> QED BY <2>1 DEF BothPaid
<1>6. FirmFunds'
  BY <1>5 DEF FirmFunds, Keyless, FirmAccounts, Offices
<1>7. free[f] \in Int /\ free[f] - free'[f] = v
  BY <1>1, <1>4, <1>5, FirmsAreApart DEF FirmFunds
<1>8. v > 0 => Splits(f, v, RegionTreasury, region, ConfederationTreasury, conf)
  BY <1>1, <1>3, <1>5 DEF Splits
<1>10. NextReturn(o, v, FALSE)
  BY <1>3, ReturnWritten
<1>11. /\ ReturnsCount' /\ Declared
       /\ orgs'.declarations[FreshId(orgs.declarations)] = Return(o, v, FALSE)
  BY <1>10, ReturnNumbered
<1> DEFINE last == orgs'.declarations[FreshId(orgs.declarations)]
<1>12. /\ last.org_id = o /\ ~last.via_zk_vault /\ last.amount_paid = v
       /\ last.confederation_share = conf /\ last.regional_share = region
  BY <1>2, <1>11 DEF Return
<1>13. ASSUME NEW p \in OrgIds
       PROVE  LeavesFor(p)
  <2>1. CASE p = o
    <3> HIDE DEF last
    <3>1. LET left == free[OrgAccount[p]] - free'[OrgAccount[p]] IN left = v
      BY <1>7, <2>1
    <3>2. v > 0 => /\ Status(p) # "Frozen"
                   /\ Declared /\ last.org_id = p /\ ~last.via_zk_vault
                   /\ v = last.amount_paid
                   /\ Splits(OrgAccount[p], v, RegionTreasury, last.regional_share,
                             ConfederationTreasury, last.confederation_share)
      BY <1>3, <1>8, <1>11, <1>12, <2>1
    <3> QED BY <3>1, <3>2 DEF LeavesFor, last
  <2>2. CASE p # o
    <3>1. OrgAccount[p] \in FirmAccounts \ {f} /\ free[OrgAccount[p]] \in Int
      BY <2>2, FirmsAreApart DEF FirmFunds
    <3>2. ~(free[OrgAccount[p]] - free'[OrgAccount[p]] > 0)
      BY <1>5, <3>1
    <3> QED BY <3>2 DEF LeavesFor
  <2> QED BY <2>1, <2>2
<1> QED BY <1>6, <1>11, <1>13 DEF FirmsGoOn

\* A spending arrives at its beneficiary: a transfer with KeepAlive leaves no dust.
LEMMA SpendingArrives ==
    ASSUME FirmFunds, ReturnsCount, NEW a \in Citizens, NEW o \in OrgIds, NEW b \in Citizens,
           NEW v \in Payments, spend_org_funds(a, o, b, v)
    PROVE  FirmsGoOn
<1> DEFINE f == OrgAccount[o]
           x == free[f] - v
           y == free[b] + v
<1>1. /\ f \in FirmAccounts /\ f \in Keyless /\ f \in Accounts /\ DOMAIN free = Accounts
      /\ b \in Accounts /\ b \notin Keyless /\ f # b
  BY FirmsAreApart, CivilAssumption DEF FirmFunds
<1>2. v \in Nat /\ free[f] \in Int /\ ExistentialDeposit \in Nat
  BY <1>1, OrganizationAssumption, LedgerAssumption DEF FirmFunds
<1>3. /\ orgs' = orgs /\ Status(o) # "Frozen" /\ transfer(f, b, v, TRUE)
      /\ reserved' = reserved
  BY DEF spend_org_funds, transfer
<1>4. /\ v = 0 => free' = free
      /\ v > 0 => free' = [free EXCEPT ![f] = x, ![b] = y]
  <2>1. CASE v > 0
    <3>1. Moves(f, b, v) /\ free[f] >= v + ExistentialDeposit
      BY <1>1, <1>2, <1>3, <2>1 DEF transfer, CanTransfer, Moves
    <3>2. Dust(f, v) = 0
      BY <1>2, <3>1 DEF Dust
    <3> DEFINE z == free[f] - v - Dust(f, v)
    <3>3. free' = [free EXCEPT ![f] = z, ![b] = y]
      BY <1>1, <1>3, <3>1 DEF transfer
    <3>4. z = x
      BY <1>2, <3>2
    <3> HIDE DEF x, y, z
    <3> QED BY <2>1, <3>3, <3>4
  <2>2. CASE v = 0
    BY <1>3, <2>2 DEF transfer, Moves
  <2> QED BY <1>2, <2>1, <2>2
<1>5. x \in Int /\ (v = 0 => x = free[f]) /\ free[f] - x = v
  BY <1>2
<1> HIDE DEF x, y
<1>6. /\ DOMAIN free' = Accounts /\ free'[f] = x
      /\ \A g \in Keyless \ {f} : free'[g] = free[g]
  <2>1. v = 0 \/ v > 0
    BY <1>2
  <2> QED BY <1>1, <1>4, <1>5, <2>1, FirmsAreApart
<1>7. FirmFunds'
  BY <1>5, <1>6 DEF FirmFunds, Keyless, FirmAccounts, Offices
<1>8. ReturnsCount' /\ ~Declared
  <2>1. PICK m \in Nat : DOMAIN orgs.declarations = 0 .. m - 1
    BY DEF ReturnsCount
  <2>2. 0 \in Int /\ m - 1 \in Int /\ Cardinality(0 .. m - 1) = m
    BY FS_Interval
  <2>3. FreshId(orgs.declarations) = m
    BY <2>1, <2>2 DEF FreshId
  <2> QED BY <1>3, <2>1, <2>3 DEF ReturnsCount, Declared
<1>9. ASSUME NEW p \in OrgIds
      PROVE  LeavesFor(p)
  <2>1. CASE p = o
    <3>1. free[OrgAccount[p]] - free'[OrgAccount[p]] = v
      BY <1>5, <1>6, <2>1
    <3>2. v > 0 => Arrives(OrgAccount[p], v, b)
      BY <1>3, <1>4, <2>1 DEF Arrives, x, y
    <3> QED BY <1>1, <1>3, <1>8, <2>1, <3>1, <3>2 DEF LeavesFor
  <2>2. CASE p # o
    <3>1. OrgAccount[p] \in Keyless \ {f} /\ free[OrgAccount[p]] \in Int
      BY <2>2, FirmsAreApart DEF FirmFunds
    <3>2. ~(free[OrgAccount[p]] - free'[OrgAccount[p]] > 0)
      BY <1>6, <3>1
    <3> QED BY <3>2 DEF LeavesFor
  <2> QED BY <2>1, <2>2
<1> QED BY <1>7, <1>8, <1>9 DEF FirmsGoOn

\* The deposit of a founder arrives at the organization.
LEMMA DepositArrives ==
    ASSUME FirmFunds, ReturnsCount, OrgsShape(orgs),
           NEW a \in Citizens, NEW o \in OrgIds, activate_organization(a, o)
    PROVE  FirmsGoOn
<1> DEFINE f == OrgAccount[o]
           v == OrgActivationDeposit
           x == free[a] - v - Dust(a, v)
<1>1. /\ f \in FirmAccounts /\ DOMAIN free = Accounts /\ \A g \in Keyless : free[g] \in Int
      /\ a \notin Keyless /\ v \in Nat /\ Keyless \subseteq Accounts /\ f \in Keyless
  BY FirmsAreApart, CivilAssumption, OrganizationAssumption DEF FirmFunds
<1>2. transfer(a, f, v, TRUE)
  BY DEF activate_organization
<1>3. /\ DOMAIN free' = Accounts
      /\ \A g \in Keyless : free'[g] = free[g] \/ free'[g] = free[g] + v
  <2>1. CASE Moves(a, f, v)
    <3>1. free' = [free EXCEPT ![a] = x, ![f] = free[f] + v]
      BY <1>1, <1>2, <2>1 DEF transfer, Moves
    <3> DEFINE y == free[f] + v
    <3> HIDE DEF x
    <3> QED BY <1>1, <3>1
  <2>2. CASE ~Moves(a, f, v)
    BY <1>1, <1>2, <2>2 DEF transfer
  <2> QED BY <2>1, <2>2
<1> HIDE DEF v
<1>4. FirmFunds' /\ \A g \in FirmAccounts : ~(free[g] - free'[g] > 0)
  <2>1. \A g \in Keyless : free'[g] \in Int /\ ~(free[g] - free'[g] > 0)
    BY <1>1, <1>3
  <2> QED BY <1>3, <2>1, FirmsAreApart DEF FirmFunds, Keyless, FirmAccounts, Offices
<1>5. orgs'.declarations = orgs.declarations
  <2> DEFINE ds == At(orgs.deposits, o, {}) \cup {[founder |-> a, block_number |-> block]}
             s == IF Cardinality(ds) >= orgs.required[o] THEN "Active"
                  ELSE orgs.organizations[o].status
             d2 == Put(orgs.deposits, o, ds)
  <2>1. orgs' = [orgs EXCEPT !.deposits = d2, !.organizations[o].status = s]
    BY DEF activate_organization
  <2> HIDE DEF ds, s, d2
  <2> QED BY <2>1 DEF OrgsShape
<1>6. ReturnsCount'
  BY <1>5 DEF ReturnsCount
<1>7. \A p \in OrgIds : LeavesFor(p)
  BY <1>4, FirmsAreApart DEF LeavesFor
<1> QED BY <1>4, <1>6, <1>7 DEF FirmsGoOn

\* Registers and crews cost nothing.
LEMMA CrewsAreFree ==
    ASSUME FirmFunds, ReturnsCount, OrgsShape(orgs), NEW a, NEW o,
           \/ \E r, m : register_organization(a, r, m)
           \/ \E b, role : add_crew_member(a, o, b, role)
           \/ freeze_organization(o)
    PROVE  FirmsGoOn
<1>1. Untouched(free')
  <2>1. free' = free
    BY DEF register_organization, add_crew_member, freeze_organization, ledger
  <2> QED BY <2>1, FirmsAreApart DEF Untouched, FirmFunds
<1>2. DOMAIN orgs = {"organizations", "crew", "declarations", "penaltyDebt", "lastPenalty",
                     "deposits", "required", "cursor"}
  BY DEF OrgsShape
<1>3. orgs'.declarations = orgs.declarations
  <2>1. ASSUME NEW r, NEW m, register_organization(a, r, m)
        PROVE  orgs'.declarations = orgs.declarations
    BY <1>2, <2>1 DEF register_organization
  <2>2. ASSUME NEW b, NEW role, add_crew_member(a, o, b, role)
        PROVE  orgs'.declarations = orgs.declarations
    BY <1>2, <2>2 DEF add_crew_member
  <2>3. ASSUME freeze_organization(o)
        PROVE  orgs'.declarations = orgs.declarations
    BY <1>2, <2>3 DEF freeze_organization
  <2> QED BY <2>1, <2>2, <2>3
<1>4. ReturnsCount'
  BY <1>3 DEF ReturnsCount
<1> QED BY <1>1, <1>4, NothingLeaves

\* A citizen who reports an organization is rewarded by the treasury.
LEMMA ReportIsRewarded ==
    ASSUME FirmFunds, ReturnsCount, NEW n \in Nat, block \in Nat, OrgsTyped(orgs, n, block),
           NEW a \in Citizens, NEW o, report_tax_evasion(a, o)
    PROVE  FirmsGoOn
<1>1. Untouched(free')
  <2>1. a \notin FirmAccounts /\ RegionTreasury \notin FirmAccounts /\ AuditorRewardAmount \in Int
    BY FirmsAreApart, CivilAssumption, OrganizationAssumption
  <2>2. Untouched(free)
    BY FirmsAreApart DEF Untouched, FirmFunds
  <2>3. \/ free' = free
        \/ free' = PaidFrom(free, RegionTreasury, a, AuditorRewardAmount)
    BY DEF report_tax_evasion
  <2> QED BY <2>1, <2>2, <2>3, PaymentOfOthers
<1>2. orgs'.declarations = orgs.declarations
  <2>1. {o} \in SUBSET (0 .. n - 1) /\ block <= block
    BY DEF report_tax_evasion, IsOrg, OrgsTyped, Numbered
  <2>2. Punished({o}, block).declarations = orgs.declarations
    BY <2>1, PunishmentWritten
  <2> QED BY <2>2 DEF report_tax_evasion
<1>3. ReturnsCount'
  BY <1>2 DEF ReturnsCount
<1> QED BY <1>1, <1>3, NothingLeaves

\* The scan of a block moves no money.
LEMMA ScanIsFree ==
    ASSUME FirmFunds, ReturnsCount, NEW n \in Nat, block \in Nat, OrgsTyped(orgs, n, block),
           on_initialize_orgs
    PROVE  FirmsGoOn
<1> DEFINE total == FreshId(orgs.organizations)
           seen == {(orgs.cursor + i) % total :
                       i \in 0 .. (IF MaxOrgsPerBlock <= total THEN MaxOrgsPerBlock ELSE total) - 1}
           scanned == {i \in seen : Status(i) # "Frozen"}
<1>1. Untouched(free')
  <2>1. free' = free
    BY DEF on_initialize_orgs, ledger
  <2> QED BY <2>1, FirmsAreApart DEF Untouched, FirmFunds
<1>2. total = n
  <2>1. DOMAIN orgs.organizations = 0 .. n - 1
    BY DEF OrgsTyped, Numbered
  <2>2. 0 \in Int /\ n - 1 \in Int /\ Cardinality(0 .. n - 1) = n
    BY FS_Interval
  <2> QED BY <2>1, <2>2 DEF FreshId
<1>3. CASE n = 0
  <2>1. orgs' = orgs
    BY <1>2, <1>3 DEF on_initialize_orgs
  <2>2. ReturnsCount'
    BY <2>1 DEF ReturnsCount
  <2> QED BY <1>1, <2>2, NothingLeaves
<1>4. CASE n > 0
  <2>1. block <= block' /\ block' \in Nat
    BY DEF on_initialize_orgs, NextBlock
  <2>2. scanned \in SUBSET (0 .. n - 1)
    <3>1. orgs.cursor \in Nat
      BY DEF OrgsTyped
    <3>2. MaxOrgsPerBlock \in Nat
      BY OrganizationAssumption
    <3>3. \A i \in Nat : (orgs.cursor + i) % n \in 0 .. n - 1
      BY <1>4, <3>1
    <3> QED BY <1>2, <3>2, <3>3
  <2>3. orgs' = [Punished(scanned, block') EXCEPT !.cursor = NextCursor(total)]
    BY <1>2, <1>4 DEF on_initialize_orgs
  <2> DEFINE s == Punished(scanned, block')
             c == NextCursor(total)
  <2>4. s.declarations = orgs.declarations /\ OrgsTyped(s, n, block')
    <3> HIDE DEF scanned
    <3> QED BY <2>1, <2>2, PunishmentWritten
  <2> HIDE DEF s, c
  <2>5. orgs'.declarations = s.declarations
    <3>1. orgs' = [s EXCEPT !.cursor = c]
      BY <2>3 DEF s, c
    <3> QED BY <2>4, <3>1 DEF OrgsTyped, OrgsShape
  <2>6. ReturnsCount'
    BY <2>4, <2>5 DEF ReturnsCount
  <2> QED BY <1>1, <2>6, NothingLeaves
<1> QED BY <1>3, <1>4

\* Every call of organizations.
LEMMA OrgStepPays ==
    ASSUME FirmFunds, ReturnsCount, NEW n \in Nat, block \in Nat, OrgsTyped(orgs, n, block), OrgStep
    PROVE  FirmsGoOn
<1>1. OrgsShape(orgs)
  BY DEF OrgsTyped
<1>2. ASSUME NEW a \in Citizens, NEW o,
             \/ \E r, m : register_organization(a, r, m)
             \/ \E b, role : add_crew_member(a, o, b, role)
             \/ freeze_organization(o)
      PROVE  FirmsGoOn
  BY <1>1, <1>2, CrewsAreFree
<1>3. ASSUME NEW o, freeze_organization(o)
      PROVE  FirmsGoOn
  BY <1>1, <1>3, CrewsAreFree
<1>4. ASSUME NEW a \in Citizens, NEW o \in OrgIds, activate_organization(a, o)
      PROVE  FirmsGoOn
  BY <1>1, <1>4, DepositArrives
<1>5. ASSUME NEW a \in Citizens, NEW o \in OrgIds, report_tax_evasion(a, o)
      PROVE  FirmsGoOn
  BY <1>5, ReportIsRewarded
<1>6. ASSUME NEW a \in Citizens, NEW o \in OrgIds, NEW v \in Payments, file_tax_return(a, o, v)
      PROVE  FirmsGoOn
  BY <1>1, <1>6, TaxIsPaid
<1>7. ASSUME NEW a \in Citizens, NEW o \in OrgIds, NEW b \in Citizens, NEW v \in Payments,
             spend_org_funds(a, o, b, v)
      PROVE  FirmsGoOn
  BY <1>7, SpendingArrives
<1>8. ASSUME on_initialize_orgs
      PROVE  FirmsGoOn
  BY <1>8, ScanIsFree
<1> QED BY <1>2, <1>3, <1>4, <1>5, <1>6, <1>7, <1>8 DEF OrgStep

\* The invariant of the money of organizations.
FirmInv == EscrowsInv /\ ScanInv /\ FirmFunds /\ ReturnsCount

\* At first every organization has the capital, or nothing is known of it.
LEMMA FirmsStart == MCInit => FirmInv
<1> SUFFICES ASSUME MCInit PROVE FirmInv
  OBVIOUS
<1>1. EscrowsInv /\ ScanInv
  BY GuildsStart, VaultStarts, LicencesStart, ScanStarts DEF EscrowsInv
<1>2. FirmFunds
  BY LedgerStarts, FirmsAreApart DEF AllLive, LedgerTypeOK, FirmFunds
<1>3. orgs.declarations = <<>>
  <2>1. orgs = NoOrgs \/ orgs = TwoFirms
    BY DEF MCInit
  <2>2. NoOrgs.declarations = <<>>
    BY DEF NoOrgs
  <2>3. TwoFirms.declarations = <<>>
    <3> DEFINE o == <<>>
    <3>1. NoOrgs = [organizations |-> o, crew |-> o, declarations |-> o, penaltyDebt |-> o,
                    lastPenalty |-> o, deposits |-> o, required |-> o, cursor |-> 0]
      BY DEF NoOrgs
    <3> HIDE DEF o
    <3>2. "declarations" \in DOMAIN NoOrgs /\ NoOrgs.declarations = o
      BY <3>1
    <3>3. TwoFirms.declarations = NoOrgs.declarations
      BY <3>2 DEF TwoFirms
    <3> QED BY <2>2, <3>3
  <2> QED BY <2>1, <2>2, <2>3
<1>4. ReturnsCount
  <2>1. DOMAIN <<>> = 0 .. 0 - 1 /\ 0 \in Nat
    OBVIOUS
  <2> QED BY <1>3, <2>1 DEF ReturnsCount
<1> QED BY <1>1, <1>2, <1>4 DEF FirmInv

\* Where the parts without calls of organizations leave the returns as they are.
LEMMA OthersGoOn ==
    ASSUME FirmInv, Untouched(free'), orgs' = orgs
    PROVE  FirmsGoOn
<1>1. ReturnsCount'
  BY DEF FirmInv, ReturnsCount
<1> QED BY <1>1, NothingLeaves DEF FirmInv

\* Every step.
LEMMA FirmsContinue ==
    ASSUME FirmInv, [MCNext]_MCvars
    PROVE  FirmsGoOn
<1>1. FirmFunds /\ ReturnsCount /\ Untouched(free)
  BY FirmsAreApart DEF FirmInv, FirmFunds, Untouched
<1>2. ASSUME free' = free, orgs' = orgs
      PROVE  FirmsGoOn
  BY <1>1, <1>2, OthersGoOn
<1>3. CASE UNCHANGED MCvars
  BY <1>2, <1>3 DEF MCvars, ledger
<1>4. ASSUME GuildStep
      PROVE  FirmsGoOn
  <2>1. orgs' = orgs
    BY <1>4 DEF GuildStep
  <2>2. CASE QuestStep
    <3>1. Untouched(free')
      BY <1>1, <2>2, QuestsAreOfOthers DEF FirmInv, EscrowsInv
    <3> QED BY <2>1, <3>1, OthersGoOn
  <2>3. CASE MemberStep \/ UnionStep \/ CouncilStep
    <3>1. free' = free
      <4>1. CASE MemberStep
        <5>1. ASSUME NEW a, NEW g, NEW b, NEW role, NEW i,
                     \/ create_guild(a) \/ join_guild(a, g)
                     \/ promote_member(a, g, b, role) \/ propose_achievement(a, g, b, i)
              PROVE  UNCHANGED ledger
          BY <5>1, Zenon DEF create_guild, join_guild, promote_member, propose_achievement
        <5> QED BY <4>1, <5>1 DEF MemberStep, ledger
      <4>2. CASE UnionStep
        <5>1. ASSUME NEW a, NEW list, form_guild_union(a, list)
              PROVE  UNCHANGED ledger
          BY <5>1, Zenon DEF form_guild_union
        <5>2. ASSUME NEW a, NEW u, NEW g, NEW c, vote_for_grandmaster(a, u, g, c)
              PROVE  UNCHANGED ledger
          BY <5>2, Zenon DEF vote_for_grandmaster
        <5>3. ASSUME NEW a, NEW u, NEW peers, elevate_union(a, u, peers)
              PROVE  UNCHANGED ledger
          BY <5>3, Zenon DEF elevate_union
        <5> QED BY <4>2, <5>1, <5>2, <5>3 DEF UnionStep, ledger
      <4>3. CASE CouncilStep
        <5>1. ASSUME NEW a, NEW u, NEW list,
                     create_guild_from_relayer(u, a, list) \/ update_council_from_relayer(u, list)
              PROVE  UNCHANGED ledger
          BY <5>1, Zenon DEF create_guild_from_relayer, update_council_from_relayer
        <5>2. ASSUME NEW a, NEW u, NEW p, NEW in_favor,
                     \/ create_proposal_from_relayer(u, p, a)
                     \/ vote_proposal_from_relayer(u, p, a, in_favor)
              PROVE  UNCHANGED ledger
          BY <5>2, Zenon DEF create_proposal_from_relayer, vote_proposal_from_relayer
        <5> QED BY <4>3, <5>1, <5>2 DEF CouncilStep, ledger
      <4> QED BY <2>3, <4>1, <4>2, <4>3
    <3> QED BY <1>2, <2>1, <3>1
  <2> QED BY <1>4, <2>2, <2>3 DEF GuildStep
<1>5. ASSUME FirmStep
      PROVE  FirmsGoOn
  <2>1. CASE part = "orgs" /\ OrgStep
    <3>1. PICK n \in Nat : block \in Nat /\ OrgBooks(orgs, n, block)
      BY <2>1 DEF FirmInv, ScanInv
    <3> QED BY <1>1, <2>1, <3>1, OrgStepPays DEF OrgBooks
  <2>2. CASE VaultStep /\ UNCHANGED <<citizens, orgs>>
    <3>1. Untouched(free')
      BY <1>1, <2>2, NotesAreOfOthers
    <3> QED BY <2>2, <3>1, OthersGoOn
  <2>3. ASSUME part = "vault", NEW c \in Citizens, NEW m \in Nullifiers, NEW note \in Commitments,
               NEW v \in ShieldedAmounts, file_tax_return_zk(c, 0, m, note, v)
        PROVE  FirmsGoOn
    <3>1. Untouched(free')
      BY <1>1, <2>3, NoteTaxIsOfOthers
    <3>2. OrgsShape(orgs)
      BY <2>3 DEF FirmInv, ScanInv, OrgBooks, OrgsTyped
    <3>3. orgs' = Filed(0, v, TRUE)
      BY <2>3 DEF file_tax_return_zk
    <3>4. NextReturn(0, v, TRUE)
      BY <3>2, <3>3, ReturnWritten
    <3>5. ReturnsCount'
      BY <1>1, <3>4, ReturnNumbered
    <3> QED BY <1>1, <3>1, <3>5, NothingLeaves
  <2> QED BY <1>5, <2>1, <2>2, <2>3 DEF FirmStep, TaxFromVault
<1>6. ASSUME MinistryStep
      PROVE  FirmsGoOn
  <2>1. orgs' = orgs
    BY <1>6 DEF MinistryStep
  <2>2. CASE part = "licences" /\ LicensingStep
    <3>1. Untouched(free')
      BY <1>1, <2>2, LicencesAreOfOthers DEF FirmInv, EscrowsInv
    <3> QED BY <2>1, <3>1, OthersGoOn
  <2>3. CASE UNCHANGED ledger
    BY <1>2, <2>1, <2>3 DEF ledger
  <2> QED BY <1>6, <2>2, <2>3 DEF MinistryStep
<1> QED BY <1>3, <1>4, <1>5, <1>6 DEF MCNext

(***************************************************************************)
(* The money of organizations.  Whatever the other pallets do with the     *)
(* same ledger, only a return or a spending takes anything from the        *)
(* keyless account of an organization, while it is not frozen, and all of  *)
(* it arrives: the shares that the return declares, in the two treasuries, *)
(* or the whole of the spending, with one beneficiary.                     *)
(***************************************************************************)
THEOREM FirmsAreAccounted == MCSpec => OrgMoneyIsAccounted
<1> DEFINE A == \A o \in OrgIds : LeavesFor(o)
           B == \A o \in OrgIds :
                  LET purse == OrgAccount[o]
                      left == free[purse] - free'[purse]
                      declared == FreshId(orgs'.declarations) > FreshId(orgs.declarations)
                      last == orgs'.declarations[FreshId(orgs.declarations)]
                  IN  left > 0 =>
                         /\ Status(o) # "Frozen"
                         /\ \/ /\ declared /\ last.org_id = o /\ ~last.via_zk_vault
                               /\ left = last.amount_paid
                               /\ Splits(purse, left, RegionTreasury, last.regional_share,
                                         ConfederationTreasury, last.confederation_share)
                            \/ /\ ~declared
                               /\ \E b \in Accounts \ {purse} :
                                     Arrives(purse, left, b)
<1>1. MCInit => FirmInv
  BY FirmsStart
<1>2. FirmInv /\ [MCNext]_MCvars => FirmInv'
  BY EscrowsContinue, ScanContinues, FirmsContinue DEF FirmInv, FirmsGoOn
<1>3. FirmInv /\ [MCNext]_MCvars => [A]_<<ledger, block, citizens, pool, orgs>>
  BY FirmsContinue DEF FirmsGoOn
<1>4. MCSpec => [][A]_<<ledger, block, citizens, pool, orgs>>
  BY <1>1, <1>2, <1>3, PTL DEF MCSpec
<1>5. [A]_<<ledger, block, citizens, pool, orgs>> =>
      [B]_<<ledger, block, citizens, pool, orgs>>
  BY DEF LeavesFor, Declared
<1> HIDE DEF A, B
<1>6. MCSpec => [][B]_<<ledger, block, citizens, pool, orgs>>
  BY <1>4, <1>5, PTL
<1> QED BY <1>6, PTL DEF OrgMoneyIsAccounted, B
=============================================================================
