------------------------------- MODULE Guilds -------------------------------
(***************************************************************************)
(* pallets/guilds: guilds and their members, quests with a reward held in  *)
(* escrow, achievements, unions of guilds that elect a grandmaster, the    *)
(* academy, and the guilds that the relayer mirrors with their councils.   *)
(*                                                                         *)
(* The storage of the pallet is one record.  Names, tags, regions and IPFS *)
(* identifiers are left out, and so is election_votes_for, which no call   *)
(* ever sets to anything but 0.                                            *)
(***************************************************************************)
EXTENDS AltanBalances, StorageMaps, Sequences

CONSTANTS
    Artisans,          \* accounts that call the pallet
    Rewards,           \* rewards offered and fees paid
    Uuids,             \* identifiers of mirrored guilds and of their proposals
    MaxGuilds, MaxQuests, MaxAchievements, MaxUnions,   \* bounds on the counters
    MaxUnionMembers, MaxCouncilMembers, FoundersNeeded

ASSUME GuildsAssumption ==
    /\ Artisans \subseteq Accounts
    /\ Rewards \subseteq Nat
    /\ {MaxGuilds, MaxQuests, MaxAchievements, MaxUnions} \subseteq Nat
    /\ {MaxUnionMembers, MaxCouncilMembers, FoundersNeeded} \subseteq Nat

VARIABLE guilds   \* the storage of the pallet

MemberRole == {"Apprentice", "Professional", "Master"}

QuestStatus == {"Open", "InProgress", "Review", "Completed", "Cancelled"}

GuildUnionLevel == <<"GuildArbad", "GuildZun", "GuildMyangad", "GuildTumed">>

ProposalStatus == {"Open", "Passed", "Rejected"}

NoGuilds ==
    [guilds       |-> <<>>,   \* guild_id -> [founder, quest_count, member_count]
     members      |-> <<>>,   \* <<guild_id, account>> -> MemberRole
     questCount   |-> <<>>,   \* <<guild_id, account>> -> completed quests
     quests       |-> <<>>,   \* quest_id -> Quest
     achievements |-> <<>>,   \* achievement_id -> Achievement
     holders      |-> {},     \* <<account, achievement_id>>
     unions       |-> <<>>,   \* union_id -> GuildUnion
     nextUnionId  |-> 0,
     unionOf      |-> <<>>,   \* guild_id -> union_id
     gmVotes      |-> <<>>,   \* <<union_id, guild_id>> -> candidate
     academy      |-> {},     \* academicians
     byUuid       |-> <<>>,   \* uuid -> GuildRecord
     proposals    |-> <<>>,   \* proposal uuid -> GuildProposalRecord
     ballots      |-> {}]     \* <<proposal uuid, voter>>

IsMaster(caller, guild_id) ==
    At(guilds.members, <<guild_id, caller>>, "Apprentice") = "Master"

ensure_master(caller, guild_id) == guild_id \in DOMAIN guilds.guilds /\ IsMaster(caller, guild_id)

-----------------------------------------------------------------------------
(* Members and achievements                                                *)

\* The storage g with one more guild, founded by caller.
WithGuild(g, caller) ==
    LET id == FreshId(g.guilds)
    IN  [g EXCEPT !.guilds = Put(@, id, [founder |-> caller, quest_count |-> 0, member_count |-> 1]),
                  !.members = Put(@, <<id, caller>>, "Master")]

create_guild(caller) ==
    /\ FreshId(guilds.guilds) < MaxGuilds
    /\ guilds' = WithGuild(guilds, caller)
    /\ UNCHANGED ledger

\* Mutant: the members are not looked at.
JoinAgain(caller, guild_id) == guild_id \in DOMAIN guilds.guilds

CanJoin(caller, guild_id) ==
    /\ guild_id \in DOMAIN guilds.guilds
    /\ <<guild_id, caller>> \notin DOMAIN guilds.members

join_guild(caller, guild_id) ==
    /\ CanJoin(caller, guild_id)
    /\ guilds' = [guilds EXCEPT !.members = Put(@, <<guild_id, caller>>, "Apprentice"),
                                !.guilds[guild_id].member_count = @ + 1]
    /\ UNCHANGED ledger

promote_member(caller, guild_id, target, new_role) ==
    /\ ensure_master(caller, guild_id)
    /\ caller # target
    /\ <<guild_id, target>> \in DOMAIN guilds.members
    /\ guilds' = [guilds EXCEPT !.members[<<guild_id, target>>] = new_role]
    /\ UNCHANGED ledger

propose_achievement(caller, guild_id, target_citizen, required_quests) ==
    LET id == FreshId(guilds.achievements)
    IN  /\ id < MaxAchievements
        /\ ensure_master(caller, guild_id)
        /\ caller # target_citizen
        /\ <<guild_id, target_citizen>> \in DOMAIN guilds.members
        /\ At(guilds.questCount, <<guild_id, target_citizen>>, 0) >= required_quests
        /\ guilds' = [guilds EXCEPT
              !.achievements = Put(@, id, [guild_id |-> guild_id, issuer |-> caller,
                                           required_quests |-> required_quests]),
              !.holders = @ \cup {<<target_citizen, id>>}]
        /\ UNCHANGED ledger

subscribe_to_academy(caller, master_account, fee) ==
    transfer(caller, master_account, fee, TRUE) /\ UNCHANGED guilds

-----------------------------------------------------------------------------
(* Quests                                                                  *)

NewQuest(guild_id, employer, reward) ==
    [guild_id |-> guild_id, employer |-> employer, reward |-> reward, status |-> "Open",
     assignee |-> {}, assignee_quest_count |-> 0]

publish_quest(caller, guild_id, reward) ==
    /\ FreshId(guilds.quests) < MaxQuests
    /\ guild_id \in DOMAIN guilds.guilds
    /\ reserve(caller, reward)
    /\ guilds' = [guilds EXCEPT
          !.quests = Put(@, FreshId(@), NewQuest(guild_id, caller, reward)),
          !.guilds[guild_id].quest_count = @ + 1]

Is(quest_id, status) ==
    quest_id \in DOMAIN guilds.quests /\ guilds.quests[quest_id].status = status

assign_quest(caller, quest_id) ==
    /\ Is(quest_id, "Open")
    /\ <<guilds.quests[quest_id].guild_id, caller>> \in DOMAIN guilds.members
    /\ guilds' = [guilds EXCEPT !.quests[quest_id].status = "InProgress",
                                !.quests[quest_id].assignee = {caller}]
    /\ UNCHANGED ledger

submit_quest(caller, quest_id) ==
    /\ Is(quest_id, "InProgress")
    /\ guilds.quests[quest_id].assignee = {caller}
    /\ guilds' = [guilds EXCEPT !.quests[quest_id].status = "Review"]
    /\ UNCHANGED ledger

\* One more quest done by who in the guild.
CountQuest(quest, who) ==
    LET k == <<quest.guild_id, who>>
    IN  Put(guilds.questCount, k, At(guilds.questCount, k, 0) + 1)

complete_quest(caller, quest_id) ==
    /\ Is(quest_id, "Review")
    /\ LET quest == guilds.quests[quest_id]
       IN  /\ IsMaster(caller, quest.guild_id)
           /\ \E assignee \in quest.assignee :
                 /\ PayReserved(quest.employer, assignee, quest.reward)
                 /\ LET counts == CountQuest(quest, assignee)
                    IN  guilds' = [guilds EXCEPT
                           !.questCount = counts,
                           !.quests[quest_id].status = "Completed",
                           !.quests[quest_id].assignee_quest_count =
                                 counts[<<quest.guild_id, assignee>>]]

cancel_quest(caller, quest_id) ==
    /\ Is(quest_id, "Open")
    /\ guilds.quests[quest_id].employer = caller
    /\ unreserve(caller, guilds.quests[quest_id].reward)
    /\ guilds' = [guilds EXCEPT !.quests[quest_id].status = "Completed"]

force_resolve_quest(caller, quest_id, recipient) ==
    /\ Is(quest_id, "Review")
    /\ LET quest == guilds.quests[quest_id]
       IN  /\ IsMaster(caller, quest.guild_id)
           /\ PayReserved(quest.employer, recipient, quest.reward)
           /\ guilds' = [guilds EXCEPT
                 !.questCount = IF quest.assignee = {recipient} THEN CountQuest(quest, recipient) ELSE @,
                 !.quests[quest_id].status = "Completed"]

QuestsOf(who, statuses) ==
    {q \in DOMAIN guilds.quests :
        guilds.quests[q].employer = who /\ guilds.quests[q].status \in statuses}

Escrow(who, statuses) ==
    SumOver([q \in DOMAIN guilds.quests |-> guilds.quests[q].reward], QuestsOf(who, statuses))

\* Mutant: the escrow is returned and the quests stay open.
CleanupKeepsQuests(who) == guilds.quests

QuestsAfterCleanup(who) ==
    [q \in DOMAIN guilds.quests |->
        IF q \in QuestsOf(who, {"Open", "InProgress"})
        THEN [guilds.quests[q] EXCEPT !.status = "Cancelled"]
        ELSE guilds.quests[q]]

GuildsAfterCleanup(who) ==
    [guilds EXCEPT !.quests = QuestsAfterCleanup(who), !.academy = @ \ {who}]

\* OnTerminalStatus: the account belongs to a citizen who died or was exiled.
cleanup_account(who) ==
    /\ unreserve(who, Escrow(who, {"Open", "InProgress"}))
    /\ guilds' = GuildsAfterCleanup(who)

-----------------------------------------------------------------------------
(* Unions                                                                  *)

grant_academician(academy, who, level) ==
    IF level = "GuildTumed" THEN academy \cup {who} ELSE academy

\* A list may name a guild twice; the count is the length of the list.
form_guild_union(caller, peer_guild_ids) ==
    LET peers == {peer_guild_ids[i] : i \in DOMAIN peer_guild_ids}
    IN  /\ guilds.nextUnionId < MaxUnions
        /\ Len(peer_guild_ids) \in 1 .. MaxUnionMembers
        /\ ensure_master(caller, peer_guild_ids[1])
        /\ peers \subseteq DOMAIN guilds.guilds \ DOMAIN guilds.unionOf
        /\ guilds' = [guilds EXCEPT
              !.unions = Put(@, guilds.nextUnionId,
                             [level |-> "GuildArbad", founder_guild |-> peer_guild_ids[1],
                              grandmaster |-> caller, member_guild_count |-> Len(peer_guild_ids),
                              election_votes_cast |-> 0]),
              !.nextUnionId = @ + 1,
              !.unionOf = PutAll(@, peers, guilds.nextUnionId)]
        /\ UNCHANGED ledger

\* The candidates with more than half of the votes of all guilds: at most one.
tally_grandmaster_votes(votes, union_id, total_guilds) ==
    {c \in Accounts :
        Cardinality({k \in DOMAIN votes : k[1] = union_id /\ votes[k] = c}) > total_guilds \div 2}

\* The votes without those of one union.
Cleared(votes, union_id) == [k \in {j \in DOMAIN votes : j[1] # union_id} |-> votes[k]]

vote_for_grandmaster(caller, union_id, voter_guild_id, candidate) ==
    /\ union_id \in DOMAIN guilds.unions
    /\ ensure_master(caller, voter_guild_id)
    /\ At(guilds.unionOf, voter_guild_id, -1) = union_id
    /\ <<union_id, voter_guild_id>> \notin DOMAIN guilds.gmVotes
    /\ LET union == guilds.unions[union_id]
           votes == Put(guilds.gmVotes, <<union_id, voter_guild_id>>, candidate)
           elected == tally_grandmaster_votes(votes, union_id, union.member_guild_count)
           cast == union.election_votes_cast + 1
       IN  \/ \E winner \in elected :
                 guilds' = [guilds EXCEPT
                    !.gmVotes = Cleared(votes, union_id),
                    !.unions[union_id].grandmaster = winner,
                    !.unions[union_id].election_votes_cast = 0,
                    !.academy = grant_academician(@, winner, union.level)]
           \/ /\ elected = {} /\ cast >= union.member_guild_count
              /\ guilds' = [guilds EXCEPT !.gmVotes = Cleared(votes, union_id),
                                          !.unions[union_id].election_votes_cast = 0]
           \/ /\ elected = {} /\ cast < union.member_guild_count
              /\ guilds' = [guilds EXCEPT !.gmVotes = votes,
                                          !.unions[union_id].election_votes_cast = cast]
    /\ UNCHANGED ledger

next(level) ==
    {GuildUnionLevel[i + 1] : i \in {j \in 1 .. Len(GuildUnionLevel) - 1 : GuildUnionLevel[j] = level}}

\* The peers are removed; their guilds go on pointing at them.
elevate_union(caller, base, peers) ==
    /\ {base} \cup peers \subseteq DOMAIN guilds.unions
    /\ base \notin peers
    /\ guilds.unions[base].grandmaster = caller
    /\ \A p \in peers : guilds.unions[p].level = guilds.unions[base].level
    /\ \E new_level \in next(guilds.unions[base].level) :
          guilds' = [guilds EXCEPT
             !.unions = [u \in DOMAIN @ \ peers |->
                IF u # base THEN @[u]
                ELSE [@[u] EXCEPT
                        !.level = new_level,
                        !.member_guild_count =
                            MapThenSumSet(LAMBDA p : guilds.unions[p].member_guild_count,
                                          peers \cup {base}),
                        !.election_votes_cast = 0]],
             !.academy = grant_academician(@, caller, new_level)]
    /\ UNCHANGED ledger

-----------------------------------------------------------------------------
(* Guilds mirrored by the relayer                                          *)

create_guild_from_relayer(uuid, master, initial_members) ==
    /\ Len(initial_members) = FoundersNeeded
    /\ uuid \notin DOMAIN guilds.byUuid
    /\ guilds' = [guilds EXCEPT !.byUuid =
          Put(@, uuid, [master |-> master, members |-> initial_members, council |-> <<>>])]
    /\ UNCHANGED ledger

update_council_from_relayer(uuid, new_council) ==
    /\ uuid \in DOMAIN guilds.byUuid
    /\ Len(new_council) <= MaxCouncilMembers
    /\ guilds' = [guilds EXCEPT !.byUuid[uuid].council = new_council]
    /\ UNCHANGED ledger

\* The people of a list, which may name one twice.
In(list) == {list[i] : i \in DOMAIN list}

create_proposal_from_relayer(uuid, proposal_id, proposer) ==
    /\ uuid \in DOMAIN guilds.byUuid
    /\ proposer \in In(guilds.byUuid[uuid].council)
    /\ proposal_id \notin DOMAIN guilds.proposals
    /\ guilds' = [guilds EXCEPT !.proposals =
          Put(@, proposal_id, [guild_id |-> uuid, proposer |-> proposer, votes_for |-> 0,
                               votes_against |-> 0, status |-> "Open"])]
    /\ UNCHANGED ledger

\* The outcome of a count: more than half of the places of the council.
Decision(p, places) ==
    CASE p.votes_for > places \div 2 -> "Passed"
      [] p.votes_for <= places \div 2 /\ p.votes_against > places \div 2 -> "Rejected"
      [] OTHER -> "Open"

\* Mutant: the ballot is not recorded.
NoBallot(proposal_id, voter) == guilds.ballots

WithBallot(proposal_id, voter) == guilds.ballots \cup {<<proposal_id, voter>>}

\* The guild named by the call need not be the guild of the proposal.
vote_proposal_from_relayer(uuid, proposal_id, voter, in_favor) ==
    /\ uuid \in DOMAIN guilds.byUuid
    /\ voter \in In(guilds.byUuid[uuid].council)
    /\ proposal_id \in DOMAIN guilds.proposals
    /\ guilds.proposals[proposal_id].status = "Open"
    /\ <<proposal_id, voter>> \notin guilds.ballots
    /\ LET p == guilds.proposals[proposal_id]
           counted == IF in_favor THEN [p EXCEPT !.votes_for = @ + 1]
                      ELSE [p EXCEPT !.votes_against = @ + 1]
       IN  guilds' = [guilds EXCEPT
              !.ballots = WithBallot(proposal_id, voter),
              !.proposals[proposal_id] =
                  [counted EXCEPT !.status = Decision(counted, Len(guilds.byUuid[uuid].council))]]
    /\ UNCHANGED ledger
-----------------------------------------------------------------------------
QuestIds == 0 .. MaxQuests - 1
GuildIds == 0 .. MaxGuilds - 1
UnionIds == 0 .. MaxUnions - 1
GuildLists == UNION {[1 .. n -> GuildIds] : n \in 1 .. MaxUnionMembers}
Councils == UNION {[1 .. n -> Artisans] : n \in 1 .. MaxCouncilMembers}

QuestCall ==
    \/ \E a \in Artisans, r \in Rewards : publish_quest(a, 0, r)
    \/ \E a \in Artisans, q \in QuestIds :
          \/ assign_quest(a, q) \/ submit_quest(a, q) \/ complete_quest(a, q) \/ cancel_quest(a, q)
          \/ \E b \in Artisans : force_resolve_quest(a, q, b)

\* The quests among the academy's fees and the end of an account, which the
\* runtime reports to the pallet.
QuestStep ==
    \/ QuestCall
    \/ \E a, b \in Artisans, fee \in Rewards : subscribe_to_academy(a, b, fee)
    \/ \E a \in Artisans : cleanup_account(a)

MemberStep ==
    \/ \E a \in Artisans : create_guild(a)
    \/ \E a \in Artisans, g \in GuildIds :
          \/ join_guild(a, g)
          \/ \E b \in Artisans, role \in MemberRole : promote_member(a, g, b, role)
          \/ \E b \in Artisans, n \in 0 .. 1 : propose_achievement(a, g, b, n)

UnionStep ==
    \/ \E a \in Artisans, list \in GuildLists : form_guild_union(a, list)
    \/ \E a, c \in Artisans, u \in UnionIds, g \in GuildIds : vote_for_grandmaster(a, u, g, c)
    \/ \E a \in Artisans, u \in UnionIds, peers \in SUBSET UnionIds : elevate_union(a, u, peers)

CouncilStep ==
    \/ \E u \in Uuids, a \in Artisans :
          create_guild_from_relayer(u, a, [i \in 1 .. FoundersNeeded |-> a])
    \/ \E u \in Uuids, list \in Councils : update_council_from_relayer(u, list)
    \/ \E u, p \in Uuids, a \in Artisans :
          \/ create_proposal_from_relayer(u, p, a)
          \/ \E in_favor \in BOOLEAN : vote_proposal_from_relayer(u, p, a, in_favor)

-----------------------------------------------------------------------------
(* Correctness                                                             *)

(***************************************************************************)
(* The counters that pages and achievements rely on are counts: members of *)
(* a guild, quests of a guild, quests done by a member, and ballots.       *)
(***************************************************************************)
GuildCountsAgree ==
    /\ \A g \in DOMAIN guilds.guilds :
          /\ guilds.guilds[g].member_count = Cardinality({k \in DOMAIN guilds.members : k[1] = g})
          /\ guilds.guilds[g].quest_count =
                Cardinality({q \in DOMAIN guilds.quests : guilds.quests[q].guild_id = g})
    /\ \A k \in DOMAIN guilds.questCount :
          guilds.questCount[k] <=
             Cardinality({q \in DOMAIN guilds.quests :
                             /\ guilds.quests[q].guild_id = k[1]
                             /\ guilds.quests[q].assignee = {k[2]}
                             /\ guilds.quests[q].status = "Completed"})
    /\ \A p \in DOMAIN guilds.proposals :
          guilds.proposals[p].votes_for + guilds.proposals[p].votes_against =
             Cardinality({b \in guilds.ballots : b[1] = p})
=============================================================================
