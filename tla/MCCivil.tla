------------------------------- MODULE MCCivil -------------------------------
(***************************************************************************)
(* Instances of the guilds, the organizations with their shielded vaults,  *)
(* the licences and the foreign states, for TLC.  These pallets share the  *)
(* ledger, the clock and the register of citizens and no calls, so each    *)
(* behaviour is that of one of them: part.                                 *)
(***************************************************************************)
EXTENDS Guilds, Organization, Licensing, ForeignAffairs, TLC

CONSTANTS
    People,      \* accounts that hold ALTAN
    Capital,     \* what each of them holds at first
    MaxActs,     \* bound on the calls of a behaviour,
    MaxOrgActs   \* and of one of organizations, beside the new blocks

VARIABLES part, acts

Offices == {RegionTreasury, ConfederationTreasury}

MCOrgAccount == [o \in OrgIds |-> IF o = 0 THEN "firm0" ELSE "firm1"]

FirmAccounts == {OrgAccount[o] : o \in OrgIds}

MCAccounts == People \cup Offices \cup FirmAccounts

MCNationOf == [c \in Citizens |-> 1]

MCNationTreasuries == [r \in {1} |-> RegionTreasury]

\* Every account holds its capital, or is a treasury with the least balance.
\* The calls are made by people; the account of an organization is a hash of
\* its identifier (derive_org_account) and has no key, and the treasuries, two
\* accounts, are not among the callers.
\* Somebody founds a guild and somebody else joins it.
ASSUME CivilAssumption ==
    /\ Accounts = MCAccounts
    /\ (People \cup FirmAccounts) \cap Offices = {} /\ People \cap FirmAccounts = {}
    /\ RegionTreasury # ConfederationTreasury
    /\ Artisans \cup Citizens \cup Holders \cup Ministries \subseteq People
    /\ \A o, p \in OrgIds : OrgAccount[o] = OrgAccount[p] => o = p
    /\ \A r \in DOMAIN NationTreasuries : NationTreasuries[r] \in Offices
    /\ Capital \in Nat /\ ExistentialDeposit <= Capital
    /\ \E a, b \in Artisans : a # b

Founder == CHOOSE a \in Artisans : TRUE

Joiner == CHOOSE a \in Artisans \ {Founder} : TRUE

\* A guild with two members, or three guilds of their own founders.
OneGuild ==
    LET g == WithGuild(NoGuilds, Founder)
    IN  [g EXCEPT !.members = Put(@, <<0, Joiner>>, "Apprentice"), !.guilds[0].member_count = 2]

ThreeGuilds == WithGuild(WithGuild(WithGuild(NoGuilds, Founder), Founder), Joiner)

\* Two organizations of a citizen, who has paid the deposits; the nation of
\* one region has a treasury and that of the other has none.
TwoFirms ==
    LET director == CHOOSE c \in Citizens : TRUE
    IN  [NoOrgs EXCEPT
            !.organizations = [o \in {0, 1} |->
                [hq_region |-> o + 1, status |-> "Active",
                 last_tax_period_paid |-> 0, registered_at |-> 0]],
            !.crew = [k \in {0, 1} \X {director} |-> "Director"],
            !.deposits = [o \in {0, 1} |-> {[founder |-> director, block_number |-> 0]}],
            !.required = [o \in {0, 1} |-> 1]]

Delegates ==
    [c \in Citizens |->
        IF c = CHOOSE d \in Citizens : TRUE THEN "ConfederationDelegate" ELSE "KhuralDelegate"]

MCInit ==
    /\ part \in {"quests", "members", "unions", "councils", "vault", "orgs", "licences", "states"}
    /\ acts = 0
    /\ free = [a \in Accounts |-> IF a \in People \cup FirmAccounts THEN Capital ELSE ExistentialDeposit]
    /\ reserved = [a \in Accounts |-> 0]
    /\ frozen = [a \in Accounts |-> 0]
    /\ issuance = SumOver(free, Accounts)
    /\ block = 0
    /\ citizens = Registered(IF part = "licences" THEN Delegates ELSE [c \in Citizens |-> "Regular"])
    /\ guilds = CASE part = "quests" -> OneGuild
                  [] part = "unions" -> ThreeGuilds
                  [] OTHER -> NoGuilds
    /\ pool = EmptyPool
    /\ orgs = IF part = "vault" THEN TwoFirms ELSE NoOrgs
    /\ licensing = NoLicenses
    /\ foreign = NoStates

\* A citizenship ends here by exile, which takes cleanup_account to the guilds
\* and no more; the estates of the dead are those of MCRegistries.
GuildStep ==
    /\ \/ part = "quests" /\ QuestStep
       \/ part = "members" /\ MemberStep
       \/ part = "unions" /\ UnionStep
       \/ part = "councils" /\ CouncilStep
    /\ UNCHANGED <<block, citizens, pool, orgs, licensing, foreign>>

TaxFromVault ==
    \E c \in Citizens, n \in Nullifiers, note \in Commitments, v \in ShieldedAmounts :
        file_tax_return_zk(c, 0, n, note, v)

FirmStep ==
    /\ \/ part = "orgs" /\ OrgStep
       \/ part = "vault" /\ VaultStep /\ UNCHANGED <<citizens, orgs>>
       \/ part = "vault" /\ TaxFromVault
    /\ UNCHANGED <<guilds, licensing, foreign>>

MinistryStep ==
    /\ \/ part = "licences" /\ LicensingStep /\ UNCHANGED foreign
       \/ part = "states" /\ ForeignStep /\ UNCHANGED <<ledger, citizens, licensing>>
    /\ UNCHANGED <<guilds, pool, orgs>>

\* Blocks go by outside the bound on the calls.
MCNext ==
    /\ GuildStep \/ FirmStep \/ MinistryStep
    /\ \/ block' # block /\ UNCHANGED acts
       \/ block' = block /\ acts < (IF part = "orgs" THEN MaxOrgActs ELSE MaxActs) /\ acts' = acts + 1
    /\ UNCHANGED part

MCvars == <<ledger, block, citizens, guilds, pool, orgs, licensing, foreign, part, acts>>

MCSpec == MCInit /\ [][MCNext]_MCvars

-----------------------------------------------------------------------------
(***************************************************************************)
(* What was taken from the public balances is not lost: notes of the       *)
(* vaults, where nothing else mints and everybody is above the existential *)
(* deposit, and the deposits of applications for a licence, which settle   *)
(* once.                                                                   *)
(***************************************************************************)
EscrowsAreFunded ==
    /\ part = "vault" =>
          PoolLosesNothing(Capital * Cardinality(People \cup FirmAccounts)
                              + ExistentialDeposit * Cardinality(Offices))
    /\ part = "licences" => ApplicationsSettleOnce /\ LicencesAreSeen
=============================================================================
