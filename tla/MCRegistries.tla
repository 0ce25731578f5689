---------------------------- MODULE MCRegistries ----------------------------
(***************************************************************************)
(* Instances of the pallets that end a citizenship, hold citizens for a    *)
(* trial or keep what they own, and of the taxes, the mixer, the tokens,   *)
(* the migration center, the DAOs and the publications, for TLC.  A        *)
(* behaviour is about one of them, named by part.  What Terminal composes  *)
(* is shared by the first, JusticeParts; the others share the ledger, the  *)
(* clock and the register of citizens and no calls.                        *)
(***************************************************************************)
EXTENDS Courts, CitizenVoice, Records, Taxes, Mixer, Tokens, DecimalDao, Publications

CONSTANTS
    Guests,         \* citizens beside the others where few actions are
    CitizenHolds, TreasuryHolds,
    TrialBlocks,    \* bound on the blocks of a behaviour about trials
    People,         \* accounts that hold ALTAN
    MaxVoiceActs,   \* bounds on the calls of a behaviour about voices
    MaxActs         \* and of one about the registries

VARIABLES part, acts

JusticeAccounts == Citizens \cup Guests \cup {StateTreasury, CivilFeeTreasury}

MCNationOf == [c \in Citizens |-> 1]

First == CHOOSE c \in Citizens : TRUE

Second == CHOOSE c \in Citizens \ {First} : TRUE

Guest == CHOOSE g \in Guests : TRUE

\* Two heirs whose shares are rounded, one heir, and percents that do not add up.
MCHeirLists ==
    {<<<<Second, 40>>, <<Guest, 60>>>>, <<<<Second, 100>>>>, <<<<Second, 60>>>>}

MCPartyLists == {<<First, Second>>, <<Second, Second>>, <<First>>}

MCTargets == {Government("Khural"), Guild(0), Entity(First)}

MCDebt == [a \in Accounts |-> IF a = First THEN 1 ELSE 0]

InitialFree ==
    [a \in Accounts |->
        CASE a \in Citizens \cup Guests -> CitizenHolds
          [] a = StateTreasury -> TreasuryHolds
          [] OTHER -> 0]

\* The citizens after registration and a repatriation of all but the first.
Settlers(people) ==
    LET number == CHOOSE f \in [people -> 1 .. Cardinality(people)] :
                     \A c, d \in people : f[c] = f[d] => c = d
    IN  [c \in people |->
            Identified(number[c], 1, "Regular", "Active",
                       IF c = First THEN "Foreigner" ELSE "Indigenous")]

\* The guilds after create_guild(Second): guild 0 is that of the notaries.
NotaryGuild ==
    [NoGuilds EXCEPT !.guilds = 0 :> [founder |-> Second, quest_count |-> 0, member_count |-> 1],
                     !.members = <<0, Second>> :> "Master"]

\* Settlers with these balances, before any of the calls.
Founded(balances) ==
    /\ free = balances
    /\ reserved = [a \in Accounts |-> 0]
    /\ frozen = [a \in Accounts |-> 0]
    /\ issuance = SumOver(balances, Accounts)
    /\ block = 0
    /\ citizens = Settlers(IF part \in {"families", "land"} THEN Citizens \cup Guests ELSE Citizens)
    /\ civil = NoCivilRecords
    /\ guilds = NotaryGuild
    /\ agreements = <<>>
    /\ wills = <<>>
    /\ constitution = NoConstitution
    /\ courts = NoCases
    /\ voice = NoVoices
    /\ land = NoParcels

\* Wills and quests of citizens who may die.
EstateStep ==
    \/ WillStep
    \/ QuestCall /\ UNCHANGED <<citizens, civil, agreements, wills>>

\* Agreements of citizens who may die.
ContractStep ==
    \/ AgreementStep /\ UNCHANGED <<ledger, citizens, civil, guilds, wills>>
    \/ \E c \in Citizens : DeathWithHook(c)

RootStep == \E c \in DOMAIN citizens : RegistryStep(c) /\ UNCHANGED <<ledger, noHook>>

\* Everything that touches what is held of somebody, one thing after another:
\* tickets, stings and quests, deaths and what they leave, and who is frozen.
HeldStep ==
    \/ VoiceStep /\ UNCHANGED courts
    \/ QuestCall /\ UNCHANGED <<citizens, civil, agreements, wills, courts, voice>>
    \/ RootStep /\ UNCHANGED <<courts, voice>>
    \/ \E c \in Citizens :
          \/ (DeathWithHook(c) \/ execute_will(c)) /\ UNCHANGED <<courts, voice>>
          \/ declare_usurper(c) /\ UNCHANGED voice

\* Nothing reads the constitution's hash: it is set in behaviours of their own.
AnchoredWithoutCases == constitution'.hash # NoConstitution.hash => courts' = NoCases

\* Somebody dies between a verdict of exile and its execution.
DeathOfTheSentenced ==
    \E i \in DOMAIN courts.cases :
        /\ CaseIs(i, "Guilty") /\ courts.cases[i].crime_category = "HateCrimeAndFascism"
        /\ DeathWithHook(courts.cases[i].defendant)

JusticeNext ==
    /\ \/ /\ part = "estates" /\ EstateStep
          /\ UNCHANGED <<block, constitution, courts, voice, land>>
       \/ /\ part = "contracts" /\ ContractStep
          /\ UNCHANGED <<block, constitution, courts, voice, land>>
       \/ /\ part = "courts"
          /\ \/ CourtStep /\ block' <= TrialBlocks /\ AnchoredWithoutCases
             \/ DeathOfTheSentenced /\ UNCHANGED <<block, constitution, courts>>
          /\ UNCHANGED <<voice, land>>
       \/ /\ part = "voices" /\ HeldStep
          /\ UNCHANGED <<block, constitution, land>>
       \/ /\ part = "families"
          /\ \/ CivilActStep /\ UNCHANGED <<guilds, agreements, wills>>
             \/ RootStep
             \/ \E c \in DOMAIN citizens : DeathWithHook(c)
          /\ UNCHANGED <<block, constitution, courts, voice, land>>
       \/ /\ part = "land"
          /\ \/ LandStep /\ UNCHANGED <<ledger, citizens, noHook>>
             \/ (RootStep \/ \E c \in DOMAIN citizens : DeathWithHook(c)) /\ UNCHANGED land
          /\ UNCHANGED <<block, constitution, courts, voice>>
    /\ acts' = IF part = "voices" THEN acts + 1 ELSE acts
    /\ part = "voices" => acts < MaxVoiceActs
    /\ UNCHANGED part

justiceVars == <<civicVars, constitution, courts, voice, land>>

JusticeParts == {"estates", "contracts", "courts", "voices", "families", "land"}

-----------------------------------------------------------------------------
(* Taxes, mixer, tokens, migration, DAOs and publications                  *)

\* The accounts that the pallets pay to and from.
DaoTreasuries == {DaoTreasury[o] : o \in DaoOrgs}

Tills == TaxTreasuries \cup Collectors \cup {PoolAccount, RewardTreasury} \cup DaoTreasuries

MCAccounts == People \cup Tills \cup JusticeAccounts

\* Days of the calendar, from the anchor: in the filing period, on its last
\* day, the day after, and in the next year.
MCTimeOf ==
    [b \in 0 .. MaxBlock |->
        ANCHOR_TIMESTAMP + SECONDS_PER_DAY * (CASE b = 0 -> 10
                                                [] b = 1 -> 105
                                                [] b = 2 -> 106
                                                [] b = 3 -> 200
                                                [] OTHER -> 400)]

MCValueOf == [c \in MixerCommitments |-> IF c = "big" THEN 2000 ELSE 1000]

MCDaoTreasury == [o \in DaoOrgs |-> "daoTreasury"]

\* What people and the tills that pay hold at first.
Capital ==
    CASE part = "profits" -> 30000
      [] part = "fees" -> 250000
      [] part = "mixer" -> 3050
      [] OTHER -> 20

Parts ==
    {"profits", "fees", "mixer", "rewards", "keys", "recovery", "migration", "daos", "forums",
     "chronicles"}

Rich == People \cup {RewardTreasury} \cup DaoTreasuries

\* The tills are accounts without keys, derived from the identifiers of pallets
\* or named by the genesis, and none of those that make the calls.
ASSUME TillsAssumption ==
    /\ DaoTreasuries \cap (Payers \cup Declarers \cup Depositors \cup Authors
                             \cup {PoolAccount, RewardTreasury}) = {}
    /\ Collectors \cap Payers = {}
    /\ TaxTreasuries \cap (Declarers \cup Rich) = {}
    /\ PoolAccount \notin Depositors \cup Rich
                    \cup {InomadAgAccount, CreatorAccount, ValidatorsPoolAccount, FoundationAccount}

\* The wills of the instance name citizens and guests, and whoever may die or
\* inherit holds the existential deposit at first: the genesis gives a citizen
\* 100 ALTAN, of which it is a hundred-thousandth (genesis_config_presets.rs:89).
\* The treasuries are accounts without a key.
ASSUME EstatesAssumption ==
    /\ Guests \subseteq Accounts
    /\ HeirLists \subseteq Seq((Citizens \cup Guests) \X Nat)
    /\ {CitizenHolds, TreasuryHolds} \subseteq Nat
    /\ ExistentialDeposit <= CitizenHolds
    /\ {StateTreasury, RewardTreasury} \cap (Citizens \cup Guests) = {}

Wealth == [a \in Accounts |-> IF a \in Rich THEN Capital ELSE ExistentialDeposit]

MCInit ==
    /\ part \in JusticeParts \cup Parts
    /\ acts = 0
    /\ Founded(IF part \in JusticeParts THEN InitialFree ELSE Wealth)
    /\ \E t \in TaxTreasuries : profitTax = NoDeclarations(t, t)
    /\ mixer = EmptyMixer
    /\ rewards = NoTokens
    /\ keys = NoKeys
    /\ recovery = NoRecoveries
    /\ migration = NoAnchors
    /\ dao = NoDaos
    /\ forums = NoMessages
    /\ chronicles = NoDocuments

MoneyStep ==
    /\ \/ part = "profits" /\ ProfitTaxStep /\ UNCHANGED <<mixer, rewards, dao, chronicles>>
       \/ part = "fees" /\ FeeStep /\ UNCHANGED <<block, profitTax, mixer, rewards, dao, chronicles>>
       \/ part = "mixer" /\ MixerStep /\ UNCHANGED <<profitTax, rewards, dao, chronicles>>
       \/ part = "rewards" /\ RewardStep /\ UNCHANGED <<block, profitTax, mixer, dao, chronicles>>
       \/ part = "daos" /\ DaoStep /\ UNCHANGED <<block, profitTax, mixer, rewards, chronicles>>
       \/ part = "chronicles" /\ ChronicleStep /\ UNCHANGED <<block, profitTax, mixer, rewards, dao>>
    /\ UNCHANGED <<citizens, keys, recovery, migration, forums>>

RecordStep ==
    /\ \/ part = "keys" /\ KeyStep /\ UNCHANGED <<block, citizens, recovery, migration, forums>>
       \/ part = "recovery" /\ RecoveryStep /\ UNCHANGED <<citizens, keys, migration, forums>>
       \/ part = "migration" /\ MigrationStep /\ UNCHANGED <<citizens, keys, recovery, forums>>
       \/ part = "forums" /\ ForumStep /\ UNCHANGED <<block, keys, recovery, migration>>
    /\ UNCHANGED <<ledger, profitTax, mixer, rewards, dao, chronicles>>

RegisterStep ==
    /\ part = "forums" /\ \E c \in Citizens : RegistryStep(c)
    /\ UNCHANGED <<ledger, block, profitTax, mixer, rewards, dao, chronicles, keys, recovery,
                   migration, forums>>

registryVars ==
    <<profitTax, mixer, rewards, keys, recovery, migration, dao, forums, chronicles>>

Tick ==
    /\ part \in {"profits", "recovery", "migration"} /\ NextBlock
    /\ UNCHANGED <<ledger, citizens, registryVars, acts>>

RegistriesNext ==
    /\ \/ (MoneyStep \/ RecordStep \/ RegisterStep) /\ acts < MaxActs /\ acts' = acts + 1
       \/ Tick
    /\ UNCHANGED <<noHook, constitution, courts, voice, land, part>>

MCNext ==
    \/ JusticeNext /\ UNCHANGED registryVars
    \/ RegistriesNext

MCvars == <<ledger, block, justiceVars, registryVars, part, acts>>

MCSpec == MCInit /\ [][MCNext]_MCvars

\* Trials alone.
TrialSpec == MCInit /\ part = "courts" /\ [][MCNext]_MCvars

-----------------------------------------------------------------------------
(* Correctness                                                             *)

(***************************************************************************)
(* The registers of what citizens agreed, were sentenced to, reported and  *)
(* own say what was done: no agreement is in force without all its         *)
(* signatures, no sentence is executed by halves, no deposit is returned   *)
(* twice, no parcel has two owners or a foreign one, and marriages and     *)
(* nicknames are their own inverses.                                       *)
(***************************************************************************)
RegistersAgree ==
    /\ ForceNeedsConsent
    /\ ShameIsExecuted
    /\ HeldIsBooked
    /\ LandBookAgrees
    /\ CivilBooksAgree

(***************************************************************************)
(* The money that the tax, the mixer and the rewards account for is there. *)
(***************************************************************************)
MoneyIsAccounted ==
    /\ part = "profits" => TaxesAreRecorded(ExistentialDeposit * Cardinality(TaxTreasuries))
    /\ part = "mixer" => MixIsBacked(ExistentialDeposit)
    /\ part = "rewards" => RewardsAreFunded

(***************************************************************************)
(* Where nothing but transfers with a fee moves money, fees are whole; and *)
(* the treasury of a DAO spends what its council passed.                   *)
(***************************************************************************)
TillsAreKept == [][part = "fees" => FeeIsWhole]_free /\ TreasurySpendsPassed

(***************************************************************************)
(* The indices that portals, forums and readers ask agree with what they   *)
(* are indices of.                                                         *)
(***************************************************************************)
IndicesAgree == PortalsOpenByKeys /\ ThreadsAreWhole /\ AuthorsOwnTheirWorks

(***************************************************************************)
(* Nobody decides twice: guardians of an account, officers of the          *)
(* migration center and councils of a DAO.                                 *)
(***************************************************************************)
DecisionsAreSingle == RecoveryNeedsGuardians /\ ApplicationsHaveOneOwner /\ VotesAreBallots
=============================================================================
