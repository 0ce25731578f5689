------------------------------ MODULE Identity ------------------------------
(***************************************************************************)
(* pallets/inomad-identity: registration, verification, births, deaths,    *)
(* guardians, citizenship, marriages and nicknames.  CitizenRegistry has   *)
(* the calls on role and status, FractalUnits the units of the people.     *)
(* Regions, passports, second parents and other data that nothing reads    *)
(* are left out;                                                           *)
(* is_indigenous says no more than citizenship_status does.                *)
(***************************************************************************)
EXTENDS AltanBalances, StorageMaps, Clock, CitizenRegistry

CONSTANTS
    Papers,                     \* the hashes of a passport and an email, shown together
    BirthHashes,
    Nicknames,                  \* the names that are long enough and well formed
    MarriageFee, CivilFeeTreasury,
    MaxRegistrationsPerBlock    \* calls of the MedicalAuthority in one block

ASSUME IdentityAssumption ==
    /\ Citizens \subseteq Accounts
    /\ CivilFeeTreasury \in Accounts
    /\ {MarriageFee, MaxRegistrationsPerBlock} \subseteq Nat

VARIABLE civil   \* the storage of the pallet beside the citizens and the units

BranchOfPower == {"Executive", "Judicial", "Legislative", "Banking"}

CitizenshipStatus == {"Indigenous", "Naturalized", "Foreigner"}

\* vesting_level, with 0 for None.
VestingLevel == [None |-> 0, Verified |-> 1, ArbadMember |-> 2, ZunMember |-> 3]

Identified(id, nation_id, role, status, citizenship) ==
    [citizen_id |-> id, nation_id |-> nation_id, role |-> role, status |-> status,
     verification |-> "Unverified", vesting_level |-> VestingLevel.None, branch |-> "None",
     khural_terms_served |-> 0, citizenship_status |-> citizenship]

NoCivilRecords ==
    [nextCitizenId |-> 0,
     hashes        |-> {},     \* UsedDocumentHashes and UsedEmailHashes
     births        |-> {},     \* UsedBirthHashes
     parents       |-> <<>>,   \* ParentalLinks
     deaths        |-> {},     \* DeathRecords
     guardian      |-> <<>>,   \* GuardianOf
     oracle        |-> [block |-> 0, calls |-> 0],   \* OracleCallsThisBlock
     spouse        |-> <<>>,   \* Marriages
     nicknameOf    |-> <<>>,   \* NicknameOf
     holderOf      |-> <<>>]   \* AccountByNickname

IsRegistered(who) == who \in DOMAIN citizens

IsActiveCitizen(who) == IsRegistered(who) /\ IsActive(who)

-----------------------------------------------------------------------------
\* Mutant: one hash that is new is enough.
OneIsNew(papers) == ~ papers \subseteq civil.hashes

AllAreNew(papers) == papers \cap civil.hashes = {}

register_citizen(target, role, papers, indigenous) ==
    LET id == civil.nextCitizenId + 1
    IN  /\ ~IsRegistered(target)
        /\ AllAreNew(papers)
        /\ civil' = [civil EXCEPT !.nextCitizenId = id, !.hashes = @ \cup papers]
        /\ citizens' = Put(citizens, target,
              Identified(id, NationOf[target], role, "Active",
                         IF indigenous THEN "Indigenous" ELSE "Foreigner"))
        /\ UNCHANGED ledger

\* The record of a citizen that the state or a fellow citizen has verified.
Verified(rec) == [rec EXCEPT !.verification = "Verified", !.vesting_level = VestingLevel.Verified]

verify_citizen(verifier, who) ==
    /\ IsActiveCitizen(verifier)
    /\ citizens[verifier].verification = "Verified"
    /\ IsActiveCitizen(who)
    /\ citizens[who].verification = "Unverified"
    /\ citizens' = [citizens EXCEPT ![who] = Verified(@)]
    /\ UNCHANGED <<ledger, civil>>

bootstrap_verify_creator(creator) ==
    /\ IsRegistered(creator)
    /\ citizens[creator].verification = "Unverified"
    /\ citizens' = [citizens EXCEPT ![creator] = Verified(@)]
    /\ UNCHANGED <<ledger, civil>>

check_and_increment_oracle_rate ==
    IF civil.oracle.block = block
    THEN [block |-> block, calls |-> civil.oracle.calls + 1]
    ELSE [block |-> block, calls |-> 1]

WithinOracleRate == civil.oracle.block = block => civil.oracle.calls < MaxRegistrationsPerBlock

\* By the MedicalAuthority, or by Root, which no rate holds back.  The child
\* gets the counter, which is the last identifier that registration gave out.
register_birth(child, parent_1, hash, byAuthority) ==
    /\ byAuthority => WithinOracleRate
    /\ hash \notin civil.births
    /\ ~IsRegistered(child)
    /\ IsRegistered(parent_1)
    /\ citizens[parent_1].status # "Deceased"
    /\ citizens' = Put(citizens, child,
          Identified(civil.nextCitizenId, citizens[parent_1].nation_id, "Regular", "Minor", "Foreigner"))
    /\ civil' = [civil EXCEPT
          !.nextCitizenId = @ + 1,
          !.births = @ \cup {hash},
          !.parents = Put(@, child, parent_1),
          !.oracle = IF byAuthority THEN check_and_increment_oracle_rate ELSE @]
    /\ UNCHANGED ledger

\* The reserve of the whole free balance is refused, since an account with a
\* reserve keeps the existential deposit, and the pallet ignores the error.
\* What the hook of the runtime does to the ledger is left to Terminal.
register_death(target) ==
    /\ IsRegistered(target)
    /\ citizens[target].status # "Deceased"
    /\ citizens' = [citizens EXCEPT ![target] =
                       [@ EXCEPT !.status = "Deceased", !.role = "Regular", !.branch = "None"]]
    /\ civil' = [civil EXCEPT !.deaths = @ \cup {target}]

assign_guardian(minor_target, new_guardian) ==
    /\ IsRegistered(minor_target)
    /\ citizens[minor_target].status = "Minor"
    /\ IsActiveCitizen(new_guardian)
    /\ civil' = [civil EXCEPT !.guardian = Put(@, minor_target, new_guardian)]
    /\ UNCHANGED <<ledger, citizens>>

\* ConstitutionHashProvider returns None in the runtime, so no hash is compared.
claim_repatriation(who) ==
    /\ IsActiveCitizen(who)
    /\ citizens' = [citizens EXCEPT ![who].citizenship_status = "Indigenous"]
    /\ UNCHANGED <<ledger, civil>>

claim_birthright(who) ==
    /\ IsActiveCitizen(who)
    /\ citizens[who].citizenship_status = "Foreigner"
    /\ citizens' = [citizens EXCEPT ![who].citizenship_status = "Naturalized"]
    /\ UNCHANGED <<ledger, civil>>

IsSingle(who) == who \notin DOMAIN civil.spouse

\* Mutant: the partner's own marriage is not looked at.
CallerIsSingle(a, b) == IsSingle(a)

BothAreSingle(a, b) == IsSingle(a) /\ IsSingle(b)

register_marriage(a, b) ==
    LET paid == PaidFrom(free, a, CivilFeeTreasury, MarriageFee)
    IN  /\ a # b
        /\ IsActiveCitizen(a) /\ IsActiveCitizen(b)
        /\ BothAreSingle(a, b)
        /\ CanPay(free, a, CivilFeeTreasury, MarriageFee)
        /\ CanPay(paid, b, CivilFeeTreasury, MarriageFee)
        /\ free' = PaidFrom(paid, b, CivilFeeTreasury, MarriageFee)
        /\ civil' = [civil EXCEPT !.spouse = Put(Put(@, a, b), b, a)]
        /\ UNCHANGED <<reserved, frozen, issuance, citizens>>

\* Mutant: only the caller's entry is removed.
CallerLeaves(spouses, who) == Without(spouses, who)

Divorced(spouses, who) == Without(Without(spouses, spouses[who]), who)

register_divorce(who) ==
    /\ ~IsSingle(who)
    /\ IsRegistered(who)
    /\ civil' = [civil EXCEPT !.spouse = Divorced(@, who)]
    /\ UNCHANGED <<ledger, citizens>>

register_nickname(who, name) ==
    /\ IsActiveCitizen(who)
    /\ who \notin DOMAIN civil.nicknameOf
    /\ name \notin DOMAIN civil.holderOf
    /\ civil' = [civil EXCEPT !.nicknameOf = Put(@, who, name), !.holderOf = Put(@, name, who)]
    /\ UNCHANGED <<ledger, citizens>>

clear_nickname(who) ==
    /\ who \in DOMAIN civil.nicknameOf
    /\ civil' = [civil EXCEPT !.nicknameOf = Without(@, who),
                              !.holderOf = Without(@, civil.nicknameOf[who])]
    /\ UNCHANGED <<ledger, citizens>>

-----------------------------------------------------------------------------
(* What the other pallets ask of this one through the runtime's bridges    *)

\* Whatever the status was.
do_freeze_citizen(who) == [citizens EXCEPT ![who].status = "Frozen"]

CanUnfreeze(who) == IsRegistered(who) /\ citizens[who].status # "Deceased"

do_unfreeze_citizen(who) == [citizens EXCEPT ![who].status = "Active"]

do_demote_to_regular(who) == [citizens EXCEPT ![who].role = "Regular"]

Exile(who) == [citizens EXCEPT ![who] = [@ EXCEPT !.status = "Exiled", !.role = "Regular"]]

RegistrationStep ==
    \/ \E c \in Citizens, r \in Roles, p \in Papers, indigenous \in BOOLEAN :
          register_citizen(c, r, p, indigenous)
    \/ \E c, p \in Citizens, h \in BirthHashes, byAuthority \in BOOLEAN :
          register_birth(c, p, h, byAuthority)
    \/ \E c, v \in Citizens : verify_citizen(v, c) \/ assign_guardian(c, v)
    \/ \E c \in Citizens :
          \/ bootstrap_verify_creator(c)
          \/ claim_repatriation(c)
          \/ claim_birthright(c)

CivilActStep ==
    \/ \E a, b \in DOMAIN citizens : register_marriage(a, b)
    \/ \E c \in DOMAIN citizens : register_divorce(c) \/ clear_nickname(c)
    \/ \E c \in DOMAIN citizens, name \in Nicknames : register_nickname(c, name)

-----------------------------------------------------------------------------
(* Correctness                                                             *)

(***************************************************************************)
(* "Both entries must be present for a valid marriage": the registers of   *)
(* marriages and of nicknames are their own inverses whatever the order of *)
(* marriages, divorces and deaths, and nobody is married twice.            *)
(***************************************************************************)
CivilBooksAgree ==
    /\ \A a \in DOMAIN civil.spouse :
          LET b == civil.spouse[a]
          IN  b # a /\ b \in DOMAIN civil.spouse /\ civil.spouse[b] = a
    /\ \A a \in DOMAIN civil.nicknameOf :
          LET name == civil.nicknameOf[a]
          IN  name \in DOMAIN civil.holderOf /\ civil.holderOf[name] = a
    /\ \A name \in DOMAIN civil.holderOf :
          LET a == civil.holderOf[name]
          IN  a \in DOMAIN civil.nicknameOf /\ civil.nicknameOf[a] = name

(***************************************************************************)
(* One person has one record: every record rests on a passport and an      *)
(* email, or on a birth, that no other record was made from.               *)
(***************************************************************************)
RecordsRestOnPapers ==
    /\ DOMAIN civil.parents \subseteq DOMAIN citizens
    /\ Cardinality(civil.births) = Cardinality(DOMAIN civil.parents)
    /\ Cardinality(civil.hashes) = 2 * Cardinality(DOMAIN citizens \ DOMAIN civil.parents)
=============================================================================
