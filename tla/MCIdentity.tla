----------------------------- MODULE MCIdentity -----------------------------
(***************************************************************************)
(* Instances of the role keys, the elections, the register of citizens and *)
(* the units of the people, for TLC.  OrgRoles and Elections, and the      *)
(* ballots of different offices within Elections, share no storage but the *)
(* ranks of the leaders, so a behaviour exercises one part: the states of  *)
(* the parts add up instead of multiplying.                                *)
(*                                                                         *)
(* A behaviour about the register starts where part says: before the first *)
(* registration, with citizens and no units, with the Arbads formed, or    *)
(* with Tumeds of two branches.                                            *)
(***************************************************************************)
EXTENDS OrgRoles, Elections, FractalUnits

CONSTANTS
    CouncilBranch,   \* the branch whose council is elected
    Children,        \* accounts that are registered later, or at birth
    Strangers,       \* citizens of another nation than the others
    MaxActs          \* bound on the calls of a behaviour about the register

VARIABLES
    part,            \* what this behaviour is about
    acts

MCAccounts == Citizens \cup {CivilFeeTreasury}

MCNationOf == [c \in Citizens |-> IF c \in Strangers THEN 2 ELSE 1]

MCPapers == {{1, 2}, {1, 3}, {3, 4}}

Adults == Citizens \ Children

Locals == Adults \ Strangers

\* Two nations with a family each, and papers as the pallet asks for them: a
\* hash of a passport and one of an email.
ASSUME SettlersAssumption ==
    /\ IsFiniteSet(Citizens)
    /\ Children \subseteq Citizens /\ Strangers \subseteq Citizens \ Children
    /\ \E c, d \in Locals : c # d
    /\ \E c, d \in Strangers : c # d
    /\ \A c \in Adults : NationOf[c] = IF c \in Strangers THEN 2 ELSE 1
    /\ \A papers \in Papers : IsFiniteSet(papers) /\ Cardinality(papers) = 2

First == CHOOSE c \in Locals : TRUE

Second == CHOOSE c \in Locals \ {First} : TRUE

\* Registered, and not verified.
Newcomers == Locals \ {First, Second}

Stranger == CHOOSE c \in Strangers : TRUE

Kin == CHOOSE c \in Strangers \ {Stranger} : TRUE

Number ==
    CHOOSE f \in [Adults -> 1 .. Cardinality(Adults)] : \A c, d \in Adults : f[c] = f[d] => c = d

Adult(c) == Verified(Identified(Number[c], NationOf[c], "Regular", "Active", "Foreigner"))

\* Verified citizens, and two of them as the leaders of units.
Placed(c, first, second, branch1, branch2) ==
    CASE c = First -> [Adult(c) EXCEPT !.role = first, !.vesting_level = VestingLevel.ArbadMember,
                                       !.branch = branch1]
      [] c = Second -> [Adult(c) EXCEPT !.role = second, !.vesting_level = VestingLevel.ArbadMember,
                                        !.branch = branch2]
      [] OTHER -> IF c \in Newcomers
                  THEN [Adult(c) EXCEPT !.verification = "Unverified", !.vesting_level = VestingLevel.None]
                  ELSE Adult(c)

Ranked(first, second, branch1, branch2) ==
    [c \in Adults |-> Placed(c, first, second, branch1, branch2)]

Locally(leader, parts, branch) == Unit(leader, parts, 1, branch)

\* Two Arbads of one nation, whose leaders Root made regular in between, and
\* one of the other.
Hearths ==
    [i \in 0 .. 2 |->
        CASE i = 0 -> Locally(First, {Second}, "None")
          [] i = 1 -> Locally(Second, {First}, "None")
          [] OTHER -> Unit(Stranger, {Kin}, 2, "None")]

HearthOf ==
    [c \in {First, Second, Stranger} |-> CASE c = First -> 0 [] c = Second -> 1 [] OTHER -> 2]

Assembly == [NoUnits EXCEPT !.of["Arbad"] = Hearths, !.led["Arbad"] = HearthOf]

\* Two leaders with two units of a kind between them, or with four.
OfTwo == [c \in {First, Second} |-> IF c = First THEN 0 ELSE 1]

OfFour == [c \in {First, Second} |-> IF c = First THEN 1 ELSE 3]

Zuns == [i \in 0 .. 1 |-> Locally(IF i = 0 THEN First ELSE Second, {0, 1}, "None")]

Myangads ==
    [i \in 0 .. 3 |-> IF i <= 1 THEN Locally(First, {0, 1}, "Legislative")
                                ELSE Locally(Second, {0, 1}, "Executive")]

Tumeds ==
    [i \in 0 .. 1 |-> IF i = 0 THEN Locally(First, {0, 1}, "Legislative")
                               ELSE Locally(Second, {2, 3}, "Executive")]

\* One Tumed of the Legislative branch and one of the Executive.
Summit ==
    [of |-> [Assembly.of EXCEPT !["Zun"] = Zuns, !["Myangad"] = Myangads, !["Tumed"] = Tumeds],
     led |-> [Assembly.led EXCEPT !["Zun"] = OfTwo, !["Myangad"] = OfFour, !["Tumed"] = OfTwo],
     lastLeave |-> <<>>]

OfficeParts == {"organizations", "elections", "council", "khural"}

VacantOffices == Init /\ ElectInit

OfficesNext ==
    /\ \/ part = "organizations" /\ Next /\ UNCHANGED electVars
       \/ part = "elections" /\ (HierarchyStep \/ BallotStep) /\ UNCHANGED vars
       \/ part = "council" /\ (HierarchyStep \/ BranchStep(CouncilBranch)) /\ UNCHANGED vars
       \/ part = "khural" /\ (HierarchyStep \/ KhuralStep \/ reset_ballot("Legislative"))
                          /\ UNCHANGED vars
    /\ UNCHANGED part

officeVars == <<vars, electVars>>

UnitParts == {"hearths", "assembly", "summit"}

Settled ==
    /\ free = [a \in Accounts |-> ExistentialDeposit]
    /\ reserved = [a \in Accounts |-> 0]
    /\ frozen = [a \in Accounts |-> 0]
    /\ issuance = SumOver(free, Accounts)
    /\ block = 0
    /\ acts = 0
    /\ civil = [NoCivilRecords EXCEPT !.nextCitizenId = IF part = "registry" THEN 0
                                                        ELSE Cardinality(Adults)]
    /\ citizens = CASE part = "registry" -> <<>>
                    [] part \in OfficeParts \cup {"hearths"} -> Ranked("Regular", "Regular", "None", "None")
                    [] part = "assembly" -> Ranked("ArbadLeader", "ArbadLeader", "None", "None")
                    [] part = "summit" -> Ranked("TumedLeader", "TumedLeader", "Legislative", "Executive")
    /\ units = CASE part = "assembly" -> Assembly
                 [] part = "summit" -> Summit
                 [] OTHER -> NoUnits

RootStep == \E c \in DOMAIN citizens : RegistryStep(c) /\ UNCHANGED <<ledger, block, civil, units>>

\* Someone who joined an Arbad is verified by a fellow citizen.
LateVerification ==
    \E v, c \in Adults : verify_citizen(v, c) /\ UNCHANGED <<block, units>>

Tick == NextBlock /\ UNCHANGED <<ledger, civil, citizens, units>>

RegisterNext ==
    /\ \/ /\ acts < MaxActs
          /\ acts' = acts + 1
          /\ \/ part = "registry" /\ RegistrationStep /\ UNCHANGED <<block, units>>
             \/ part \in UnitParts /\ UnitStep /\ UNCHANGED block
             \/ part \in UnitParts /\ RootStep
             \/ part = "hearths" /\ LateVerification
       \/ part \notin OfficeParts /\ Tick /\ UNCHANGED acts
    /\ UNCHANGED <<officeVars, part>>

registerVars == <<ledger, block, civil, citizens, units, acts>>

MCInit ==
    /\ part \in OfficeParts \cup UnitParts \cup {"registry"}
    /\ VacantOffices
    /\ Settled

MCNext ==
    \/ RegisterNext
    \/ OfficesNext /\ UNCHANGED registerVars

MCvars == <<officeVars, registerVars, part>>

MCSpec == MCInit /\ [][MCNext]_MCvars

\* Only the Khural and its chairman.
KhuralSpec == MCInit /\ part = "khural" /\ [][MCNext]_MCvars

-----------------------------------------------------------------------------
(***************************************************************************)
(* Where the register starts empty, each record has papers of its own; and *)
(* every unit of a citizen, up to the Confederation, stands on units of    *)
(* its own nation and branch.                                              *)
(***************************************************************************)
RegisterIsRooted == (part = "registry" => RecordsRestOnPapers) /\ UnitsAreRooted
=============================================================================
