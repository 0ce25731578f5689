---------------------------- MODULE FractalUnits ----------------------------
(***************************************************************************)
(* The units of the people in pallets/inomad-identity: citizens form an    *)
(* Arbad, Arbads a Zun, Zuns a Myangad, Myangads a Tumed, Legislative      *)
(* Tumeds a Khural and Khurals a Confederation; their former leads them.   *)
(* The ends of mandates, which nothing reads, are left out.                *)
(***************************************************************************)
EXTENDS Identity

CONSTANTS
    OtherUnits,            \* units that join the former's own: 9 in the code
    MaxArbadMembers,       \* 9
    Branches,              \* the branches that Myangads are formed in
    ArbadCooldownPeriod,
    MaxUnits               \* bound on the units of one kind

ASSUME UnitsAssumption ==
    /\ {OtherUnits, MaxArbadMembers, ArbadCooldownPeriod, MaxUnits} \subseteq Nat
    /\ Branches \subseteq BranchOfPower

VARIABLE units   \* the storage of the units

UnitKind == {"Arbad", "Zun", "Myangad", "Tumed", "Khural", "Confederation"}

LeaderOf ==
    [Arbad |-> "ArbadLeader", Zun |-> "ZunLeader", Myangad |-> "MyangadLeader",
     Tumed |-> "TumedLeader", Khural |-> "KhuralDelegate", Confederation |-> "ConfederationDelegate"]

NoUnits ==
    [of        |-> [k \in UnitKind |-> <<>>],   \* Arbads, Zuns, ...: id -> record
     led       |-> [k \in UnitKind |-> <<>>],   \* ArbadByLeader, ...: account -> id
     lastLeave |-> <<>>]                        \* LastArbadLeave

\* ArbadRecord, ZunRecord, ...: parts are the members of an Arbad, and the
\* ids of the smaller units of the others.
Unit(leader, parts, nation_id, branch) ==
    [leader |-> leader, parts |-> parts, nation_id |-> nation_id, branch |-> branch]

Formed(kind, unit) ==
    LET id == FreshId(units.of[kind])
    IN  /\ id < MaxUnits
        /\ units' = [units EXCEPT !.of[kind] = Put(@, id, unit),
                                  !.led[kind] = Put(@, unit.leader, id)]
        /\ UNCHANGED <<ledger, civil>>

Raised(rec, level) == IF level > rec.vesting_level THEN [rec EXCEPT !.vesting_level = level] ELSE rec

HasRank(who, role) == IsActiveCitizen(who) /\ citizens[who].role = role

-----------------------------------------------------------------------------
OutOfCooldown(who) ==
    who \in DOMAIN units.lastLeave => block >= units.lastLeave[who] + ArbadCooldownPeriod

MayJoinArbad(who, nation_id) ==
    /\ HasRank(who, "Regular")
    /\ citizens[who].nation_id = nation_id
    /\ OutOfCooldown(who)

MayFoundArbad(who) == HasRank(who, "Regular") /\ citizens[who].verification = "Verified"

\* The records of an Arbad's leader and of its other members.
WithArbad(leader, members) ==
    [c \in DOMAIN citizens |->
        IF c = leader
        THEN Raised([citizens[c] EXCEPT !.role = "ArbadLeader"], VestingLevel.ArbadMember)
        ELSE IF c \in members THEN Raised(citizens[c], VestingLevel.ArbadMember) ELSE citizens[c]]

\* The cooldown is asked of the members and not of the caller.
form_arbad(caller, members) ==
    /\ MayFoundArbad(caller)
    /\ members # {} /\ caller \notin members
    /\ Cardinality(members) <= MaxArbadMembers
    /\ \A m \in members : MayJoinArbad(m, citizens[caller].nation_id)
    /\ citizens' = WithArbad(caller, members)
    /\ Formed("Arbad", Unit(caller, members, citizens[caller].nation_id, "None"))

\* No cooldown and no marriage is looked at: the credential is only recorded.
form_family_arbad(caller, spouse, head) ==
    LET other == IF head = caller THEN spouse ELSE caller
    IN  /\ caller # spouse
        /\ head \in {caller, spouse}
        /\ MayFoundArbad(caller)
        /\ HasRank(spouse, "Regular")
        /\ citizens[spouse].nation_id = citizens[caller].nation_id
        /\ citizens' = WithArbad(head, {other})
        /\ Formed("Arbad", Unit(head, {other}, citizens[caller].nation_id, "None"))

leave_arbad(caller, arbad_id) ==
    /\ IsActiveCitizen(caller)
    /\ arbad_id \in DOMAIN units.of["Arbad"]
    /\ caller \in units.of["Arbad"][arbad_id].parts
    /\ caller # units.of["Arbad"][arbad_id].leader
    /\ units' = [units EXCEPT !.of["Arbad"][arbad_id].parts = @ \ {caller},
                              !.lastLeave = Put(@, caller, block)]
    /\ UNCHANGED <<ledger, civil, citizens>>

\* Mutant: the nations of the smaller units are not compared.
AllExist(kind, ids, nation_id) == ids \subseteq DOMAIN units.of[kind]

OfNation(kind, ids, nation_id) ==
    /\ ids \subseteq DOMAIN units.of[kind]
    /\ \A i \in ids : units.of[kind][i].nation_id = nation_id

OwnUnit(caller, kind) == units.of[kind][units.led[kind][caller]]

\* What form_zun, form_myangad and form_tumed ask of the caller and of the others.
MayUnite(caller, kind, others) ==
    /\ HasRank(caller, LeaderOf[kind])
    /\ caller \in DOMAIN units.led[kind]
    /\ Cardinality(others) = OtherUnits
    /\ units.led[kind][caller] \notin others
    /\ OfNation(kind, others, OwnUnit(caller, kind).nation_id)

Together(caller, kind, others) == others \cup {units.led[kind][caller]}

form_zun(caller, others) ==
    /\ MayUnite(caller, "Arbad", others)
    /\ citizens' = [citizens EXCEPT
          ![caller] = Raised([@ EXCEPT !.role = "ZunLeader"], VestingLevel.ZunMember)]
    /\ Formed("Zun", Unit(caller, Together(caller, "Arbad", others),
                          OwnUnit(caller, "Arbad").nation_id, "None"))

form_myangad(caller, branch, others) ==
    /\ MayUnite(caller, "Zun", others)
    /\ citizens' = [citizens EXCEPT ![caller].role = "MyangadLeader", ![caller].branch = branch]
    /\ Formed("Myangad", Unit(caller, Together(caller, "Zun", others),
                              OwnUnit(caller, "Zun").nation_id, branch))

form_tumed(caller, others) ==
    LET branch == OwnUnit(caller, "Myangad").branch
    IN  /\ MayUnite(caller, "Myangad", others)
        /\ \A i \in others : units.of["Myangad"][i].branch = branch
        /\ citizens' = [citizens EXCEPT ![caller].role = "TumedLeader", ![caller].branch = branch]
        /\ Formed("Tumed", Unit(caller, Together(caller, "Myangad", others),
                                OwnUnit(caller, "Myangad").nation_id, branch))

\* Mutant: a third term is served.
ThirdTerm(who) == citizens[who].khural_terms_served < 3

WithinTermLimit(who) == citizens[who].khural_terms_served < 2

\* The caller's own Tumed, branch and nation are not compared with the list's.
form_khural(caller, tumeds) ==
    LET nation_id == units.of["Tumed"][CHOOSE i \in tumeds : TRUE].nation_id
    IN  /\ HasRank(caller, "TumedLeader")
        /\ tumeds # {}
        /\ \A i \in tumeds : units.of["Tumed"][i].branch = "Legislative"
        /\ OfNation("Tumed", tumeds, nation_id)
        /\ WithinTermLimit(caller)
        /\ citizens' = [citizens EXCEPT ![caller].role = "KhuralDelegate",
                                        ![caller].khural_terms_served = @ + 1]
        /\ Formed("Khural", Unit(caller, tumeds, nation_id, "Legislative"))

form_confederation(caller, khurals) ==
    /\ HasRank(caller, "KhuralDelegate")
    /\ khurals # {} /\ khurals \subseteq DOMAIN units.of["Khural"]
    /\ WithinTermLimit(caller)
    /\ citizens' = [citizens EXCEPT ![caller].role = "ConfederationDelegate",
                                    ![caller].khural_terms_served = @ + 1]
    /\ Formed("Confederation", Unit(caller, khurals, 0, "Legislative"))

SomeUnits(kind) == SUBSET DOMAIN units.of[kind]

UnitStep ==
    \E c \in Citizens :
        \/ \E S \in SUBSET Citizens : form_arbad(c, S)
        \/ \E s, h \in Citizens : form_family_arbad(c, s, h)
        \/ \E i \in DOMAIN units.of["Arbad"] : leave_arbad(c, i)
        \/ \E S \in SomeUnits("Arbad") : form_zun(c, S)
        \/ \E b \in Branches, S \in SomeUnits("Zun") : form_myangad(c, b, S)
        \/ \E S \in SomeUnits("Myangad") : form_tumed(c, S)
        \/ \E S \in SomeUnits("Tumed") : form_khural(c, S)
        \/ \E S \in SomeUnits("Khural") : form_confederation(c, S)

-----------------------------------------------------------------------------
(* Correctness                                                             *)

Below == [Zun |-> "Arbad", Myangad |-> "Zun", Tumed |-> "Myangad", Khural |-> "Tumed"]

(***************************************************************************)
(* A unit is of one nation down to its members, a Tumed of one branch and  *)
(* a Khural of Legislative Tumeds only, the "glass ceiling"; and the unit  *)
(* that the register of leaders gives for an account is one it leads,      *)
(* however often Root has changed the roles in between.                    *)
(***************************************************************************)
UnitsAreRooted ==
    /\ \A k \in UnitKind : \A who \in DOMAIN units.led[k] :
          /\ units.led[k][who] \in DOMAIN units.of[k]
          /\ units.of[k][units.led[k][who]].leader = who
    /\ \A i \in DOMAIN units.of["Arbad"] :
          LET u == units.of["Arbad"][i]
          IN  \A m \in u.parts \cup {u.leader} : citizens[m].nation_id = u.nation_id
    /\ \A k \in DOMAIN Below : \A i \in DOMAIN units.of[k] :
          LET u == units.of[k][i]
          IN  \A j \in u.parts :
                 /\ units.of[Below[k]][j].nation_id = u.nation_id
                 /\ k \in {"Tumed", "Khural"} => units.of[Below[k]][j].branch = u.branch

(***************************************************************************)
(* "Constitutional max = 2": whoever leads Khurals and Confederations has  *)
(* formed no more than two of them in a lifetime, and the counter that the *)
(* limit is read from counts them, through demotions and re-appointments.  *)
(***************************************************************************)
TermsAreCounted ==
    \A c \in DOMAIN citizens :
        LET Led(k) == {i \in DOMAIN units.of[k] : units.of[k][i].leader = c}
            terms == Cardinality(Led("Khural")) + Cardinality(Led("Confederation"))
        IN  citizens[c].khural_terms_served = terms /\ terms <= 2
=============================================================================
