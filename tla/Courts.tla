------------------------------- MODULE Courts -------------------------------
(***************************************************************************)
(* pallets/judicial-courts: anybody opens a case against a citizen, which  *)
(* freezes the citizen and starts the timer of Habeas Corpus; the judges   *)
(* give the verdict and anybody executes it.  ConstitutionBridgeImpl and   *)
(* JudicialHabeasBridge of the runtime connect it to the constitution.     *)
(***************************************************************************)
EXTENDS Terminal

(***************************************************************************)
(* pallets/constitution: the hash of the document, which is set once, and  *)
(* the timers of Habeas Corpus, which release whoever is held without a    *)
(* verdict.  The descriptions of cases are left out.                       *)
(***************************************************************************)

CONSTANT Hashes   \* hashes offered as the constitution's

VARIABLE constitution   \* the storage of the pallet

NoConstitution ==
    [hash   |-> {},      \* CoreRightsHash, empty or one hash
     timers |-> <<>>]    \* HabeasCorpusTimers: citizen -> max_lockup_block

set_constitution_hash(cid) ==
    /\ constitution.hash = {}
    /\ constitution' = [constitution EXCEPT !.hash = {cid}]

\* A timer the citizen already has is overwritten.
WithLockup(citizen, max_lockup_block) == Put(constitution.timers, citizen, max_lockup_block)

WithoutLockup(citizen) == Without(constitution.timers, citizen)

DropTimers(S) ==
    constitution' = [constitution EXCEPT
        !.timers = [c \in DOMAIN constitution.timers \ S |-> constitution.timers[c]]]

-----------------------------------------------------------------------------
(* The courts                                                              *)

CONSTANTS
    Penalties,
    HabeasCorpusDeadline,   \* HABEAS_CORPUS_DEADLINE_BLOCKS
    MaxCases                \* bound on the number of cases

ASSUME CourtsAssumption ==
    /\ Penalties \subseteq Nat
    /\ HabeasCorpusDeadline \in Nat \ {0}
    /\ MaxCases \in Nat

VARIABLE courts   \* the storage of the pallet

CaseStatus == {"Open", "Deliberating", "Guilty", "Acquitted", "Executed"}

CrimeCategory == {"Economic", "Usurpation", "HateCrimeAndFascism"}

NoCases ==
    [cases      |-> <<>>,    \* CourtCases
     martialLaw |-> FALSE,   \* MartialLawActive
     shame      |-> <<>>]    \* RegistryOfShame: citizen -> case_id

\* The plaintiff, which nothing reads, is left out.
CourtCase(defendant, whistleblower) ==
    [defendant |-> defendant, whistleblower |-> whistleblower,
     penalty_amount |-> 0, status |-> "Open", crime_category |-> "Economic"]

defendant_has_verdict(who) ==
    \E i \in DOMAIN courts.cases :
        courts.cases[i].defendant = who /\ courts.cases[i].status # "Open"

\* Mutant: a citizen is released one block late.
ReleasedLate ==
    {c \in DOMAIN constitution.timers : block' > constitution.timers[c] /\ ~defendant_has_verdict(c)}

\* The citizens that on_initialize of the new block releases.
Expired ==
    {c \in DOMAIN constitution.timers : block' >= constitution.timers[c] /\ ~defendant_has_verdict(c)}

is_in_registry_of_shame(who) == who \in DOMAIN courts.shame

CaseIs(id, status) == id \in DOMAIN courts.cases /\ courts.cases[id].status = status

noHook == <<civil, guilds, agreements, wills>>

-----------------------------------------------------------------------------
\* The whistleblower is a set of one account or of none.
open_case(defendant, whistleblower) ==
    LET id == FreshId(courts.cases)
    IN  /\ id < MaxCases
        /\ IsRegistered(defendant)
        /\ citizens' = do_freeze_citizen(defendant)
        /\ constitution' = [constitution EXCEPT
              !.timers = WithLockup(defendant, block + HabeasCorpusDeadline)]
        /\ courts' = [courts EXCEPT
              !.cases = Put(@, id, CourtCase(defendant, whistleblower))]
        /\ UNCHANGED <<ledger, block, noHook>>

\* Mutant: the verdict does not end the defendant's timer.
TimerStays(who) == constitution.timers

TimerResolved(who) == WithoutLockup(who)

\* That there is no timer any more is no error; that the acquitted citizen
\* cannot be unfrozen is none either.
issue_verdict(id, is_guilty, penalty, category) ==
    /\ CaseIs(id, "Open")
    /\ LET who == courts.cases[id].defendant
       IN  /\ constitution' = [constitution EXCEPT !.timers = TimerResolved(who)]
           /\ courts' = [courts EXCEPT !.cases[id] =
                 [@ EXCEPT !.penalty_amount = penalty, !.crime_category = category,
                           !.status = IF is_guilty THEN "Guilty" ELSE "Acquitted"]]
           /\ citizens' = IF ~is_guilty /\ CanUnfreeze(who)
                          THEN do_unfreeze_citizen(who) ELSE citizens
    /\ UNCHANGED <<ledger, block, noHook>>

\* Perbill::from_percent(20) of an amount: to the nearest, halves down.
RewardOf(amount, whistleblower) == IF whistleblower = {} THEN 0 ELSE (amount * 20 + 49) \div 100

\* The balances after the penalty and the whistleblower's reward; keepAlive
\* says how the defendant pays.
CanCollect(e, who, whistleblower, penalty, keepAlive) ==
    /\ penalty > 0 => CanTransfer(who, StateTreasury, penalty, keepAlive)
    /\ \A w \in whistleblower :
          CanPay(Given(e, who, StateTreasury, penalty).free, StateTreasury, w,
                 RewardOf(penalty, whistleblower))

Collected(e, who, whistleblower, penalty) ==
    LET paid == Given(e, who, StateTreasury, penalty)
    IN  IF whistleblower = {} THEN paid
        ELSE [paid EXCEPT !.free = PaidFrom(@, StateTreasury, CHOOSE w \in whistleblower : TRUE,
                                            RewardOf(penalty, whistleblower))]

Executed(id) == [courts EXCEPT !.cases[id].status = "Executed"]

\* Mutant: a second entry replaces the first.
Overwrites(who) == TRUE

NotShamedYet(who) == ~is_in_registry_of_shame(who)

\* Everything goes to the treasury, then exile, which a terminal status refuses.
execute_hate_crime_verdict(id) ==
    LET case == courts.cases[id]
        who == case.defendant
        e == Collected(CurrentBalances, who, case.whistleblower, free[who])
    IN  /\ CaseIs(id, "Guilty")
        /\ case.crime_category = "HateCrimeAndFascism"
        /\ CanCollect(CurrentBalances, who, case.whistleblower, free[who], FALSE)
        /\ NotShamedYet(who)
        /\ IF CanExile(who)
           THEN ExileWithHook(e, who)
           ELSE HasBalances(e) /\ UNCHANGED <<citizens, guilds, agreements>>
        /\ courts' = [Executed(id) EXCEPT !.shame = Put(@, who, id)]
        /\ UNCHANGED <<block, civil, wills, constitution>>

\* An official, who has a branch, may be left with nothing.
execute_penalty_verdict(id) ==
    LET case == courts.cases[id]
        who == case.defendant
    IN  /\ CaseIs(id, "Guilty")
        /\ case.crime_category # "HateCrimeAndFascism"
        /\ CanCollect(CurrentBalances, who, case.whistleblower, case.penalty_amount,
                      citizens[who].branch = "None")
        /\ HasBalances(Collected(CurrentBalances, who, case.whistleblower, case.penalty_amount))
        /\ citizens' = IF CanUnfreeze(who) THEN do_unfreeze_citizen(who) ELSE citizens
        /\ courts' = Executed(id)
        /\ UNCHANGED <<block, noHook, constitution>>

\* Errors of the confiscation and of the two changes are passed over.
declare_usurper(target) ==
    /\ courts' = [courts EXCEPT !.martialLaw = TRUE]
    /\ HasBalances(Given(CurrentBalances, target, StateTreasury, free[target]))
    /\ citizens' = IF IsRegistered(target)
                   THEN [citizens EXCEPT ![target] = [@ EXCEPT !.status = "Frozen", !.role = "Regular"]]
                   ELSE citizens
    /\ UNCHANGED <<block, noHook, constitution>>

\* on_initialize of the constitution, through JudicialHabeasBridge.
on_initialize_constitution ==
    /\ NextBlock
    /\ LET released == Expired
       IN  /\ DropTimers(released)
           /\ citizens' = [c \in DOMAIN citizens |->
                 IF c \in released /\ CanUnfreeze(c)
                 THEN [citizens[c] EXCEPT !.status = "Active"] ELSE citizens[c]]
    /\ UNCHANGED <<ledger, noHook, courts>>

CourtStep ==
    \/ \E d \in Citizens, W \in SUBSET Citizens : Cardinality(W) <= 1 /\ open_case(d, W)
    \/ \E i \in DOMAIN courts.cases :
          \/ \E guilty \in BOOLEAN, p \in Penalties, k \in CrimeCategory : issue_verdict(i, guilty, p, k)
          \/ execute_hate_crime_verdict(i)
          \/ execute_penalty_verdict(i)
    \/ \E c \in Citizens : declare_usurper(c)
    \/ \E cid \in Hashes :
          set_constitution_hash(cid) /\ UNCHANGED <<ledger, block, citizens, noHook, courts>>
    \/ on_initialize_constitution

\* The courts among everything else that happens to citizens and balances.
CourtsInit == courts = NoCases /\ constitution = NoConstitution /\ block = 0

CourtsSpec == CourtsInit /\ [][CourtStep]_<<courts, constitution, block>>

-----------------------------------------------------------------------------
(* Correctness                                                             *)

(***************************************************************************)
(* A running timer always is that of an open case, whatever cases against  *)
(* the same citizen are opened and decided in between; and a citizen with  *)
(* no decided case is never held a block longer than the timer says.       *)
(***************************************************************************)
UndecidedAreReleased ==
    \A c \in DOMAIN constitution.timers :
        /\ \E i \in DOMAIN courts.cases :
              courts.cases[i].defendant = c /\ courts.cases[i].status = "Open"
        /\ ~defendant_has_verdict(c) => block < constitution.timers[c]

(***************************************************************************)
(* Whoever is in the registry of shame is there for one executed verdict   *)
(* of that crime, and every such verdict that was executed has its entry:  *)
(* no second execution and none that stops halfway.                        *)
(***************************************************************************)
ShameIsExecuted ==
    \A i \in DOMAIN courts.cases :
        (/\ courts.cases[i].status = "Executed"
         /\ courts.cases[i].crime_category = "HateCrimeAndFascism")
        <=> (\E c \in DOMAIN courts.shame :
                courts.shame[c] = i /\ courts.cases[i].defendant = c)

(***************************************************************************)
(* "No citizen may be held in a frozen state beyond this deadline without  *)
(* a binding court verdict": when the timer of a case has run out, its     *)
(* defendant is not frozen while the case is open.                         *)
(***************************************************************************)
HabeasCorpusHolds ==
    \A c \in DOMAIN constitution.timers :
        block >= constitution.timers[c] => citizens[c].status # "Frozen"
=============================================================================
