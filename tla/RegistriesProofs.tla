--------------------------- MODULE RegistriesProofs ---------------------------
(***************************************************************************)
(* Proofs about what MCRegistries composes: the courts, for any number of  *)
(* citizens, cases and blocks and whatever the rest of the republic does   *)
(* to citizens and balances between two of their steps; the indices of     *)
(* keys, forums and chronicles; recoveries, migrations and DAOs, where     *)
(* nobody decides twice; the money of taxes, mixer and rewards; what       *)
(* citizens agreed, reported, hold and own; the end of a citizenship,      *)
(* which leaves nothing open; and the estates, which are shared whole.     *)
(***************************************************************************)
EXTENDS MCRegistries, LedgerSums, SequenceTheorems

courtVars == <<courts, constitution, block>>

CaseRecord ==
    [defendant : Citizens, whistleblower : SUBSET Citizens, penalty_amount : Nat,
     status : CaseStatus, crime_category : CrimeCategory]

CourtsTypeOK ==
    /\ block \in Nat
    /\ courts = [cases |-> courts.cases, martialLaw |-> courts.martialLaw, shame |-> courts.shame]
    /\ \E n \in Nat : courts.cases \in [0 .. n - 1 -> CaseRecord]
    /\ \E D \in SUBSET Citizens : courts.shame \in [D -> Nat]
    /\ constitution = [hash |-> constitution.hash, timers |-> constitution.timers]
    /\ \E D \in SUBSET Citizens : constitution.timers \in [D -> Nat]

\* What the registry of shame points at is a case.
ShameNamesCases == \A c \in DOMAIN courts.shame : courts.shame[c] \in DOMAIN courts.cases

IInv == CourtsTypeOK /\ UndecidedAreReleased /\ ShameNamesCases /\ ShameIsExecuted

\* A new case gets the identifier after those of all the cases there are.
LEMMA FreshCase ==
    ASSUME NEW n \in Nat, courts.cases \in [0 .. n - 1 -> CaseRecord], NEW v \in CaseRecord
    PROVE  /\ FreshId(courts.cases) = n /\ n \notin DOMAIN courts.cases
           /\ n + 1 \in Nat /\ Put(courts.cases, n, v) \in [0 .. (n + 1) - 1 -> CaseRecord]
<1>1. FreshId(courts.cases) = n
  <2>1. DOMAIN courts.cases = 0 .. n - 1 /\ 0 \in Int /\ n - 1 \in Int
    OBVIOUS
  <2>2. Cardinality(0 .. n - 1) = n
    BY <2>1, FS_Interval
  <2> QED BY <2>1, <2>2 DEF FreshId
<1>2. 0 .. (n + 1) - 1 = (0 .. n - 1) \cup {n} /\ n \notin 0 .. n - 1
  OBVIOUS
<1> QED BY <1>1, <1>2 DEF Put

\* Changing one case to a record of the type keeps the cases typed.
LEMMA CaseChanged ==
    ASSUME CourtsTypeOK, NEW id \in DOMAIN courts.cases, NEW r \in CaseRecord
    PROVE  \E n \in Nat : [courts.cases EXCEPT ![id] = r] \in [0 .. n - 1 -> CaseRecord]
BY DEF CourtsTypeOK

-----------------------------------------------------------------------------
\* Opening a case preserves the invariant: its timer ends after this block.
LEMMA OpenStep ==
    ASSUME IInv, NEW d \in Citizens, NEW W \in SUBSET Citizens, open_case(d, W)
    PROVE  IInv'
<1> DEFINE case == CourtCase(d, W)
           until == block + HabeasCorpusDeadline
<1>1. case \in CaseRecord /\ case.status = "Open" /\ case.defendant = d
  BY DEF CourtCase, CaseRecord, CaseStatus, CrimeCategory
<1>2. PICK n \in Nat : courts.cases \in [0 .. n - 1 -> CaseRecord]
  BY DEF IInv, CourtsTypeOK
<1>3. /\ FreshId(courts.cases) = n /\ n \notin DOMAIN courts.cases
      /\ n + 1 \in Nat /\ Put(courts.cases, n, case) \in [0 .. (n + 1) - 1 -> CaseRecord]
  <2> HIDE DEF case
  <2> QED BY <1>1, <1>2, FreshCase
<1>4. /\ courts' = [courts EXCEPT !.cases = Put(courts.cases, n, case)]
      /\ constitution' = [constitution EXCEPT !.timers = Put(constitution.timers, d, until)]
      /\ block' = block
  BY <1>3 DEF open_case, WithLockup
<1>5. /\ courts'.cases = Put(courts.cases, n, case) /\ courts'.shame = courts.shame
      /\ constitution'.timers = Put(constitution.timers, d, until)
      /\ until \in Nat /\ block < until
  BY <1>4, CourtsAssumption DEF IInv, CourtsTypeOK
<1>6. CourtsTypeOK'
  <2>1. \E D \in SUBSET Citizens : constitution'.timers \in [D -> Nat]
    <3>1. PICK D \in SUBSET Citizens : constitution.timers \in [D -> Nat]
      BY DEF IInv, CourtsTypeOK
    <3>2. /\ D \cup {d} \in SUBSET Citizens
          /\ constitution'.timers \in [D \cup {d} -> Nat]
      BY <1>5, <3>1 DEF Put
    <3> QED BY <3>2
  <2>2. \E m \in Nat : courts'.cases \in [0 .. m - 1 -> CaseRecord]
    BY <1>3, <1>5
  <2> QED BY <1>4, <1>5, <2>1, <2>2 DEF IInv, CourtsTypeOK
<1>7. /\ DOMAIN courts'.cases = DOMAIN courts.cases \cup {n}
      /\ courts'.cases[n] = case
      /\ \A i \in DOMAIN courts.cases : courts'.cases[i] = courts.cases[i]
  <2> HIDE DEF case
  <2> QED BY <1>3, <1>5 DEF Put
<1>8. UndecidedAreReleased'
  <2> SUFFICES ASSUME NEW c \in DOMAIN constitution'.timers
               PROVE  /\ \E i \in DOMAIN courts'.cases :
                            courts'.cases[i].defendant = c /\ courts'.cases[i].status = "Open"
                      /\ ~defendant_has_verdict(c)' => block' < constitution'.timers[c]
    BY DEF UndecidedAreReleased
  <2>1. CASE c = d
    <3> HIDE DEF case, until
    <3>1. constitution'.timers[d] = until
      BY <1>5 DEF Put
    <3> QED BY <2>1, <3>1, <1>1, <1>4, <1>5, <1>7
  <2>2. CASE c # d
    <3>1. /\ c \in DOMAIN constitution.timers
          /\ constitution'.timers[c] = constitution.timers[c]
      <4> HIDE DEF until
      <4> QED BY <2>2, <1>5 DEF Put
    <3>2. defendant_has_verdict(c)' <=> defendant_has_verdict(c)
      BY <2>2, <1>1, <1>7 DEF defendant_has_verdict
    <3> QED BY <3>1, <3>2, <1>4, <1>7 DEF IInv, UndecidedAreReleased
  <2> QED BY <2>1, <2>2
<1>9. ShameNamesCases'
  BY <1>5, <1>7 DEF IInv, ShameNamesCases
<1>10. ShameIsExecuted'
  BY <1>1, <1>3, <1>5, <1>7 DEF IInv, ShameIsExecuted, ShameNamesCases
<1> QED BY <1>6, <1>8, <1>9, <1>10 DEF IInv

\* A verdict preserves the invariant: it takes the timer of its defendant with it.
LEMMA VerdictStep ==
    ASSUME IInv, NEW id \in DOMAIN courts.cases, NEW guilty \in BOOLEAN, NEW p \in Penalties,
           NEW k \in CrimeCategory, issue_verdict(id, guilty, p, k)
    PROVE  IInv'
<1> DEFINE who == courts.cases[id].defendant
           decided == [courts.cases[id] EXCEPT
                          !.penalty_amount = p, !.crime_category = k,
                          !.status = IF guilty THEN "Guilty" ELSE "Acquitted"]
<1>1. courts.cases[id] \in CaseRecord /\ courts.cases[id].status = "Open"
  BY DEF IInv, CourtsTypeOK, issue_verdict, CaseIs
<1>2. /\ decided \in CaseRecord /\ decided.status \in {"Guilty", "Acquitted"}
      /\ decided.defendant = who
  BY <1>1, CourtsAssumption DEF CaseRecord, CaseStatus
<1>3. /\ courts' = [courts EXCEPT !.cases[id] = decided]
      /\ constitution' = [constitution EXCEPT !.timers = Without(constitution.timers, who)]
      /\ block' = block
  BY DEF issue_verdict, TimerResolved, WithoutLockup
<1>4. /\ courts'.cases = [courts.cases EXCEPT ![id] = decided]
      /\ courts'.shame = courts.shame
      /\ constitution'.timers = Without(constitution.timers, who)
  BY <1>3 DEF IInv, CourtsTypeOK
<1>5. CourtsTypeOK'
  <2>1. \E n \in Nat : courts'.cases \in [0 .. n - 1 -> CaseRecord]
    BY <1>2, <1>4, CaseChanged DEF IInv
  <2>2. \E D \in SUBSET Citizens : constitution'.timers \in [D -> Nat]
    <3>1. PICK D \in SUBSET Citizens : constitution.timers \in [D -> Nat]
      BY DEF IInv, CourtsTypeOK
    <3>2. D \ {who} \in SUBSET Citizens /\ constitution'.timers \in [D \ {who} -> Nat]
      BY <3>1, <1>4 DEF Without
    <3> QED BY <3>2
  <2> QED BY <1>3, <1>4, <2>1, <2>2 DEF IInv, CourtsTypeOK
<1>6. /\ DOMAIN courts'.cases = DOMAIN courts.cases
      /\ courts'.cases[id] = decided
      /\ \A i \in DOMAIN courts.cases : i # id => courts'.cases[i] = courts.cases[i]
  BY <1>4
<1>7. UndecidedAreReleased'
  <2> SUFFICES ASSUME NEW c \in DOMAIN constitution'.timers
               PROVE  /\ \E i \in DOMAIN courts'.cases :
                            courts'.cases[i].defendant = c /\ courts'.cases[i].status = "Open"
                      /\ ~defendant_has_verdict(c)' => block' < constitution'.timers[c]
    BY DEF UndecidedAreReleased
  <2>1. /\ c \in DOMAIN constitution.timers /\ c # who
        /\ constitution'.timers[c] = constitution.timers[c]
    BY <1>4 DEF Without
  <2>2. PICK i \in DOMAIN courts.cases :
            courts.cases[i].defendant = c /\ courts.cases[i].status = "Open"
    BY <2>1 DEF IInv, UndecidedAreReleased
  <2>3. courts'.cases[i] = courts.cases[i]
    BY <2>1, <2>2, <1>6
  <2>4. defendant_has_verdict(c)' <=> defendant_has_verdict(c)
    <3> HIDE DEF decided
    <3> QED BY <2>1, <1>2, <1>6 DEF defendant_has_verdict
  <2> QED BY <2>1, <2>2, <2>3, <2>4, <1>3, <1>6 DEF IInv, UndecidedAreReleased
<1>8. ShameNamesCases'
  BY <1>4, <1>6 DEF IInv, ShameNamesCases
<1>9. ShameIsExecuted'
  BY <1>1, <1>2, <1>4, <1>6 DEF IInv, ShameIsExecuted
<1> QED BY <1>5, <1>7, <1>8, <1>9 DEF IInv

\* The execution of a verdict, as the courts' storage shows it: a guilty case
\* becomes executed, and for the one crime its defendant enters the registry.
Executes(id) ==
    /\ CaseIs(id, "Guilty")
    /\ UNCHANGED <<constitution, block>>
    /\ \/ /\ courts.cases[id].crime_category = "HateCrimeAndFascism"
          /\ NotShamedYet(courts.cases[id].defendant)
          /\ courts' = [Executed(id) EXCEPT !.shame = Put(@, courts.cases[id].defendant, id)]
       \/ /\ courts.cases[id].crime_category # "HateCrimeAndFascism"
          /\ courts' = Executed(id)

\* Executing a verdict preserves the invariant: nobody is entered twice.
LEMMA ExecuteStep ==
    ASSUME IInv, NEW id \in DOMAIN courts.cases, Executes(id)
    PROVE  IInv'
<1> DEFINE who == courts.cases[id].defendant
           done == [courts.cases[id] EXCEPT !.status = "Executed"]
<1>1. courts.cases[id] \in CaseRecord /\ courts.cases[id].status = "Guilty"
  BY DEF IInv, CourtsTypeOK, Executes, CaseIs
<1>2. /\ done \in CaseRecord /\ done.status = "Executed"
      /\ done.defendant = who /\ done.crime_category = courts.cases[id].crime_category
      /\ who \in Citizens
  BY <1>1 DEF CaseRecord, CaseStatus
<1>3. courts'.cases = [courts.cases EXCEPT ![id] = done]
  BY DEF IInv, CourtsTypeOK, Executes, Executed
<1>4. /\ DOMAIN courts'.cases = DOMAIN courts.cases
      /\ courts'.cases[id] = done
      /\ \A i \in DOMAIN courts.cases : i # id => courts'.cases[i] = courts.cases[i]
  BY <1>3
<1>5. id \in Nat
  BY DEF IInv, CourtsTypeOK
<1>6. courts'.shame = courts.shame \/ courts'.shame = Put(courts.shame, who, id)
  BY DEF IInv, CourtsTypeOK, Executes, Executed
<1>7. CourtsTypeOK'
  <2>1. \E n \in Nat : courts'.cases \in [0 .. n - 1 -> CaseRecord]
    BY <1>2, <1>3, CaseChanged DEF IInv
  <2>2. \E D \in SUBSET Citizens : courts'.shame \in [D -> Nat]
    <3>1. PICK D \in SUBSET Citizens : courts.shame \in [D -> Nat]
      BY DEF IInv, CourtsTypeOK
    <3>2. CASE courts'.shame = courts.shame
      BY <3>1, <3>2
    <3>3. CASE courts'.shame = Put(courts.shame, who, id)
      <4>1. /\ D \cup {who} \in SUBSET Citizens
            /\ courts'.shame \in [D \cup {who} -> Nat]
        BY <1>2, <1>5, <3>1, <3>3 DEF Put
      <4> QED BY <4>1
    <3> QED BY <1>6, <3>2, <3>3
  <2> QED BY <2>1, <2>2 DEF IInv, CourtsTypeOK, Executes, Executed
<1>8. UndecidedAreReleased'
  <2>1. \A c : defendant_has_verdict(c)' <=> defendant_has_verdict(c)
    <3>1. \A i \in DOMAIN courts.cases :
             /\ courts'.cases[i].defendant = courts.cases[i].defendant
             /\ courts'.cases[i].status = "Open" <=> courts.cases[i].status = "Open"
      <4>1. done.defendant = courts.cases[id].defendant
        BY <1>2
      <4> HIDE DEF done, who
      <4> QED BY <1>1, <1>2, <1>4, <4>1
    <3> HIDE DEF done, who
    <3> QED BY <1>4, <3>1 DEF defendant_has_verdict
  <2>2. \A i \in DOMAIN courts.cases :
            courts.cases[i].status = "Open" => courts'.cases[i] = courts.cases[i]
    BY <1>1, <1>4
  <2> QED BY <2>1, <2>2, <1>4 DEF IInv, UndecidedAreReleased, Executes
<1>9. CASE courts.cases[id].crime_category = "HateCrimeAndFascism"
  <2>1. /\ courts'.shame = Put(courts.shame, who, id) /\ who \notin DOMAIN courts.shame
    BY <1>9 DEF IInv, CourtsTypeOK, Executes, Executed, NotShamedYet, is_in_registry_of_shame
  <2>2. /\ DOMAIN courts'.shame = DOMAIN courts.shame \cup {who}
        /\ courts'.shame[who] = id
        /\ \A c \in DOMAIN courts.shame : courts'.shame[c] = courts.shame[c]
    BY <2>1 DEF Put
  <2>3. ShameNamesCases'
    BY <2>2, <1>4 DEF IInv, ShameNamesCases
  <2>4. ShameIsExecuted'
    <3> HIDE DEF done
    <3>1. ASSUME NEW i \in DOMAIN courts.cases, i # id
          PROVE  (\E c \in DOMAIN courts'.shame : courts'.shame[c] = i /\ courts.cases[i].defendant = c)
                 <=> (\E c \in DOMAIN courts.shame : courts.shame[c] = i /\ courts.cases[i].defendant = c)
      BY <2>1, <2>2, <3>1
    <3> QED BY <2>2, <3>1, <1>2, <1>4, <1>9 DEF IInv, ShameIsExecuted
  <2> QED BY <1>7, <1>8, <2>3, <2>4 DEF IInv
<1>10. CASE courts.cases[id].crime_category # "HateCrimeAndFascism"
  <2>1. courts'.shame = courts.shame
    BY <1>10 DEF IInv, CourtsTypeOK, Executes, Executed
  <2>2. ShameNamesCases'
    BY <2>1, <1>4 DEF IInv, ShameNamesCases
  <2>3. ShameIsExecuted'
    <3> HIDE DEF done
    <3>1. courts.cases[id].status # "Executed"
      BY <1>1
    <3> QED BY <2>1, <3>1, <1>2, <1>4, <1>10 DEF IInv, ShameIsExecuted
  <2> QED BY <1>7, <1>8, <2>2, <2>3 DEF IInv
<1> QED BY <1>9, <1>10

\* A new block preserves the invariant: whose timer ends in it is released
\* unless he has a verdict.
LEMMA BlockStep ==
    ASSUME IInv, on_initialize_constitution
    PROVE  IInv'
<1> DEFINE T == constitution.timers
           released == {c \in DOMAIN T : block' >= T[c] /\ ~defendant_has_verdict(c)}
<1>1. /\ block' = block + 1 /\ courts' = courts
      /\ constitution' = [constitution EXCEPT !.timers = [c \in DOMAIN T \ released |-> T[c]]]
  BY DEF on_initialize_constitution, NextBlock, Expired, DropTimers
<1>2. constitution'.timers = [c \in DOMAIN T \ released |-> T[c]]
  BY <1>1 DEF IInv, CourtsTypeOK
<1>3. CourtsTypeOK'
  <2>1. PICK D \in SUBSET Citizens : T \in [D -> Nat]
    BY DEF IInv, CourtsTypeOK
  <2>2. D \ released \in SUBSET Citizens /\ constitution'.timers \in [D \ released -> Nat]
    <3> HIDE DEF released, T
    <3>1. DOMAIN T = D /\ \A c \in D : T[c] \in Nat
      BY <2>1
    <3>2. constitution'.timers = [c \in D \ released |-> T[c]]
      BY <3>1, <1>2 DEF T
    <3>3. constitution'.timers \in [D \ released -> Nat]
      BY <3>1, <3>2
    <3> QED BY <2>1, <3>3
  <2>3. \E E \in SUBSET Citizens : constitution'.timers \in [E -> Nat]
    BY <2>2
  <2>4. constitution' = [hash |-> constitution'.hash, timers |-> constitution'.timers]
    <3> HIDE DEF released, T
    <3> QED BY <1>1 DEF IInv, CourtsTypeOK
  <2>5. block' \in Nat
    BY <1>1 DEF IInv, CourtsTypeOK
  <2> QED BY <1>1, <2>3, <2>4, <2>5 DEF IInv, CourtsTypeOK
<1>4. UndecidedAreReleased'
  <2> SUFFICES ASSUME NEW c \in DOMAIN constitution'.timers
               PROVE  /\ \E i \in DOMAIN courts'.cases :
                            courts'.cases[i].defendant = c /\ courts'.cases[i].status = "Open"
                      /\ ~defendant_has_verdict(c)' => block' < constitution'.timers[c]
    BY DEF UndecidedAreReleased
  <2>1. c \in DOMAIN T /\ c \notin released /\ constitution'.timers[c] = T[c]
    BY <1>2
  <2>2. defendant_has_verdict(c)' <=> defendant_has_verdict(c)
    BY <1>1 DEF defendant_has_verdict
  <2>3. block' \in Nat /\ T[c] \in Nat
    BY <2>1, <1>3 DEF IInv, CourtsTypeOK
  <2>4. ~defendant_has_verdict(c) => block' < T[c]
    BY <2>1, <2>3
  <2> QED BY <2>1, <2>2, <2>4, <1>1 DEF IInv, UndecidedAreReleased
<1>5. ShameNamesCases' /\ ShameIsExecuted'
  BY <1>1 DEF IInv, ShameNamesCases, ShameIsExecuted
<1> QED BY <1>3, <1>4, <1>5 DEF IInv

\* A step of the courts that touches neither cases' verdicts nor timers.
LEMMA OtherStep ==
    ASSUME IInv, UNCHANGED block, courts'.cases = courts.cases, courts'.shame = courts.shame,
           constitution'.timers = constitution.timers, CourtsTypeOK'
    PROVE  IInv'
BY DEF IInv, UndecidedAreReleased, defendant_has_verdict, ShameNamesCases, ShameIsExecuted

-----------------------------------------------------------------------------
\* Every step of the specification preserves the invariant.
LEMMA CourtStepInv ==
    ASSUME IInv, [CourtStep]_courtVars
    PROVE  IInv'
<1>1. ASSUME NEW d \in Citizens, NEW W \in SUBSET Citizens, open_case(d, W)
      PROVE  IInv'
  BY <1>1, OpenStep
<1>2. ASSUME NEW i \in DOMAIN courts.cases, NEW guilty \in BOOLEAN, NEW p \in Penalties,
             NEW k \in CrimeCategory, issue_verdict(i, guilty, p, k)
      PROVE  IInv'
  BY <1>2, VerdictStep
<1>3. ASSUME NEW i \in DOMAIN courts.cases, execute_hate_crime_verdict(i)
      PROVE  IInv'
  <2>1. Executes(i)
    BY <1>3 DEF execute_hate_crime_verdict, Executes
  <2> QED BY <2>1, ExecuteStep
<1>4. ASSUME NEW i \in DOMAIN courts.cases, execute_penalty_verdict(i)
      PROVE  IInv'
  <2>1. Executes(i)
    BY <1>4 DEF execute_penalty_verdict, Executes
  <2> QED BY <2>1, ExecuteStep
<1>5. ASSUME NEW c \in Citizens, declare_usurper(c)
      PROVE  IInv'
  <2>1. courts' = [courts EXCEPT !.martialLaw = TRUE] /\ UNCHANGED <<constitution, block>>
    BY <1>5 DEF declare_usurper
  <2>2. courts'.cases = courts.cases /\ courts'.shame = courts.shame
    BY <2>1 DEF IInv, CourtsTypeOK
  <2>3. CourtsTypeOK'
    BY <2>1, <2>2 DEF IInv, CourtsTypeOK
  <2> QED BY <2>1, <2>2, <2>3, OtherStep
<1>6. ASSUME NEW cid \in Hashes, set_constitution_hash(cid), UNCHANGED <<courts, block>>
      PROVE  IInv'
  <2>1. constitution'.timers = constitution.timers
    BY <1>6 DEF IInv, CourtsTypeOK, set_constitution_hash
  <2>2. CourtsTypeOK'
    BY <1>6, <2>1 DEF IInv, CourtsTypeOK, set_constitution_hash
  <2> QED BY <1>6, <2>1, <2>2, OtherStep
<1>7. CASE on_initialize_constitution
  BY <1>7, BlockStep
<1>8. CASE UNCHANGED courtVars
  BY <1>8, OtherStep DEF courtVars, IInv, CourtsTypeOK
<1> QED BY <1>1, <1>2, <1>3, <1>4, <1>5, <1>6, <1>7, <1>8 DEF CourtStep

\* The invariant holds before the first case.
LEMMA CourtsInitInv ==
    ASSUME CourtsInit
    PROVE  IInv
<1>1. /\ courts = [cases |-> <<>>, martialLaw |-> FALSE, shame |-> <<>>]
      /\ constitution = [hash |-> {}, timers |-> <<>>]
  BY DEF CourtsInit, NoCases, NoConstitution
<1>2. /\ courts.cases = <<>> /\ courts.shame = <<>> /\ constitution.timers = <<>>
  BY <1>1
<1>3. DOMAIN courts.cases = {} /\ DOMAIN courts.shame = {} /\ DOMAIN constitution.timers = {}
  BY <1>2
<1>4. \E n \in Nat : courts.cases \in [0 .. n - 1 -> CaseRecord]
  <2>1. 0 \in Nat /\ 0 .. 0 - 1 = {} /\ courts.cases \in [{} -> CaseRecord]
    BY <1>2
  <2> QED BY <2>1
<1>5. /\ \E D \in SUBSET Citizens : courts.shame \in [D -> Nat]
      /\ \E D \in SUBSET Citizens : constitution.timers \in [D -> Nat]
  <2>1. {} \in SUBSET Citizens /\ courts.shame \in [{} -> Nat] /\ constitution.timers \in [{} -> Nat]
    BY <1>2
  <2> QED BY <2>1
<1>6. CourtsTypeOK
  BY <1>1, <1>4, <1>5 DEF CourtsInit, CourtsTypeOK
<1> QED BY <1>3, <1>6 DEF IInv, UndecidedAreReleased, ShameNamesCases, ShameIsExecuted

\* The invariant holds after any calls and blocks in any order.
LEMMA CourtsInvariant == CourtsSpec => []IInv
<1>1. CourtsInit => IInv
  BY CourtsInitInv
<1>2. IInv /\ [CourtStep]_courtVars => IInv'
  BY CourtStepInv
<1> QED BY <1>1, <1>2, PTL DEF CourtsSpec, courtVars

(***************************************************************************)
(* Habeas Corpus as pallets/judicial-courts and constitution keep it: a    *)
(* timer always is that of an open case, and nobody without a decided case *)
(* has one that has run out, however the cases against him interleave.     *)
(***************************************************************************)
THEOREM HabeasCorpus == CourtsSpec => []UndecidedAreReleased
<1>1. IInv => UndecidedAreReleased
  BY DEF IInv
<1> QED BY <1>1, CourtsInvariant, PTL

(***************************************************************************)
(* The registry of shame holds exactly one executed verdict of that crime  *)
(* for each of its citizens, and every such verdict that was executed.     *)
(***************************************************************************)
THEOREM RegistryOfShame == CourtsSpec => []ShameIsExecuted
<1>1. IInv => ShameIsExecuted
  BY DEF IInv
<1> QED BY <1>1, CourtsInvariant, PTL

-----------------------------------------------------------------------------
(* Keys of the portals                                                     *)

KeyRecord ==
    [entity_id : Entities, holder : KeyHolders, portal_mask : SUBSET Portals, revoked : BOOLEAN,
     issued_by : KeyHolders, org_reg_number : OrgRegNumbers \cup {NoRegNumber},
     wallet_bound : BOOLEAN, hr_role : HrRoles \cup {NoHrRole}]

KeysTypeOK ==
    /\ keys = [info |-> keys.info, byHolder |-> keys.byHolder, byEntity |-> keys.byEntity]
    /\ \E n \in Nat : keys.info \in Numbered(n, KeyRecord)
    /\ keys.byHolder \in [KeyHolders -> SUBSET Nat]
    /\ keys.byEntity \in [Entities -> SUBSET Nat]

\* The index of a holder has all the keys of that holder, in force or not.
IndexIsWhole ==
    \A h \in KeyHolders : keys.byHolder[h] = {i \in DOMAIN keys.info : keys.info[i].holder = h}

\* A key is bound to a wallet when it names an organization.
BoundKeysNameOrgs ==
    \A i \in DOMAIN keys.info :
        keys.info[i].wallet_bound <=> keys.info[i].org_reg_number # NoRegNumber

KeysInv == KeysTypeOK /\ IndexIsWhole /\ BoundKeysNameOrgs

\* A new key goes to the end of the keys and into both indices, which have room.
LEMMA IssueStep ==
    ASSUME KeysInv, NEW key \in KeyRecord,
           key.wallet_bound <=> key.org_reg_number # NoRegNumber, Issue(key)
    PROVE  KeysInv'
<1> DEFINE h == key.holder
           e == key.entity_id
<1>1. h \in KeyHolders /\ e \in Entities
  BY DEF KeyRecord
<1>2. PICK n \in Nat : keys.info \in Numbered(n, KeyRecord)
  BY DEF KeysInv, KeysTypeOK
<1> DEFINE info == Put(keys.info, n, key)
<1>3. /\ FreshId(keys.info) = n
      /\ OneMore(keys.info, info, n, key)
      /\ n + 1 \in Nat /\ info \in Numbered(n + 1, KeyRecord)
  BY <1>2, FreshRecord
<1>4. /\ Pushed(keys.byHolder[h], n, MaxKeysPerHolder) = keys.byHolder[h] \cup {n}
      /\ Pushed(keys.byEntity[e], n, MaxHoldersPerEntity) = keys.byEntity[e] \cup {n}
  BY <1>3 DEF Issue, FitsHolder, Pushed, OneMore
<1> HIDE DEF info, h, e
<1>5. keys' = [keys EXCEPT !.info = info, !.byHolder[h] = Pushed(@, n, MaxKeysPerHolder),
                           !.byEntity[e] = Pushed(@, n, MaxHoldersPerEntity)]
  BY <1>3 DEF Issue, info, h, e
<1>6. /\ keys' = [info |-> keys'.info, byHolder |-> keys'.byHolder, byEntity |-> keys'.byEntity]
      /\ keys'.info = info
      /\ keys'.byHolder = [keys.byHolder EXCEPT ![h] = keys.byHolder[h] \cup {n}]
      /\ keys'.byEntity = [keys.byEntity EXCEPT ![e] = keys.byEntity[e] \cup {n}]
  BY <1>4, <1>5 DEF KeysInv, KeysTypeOK
<1>7. KeysTypeOK'
  BY <1>1, <1>3, <1>6 DEF KeysInv, KeysTypeOK
<1>8. IndexIsWhole'
  <2> SUFFICES ASSUME NEW g \in KeyHolders
               PROVE  keys'.byHolder[g] = {i \in DOMAIN info : info[i].holder = g}
    BY <1>6 DEF IndexIsWhole
  <2>1. keys.byHolder[g] = {i \in DOMAIN keys.info : keys.info[i].holder = g}
    BY DEF KeysInv, IndexIsWhole
  <2>2. keys'.byHolder[g] = IF g = h THEN keys.byHolder[g] \cup {n} ELSE keys.byHolder[g]
    BY <1>1, <1>6 DEF KeysInv, KeysTypeOK
  <2>3. info[n].holder = h
    BY <1>3 DEF h, OneMore
  <2> QED BY <1>3, <2>1, <2>2, <2>3 DEF OneMore
<1>9. BoundKeysNameOrgs'
  <2> SUFFICES ASSUME NEW i \in DOMAIN info
               PROVE  info[i].wallet_bound <=> info[i].org_reg_number # NoRegNumber
    BY <1>6 DEF BoundKeysNameOrgs
  <2>1. i = n \/ i \in DOMAIN keys.info
    BY <1>3 DEF OneMore
  <2>2. CASE i = n
    BY <1>3, <2>2 DEF OneMore
  <2>3. CASE i \in DOMAIN keys.info
    BY <1>3, <2>3 DEF OneMore, KeysInv, BoundKeysNameOrgs
  <2> QED BY <2>1, <2>2, <2>3
<1> QED BY <1>7, <1>8, <1>9 DEF KeysInv

\* A key that is revoked stays in the indices.
LEMMA RevokeStep ==
    ASSUME KeysInv, NEW r \in KeyHolders, NEW t, revoke_access_key(r, t)
    PROVE  KeysInv'
<1>1. PICK n \in Nat : keys.info \in Numbered(n, KeyRecord)
  BY DEF KeysInv, KeysTypeOK
<1> DEFINE key == [keys.info[t] EXCEPT !.revoked = TRUE]
<1>2. t \in DOMAIN keys.info /\ keys.info[t] \in KeyRecord
  BY <1>1, RecordsAreTyped DEF revoke_access_key
<1>3. /\ key \in KeyRecord /\ key.holder = keys.info[t].holder
      /\ key.wallet_bound = keys.info[t].wallet_bound
      /\ key.org_reg_number = keys.info[t].org_reg_number
  BY <1>2 DEF KeyRecord
<1>4. /\ keys' = [info |-> keys'.info, byHolder |-> keys'.byHolder, byEntity |-> keys'.byEntity]
      /\ keys'.info = [keys.info EXCEPT ![t] = key]
      /\ keys'.byHolder = keys.byHolder /\ keys'.byEntity = keys.byEntity
  BY DEF KeysInv, KeysTypeOK, revoke_access_key
<1> HIDE DEF key
<1>5. /\ keys'.info \in Numbered(n, KeyRecord)
      /\ DOMAIN keys'.info = DOMAIN keys.info
      /\ \A i \in DOMAIN keys.info : keys'.info[i] = IF i = t THEN key ELSE keys.info[i]
  BY <1>1, <1>2, <1>3, <1>4, RecordChanged
<1>6. KeysTypeOK'
  BY <1>4, <1>5 DEF KeysInv, KeysTypeOK
<1>7. IndexIsWhole' /\ BoundKeysNameOrgs'
  BY <1>3, <1>4, <1>5 DEF KeysInv, IndexIsWhole, BoundKeysNameOrgs
<1> QED BY <1>6, <1>7 DEF KeysInv

\* Every call about keys preserves the invariant.
LEMMA KeyStepInv ==
    ASSUME KeysInv, KeyStep
    PROVE  KeysInv'
<1>1. ASSUME NEW i \in KeyHolders, NEW h \in KeyHolders, NEW e \in Entities, NEW m \in PortalMasks,
             issue_access_key(i, e, h, m)
      PROVE  KeysInv'
  <2> DEFINE key == AccessKeyInfo(e, h, m, i, NoRegNumber, NoHrRole)
  <2>1. key \in KeyRecord /\ (key.wallet_bound <=> key.org_reg_number # NoRegNumber)
    BY AccessAssumption DEF AccessKeyInfo, KeyRecord, Portals
  <2>2. Issue(key)
    BY <1>1 DEF issue_access_key
  <2> HIDE DEF key
  <2> QED BY <2>1, <2>2, IssueStep
<1>2. ASSUME NEW i \in KeyHolders, NEW h \in KeyHolders, NEW e \in Entities, NEW m \in PortalMasks,
             NEW o \in OrgRegNumbers, NEW r \in HrRoles, issue_sbt_key(i, e, o, h, m, r)
      PROVE  KeysInv'
  <2> DEFINE key == AccessKeyInfo(e, h, m, i, o, r)
  <2>1. key \in KeyRecord /\ (key.wallet_bound <=> key.org_reg_number # NoRegNumber)
    BY AccessAssumption DEF AccessKeyInfo, KeyRecord, Portals
  <2>2. Issue(key)
    BY <1>2 DEF issue_sbt_key
  <2> HIDE DEF key
  <2> QED BY <2>1, <2>2, IssueStep
<1> QED BY <1>1, <1>2, RevokeStep DEF KeyStep

\* Nothing about the keys changes.
LEMMA KeysStay ==
    ASSUME KeysInv, UNCHANGED keys
    PROVE  KeysInv'
BY DEF KeysInv, KeysTypeOK, IndexIsWhole, BoundKeysNameOrgs

LEMMA KeysStart ==
    ASSUME keys = NoKeys
    PROVE  KeysInv
<1>1. /\ keys = [info |-> keys.info, byHolder |-> keys.byHolder, byEntity |-> keys.byEntity]
      /\ keys.info = <<>>
      /\ keys.byHolder = [h \in KeyHolders |-> {}] /\ keys.byEntity = [e \in Entities |-> {}]
  BY DEF NoKeys
<1>2. keys.info \in Numbered(0, KeyRecord) /\ DOMAIN keys.info = {}
  <2>1. 0 .. 0 - 1 = {}
    OBVIOUS
  <2> QED BY <1>1, <2>1 DEF Numbered
<1> QED BY <1>1, <1>2 DEF KeysInv, KeysTypeOK, IndexIsWhole, BoundKeysNameOrgs

\* What the portals ask of the index is what the keys say.
LEMMA IndexAnswers ==
    ASSUME KeysInv
    PROVE  PortalsOpenByKeys
<1> SUFFICES
      ASSUME NEW h \in KeyHolders
      PROVE  LET valid == {i \in DOMAIN keys.info :
                              keys.info[i].holder = h /\ ~keys.info[i].revoked}
             IN  /\ \A e \in Entities, p \in Portals :
                       check_access(h, e, {p}) <=>
                           \E i \in valid :
                              keys.info[i].entity_id = e /\ p \in keys.info[i].portal_mask
                 /\ \A o \in OrgRegNumbers :
                       LET bound == {i \in valid : keys.info[i].org_reg_number = o}
                       IN  /\ get_hr_role(h, o) # {} <=> bound # {}
                           /\ \A r \in get_hr_role(h, o) : \E i \in bound :
                                 keys.info[i].hr_role = r /\ \A j \in bound : i <= j
                           /\ \A e \in Entities, p \in Portals :
                                 verify_sbt(h, e, o, {p}) =>
                                     check_access(h, e, {p}) /\ get_hr_role(h, o) # {}
  BY DEF PortalsOpenByKeys
<1> DEFINE valid == {i \in DOMAIN keys.info : keys.info[i].holder = h /\ ~keys.info[i].revoked}
           bound(o) == {i \in valid : keys.info[i].org_reg_number = o}
<1>1. PICK n \in Nat : keys.info \in Numbered(n, KeyRecord)
  BY DEF KeysInv, KeysTypeOK
<1>2. DOMAIN keys.info = 0 .. n - 1
  BY <1>1, RecordsAreTyped
<1>3. valid = {i \in keys.byHolder[h] : ~keys.info[i].revoked}
  BY DEF KeysInv, IndexIsWhole
<1>4. KeysInForce(h) = {keys.info[i] : i \in valid}
  BY <1>3 DEF KeysInForce
<1> HIDE DEF valid
<1>5. ASSUME NEW e \in Entities, NEW p \in Portals
      PROVE  check_access(h, e, {p}) <=>
                 \E i \in valid : keys.info[i].entity_id = e /\ p \in keys.info[i].portal_mask
  BY <1>4 DEF check_access
<1>6. ASSUME NEW o \in OrgRegNumbers
      PROVE  /\ bound(o) = {i \in keys.byHolder[h] :
                               /\ ~keys.info[i].revoked /\ keys.info[i].wallet_bound
                               /\ keys.info[i].org_reg_number = o}
             /\ bound(o) \subseteq 0 .. n - 1
  <2>1. o # NoRegNumber
    BY AccessAssumption
  <2>2. \A i \in valid : i \in DOMAIN keys.info /\ i \in keys.byHolder[h] /\ ~keys.info[i].revoked
    BY <1>3 DEF valid
  <2>3. \A i \in valid :
           keys.info[i].org_reg_number = o => keys.info[i].wallet_bound
    BY <2>1, <2>2 DEF KeysInv, BoundKeysNameOrgs
  <2> QED BY <1>2, <1>3, <2>2, <2>3
<1>7. ASSUME NEW o \in OrgRegNumbers
      PROVE  get_hr_role(h, o) =
                {keys.info[i].hr_role : i \in {j \in bound(o) : \A k \in bound(o) : j <= k}}
  <2> DEFINE B == bound(o)
  <2>1. B = {i \in keys.byHolder[h] :
               /\ ~keys.info[i].revoked /\ keys.info[i].wallet_bound
               /\ keys.info[i].org_reg_number = o}
    BY <1>6
  <2> HIDE DEF B
  <2>2. get_hr_role(h, o) =
           {keys.info[i].hr_role : i \in {j \in B : \A k \in B : j <= k}}
    BY <2>1 DEF get_hr_role
  <2> QED BY <2>2 DEF B
<1>8. ASSUME NEW o \in OrgRegNumbers
      PROVE  /\ get_hr_role(h, o) # {} <=> bound(o) # {}
             /\ \A r \in get_hr_role(h, o) : \E i \in bound(o) :
                   keys.info[i].hr_role = r /\ \A j \in bound(o) : i <= j
  <2> DEFINE B == bound(o)
  <2>1. B # {} => \E m \in B : \A k \in B : m <= k
    BY <1>6, OldestRecord
  <2>2. get_hr_role(h, o) = {keys.info[i].hr_role : i \in {j \in B : \A k \in B : j <= k}}
    BY <1>7
  <2> HIDE DEF B
  <2>3. /\ get_hr_role(h, o) # {} <=> B # {}
        /\ \A r \in get_hr_role(h, o) : \E i \in B :
              keys.info[i].hr_role = r /\ \A j \in B : i <= j
    BY <2>1, <2>2
  <2> QED BY <2>3 DEF B
<1>9. ASSUME NEW o \in OrgRegNumbers, NEW e \in Entities, NEW p \in Portals,
             verify_sbt(h, e, o, {p})
      PROVE  check_access(h, e, {p}) /\ get_hr_role(h, o) # {}
  <2>1. PICK i \in valid : /\ keys.info[i].entity_id = e /\ keys.info[i].org_reg_number = o
                           /\ {p} \subseteq keys.info[i].portal_mask
    BY <1>4, <1>9 DEF verify_sbt
  <2>2. i \in bound(o)
    BY <2>1
  <2> QED BY <1>5, <1>8, <2>1, <2>2
<1> QED BY <1>5, <1>8, <1>9 DEF valid

-----------------------------------------------------------------------------
(* Threads of the forums                                                   *)

MessageRecord == [author : Citizens, forum_id : ForumIds, parent_id : SUBSET Nat, pinned : BOOLEAN]

ForumsTypeOK ==
    /\ forums = [messages |-> forums.messages, threads |-> forums.threads,
                 replies |-> forums.replies]
    /\ \E n \in 0 .. MaxMessages : forums.messages \in Numbered(n, MessageRecord)
    /\ forums.threads \in [ForumIds -> SUBSET Nat]

\* A thread is a message without a parent, in its forum's index.
ThreadsAreRoots ==
    \A f \in ForumIds :
        forums.threads[f] = {i \in DOMAIN forums.messages :
                                forums.messages[i].forum_id = f /\ forums.messages[i].parent_id = {}}

\* The index of replies has each message beside its parent.
RepliesAreIndexed ==
    \A p, i : <<p, i>> \in forums.replies <=>
                 i \in DOMAIN forums.messages /\ p \in forums.messages[i].parent_id

\* A reply comes after what it replies to, in the same forum.
RepliesFollow ==
    \A i \in DOMAIN forums.messages : \A p \in forums.messages[i].parent_id :
        /\ p \in DOMAIN forums.messages /\ p < i
        /\ forums.messages[p].forum_id = forums.messages[i].forum_id

RepliesArePairs == \A r \in forums.replies : r = <<r[1], r[2]>>

ForumsInv == ForumsTypeOK /\ ThreadsAreRoots /\ RepliesAreIndexed /\ RepliesArePairs /\ RepliesFollow

\* A message is entered in its forum's index or beside its parent.
LEMMA PostStep ==
    ASSUME ForumsInv, NEW c \in Citizens, NEW f \in ForumIds, NEW R,
           R = {} \/ \E i \in DOMAIN forums.messages : R = {i}, post_message(c, f, R)
    PROVE  ForumsInv'
<1>1. PICK n \in 0 .. MaxMessages : forums.messages \in Numbered(n, MessageRecord)
  BY DEF ForumsInv, ForumsTypeOK
<1>2. n \in Nat /\ MaxMessages \in Nat
  BY ForumAssumption
<1>3. DOMAIN forums.messages = 0 .. n - 1 /\ \A i \in DOMAIN forums.messages : i \in Nat
  BY <1>1, <1>2, RecordsAreTyped
<1> DEFINE message == Message(c, f, R)
           messages == Put(forums.messages, n, message)
<1>4. /\ message \in MessageRecord
      /\ message.forum_id = f /\ message.parent_id = R
  BY <1>3 DEF Message, MessageRecord
<1> HIDE DEF message
<1>5. /\ FreshId(forums.messages) = n
      /\ OneMore(forums.messages, messages, n, message)
      /\ n + 1 \in Nat /\ messages \in Numbered(n + 1, MessageRecord)
  BY <1>1, <1>2, <1>4, FreshRecord
<1> HIDE DEF messages
<1>6. /\ n + 1 \in 0 .. MaxMessages
      /\ forums' = [forums EXCEPT !.messages = messages,
                                  !.replies = @ \cup {<<p, n>> : p \in R},
                                  !.threads[f] = IF R = {} THEN @ \cup {n} ELSE @]
      /\ \A p \in R : p \in DOMAIN forums.messages /\ forums.messages[p].forum_id = f
  BY <1>2, <1>5 DEF post_message, SameForum, messages, message
<1>7. /\ forums' = [messages |-> forums'.messages, threads |-> forums'.threads,
                    replies |-> forums'.replies]
      /\ forums'.messages = messages
      /\ forums'.replies = forums.replies \cup {<<p, n>> : p \in R}
      /\ forums'.threads = [forums.threads EXCEPT
                               ![f] = IF R = {} THEN forums.threads[f] \cup {n} ELSE forums.threads[f]]
  BY <1>6 DEF ForumsInv, ForumsTypeOK
<1>8. ForumsTypeOK'
  BY <1>2, <1>5, <1>6, <1>7 DEF ForumsInv, ForumsTypeOK
<1>9. /\ DOMAIN messages = DOMAIN forums.messages \cup {n} /\ n \notin DOMAIN forums.messages
      /\ messages[n].forum_id = f /\ messages[n].parent_id = R
      /\ \A i \in DOMAIN forums.messages : i # n /\ messages[i] = forums.messages[i]
  BY <1>4, <1>5 DEF OneMore
<1>10. ThreadsAreRoots'
  <2> SUFFICES ASSUME NEW g \in ForumIds
               PROVE  forums'.threads[g] =
                        {i \in DOMAIN messages : messages[i].forum_id = g /\ messages[i].parent_id = {}}
    BY <1>7 DEF ThreadsAreRoots
  <2>1. forums.threads[g] = {i \in DOMAIN forums.messages :
                                forums.messages[i].forum_id = g /\ forums.messages[i].parent_id = {}}
    BY DEF ForumsInv, ThreadsAreRoots
  <2>2. forums'.threads[g] = IF g = f /\ R = {} THEN forums.threads[g] \cup {n} ELSE forums.threads[g]
    BY <1>7 DEF ForumsInv, ForumsTypeOK
  <2> QED BY <1>9, <2>1, <2>2
<1>11. RepliesAreIndexed'
  <2> SUFFICES ASSUME NEW p, NEW i
               PROVE  <<p, i>> \in forums'.replies <=>
                         i \in DOMAIN messages /\ p \in messages[i].parent_id
    BY <1>7 DEF RepliesAreIndexed
  <2>1. <<p, i>> \in forums.replies <=> i \in DOMAIN forums.messages /\ p \in forums.messages[i].parent_id
    BY DEF ForumsInv, RepliesAreIndexed
  <2>2. <<p, i>> \in {<<q, n>> : q \in R} <=> i = n /\ p \in R
    OBVIOUS
  <2> QED BY <1>7, <1>9, <2>1, <2>2
<1>12. RepliesArePairs'
  BY <1>7 DEF ForumsInv, RepliesArePairs
<1>13. RepliesFollow'
  <2> SUFFICES ASSUME NEW i \in DOMAIN messages, NEW p \in messages[i].parent_id
               PROVE  /\ p \in DOMAIN messages /\ p < i
                      /\ messages[p].forum_id = messages[i].forum_id
    BY <1>7 DEF RepliesFollow
  <2>1. CASE i = n
    <3>1. p \in DOMAIN forums.messages /\ forums.messages[p].forum_id = f
      BY <1>6, <1>9, <2>1
    <3>2. p < n
      BY <1>2, <1>3, <3>1
    <3> QED BY <1>9, <2>1, <3>1, <3>2
  <2>2. CASE i # n
    BY <1>9, <2>2 DEF ForumsInv, RepliesFollow
  <2> QED BY <2>1, <2>2
<1> QED BY <1>8, <1>10, <1>11, <1>12, <1>13 DEF ForumsInv

\* A pin changes no index.
LEMMA PinStep ==
    ASSUME ForumsInv, NEW m, pin_message(m)
    PROVE  ForumsInv'
<1>1. PICK n \in 0 .. MaxMessages : forums.messages \in Numbered(n, MessageRecord)
  BY DEF ForumsInv, ForumsTypeOK
<1>2. n \in Nat
  BY ForumAssumption
<1> DEFINE message == [forums.messages[m] EXCEPT !.pinned = TRUE]
<1>3. m \in DOMAIN forums.messages /\ forums.messages[m] \in MessageRecord
  BY <1>1, <1>2, RecordsAreTyped DEF pin_message
<1>4. /\ message \in MessageRecord
      /\ message.forum_id = forums.messages[m].forum_id
      /\ message.parent_id = forums.messages[m].parent_id
  BY <1>3 DEF MessageRecord
<1>5. /\ forums' = [messages |-> forums'.messages, threads |-> forums'.threads,
                    replies |-> forums'.replies]
      /\ forums'.messages = [forums.messages EXCEPT ![m] = message]
      /\ forums'.threads = forums.threads /\ forums'.replies = forums.replies
  BY DEF ForumsInv, ForumsTypeOK, pin_message
<1> HIDE DEF message
<1>6. /\ forums'.messages \in Numbered(n, MessageRecord)
      /\ DOMAIN forums'.messages = DOMAIN forums.messages
      /\ \A i \in DOMAIN forums.messages :
            forums'.messages[i] = IF i = m THEN message ELSE forums.messages[i]
  BY <1>1, <1>2, <1>3, <1>4, <1>5, RecordChanged
<1>7. \A i \in DOMAIN forums.messages :
         /\ forums'.messages[i].forum_id = forums.messages[i].forum_id
         /\ forums'.messages[i].parent_id = forums.messages[i].parent_id
  BY <1>4, <1>6
<1>8. ForumsTypeOK'
  BY <1>5, <1>6 DEF ForumsInv, ForumsTypeOK
<1>9. ThreadsAreRoots'
  <2> SUFFICES ASSUME NEW g \in ForumIds
               PROVE  forums.threads[g] =
                        {i \in DOMAIN forums.messages :
                           forums'.messages[i].forum_id = g /\ forums'.messages[i].parent_id = {}}
    BY <1>5, <1>6 DEF ThreadsAreRoots
  <2> QED BY <1>7 DEF ForumsInv, ThreadsAreRoots
<1>10. RepliesAreIndexed' /\ RepliesArePairs'
  BY <1>5, <1>6, <1>7 DEF ForumsInv, RepliesAreIndexed, RepliesArePairs
<1>11. RepliesFollow'
  BY <1>6, <1>7 DEF ForumsInv, RepliesFollow
<1> QED BY <1>8, <1>9, <1>10, <1>11 DEF ForumsInv

LEMMA ForumStepInv ==
    ASSUME ForumsInv, ForumStep
    PROVE  ForumsInv'
<1>1. ASSUME NEW c \in Citizens, NEW f \in ForumIds,
             NEW R \in {{}} \cup {{i} : i \in DOMAIN forums.messages}, post_message(c, f, R)
      PROVE  ForumsInv'
  <2>1. R = {} \/ \E i \in DOMAIN forums.messages : R = {i}
    OBVIOUS
  <2> QED BY <1>1, <2>1, PostStep
<1> QED BY <1>1, PinStep DEF ForumStep

LEMMA ForumsStay ==
    ASSUME ForumsInv, UNCHANGED forums
    PROVE  ForumsInv'
BY DEF ForumsInv, ForumsTypeOK, ThreadsAreRoots, RepliesAreIndexed, RepliesArePairs, RepliesFollow

LEMMA ForumsStart ==
    ASSUME forums = NoMessages
    PROVE  ForumsInv
<1>1. /\ forums = [messages |-> forums.messages, threads |-> forums.threads,
                   replies |-> forums.replies]
      /\ forums.messages = <<>> /\ forums.replies = {}
      /\ forums.threads = [f \in ForumIds |-> {}]
  BY DEF NoMessages
<1>2. forums.messages \in Numbered(0, MessageRecord) /\ DOMAIN forums.messages = {}
  <2>1. 0 .. 0 - 1 = {}
    OBVIOUS
  <2> QED BY <1>1, <2>1 DEF Numbered
<1>3. 0 \in 0 .. MaxMessages
  BY ForumAssumption
<1> QED BY <1>1, <1>2, <1>3 DEF ForumsInv, ForumsTypeOK, ThreadsAreRoots, RepliesAreIndexed,
                                RepliesArePairs, RepliesFollow

-----------------------------------------------------------------------------
(* What one finds from the index in n steps, as the property computes it   *)

FoundStep(g, n) ==
    IF n = 0 THEN forums.threads
    ELSE [f \in ForumIds |->
             g[n - 1][f] \cup {r[2] : r \in {q \in forums.replies : q[1] \in g[n - 1][f]}}]

FoundIn(m, g) == g = [n \in 0 .. m |-> FoundStep(g, n)]

\* One step more can be made.
LEMMA FoundExtends ==
    ASSUME NEW m \in Nat, NEW g, FoundIn(m, g)
    PROVE  \E h : FoundIn(m + 1, h)
<1> DEFINE h == [n \in 0 .. m + 1 |-> FoundStep(g, n)]
<1>1. \A n \in 0 .. m : n \in 0 .. m + 1 /\ g[n] = FoundStep(g, n)
  BY DEF FoundIn
<1>2. \A n \in 0 .. m + 1 : h[n] = FoundStep(g, n)
  OBVIOUS
<1>3. \A n \in 0 .. m : h[n] = g[n]
  BY <1>1, <1>2
<1>4. \A n \in 0 .. m + 1 : FoundStep(h, n) = FoundStep(g, n)
  <2> HIDE DEF h
  <2> SUFFICES ASSUME NEW n \in 0 .. m + 1
               PROVE  FoundStep(h, n) = FoundStep(g, n)
    OBVIOUS
  <2>1. n = 0 \/ n - 1 \in 0 .. m
    OBVIOUS
  <2>2. n # 0 => h[n - 1] = g[n - 1]
    BY <1>3, <2>1
  <2> QED BY <2>2 DEF FoundStep
<1>5. h = [n \in 0 .. m + 1 |-> FoundStep(h, n)]
  <2> DEFINE H(n) == FoundStep(h, n)
             G(n) == FoundStep(g, n)
  <2>1. h = [n \in 0 .. m + 1 |-> G(n)]
    OBVIOUS
  <2>2. \A n \in 0 .. m + 1 : H(n) = G(n)
    BY <1>4
  <2> HIDE DEF H, G, h
  <2>3. h = [n \in 0 .. m + 1 |-> H(n)]
    BY <2>1, <2>2
  <2> QED BY <2>3 DEF H
<1> HIDE DEF h
<1> QED BY <1>5 DEF FoundIn

\* So what is found exists, for any number of steps.
LEMMA FoundExists ==
    ASSUME NEW n \in Nat
    PROVE  \E g : FoundIn(n, g)
<1> DEFINE T == {k \in Nat : ~ \E g : FoundIn(k, g)}
<1>1. SUFFICES ASSUME T # {} PROVE FALSE
  OBVIOUS
<1>2. PICK m \in T : \A k \in T : m <= k
  BY <1>1, LeastNatural
<1>3. CASE m = 0
  <2> DEFINE g == [k \in 0 .. 0 |-> forums.threads]
             Z(k) == FoundStep(g, k)
  <2>1. \A k \in 0 .. 0 : Z(k) = forums.threads
    BY DEF FoundStep
  <2>2. g = [k \in 0 .. 0 |-> forums.threads]
    OBVIOUS
  <2> HIDE DEF g, Z
  <2>3. g = [k \in 0 .. 0 |-> Z(k)]
    BY <2>1, <2>2
  <2>4. FoundIn(0, g)
    BY <2>3 DEF FoundIn, Z
  <2> QED BY <1>2, <1>3, <2>4
<1>4. CASE m # 0
  <2>1. m - 1 \in Nat /\ m - 1 \notin T /\ (m - 1) + 1 = m
    BY <1>2, <1>4
  <2>2. PICK g : FoundIn(m - 1, g)
    BY <2>1
  <2>3. \E h : FoundIn((m - 1) + 1, h)
    BY <2>1, <2>2, FoundExtends
  <2> QED BY <1>2, <2>1, <2>3
<1> QED BY <1>3, <1>4

\* What the property means by found.
LEMMA FoundIsFound ==
    ASSUME \A g : FoundIn(MaxMessages, g) =>
              \A f \in ForumIds : g[MaxMessages][f] =
                 {i \in DOMAIN forums.messages : forums.messages[i].forum_id = f}
    PROVE  ThreadsAreWhole
<1>1. FoundIn(MaxMessages, CHOOSE g : FoundIn(MaxMessages, g))
  BY FoundExists, ForumAssumption
<1> QED BY <1>1 DEF FoundIn, FoundStep, ThreadsAreWhole

\* What is found is of the forum, and stays found.
LEMMA FoundIsOfForum ==
    ASSUME ForumsInv, NEW g, FoundIn(MaxMessages, g), NEW f \in ForumIds
    PROVE  \A n \in 0 .. MaxMessages :
              /\ \A i \in g[n][f] : i \in DOMAIN forums.messages /\ forums.messages[i].forum_id = f
              /\ n > 0 => g[n - 1][f] \subseteq g[n][f]
<1> DEFINE OfForum(n) == \A i \in g[n][f] :
               i \in DOMAIN forums.messages /\ forums.messages[i].forum_id = f
           T == {n \in 0 .. MaxMessages : ~OfForum(n)}
<1>1. \A n \in 0 .. MaxMessages : g[n] = FoundStep(g, n)
  BY DEF FoundIn
<1>2. T = {}
  <2> SUFFICES ASSUME T # {} PROVE FALSE
    OBVIOUS
  <2>1. T \subseteq Nat
    BY ForumAssumption
  <2>2. PICK m \in T : \A k \in T : m <= k
    BY <2>1, LeastNatural
  <2>3. CASE m = 0
    <3>1. g[m][f] = forums.threads[f]
      BY <1>1, <2>3 DEF FoundStep
    <3>2. OfForum(m)
      BY <3>1 DEF ForumsInv, ThreadsAreRoots
    <3> QED BY <3>2
  <2>4. CASE m # 0
    <3>1. m - 1 \in 0 .. MaxMessages /\ m - 1 \notin T
      BY <2>1, <2>2, <2>4, ForumAssumption
    <3>2. OfForum(m - 1)
      BY <3>1
    <3>3. g[m][f] = g[m - 1][f] \cup {r[2] : r \in {q \in forums.replies : q[1] \in g[m - 1][f]}}
      BY <1>1, <2>4 DEF FoundStep
    <3>4. ASSUME NEW r \in forums.replies, r[1] \in g[m - 1][f]
          PROVE  r[2] \in DOMAIN forums.messages /\ forums.messages[r[2]].forum_id = f
      <4>1. r[2] \in DOMAIN forums.messages /\ r[1] \in forums.messages[r[2]].parent_id
        BY DEF ForumsInv, RepliesArePairs, RepliesAreIndexed
      <4>2. forums.messages[r[1]].forum_id = f
        BY <3>2, <3>4
      <4> QED BY <4>1, <4>2 DEF ForumsInv, RepliesFollow
    <3>5. OfForum(m)
      BY <3>2, <3>3, <3>4
    <3> QED BY <3>5
  <2> QED BY <2>3, <2>4
<1>3. ASSUME NEW n \in 0 .. MaxMessages, n > 0
      PROVE  g[n - 1][f] \subseteq g[n][f]
  <2>1. g[n] = FoundStep(g, n) /\ n # 0
    BY <1>1, <1>3, ForumAssumption
  <2>2. g[n][f] = g[n - 1][f] \cup {r[2] : r \in {q \in forums.replies : q[1] \in g[n - 1][f]}}
    BY <2>1 DEF FoundStep
  <2> QED BY <2>2
<1>4. \A n \in 0 .. MaxMessages : OfForum(n)
  BY <1>2
<1> QED BY <1>3, <1>4

\* What is found in k steps is found in more.
LEMMA FoundStays ==
    ASSUME ForumsInv, NEW g, FoundIn(MaxMessages, g), NEW f \in ForumIds, NEW k \in Nat
    PROVE  \A n \in 0 .. MaxMessages : k <= n => g[k][f] \subseteq g[n][f]
<1> DEFINE T == {n \in 0 .. MaxMessages : k <= n /\ ~(g[k][f] \subseteq g[n][f])}
<1> SUFFICES ASSUME T # {} PROVE FALSE
  OBVIOUS
<1>1. T \subseteq Nat
  BY ForumAssumption
<1>2. PICK m \in T : \A j \in T : m <= j
  BY <1>1, LeastNatural
<1>3. m # k /\ k <= m
  BY <1>2
<1>4. m - 1 \in 0 .. MaxMessages /\ k <= m - 1 /\ m - 1 \notin T /\ m > 0
  BY <1>1, <1>2, <1>3, ForumAssumption
<1>5. g[k][f] \subseteq g[m - 1][f]
  BY <1>4
<1>6. g[m - 1][f] \subseteq g[m][f]
  BY <1>4, FoundIsOfForum
<1> QED BY <1>5, <1>6

\* The message i is found in i steps: its parent has a smaller number.
LEMMA EveryMessageIsFound ==
    ASSUME ForumsInv, NEW g, FoundIn(MaxMessages, g)
    PROVE  \A i \in DOMAIN forums.messages :
              i \in 0 .. MaxMessages /\ i \in g[i][forums.messages[i].forum_id]
<1> DEFINE T == {i \in DOMAIN forums.messages : i \notin g[i][forums.messages[i].forum_id]}
<1>1. PICK n \in 0 .. MaxMessages : forums.messages \in Numbered(n, MessageRecord)
  BY DEF ForumsInv, ForumsTypeOK
<1>2. \A i \in DOMAIN forums.messages :
         i \in Nat /\ i \in 0 .. MaxMessages /\ forums.messages[i] \in MessageRecord
  <2>1. n \in Nat /\ MaxMessages \in Nat /\ n <= MaxMessages
    BY ForumAssumption
  <2>2. /\ DOMAIN forums.messages = 0 .. n - 1
        /\ \A i \in DOMAIN forums.messages : i \in Nat /\ forums.messages[i] \in MessageRecord
    BY <1>1, <2>1, RecordsAreTyped
  <2> QED BY <2>1, <2>2
<1>3. T = {}
  <2> SUFFICES ASSUME T # {} PROVE FALSE
    OBVIOUS
  <2>1. T \subseteq Nat
    BY <1>2
  <2>2. PICK m \in T : \A k \in T : m <= k
    BY <2>1, LeastNatural
  <2> DEFINE f == forums.messages[m].forum_id
  <2>3. m \in 0 .. MaxMessages /\ m \in Nat /\ f \in ForumIds
    BY <1>2, <2>2 DEF MessageRecord
  <2>4. \A k \in 0 .. MaxMessages : g[k] = FoundStep(g, k)
    BY <2>3 DEF FoundIn
  <2>5. CASE forums.messages[m].parent_id = {}
    <3>1. m \in forums.threads[f]
      BY <2>2, <2>3, <2>5 DEF ForumsInv, ThreadsAreRoots
    <3>2. 0 \in 0 .. MaxMessages /\ 0 \in Nat /\ 0 <= m
      BY <2>3, ForumAssumption
    <3>3. m \in g[0][f]
      BY <2>4, <3>1, <3>2 DEF FoundStep
    <3>4. g[0][f] \subseteq g[m][f]
      BY <2>3, <3>2, FoundStays
    <3> QED BY <2>2, <3>3, <3>4
  <2>6. CASE forums.messages[m].parent_id # {}
    <3>1. PICK p \in forums.messages[m].parent_id : TRUE
      BY <2>6
    <3>2. /\ p \in DOMAIN forums.messages /\ p < m
          /\ forums.messages[p].forum_id = f
      BY <2>2, <3>1 DEF ForumsInv, RepliesFollow
    <3>3. p \in Nat /\ p \notin T
      BY <1>2, <2>2, <2>3, <3>2
    <3>4. p \in g[p][f]
      BY <3>2, <3>3
    <3>5. m - 1 \in 0 .. MaxMessages /\ p <= m - 1 /\ m # 0
      BY <2>3, <3>2, <3>3, ForumAssumption
    <3>6. g[p][f] \subseteq g[m - 1][f]
      BY <2>3, <3>3, <3>5, FoundStays
    <3>7. <<p, m>> \in forums.replies
      BY <2>2, <3>1 DEF ForumsInv, RepliesAreIndexed
    <3>8. m \in {r[2] : r \in {q \in forums.replies : q[1] \in g[m - 1][f]}}
      BY <3>4, <3>6, <3>7
    <3>9. g[m] = FoundStep(g, m)
      BY <2>3, <2>4
    <3>10. g[m][f] = g[m - 1][f] \cup {r[2] : r \in {q \in forums.replies : q[1] \in g[m - 1][f]}}
      BY <2>3, <3>5, <3>9 DEF FoundStep
    <3>11. m \in g[m][f]
      BY <3>8, <3>10
    <3> QED BY <2>2, <3>11
  <2> QED BY <2>5, <2>6
<1> QED BY <1>2, <1>3

\* From the index of a forum one finds its messages and no other's.
LEMMA ThreadsAreFound ==
    ASSUME ForumsInv
    PROVE  ThreadsAreWhole
<1> SUFFICES ASSUME NEW g, FoundIn(MaxMessages, g), NEW f \in ForumIds
             PROVE  g[MaxMessages][f] =
                       {i \in DOMAIN forums.messages : forums.messages[i].forum_id = f}
  BY FoundIsFound
<1>1. MaxMessages \in 0 .. MaxMessages
  BY ForumAssumption
<1>2. \A i \in g[MaxMessages][f] : i \in DOMAIN forums.messages /\ forums.messages[i].forum_id = f
  BY <1>1, FoundIsOfForum
<1>3. ASSUME NEW i \in DOMAIN forums.messages, forums.messages[i].forum_id = f
      PROVE  i \in g[MaxMessages][f]
  <2>1. i \in 0 .. MaxMessages /\ i \in g[i][f]
    BY <1>3, EveryMessageIsFound
  <2>2. i \in Nat /\ i <= MaxMessages
    BY <2>1, ForumAssumption
  <2>3. g[i][f] \subseteq g[MaxMessages][f]
    BY <1>1, <2>2, FoundStays
  <2> QED BY <2>1, <2>3
<1> QED BY <1>2, <1>3

-----------------------------------------------------------------------------
(* Works and their authors                                                 *)

ChroniclesInv ==
    /\ chronicles = [owner |-> chronicles.owner, byAuthor |-> chronicles.byAuthor]
    /\ \A d \in DOMAIN chronicles.owner : chronicles.owner[d] \in Authors
    /\ AuthorsOwnTheirWorks

LEMMA PublishStep ==
    ASSUME ChroniclesInv, NEW a \in Authors, NEW d, publish_document(a, d)
    PROVE  ChroniclesInv'
<1> DEFINE owner == Put(chronicles.owner, d, a)
<1>1. /\ chronicles' = [owner |-> chronicles'.owner, byAuthor |-> chronicles'.byAuthor]
      /\ chronicles'.owner = owner
      /\ chronicles'.byAuthor = chronicles.byAuthor \cup {<<a, d>>}
      /\ d \notin DOMAIN chronicles.owner
  BY DEF ChroniclesInv, publish_document, IsUnpublished
<1>2. /\ DOMAIN owner = DOMAIN chronicles.owner \cup {d} /\ owner[d] = a
      /\ \A x \in DOMAIN chronicles.owner : owner[x] = chronicles.owner[x]
  BY <1>1 DEF Put
<1> HIDE DEF owner
<1>3. {<<owner[x], x>> : x \in DOMAIN owner} =
         {<<chronicles.owner[x], x>> : x \in DOMAIN chronicles.owner} \cup {<<a, d>>}
  BY <1>2
<1> QED BY <1>1, <1>2, <1>3 DEF ChroniclesInv, AuthorsOwnTheirWorks

LEMMA ChroniclesStay ==
    ASSUME ChroniclesInv, UNCHANGED chronicles
    PROVE  ChroniclesInv'
BY DEF ChroniclesInv, AuthorsOwnTheirWorks

LEMMA ChroniclesStart ==
    ASSUME chronicles = NoDocuments
    PROVE  ChroniclesInv
<1>1. /\ chronicles = [owner |-> chronicles.owner, byAuthor |-> chronicles.byAuthor]
      /\ chronicles.owner = <<>> /\ chronicles.byAuthor = {}
  BY DEF NoDocuments
<1>2. DOMAIN chronicles.owner = {}
  BY <1>1
<1> QED BY <1>1, <1>2 DEF ChroniclesInv, AuthorsOwnTheirWorks

LEMMA ChronicleStepInv ==
    ASSUME ChroniclesInv, ChronicleStep
    PROVE  ChroniclesInv'
<1>1. ASSUME NEW a \in Authors, NEW d \in Documents, publish_document(a, d)
      PROVE  ChroniclesInv'
  BY <1>1, PublishStep
<1>2. ASSUME NEW a \in Authors, NEW d \in Documents, NEW v \in Donations, donate_to_author(a, d, v)
      PROVE  ChroniclesInv'
  <2>1. UNCHANGED chronicles
    BY <1>2 DEF donate_to_author
  <2> QED BY <2>1, ChroniclesStay
<1> QED BY <1>1, <1>2 DEF ChronicleStep

-----------------------------------------------------------------------------
(* Recoveries and their guardians                                          *)

NftRecord == [group_id : Groups, target_account : Owners, holder : Guardians, threshold : Nat]

RequestRecord ==
    [group_id : Groups, target_account : Owners, initiated_by : Guardians,
     veto_deadline_block : Nat, status : RecoveryRequestStatus,
     confirmation_count : Nat, threshold : Nat]

RecoveryTypeOK ==
    /\ block \in Nat
    /\ recovery = [nfts |-> recovery.nfts, requests |-> recovery.requests,
                   confirmations |-> recovery.confirmations]
    /\ \E n \in Nat : recovery.nfts \in Numbered(n, NftRecord)
    /\ \A r \in DOMAIN recovery.requests : recovery.requests[r] \in RequestRecord

\* The tokens that confirm what is requested with an identifier.
Confirming(r) == {t \in DOMAIN recovery.nfts : <<r, t>> \in recovery.confirmations}

\* A request, at a block, with so many tokens that confirm it.
RequestIsSound(req, now, n) ==
    /\ req.confirmation_count <= n
    /\ req.status \in {"CollectingSignatures", "Executed"} => now > req.veto_deadline_block
    /\ req.status = "Executed" => n >= req.threshold

RequestsAreSound ==
    \A r \in DOMAIN recovery.requests :
        RequestIsSound(recovery.requests[r], block, Cardinality(Confirming(r)))

RecoveryInv == RecoveryTypeOK /\ RequestsAreSound

\* The tokens are finitely many.
LEMMA ConfirmingIsFinite ==
    ASSUME RecoveryTypeOK, NEW r
    PROVE  IsFiniteSet(Confirming(r)) /\ Cardinality(Confirming(r)) \in Nat
<1>1. PICK n \in Nat : recovery.nfts \in Numbered(n, NftRecord)
  BY DEF RecoveryTypeOK
<1>2. IsFiniteSet(DOMAIN recovery.nfts)
  BY <1>1, RecordsAreTyped
<1>3. IsFiniteSet(Confirming(r))
  BY <1>2, FS_Subset DEF Confirming
<1> QED BY <1>3, FS_CardinalityType

\* What is sound stays so later, and with more tokens.
LEMMA SoundStays ==
    ASSUME NEW req \in RequestRecord, NEW now \in Nat, NEW n \in Nat, RequestIsSound(req, now, n),
           NEW later \in Nat, now <= later, NEW m \in Nat, n <= m
    PROVE  RequestIsSound(req, later, m)
<1>1. req.confirmation_count \in Nat /\ req.veto_deadline_block \in Nat /\ req.threshold \in Nat
  BY DEF RequestRecord
<1> QED BY <1>1 DEF RequestIsSound

\* A step with a new state of one request, if any, and no confirmation less.
LEMMA RequestChanges ==
    ASSUME RecoveryInv, RecoveryTypeOK', NEW r, block' >= block,
           \A s : Confirming(s) \subseteq Confirming(s)',
           DOMAIN recovery'.requests \subseteq DOMAIN recovery.requests \cup {r},
           \A s \in DOMAIN recovery'.requests \ {r} : recovery'.requests[s] = recovery.requests[s],
           r \in DOMAIN recovery'.requests =>
              RequestIsSound(recovery'.requests[r], block', Cardinality(Confirming(r)'))
    PROVE  RecoveryInv'
<1>1. ASSUME NEW s \in DOMAIN recovery'.requests, s # r
      PROVE  RequestIsSound(recovery'.requests[s], block', Cardinality(Confirming(s)'))
  <2>1. s \in DOMAIN recovery.requests /\ recovery'.requests[s] = recovery.requests[s]
    BY <1>1
  <2>2. IsFiniteSet(Confirming(s)') /\ Cardinality(Confirming(s)') \in Nat
    <3>1. PICK n \in Nat : recovery'.nfts \in Numbered(n, NftRecord)
      BY DEF RecoveryTypeOK
    <3>2. IsFiniteSet(DOMAIN recovery'.nfts)
      BY <3>1, RecordsAreTyped
    <3>3. IsFiniteSet(Confirming(s)')
      BY <3>2, FS_Subset DEF Confirming
    <3> QED BY <3>3, FS_CardinalityType
  <2>3. Cardinality(Confirming(s)) \in Nat /\ Cardinality(Confirming(s)) <= Cardinality(Confirming(s)')
    <3>1. Confirming(s) \subseteq Confirming(s)'
      OBVIOUS
    <3> QED BY <2>2, <3>1, FS_Subset, FS_CardinalityType
  <2>4. /\ recovery.requests[s] \in RequestRecord /\ block \in Nat /\ block' \in Nat
        /\ RequestIsSound(recovery.requests[s], block, Cardinality(Confirming(s)))
    BY <2>1 DEF RecoveryInv, RecoveryTypeOK, RequestsAreSound
  <2>5. block <= block'
    BY <2>4
  <2> QED BY <2>1, <2>2, <2>3, <2>4, <2>5, SoundStays
<1>2. RequestsAreSound'
  BY <1>1 DEF RequestsAreSound
<1> QED BY <1>2 DEF RecoveryInv

\* New tokens take nothing from the requests there are.
LEMMA TokensStep ==
    ASSUME RecoveryInv, NEW g \in Groups, NEW o \in Owners, NEW list \in GuardianLists, NEW k \in Nat,
           issue_recovery_nfts(g, o, list, k)
    PROVE  RecoveryInv'
<1>1. PICK n \in Nat : recovery.nfts \in Numbered(n, NftRecord)
  BY DEF RecoveryInv, RecoveryTypeOK
<1>2. PICK m \in 1 .. MaxGroupSize : list \in [1 .. m -> Guardians]
  BY DEF GuardianLists
<1>3. m \in Nat /\ Len(list) = m /\ \A i \in 1 .. m : list[i] \in Guardians
  BY <1>2, RecoveryAssumption
<1>4. DOMAIN recovery.nfts = 0 .. n - 1 /\ FreshId(recovery.nfts) = n
  <2>1. DOMAIN recovery.nfts = 0 .. n - 1
    BY <1>1, RecordsAreTyped
  <2>2. Cardinality(0 .. n - 1) = n
    BY FS_Interval
  <2> QED BY <2>1, <2>2 DEF FreshId
<1> DEFINE nfts == [i \in 0 .. n + m - 1 |->
                       IF i \in n .. n + m - 1 THEN RecoveryNft(g, o, list[i - n + 1], k)
                       ELSE recovery.nfts[i]]
<1>5. (0 .. n - 1) \cup (n .. n + m - 1) = 0 .. n + m - 1
  BY <1>3
<1>6. /\ recovery' = [nfts |-> recovery'.nfts, requests |-> recovery'.requests,
                      confirmations |-> recovery'.confirmations]
      /\ recovery'.nfts = nfts
      /\ recovery'.requests = recovery.requests
      /\ recovery'.confirmations = recovery.confirmations
      /\ block' = block
  BY <1>3, <1>4, <1>5 DEF RecoveryInv, RecoveryTypeOK, issue_recovery_nfts
<1>7. nfts \in Numbered(n + m, NftRecord)
  <2>1. \A i \in 0 .. n + m - 1 : nfts[i] \in NftRecord
    <3> SUFFICES ASSUME NEW i \in 0 .. n + m - 1 PROVE nfts[i] \in NftRecord
      OBVIOUS
    <3>1. CASE i \in n .. n + m - 1
      <4>1. i - n + 1 \in 1 .. m
        BY <1>3, <3>1
      <4> QED BY <1>3, <3>1, <4>1 DEF RecoveryNft, NftRecord
    <3>2. CASE i \notin n .. n + m - 1
      BY <1>1, <1>3, <3>2 DEF Numbered
    <3> QED BY <3>1, <3>2
  <2>2. DOMAIN nfts = 0 .. n + m - 1 /\ nfts = [i \in 0 .. n + m - 1 |-> nfts[i]]
    OBVIOUS
  <2> HIDE DEF nfts
  <2> QED BY <2>1, <2>2 DEF Numbered
<1> HIDE DEF nfts
<1>8. RecoveryTypeOK'
  <2>1. n + m \in Nat
    BY <1>3
  <2> QED BY <1>6, <1>7, <2>1 DEF RecoveryInv, RecoveryTypeOK
<1>9. \A s : Confirming(s) \subseteq Confirming(s)'
  <2>1. DOMAIN nfts = 0 .. n + m - 1
    BY <1>7 DEF Numbered
  <2>2. DOMAIN recovery.nfts \subseteq DOMAIN recovery'.nfts
    BY <1>4, <1>5, <1>6, <2>1
  <2> QED BY <1>6, <2>2 DEF Confirming
<1>10. block' >= block
  BY <1>6 DEF RecoveryInv, RecoveryTypeOK
<1>11. PICK r : r \notin DOMAIN recovery.requests
  <2>1. \E r : r \notin DOMAIN recovery.requests
    <3> DEFINE S == {x \in DOMAIN recovery.requests : x \notin x}
    <3>1. S \notin DOMAIN recovery.requests
      OBVIOUS
    <3> QED BY <3>1
  <2> QED BY <2>1
<1> QED BY <1>6, <1>8, <1>9, <1>10, <1>11, RequestChanges

\* A request, new or made again, starts with one confirmation and its window.
LEMMA InitiateStep ==
    ASSUME RecoveryInv, NEW a \in Guardians, NEW t, NEW r, initiate_recovery(a, t, r)
    PROVE  RecoveryInv'
<1>1. PICK n \in Nat : recovery.nfts \in Numbered(n, NftRecord)
  BY DEF RecoveryInv, RecoveryTypeOK
<1> DEFINE nft == recovery.nfts[t]
           req == RecoveryRequest(nft, a)
<1>2. t \in DOMAIN recovery.nfts /\ nft \in NftRecord
  BY <1>1, RecordsAreTyped DEF initiate_recovery, Holds
<1>3. block \in Nat /\ block + VetoWindowBlocks \in Nat
  BY RecoveryAssumption DEF RecoveryInv, RecoveryTypeOK
<1>4. /\ req \in RequestRecord /\ req.confirmation_count = 1 /\ req.status = "PendingVetoWindow"
  BY <1>2, <1>3 DEF RecoveryRequest, RequestRecord, NftRecord, RecoveryRequestStatus
<1>5. /\ recovery' = [nfts |-> recovery'.nfts, requests |-> recovery'.requests,
                      confirmations |-> recovery'.confirmations]
      /\ recovery'.nfts = recovery.nfts
      /\ recovery'.requests = Put(recovery.requests, r, req)
      /\ recovery'.confirmations = recovery.confirmations \cup {<<r, t>>}
      /\ block' = block
  BY DEF RecoveryInv, RecoveryTypeOK, initiate_recovery
<1> HIDE DEF nft, req
<1>6. /\ DOMAIN recovery'.requests = DOMAIN recovery.requests \cup {r}
      /\ recovery'.requests[r] = req
      /\ \A s \in DOMAIN recovery.requests \ {r} : recovery'.requests[s] = recovery.requests[s]
  BY <1>5 DEF Put
<1>7. RecoveryTypeOK'
  BY <1>1, <1>3, <1>4, <1>5, <1>6 DEF RecoveryInv, RecoveryTypeOK
<1>8. \A s : Confirming(s) \subseteq Confirming(s)'
  BY <1>5 DEF Confirming
<1>9. Cardinality(Confirming(r)') \in Nat /\ Cardinality(Confirming(r)') >= 1
  <2>1. t \in Confirming(r)'
    BY <1>2, <1>5 DEF Confirming
  <2>2. IsFiniteSet(DOMAIN recovery.nfts)
    BY <1>1, RecordsAreTyped
  <2>3. IsFiniteSet(Confirming(r)')
    BY <1>5, <2>2, FS_Subset DEF Confirming
  <2>4. Cardinality(Confirming(r)') # 0 /\ Cardinality(Confirming(r)') \in Nat
    BY <2>1, <2>3, FS_EmptySet, FS_CardinalityType
  <2> QED BY <2>4
<1>10. RequestIsSound(req, block', Cardinality(Confirming(r)'))
  BY <1>4, <1>9 DEF RequestIsSound
<1>11. block' >= block
  BY <1>3, <1>5
<1> QED BY <1>6, <1>7, <1>8, <1>10, <1>11, RequestChanges

\* A veto asks for no confirmations.
LEMMA VetoStep ==
    ASSUME RecoveryInv, NEW o, NEW r, veto_recovery(o, r)
    PROVE  RecoveryInv'
<1> DEFINE old == recovery.requests[r]
           req == [old EXCEPT !.status = "OwnerVetoed"]
<1>1. r \in DOMAIN recovery.requests /\ old \in RequestRecord /\ block \in Nat
  BY DEF veto_recovery, RecoveryInv, RecoveryTypeOK
<1>2. /\ req \in RequestRecord /\ req.status = "OwnerVetoed"
      /\ req.confirmation_count = old.confirmation_count
  BY <1>1 DEF RequestRecord, RecoveryRequestStatus
<1>3. /\ recovery' = [nfts |-> recovery'.nfts, requests |-> recovery'.requests,
                      confirmations |-> recovery'.confirmations]
      /\ recovery'.nfts = recovery.nfts
      /\ recovery'.requests = [recovery.requests EXCEPT ![r] = req]
      /\ recovery'.confirmations = recovery.confirmations
      /\ block' = block
  BY DEF RecoveryInv, RecoveryTypeOK, veto_recovery
<1> HIDE DEF req
<1>4. /\ DOMAIN recovery'.requests = DOMAIN recovery.requests
      /\ recovery'.requests[r] = req
      /\ \A s \in DOMAIN recovery.requests \ {r} : recovery'.requests[s] = recovery.requests[s]
  BY <1>1, <1>3
<1>5. RecoveryTypeOK'
  BY <1>1, <1>2, <1>3, <1>4 DEF RecoveryInv, RecoveryTypeOK
<1>6. \A s : Confirming(s)' = Confirming(s)
  BY <1>3 DEF Confirming
<1>7. RequestIsSound(old, block, Cardinality(Confirming(r)))
  BY <1>1 DEF RecoveryInv, RequestsAreSound
<1>8. RequestIsSound(req, block', Cardinality(Confirming(r)'))
  BY <1>2, <1>6, <1>7 DEF RequestIsSound
<1>9. block' >= block
  BY <1>1, <1>3
<1> QED BY <1>4, <1>5, <1>6, <1>8, <1>9, RequestChanges

\* A confirmation is by one token more, after the window.
LEMMA ConfirmStep ==
    ASSUME RecoveryInv, NEW a, NEW t, NEW r, confirm_recovery(a, t, r)
    PROVE  RecoveryInv'
<1> DEFINE old == recovery.requests[r]
           req == Confirmed(old)
<1>1. /\ r \in DOMAIN recovery.requests /\ old \in RequestRecord /\ block \in Nat
      /\ t \in DOMAIN recovery.nfts /\ <<r, t>> \notin recovery.confirmations
      /\ IsCollecting(old)
  BY DEF confirm_recovery, Holds, RecoveryInv, RecoveryTypeOK
<1>2. /\ req \in RequestRecord
      /\ req.confirmation_count = old.confirmation_count + 1
      /\ req.status = IF old.confirmation_count + 1 >= old.threshold THEN "Executed"
                      ELSE "CollectingSignatures"
      /\ req.veto_deadline_block = old.veto_deadline_block /\ req.threshold = old.threshold
      /\ old.confirmation_count \in Nat /\ old.threshold \in Nat
  <2> DEFINE st == IF old.confirmation_count + 1 >= old.threshold THEN "Executed"
                   ELSE "CollectingSignatures"
             c == old.confirmation_count + 1
  <2>1. req = [old EXCEPT !.confirmation_count = c, !.status = st]
    BY DEF Confirmed
  <2>2. /\ old.confirmation_count \in Nat /\ old.threshold \in Nat
        /\ c \in Nat /\ st \in RecoveryRequestStatus
    BY <1>1 DEF RequestRecord, RecoveryRequestStatus
  <2> HIDE DEF st, c, req
  <2>3. /\ req \in RequestRecord /\ req.confirmation_count = c /\ req.status = st
        /\ req.veto_deadline_block = old.veto_deadline_block /\ req.threshold = old.threshold
    BY <1>1, <2>1, <2>2 DEF RequestRecord
  <2> QED BY <2>2, <2>3 DEF st, c
<1>3. /\ recovery' = [nfts |-> recovery'.nfts, requests |-> recovery'.requests,
                      confirmations |-> recovery'.confirmations]
      /\ recovery'.nfts = recovery.nfts
      /\ recovery'.requests = [recovery.requests EXCEPT ![r] = req]
      /\ recovery'.confirmations = recovery.confirmations \cup {<<r, t>>}
      /\ block' = block
  BY DEF RecoveryInv, RecoveryTypeOK, confirm_recovery
<1> HIDE DEF req
<1>4. /\ DOMAIN recovery'.requests = DOMAIN recovery.requests
      /\ recovery'.requests[r] = req
      /\ \A s \in DOMAIN recovery.requests \ {r} : recovery'.requests[s] = recovery.requests[s]
  BY <1>1, <1>3
<1>5. RecoveryTypeOK'
  BY <1>1, <1>2, <1>3, <1>4 DEF RecoveryInv, RecoveryTypeOK
<1>6. \A s : Confirming(s) \subseteq Confirming(s)'
  BY <1>3 DEF Confirming
<1>7. Confirming(r)' = Confirming(r) \cup {t} /\ t \notin Confirming(r)
  BY <1>1, <1>3 DEF Confirming
<1>8. /\ Cardinality(Confirming(r)) \in Nat
      /\ Cardinality(Confirming(r)') = Cardinality(Confirming(r)) + 1
  BY <1>7, ConfirmingIsFinite, FS_AddElement DEF RecoveryInv
<1>9. RequestIsSound(old, block, Cardinality(Confirming(r)))
  BY <1>1 DEF RecoveryInv, RequestsAreSound
<1>10. block > old.veto_deadline_block
  BY <1>1, <1>9 DEF IsCollecting, RequestIsSound
<1>11. RequestIsSound(req, block', Cardinality(Confirming(r)'))
  BY <1>2, <1>3, <1>8, <1>9, <1>10 DEF RequestIsSound
<1>12. block' >= block
  BY <1>1, <1>3
<1> QED BY <1>4, <1>5, <1>6, <1>11, <1>12, RequestChanges

\* Blocks only bring deadlines nearer.
LEMMA RecoveryStays ==
    ASSUME RecoveryInv, UNCHANGED recovery, block' \in Nat, block' >= block
    PROVE  RecoveryInv'
<1>1. RecoveryTypeOK'
  BY DEF RecoveryInv, RecoveryTypeOK
<1>2. \A s : Confirming(s)' = Confirming(s)
  BY DEF Confirming
<1>3. ASSUME NEW s \in DOMAIN recovery.requests
      PROVE  RequestIsSound(recovery.requests[s], block', Cardinality(Confirming(s)))
  <2>1. /\ recovery.requests[s] \in RequestRecord /\ block \in Nat
        /\ RequestIsSound(recovery.requests[s], block, Cardinality(Confirming(s)))
    BY DEF RecoveryInv, RecoveryTypeOK, RequestsAreSound
  <2>2. Cardinality(Confirming(s)) \in Nat /\ block <= block'
    BY <2>1, ConfirmingIsFinite DEF RecoveryInv
  <2>3. Cardinality(Confirming(s)) <= Cardinality(Confirming(s))
    BY <2>2
  <2> QED BY <2>1, <2>2, <2>3, SoundStays
<1>4. RequestsAreSound'
  BY <1>2, <1>3 DEF RequestsAreSound
<1> QED BY <1>1, <1>4 DEF RecoveryInv

LEMMA RecoveryStart ==
    ASSUME recovery = NoRecoveries, block = 0
    PROVE  RecoveryInv
<1>1. /\ recovery = [nfts |-> recovery.nfts, requests |-> recovery.requests,
                     confirmations |-> recovery.confirmations]
      /\ recovery.nfts = <<>> /\ recovery.requests = <<>>
  BY DEF NoRecoveries
<1>2. recovery.nfts \in Numbered(0, NftRecord) /\ DOMAIN recovery.requests = {}
  <2>1. 0 .. 0 - 1 = {}
    OBVIOUS
  <2> QED BY <1>1, <2>1 DEF Numbered
<1> QED BY <1>1, <1>2 DEF RecoveryInv, RecoveryTypeOK, RequestsAreSound

LEMMA RecoveryStepInv ==
    ASSUME RecoveryInv, RecoveryStep
    PROVE  RecoveryInv'
<1>1. ASSUME NEW g \in Groups, NEW o \in Owners, NEW list \in GuardianLists,
             NEW k \in 1 .. MaxGroupSize, issue_recovery_nfts(g, o, list, k)
      PROVE  RecoveryInv'
  <2>1. k \in Nat
    BY RecoveryAssumption
  <2> QED BY <1>1, <2>1, TokensStep
<1> QED BY <1>1, VetoStep, InitiateStep, ConfirmStep DEF RecoveryStep

\* The property follows.
LEMMA GuardiansAreEnough ==
    ASSUME RecoveryInv
    PROVE  RecoveryNeedsGuardians
BY DEF RecoveryInv, RequestsAreSound, RequestIsSound, Confirming, RecoveryNeedsGuardians

-----------------------------------------------------------------------------
(* Applications of the migration center                                    *)

AnchorRecord(anchor) ==
    /\ anchor = [hash |-> anchor.hash, status |-> anchor.status, officer |-> anchor.officer]
    /\ anchor.status \in AnchorStatus

MigrationTypeOK ==
    /\ migration = [anchors |-> migration.anchors, applicantOf |-> migration.applicantOf,
                    totalApplications |-> migration.totalApplications,
                    totalApproved |-> migration.totalApproved]
    /\ migration.totalApplications \in Nat /\ migration.totalApproved \in Nat
    /\ IsFiniteSet(DOMAIN migration.anchors) /\ IsFiniteSet(DOMAIN migration.applicantOf)
    /\ \A a \in DOMAIN migration.anchors : AnchorRecord(migration.anchors[a])

\* The anchors without an approval.
Unapproved == {a \in DOMAIN migration.anchors : migration.anchors[a].status # "Approved"}

\* Every anchor can be found by its hash.
AnchorsAreFound ==
    \A a \in DOMAIN migration.anchors :
        /\ migration.anchors[a].hash \in DOMAIN migration.applicantOf
        /\ migration.applicantOf[migration.anchors[a].hash] = a

MigrationInv ==
    /\ MigrationTypeOK
    /\ AnchorsAreFound
    /\ migration.totalApplications = Cardinality(DOMAIN migration.applicantOf)
    /\ migration.totalApproved + Cardinality(Unapproved) <= migration.totalApplications

\* The anchors without an approval are finitely many.
LEMMA UnapprovedAreFinite ==
    ASSUME IsFiniteSet(DOMAIN migration.anchors)
    PROVE  IsFiniteSet(Unapproved) /\ Cardinality(Unapproved) \in Nat
<1>1. IsFiniteSet(Unapproved)
  BY FS_Subset DEF Unapproved
<1> QED BY <1>1, FS_CardinalityType

\* The applicant's anchor is new, under a hash that nobody used.
LEMMA SubmitStep ==
    ASSUME MigrationInv, NEW a, NEW h, submit_application(a, h)
    PROVE  MigrationInv'
<1> DEFINE anchor == ApplicationAnchor(h)
<1>1. /\ migration' = [anchors |-> migration'.anchors, applicantOf |-> migration'.applicantOf,
                       totalApplications |-> migration'.totalApplications,
                       totalApproved |-> migration'.totalApproved]
      /\ migration'.anchors = Put(migration.anchors, a, anchor)
      /\ migration'.applicantOf = Put(migration.applicantOf, h, a)
      /\ migration'.totalApplications = migration.totalApplications + 1
      /\ migration'.totalApproved = migration.totalApproved
      /\ h \notin DOMAIN migration.applicantOf
  BY DEF MigrationInv, MigrationTypeOK, submit_application, IsNewHash
<1>2. AnchorRecord(anchor) /\ anchor.hash = h /\ anchor.status = "Submitted"
  BY DEF ApplicationAnchor, AnchorRecord, AnchorStatus
<1> HIDE DEF anchor
<1>3. /\ DOMAIN migration'.anchors = DOMAIN migration.anchors \cup {a}
      /\ migration'.anchors[a] = anchor
      /\ \A b \in DOMAIN migration.anchors : b # a => migration'.anchors[b] = migration.anchors[b]
      /\ DOMAIN migration'.applicantOf = DOMAIN migration.applicantOf \cup {h}
      /\ migration'.applicantOf[h] = a
      /\ \A k \in DOMAIN migration.applicantOf :
            k # h /\ migration'.applicantOf[k] = migration.applicantOf[k]
  BY <1>1 DEF Put
<1>4. /\ IsFiniteSet(DOMAIN migration'.anchors) /\ IsFiniteSet(DOMAIN migration'.applicantOf)
      /\ Cardinality(DOMAIN migration'.applicantOf) = Cardinality(DOMAIN migration.applicantOf) + 1
  <2>1. IsFiniteSet(DOMAIN migration.anchors) /\ IsFiniteSet(DOMAIN migration.applicantOf)
    BY DEF MigrationInv, MigrationTypeOK
  <2> QED BY <1>1, <1>3, <2>1, FS_AddElement
<1>5. MigrationTypeOK'
  BY <1>1, <1>2, <1>3, <1>4 DEF MigrationInv, MigrationTypeOK
<1>6. AnchorsAreFound'
  BY <1>2, <1>3 DEF MigrationInv, AnchorsAreFound
<1>7. Unapproved' = Unapproved \cup {a}
  <2>1. Unapproved' = {b \in DOMAIN migration'.anchors : migration'.anchors[b].status # "Approved"}
    BY DEF Unapproved
  <2>2. migration'.anchors[a].status # "Approved" /\ a \in DOMAIN migration'.anchors
    BY <1>2, <1>3
  <2>3. ASSUME NEW b, b # a
        PROVE  b \in Unapproved' <=> b \in Unapproved
    BY <1>3, <2>1, <2>3 DEF Unapproved
  <2>4. a \in Unapproved'
    BY <2>1, <2>2
  <2> QED BY <2>3, <2>4
<1>8. Cardinality(Unapproved') <= Cardinality(Unapproved) + 1 /\ Cardinality(Unapproved') \in Nat
      /\ Cardinality(Unapproved) \in Nat
  <2>1. IsFiniteSet(Unapproved) /\ Cardinality(Unapproved) \in Nat
    BY UnapprovedAreFinite DEF MigrationInv, MigrationTypeOK
  <2>2. Cardinality(Unapproved \cup {a}) = IF a \in Unapproved THEN Cardinality(Unapproved)
                                          ELSE Cardinality(Unapproved) + 1
    BY <2>1, FS_AddElement
  <2> QED BY <1>7, <2>1, <2>2
<1>9. migration'.totalApproved + Cardinality(Unapproved') <= migration'.totalApplications
  BY <1>1, <1>8 DEF MigrationInv, MigrationTypeOK
<1>10. migration'.totalApplications = Cardinality(DOMAIN migration'.applicantOf)
  BY <1>1, <1>4 DEF MigrationInv
<1> QED BY <1>5, <1>6, <1>9, <1>10 DEF MigrationInv

\* An anchor gets another status and officer, and one more counts when it is approved.
AnchorChanges(a, anchor) ==
    /\ a \in DOMAIN migration.anchors
    /\ migration.anchors[a].status # "Approved"
    /\ AnchorRecord(anchor) /\ anchor.hash = migration.anchors[a].hash
    /\ migration' = [migration EXCEPT
          !.anchors[a] = anchor,
          !.totalApproved = @ + (IF anchor.status = "Approved" THEN 1 ELSE 0)]

LEMMA AnchorStep ==
    ASSUME MigrationInv, NEW a, NEW anchor, AnchorChanges(a, anchor)
    PROVE  MigrationInv'
<1>1. /\ migration' = [anchors |-> migration'.anchors, applicantOf |-> migration'.applicantOf,
                       totalApplications |-> migration'.totalApplications,
                       totalApproved |-> migration'.totalApproved]
      /\ migration'.anchors = [migration.anchors EXCEPT ![a] = anchor]
      /\ migration'.applicantOf = migration.applicantOf
      /\ migration'.totalApplications = migration.totalApplications
      /\ migration'.totalApproved =
            migration.totalApproved + (IF anchor.status = "Approved" THEN 1 ELSE 0)
  BY DEF MigrationInv, MigrationTypeOK, AnchorChanges
<1>2. /\ a \in DOMAIN migration.anchors /\ migration.anchors[a].status # "Approved"
      /\ AnchorRecord(anchor) /\ anchor.hash = migration.anchors[a].hash
  BY DEF AnchorChanges
<1>3. /\ DOMAIN migration'.anchors = DOMAIN migration.anchors
      /\ migration'.anchors[a] = anchor
      /\ \A b \in DOMAIN migration.anchors : b # a => migration'.anchors[b] = migration.anchors[b]
  BY <1>1, <1>2
<1>4. MigrationTypeOK'
  BY <1>1, <1>2, <1>3 DEF MigrationInv, MigrationTypeOK
<1>5. AnchorsAreFound'
  BY <1>1, <1>2, <1>3 DEF MigrationInv, AnchorsAreFound
<1>6. Unapproved' = IF anchor.status = "Approved" THEN Unapproved \ {a} ELSE Unapproved
  <2>1. \A b \in DOMAIN migration.anchors :
           migration'.anchors[b].status # "Approved" <=>
              /\ migration.anchors[b].status # "Approved"
              /\ b = a => anchor.status # "Approved"
    BY <1>2, <1>3
  <2>2. Unapproved' = {b \in DOMAIN migration.anchors : migration'.anchors[b].status # "Approved"}
    BY <1>3 DEF Unapproved
  <2> QED BY <2>1, <2>2 DEF Unapproved
<1>7. IsFiniteSet(Unapproved) /\ Cardinality(Unapproved) \in Nat /\ a \in Unapproved
  BY <1>2, UnapprovedAreFinite DEF MigrationInv, MigrationTypeOK, Unapproved
<1>8. Cardinality(Unapproved') =
         Cardinality(Unapproved) - (IF anchor.status = "Approved" THEN 1 ELSE 0)
  <2>1. Cardinality(Unapproved \ {a}) = Cardinality(Unapproved) - 1
    BY <1>7, FS_RemoveElement
  <2> QED BY <1>6, <1>7, <2>1
<1>9. migration'.totalApproved + Cardinality(Unapproved') <= migration'.totalApplications
  BY <1>1, <1>7, <1>8 DEF MigrationInv, MigrationTypeOK
<1>10. migration'.totalApplications = Cardinality(DOMAIN migration'.applicantOf)
  BY <1>1 DEF MigrationInv
<1> QED BY <1>4, <1>5, <1>9, <1>10 DEF MigrationInv

\* A record of the same application with another status.
ClaimedRecord(old, st, who, new) ==
    AnchorRecord(new) /\ new.hash = old.hash /\ new.status = st /\ new.officer = who

\* A record keeps its hash when its status and officer change.
LEMMA AnchorKeepsHash ==
    ASSUME NEW old, AnchorRecord(old), NEW st \in AnchorStatus, NEW who
    PROVE  /\ AnchorRecord([old EXCEPT !.status = st])
           /\ [old EXCEPT !.status = st].hash = old.hash
           /\ [old EXCEPT !.status = st].status = st
           /\ ClaimedRecord(old, st, who, [old EXCEPT !.status = st, !.officer = who])
<1>1. old = [hash |-> old.hash, status |-> old.status, officer |-> old.officer]
  BY DEF AnchorRecord
<1> DEFINE h == old.hash
           o == old.officer
           s == old.status
<1> HIDE DEF h, o, s
<1>2. old = [hash |-> h, status |-> s, officer |-> o]
  BY <1>1 DEF h, o, s
<1>3. /\ [old EXCEPT !.status = st] = [hash |-> h, status |-> st, officer |-> o]
      /\ [old EXCEPT !.status = st, !.officer = who] = [hash |-> h, status |-> st, officer |-> who]
  <2>1. [old EXCEPT !.status = st] = [hash |-> h, status |-> st, officer |-> o]
    BY <1>2
  <2>2. [[hash |-> h, status |-> st, officer |-> o] EXCEPT !.officer = who]
           = [hash |-> h, status |-> st, officer |-> who]
    OBVIOUS
  <2>3. [old EXCEPT !.status = st, !.officer = who]
           = [[old EXCEPT !.status = st] EXCEPT !.officer = who]
    OBVIOUS
  <2> QED BY <2>1, <2>2, <2>3
<1>4. old.hash = h
  BY <1>2
<1> QED BY <1>3, <1>4 DEF AnchorRecord, ClaimedRecord

LEMMA MigrationStepInv ==
    ASSUME MigrationInv, MigrationStep
    PROVE  MigrationInv'
<1> DEFINE anchors == migration.anchors
<1>0. \A a \in DOMAIN anchors : AnchorRecord(anchors[a])
  BY DEF MigrationInv, MigrationTypeOK
<1>t. migration.totalApproved + 0 = migration.totalApproved
  BY DEF MigrationInv, MigrationTypeOK
<1>s. migration = [migration EXCEPT !.totalApproved = migration.totalApproved]
  BY DEF MigrationInv, MigrationTypeOK
<1>1. ASSUME NEW a, revoke_application(a)
      PROVE  MigrationInv'
  <2> DEFINE anchor == [anchors[a] EXCEPT !.status = "Revoked"]
  <2>1. a \in DOMAIN anchors /\ anchors[a].status \notin Terminal
    BY <1>1 DEF revoke_application, has_active_application
  <2>2. /\ AnchorRecord(anchor) /\ anchor.hash = anchors[a].hash /\ anchor.status = "Revoked"
    <3>1. "Revoked" \in AnchorStatus /\ AnchorRecord(anchors[a])
      BY <1>0, <2>1 DEF AnchorStatus
    <3> QED BY <3>1, AnchorKeepsHash
  <2>3. migration' = [migration EXCEPT !.anchors[a] = anchor]
    BY <1>1 DEF revoke_application
  <2> HIDE DEF anchor
  <2>4. migration' = [migration EXCEPT !.anchors[a] = anchor, !.totalApproved = @ + 0]
    BY <1>t, <2>3 DEF MigrationInv, MigrationTypeOK
  <2>5. AnchorChanges(a, anchor)
    BY <2>1, <2>2, <2>4 DEF AnchorChanges, Terminal
  <2> QED BY <2>5, AnchorStep
<1>2. ASSUME NEW o, NEW a, NEW s, NEW message, claim_application(o, a, s, message)
      PROVE  MigrationInv'
  <2> DEFINE anchor == [anchors[a] EXCEPT !.status = "UnderReview", !.officer = {o}]
  <2>1. a \in DOMAIN anchors /\ anchors[a].status = "Submitted"
    BY <1>2 DEF claim_application, IsIn
  <2>2. /\ AnchorRecord(anchor) /\ anchor.hash = anchors[a].hash /\ anchor.status = "UnderReview"
    <3> DEFINE old == anchors[a]
               st == "UnderReview"
               who == {o}
    <3>1. st \in AnchorStatus /\ AnchorRecord(old)
      BY <1>0, <2>1 DEF AnchorStatus
    <3> HIDE DEF old, who, st
    <3>2. ClaimedRecord(old, st, who, [old EXCEPT !.status = st, !.officer = who])
      BY <3>1, AnchorKeepsHash, Zenon
    <3>3. anchor = [old EXCEPT !.status = st, !.officer = who]
      BY DEF old, who, st
    <3> HIDE DEF anchor
    <3> QED BY <3>2, <3>3 DEF old, st, ClaimedRecord
  <2>3. migration' = [migration EXCEPT !.anchors[a] = anchor]
    BY <1>2 DEF claim_application
  <2> HIDE DEF anchor
  <2>4. migration' = [migration EXCEPT !.anchors[a] = anchor, !.totalApproved = @ + 0]
    BY <1>t, <2>3 DEF MigrationInv, MigrationTypeOK
  <2>5. AnchorChanges(a, anchor)
    BY <2>1, <2>2, <2>4 DEF AnchorChanges
  <2> QED BY <2>5, AnchorStep
<1>3. ASSUME NEW o, NEW a, NEW approved \in BOOLEAN, finalize_application(o, a, approved)
      PROVE  MigrationInv'
  <2> DEFINE st == IF approved THEN "Approved" ELSE "Rejected"
             anchor == [anchors[a] EXCEPT !.status = st]
  <2>1. a \in DOMAIN anchors /\ anchors[a].status = "UnderReview"
    BY <1>3 DEF finalize_application, IsIn
  <2>2. st \in AnchorStatus /\ (st = "Approved" <=> approved)
    BY DEF AnchorStatus
  <2>3. migration' = [migration EXCEPT !.anchors[a] = anchor,
                                       !.totalApproved = @ + (IF approved THEN 1 ELSE 0)]
    BY <1>3 DEF finalize_application
  <2> HIDE DEF st
  <2>4. /\ AnchorRecord(anchor) /\ anchor.hash = anchors[a].hash /\ anchor.status = st
    <3>1. AnchorRecord(anchors[a])
      BY <1>0, <2>1
    <3> QED BY <2>2, <3>1, AnchorKeepsHash
  <2> HIDE DEF anchor
  <2>5. migration' = [migration EXCEPT !.anchors[a] = anchor,
                         !.totalApproved = @ + (IF anchor.status = "Approved" THEN 1 ELSE 0)]
    BY <2>2, <2>3, <2>4
  <2>6. AnchorChanges(a, anchor)
    BY <2>1, <2>4, <2>5 DEF AnchorChanges
  <2> QED BY <2>6, AnchorStep
<1> QED BY <1>1, <1>2, <1>3, SubmitStep DEF MigrationStep

LEMMA MigrationStays ==
    ASSUME MigrationInv, UNCHANGED migration
    PROVE  MigrationInv'
BY DEF MigrationInv, MigrationTypeOK, AnchorsAreFound, Unapproved

LEMMA MigrationStart ==
    ASSUME migration = NoAnchors
    PROVE  MigrationInv
<1>1. /\ migration = [anchors |-> migration.anchors, applicantOf |-> migration.applicantOf,
                      totalApplications |-> migration.totalApplications,
                      totalApproved |-> migration.totalApproved]
      /\ migration.anchors = <<>> /\ migration.applicantOf = <<>>
      /\ migration.totalApplications = 0 /\ migration.totalApproved = 0
  BY DEF NoAnchors
<1>2. DOMAIN migration.anchors = {} /\ DOMAIN migration.applicantOf = {} /\ Unapproved = {}
  BY <1>1 DEF Unapproved
<1>3. IsFiniteSet({}) /\ Cardinality({}) = 0
  BY FS_EmptySet
<1> QED BY <1>1, <1>2, <1>3 DEF MigrationInv, MigrationTypeOK, AnchorsAreFound

\* The property follows.
LEMMA ApplicationsAreOwned ==
    ASSUME MigrationInv
    PROVE  ApplicationsHaveOneOwner
<1>1. /\ migration.totalApproved \in Nat /\ migration.totalApplications \in Nat
      /\ IsFiniteSet(DOMAIN migration.anchors)
  BY DEF MigrationInv, MigrationTypeOK
<1>2. Cardinality(Unapproved) \in Nat
  BY <1>1, UnapprovedAreFinite
<1>3. migration.totalApproved <= migration.totalApplications - Cardinality(Unapproved)
  BY <1>1, <1>2 DEF MigrationInv
<1>4. \A a \in DOMAIN migration.anchors : At(migration.applicantOf, migration.anchors[a].hash, {}) = a
  BY DEF MigrationInv, AnchorsAreFound, At
<1> QED BY <1>3, <1>4 DEF MigrationInv, ApplicationsHaveOneOwner, Unapproved

-----------------------------------------------------------------------------
(* Proposals of the DAOs                                                   *)

DaoProposal ==
    [org_id : DaoOrgs, amount : Nat, beneficiary : Councillors,
     votes_for : Nat, votes_against : Nat, status : DaoStatus]

DaoTypeOK ==
    /\ dao = [councils |-> dao.councils, proposals |-> dao.proposals, ballots |-> dao.ballots]
    /\ \A p \in DOMAIN dao.proposals : dao.proposals[p] \in DaoProposal
    /\ IsFiniteSet(dao.ballots)

\* The ballots on what has the identifier p.
BallotsOn(p) == {b \in dao.ballots : b[1] = p}

DaoInv == DaoTypeOK /\ VotesAreBallots

LEMMA BallotsAreFinite ==
    ASSUME DaoTypeOK, NEW p
    PROVE  IsFiniteSet(BallotsOn(p)) /\ Cardinality(BallotsOn(p)) \in Nat
<1>1. IsFiniteSet(BallotsOn(p))
  BY FS_Subset DEF DaoTypeOK, BallotsOn
<1> QED BY <1>1, FS_CardinalityType

\* Another council, of an organization that has one or has none.
OtherCouncils ==
    dao' = [councils |-> dao'.councils, proposals |-> dao.proposals, ballots |-> dao.ballots]

\* What is voted on and the ballots stay.
LEMMA CouncilsStep ==
    ASSUME DaoInv, OtherCouncils
    PROVE  DaoInv'
<1>1. /\ dao' = [councils |-> dao'.councils, proposals |-> dao'.proposals, ballots |-> dao'.ballots]
      /\ dao'.proposals = dao.proposals /\ dao'.ballots = dao.ballots
  BY DEF DaoInv, DaoTypeOK, OtherCouncils
<1>2. DaoTypeOK'
  BY <1>1 DEF DaoInv, DaoTypeOK
<1>3. VotesAreBallots'
  <2>1. VotesAreBallots
    BY DEF DaoInv
  <2>2. ASSUME NEW p \in DOMAIN dao'.proposals
        PROVE  dao'.proposals[p].votes_for + dao'.proposals[p].votes_against
                  <= Cardinality({b \in dao'.ballots : b[1] = p})
    <3>1. {b \in dao'.ballots : b[1] = p} = {b \in dao.ballots : b[1] = p}
      BY <1>1
    <3>2. dao.proposals[p].votes_for + dao.proposals[p].votes_against
             <= Cardinality({b \in dao.ballots : b[1] = p})
      BY <1>1, <2>1 DEF VotesAreBallots
    <3> QED BY <1>1, <3>1, <3>2
  <2> QED BY <2>2, Zenon DEF VotesAreBallots
<1> QED BY <1>2, <1>3 DEF DaoInv

\* A new proposal has no votes.
LEMMA ProposalStep ==
    ASSUME DaoInv, NEW o \in DaoOrgs, NEW p, NEW a, NEW v \in Spendings, NEW b \in Councillors,
           create_dao_proposal(o, p, a, v, b)
    PROVE  DaoInv'
<1> DEFINE proposal == [org_id |-> o, amount |-> v, beneficiary |-> b,
                        votes_for |-> 0, votes_against |-> 0, status |-> "Open"]
<1>1. proposal \in DaoProposal /\ proposal.votes_for + proposal.votes_against = 0
  BY DaoAssumption DEF DaoProposal, DaoStatus
<1>2. /\ dao' = [councils |-> dao'.councils, proposals |-> dao'.proposals, ballots |-> dao'.ballots]
      /\ dao'.proposals = Put(dao.proposals, p, proposal) /\ dao'.ballots = dao.ballots
  BY DEF DaoInv, DaoTypeOK, create_dao_proposal
<1> HIDE DEF proposal
<1>3. \A q \in DOMAIN dao'.proposals :
         \/ q = p /\ dao'.proposals[q] = proposal
         \/ q \in DOMAIN dao.proposals /\ dao'.proposals[q] = dao.proposals[q]
  BY <1>2 DEF Put
<1>4. DaoTypeOK'
  BY <1>1, <1>2, <1>3 DEF DaoInv, DaoTypeOK
<1>5. ASSUME NEW q \in DOMAIN dao'.proposals
      PROVE  dao'.proposals[q].votes_for + dao'.proposals[q].votes_against
                <= Cardinality({c \in dao'.ballots : c[1] = q})
  <2>1. BallotsOn(q) = {c \in dao'.ballots : c[1] = q}
    BY <1>2 DEF BallotsOn
  <2>2. Cardinality(BallotsOn(q)) \in Nat
    BY BallotsAreFinite DEF DaoInv
  <2>3. CASE dao'.proposals[q] = proposal
    BY <1>1, <2>1, <2>2, <2>3
  <2>4. CASE q \in DOMAIN dao.proposals /\ dao'.proposals[q] = dao.proposals[q]
    BY <1>2, <2>4 DEF DaoInv, VotesAreBallots
  <2> QED BY <1>3, <2>3, <2>4
<1> QED BY <1>4, <1>5 DEF DaoInv, VotesAreBallots

\* A vote comes with a ballot that was not there.
LEMMA DaoVoteStep ==
    ASSUME DaoInv, NEW p, NEW a, NEW support \in BOOLEAN, vote_dao_proposal(p, a, support)
    PROVE  DaoInv'
<1> DEFINE old == dao.proposals[p]
           counted == IF support THEN [old EXCEPT !.votes_for = @ + 1]
                      ELSE [old EXCEPT !.votes_against = @ + 1]
           st == Outcome(counted)
           new == [counted EXCEPT !.status = st]
<1>1. p \in DOMAIN dao.proposals /\ old \in DaoProposal /\ <<p, a>> \notin dao.ballots
  BY DEF vote_dao_proposal, NoBallotYet, DaoInv, DaoTypeOK
<1>2. /\ counted \in DaoProposal
      /\ counted.votes_for + counted.votes_against = old.votes_for + old.votes_against + 1
  <2> HIDE DEF old
  <2>1. CASE support
    BY <1>1, <2>1 DEF DaoProposal
  <2>2. CASE ~support
    BY <1>1, <2>2 DEF DaoProposal
  <2> QED BY <2>1, <2>2
<1>3. /\ dao' = [councils |-> dao'.councils, proposals |-> dao'.proposals, ballots |-> dao'.ballots]
      /\ dao'.proposals = [dao.proposals EXCEPT ![p] = new]
      /\ dao'.ballots = dao.ballots \cup {<<p, a>>}
  <2> HIDE DEF new
  <2>1. dao' = [dao EXCEPT !.ballots = @ \cup {<<p, a>>}, !.proposals[p] = new]
    BY DEF vote_dao_proposal, new
  <2> QED BY <2>1 DEF DaoInv, DaoTypeOK
<1> HIDE DEF counted
<1>4. st \in DaoStatus
  BY DEF Outcome, DaoStatus
<1> HIDE DEF st
<1>5. /\ new \in DaoProposal
      /\ new.votes_for + new.votes_against = old.votes_for + old.votes_against + 1
      /\ old.votes_for \in Nat /\ old.votes_against \in Nat
  BY <1>1, <1>2, <1>4 DEF DaoProposal
<1> HIDE DEF new, old
<1>6. /\ DOMAIN dao'.proposals = DOMAIN dao.proposals
      /\ dao'.proposals[p] = new
      /\ \A q \in DOMAIN dao.proposals : q # p => dao'.proposals[q] = dao.proposals[q]
  BY <1>1, <1>3
<1>7. DaoTypeOK'
  <2>1. IsFiniteSet(dao'.ballots)
    <3>1. IsFiniteSet(dao.ballots) /\ dao'.ballots = dao.ballots \cup {<<p, a>>}
      BY <1>3 DEF DaoInv, DaoTypeOK
    <3>2. IsFiniteSet(dao.ballots \cup {<<p, a>>})
      BY <3>1, FS_AddElement
    <3> QED BY <3>1, <3>2
  <2>2. \A q \in DOMAIN dao'.proposals : dao'.proposals[q] \in DaoProposal
    BY <1>5, <1>6 DEF DaoInv, DaoTypeOK
  <2>3. dao' = [councils |-> dao'.councils, proposals |-> dao'.proposals, ballots |-> dao'.ballots]
    BY <1>3
  <2> QED BY <2>1, <2>2, <2>3 DEF DaoTypeOK
<1>8. ASSUME NEW q \in DOMAIN dao'.proposals
      PROVE  dao'.proposals[q].votes_for + dao'.proposals[q].votes_against
                <= Cardinality({c \in dao'.ballots : c[1] = q})
  <2>1. /\ q \in DOMAIN dao.proposals
        /\ dao.proposals[q].votes_for + dao.proposals[q].votes_against
              <= Cardinality(BallotsOn(q))
    BY <1>6 DEF DaoInv, VotesAreBallots, BallotsOn
  <2>2. IsFiniteSet(BallotsOn(q)) /\ Cardinality(BallotsOn(q)) \in Nat
    BY BallotsAreFinite DEF DaoInv
  <2>3. CASE q = p
    <3>1. {c \in dao'.ballots : c[1] = q} = BallotsOn(q) \cup {<<p, a>>}
      BY <1>3, <2>3 DEF BallotsOn
    <3>2. <<p, a>> \notin BallotsOn(q)
      BY <1>1 DEF BallotsOn
    <3>3. Cardinality(BallotsOn(q) \cup {<<p, a>>}) = Cardinality(BallotsOn(q)) + 1
      BY <2>2, <3>2, FS_AddElement
    <3>4. old.votes_for + old.votes_against <= Cardinality(BallotsOn(q))
      BY <2>1, <2>3 DEF old
    <3>5. dao'.proposals[q] = new
      BY <1>6, <2>3
    <3> DEFINE votes == old.votes_for + old.votes_against
               number == Cardinality(BallotsOn(q))
    <3>6. votes \in Nat /\ new.votes_for + new.votes_against = votes + 1
      BY <1>5
    <3>7. Cardinality({c \in dao'.ballots : c[1] = q}) = number + 1
      BY <3>1, <3>3
    <3> HIDE DEF votes, number, new
    <3>8. number \in Nat /\ votes <= number
      BY <2>2, <3>4 DEF votes, number
    <3>9. votes + 1 <= number + 1
      BY <3>6, <3>8
    <3> QED BY <3>5, <3>6, <3>7, <3>9
  <2>4. CASE q # p
    <3>1. {c \in dao'.ballots : c[1] = q} = BallotsOn(q)
      BY <1>3, <2>4 DEF BallotsOn
    <3> QED BY <1>6, <2>1, <2>4, <3>1
  <2> QED BY <2>3, <2>4
<1> QED BY <1>7, <1>8 DEF DaoInv, VotesAreBallots

\* What was executed is gone; its ballots stay.
LEMMA DaoExecuteStep ==
    ASSUME DaoInv, NEW p, execute_dao_proposal(p)
    PROVE  DaoInv'
<1>1. /\ dao' = [councils |-> dao'.councils, proposals |-> dao'.proposals, ballots |-> dao'.ballots]
      /\ dao'.proposals = Without(dao.proposals, p) /\ dao'.ballots = dao.ballots
  BY DEF DaoInv, DaoTypeOK, execute_dao_proposal, DropsExecuted
<1>2. \A q \in DOMAIN dao'.proposals :
         q \in DOMAIN dao.proposals /\ dao'.proposals[q] = dao.proposals[q]
  BY <1>1 DEF Without
<1> QED BY <1>1, <1>2 DEF DaoInv, DaoTypeOK, VotesAreBallots

LEMMA DaoStepInv ==
    ASSUME DaoInv, DaoStep
    PROVE  DaoInv'
<1>1. ASSUME NEW o, NEW S, instantiate_org(o, S)
      PROVE  DaoInv'
  <2>1. dao' = [dao EXCEPT !.councils = Put(dao.councils, o, S)]
    BY <1>1 DEF instantiate_org
  <2>2. OtherCouncils
    BY <2>1 DEF OtherCouncils, DaoInv, DaoTypeOK
  <2> QED BY <2>2, CouncilsStep
<1>2. ASSUME NEW o, NEW S, sync_council(o, S)
      PROVE  DaoInv'
  <2>1. dao' = [dao EXCEPT !.councils = [dao.councils EXCEPT ![o] = S]]
    BY <1>2 DEF sync_council, DaoInv, DaoTypeOK
  <2>2. OtherCouncils
    BY <2>1 DEF OtherCouncils, DaoInv, DaoTypeOK
  <2> QED BY <2>2, CouncilsStep
<1> QED BY <1>1, <1>2, ProposalStep, DaoVoteStep, DaoExecuteStep DEF DaoStep

LEMMA DaoStays ==
    ASSUME DaoInv, UNCHANGED dao
    PROVE  DaoInv'
BY DEF DaoInv, DaoTypeOK, VotesAreBallots

LEMMA DaoStart ==
    ASSUME dao = NoDaos
    PROVE  DaoInv
<1>1. /\ dao = [councils |-> dao.councils, proposals |-> dao.proposals, ballots |-> dao.ballots]
      /\ dao.proposals = <<>> /\ dao.ballots = {}
  BY DEF NoDaos
<1>2. DOMAIN dao.proposals = {} /\ IsFiniteSet(dao.ballots)
  BY <1>1, FS_EmptySet
<1> QED BY <1>1, <1>2 DEF DaoInv, DaoTypeOK, VotesAreBallots

\* With KeepAlive, what leaves an account is what is paid.
Takes(src, dst, v) ==
    /\ LedgerTypeOK'
    /\ \A a \in Accounts :
          free'[a] = free[a] - (IF a = src /\ src # dst THEN v ELSE 0)
                             + (IF a = dst /\ src # dst THEN v ELSE 0)
    /\ reserved' = reserved

LEMMA TransferTakes ==
    ASSUME LedgerTypeOK, NEW src \in Accounts, NEW dst \in Accounts, NEW v \in Nat,
           transfer(src, dst, v, TRUE)
    PROVE  Takes(src, dst, v)
<1>0. /\ free \in [Accounts -> Nat] /\ issuance \in Int /\ ExistentialDeposit \in Nat \ {0}
      /\ free[src] \in Nat /\ free[dst] \in Nat /\ frozen[src] \in Nat
      /\ reserved' = reserved /\ frozen' = frozen
  BY LedgerAssumption DEF LedgerTypeOK, transfer
<1>1. CASE Moves(src, dst, v)
  <2>1. free[src] >= v + ExistentialDeposit
    BY <1>1, <1>0 DEF transfer, CanTransfer, Moves
  <2>2. Dust(src, v) = 0
    BY <1>0, <2>1 DEF Dust
  <2>3. free' = [free EXCEPT ![src] = @ - v - 0, ![dst] = @ + v] /\ issuance' = issuance - 0
    BY <1>1, <2>2 DEF transfer
  <2>4. src # dst /\ v > 0
    BY <1>1 DEF Moves
  <2>5. \A a \in Accounts : free'[a] = IF a = src THEN free[src] - v
                                      ELSE IF a = dst THEN free[dst] + v ELSE free[a]
    BY <1>0, <2>3, <2>4
  <2>6. free' \in [Accounts -> Nat]
    BY <1>0, <2>1, <2>3
  <2>7. \A a \in Accounts : free[a] \in Nat
    BY <1>0
  <2>8. \A a \in Accounts :
                 free'[a] = free[a] - (IF a = src /\ src # dst THEN v ELSE 0)
                                    + (IF a = dst /\ src # dst THEN v ELSE 0)
    BY <2>4, <2>5, <2>7
  <2>9. LedgerTypeOK'
    BY <1>0, <2>3, <2>6 DEF LedgerTypeOK
  <2> QED BY <1>0, <2>8, <2>9 DEF Takes
<1>2. CASE ~Moves(src, dst, v)
  <2>1. free' = free /\ issuance' = issuance /\ (v = 0 \/ src = dst)
    BY <1>2 DEF transfer, Moves
  <2>2. \A a \in Accounts : free[a] \in Nat
    BY <1>0
  <2>3. LedgerTypeOK'
    BY <1>0, <2>1 DEF LedgerTypeOK
  <2> QED BY <1>0, <2>1, <2>2, <2>3 DEF Takes
<1> QED BY <1>1, <1>2

\* The treasuries of the DAOs pay what was passed.
SpendsPassed ==
    \A o \in DaoOrgs :
          free'[DaoTreasury[o]] < free[DaoTreasury[o]] =>
             \E p \in DOMAIN dao.proposals \ DOMAIN dao'.proposals :
                /\ dao.proposals[p].org_id = o /\ dao.proposals[p].status = "Passed"
                /\ free[DaoTreasury[o]] - free'[DaoTreasury[o]] = dao.proposals[p].amount

LEMMA DaoStepSpends ==
    ASSUME LedgerTypeOK, DaoInv, DaoStep
    PROVE  LedgerTypeOK' /\ SpendsPassed
<1>1. ASSUME NEW p, execute_dao_proposal(p)
      PROVE  LedgerTypeOK' /\ SpendsPassed
  <2> DEFINE old == dao.proposals[p]
  <2>1. /\ p \in DOMAIN dao.proposals /\ old \in DaoProposal /\ old.status = "Passed"
        /\ transfer(DaoTreasury[old.org_id], old.beneficiary, old.amount, TRUE)
    BY <1>1 DEF execute_dao_proposal, DaoInv, DaoTypeOK
  <2>2. p \notin DOMAIN dao'.proposals
    BY <1>1 DEF execute_dao_proposal, DropsExecuted, Without, DaoInv, DaoTypeOK
  <2> DEFINE src == DaoTreasury[old.org_id]
             dst == old.beneficiary
             v == old.amount
  <2>3. /\ src \in Accounts /\ dst \in Accounts /\ v \in Nat /\ old.org_id \in DaoOrgs
    BY <2>1, DaoAssumption DEF DaoProposal
  <2>4. /\ LedgerTypeOK'
        /\ \A a \in Accounts :
                 free'[a] = free[a] - (IF a = src /\ src # dst THEN v ELSE 0)
                                    + (IF a = dst /\ src # dst THEN v ELSE 0)
    <3> HIDE DEF src, dst, v
    <3>1. transfer(src, dst, v, TRUE)
      BY <2>1 DEF src, dst, v
    <3>2. Takes(src, dst, v)
      BY <2>3, <3>1, TransferTakes DEF src, dst, v
    <3> QED BY <3>2 DEF Takes
  <2>5. ASSUME NEW o \in DaoOrgs, free'[DaoTreasury[o]] < free[DaoTreasury[o]]
        PROVE  old.org_id = o /\ free[DaoTreasury[o]] - free'[DaoTreasury[o]] = v
    <3>1. DaoTreasury[o] \in Accounts /\ free[DaoTreasury[o]] \in Nat
      BY DaoAssumption DEF LedgerTypeOK
    <3> HIDE DEF src, dst, v
    <3>2. DaoTreasury[o] = src /\ src # dst
      BY <2>3, <2>4, <2>5, <3>1
    <3>3. free'[DaoTreasury[o]] = free[DaoTreasury[o]] - v
      BY <2>3, <2>4, <3>1, <3>2
    <3>4. old.org_id = o
      BY <2>3, <3>2, DaoAssumption DEF src
    <3> QED BY <2>3, <3>1, <3>3, <3>4
  <2> QED BY <2>1, <2>2, <2>4, <2>5 DEF SpendsPassed
<1>2. CASE UNCHANGED ledger
  <2>1. LedgerTypeOK'
    BY <1>2 DEF ledger, LedgerTypeOK
  <2>2. ASSUME NEW o \in DaoOrgs
        PROVE  ~(free'[DaoTreasury[o]] < free[DaoTreasury[o]])
    BY <1>2, DaoAssumption DEF ledger, LedgerTypeOK
  <2> QED BY <2>1, <2>2 DEF SpendsPassed
<1> QED BY <1>1, <1>2 DEF DaoStep, instantiate_org, sync_council, create_dao_proposal, vote_dao_proposal

-----------------------------------------------------------------------------
(* The registries together                                                 *)

RegistersInv ==
    /\ KeysInv /\ ForumsInv /\ ChroniclesInv
    /\ RecoveryInv /\ MigrationInv /\ DaoInv

\* The block number never falls.
LEMMA ClockRuns ==
    ASSUME block \in Nat, [MCNext]_MCvars
    PROVE  block' \in Nat /\ block' >= block
<1>1. ASSUME NextBlock
      PROVE  block' \in Nat /\ block' >= block
  BY <1>1 DEF NextBlock
<1>2. CASE UNCHANGED block
  BY <1>2
<1>3. ASSUME CourtStep
      PROVE  UNCHANGED block \/ NextBlock
  BY <1>3 DEF CourtStep, open_case, issue_verdict, execute_hate_crime_verdict,
     execute_penalty_verdict, declare_usurper, on_initialize_constitution
<1>4. ASSUME JusticeNext
      PROVE  UNCHANGED block \/ NextBlock
  BY <1>3, <1>4 DEF JusticeNext
<1>5. ASSUME ProfitTaxStep
      PROVE  UNCHANGED block
  BY <1>5 DEF ProfitTaxStep, declare_annual_profit, set_regional_treasury,
     set_confederation_treasury
<1>6. ASSUME MixerStep
      PROVE  UNCHANGED block
  BY <1>6 DEF MixerStep, deposit, withdraw_mixed, reveal_transaction,
     submit_quarterly_audit
<1>7. ASSUME MoneyStep
      PROVE  UNCHANGED block
  BY <1>5, <1>6, <1>7 DEF MoneyStep
<1>8. ASSUME RecordStep
      PROVE  UNCHANGED block
  BY <1>8 DEF RecordStep, RecoveryStep, MigrationStep, issue_recovery_nfts, initiate_recovery,
     veto_recovery, confirm_recovery, submit_application, claim_application, finalize_application,
     revoke_application
<1>9. CASE UNCHANGED MCvars
  BY <1>2, <1>9 DEF MCvars
<1>10. CASE RegistriesNext
  BY <1>1, <1>2, <1>7, <1>8, <1>10 DEF RegistriesNext, RegisterStep, Tick
<1> QED BY <1>1, <1>2, <1>4, <1>9, <1>10 DEF MCNext

\* A step is of one of the registries at most.
LEMMA StepsOfRegisters ==
    ASSUME [MCNext]_MCvars
    PROVE  /\ KeyStep \/ UNCHANGED keys
           /\ ForumStep \/ UNCHANGED forums
           /\ ChronicleStep \/ UNCHANGED chronicles
           /\ RecoveryStep \/ UNCHANGED recovery
           /\ MigrationStep \/ UNCHANGED migration
           /\ DaoStep \/ UNCHANGED dao
<1>1. ASSUME UNCHANGED registryVars
      PROVE  UNCHANGED keys /\ UNCHANGED forums /\ UNCHANGED chronicles /\ UNCHANGED recovery
             /\ UNCHANGED migration /\ UNCHANGED dao
  BY <1>1 DEF registryVars
<1>2. CASE JusticeNext /\ UNCHANGED registryVars
  BY <1>1, <1>2 DEF JusticeNext
<1>3. CASE MoneyStep
  BY <1>3 DEF MoneyStep
<1>4. CASE RecordStep
  BY <1>4 DEF RecordStep
<1>5. CASE RegisterStep
  BY <1>5 DEF RegisterStep
<1>6. CASE Tick
  BY <1>1, <1>6 DEF Tick
<1>7. CASE UNCHANGED MCvars
  BY <1>1, <1>7 DEF MCvars
<1> QED BY <1>2, <1>3, <1>4, <1>5, <1>6, <1>7 DEF MCNext, RegistriesNext

LEMMA RegistersStep ==
    ASSUME RegistersInv, [MCNext]_MCvars
    PROVE  RegistersInv'
<1>1. /\ KeyStep \/ UNCHANGED keys
      /\ ForumStep \/ UNCHANGED forums
      /\ ChronicleStep \/ UNCHANGED chronicles
      /\ RecoveryStep \/ UNCHANGED recovery
      /\ MigrationStep \/ UNCHANGED migration
      /\ DaoStep \/ UNCHANGED dao
  BY StepsOfRegisters
<1>2. KeysInv'
  BY <1>1, KeyStepInv, KeysStay DEF RegistersInv
<1>3. ForumsInv'
  BY <1>1, ForumStepInv, ForumsStay DEF RegistersInv
<1>4. ChroniclesInv'
  BY <1>1, ChronicleStepInv, ChroniclesStay DEF RegistersInv
<1>5. RecoveryInv'
  <2>1. block \in Nat
    BY DEF RegistersInv, RecoveryInv, RecoveryTypeOK
  <2>2. block' \in Nat /\ block' >= block
    BY <2>1, ClockRuns
  <2> QED BY <1>1, <2>2, RecoveryStepInv, RecoveryStays DEF RegistersInv
<1>6. MigrationInv'
  BY <1>1, MigrationStepInv, MigrationStays DEF RegistersInv
<1>7. DaoInv'
  BY <1>1, DaoStepInv, DaoStays DEF RegistersInv
<1> QED BY <1>2, <1>3, <1>4, <1>5, <1>6, <1>7 DEF RegistersInv

LEMMA RegistersStart ==
    ASSUME MCInit
    PROVE  RegistersInv
<1>1. /\ keys = NoKeys /\ forums = NoMessages /\ chronicles = NoDocuments
      /\ recovery = NoRecoveries /\ migration = NoAnchors /\ dao = NoDaos /\ block = 0
  BY DEF MCInit, Founded
<1> QED BY <1>1, KeysStart, ForumsStart, ChroniclesStart, RecoveryStart, MigrationStart, DaoStart
        DEF RegistersInv

LEMMA RegistersInvariant == MCSpec => []RegistersInv
<1>1. MCInit => RegistersInv
  BY RegistersStart
<1>2. RegistersInv /\ [MCNext]_MCvars => RegistersInv'
  BY RegistersStep
<1> QED BY <1>1, <1>2, PTL DEF MCSpec

(***************************************************************************)
(* The indices of access-nft, forums and chronicles are those of their     *)
(* records: check_access and verify_sbt find the keys in force of a holder *)
(* and no other's, from a forum's threads one finds all its messages, and  *)
(* the documents of an author are those that pay him, whatever is issued,  *)
(* revoked, posted or published and in which order.                        *)
(***************************************************************************)
THEOREM Indices == MCSpec => []IndicesAgree
<1>1. RegistersInv => IndicesAgree
  <2> SUFFICES ASSUME RegistersInv PROVE IndicesAgree
    OBVIOUS
  <2>1. PortalsOpenByKeys
    BY IndexAnswers DEF RegistersInv
  <2>2. ThreadsAreWhole
    BY ThreadsAreFound DEF RegistersInv
  <2>3. AuthorsOwnTheirWorks
    BY DEF RegistersInv, ChroniclesInv
  <2> QED BY <2>1, <2>2, <2>3 DEF IndicesAgree
<1> QED BY <1>1, RegistersInvariant, PTL

(***************************************************************************)
(* Nobody decides twice: an account is recovered by as many guardians as   *)
(* its group asks for, an application in the migration center has one      *)
(* applicant and is approved at most once, and a proposal of a DAO has no  *)
(* more votes than ballots, although ballots outlive proposals and         *)
(* councillors leave and come back.                                        *)
(***************************************************************************)
THEOREM SingleDecisions == MCSpec => []DecisionsAreSingle
<1>1. RegistersInv => DecisionsAreSingle
  <2> SUFFICES ASSUME RegistersInv PROVE DecisionsAreSingle
    OBVIOUS
  <2>1. RecoveryNeedsGuardians
    BY GuardiansAreEnough DEF RegistersInv
  <2>2. ApplicationsHaveOneOwner
    BY ApplicationsAreOwned DEF RegistersInv
  <2>3. VotesAreBallots
    BY DEF RegistersInv, DaoInv
  <2> QED BY <2>1, <2>2, <2>3 DEF DecisionsAreSingle
<1> QED BY <1>1, RegistersInvariant, PTL

-----------------------------------------------------------------------------
(* Payments with KeepAlive, one after the other                            *)

\* A payment of v from src turns the balances bal into new.
Pays(bal, new, src, dst, v) ==
    /\ new \in [Accounts -> Nat]
    /\ \A a \in Accounts : a # src => new[a] = bal[a] + (IF a = dst THEN v ELSE 0)
    /\ new[src] = bal[src] - (IF dst = src THEN 0 ELSE v)

LEMMA OnePayment ==
    ASSUME NEW bal \in [Accounts -> Nat], NEW src \in Accounts, NEW dst \in Accounts, NEW v \in Nat,
           CanPay(bal, src, dst, v)
    PROVE  Pays(bal, PaidFrom(bal, src, dst, v), src, dst, v)
<1>0. \A a \in Accounts : bal[a] \in Nat
  OBVIOUS
<1>1. CASE Moves(src, dst, v)
  <2>1. src # dst /\ v > 0 /\ bal[src] >= v
    BY <1>0, <1>1, LedgerAssumption DEF Moves, CanPay
  <2> DEFINE new == [bal EXCEPT ![src] = @ - v, ![dst] = @ + v]
  <2>2. PaidFrom(bal, src, dst, v) = new
    BY <1>1 DEF PaidFrom
  <2>3. bal[src] - v \in Nat /\ bal[dst] + v \in Nat
    BY <1>0, <2>1
  <2>4. /\ new \in [Accounts -> Nat] /\ new[src] = bal[src] - v
        /\ \A a \in Accounts : a # src => new[a] = IF a = dst THEN bal[a] + v ELSE bal[a]
    BY <2>1, <2>3
  <2> HIDE DEF new
  <2> QED BY <1>0, <2>1, <2>2, <2>4 DEF Pays
<1>2. CASE ~Moves(src, dst, v)
  <2>1. PaidFrom(bal, src, dst, v) = bal /\ (v = 0 \/ src = dst)
    BY <1>2 DEF PaidFrom, Moves
  <2> QED BY <1>0, <2>1 DEF Pays
<1> QED BY <1>1, <1>2

\* Of accounts that do not pay, the sum grows by what they get.
LEMMA SumOfPayment ==
    ASSUME NEW bal \in [Accounts -> Nat], NEW new, NEW src \in Accounts, NEW dst \in Accounts,
           NEW v \in Nat, Pays(bal, new, src, dst, v), NEW S \in SUBSET Accounts, src \notin S
    PROVE  SumOver(new, S) = SumOver(bal, S) + (IF dst \in S THEN v ELSE 0)
<1>0. IsFiniteSet(S) /\ \A a \in S : bal[a] \in Int
  BY LedgerAssumption, FS_Subset
<1>1. \A a \in S : new[a] = bal[a] + (IF a = dst THEN v ELSE 0)
  BY DEF Pays
<1>2. CASE dst \in S
  <2>1. new[dst] = bal[dst] + v /\ \A a \in S \ {dst} : new[a] = bal[a]
    BY <1>0, <1>1, <1>2
  <2>2. SumOver(new, S) = SumOver(bal, S) + v
    BY <1>0, <1>2, <2>1, SumOfChange
  <2> QED BY <1>2, <2>2
<1>3. CASE dst \notin S
  <2>1. \A a \in S : new[a] = bal[a]
    BY <1>0, <1>1, <1>3
  <2>2. SumOver(new, S) = SumOver(bal, S) /\ SumOver(bal, S) \in Int
    BY <1>0, <2>1, SumOfSame, SumIsInt
  <2> QED BY <1>3, <2>2
<1> QED BY <1>2, <1>3

\* The balances after i payments, from those f after fewer.
PayStep(src, payments, f, i) ==
    IF i = 0 THEN free ELSE PaidFrom(f[i - 1], src, payments[i].dst, payments[i].v)

PaysIn(src, payments, n, f) == f = [i \in 0 .. n |-> PayStep(src, payments, f, i)]

LEMMA PaymentsExtend ==
    ASSUME NEW src, NEW payments, NEW m \in Nat, NEW g, PaysIn(src, payments, m, g)
    PROVE  \E h : PaysIn(src, payments, m + 1, h)
<1> DEFINE G(n) == PayStep(src, payments, g, n)
           h == [n \in 0 .. m + 1 |-> G(n)]
           H(n) == PayStep(src, payments, h, n)
<1>1. \A n \in 0 .. m : n \in 0 .. m + 1 /\ g[n] = G(n)
  BY DEF PaysIn
<1>2. \A n \in 0 .. m + 1 : h[n] = G(n)
  <2> HIDE DEF G
  <2> QED OBVIOUS
<1>3. \A n \in 0 .. m : h[n] = g[n]
  BY <1>1, <1>2
<1>4. \A n \in 0 .. m + 1 : H(n) = G(n)
  <2> HIDE DEF h
  <2> SUFFICES ASSUME NEW n \in 0 .. m + 1
               PROVE  H(n) = G(n)
    OBVIOUS
  <2>1. n = 0 \/ n - 1 \in 0 .. m
    OBVIOUS
  <2>2. n # 0 => h[n - 1] = g[n - 1]
    BY <1>3, <2>1
  <2> QED BY <2>2 DEF PayStep
<1>5. PaysIn(src, payments, m + 1, h)
  <2>1. h = [n \in 0 .. m + 1 |-> G(n)]
    OBVIOUS
  <2> HIDE DEF H, G, h
  <2>2. h = [n \in 0 .. m + 1 |-> H(n)]
    BY <1>4, <2>1
  <2> QED BY <2>2 DEF H, PaysIn
<1> HIDE DEF h
<1> QED BY <1>5

LEMMA PaymentsExist ==
    ASSUME NEW src, NEW payments, NEW n \in Nat
    PROVE  \E f : PaysIn(src, payments, n, f)
<1> DEFINE T == {k \in Nat : ~ \E f : PaysIn(src, payments, k, f)}
<1>1. SUFFICES ASSUME T # {} PROVE FALSE
  OBVIOUS
<1>2. PICK m \in T : \A k \in T : m <= k
  BY <1>1, LeastNatural
<1>3. CASE m = 0
  <2> DEFINE g == [k \in 0 .. 0 |-> free]
             Z(k) == PayStep(src, payments, g, k)
  <2>1. \A k \in 0 .. 0 : Z(k) = free
    BY DEF PayStep
  <2>2. g = [k \in 0 .. 0 |-> free]
    OBVIOUS
  <2> HIDE DEF g, Z
  <2>3. g = [k \in 0 .. 0 |-> Z(k)]
    BY <2>1, <2>2
  <2>4. PaysIn(src, payments, 0, g)
    BY <2>3 DEF PaysIn, Z
  <2> QED BY <1>2, <1>3, <2>4
<1>4. CASE m # 0
  <2>1. m - 1 \in Nat /\ m - 1 \notin T /\ (m - 1) + 1 = m
    BY <1>2, <1>4
  <2>2. PICK g : PaysIn(src, payments, m - 1, g)
    BY <2>1
  <2>3. \E h : PaysIn(src, payments, (m - 1) + 1, h)
    BY <2>1, <2>2, PaymentsExtend
  <2> QED BY <1>2, <2>1, <2>3
<1> QED BY <1>3, <1>4

\* What Balances returns.
LEMMA BalancesAreThose ==
    ASSUME NEW src, NEW payments, Len(payments) \in Nat
    PROVE  PaysIn(src, payments, Len(payments), Balances(src, payments))
<1>1. PaysIn(src, payments, Len(payments), CHOOSE f : PaysIn(src, payments, Len(payments), f))
  BY PaymentsExist
<1> QED BY <1>1 DEF PaysIn, PayStep, Balances

\* Calls of several payments: the balances after each.
InOrder(src, payments, n, after) ==
    /\ after[0] = free /\ free' = after[n]
    /\ \A i \in 1 .. n :
          /\ after[i - 1] \in [Accounts -> Nat]
          /\ Pays(after[i - 1], after[i], src, payments[i].dst, payments[i].v)

\* Nobody but those in S has less.
OnlyPay(S) ==
    /\ LedgerTypeOK'
    /\ \A a \in Accounts \ S : free'[a] >= free[a]

PaymentsOK(payments, n) ==
    /\ Len(payments) = n /\ DOMAIN payments = 1 .. n
    /\ \A i \in 1 .. n : payments[i].dst \in Accounts /\ payments[i].v \in Nat

LEMMA OrderedPayments ==
    ASSUME LedgerTypeOK, NEW src \in Accounts, NEW n \in Nat, NEW payments, PaymentsOK(payments, n),
           pay_in_order(src, payments)
    PROVE  /\ OnlyPay({src}) /\ reserved' = reserved
           /\ \E after : InOrder(src, payments, n, after)
<1> DEFINE after == Balances(src, payments)
           Good(k) == /\ after[k] \in [Accounts -> Nat]
                      /\ \A a \in Accounts : a # src => after[k][a] >= free[a]
           T == {k \in 0 .. n : ~Good(k)}
<1>1. PaysIn(src, payments, n, after)
  BY BalancesAreThose DEF PaymentsOK
<1>2. /\ \A i \in 1 .. n : CanPay(after[i - 1], src, payments[i].dst, payments[i].v)
      /\ free' = after[n] /\ UNCHANGED <<reserved, frozen, issuance>>
  BY DEF pay_in_order, PaymentsOK
<1> HIDE DEF after
<1>3. \A i \in 0 .. n : after[i] = PayStep(src, payments, after, i)
  BY <1>1 DEF PaysIn
<1>4. after[0] = free
  BY <1>3 DEF PayStep
<1>5. \A i \in 1 .. n : after[i] = PaidFrom(after[i - 1], src, payments[i].dst, payments[i].v)
  BY <1>3 DEF PayStep
<1>6. ASSUME NEW i \in 1 .. n, after[i - 1] \in [Accounts -> Nat]
      PROVE  Pays(after[i - 1], after[i], src, payments[i].dst, payments[i].v)
  <2> DEFINE bal == after[i - 1]
             dst == payments[i].dst
             v == payments[i].v
  <2>1. dst \in Accounts /\ v \in Nat
    BY DEF PaymentsOK
  <2>2. CanPay(bal, src, dst, v) /\ after[i] = PaidFrom(bal, src, dst, v)
    BY <1>2, <1>5
  <2>3. bal \in [Accounts -> Nat]
    BY <1>6
  <2> HIDE DEF bal, dst, v
  <2>4. Pays(bal, after[i], src, dst, v)
    BY <2>1, <2>2, <2>3, OnePayment
  <2> QED BY <2>4 DEF bal, dst, v
<1>7. T = {}
  <2>1. SUFFICES ASSUME T # {} PROVE FALSE
    OBVIOUS
  <2>a. T \subseteq Nat
    OBVIOUS
  <2>2. PICK m \in T : \A k \in T : m <= k
    <3> HIDE DEF T
    <3> QED BY <2>1, <2>a, LeastNatural
  <2>3. m # 0
    <3>1. free \in [Accounts -> Nat]
      BY DEF LedgerTypeOK
    <3>2. Good(0)
      BY <1>4, <3>1
    <3> QED BY <2>2, <3>2
  <2>4. m \in 1 .. n /\ m - 1 \in 0 .. n /\ m - 1 \notin T
    BY <2>2, <2>3
  <2>5. Good(m - 1)
    BY <2>4
  <2>6. Pays(after[m - 1], after[m], src, payments[m].dst, payments[m].v)
    BY <1>6, <2>4, <2>5
  <2>7. payments[m].v \in Nat
    BY <2>4 DEF PaymentsOK
  <2>8. ASSUME NEW a \in Accounts, a # src
        PROVE  after[m][a] >= free[a]
    <3>1. after[m - 1][a] \in Nat /\ free[a] \in Nat /\ after[m - 1][a] >= free[a]
      BY <2>5, <2>8 DEF LedgerTypeOK
    <3>2. after[m][a] = after[m - 1][a] + (IF a = payments[m].dst THEN payments[m].v ELSE 0)
      BY <2>6, <2>8 DEF Pays
    <3> QED BY <2>7, <3>1, <3>2
  <2>9. Good(m)
    BY <2>6, <2>8 DEF Pays
  <2> QED BY <2>2, <2>9
<1>8. \A k \in 0 .. n : Good(k)
  BY <1>7
<1>9. InOrder(src, payments, n, after)
  <2>1. \A i \in 1 .. n : i - 1 \in 0 .. n
    OBVIOUS
  <2> QED BY <1>2, <1>4, <1>6, <1>8, <2>1 DEF InOrder
<1>10. OnlyPay({src})
  <2>1. Good(n)
    BY <1>8
  <2>2. LedgerTypeOK'
    BY <1>2, <2>1 DEF LedgerTypeOK
  <2> QED BY <1>2, <2>1, <2>2 DEF OnlyPay
<1> QED BY <1>2, <1>9, <1>10

-----------------------------------------------------------------------------
(* Fees                                                                    *)

LEMMA FeeShares ==
    ASSUME NEW fee \in Nat
    PROVE  /\ (fee * 36) \div 100 \in Nat /\ (fee * 10) \div 100 \in Nat
           /\ KhuralShare(fee) \in Nat
           /\ (fee * 36) \div 100 + (fee * 10) \div 100 + KhuralShare(fee) = fee
<1>1. /\ (fee * 36) \div 100 \in Nat /\ (fee * 10) \div 100 \in Nat
      /\ (fee * 36) \div 100 + (fee * 10) \div 100 <= (fee * 36 + fee * 10) \div 100
  BY DivisionOfSum
<1>2. (fee * 36 + fee * 10) \div 100 <= (fee * 100) \div 100 /\ (fee * 100) \div 100 = fee
  <2>1. fee * 36 + fee * 10 \in Nat /\ fee * 100 \in Nat /\ fee * 36 + fee * 10 <= fee * 100
    OBVIOUS
  <2> QED BY <2>1, DivisionKeepsOrder
<1>3. (fee * 36 + fee * 10) \div 100 \in Nat
  BY DivisionKeepsOrder
<1> QED BY <1>1, <1>2, <1>3 DEF KhuralShare

LEMMA FeesAreNatural ==
    ASSUME NEW v \in Nat
    PROVE  FeeOf(v) \in Nat /\ FeeOf(v) <= FeeCap
<1>1. (v * 3) \div 10000 \in Nat
  BY DivisionKeepsOrder
<1> QED BY <1>1, AltanTaxAssumption DEF FeeOf

FeeList(dest, v, x, y, z) ==
    <<Payment(dest, v), Payment(AgTreasuryAccount, x), Payment(ValidatorPoolAccount, y),
      Payment(KhuralFoundationAccount, z)>>

FeesMove(a, b, v, x, y, z) ==
    /\ OnlyPay({a}) /\ reserved' = reserved
    /\ SumOver(free', Collectors) = SumOver(free, Collectors) + x + y + z
    /\ free'[a] = free[a] - (IF a = b THEN 0 ELSE v) - x - y - z

\* Four payments by somebody who is not one of the collectors.
LEMMA FourPayments ==
    ASSUME LedgerTypeOK, NEW a \in Payers, NEW b \in Payers, NEW v \in Nat,
           NEW x \in Nat, NEW y \in Nat, NEW z \in Nat,
           pay_in_order(a, FeeList(b, v, x, y, z))
    PROVE  FeesMove(a, b, v, x, y, z)
<1> DEFINE list == FeeList(b, v, x, y, z)
<1>0. /\ a \in Accounts /\ b \in Accounts /\ a \notin Collectors /\ b \notin Collectors
      /\ Collectors \subseteq Accounts
      /\ {AgTreasuryAccount, ValidatorPoolAccount, KhuralFoundationAccount} = Collectors
  BY AltanTaxAssumption, TillsAssumption DEF Collectors
<1>1. /\ list[1].dst = b /\ list[1].v = v
      /\ list[2].dst = AgTreasuryAccount /\ list[2].v = x
      /\ list[3].dst = ValidatorPoolAccount /\ list[3].v = y
      /\ list[4].dst = KhuralFoundationAccount /\ list[4].v = z
      /\ Len(list) = 4 /\ DOMAIN list = 1 .. 4
  BY DEF FeeList, Payment
<1> HIDE DEF list
<1>2. PaymentsOK(list, 4)
  <2>1. \A i \in 1 .. 4 : i = 1 \/ i = 2 \/ i = 3 \/ i = 4
    OBVIOUS
  <2> QED BY <1>0, <1>1, <2>1 DEF PaymentsOK
<1>3. pay_in_order(a, list)
  BY DEF list
<1>4. /\ OnlyPay({a}) /\ reserved' = reserved
      /\ \E after : InOrder(a, list, 4, after)
  BY <1>0, <1>2, <1>3, OrderedPayments
<1>5. PICK after : InOrder(a, list, 4, after)
  BY <1>4
<1>6. after[0] = free /\ free' = after[4]
  BY <1>5 DEF InOrder
<1>7. \A i \in 1 .. 4 : after[i - 1] \in [Accounts -> Nat]
                        /\ Pays(after[i - 1], after[i], a, list[i].dst, list[i].v)
  BY <1>5 DEF InOrder
<1>8. /\ after[0] \in [Accounts -> Nat] /\ after[1] \in [Accounts -> Nat]
      /\ after[2] \in [Accounts -> Nat] /\ after[3] \in [Accounts -> Nat]
  BY <1>7
<1>9. /\ Pays(after[0], after[1], a, b, v)
      /\ Pays(after[1], after[2], a, AgTreasuryAccount, x)
      /\ Pays(after[2], after[3], a, ValidatorPoolAccount, y)
      /\ Pays(after[3], after[4], a, KhuralFoundationAccount, z)
  BY <1>1, <1>7
<1>10. /\ AgTreasuryAccount \in Accounts \ {a} /\ ValidatorPoolAccount \in Accounts \ {a}
       /\ KhuralFoundationAccount \in Accounts \ {a}
       /\ AgTreasuryAccount \in Collectors /\ ValidatorPoolAccount \in Collectors
       /\ KhuralFoundationAccount \in Collectors
  BY <1>0
<1>11. SumOver(after[1], Collectors) = SumOver(after[0], Collectors) + 0
  BY <1>0, <1>8, <1>9, SumOfPayment
<1>12. SumOver(after[2], Collectors) = SumOver(after[1], Collectors) + x
  BY <1>0, <1>8, <1>9, <1>10, SumOfPayment
<1>13. SumOver(after[3], Collectors) = SumOver(after[2], Collectors) + y
  BY <1>0, <1>8, <1>9, <1>10, SumOfPayment
<1>14. SumOver(after[4], Collectors) = SumOver(after[3], Collectors) + z
  BY <1>0, <1>8, <1>9, <1>10, SumOfPayment
<1>15. SumOver(after[0], Collectors) \in Int
  <2>1. IsFiniteSet(Collectors) /\ \A c \in Collectors : after[0][c] \in Int
    BY <1>0, <1>8, LedgerAssumption, FS_Subset
  <2> QED BY <2>1, SumIsInt
<1>16. SumOver(free', Collectors) = SumOver(free, Collectors) + x + y + z
  <2> DEFINE s0 == SumOver(after[0], Collectors)
             s1 == SumOver(after[1], Collectors)
             s2 == SumOver(after[2], Collectors)
             s3 == SumOver(after[3], Collectors)
             s4 == SumOver(after[4], Collectors)
  <2>1. s0 \in Int /\ s1 = s0 + 0 /\ s2 = s1 + x /\ s3 = s2 + y /\ s4 = s3 + z
    BY <1>11, <1>12, <1>13, <1>14, <1>15
  <2> HIDE DEF s0, s1, s2, s3, s4
  <2>2. s4 = s0 + x + y + z
    BY <2>1
  <2> QED BY <2>2, <1>6 DEF s0, s4
<1>17. free'[a] = free[a] - (IF a = b THEN 0 ELSE v) - x - y - z
  <2>1. /\ after[1][a] = after[0][a] - (IF b = a THEN 0 ELSE v)
        /\ after[2][a] = after[1][a] - x
        /\ after[3][a] = after[2][a] - y
        /\ after[4][a] = after[3][a] - z
    BY <1>9, <1>10 DEF Pays
  <2>2. after[0][a] \in Nat
    BY <1>0, <1>8
  <2> QED BY <1>6, <2>1, <2>2
<1> QED BY <1>4, <1>16, <1>17 DEF FeesMove

LEMMA FeeStepIsWhole ==
    ASSUME LedgerTypeOK, FeeStep
    PROVE  OnlyPay(Payers) /\ FeeIsWhole
<1>1. PICK a \in Payers, b \in Payers, v \in Amounts : transfer_with_fee(a, b, v)
  BY DEF FeeStep
<1> DEFINE fee == FeeOf(v)
           x == (fee * 36) \div 100
           y == (fee * 10) \div 100
           z == KhuralShare(fee)
<1>2. v \in Nat /\ fee \in Nat /\ fee <= FeeCap
  BY AltanTaxAssumption, FeesAreNatural
<1>3. pay_in_order(a, FeeList(b, v, x, y, z))
  BY <1>1 DEF transfer_with_fee, FeeList
<1> HIDE DEF fee
<1>4. x \in Nat /\ y \in Nat /\ z \in Nat /\ x + y + z = fee
  BY <1>2, FeeShares
<1> HIDE DEF x, y, z
<1>5. /\ OnlyPay({a})
      /\ SumOver(free', Collectors) = SumOver(free, Collectors) + x + y + z
      /\ free'[a] = free[a] - (IF a = b THEN 0 ELSE v) - x - y - z
  <2>1. FeesMove(a, b, v, x, y, z)
    BY <1>2, <1>3, <1>4, FourPayments
  <2> QED BY <2>1 DEF FeesMove
<1>6. SumOver(free, Collectors) \in Int /\ free[a] \in Nat
  <2>1. Collectors \subseteq Accounts /\ a \in Accounts
    BY AltanTaxAssumption DEF Collectors
  <2>2. IsFiniteSet(Collectors) /\ \A c \in Collectors : free[c] \in Int
    BY <2>1, LedgerAssumption, FS_Subset DEF LedgerTypeOK
  <2> QED BY <2>1, <2>2, SumIsInt DEF LedgerTypeOK
<1>7. SumOver(free', Collectors) - SumOver(free, Collectors) = fee
  <2> DEFINE s == SumOver(free, Collectors)
             t == SumOver(free', Collectors)
  <2>1. s \in Int /\ t = s + x + y + z
    BY <1>5, <1>6
  <2> HIDE DEF s, t
  <2>2. t - s = fee
    BY <2>1, <1>4, <1>2
  <2> QED BY <2>2 DEF s, t
<1>8. free[a] - free'[a] = fee + (IF a = b THEN 0 ELSE v)
  <2> DEFINE paid == IF a = b THEN 0 ELSE v
             p == free[a]
             q == free'[a]
  <2>1. paid \in Nat /\ p \in Nat /\ q = p - paid - x - y - z
    BY <1>2, <1>5, <1>6
  <2> HIDE DEF paid, p, q
  <2>2. p - q = fee + paid
    BY <1>2, <1>4, <2>1
  <2> QED BY <2>2 DEF paid, p, q
<1>9. FeeIsWhole
  BY <1>2, <1>7, <1>8 DEF FeeIsWhole, fee
<1>10. OnlyPay(Payers)
  BY <1>5 DEF OnlyPay
<1> QED BY <1>9, <1>10

-----------------------------------------------------------------------------
(* The tax on profits                                                      *)

BaseTax(profit, large_family) ==
    (profit * (IF large_family THEN LargeFamilyTaxRatePermill ELSE StandardTaxRatePermill)) \div 1000

TaxOf(base_tax, days) ==
    base_tax + (IF days = 0 THEN 0 ELSE compute_shtraf(base_tax)) + compute_peni(base_tax, days)

\* Of a base, more days cost no less.
LEMMA TaxGrowsWithDays ==
    ASSUME NEW base \in Nat, NEW d \in Nat, NEW e \in Nat, d <= e
    PROVE  /\ TaxOf(base, d) \in Nat /\ TaxOf(base, e) \in Nat
           /\ TaxOf(base, d) <= TaxOf(base, e)
<1>1. compute_shtraf(base) \in Nat
  BY DivisionKeepsOrder DEF compute_shtraf
<1> DEFINE k == base * 5
<1>2. k \in Nat
  OBVIOUS
<1>3. d * k \in Nat /\ e * k \in Nat /\ d * k <= e * k
  <2> HIDE DEF k
  <2> QED BY <1>2, ProductKeepsOrder
<1>4. k * d = d * k /\ k * e = e * k
  <2> HIDE DEF k
  <2> QED BY <1>2
<1>5. /\ (k * d) \div 36500 \in Nat /\ (k * e) \div 36500 \in Nat
      /\ (k * d) \div 36500 <= (k * e) \div 36500
  <2> HIDE DEF k
  <2> QED BY <1>3, <1>4, DivisionKeepsOrder
<1>6. compute_peni(base, d) = (k * d) \div 36500 /\ compute_peni(base, e) = (k * e) \div 36500
  BY DEF compute_peni
<1> HIDE DEF k
<1> DEFINE p == compute_peni(base, d)
           q == compute_peni(base, e)
           s == compute_shtraf(base)
<1>7. p \in Nat /\ q \in Nat /\ p <= q /\ s \in Nat
  BY <1>1, <1>5, <1>6
<1>8. TaxOf(base, d) = base + (IF d = 0 THEN 0 ELSE s) + p
      /\ TaxOf(base, e) = base + (IF e = 0 THEN 0 ELSE s) + q
  BY DEF TaxOf
<1> HIDE DEF p, q, s
<1> QED BY <1>7, <1>8

\* A later time is later by no fewer days.
LEMMA DaysGrow ==
    ASSUME NEW now \in Nat, NEW later \in Nat, now <= later, NEW y \in Nat
    PROVE  /\ days_late(now, y) \in Nat /\ days_late(later, y) \in Nat
           /\ days_late(now, y) <= days_late(later, y)
<1> DEFINE start == year_start_secs(y) + 106 * SECONDS_PER_DAY
           p == (now - start) \div 86400
           q == (later - start) \div 86400
<1>1. start \in Int
  BY DEF year_start_secs, ANCHOR_TIMESTAMP, ANCHOR_YEAR, SECONDS_PER_YEAR, SECONDS_PER_DAY
<1>2. /\ days_late(now, y) =
            IF now < start THEN 0 ELSE IF p + 1 <= MAX_DAYS_LATE THEN p + 1 ELSE MAX_DAYS_LATE
      /\ days_late(later, y) =
            IF later < start THEN 0 ELSE IF q + 1 <= MAX_DAYS_LATE THEN q + 1 ELSE MAX_DAYS_LATE
  BY DEF days_late, SECONDS_PER_DAY
<1> HIDE DEF start
<1>3. /\ now >= start => p \in Nat /\ q \in Nat /\ p <= q
      /\ later >= start => q \in Nat
  <2>1. ASSUME now >= start
        PROVE  p \in Nat /\ q \in Nat /\ p <= q
    <3>1. now - start \in Nat /\ later - start \in Nat /\ now - start <= later - start
      BY <1>1, <2>1
    <3> QED BY <3>1, DivisionKeepsOrder
  <2>2. ASSUME later >= start
        PROVE  q \in Nat
    <3>1. later - start \in Nat
      BY <1>1, <2>2
    <3> QED BY <3>1, DivisionKeepsOrder
  <2> QED BY <2>1, <2>2
<1> HIDE DEF p, q
<1>4. MAX_DAYS_LATE = 259
  BY DEF MAX_DAYS_LATE
<1> QED BY <1>1, <1>2, <1>3, <1>4

\* What a record of a declaration says.
RecordSays(rec, profit, large_family, now, days) ==
    /\ rec.declared_profit = profit /\ rec.large_family_rate = large_family /\ rec.paid_at = now
    /\ rec.total_paid = TaxOf(BaseTax(profit, large_family), days)
    /\ rec.total_paid \in Nat /\ rec.regional_share \in Nat /\ rec.confederation_share \in Nat
    /\ rec.regional_share + rec.confederation_share = rec.total_paid

LEMMA BaseIsNatural ==
    ASSUME NEW profit \in Nat, NEW large_family \in BOOLEAN
    PROVE  BaseTax(profit, large_family) \in Nat
<1> DEFINE r == IF large_family THEN LargeFamilyTaxRatePermill ELSE StandardTaxRatePermill
<1>1. r \in {50, 100}
  BY DEF LargeFamilyTaxRatePermill, StandardTaxRatePermill
<1>2. profit * r \in Nat
  BY <1>1
<1> HIDE DEF r
<1>3. (profit * r) \div 1000 \in Nat
  BY <1>2, DivisionKeepsOrder
<1> QED BY <1>3 DEF BaseTax, r

LEMMA RecordsSay ==
    ASSUME NEW profit \in Nat, NEW large_family \in BOOLEAN, NEW now \in Nat, NEW days \in Nat
    PROVE  RecordSays(ProfitRecord(profit, large_family, now, days), profit, large_family, now, days)
<1> DEFINE base == BaseTax(profit, large_family)
           total == TaxOf(base, days)
           reg == (total * 70) \div 100
           rec == ProfitRecord(profit, large_family, now, days)
<1>1. base \in Nat
  BY BaseIsNatural
<1>2. rec.declared_profit = profit /\ rec.large_family_rate = large_family /\ rec.paid_at = now
      /\ rec.total_paid = total /\ rec.regional_share = reg /\ rec.confederation_share = total - reg
  BY DEF ProfitRecord, BaseTax, TaxOf
<1> HIDE DEF base
<1>3. total \in Nat
  BY <1>1, TaxGrowsWithDays
<1> HIDE DEF total, rec
<1>4. reg \in Nat /\ reg <= (total * 100) \div 100 /\ (total * 100) \div 100 = total
  <2>1. total * 70 \in Nat /\ total * 100 \in Nat /\ total * 70 <= total * 100
    BY <1>3
  <2> QED BY <1>3, <2>1, DivisionKeepsOrder
<1> HIDE DEF reg
<1>5. rec.total_paid = TaxOf(BaseTax(profit, large_family), days)
  BY <1>2 DEF total, base
<1>6. reg + (total - reg) = total /\ total - reg \in Nat
  BY <1>3, <1>4
<1>7. /\ rec.total_paid \in Nat /\ rec.regional_share \in Nat /\ rec.confederation_share \in Nat
      /\ rec.regional_share + rec.confederation_share = rec.total_paid
  BY <1>2, <1>3, <1>4, <1>6
<1>8. RecordSays(rec, profit, large_family, now, days)
  BY <1>2, <1>5, <1>7 DEF RecordSays
<1> QED BY <1>8 DEF rec

PairMoves(src, S, x, y) ==
    /\ OnlyPay({src}) /\ reserved' = reserved
    /\ SumOver(free', S) = SumOver(free, S) + x + y

\* Two payments to accounts in S, by one that is not.
LEMMA TwoPayments ==
    ASSUME LedgerTypeOK, NEW S \in SUBSET Accounts, NEW src \in Accounts \ S, NEW t \in S, NEW u \in S,
           NEW x \in Nat, NEW y \in Nat,
           pay_in_order(src, <<Payment(t, x), Payment(u, y)>>)
    PROVE  PairMoves(src, S, x, y)
<1> DEFINE list == <<Payment(t, x), Payment(u, y)>>
<1>1. /\ list[1].dst = t /\ list[1].v = x /\ list[2].dst = u /\ list[2].v = y
      /\ Len(list) = 2 /\ DOMAIN list = 1 .. 2
  BY DEF Payment
<1> HIDE DEF list
<1>2. PaymentsOK(list, 2)
  <2>1. \A i \in 1 .. 2 : i = 1 \/ i = 2
    OBVIOUS
  <2>2. t \in Accounts /\ u \in Accounts
    OBVIOUS
  <2> QED BY <1>1, <2>1, <2>2 DEF PaymentsOK
<1>3. pay_in_order(src, list)
  BY DEF list
<1>4. /\ OnlyPay({src}) /\ reserved' = reserved
      /\ \E after : InOrder(src, list, 2, after)
  BY <1>2, <1>3, OrderedPayments
<1>5. PICK after : InOrder(src, list, 2, after)
  BY <1>4
<1>6. after[0] = free /\ free' = after[2]
  BY <1>5 DEF InOrder
<1>7. \A i \in 1 .. 2 : after[i - 1] \in [Accounts -> Nat]
                        /\ Pays(after[i - 1], after[i], src, list[i].dst, list[i].v)
  BY <1>5 DEF InOrder
<1>8. /\ after[0] \in [Accounts -> Nat] /\ after[1] \in [Accounts -> Nat]
      /\ Pays(after[0], after[1], src, t, x) /\ Pays(after[1], after[2], src, u, y)
  BY <1>1, <1>7
<1>9. /\ SumOver(after[1], S) = SumOver(after[0], S) + x
      /\ SumOver(after[2], S) = SumOver(after[1], S) + y
  BY <1>8, SumOfPayment
<1>10. SumOver(after[0], S) \in Int
  <2>1. IsFiniteSet(S) /\ \A c \in S : after[0][c] \in Int
    BY <1>8, LedgerAssumption, FS_Subset
  <2> QED BY <2>1, SumIsInt
<1>11. SumOver(free', S) = SumOver(free, S) + x + y
  <2> DEFINE s0 == SumOver(after[0], S)
             s1 == SumOver(after[1], S)
             s2 == SumOver(after[2], S)
  <2>1. s0 \in Int /\ s1 = s0 + x /\ s2 = s1 + y
    BY <1>9, <1>10
  <2> HIDE DEF s0, s1, s2
  <2>2. s2 = s0 + x + y
    BY <2>1
  <2> QED BY <2>2, <1>6 DEF s0, s2
<1> QED BY <1>4, <1>11 DEF PairMoves

\* The totals of the declarations d.
TotalsPaid(d) == [k \in DOMAIN d |-> d[k].total_paid]

IsDeclaration(k, rec) ==
    /\ k[2] \in Nat
    /\ \E p \in Nat, f \in BOOLEAN, t \in Nat : RecordSays(rec, p, f, t, days_late(t, k[2]))

ProfitTypeOK ==
    /\ profitTax = [declarations |-> profitTax.declarations, regional |-> profitTax.regional,
                    confederation |-> profitTax.confederation]
    /\ profitTax.regional \in TaxTreasuries /\ profitTax.confederation \in TaxTreasuries
    /\ IsFiniteSet(DOMAIN profitTax.declarations)
    /\ \A k \in DOMAIN profitTax.declarations : IsDeclaration(k, profitTax.declarations[k])

\* What the treasuries hold is what they held first and what was paid.
ProfitInv ==
    /\ ProfitTypeOK
    /\ SumOver(free, TaxTreasuries) =
          ExistentialDeposit * Cardinality(TaxTreasuries)
             + SumOver(TotalsPaid(profitTax.declarations), DOMAIN profitTax.declarations)

LEMMA OpeningIsInt ==
    ExistentialDeposit * Cardinality(TaxTreasuries) \in Int
<1>1. Cardinality(TaxTreasuries) \in Nat
  BY ProfitTaxAssumption, LedgerAssumption, FS_Subset, FS_CardinalityType
<1> QED BY <1>1, LedgerAssumption

\* A declaration more is the tax of one more.
LEMMA DeclaredSum ==
    ASSUME NEW d, IsFiniteSet(DOMAIN d), NEW key, key \notin DOMAIN d, NEW rec, rec.total_paid \in Nat,
           \A k \in DOMAIN d : d[k].total_paid \in Nat
    PROVE  /\ IsFiniteSet(DOMAIN Put(d, key, rec))
           /\ SumOver(TotalsPaid(d), DOMAIN d) \in Int
           /\ SumOver(TotalsPaid(Put(d, key, rec)), DOMAIN Put(d, key, rec)) =
                 SumOver(TotalsPaid(d), DOMAIN d) + rec.total_paid
<1> DEFINE D == DOMAIN d
           new == Put(d, key, rec)
           f == TotalsPaid(d)
           h == TotalsPaid(new)
<1>1. DOMAIN new = D \cup {key} /\ new[key] = rec /\ \A k \in D : new[k] = d[k]
  BY DEF Put
<1>2. /\ \A k \in D : f[k] = d[k].total_paid /\ h[k] = d[k].total_paid
      /\ h[key] = rec.total_paid
  <2> HIDE DEF new
  <2> QED BY <1>1 DEF TotalsPaid
<1> HIDE DEF f, h, new
<1>3. \A k \in D : h[k] = f[k] /\ h[k] \in Int /\ f[k] \in Int
  BY <1>2
<1>4. IsFiniteSet(D)
  OBVIOUS
<1>5. IsFiniteSet(D \cup {key})
  BY <1>4, FS_AddElement
<1> HIDE DEF D
<1>6. SumOver(f, D) \in Int /\ SumOver(h, D) = SumOver(f, D)
  BY <1>3, <1>4, SumIsInt, SumOfSame
<1>7. SumOver(h, D \cup {key}) = SumOver(h, D) + h[key]
  <2>1. key \notin D /\ \A k \in D \cup {key} : h[k] \in Int
    BY <1>2, <1>3 DEF D
  <2> QED BY <1>4, <2>1, SumOfOneMore
<1> QED BY <1>1, <1>2, <1>5, <1>6, <1>7 DEF D, f, h, new

LEMMA DeclareStep ==
    ASSUME LedgerTypeOK, ProfitInv, block \in 0 .. MaxBlock,
           NEW a \in Declarers, NEW y \in TaxYears, NEW p \in Profits, NEW f \in BOOLEAN,
           declare_annual_profit(a, y, p, f)
    PROVE  OnlyPay(Declarers) /\ ProfitInv'
<1> DEFINE now == TimeOf[block]
           days == days_late(now, y)
           rec == ProfitRecord(p, f, now, days)
           key == <<a, y>>
           d == profitTax.declarations
<1>1. now \in Nat /\ y \in Nat /\ p \in Nat /\ a \in Accounts /\ a \notin TaxTreasuries
      /\ TaxTreasuries \in SUBSET Accounts
  BY ProfitTaxAssumption, TillsAssumption
<1>2. days \in Nat
  <2> HIDE DEF now
  <2>1. now <= now
    BY <1>1
  <2> QED BY <1>1, <2>1, DaysGrow
<1>3. /\ key \notin DOMAIN d
      /\ pay_in_order(a, <<Payment(profitTax.regional, rec.regional_share),
                           Payment(profitTax.confederation, rec.confederation_share)>>)
      /\ profitTax' = [profitTax EXCEPT !.declarations = Put(d, key, rec)]
  BY DEF declare_annual_profit, NotDeclared, now_secs
<1> HIDE DEF now, days
<1>4. RecordSays(rec, p, f, now, days)
  BY <1>1, <1>2, RecordsSay
<1> HIDE DEF rec
<1>5. /\ rec.total_paid \in Nat /\ rec.regional_share \in Nat /\ rec.confederation_share \in Nat
      /\ rec.regional_share + rec.confederation_share = rec.total_paid
  BY <1>4 DEF RecordSays
<1>6. profitTax.regional \in TaxTreasuries /\ profitTax.confederation \in TaxTreasuries
  BY DEF ProfitInv, ProfitTypeOK
<1>7. PairMoves(a, TaxTreasuries, rec.regional_share, rec.confederation_share)
  BY <1>1, <1>3, <1>5, <1>6, TwoPayments
<1>8. OnlyPay(Declarers)
  BY <1>7 DEF PairMoves, OnlyPay
<1>9. \A k \in DOMAIN d : IsDeclaration(k, d[k]) /\ d[k].total_paid \in Nat
  BY DEF ProfitInv, ProfitTypeOK, IsDeclaration, RecordSays
<1> DEFINE new == Put(d, key, rec)
<1>10. /\ DOMAIN new = DOMAIN d \cup {key} /\ new[key] = rec
       /\ \A k \in DOMAIN d : new[k] = d[k]
  <2> HIDE DEF key, d
  <2>1. key \notin DOMAIN d
    BY <1>3 DEF d
  <2> QED BY <2>1 DEF Put
<1>11. IsDeclaration(key, rec)
  <2>1. key[2] = y
    OBVIOUS
  <2>2. RecordSays(rec, p, f, now, days_late(now, key[2]))
    BY <1>4, <2>1 DEF days
  <2> QED BY <1>1, <2>1, <2>2, Zenon DEF IsDeclaration
<1>12. /\ IsFiniteSet(DOMAIN new)
       /\ SumOver(TotalsPaid(d), DOMAIN d) \in Int
       /\ SumOver(TotalsPaid(new), DOMAIN new) = SumOver(TotalsPaid(d), DOMAIN d) + rec.total_paid
  <2>1. IsFiniteSet(DOMAIN d)
    BY DEF ProfitInv, ProfitTypeOK
  <2> HIDE DEF key
  <2> QED BY <1>3, <1>5, <1>9, <2>1, DeclaredSum
<1> HIDE DEF new, key
<1>13. /\ profitTax' = [declarations |-> profitTax'.declarations, regional |-> profitTax'.regional,
                        confederation |-> profitTax'.confederation]
       /\ profitTax'.declarations = new
       /\ profitTax'.regional = profitTax.regional
       /\ profitTax'.confederation = profitTax.confederation
  <2>1. profitTax' = [profitTax EXCEPT !.declarations = new]
    BY <1>3 DEF new
  <2> QED BY <2>1 DEF ProfitInv, ProfitTypeOK
<1>14. \A k \in DOMAIN new : IsDeclaration(k, new[k])
  BY <1>9, <1>10, <1>11
<1>15. ProfitTypeOK'
  <2>1. /\ profitTax'.regional \in TaxTreasuries /\ profitTax'.confederation \in TaxTreasuries
        /\ IsFiniteSet(DOMAIN profitTax'.declarations)
        /\ \A k \in DOMAIN profitTax'.declarations : IsDeclaration(k, profitTax'.declarations[k])
    BY <1>6, <1>12, <1>13, <1>14
  <2> QED BY <1>13, <2>1, Zenon DEF ProfitTypeOK
<1>16. SumOver(free', TaxTreasuries) =
          ExistentialDeposit * Cardinality(TaxTreasuries)
             + SumOver(TotalsPaid(new), DOMAIN new)
  <2> DEFINE open == ExistentialDeposit * Cardinality(TaxTreasuries)
             s == SumOver(free, TaxTreasuries)
             t == SumOver(free', TaxTreasuries)
             m == SumOver(TotalsPaid(d), DOMAIN d)
             n == SumOver(TotalsPaid(new), DOMAIN new)
  <2>1. open \in Int /\ m \in Int /\ n = m + rec.total_paid /\ s = open + m
        /\ t = s + rec.regional_share + rec.confederation_share
    BY <1>7, <1>12, OpeningIsInt DEF ProfitInv, PairMoves
  <2> HIDE DEF open, s, t, m, n
  <2>2. t = open + n
    BY <1>5, <2>1
  <2> QED BY <2>2 DEF open, t, n
<1>17. ProfitInv'
  BY <1>13, <1>15, <1>16 DEF ProfitInv
<1> QED BY <1>8, <1>17

LEMMA ProfitStepInv ==
    ASSUME LedgerTypeOK, ProfitInv, block \in 0 .. MaxBlock, ProfitTaxStep
    PROVE  OnlyPay(Declarers) /\ ProfitInv'
<1>1. ASSUME NEW t \in TaxTreasuries, set_regional_treasury(t) \/ set_confederation_treasury(t)
      PROVE  OnlyPay(Declarers) /\ ProfitInv'
  <2>1. UNCHANGED ledger
    BY <1>1 DEF set_regional_treasury, set_confederation_treasury
  <2>2. /\ profitTax' = [declarations |-> profitTax'.declarations, regional |-> profitTax'.regional,
                         confederation |-> profitTax'.confederation]
        /\ profitTax'.declarations = profitTax.declarations
        /\ profitTax'.regional \in TaxTreasuries /\ profitTax'.confederation \in TaxTreasuries
    <3>1. CASE set_regional_treasury(t)
      BY <3>1 DEF set_regional_treasury, ProfitInv, ProfitTypeOK
    <3>2. CASE set_confederation_treasury(t)
      BY <3>2 DEF set_confederation_treasury, ProfitInv, ProfitTypeOK
    <3> QED BY <1>1, <3>1, <3>2
  <2>3. ProfitTypeOK'
    <3>1. /\ IsFiniteSet(DOMAIN profitTax'.declarations)
          /\ \A k \in DOMAIN profitTax'.declarations : IsDeclaration(k, profitTax'.declarations[k])
      BY <2>2 DEF ProfitInv, ProfitTypeOK
    <3> QED BY <2>2, <3>1, Zenon DEF ProfitTypeOK
  <2>4. free' = free
    BY <2>1 DEF ledger
  <2>5. ProfitInv'
    BY <2>2, <2>3, <2>4 DEF ProfitInv
  <2>6. OnlyPay(Declarers)
    BY <2>1 DEF ledger, OnlyPay, LedgerTypeOK
  <2> QED BY <2>5, <2>6
<1> QED BY <1>1, DeclareStep DEF ProfitTaxStep

LEMMA ProfitStays ==
    ASSUME ProfitInv, UNCHANGED <<free, profitTax>>
    PROVE  ProfitInv'
BY DEF ProfitInv, ProfitTypeOK

LEMMA ProfitStart ==
    ASSUME NEW t \in TaxTreasuries, profitTax = NoDeclarations(t, t),
           \A a \in TaxTreasuries : free[a] = ExistentialDeposit
    PROVE  ProfitInv
<1>1. /\ profitTax = [declarations |-> profitTax.declarations, regional |-> profitTax.regional,
                      confederation |-> profitTax.confederation]
      /\ profitTax.declarations = <<>> /\ profitTax.regional = t /\ profitTax.confederation = t
  BY DEF NoDeclarations
<1>2. DOMAIN profitTax.declarations = {} /\ IsFiniteSet({})
  BY <1>1, FS_EmptySet
<1>3. ProfitTypeOK
  BY <1>1, <1>2 DEF ProfitTypeOK
<1>4. IsFiniteSet(TaxTreasuries) /\ ExistentialDeposit \in Int
  BY ProfitTaxAssumption, LedgerAssumption, FS_Subset
<1>5. SumOver(free, TaxTreasuries) = Cardinality(TaxTreasuries) * ExistentialDeposit
  BY <1>4, SumOfConstant
<1>6. SumOver(TotalsPaid(profitTax.declarations), DOMAIN profitTax.declarations) = 0
  BY <1>2, SumUnfolds
<1>7. Cardinality(TaxTreasuries) \in Int
  BY <1>4, FS_CardinalityType
<1>8. Cardinality(TaxTreasuries) * ExistentialDeposit
         = ExistentialDeposit * Cardinality(TaxTreasuries) + 0
  BY <1>4, <1>7
<1> QED BY <1>3, <1>5, <1>6, <1>8 DEF ProfitInv

LEMMA TaxesAreThere ==
    ASSUME ProfitInv
    PROVE  TaxesAreRecorded(ExistentialDeposit * Cardinality(TaxTreasuries))
<1> DEFINE paid == profitTax.declarations
           Terms(k) == <<k[2], paid[k].declared_profit, paid[k].large_family_rate>>
<1>1. SumOver(free, TaxTreasuries) =
         ExistentialDeposit * Cardinality(TaxTreasuries)
            + SumOver([k \in DOMAIN paid |-> paid[k].total_paid], DOMAIN paid)
  BY DEF ProfitInv, TotalsPaid
<1>2. ASSUME NEW j \in DOMAIN paid, NEW k \in DOMAIN paid,
             Terms(j) = Terms(k), paid[j].paid_at <= paid[k].paid_at
      PROVE  paid[j].total_paid <= paid[k].total_paid
  <2>1. IsDeclaration(j, paid[j]) /\ IsDeclaration(k, paid[k])
    BY DEF ProfitInv, ProfitTypeOK
  <2>2. PICK p \in Nat, f \in BOOLEAN, t \in Nat : RecordSays(paid[j], p, f, t, days_late(t, j[2]))
    BY <2>1 DEF IsDeclaration
  <2>3. PICK q \in Nat, g \in BOOLEAN, u \in Nat : RecordSays(paid[k], q, g, u, days_late(u, k[2]))
    BY <2>1 DEF IsDeclaration
  <2>4. j[2] = k[2] /\ paid[j].declared_profit = paid[k].declared_profit
        /\ paid[j].large_family_rate = paid[k].large_family_rate
    BY <1>2
  <2> HIDE DEF paid
  <2>5. p = q /\ f = g /\ t <= u /\ j[2] \in Nat
    BY <1>2, <2>1, <2>2, <2>3, <2>4 DEF RecordSays, IsDeclaration
  <2> DEFINE base == BaseTax(p, f)
             d == days_late(t, j[2])
             e == days_late(u, j[2])
  <2>6. base \in Nat /\ d \in Nat /\ e \in Nat /\ d <= e
    BY <2>5, BaseIsNatural, DaysGrow
  <2>7. paid[j].total_paid = TaxOf(base, d) /\ paid[k].total_paid = TaxOf(base, e)
    BY <2>2, <2>3, <2>4, <2>5 DEF RecordSays
  <2> HIDE DEF base, d, e
  <2> QED BY <2>6, <2>7, TaxGrowsWithDays
<1> QED BY <1>1, <1>2, Zenon DEF TaxesAreRecorded

-----------------------------------------------------------------------------
(* The mixer                                                               *)

Actives(notes) == {c \in DOMAIN notes : notes[c] = "Active"}

MixerTypeOK ==
    /\ mixer = [commitments |-> mixer.commitments, nullifiers |-> mixer.nullifiers,
                poolLeafCount |-> mixer.poolLeafCount, auditLogs |-> mixer.auditLogs,
                audits |-> mixer.audits]
    /\ IsFiniteSet(DOMAIN mixer.commitments) /\ IsFiniteSet(DOMAIN mixer.nullifiers)
    /\ DOMAIN mixer.commitments \subseteq MixerCommitments

MixCounts ==
    /\ mixer.poolLeafCount = Cardinality(Actives(mixer.commitments))
    /\ Cardinality(DOMAIN mixer.nullifiers)
          = Cardinality(DOMAIN mixer.commitments \ Actives(mixer.commitments))

MixFunds ==
    free[PoolAccount] = ExistentialDeposit + SumOver(MixerValueOf, Actives(mixer.commitments))

MixInv == MixerTypeOK /\ MixCounts /\ MixFunds

\* The active notes of a finite pool are finite, and are worth a natural.
LEMMA ActivesAreFinite ==
    ASSUME NEW notes, IsFiniteSet(DOMAIN notes), DOMAIN notes \subseteq MixerCommitments
    PROVE  /\ IsFiniteSet(Actives(notes)) /\ Cardinality(Actives(notes)) \in Nat
           /\ IsFiniteSet(DOMAIN notes \ Actives(notes))
           /\ Cardinality(DOMAIN notes \ Actives(notes)) \in Nat
           /\ \A c \in DOMAIN notes : MixerValueOf[c] \in Nat
           /\ SumOver(MixerValueOf, Actives(notes)) \in Nat
<1>1. IsFiniteSet(Actives(notes)) /\ IsFiniteSet(DOMAIN notes \ Actives(notes))
  BY FS_Subset DEF Actives
<1>2. Cardinality(Actives(notes)) \in Nat /\ Cardinality(DOMAIN notes \ Actives(notes)) \in Nat
  BY <1>1, FS_CardinalityType
<1>3. \A c \in DOMAIN notes : MixerValueOf[c] \in Nat
  BY MixerAssumption
<1>4. \A c \in Actives(notes) : MixerValueOf[c] \in Nat
  BY <1>3 DEF Actives
<1>5. SumOver(MixerValueOf, Actives(notes)) \in Nat
  BY <1>1, <1>4, SumOfNaturals
<1> QED BY <1>1, <1>2, <1>3, <1>5

LEMMA MixerFeeShares ==
    ASSUME NEW v \in Nat
    PROVE  LET fee == calculate_total_fee(v)
           IN  /\ fee \in Nat /\ (fee * 26) \div 100 \in Nat /\ fee \div 10 \in Nat
               /\ fee - (fee * 26) \div 100 - 2 * (fee \div 10) \in Nat
<1> DEFINE fee == calculate_total_fee(v)
           ag == (fee * 26) \div 100
           tenth == fee \div 10
<1>1. mul_floor(BaseFeePermill, v) \in Nat /\ mul_floor(MixerFeePermill, v) \in Nat
  <2>1. ASSUME NEW permill \in Nat
        PROVE  mul_floor(permill, v) \in Nat
    <3>1. v * permill \in Nat
      BY ProductKeepsOrder
    <3> QED BY <3>1, DivisionKeepsOrder DEF mul_floor
  <2> QED BY <2>1, MixerAssumption
<1>2. fee \in Nat
  BY <1>1, MixerAssumption DEF calculate_total_fee
<1> HIDE DEF fee
<1>3. ag \in Nat /\ tenth \in Nat
  <2>1. fee * 26 \in Nat
    BY <1>2
  <2> QED BY <1>2, <2>1, DivisionKeepsOrder
<1>4. 100 * ag <= fee * 26 /\ 10 * tenth <= fee
  BY <1>2
<1> HIDE DEF ag, tenth
<1>5. fee - ag - 2 * tenth \in Nat
  BY <1>2, <1>3, <1>4
<1> QED BY <1>2, <1>3, <1>5 DEF fee, ag, tenth

\* One element before four.
LEMMA OneAndFour ==
    ASSUME NEW p, NEW q, NEW r, NEW s, NEW t
    PROVE  LET list == <<p>> \o <<q, r, s, t>>
           IN  /\ Len(list) = 5 /\ DOMAIN list = 1 .. 5
               /\ list[1] = p /\ list[2] = q /\ list[3] = r /\ list[4] = s /\ list[5] = t
<1> DEFINE E == {p, q, r, s, t}
           x == <<p>>
           y == <<q, r, s, t>>
<1>1. x \in Seq(E) /\ y \in Seq(E) /\ Len(x) = 1 /\ Len(y) = 4
  OBVIOUS
<1>2. x[1] = p /\ y[1] = q /\ y[2] = r /\ y[3] = s /\ y[4] = t
  OBVIOUS
<1> HIDE DEF E, x, y
<1>a. /\ Len(x \o y) = 5 /\ x \o y \in Seq(E)
      /\ \A i \in 1 .. 5 : (x \o y)[i] = IF i <= Len(x) THEN x[i] ELSE y[i - Len(x)]
  <2>1. Len(x) + Len(y) = 5
    BY <1>1
  <2>2. /\ x \o y \in Seq(E) /\ Len(x \o y) = Len(x) + Len(y)
        /\ \A i \in 1 .. Len(x) + Len(y) : (x \o y)[i] = IF i <= Len(x) THEN x[i] ELSE y[i - Len(x)]
    BY <1>1, ConcatProperties, Zenon
  <2> QED BY <2>1, <2>2, Zenon
<1>3. /\ Len(x \o y) = 5 /\ x \o y \in Seq(E)
      /\ (x \o y)[1] = x[1] /\ (x \o y)[2] = y[1] /\ (x \o y)[3] = y[2]
      /\ (x \o y)[4] = y[3] /\ (x \o y)[5] = y[4]
  BY <1>1, <1>a
<1>4. DOMAIN (x \o y) = 1 .. 5
  BY <1>3
<1> QED BY <1>2, <1>3, <1>4 DEF x, y

DepositPays(a, v) ==
    /\ OnlyPay({a}) /\ reserved' = reserved
    /\ free'[PoolAccount] = free[PoolAccount] + v

\* A deposit pays the pool its amount; the fees go to others.
LEMMA DepositPaysPool ==
    ASSUME LedgerTypeOK, NEW a \in Depositors, NEW v \in Nat,
           pay_in_order(a, <<Payment(PoolAccount, v)>> \o FeePayments(calculate_total_fee(v)))
    PROVE  DepositPays(a, v)
<1> DEFINE fee == calculate_total_fee(v)
           ag == (fee * 26) \div 100
           tenth == fee \div 10
           rest == fee - ag - 2 * tenth
           list == <<Payment(PoolAccount, v)>> \o FeePayments(fee)
<1>0. ag \in Nat /\ tenth \in Nat /\ rest \in Nat
  BY MixerFeeShares
<1>a. list = <<Payment(PoolAccount, v)>> \o
                <<Payment(InomadAgAccount, ag), Payment(CreatorAccount, tenth),
                  Payment(ValidatorsPoolAccount, tenth), Payment(FoundationAccount, rest)>>
  BY DEF FeePayments
<1> HIDE DEF fee, ag, tenth, rest
<1>1. /\ list[1].dst = PoolAccount /\ list[1].v = v
      /\ list[2].dst = InomadAgAccount /\ list[2].v = ag
      /\ list[3].dst = CreatorAccount /\ list[3].v = tenth
      /\ list[4].dst = ValidatorsPoolAccount /\ list[4].v = tenth
      /\ list[5].dst = FoundationAccount /\ list[5].v = rest
      /\ Len(list) = 5 /\ DOMAIN list = 1 .. 5
  <2> DEFINE p1 == Payment(PoolAccount, v)
             p2 == Payment(InomadAgAccount, ag)
             p3 == Payment(CreatorAccount, tenth)
             p4 == Payment(ValidatorsPoolAccount, tenth)
             p5 == Payment(FoundationAccount, rest)
  <2>1. /\ p1.dst = PoolAccount /\ p1.v = v /\ p2.dst = InomadAgAccount /\ p2.v = ag
        /\ p3.dst = CreatorAccount /\ p3.v = tenth
        /\ p4.dst = ValidatorsPoolAccount /\ p4.v = tenth
        /\ p5.dst = FoundationAccount /\ p5.v = rest
    BY DEF Payment
  <2>2. list = <<p1>> \o <<p2, p3, p4, p5>>
    BY <1>a
  <2> HIDE DEF list, p1, p2, p3, p4, p5
  <2>3. /\ Len(list) = 5 /\ DOMAIN list = 1 .. 5
        /\ list[1] = p1 /\ list[2] = p2 /\ list[3] = p3 /\ list[4] = p4 /\ list[5] = p5
    BY <2>2, OneAndFour
  <2> QED BY <2>1, <2>3
<1> HIDE DEF list
<1>2. PaymentsOK(list, 5)
  <2>1. \A i \in 1 .. 5 : i = 1 \/ i = 2 \/ i = 3 \/ i = 4 \/ i = 5
    OBVIOUS
  <2> QED BY <1>0, <1>1, <2>1, MixerAssumption DEF PaymentsOK
<1>3. pay_in_order(a, list) /\ a \in Accounts
  BY MixerAssumption DEF list, fee
<1>4. /\ OnlyPay({a}) /\ reserved' = reserved
      /\ \E after : InOrder(a, list, 5, after)
  BY <1>2, <1>3, OrderedPayments
<1>5. PICK after : InOrder(a, list, 5, after)
  BY <1>4
<1>6. after[0] = free /\ free' = after[5]
  BY <1>5 DEF InOrder
<1>7. \A i \in 1 .. 5 : Pays(after[i - 1], after[i], a, list[i].dst, list[i].v)
  BY <1>5 DEF InOrder
<1>8. /\ Pays(after[0], after[1], a, PoolAccount, v)
      /\ Pays(after[1], after[2], a, InomadAgAccount, ag)
      /\ Pays(after[2], after[3], a, CreatorAccount, tenth)
      /\ Pays(after[3], after[4], a, ValidatorsPoolAccount, tenth)
      /\ Pays(after[4], after[5], a, FoundationAccount, rest)
  BY <1>1, <1>7
<1>9. /\ PoolAccount \in Accounts /\ PoolAccount # a /\ PoolAccount # InomadAgAccount
      /\ PoolAccount # CreatorAccount /\ PoolAccount # ValidatorsPoolAccount
      /\ PoolAccount # FoundationAccount
  BY MixerAssumption, TillsAssumption
<1>10. /\ after[1][PoolAccount] = after[0][PoolAccount] + v
       /\ after[2][PoolAccount] = after[1][PoolAccount] + 0
       /\ after[3][PoolAccount] = after[2][PoolAccount] + 0
       /\ after[4][PoolAccount] = after[3][PoolAccount] + 0
       /\ after[5][PoolAccount] = after[4][PoolAccount] + 0
  BY <1>8, <1>9 DEF Pays
<1>11. free[PoolAccount] \in Nat
  BY <1>9 DEF LedgerTypeOK
<1>12. free'[PoolAccount] = free[PoolAccount] + v
  BY <1>6, <1>10, <1>11
<1> QED BY <1>4, <1>12 DEF DepositPays

\* What a deposit or a withdrawal of c does to the notes, and what leaves it.
LEMMA NoteAdded ==
    ASSUME NEW notes, IsFiniteSet(DOMAIN notes), DOMAIN notes \subseteq MixerCommitments,
           NEW c \in MixerCommitments, c \notin DOMAIN notes, NEW new, new = Put(notes, c, "Active")
    PROVE  /\ IsFiniteSet(DOMAIN new) /\ DOMAIN new \subseteq MixerCommitments
           /\ Cardinality(Actives(new)) = Cardinality(Actives(notes)) + 1
           /\ DOMAIN new \ Actives(new) = DOMAIN notes \ Actives(notes)
           /\ SumOver(MixerValueOf, Actives(new)) = SumOver(MixerValueOf, Actives(notes)) + MixerValueOf[c]
<1>1. /\ DOMAIN new = DOMAIN notes \cup {c} /\ new[c] = "Active"
      /\ \A d \in DOMAIN notes : new[d] = notes[d]
  BY DEF Put
<1>2. Actives(new) = Actives(notes) \cup {c} /\ c \notin Actives(notes)
  BY <1>1 DEF Actives
<1>3. DOMAIN new \ Actives(new) = DOMAIN notes \ Actives(notes)
  BY <1>1, <1>2 DEF Actives
<1>4. IsFiniteSet(DOMAIN new) /\ DOMAIN new \subseteq MixerCommitments
  BY <1>1, FS_AddElement
<1> DEFINE A == Actives(notes)
<1>5. IsFiniteSet(A)
  BY ActivesAreFinite
<1>6. \A d \in A \cup {c} : MixerValueOf[d] \in Int
  BY MixerAssumption DEF Actives
<1>7. c \notin A
  BY <1>2
<1> HIDE DEF A
<1>8. Cardinality(A \cup {c}) = Cardinality(A) + 1
  BY <1>5, <1>7, FS_AddElement
<1>9. SumOver(MixerValueOf, A \cup {c}) = SumOver(MixerValueOf, A) + MixerValueOf[c]
  BY <1>5, <1>6, <1>7, SumOfOneMore
<1> QED BY <1>2, <1>3, <1>4, <1>8, <1>9 DEF A

LEMMA NoteSpent ==
    ASSUME NEW notes, IsFiniteSet(DOMAIN notes), DOMAIN notes \subseteq MixerCommitments,
           NEW c \in DOMAIN notes, notes[c] = "Active", NEW new, new = [notes EXCEPT ![c] = "Spent"]
    PROVE  /\ DOMAIN new = DOMAIN notes
           /\ Cardinality(Actives(notes)) = Cardinality(Actives(new)) + 1
           /\ Cardinality(Actives(new)) \in Nat
           /\ Cardinality(DOMAIN new \ Actives(new)) = Cardinality(DOMAIN notes \ Actives(notes)) + 1
           /\ SumOver(MixerValueOf, Actives(notes)) = SumOver(MixerValueOf, Actives(new)) + MixerValueOf[c]
           /\ SumOver(MixerValueOf, Actives(new)) \in Nat
<1>1. DOMAIN new = DOMAIN notes /\ new[c] = "Spent" /\ \A d \in DOMAIN notes \ {c} : new[d] = notes[d]
  OBVIOUS
<1>2. Actives(new) = Actives(notes) \ {c} /\ c \in Actives(notes)
  BY <1>1 DEF Actives
<1>3. DOMAIN new \ Actives(new) = (DOMAIN notes \ Actives(notes)) \cup {c}
  BY <1>1, <1>2
<1> DEFINE A == Actives(notes)
           B == DOMAIN notes \ A
<1>4. IsFiniteSet(A) /\ IsFiniteSet(B) /\ c \in A /\ c \notin B /\ \A d \in A : MixerValueOf[d] \in Int
  <2>1. IsFiniteSet(A) /\ IsFiniteSet(B)
    BY ActivesAreFinite
  <2>2. c \in A /\ c \notin B
    BY <1>2
  <2>3. \A d \in A : MixerValueOf[d] \in Int
    BY MixerAssumption DEF Actives
  <2> QED BY <2>1, <2>2, <2>3
<1>5. Cardinality(Actives(new)) \in Nat /\ SumOver(MixerValueOf, Actives(new)) \in Nat
  BY <1>1, ActivesAreFinite
<1> HIDE DEF A, B
<1>6. Cardinality(A \ {c}) = Cardinality(A) - 1 /\ Cardinality(A) \in Nat
  BY <1>4, FS_RemoveElement, FS_CardinalityType
<1>7. Cardinality(B \cup {c}) = Cardinality(B) + 1
  BY <1>4, FS_AddElement
<1>8. SumOver(MixerValueOf, A) = SumOver(MixerValueOf, A \ {c}) + MixerValueOf[c]
  BY <1>4, SumOfRest
<1>9. Cardinality(A) = Cardinality(A \ {c}) + 1
  BY <1>6
<1> QED BY <1>1, <1>2, <1>3, <1>5, <1>7, <1>8, <1>9 DEF A, B

\* What every step of the mixer keeps.
LEMMA MixerShape ==
    ASSUME MixInv, NEW m, NEW n, NEW k, NEW l, NEW a, mixer' = [commitments |-> m, nullifiers |-> n,
           poolLeafCount |-> k, auditLogs |-> l, audits |-> a],
           IsFiniteSet(DOMAIN m), IsFiniteSet(DOMAIN n), DOMAIN m \subseteq MixerCommitments,
           k = Cardinality(Actives(m)), Cardinality(DOMAIN n) = Cardinality(DOMAIN m \ Actives(m)),
           free'[PoolAccount] = ExistentialDeposit + SumOver(MixerValueOf, Actives(m))
    PROVE  MixInv'
<1>1. /\ mixer'.commitments = m /\ mixer'.nullifiers = n /\ mixer'.poolLeafCount = k
      /\ mixer'.auditLogs = l /\ mixer'.audits = a
  OBVIOUS
<1>2. MixerTypeOK'
  BY <1>1 DEF MixerTypeOK
<1>3. MixCounts' /\ MixFunds'
  BY <1>1 DEF MixCounts, MixFunds
<1> QED BY <1>2, <1>3 DEF MixInv

LEMMA DepositStep ==
    ASSUME LedgerTypeOK, MixInv, NEW a \in Depositors, NEW c \in MixerCommitments, deposit(a, c)
    PROVE  OnlyPay(Depositors) /\ MixInv'
<1> DEFINE v == MixerValueOf[c]
           m == Put(mixer.commitments, c, "Active")
<1>1. v \in Nat
  BY MixerAssumption
<1>2. /\ c \notin DOMAIN mixer.commitments
      /\ pay_in_order(a, <<Payment(PoolAccount, v)>> \o FeePayments(calculate_total_fee(v)))
      /\ mixer' = [mixer EXCEPT !.commitments = m, !.poolLeafCount = mixer.poolLeafCount + 1]
  BY DEF deposit
<1> HIDE DEF v
<1>3. DepositPays(a, v)
  BY <1>1, <1>2, DepositPaysPool
<1> HIDE DEF m
<1>4. mixer' = [commitments |-> m, nullifiers |-> mixer.nullifiers,
                poolLeafCount |-> mixer.poolLeafCount + 1, auditLogs |-> mixer.auditLogs,
                audits |-> mixer.audits]
  BY <1>2 DEF MixInv, MixerTypeOK
<1>5. /\ IsFiniteSet(DOMAIN mixer.commitments) /\ IsFiniteSet(DOMAIN mixer.nullifiers)
      /\ DOMAIN mixer.commitments \subseteq MixerCommitments
  BY DEF MixInv, MixerTypeOK
<1>6. /\ IsFiniteSet(DOMAIN m) /\ DOMAIN m \subseteq MixerCommitments
      /\ Cardinality(Actives(m)) = Cardinality(Actives(mixer.commitments)) + 1
      /\ DOMAIN m \ Actives(m) = DOMAIN mixer.commitments \ Actives(mixer.commitments)
      /\ SumOver(MixerValueOf, Actives(m))
            = SumOver(MixerValueOf, Actives(mixer.commitments)) + MixerValueOf[c]
  BY <1>2, <1>5, NoteAdded DEF m
<1>7. /\ mixer.poolLeafCount + 1 = Cardinality(Actives(m))
      /\ Cardinality(DOMAIN mixer.nullifiers) = Cardinality(DOMAIN m \ Actives(m))
  BY <1>6 DEF MixInv, MixCounts
<1>8. free'[PoolAccount] = ExistentialDeposit + SumOver(MixerValueOf, Actives(m))
  <2> DEFINE s == SumOver(MixerValueOf, Actives(mixer.commitments))
             t == SumOver(MixerValueOf, Actives(m))
  <2>1. s \in Nat /\ ExistentialDeposit \in Nat
    BY <1>5, ActivesAreFinite, LedgerAssumption
  <2>2. t = s + v /\ free[PoolAccount] = ExistentialDeposit + s
        /\ free'[PoolAccount] = free[PoolAccount] + v
    BY <1>3, <1>6 DEF MixInv, MixFunds, DepositPays, v
  <2> HIDE DEF s, t
  <2>3. free'[PoolAccount] = ExistentialDeposit + t
    BY <1>1, <2>1, <2>2
  <2> QED BY <2>3 DEF t
<1>9. MixInv'
  BY <1>4, <1>5, <1>6, <1>7, <1>8, MixerShape
<1>10. OnlyPay(Depositors)
  BY <1>3 DEF DepositPays, OnlyPay
<1> QED BY <1>9, <1>10

LEMMA WithdrawStep ==
    ASSUME LedgerTypeOK, MixInv, NEW a \in Depositors, NEW c \in MixerCommitments, NEW n,
           withdraw_mixed(n, c, a)
    PROVE  OnlyPay({PoolAccount}) /\ MixInv'
<1> DEFINE v == MixerValueOf[c]
           notes == mixer.commitments
           m == [notes EXCEPT ![c] = "Spent"]
           null == Put(mixer.nullifiers, n, block)
           leaves == IF mixer.poolLeafCount = 0 THEN 0 ELSE mixer.poolLeafCount - 1
<1>1. /\ v \in Nat /\ PoolAccount \in Accounts /\ a \in Accounts /\ a # PoolAccount
      /\ ExistentialDeposit \in Nat
  BY MixerAssumption, TillsAssumption, LedgerAssumption
<1>2. /\ c \in DOMAIN notes /\ notes[c] = "Active" /\ n \notin DOMAIN mixer.nullifiers
      /\ transfer(PoolAccount, a, v, TRUE)
  BY DEF withdraw_mixed, IsUnspent, At
<1>3. mixer' = [mixer EXCEPT !.commitments = m, !.nullifiers = null, !.poolLeafCount = leaves]
  BY DEF withdraw_mixed
<1> HIDE DEF v, m, null, leaves
<1>4. mixer' = [commitments |-> m, nullifiers |-> null, poolLeafCount |-> leaves,
                auditLogs |-> mixer.auditLogs, audits |-> mixer.audits]
  BY <1>3 DEF MixInv, MixerTypeOK
<1>5. Takes(PoolAccount, a, v)
  BY <1>1, <1>2, TransferTakes
<1>6. free'[PoolAccount] = free[PoolAccount] - v /\ OnlyPay({PoolAccount})
  <2>1. \A b \in Accounts : free[b] \in Nat
    BY DEF LedgerTypeOK
  <2>2. free'[PoolAccount] = free[PoolAccount] - v
    BY <1>1, <1>5, <2>1 DEF Takes
  <2>3. \A b \in Accounts \ {PoolAccount} : free'[b] >= free[b]
    BY <1>1, <1>5, <2>1 DEF Takes
  <2> QED BY <1>5, <2>2, <2>3 DEF Takes, OnlyPay
<1>7. /\ IsFiniteSet(DOMAIN notes) /\ IsFiniteSet(DOMAIN mixer.nullifiers)
      /\ DOMAIN notes \subseteq MixerCommitments
  BY DEF MixInv, MixerTypeOK
<1> HIDE DEF notes
<1>8. /\ DOMAIN m = DOMAIN notes
      /\ Cardinality(Actives(notes)) = Cardinality(Actives(m)) + 1
      /\ Cardinality(Actives(m)) \in Nat
      /\ Cardinality(DOMAIN m \ Actives(m)) = Cardinality(DOMAIN notes \ Actives(notes)) + 1
      /\ SumOver(MixerValueOf, Actives(notes)) = SumOver(MixerValueOf, Actives(m)) + MixerValueOf[c]
      /\ SumOver(MixerValueOf, Actives(m)) \in Nat
  BY <1>2, <1>7, NoteSpent DEF m
<1>9. IsFiniteSet(DOMAIN null) /\ Cardinality(DOMAIN null) = Cardinality(DOMAIN mixer.nullifiers) + 1
  <2>1. DOMAIN null = DOMAIN mixer.nullifiers \cup {n}
    BY DEF null, Put
  <2> QED BY <1>2, <1>7, <2>1, FS_AddElement
<1>10. /\ leaves = Cardinality(Actives(m))
       /\ Cardinality(DOMAIN null) = Cardinality(DOMAIN m \ Actives(m))
  <2>1. /\ mixer.poolLeafCount = Cardinality(Actives(notes))
        /\ Cardinality(DOMAIN mixer.nullifiers) = Cardinality(DOMAIN notes \ Actives(notes))
    BY DEF MixInv, MixCounts, notes
  <2> QED BY <1>8, <1>9, <2>1 DEF leaves
<1>11. free'[PoolAccount] = ExistentialDeposit + SumOver(MixerValueOf, Actives(m))
  <2> DEFINE s == SumOver(MixerValueOf, Actives(notes))
             t == SumOver(MixerValueOf, Actives(m))
  <2>1. s = t + v /\ t \in Nat /\ free[PoolAccount] = ExistentialDeposit + s
    BY <1>8 DEF MixInv, MixFunds, v, notes
  <2> HIDE DEF s, t
  <2>2. free'[PoolAccount] = ExistentialDeposit + t
    BY <1>1, <1>6, <2>1
  <2> QED BY <2>2 DEF t
<1>12. DOMAIN m \subseteq MixerCommitments /\ IsFiniteSet(DOMAIN m)
  BY <1>7, <1>8
<1>13. MixInv'
  BY <1>4, <1>9, <1>10, <1>11, <1>12, MixerShape
<1> QED BY <1>6, <1>13

LEMMA MixerStepInv ==
    ASSUME LedgerTypeOK, MixInv, MixerStep
    PROVE  OnlyPay(Depositors \cup {PoolAccount}) /\ MixInv'
<1>1. ASSUME NEW a \in Depositors, NEW c \in MixerCommitments, deposit(a, c)
      PROVE  OnlyPay(Depositors \cup {PoolAccount}) /\ MixInv'
  BY <1>1, DepositStep DEF OnlyPay
<1>2. ASSUME NEW a \in Depositors, NEW c \in MixerCommitments, NEW n, withdraw_mixed(n, c, a)
      PROVE  OnlyPay(Depositors \cup {PoolAccount}) /\ MixInv'
  BY <1>2, WithdrawStep DEF OnlyPay
<1>3. ASSUME UNCHANGED ledger, NEW l, NEW q,
             mixer' = [commitments |-> mixer.commitments, nullifiers |-> mixer.nullifiers,
                       poolLeafCount |-> mixer.poolLeafCount, auditLogs |-> l, audits |-> q]
      PROVE  OnlyPay(Depositors \cup {PoolAccount}) /\ MixInv'
  <2>1. OnlyPay(Depositors \cup {PoolAccount}) /\ free' = free
    BY <1>3 DEF OnlyPay, ledger, LedgerTypeOK
  <2>2. /\ IsFiniteSet(DOMAIN mixer.commitments) /\ IsFiniteSet(DOMAIN mixer.nullifiers)
        /\ DOMAIN mixer.commitments \subseteq MixerCommitments
        /\ mixer.poolLeafCount = Cardinality(Actives(mixer.commitments))
        /\ Cardinality(DOMAIN mixer.nullifiers)
              = Cardinality(DOMAIN mixer.commitments \ Actives(mixer.commitments))
        /\ free[PoolAccount]
              = ExistentialDeposit + SumOver(MixerValueOf, Actives(mixer.commitments))
    BY DEF MixInv, MixerTypeOK, MixCounts, MixFunds
  <2>3. MixInv'
    BY <1>3, <2>1, <2>2, MixerShape
  <2> QED BY <2>1, <2>3
<1>4. ASSUME NEW a \in Depositors, NEW c \in MixerCommitments, reveal_transaction(a, c)
      PROVE  OnlyPay(Depositors \cup {PoolAccount}) /\ MixInv'
  <2> DEFINE l == Append(mixer.auditLogs, [timestamp |-> block, authorized_by |-> a,
                                           target_commitment |-> c])
  <2>1. UNCHANGED ledger /\ mixer' = [mixer EXCEPT !.auditLogs = l]
    BY <1>4 DEF reveal_transaction
  <2> HIDE DEF l
  <2>2. mixer' = [commitments |-> mixer.commitments, nullifiers |-> mixer.nullifiers,
                  poolLeafCount |-> mixer.poolLeafCount, auditLogs |-> l, audits |-> mixer.audits]
    BY <2>1 DEF MixInv, MixerTypeOK
  <2> QED BY <1>3, <2>1, <2>2
<1>5. ASSUME NEW q \in Quarters, submit_quarterly_audit(q)
      PROVE  OnlyPay(Depositors \cup {PoolAccount}) /\ MixInv'
  <2> DEFINE audits == mixer.audits \cup {q}
  <2>1. UNCHANGED ledger /\ mixer' = [mixer EXCEPT !.audits = audits]
    BY <1>5 DEF submit_quarterly_audit
  <2> HIDE DEF audits
  <2>2. mixer' = [commitments |-> mixer.commitments, nullifiers |-> mixer.nullifiers,
                  poolLeafCount |-> mixer.poolLeafCount, auditLogs |-> mixer.auditLogs,
                  audits |-> audits]
    BY <2>1 DEF MixInv, MixerTypeOK
  <2> QED BY <1>3, <2>1, <2>2
<1> QED BY <1>1, <1>2, <1>4, <1>5 DEF MixerStep

LEMMA MixStays ==
    ASSUME MixInv, UNCHANGED <<free, mixer>>
    PROVE  MixInv'
BY DEF MixInv, MixerTypeOK, MixCounts, MixFunds

LEMMA MixStart ==
    ASSUME mixer = EmptyMixer, free[PoolAccount] = ExistentialDeposit
    PROVE  MixInv
<1>1. /\ mixer = [commitments |-> mixer.commitments, nullifiers |-> mixer.nullifiers,
                  poolLeafCount |-> mixer.poolLeafCount, auditLogs |-> mixer.auditLogs,
                  audits |-> mixer.audits]
      /\ mixer.commitments = <<>> /\ mixer.nullifiers = <<>> /\ mixer.poolLeafCount = 0
  BY DEF EmptyMixer
<1>2. DOMAIN mixer.commitments = {} /\ DOMAIN mixer.nullifiers = {}
  BY <1>1
<1>3. Actives(mixer.commitments) = {} /\ {} \ {} = {}
  BY <1>2 DEF Actives
<1>4. IsFiniteSet({}) /\ Cardinality({}) = 0
  BY FS_EmptySet
<1>5. SumOver(MixerValueOf, {}) = 0
  BY <1>4, SumUnfolds
<1>6. MixerTypeOK
  BY <1>1, <1>2, <1>4 DEF MixerTypeOK
<1>7. MixCounts
  BY <1>1, <1>2, <1>3, <1>4 DEF MixCounts
<1>8. MixFunds
  BY <1>3, <1>5, LedgerAssumption DEF MixFunds
<1> QED BY <1>6, <1>7, <1>8 DEF MixInv

LEMMA MixIsThere ==
    ASSUME MixInv
    PROVE  MixIsBacked(ExistentialDeposit)
BY DEF MixInv, MixCounts, MixFunds, Actives, MixIsBacked

-----------------------------------------------------------------------------
(* Rewards                                                                 *)

RewardRecord ==
    [holder : Winners, category : AchievementCategory, altan_value : Nat, redeemed : BOOLEAN]

ValuesOf(tokens) == [i \in DOMAIN tokens |-> tokens[i].altan_value]

Unredeemed(tokens) == {i \in DOMAIN tokens : ~tokens[i].redeemed}

RewardTypeOK ==
    /\ rewards = [achievements |-> rewards.achievements, held |-> rewards.held]
    /\ \E n \in Nat : rewards.achievements \in Numbered(n, RewardRecord)

RewardFunds ==
    reserved[RewardTreasury] = SumOver(ValuesOf(rewards.achievements), Unredeemed(rewards.achievements))

RewardInv == RewardTypeOK /\ RewardFunds

\* The tokens not redeemed are finitely many and worth naturals.
LEMMA UnredeemedAreFinite ==
    ASSUME NEW n \in Nat, NEW tokens, tokens \in Numbered(n, RewardRecord)
    PROVE  /\ IsFiniteSet(Unredeemed(tokens))
           /\ \A i \in DOMAIN tokens :
                 ValuesOf(tokens)[i] = tokens[i].altan_value /\ ValuesOf(tokens)[i] \in Nat
           /\ SumOver(ValuesOf(tokens), Unredeemed(tokens)) \in Nat
<1>1. IsFiniteSet(DOMAIN tokens) /\ \A i \in DOMAIN tokens : tokens[i] \in RewardRecord
  BY RecordsAreTyped
<1>2. IsFiniteSet(Unredeemed(tokens)) /\ Unredeemed(tokens) \subseteq DOMAIN tokens
  BY <1>1, FS_Subset DEF Unredeemed
<1>3. \A i \in DOMAIN tokens :
         ValuesOf(tokens)[i] = tokens[i].altan_value /\ ValuesOf(tokens)[i] \in Nat
  BY <1>1 DEF ValuesOf, RewardRecord
<1>4. SumOver(ValuesOf(tokens), Unredeemed(tokens)) \in Nat
  BY <1>2, <1>3, SumOfNaturals
<1> QED BY <1>2, <1>3, <1>4

\* A new token adds its value to what is to be redeemed.
LEMMA TokenAdded ==
    ASSUME RewardTypeOK, NEW token \in RewardRecord, ~token.redeemed, WithToken(token)
    PROVE  /\ RewardTypeOK'
           /\ SumOver(ValuesOf(rewards'.achievements), Unredeemed(rewards'.achievements))
                 = SumOver(ValuesOf(rewards.achievements), Unredeemed(rewards.achievements))
                     + token.altan_value
<1> DEFINE old == rewards.achievements
           id == FreshId(old)
           new == Put(old, id, token)
           h == token.holder
           held == [rewards.held EXCEPT ![h] = rewards.held[h] \cup {id}]
<1>1. rewards' = [rewards EXCEPT !.achievements = new, !.held = held]
  BY DEF WithToken
<1>2. PICK n \in Nat : old \in Numbered(n, RewardRecord)
  BY DEF RewardTypeOK
<1> HIDE DEF new, id, held
<1>3. rewards' = [achievements |-> new, held |-> held]
  BY <1>1 DEF RewardTypeOK
<1>4. rewards'.achievements = new /\ rewards' = [achievements |-> rewards'.achievements, held |-> rewards'.held]
  BY <1>3
<1> HIDE DEF old
<1>5. id = n /\ OneMore(old, new, n, token) /\ n + 1 \in Nat /\ new \in Numbered(n + 1, RewardRecord)
  BY <1>2, FreshRecord DEF id, new
<1>6. RewardTypeOK'
  BY <1>4, <1>5 DEF RewardTypeOK
<1>7. /\ IsFiniteSet(Unredeemed(old))
      /\ \A i \in DOMAIN old : ValuesOf(old)[i] = old[i].altan_value /\ ValuesOf(old)[i] \in Nat
  BY <1>2, UnredeemedAreFinite
<1>8. \A i \in DOMAIN new : ValuesOf(new)[i] = new[i].altan_value /\ ValuesOf(new)[i] \in Nat
  BY <1>5, UnredeemedAreFinite
<1>9. Unredeemed(new) = Unredeemed(old) \cup {n} /\ n \notin Unredeemed(old)
  BY <1>5 DEF Unredeemed, OneMore
<1> DEFINE f == ValuesOf(new)
           S == Unredeemed(old)
<1>10. f[n] = token.altan_value /\ \A i \in S : f[i] = ValuesOf(old)[i] /\ i \in DOMAIN new
  BY <1>5, <1>7, <1>8 DEF OneMore, Unredeemed
<1>11. \A i \in S \cup {n} : f[i] \in Int
  BY <1>5, <1>8, <1>10 DEF OneMore
<1>12. IsFiniteSet(S) /\ n \notin S
  BY <1>7, <1>9
<1> HIDE DEF f, S
<1>13. SumOver(f, S \cup {n}) = SumOver(f, S) + f[n]
  BY <1>11, <1>12, SumOfOneMore
<1>14. SumOver(f, S) = SumOver(ValuesOf(old), S)
  BY <1>10, <1>12, SumOfSame
<1>15. SumOver(ValuesOf(new), Unredeemed(new)) = SumOver(ValuesOf(old), Unredeemed(old)) + token.altan_value
  BY <1>9, <1>10, <1>13, <1>14 DEF f, S
<1> QED BY <1>4, <1>6, <1>15 DEF old

\* A redeemed token takes its value from what is to be redeemed.
LEMMA TokenRedeemed ==
    ASSUME RewardTypeOK, NEW i \in DOMAIN rewards.achievements, ~rewards.achievements[i].redeemed,
           rewards' = [rewards EXCEPT !.achievements[i] = Redeemed(@)]
    PROVE  /\ RewardTypeOK'
           /\ rewards.achievements[i].altan_value \in Nat
           /\ SumOver(ValuesOf(rewards.achievements), Unredeemed(rewards.achievements))
                 = SumOver(ValuesOf(rewards'.achievements), Unredeemed(rewards'.achievements))
                     + rewards.achievements[i].altan_value
           /\ SumOver(ValuesOf(rewards'.achievements), Unredeemed(rewards'.achievements)) \in Nat
<1> DEFINE old == rewards.achievements
           v == Redeemed(old[i])
           new == [old EXCEPT ![i] = v]
<1>1. rewards' = [rewards EXCEPT !.achievements = new]
  OBVIOUS
<1>2. PICK n \in Nat : old \in Numbered(n, RewardRecord)
  BY DEF RewardTypeOK
<1> HIDE DEF new
<1>3. rewards' = [achievements |-> new, held |-> rewards.held]
  BY <1>1 DEF RewardTypeOK
<1>4. rewards'.achievements = new /\ rewards' = [achievements |-> rewards'.achievements, held |-> rewards'.held]
  <2> DEFINE held == rewards.held
  <2>a. rewards' = [achievements |-> new, held |-> held]
    BY <1>3
  <2> HIDE DEF held
  <2>1. rewards'.achievements = new /\ rewards'.held = held
    BY ONLY <2>a
  <2> QED BY <2>a, <2>1, Zenon
<1>a. i \in DOMAIN old /\ ~old[i].redeemed
  OBVIOUS
<1> HIDE DEF old, v
<1>5. v \in RewardRecord /\ v.redeemed /\ v.altan_value = old[i].altan_value
  <2> DEFINE w == old[i]
  <2>1. w \in RewardRecord
    BY <1>2, <1>a, RecordsAreTyped
  <2>2. v = [w EXCEPT !.redeemed = TRUE]
    BY DEF v, Redeemed
  <2> HIDE DEF w
  <2>3. v \in RewardRecord /\ v.redeemed /\ v.altan_value = w.altan_value
    BY <2>1, <2>2 DEF RewardRecord
  <2> QED BY <2>3 DEF w
<1>6. /\ new \in Numbered(n, RewardRecord) /\ DOMAIN new = DOMAIN old
      /\ \A j \in DOMAIN old : new[j] = IF j = i THEN v ELSE old[j]
  BY <1>2, <1>5, <1>a, RecordChanged DEF new
<1>7. RewardTypeOK'
  BY <1>4, <1>6 DEF RewardTypeOK
<1>8. /\ IsFiniteSet(Unredeemed(old))
      /\ \A j \in DOMAIN old : ValuesOf(old)[j] = old[j].altan_value /\ ValuesOf(old)[j] \in Nat
  BY <1>2, UnredeemedAreFinite
<1>9. /\ IsFiniteSet(Unredeemed(new))
      /\ \A j \in DOMAIN new : ValuesOf(new)[j] = new[j].altan_value /\ ValuesOf(new)[j] \in Nat
      /\ SumOver(ValuesOf(new), Unredeemed(new)) \in Nat
  BY <1>6, UnredeemedAreFinite
<1>10. Unredeemed(new) = Unredeemed(old) \ {i} /\ i \in Unredeemed(old)
  BY <1>5, <1>6, <1>a DEF Unredeemed
<1> DEFINE f == ValuesOf(old)
           g == ValuesOf(new)
           S == Unredeemed(old)
<1>11. \A j \in S : f[j] \in Int
  BY <1>8 DEF Unredeemed
<1>12. \A j \in S \ {i} : f[j] = g[j]
  BY <1>6, <1>8, <1>9 DEF Unredeemed
<1>13. IsFiniteSet(S) /\ i \in S /\ IsFiniteSet(S \ {i}) /\ f[i] = old[i].altan_value
       /\ old[i].altan_value \in Nat
  BY <1>8, <1>9, <1>10, <1>a
<1> HIDE DEF f, g, S
<1>14. SumOver(f, S) = SumOver(f, S \ {i}) + f[i]
  BY <1>11, <1>13, SumOfRest
<1>15. SumOver(f, S \ {i}) = SumOver(g, S \ {i})
  BY <1>12, <1>13, SumOfSame
<1>16. SumOver(ValuesOf(old), Unredeemed(old)) = SumOver(ValuesOf(new), Unredeemed(new)) + old[i].altan_value
  BY <1>10, <1>13, <1>14, <1>15 DEF f, g, S
<1> QED BY <1>4, <1>7, <1>9, <1>13, <1>16 DEF old

LEMMA IssueRewardStep ==
    ASSUME LedgerTypeOK, RewardInv, NEW a \in Winners, NEW v \in Nat, issue_reward_nft(a, v)
    PROVE  OnlyPay({RewardTreasury}) /\ RewardInv'
<1> DEFINE token == AchievementToken(a, "Reward", v)
           old == SumOver(ValuesOf(rewards.achievements), Unredeemed(rewards.achievements))
           new == SumOver(ValuesOf(rewards'.achievements), Unredeemed(rewards'.achievements))
<1>1. token \in RewardRecord /\ ~token.redeemed /\ token.altan_value = v
  BY DEF AchievementToken, RewardRecord, AchievementCategory
<1>2. WithToken(token) /\ reserve(RewardTreasury, v)
  BY DEF issue_reward_nft
<1> HIDE DEF token
<1>3. RewardTypeOK' /\ new = old + v
  BY <1>1, <1>2, TokenAdded DEF RewardInv
<1>4. RewardTreasury \in Accounts /\ frozen[RewardTreasury] \in Nat /\ free[RewardTreasury] \in Nat
      /\ reserved[RewardTreasury] \in Nat
  BY RewardAssumption DEF LedgerTypeOK
<1>5. /\ free' = [free EXCEPT ![RewardTreasury] = @ - v]
      /\ reserved' = [reserved EXCEPT ![RewardTreasury] = @ + v]
      /\ UNCHANGED <<frozen, issuance>>
      /\ free[RewardTreasury] - v \in Nat
  BY <1>2, <1>4 DEF reserve
<1>6. LedgerTypeOK' /\ reserved'[RewardTreasury] = reserved[RewardTreasury] + v
  BY <1>4, <1>5 DEF LedgerTypeOK
<1>7. OnlyPay({RewardTreasury})
  BY <1>5, <1>6 DEF OnlyPay, LedgerTypeOK
<1>8. reserved[RewardTreasury] = old
  BY DEF RewardInv, RewardFunds
<1> HIDE DEF old, new
<1>9. reserved'[RewardTreasury] = new
  BY <1>3, <1>6, <1>8
<1> QED BY <1>3, <1>7, <1>9 DEF RewardInv, RewardFunds, new

LEMMA RedeemStep ==
    ASSUME LedgerTypeOK, RewardInv, NEW a \in Winners, NEW i, redeem_reward_nft(a, i)
    PROVE  OnlyPay({RewardTreasury}) /\ RewardInv'
<1> DEFINE v == rewards.achievements[i].altan_value
           old == SumOver(ValuesOf(rewards.achievements), Unredeemed(rewards.achievements))
           new == SumOver(ValuesOf(rewards'.achievements), Unredeemed(rewards'.achievements))
           bal == [free EXCEPT ![RewardTreasury] = @ + v]
<1>1. /\ i \in DOMAIN rewards.achievements /\ ~rewards.achievements[i].redeemed
      /\ rewards' = [rewards EXCEPT !.achievements[i] = Redeemed(@)]
      /\ PayReserved(RewardTreasury, a, v)
  BY DEF redeem_reward_nft
<1>2. RewardTypeOK' /\ v \in Nat /\ old = new + v /\ new \in Nat
  BY <1>1, TokenRedeemed DEF RewardInv
<1>3. /\ RewardTreasury \in Accounts /\ a \in Accounts /\ ExistentialDeposit \in Nat
      /\ free \in [Accounts -> Nat] /\ reserved \in [Accounts -> Nat] /\ frozen \in [Accounts -> Nat]
  BY RewardAssumption, LedgerAssumption DEF LedgerTypeOK
<1>4. reserved[RewardTreasury] = old
  BY DEF RewardInv, RewardFunds
<1> HIDE DEF v, old, new
<1>5. v <= reserved[RewardTreasury] /\ reserved[RewardTreasury] - v = new
  BY <1>2, <1>4
<1>6. Releasable(RewardTreasury, v) = v
  BY <1>5 DEF Releasable
<1>7. /\ CanPay(bal, RewardTreasury, a, v) /\ free' = PaidFrom(bal, RewardTreasury, a, v)
      /\ reserved' = [reserved EXCEPT ![RewardTreasury] = @ - v]
      /\ UNCHANGED <<frozen, issuance>>
  BY <1>1, <1>6 DEF PayReserved
<1>8. bal \in [Accounts -> Nat] /\ \A b \in Accounts : bal[b] >= free[b]
  BY <1>2, <1>3
<1> HIDE DEF bal
<1>9. /\ free' \in [Accounts -> Nat]
      /\ \A b \in Accounts \ {RewardTreasury} : free'[b] >= bal[b]
  <2>1. CASE Moves(RewardTreasury, a, v)
    <3>a. v > 0 /\ a # RewardTreasury
      BY <2>1 DEF Moves
    <3>b. bal[RewardTreasury] >= v + ExistentialDeposit
      BY <1>2, <1>7, <3>a DEF CanPay
    <3>1. bal[RewardTreasury] - v \in Nat /\ v \in Nat /\ a # RewardTreasury
      BY <1>2, <1>3, <1>8, <3>a, <3>b
    <3>2. free' = [bal EXCEPT ![RewardTreasury] = @ - v, ![a] = @ + v]
      BY <1>7, <2>1 DEF PaidFrom
    <3> QED BY <1>3, <1>8, <3>1, <3>2
  <2>2. CASE ~Moves(RewardTreasury, a, v)
    BY <1>7, <1>8, <2>2 DEF PaidFrom
  <2> QED BY <2>1, <2>2
<1>10. \A b \in Accounts \ {RewardTreasury} : free'[b] >= free[b]
  <2>1. ASSUME NEW b \in Accounts \ {RewardTreasury}
        PROVE  free'[b] >= free[b]
    <3>1. free'[b] \in Nat /\ bal[b] \in Nat /\ free[b] \in Nat /\ free'[b] >= bal[b] /\ bal[b] >= free[b]
      BY <1>3, <1>8, <1>9
    <3> QED BY <3>1
  <2> QED BY <2>1
<1>11. /\ reserved' \in [Accounts -> Nat] /\ reserved'[RewardTreasury] = new
  BY <1>2, <1>3, <1>5, <1>7
<1>12. LedgerTypeOK'
  BY <1>7, <1>9, <1>11 DEF LedgerTypeOK
<1> QED BY <1>2, <1>10, <1>11, <1>12 DEF OnlyPay, RewardInv, RewardFunds, new

LEMMA RewardStepInv ==
    ASSUME LedgerTypeOK, RewardInv, RewardStep
    PROVE  OnlyPay({RewardTreasury}) /\ RewardInv'
<1>1. ASSUME NEW a \in Winners, award_achievement(a)
      PROVE  OnlyPay({RewardTreasury}) /\ RewardInv'
  <2> DEFINE token == AchievementToken(a, "Reputation", 0)
             old == SumOver(ValuesOf(rewards.achievements), Unredeemed(rewards.achievements))
             new == SumOver(ValuesOf(rewards'.achievements), Unredeemed(rewards'.achievements))
  <2>1. token \in RewardRecord /\ ~token.redeemed /\ token.altan_value = 0
    BY DEF AchievementToken, RewardRecord, AchievementCategory
  <2>2. WithToken(token) /\ UNCHANGED ledger
    BY <1>1 DEF award_achievement
  <2> HIDE DEF token
  <2>3. RewardTypeOK' /\ new = old + 0
    BY <2>1, <2>2, TokenAdded DEF RewardInv
  <2>4. OnlyPay({RewardTreasury}) /\ reserved' = reserved
    BY <2>2 DEF ledger, OnlyPay, LedgerTypeOK
  <2>5. reserved[RewardTreasury] = old /\ reserved[RewardTreasury] \in Nat
    BY RewardAssumption DEF RewardInv, RewardFunds, LedgerTypeOK
  <2> HIDE DEF old, new
  <2>6. reserved'[RewardTreasury] = new
    BY <2>3, <2>4, <2>5
  <2> QED BY <2>3, <2>4, <2>6 DEF RewardInv, RewardFunds, new
<1>2. \A v \in RewardAmounts : v \in Nat
  BY RewardAssumption
<1> QED BY <1>1, <1>2, IssueRewardStep, RedeemStep DEF RewardStep

LEMMA RewardsStay ==
    ASSUME RewardInv, UNCHANGED <<reserved, rewards>>
    PROVE  RewardInv'
BY DEF RewardInv, RewardTypeOK, RewardFunds

LEMMA RewardsStart ==
    ASSUME rewards = NoTokens, reserved[RewardTreasury] = 0
    PROVE  RewardInv
<1>1. /\ rewards = [achievements |-> rewards.achievements, held |-> rewards.held]
      /\ rewards.achievements = <<>>
  BY DEF NoTokens
<1>2. rewards.achievements \in Numbered(0, RewardRecord) /\ DOMAIN rewards.achievements = {}
  BY <1>1 DEF Numbered
<1>3. Unredeemed(rewards.achievements) = {} /\ IsFiniteSet({})
  BY <1>2, FS_EmptySet DEF Unredeemed
<1>4. SumOver(ValuesOf(rewards.achievements), {}) = 0
  BY <1>3, SumUnfolds
<1> QED BY <1>1, <1>2, <1>3, <1>4 DEF RewardInv, RewardTypeOK, RewardFunds

LEMMA RewardsAreThere ==
    ASSUME RewardInv
    PROVE  RewardsAreFunded
BY DEF RewardInv, RewardFunds, ValuesOf, Unredeemed, RewardsAreFunded

-----------------------------------------------------------------------------
(* Money in the registries                                                 *)

\* In the behaviours about the registries.
MoneyInv ==
    part \in Parts =>
        /\ LedgerTypeOK
        /\ part = "profits" => ProfitInv /\ block \in 0 .. MaxBlock
        /\ part = "mixer" => MixInv
        /\ part = "rewards" => RewardInv

\* Nothing leaves an author who does not donate.
LEMMA ChronicleStepPays ==
    ASSUME LedgerTypeOK, ChroniclesInv, ChronicleStep
    PROVE  OnlyPay(Authors)
<1>1. ASSUME NEW a \in Authors, NEW d \in Documents, publish_document(a, d)
      PROVE  OnlyPay(Authors)
  BY <1>1 DEF publish_document, ledger, OnlyPay, LedgerTypeOK
<1>2. ASSUME NEW a \in Authors, NEW d \in Documents, NEW v \in Donations, donate_to_author(a, d, v)
      PROVE  OnlyPay(Authors)
  <2> DEFINE dst == chronicles.owner[d]
  <2>1. a \in Accounts /\ dst \in Accounts /\ v \in Nat /\ transfer(a, dst, v, TRUE)
    BY <1>2, ChroniclesAssumption DEF ChroniclesInv, donate_to_author
  <2> HIDE DEF dst
  <2>2. Takes(a, dst, v)
    BY <2>1, TransferTakes
  <2>3. ASSUME NEW b \in Accounts \ Authors
        PROVE  free'[b] >= free[b]
    <3>1. free[b] \in Nat /\ free'[b] = free[b] - 0 + (IF b = dst /\ a # dst THEN v ELSE 0)
      BY <2>2, <2>3 DEF Takes, LedgerTypeOK
    <3> QED BY <2>1, <3>1
  <2> QED BY <2>2, <2>3 DEF Takes, OnlyPay
<1> QED BY <1>1, <1>2 DEF ChronicleStep

\* The treasuries of the DAOs lose nothing to those who are not they.
LEMMA TreasuriesAreSpared ==
    ASSUME LedgerTypeOK, NEW S, OnlyPay(S), DaoTreasuries \cap S = {}
    PROVE  LedgerTypeOK' /\ SpendsPassed
<1>1. ASSUME NEW o \in DaoOrgs
      PROVE  ~(free'[DaoTreasury[o]] < free[DaoTreasury[o]])
  <2>1. DaoTreasury[o] \in Accounts \ S
    BY DaoAssumption DEF DaoTreasuries
  <2>2. free[DaoTreasury[o]] \in Nat /\ free'[DaoTreasury[o]] \in Nat
    BY <2>1 DEF LedgerTypeOK, OnlyPay
  <2>3. free'[DaoTreasury[o]] >= free[DaoTreasury[o]]
    BY <2>1 DEF OnlyPay
  <2> QED BY <2>2, <2>3
<1> QED BY <1>1 DEF OnlyPay, SpendsPassed

\* What a step of the registries does to the ledger and to the book of its part.
MoneyKept ==
    /\ LedgerTypeOK' /\ SpendsPassed
    /\ part = "fees" => FeeIsWhole \/ free' = free
    /\ part = "profits" => ProfitInv' /\ block' \in 0 .. MaxBlock
    /\ part = "mixer" => MixInv'
    /\ part = "rewards" => RewardInv'

LEMMA MoneyStepKeeps ==
    ASSUME MoneyInv, RegistersInv, part \in Parts, MoneyStep
    PROVE  MoneyKept
<1>0. /\ LedgerTypeOK /\ DaoInv /\ ChroniclesInv
      /\ part = "profits" => ProfitInv /\ block \in 0 .. MaxBlock
      /\ part = "mixer" => MixInv
      /\ part = "rewards" => RewardInv
  BY DEF MoneyInv, RegistersInv
<1>1. /\ DaoTreasuries \cap Payers = {} /\ DaoTreasuries \cap Declarers = {}
      /\ DaoTreasuries \cap (Depositors \cup {PoolAccount}) = {}
      /\ DaoTreasuries \cap Authors = {} /\ DaoTreasuries \cap {RewardTreasury} = {}
  BY TillsAssumption
<1>2. CASE part = "profits" /\ ProfitTaxStep
  <2>1. OnlyPay(Declarers) /\ ProfitInv'
    BY <1>0, <1>2, ProfitStepInv
  <2>2. UNCHANGED block
    BY <1>2 DEF ProfitTaxStep, declare_annual_profit, set_regional_treasury,
       set_confederation_treasury
  <2>3. LedgerTypeOK' /\ SpendsPassed
    BY <1>0, <1>1, <2>1, TreasuriesAreSpared
  <2> QED BY <1>0, <1>2, <2>1, <2>2, <2>3 DEF MoneyKept
<1>3. CASE part = "fees" /\ FeeStep
  <2>1. OnlyPay(Payers) /\ FeeIsWhole
    BY <1>0, <1>3, FeeStepIsWhole
  <2>3. LedgerTypeOK' /\ SpendsPassed
    BY <1>0, <1>1, <2>1, TreasuriesAreSpared
  <2> QED BY <1>3, <2>1, <2>3 DEF MoneyKept
<1>4. CASE part = "mixer" /\ MixerStep
  <2>1. OnlyPay(Depositors \cup {PoolAccount}) /\ MixInv'
    BY <1>0, <1>4, MixerStepInv
  <2>3. LedgerTypeOK' /\ SpendsPassed
    BY <1>0, <1>1, <2>1, TreasuriesAreSpared
  <2> QED BY <1>4, <2>1, <2>3 DEF MoneyKept
<1>5. CASE part = "rewards" /\ RewardStep
  <2>1. OnlyPay({RewardTreasury}) /\ RewardInv'
    BY <1>0, <1>5, RewardStepInv
  <2>3. LedgerTypeOK' /\ SpendsPassed
    BY <1>0, <1>1, <2>1, TreasuriesAreSpared
  <2> QED BY <1>5, <2>1, <2>3 DEF MoneyKept
<1>6. CASE part = "daos" /\ DaoStep
  BY <1>0, <1>6, DaoStepSpends DEF MoneyKept
<1>7. CASE part = "chronicles" /\ ChronicleStep
  <2>1. OnlyPay(Authors)
    BY <1>0, <1>7, ChronicleStepPays
  <2>3. LedgerTypeOK' /\ SpendsPassed
    BY <1>0, <1>1, <2>1, TreasuriesAreSpared
  <2> QED BY <1>7, <2>3 DEF MoneyKept
<1> QED BY <1>2, <1>3, <1>4, <1>5, <1>6, <1>7 DEF MoneyStep

\* Who moves no money keeps the books, if the books stay.
LEMMA OthersKeep ==
    ASSUME MoneyInv, part \in Parts, UNCHANGED <<ledger, profitTax, mixer, rewards>>,
           UNCHANGED block \/ NextBlock
    PROVE  MoneyKept
<1>1. /\ LedgerTypeOK
      /\ part = "profits" => ProfitInv /\ block \in 0 .. MaxBlock
      /\ part = "mixer" => MixInv
      /\ part = "rewards" => RewardInv
  BY DEF MoneyInv
<1>2. UNCHANGED <<free, profitTax>> /\ UNCHANGED <<free, mixer>> /\ UNCHANGED <<reserved, rewards>>
  BY DEF ledger
<1>3. ASSUME NEW o \in DaoOrgs
      PROVE  ~(free'[DaoTreasury[o]] < free[DaoTreasury[o]])
  BY <1>1, <1>2, DaoAssumption DEF LedgerTypeOK
<1>4. LedgerTypeOK' /\ SpendsPassed
  BY <1>1, <1>3 DEF ledger, LedgerTypeOK, SpendsPassed
<1>5. block \in 0 .. MaxBlock => block' \in 0 .. MaxBlock
  BY ClockAssumption DEF NextBlock
<1>6. ProfitInv => ProfitInv'
  BY <1>2, ProfitStays
<1>7. MixInv => MixInv'
  BY <1>2, MixStays
<1>8. RewardInv => RewardInv'
  BY <1>2, RewardsStay
<1> QED BY <1>1, <1>2, <1>4, <1>5, <1>6, <1>7, <1>8 DEF MoneyKept

LEMMA RegistryStepKeeps ==
    ASSUME MoneyInv, RegistersInv, part \in Parts, [MCNext]_MCvars
    PROVE  part' = part /\ MoneyKept
<1>1. ~JusticeNext
  BY DEF JusticeNext, Parts
<1>2. CASE MoneyStep /\ RegistriesNext
  BY <1>2, MoneyStepKeeps DEF RegistriesNext
<1>3. CASE RecordStep /\ RegistriesNext
  <2>1. UNCHANGED <<ledger, profitTax, mixer, rewards>>
    BY <1>3 DEF RecordStep
  <2>2. UNCHANGED block
    BY <1>3 DEF RecordStep, RecoveryStep, MigrationStep, issue_recovery_nfts, initiate_recovery,
       veto_recovery, confirm_recovery, submit_application, claim_application,
       finalize_application, revoke_application
  <2> QED BY <1>3, <2>1, <2>2, OthersKeep DEF RegistriesNext
<1>4. CASE RegisterStep /\ RegistriesNext
  BY <1>4, OthersKeep DEF RegisterStep, RegistriesNext
<1>5. CASE Tick /\ RegistriesNext
  BY <1>5, OthersKeep DEF Tick, registryVars, RegistriesNext
<1>6. CASE UNCHANGED MCvars
  BY <1>6, OthersKeep DEF MCvars, registryVars
<1> QED BY <1>1, <1>2, <1>3, <1>4, <1>5, <1>6 DEF MCNext, RegistriesNext

LEMMA MoneyStepsOn ==
    ASSUME MoneyInv, RegistersInv, [MCNext]_MCvars
    PROVE  MoneyInv'
<1>1. part' = part
  BY DEF MCNext, JusticeNext, RegistriesNext, MCvars
<1>2. CASE part \in Parts
  BY <1>1, <1>2, RegistryStepKeeps DEF MoneyInv, MoneyKept
<1>3. CASE part \notin Parts
  BY <1>1, <1>3 DEF MoneyInv
<1> QED BY <1>2, <1>3

LEMMA MoneyStart ==
    ASSUME MCInit
    PROVE  MoneyInv
<1> SUFFICES ASSUME part \in Parts
             PROVE  /\ LedgerTypeOK
                    /\ part = "profits" => ProfitInv /\ block \in 0 .. MaxBlock
                    /\ part = "mixer" => MixInv
                    /\ part = "rewards" => RewardInv
  BY DEF MoneyInv
<1>1. part \notin JusticeParts
  BY DEF Parts, JusticeParts
<1>2. /\ free = Wealth /\ reserved = [a \in Accounts |-> 0] /\ frozen = [a \in Accounts |-> 0]
      /\ issuance = SumOver(Wealth, Accounts) /\ block = 0
      /\ mixer = EmptyMixer /\ rewards = NoTokens
      /\ \E t \in TaxTreasuries : profitTax = NoDeclarations(t, t)
  BY <1>1 DEF MCInit, Founded
<1>3. Capital \in Nat /\ ExistentialDeposit \in Nat
  BY LedgerAssumption DEF Capital
<1>4. Wealth \in [Accounts -> Nat]
        /\ \A a \in Accounts \ Rich : Wealth[a] = ExistentialDeposit
  BY <1>3 DEF Wealth
<1>5. SumOver(Wealth, Accounts) \in Int
  BY <1>4, SumIsInt, LedgerAssumption
<1>6. LedgerTypeOK
  BY <1>2, <1>4, <1>5 DEF LedgerTypeOK
<1>7. ProfitInv
  <2>1. PICK t \in TaxTreasuries : profitTax = NoDeclarations(t, t)
    BY <1>2
  <2>2. \A a \in TaxTreasuries : free[a] = ExistentialDeposit
    BY <1>2, <1>4, TillsAssumption, ProfitTaxAssumption
  <2> QED BY <2>1, <2>2, ProfitStart
<1>8. block \in 0 .. MaxBlock
  BY <1>2, ClockAssumption
<1>9. MixInv
  <2>1. PoolAccount \in Accounts \ Rich
    BY MixerAssumption, TillsAssumption
  <2>2. free[PoolAccount] = ExistentialDeposit
    BY <1>2, <1>4, <2>1
  <2> QED BY <1>2, <2>2, MixStart
<1>10. RewardInv
  <2>1. reserved[RewardTreasury] = 0
    BY <1>2, RewardAssumption
  <2> QED BY <1>2, <2>1, RewardsStart
<1> QED BY <1>6, <1>7, <1>8, <1>9, <1>10

LEMMA MoneyInvariant == MCSpec => []MoneyInv
<1>1. MCInit => MoneyInv
  BY MoneyStart
<1>2. MoneyInv /\ RegistersInv /\ [MCNext]_MCvars => MoneyInv'
  BY MoneyStepsOn
<1> QED BY <1>1, <1>2, RegistersInvariant, PTL DEF MCSpec

(***************************************************************************)
(* The tax treasuries hold what the declarations record as paid, and who   *)
(* declares the same later pays no less; the pool of the mixer holds what  *)
(* the unspent commitments are worth; and the reward treasury has reserved *)
(* what the tokens not yet redeemed are worth.                             *)
(***************************************************************************)
THEOREM Books == MCSpec => []MoneyIsAccounted
<1>1. MoneyInv => MoneyIsAccounted
  <2> SUFFICES ASSUME MoneyInv PROVE MoneyIsAccounted
    OBVIOUS
  <2>1. ASSUME part = "profits"
        PROVE  TaxesAreRecorded(ExistentialDeposit * Cardinality(TaxTreasuries))
    <3>1. ProfitInv
      BY <2>1 DEF MoneyInv, Parts
    <3> QED BY <3>1, TaxesAreThere
  <2>2. ASSUME part = "mixer"
        PROVE  MixIsBacked(ExistentialDeposit)
    <3>1. MixInv
      BY <2>2 DEF MoneyInv, Parts
    <3> QED BY <3>1, MixIsThere
  <2>3. ASSUME part = "rewards"
        PROVE  RewardsAreFunded
    <3>1. RewardInv
      BY <2>3 DEF MoneyInv, Parts
    <3> QED BY <3>1, RewardsAreThere
  <2> QED BY <2>1, <2>2, <2>3 DEF MoneyIsAccounted
<1> QED BY <1>1, MoneyInvariant, PTL

(***************************************************************************)
(* In every behaviour about the registries a transfer with a fee collects  *)
(* the whole of it, and the treasury of a DAO pays what its council passed *)
(* and nothing else, whoever else moves money.                             *)
(***************************************************************************)
THEOREM TillsKept == MCSpec /\ part \in Parts => TillsAreKept
<1> DEFINE Here == part \in Parts
<1>1. Here /\ [MCNext]_MCvars => Here'
  BY DEF MCNext, JusticeNext, RegistriesNext, MCvars
<1>2. Here /\ MoneyInv /\ RegistersInv /\ [MCNext]_MCvars => [part = "fees" => FeeIsWhole]_free
  BY RegistryStepKeeps DEF MoneyKept
<1>3. Here /\ MoneyInv /\ RegistersInv /\ [MCNext]_MCvars =>
         [\A o \in DaoOrgs :
          free'[DaoTreasury[o]] < free[DaoTreasury[o]] =>
             \E p \in DOMAIN dao.proposals \ DOMAIN dao'.proposals :
                /\ dao.proposals[p].org_id = o /\ dao.proposals[p].status = "Passed"
                /\ free[DaoTreasury[o]] - free'[DaoTreasury[o]] = dao.proposals[p].amount]_<<ledger, dao>>
  BY RegistryStepKeeps DEF MoneyKept, SpendsPassed
<1>4. MCSpec /\ Here => []Here
  BY <1>1, PTL DEF MCSpec
<1> QED BY <1>2, <1>3, <1>4, MoneyInvariant, RegistersInvariant, PTL
        DEF MCSpec, TillsAreKept, TreasurySpendsPassed

-----------------------------------------------------------------------------
(* Agreements.  What annul_signatures cancels was not in force.            *)

\* The record of an agreement.
AgreementShape(a) ==
    a = [parties |-> a.parties, validators |-> a.validators, signed_by |-> a.signed_by,
         validated_by |-> a.validated_by, status |-> a.status]

\* What is in force was signed by all and confirmed by all.
Consented(a) ==
    /\ AgreementShape(a)
    /\ a.signed_by \subseteq a.parties /\ a.validated_by \subseteq a.validators
    /\ a.status \in {"PendingValidation", "Active", "Disputed", "Completed"} =>
          a.signed_by = a.parties
    /\ a.status \in {"Active", "Disputed", "Completed"} =>
          a.validated_by = a.validators /\ a.validators \subseteq Professionals

\* Validators that are confirmed are professionals, also before all of them have confirmed.
AgreementsInv ==
    \A d \in DOMAIN agreements :
        /\ Consented(agreements[d])
        /\ agreements[d].validated_by \subseteq Professionals

\* One agreement gets another record.
LEMMA AgreementChanges ==
    ASSUME AgreementsInv, NEW d \in DOMAIN agreements, NEW a, Consented(a),
           a.validated_by \subseteq Professionals, agreements' = [agreements EXCEPT ![d] = a]
    PROVE  AgreementsInv'
BY DEF AgreementsInv

\* A proposal has no signature yet.
LEMMA ProposeStep ==
    ASSUME AgreementsInv, NEW s, NEW d, NEW list, NEW V, propose_agreement(s, d, list, V)
    PROVE  AgreementsInv'
<1> DEFINE parties == {list[i] : i \in DOMAIN list}
           a == Agreement(parties, V)
<1>1. Consented(a) /\ a.validated_by = {}
  <2> HIDE DEF parties
  <2> QED BY DEF Agreement, Consented, AgreementShape
<1>2. agreements' = Put(agreements, d, a)
  BY DEF propose_agreement
<1> HIDE DEF a
<1> QED BY <1>1, <1>2 DEF AgreementsInv, Put

\* The signature that completes the list puts the agreement in force or before the validators.
LEMMA SignStep ==
    ASSUME AgreementsInv, NEW s, NEW d, sign_agreement(s, d)
    PROVE  AgreementsInv'
<1> DEFINE a      == agreements[d]
           signed == a.signed_by \cup {s}
           status == IF ~all_present(a.parties, signed) THEN "PendingSignatures"
                     ELSE IF a.validators # {} THEN "PendingValidation" ELSE "Active"
           b      == [a EXCEPT !.signed_by = signed, !.status = status]
<1>1. /\ d \in DOMAIN agreements /\ a.status = "PendingSignatures" /\ s \in a.parties
      /\ agreements' = [agreements EXCEPT ![d] = b]
  BY DEF sign_agreement, InStatus
<1>2. Consented(a) /\ a.validated_by \subseteq Professionals
  BY <1>1 DEF AgreementsInv
<1>3. /\ signed \subseteq a.parties
      /\ status # "PendingSignatures" => signed = a.parties
      /\ status = "Active" => a.validators = {}
      /\ status \in {"PendingSignatures", "PendingValidation", "Active"}
  BY <1>1, <1>2 DEF Consented, all_present
<1> HIDE DEF signed, status
<1> HIDE DEF a
<1>4. b = [parties |-> a.parties, validators |-> a.validators, signed_by |-> signed,
           validated_by |-> a.validated_by, status |-> status]
  <2> DEFINE t == [a EXCEPT !.signed_by = signed]
  <2>1. a = [parties |-> a.parties, validators |-> a.validators, signed_by |-> a.signed_by,
             validated_by |-> a.validated_by, status |-> a.status]
    BY <1>2 DEF Consented, AgreementShape
  <2>2. t = [parties |-> a.parties, validators |-> a.validators, signed_by |-> signed,
             validated_by |-> a.validated_by, status |-> a.status]
    BY <2>1
  <2>3. b = [t EXCEPT !.status = status]
    BY <2>1, <2>2
  <2> HIDE DEF t, b
  <2> QED BY <2>2, <2>3
<1> HIDE DEF b
<1>5. Consented(b) /\ b.validated_by \subseteq Professionals
  BY <1>2, <1>3, <1>4 DEF Consented, AgreementShape
<1> QED BY <1>1, <1>5, AgreementChanges

\* Only professionals confirm.
LEMMA ValidateStep ==
    ASSUME AgreementsInv, NEW v, NEW d, validate_agreement(v, d)
    PROVE  AgreementsInv'
<1> DEFINE a         == agreements[d]
           validated == a.validated_by \cup {v}
           status    == IF all_present(a.validators, validated) THEN "Active"
                        ELSE "PendingValidation"
           b         == [a EXCEPT !.validated_by = validated, !.status = status]
<1>1. /\ d \in DOMAIN agreements /\ a.status = "PendingValidation" /\ v \in a.validators
      /\ v \in Professionals /\ agreements' = [agreements EXCEPT ![d] = b]
  BY DEF validate_agreement, InStatus
<1>2. Consented(a) /\ a.validated_by \subseteq Professionals
  BY <1>1 DEF AgreementsInv
<1>3. /\ validated \subseteq a.validators /\ validated \subseteq Professionals
      /\ status = "Active" => validated = a.validators
      /\ status \in {"PendingValidation", "Active"}
      /\ a.signed_by = a.parties
  BY <1>1, <1>2 DEF Consented, all_present
<1> HIDE DEF validated, status
<1> HIDE DEF a
<1>4. b = [parties |-> a.parties, validators |-> a.validators, signed_by |-> a.signed_by,
           validated_by |-> validated, status |-> status]
  <2> DEFINE t == [a EXCEPT !.validated_by = validated]
  <2>1. a = [parties |-> a.parties, validators |-> a.validators, signed_by |-> a.signed_by,
             validated_by |-> a.validated_by, status |-> a.status]
    BY <1>2 DEF Consented, AgreementShape
  <2>2. t = [parties |-> a.parties, validators |-> a.validators, signed_by |-> a.signed_by,
             validated_by |-> validated, status |-> a.status]
    BY <2>1
  <2>3. b = [t EXCEPT !.status = status]
    BY <2>1, <2>2
  <2> HIDE DEF t, b
  <2> QED BY <2>2, <2>3
<1> HIDE DEF b
<1>5. Consented(b) /\ b.validated_by \subseteq Professionals
  BY <1>2, <1>3, <1>4 DEF Consented, AgreementShape
<1> QED BY <1>1, <1>5, AgreementChanges

\* A status that is no earlier one: what is concluded or cancelled keeps its signatures.
LEMMA StatusKeepsConsent ==
    ASSUME NEW a, Consented(a), NEW status \in {"Disputed", "Completed", "Cancelled"},
           status # "Cancelled" => a.status = "Active"
    PROVE  /\ Consented([a EXCEPT !.status = status])
           /\ [a EXCEPT !.status = status].validated_by = a.validated_by
<1> DEFINE b == [a EXCEPT !.status = status]
<1>1. b = [parties |-> a.parties, validators |-> a.validators, signed_by |-> a.signed_by,
           validated_by |-> a.validated_by, status |-> status]
  BY DEF Consented, AgreementShape
<1> HIDE DEF b
<1>2. Consented(b) /\ b.validated_by = a.validated_by
  BY <1>1 DEF Consented, AgreementShape
<1> QED BY <1>2 DEF b

\* A party disputes or completes what is in force.
LEMMA ConcludeStep ==
    ASSUME AgreementsInv, NEW s, NEW d, NEW status \in {"Disputed", "Completed"},
           Conclude(s, d, status)
    PROVE  AgreementsInv'
<1> DEFINE b == [agreements[d] EXCEPT !.status = status]
<1>1. d \in DOMAIN agreements /\ agreements[d].status = "Active"
  BY DEF Conclude, InStatus
<1>2. Consented(agreements[d]) /\ agreements[d].validated_by \subseteq Professionals
  BY <1>1 DEF AgreementsInv
<1>3. Consented(b) /\ b.validated_by \subseteq Professionals
  BY <1>1, <1>2, StatusKeepsConsent
<1>4. agreements' = [agreements EXCEPT ![d] = b]
  BY DEF Conclude
<1> HIDE DEF b
<1> QED BY <1>1, <1>3, <1>4, AgreementChanges

\* Every call of the chancery keeps the books of consent.
LEMMA AgreementSteps ==
    ASSUME AgreementsInv, AgreementStep
    PROVE  AgreementsInv'
<1>1. PICK s \in Signers, d \in Agreements :
        \/ \E list \in PartyLists, V \in SUBSET Signers : propose_agreement(s, d, list, V)
        \/ sign_agreement(s, d)
        \/ validate_agreement(s, d)
        \/ raise_dispute(s, d)
        \/ complete_agreement(s, d)
  BY DEF AgreementStep
<1> QED BY <1>1, ProposeStep, SignStep, ValidateStep, ConcludeStep
        DEF raise_dispute, complete_agreement

\* The death or exile of a party cancels what waits for its signature.
LEMMA AnnulStep ==
    ASSUME AgreementsInv, NEW who, agreements' = AnnulledFor(who)
    PROVE  AgreementsInv'
<1> SUFFICES ASSUME NEW d \in DOMAIN agreements
             PROVE  /\ Consented(agreements'[d])
                    /\ agreements'[d].validated_by \subseteq Professionals
  BY DEF AnnulledFor, AgreementsInv
<1>1. Consented(agreements[d]) /\ agreements[d].validated_by \subseteq Professionals
  BY DEF AgreementsInv
<1>2. \/ agreements'[d] = [agreements[d] EXCEPT !.status = "Cancelled"]
      \/ agreements'[d] = agreements[d]
  BY DEF AnnulledFor
<1> QED BY <1>1, <1>2, StatusKeepsConsent

-----------------------------------------------------------------------------
(* Marriages and nicknames.  Two maps that are each other's inverse.       *)

\* The storage of the identity pallet is a record of its maps and sets.
CivilShape(v) ==
    v = [nextCitizenId |-> v.nextCitizenId, hashes |-> v.hashes, births |-> v.births,
         parents |-> v.parents, deaths |-> v.deaths, guardian |-> v.guardian,
         oracle |-> v.oracle, spouse |-> v.spouse, nicknameOf |-> v.nicknameOf,
         holderOf |-> v.holderOf]

\* Everybody in the map is married to somebody else, who is married to them.
Coupled(m) == \A a \in DOMAIN m : m[a] # a /\ m[a] \in DOMAIN m /\ m[m[a]] = a

\* The maps are each other's inverse.
Inverses(f, g) ==
    /\ \A a \in DOMAIN f : f[a] \in DOMAIN g /\ g[f[a]] = a
    /\ \A b \in DOMAIN g : g[b] \in DOMAIN f /\ f[g[b]] = b

CivilInv ==
    /\ CivilShape(civil)
    /\ Coupled(civil.spouse)
    /\ Inverses(civil.nicknameOf, civil.holderOf)

\* A marriage adds a couple of two who are single.
LEMMA MarriageCouples ==
    ASSUME NEW m, Coupled(m), NEW a, NEW b, a # b, a \notin DOMAIN m, b \notin DOMAIN m
    PROVE  Coupled(Put(Put(m, a, b), b, a))
<1> DEFINE p == Put(m, a, b)
           q == Put(p, b, a)
<1>1. DOMAIN p = DOMAIN m \cup {a} /\ p[a] = b /\ \A x \in DOMAIN m : p[x] = m[x]
  BY DEF Put
<1> HIDE DEF p
<1>2. DOMAIN q = DOMAIN p \cup {b} /\ q[b] = a /\ \A x \in DOMAIN p \ {b} : q[x] = p[x]
  BY DEF Put
<1> HIDE DEF q
<1>3. /\ DOMAIN q = DOMAIN m \cup {a, b} /\ q[a] = b /\ q[b] = a
      /\ \A x \in DOMAIN m : q[x] = m[x]
  BY <1>1, <1>2
<1>4. Coupled(q)
  BY <1>3 DEF Coupled
<1> QED BY <1>4 DEF p, q

\* A divorce takes the couple away.
LEMMA DivorceUncouples ==
    ASSUME NEW m, Coupled(m), NEW a \in DOMAIN m
    PROVE  Coupled(Without(Without(m, m[a]), a))
<1> DEFINE q == Without(Without(m, m[a]), a)
<1>1. DOMAIN q = DOMAIN m \ {a, m[a]} /\ \A x \in DOMAIN q : q[x] = m[x]
  BY DEF Without
<1> HIDE DEF q
<1>2. Coupled(q)
  BY <1>1 DEF Coupled
<1> QED BY <1>2 DEF q

\* A name nobody has, for somebody without one.
LEMMA NicknameAdded ==
    ASSUME NEW f, NEW g, Inverses(f, g), NEW a, NEW b, a \notin DOMAIN f, b \notin DOMAIN g
    PROVE  Inverses(Put(f, a, b), Put(g, b, a))
BY DEF Inverses, Put

\* The name of somebody who has one becomes free.
LEMMA NicknameCleared ==
    ASSUME NEW f, NEW g, Inverses(f, g), NEW a \in DOMAIN f
    PROVE  Inverses(Without(f, a), Without(g, f[a]))
BY DEF Inverses, Without

\* The books after each of the acts.
LEMMA ActIsBooked ==
    ASSUME CivilInv, CivilActStep
    PROVE  CivilInv' /\ civil'.deaths = civil.deaths
<1> DEFINE v == civil
<1>0. CivilShape(v) /\ Coupled(v.spouse) /\ Inverses(v.nicknameOf, v.holderOf)
  BY DEF CivilInv
<1>1. ASSUME NEW a, NEW b, register_marriage(a, b)
      PROVE  CivilInv' /\ civil'.deaths = v.deaths
  <2> DEFINE m == Put(Put(v.spouse, a, b), b, a)
  <2>1. /\ a # b /\ a \notin DOMAIN v.spouse /\ b \notin DOMAIN v.spouse
        /\ civil' = [v EXCEPT !.spouse = m]
    BY <1>1 DEF register_marriage, BothAreSingle, IsSingle
  <2>2. Coupled(m)
    BY <1>0, <2>1, MarriageCouples
  <2> HIDE DEF m, v
  <2>3. CivilShape(civil') /\ civil'.spouse = m
        /\ civil'.nicknameOf = v.nicknameOf /\ civil'.holderOf = v.holderOf
        /\ civil'.deaths = v.deaths
    BY <1>0, <2>1 DEF CivilShape
  <2> QED BY <1>0, <2>2, <2>3 DEF CivilInv
<1>2. ASSUME NEW a, register_divorce(a)
      PROVE  CivilInv' /\ civil'.deaths = v.deaths
  <2> DEFINE m == Without(Without(v.spouse, v.spouse[a]), a)
  <2>1. a \in DOMAIN v.spouse /\ civil' = [v EXCEPT !.spouse = m]
    BY <1>2 DEF register_divorce, IsSingle, Divorced
  <2>2. Coupled(m)
    BY <1>0, <2>1, DivorceUncouples
  <2> HIDE DEF m, v
  <2>3. CivilShape(civil') /\ civil'.spouse = m
        /\ civil'.nicknameOf = v.nicknameOf /\ civil'.holderOf = v.holderOf
        /\ civil'.deaths = v.deaths
    BY <1>0, <2>1 DEF CivilShape
  <2> QED BY <1>0, <2>2, <2>3 DEF CivilInv
<1>3. ASSUME NEW f, NEW g, Inverses(f, g), civil' = [v EXCEPT !.nicknameOf = f, !.holderOf = g]
      PROVE  CivilInv' /\ civil'.deaths = v.deaths
  <2> DEFINE w == [v EXCEPT !.nicknameOf = f]
  <2>1. civil' = [w EXCEPT !.holderOf = g]
    BY <1>0, <1>3 DEF CivilShape
  <2> HIDE DEF v
  <2>2. CivilShape(w) /\ w.spouse = v.spouse /\ w.nicknameOf = f /\ w.deaths = v.deaths
    BY <1>0 DEF CivilShape
  <2> HIDE DEF w
  <2>3. CivilShape(civil') /\ civil'.spouse = w.spouse
        /\ civil'.nicknameOf = w.nicknameOf /\ civil'.holderOf = g
        /\ civil'.deaths = w.deaths
    BY <2>1, <2>2 DEF CivilShape
  <2> QED BY <1>0, <1>3, <2>2, <2>3 DEF CivilInv
<1>4. ASSUME NEW a, NEW name, register_nickname(a, name)
      PROVE  CivilInv' /\ civil'.deaths = v.deaths
  <2> DEFINE f == Put(v.nicknameOf, a, name)
             g == Put(v.holderOf, name, a)
  <2>1. /\ a \notin DOMAIN v.nicknameOf /\ name \notin DOMAIN v.holderOf
        /\ civil' = [v EXCEPT !.nicknameOf = f, !.holderOf = g]
    BY <1>4 DEF register_nickname
  <2>2. Inverses(f, g)
    BY <1>0, <2>1, NicknameAdded
  <2> HIDE DEF f, g
  <2> QED BY <1>3, <2>1, <2>2
<1>5. ASSUME NEW a, clear_nickname(a)
      PROVE  CivilInv' /\ civil'.deaths = v.deaths
  <2> DEFINE f == Without(v.nicknameOf, a)
             g == Without(v.holderOf, v.nicknameOf[a])
  <2>1. a \in DOMAIN v.nicknameOf /\ civil' = [v EXCEPT !.nicknameOf = f, !.holderOf = g]
    BY <1>5 DEF clear_nickname
  <2>2. Inverses(f, g)
    BY <1>0, <2>1, NicknameCleared
  <2> HIDE DEF f, g
  <2> QED BY <1>3, <2>1, <2>2
<1> QED BY <1>1, <1>2, <1>4, <1>5 DEF CivilActStep

\* The register of deaths is another one.
LEMMA DeathIsBooked ==
    ASSUME CivilInv, NEW c, register_death(c)
    PROVE  CivilInv' /\ civil'.deaths = civil.deaths \cup {c}
<1> DEFINE v == civil
           D == v.deaths \cup {c}
<1>1. civil' = [v EXCEPT !.deaths = D]
  BY DEF register_death
<1>2. CivilShape(v) /\ Coupled(v.spouse) /\ Inverses(v.nicknameOf, v.holderOf)
  BY DEF CivilInv
<1> HIDE DEF v, D
<1>3. CivilShape(civil') /\ civil'.spouse = v.spouse
      /\ civil'.nicknameOf = v.nicknameOf /\ civil'.holderOf = v.holderOf
      /\ civil'.deaths = D
  BY <1>1, <1>2 DEF CivilShape
<1> QED BY <1>2, <1>3 DEF CivilInv, v, D

\* The books agree as the invariant says.
LEMMA BooksAgree ==
    ASSUME CivilInv
    PROVE  CivilBooksAgree
BY DEF CivilInv, Coupled, Inverses, CivilBooksAgree

-----------------------------------------------------------------------------
(* Citizens.  What Root, death and exile change of a citizen's record.     *)

\* A citizen's record.
Person(r) ==
    r = [citizen_id |-> r.citizen_id, nation_id |-> r.nation_id, role |-> r.role,
         status |-> r.status, verification |-> r.verification,
         vesting_level |-> r.vesting_level, branch |-> r.branch,
         khural_terms_served |-> r.khural_terms_served,
         citizenship_status |-> r.citizenship_status]

\* The citizens have such records.
PeopleInv ==
    /\ DOMAIN citizens \subseteq Citizens \cup Guests
    /\ \A c \in DOMAIN citizens : Person(citizens[c])

\* The record s is r with another status.
Restated(r, s, status) ==
    Person(s) /\ s.citizenship_status = r.citizenship_status /\ s.status = status

\* A step after which everybody has the citizenship they had.
SameCitizenship ==
    /\ PeopleInv'
    /\ DOMAIN citizens' = DOMAIN citizens
    /\ \A c \in DOMAIN citizens : citizens'[c].citizenship_status = citizens[c].citizenship_status

\* One citizen gets another record.
LEMMA OneRestated ==
    ASSUME PeopleInv, NEW c \in DOMAIN citizens, NEW r, NEW status,
           Restated(citizens[c], r, status), citizens' = [citizens EXCEPT ![c] = r]
    PROVE  /\ SameCitizenship
           /\ citizens'[c].status = status
           /\ \A d \in DOMAIN citizens \ {c} : citizens'[d] = citizens[d]
BY DEF PeopleInv, Restated, SameCitizenship

\* Of one field.
LEMMA FieldRestated ==
    ASSUME NEW r, Person(r), NEW v
    PROVE  /\ Restated(r, [r EXCEPT !.status = v], v)
           /\ Restated(r, [r EXCEPT !.role = v], r.status)
           /\ Restated(r, [r EXCEPT !.branch = v], r.status)
<1>1. Restated(r, [r EXCEPT !.status = v], v)
  <2> DEFINE s == [r EXCEPT !.status = v]
  <2>1. s = [citizen_id |-> r.citizen_id, nation_id |-> r.nation_id, role |-> r.role,
             status |-> v, verification |-> r.verification,
             vesting_level |-> r.vesting_level, branch |-> r.branch,
             khural_terms_served |-> r.khural_terms_served,
             citizenship_status |-> r.citizenship_status]
    BY DEF Person
  <2> HIDE DEF s
  <2>2. Restated(r, s, v)
    BY <2>1 DEF Restated, Person
  <2> QED BY <2>2 DEF s
<1>2. Restated(r, [r EXCEPT !.role = v], r.status)
  <2> DEFINE s == [r EXCEPT !.role = v]
  <2>1. s = [citizen_id |-> r.citizen_id, nation_id |-> r.nation_id, role |-> v,
             status |-> r.status, verification |-> r.verification,
             vesting_level |-> r.vesting_level, branch |-> r.branch,
             khural_terms_served |-> r.khural_terms_served,
             citizenship_status |-> r.citizenship_status]
    BY DEF Person
  <2> HIDE DEF s
  <2>2. Restated(r, s, r.status)
    BY <2>1 DEF Restated, Person
  <2> QED BY <2>2 DEF s
<1>3. Restated(r, [r EXCEPT !.branch = v], r.status)
  <2> DEFINE s == [r EXCEPT !.branch = v]
  <2>1. s = [citizen_id |-> r.citizen_id, nation_id |-> r.nation_id, role |-> r.role,
             status |-> r.status, verification |-> r.verification,
             vesting_level |-> r.vesting_level, branch |-> v,
             khural_terms_served |-> r.khural_terms_served,
             citizenship_status |-> r.citizenship_status]
    BY DEF Person
  <2> HIDE DEF s
  <2>2. Restated(r, s, r.status)
    BY <2>1 DEF Restated, Person
  <2> QED BY <2>2 DEF s
<1> QED BY <1>1, <1>2, <1>3

\* Root's calls keep the citizenship.
LEMMA RootKeepsCitizenship ==
    ASSUME PeopleInv, NEW c \in DOMAIN citizens, RegistryStep(c)
    PROVE  SameCitizenship
<1> DEFINE r == citizens[c]
<1>1. Person(r)
  BY DEF PeopleInv
<1>2. \/ \E role \in Roles : citizens' = [citizens EXCEPT ![c] = [r EXCEPT !.role = role]]
      \/ \E status \in {"Active", "Frozen"} :
            citizens' = [citizens EXCEPT ![c] = [r EXCEPT !.status = status]]
  BY DEF RegistryStep, update_role, freeze_citizen, unfreeze_citizen
<1>3. ASSUME NEW s, NEW status, Restated(r, s, status), citizens' = [citizens EXCEPT ![c] = s]
      PROVE  SameCitizenship
  BY <1>3, OneRestated
<1> HIDE DEF r
<1> QED BY <1>1, <1>2, <1>3, FieldRestated

\* A changed record is restated when the record it is changed from is.
LEMMA RestatedTwice ==
    ASSUME NEW r, NEW s, NEW t, NEW v, NEW w, Restated(r, s, v), Restated(s, t, w)
    PROVE  Restated(r, t, w)
BY DEF Restated

\* Death and exile leave the citizenship and set the status.
LEMMA TerminalRecord ==
    ASSUME NEW r, Person(r)
    PROVE  /\ Restated(r, [r EXCEPT !.status = "Deceased", !.role = "Regular", !.branch = "None"],
                       "Deceased")
           /\ Restated(r, [r EXCEPT !.status = "Exiled", !.role = "Regular"], "Exiled")
<1>1. ASSUME NEW status
      PROVE  Restated(r, [r EXCEPT !.status = status, !.role = "Regular"], status)
  <2> DEFINE s == [r EXCEPT !.status = status]
             t == [s EXCEPT !.role = "Regular"]
  <2>1. Restated(r, s, status)
    BY FieldRestated
  <2>2. s.status = status /\ Person(s)
    BY <2>1 DEF Restated
  <2>3. t = [r EXCEPT !.status = status, !.role = "Regular"]
    BY DEF Person
  <2> HIDE DEF s
  <2>4. Restated(s, t, status)
    BY <2>2, FieldRestated
  <2> HIDE DEF t
  <2>5. Restated(r, t, status)
    BY <2>1, <2>4, RestatedTwice
  <2> QED BY <2>3, <2>5
<1>2. Restated(r, [r EXCEPT !.status = "Deceased", !.role = "Regular", !.branch = "None"],
               "Deceased")
  <2> DEFINE s == [r EXCEPT !.status = "Deceased", !.role = "Regular"]
             t == [s EXCEPT !.branch = "None"]
  <2>1. Restated(r, s, "Deceased")
    BY <1>1
  <2>2. s.status = "Deceased" /\ Person(s)
    BY <2>1 DEF Restated
  <2>3. t = [r EXCEPT !.status = "Deceased", !.role = "Regular", !.branch = "None"]
    BY DEF Person
  <2> HIDE DEF s
  <2>4. Restated(s, t, "Deceased")
    BY <2>2, FieldRestated
  <2> HIDE DEF t
  <2>5. Restated(r, t, "Deceased")
    BY <2>1, <2>4, RestatedTwice
  <2> QED BY <2>3, <2>5
<1> QED BY <1>1, <1>2

\* The citizens after a death.
LEMMA DeathKeepsCitizenship ==
    ASSUME PeopleInv, NEW c, register_death(c)
    PROVE  /\ SameCitizenship
           /\ c \in DOMAIN citizens /\ citizens'[c].status = "Deceased"
           /\ \A d \in DOMAIN citizens \ {c} : citizens'[d] = citizens[d]
<1> DEFINE r == citizens[c]
           s == [r EXCEPT !.status = "Deceased", !.role = "Regular", !.branch = "None"]
<1>1. c \in DOMAIN citizens /\ citizens' = [citizens EXCEPT ![c] = s]
  BY DEF register_death, IsRegistered
<1>2. Restated(r, s, "Deceased")
  BY <1>1, TerminalRecord DEF PeopleInv
<1> HIDE DEF s
<1> QED BY <1>1, <1>2, OneRestated

\* The citizens after an exile.
LEMMA ExileKeepsCitizenship ==
    ASSUME PeopleInv, NEW c \in DOMAIN citizens, citizens' = Exile(c)
    PROVE  /\ SameCitizenship
           /\ citizens'[c].status = "Exiled"
           /\ \A d \in DOMAIN citizens \ {c} : citizens'[d] = citizens[d]
<1> DEFINE r == citizens[c]
           s == [r EXCEPT !.status = "Exiled", !.role = "Regular"]
<1>1. citizens' = [citizens EXCEPT ![c] = s]
  BY DEF Exile
<1>2. Restated(r, s, "Exiled")
  BY TerminalRecord DEF PeopleInv
<1> HIDE DEF s
<1> QED BY <1>1, <1>2, OneRestated

\* The settlers are such citizens.
LEMMA SettlersArePeople ==
    ASSUME NEW people, people \subseteq Citizens \cup Guests, citizens = Settlers(people)
    PROVE  PeopleInv
<1> DEFINE number == CHOOSE f \in [people -> 1 .. Cardinality(people)] :
                        \A c, d \in people : f[c] = f[d] => c = d
           of(c) == IF c = First THEN "Foreigner" ELSE "Indigenous"
<1>1. citizens = [c \in people |-> Identified(number[c], 1, "Regular", "Active", of(c))]
  BY DEF Settlers
<1> HIDE DEF number, of
<1>2. ASSUME NEW i, NEW nation, NEW role, NEW status, NEW w
      PROVE  Person(Identified(i, nation, role, status, w))
  BY DEF Identified, Person
<1> QED BY <1>1, <1>2 DEF PeopleInv

-----------------------------------------------------------------------------
(* Land.  Parcels, their owners and the index of owners.                   *)

Parcel == [owner : Citizens \cup Guests, resource_rights : Rights]

\* The index has the owner of every parcel and nothing else.
Indexed(parcels, byOwner) == byOwner = {<<parcels[i].owner, i>> : i \in DOMAIN parcels}

\* Parcels and index are in order.
LandHas(parcels, byOwner) ==
    /\ \E n \in Nat : parcels \in Numbered(n, Parcel)
    /\ Indexed(parcels, byOwner)
    /\ \A i \in DOMAIN parcels : MayOwnLand(parcels[i].owner)

LandInv ==
    /\ land = [parcels |-> land.parcels, byOwner |-> land.byOwner]
    /\ LandHas(land.parcels, land.byOwner)

\* The next land has these two maps.
LEMMA LandBecomes ==
    ASSUME UNCHANGED citizens, NEW p, NEW b, LandHas(p, b), land' = [parcels |-> p, byOwner |-> b]
    PROVE  LandInv'
<1>1. land'.parcels = p /\ land'.byOwner = b
  OBVIOUS
<1>2. land' = [parcels |-> land'.parcels, byOwner |-> land'.byOwner]
  BY <1>1
<1>3. \A i \in DOMAIN p : (MayOwnLand(p[i].owner))'
  BY <1>1 DEF LandHas, MayOwnLand
<1> QED BY <1>1, <1>2, <1>3 DEF LandHas, LandInv, Indexed

\* A new parcel and its entry.
LEMMA ParcelStep ==
    ASSUME LandInv, PeopleInv, UNCHANGED citizens, NEW c, NEW r \in Rights, register_parcel(c, r)
    PROVE  LandInv'
<1> DEFINE old == land.parcels
           id  == FreshId(old)
           v   == [owner |-> c, resource_rights |-> r]
           new == Put(old, id, v)
           b   == land.byOwner \cup {<<c, id>>}
<1>1. land' = [land EXCEPT !.parcels = new, !.byOwner = b] /\ MayOwnLand(c)
  BY DEF register_parcel
<1>2. land = [parcels |-> land.parcels, byOwner |-> land.byOwner] /\ LandHas(old, land.byOwner)
  BY DEF LandInv
<1>3. v \in Parcel /\ v.owner = c
  BY <1>1 DEF MayOwnLand, PeopleInv, Parcel
<1> HIDE DEF v
<1>4. PICK n \in Nat : old \in Numbered(n, Parcel)
  BY <1>2 DEF LandHas
<1>5. id = n /\ OneMore(old, new, n, v) /\ n + 1 \in Nat /\ new \in Numbered(n + 1, Parcel)
  BY <1>3, <1>4, FreshRecord
<1> HIDE DEF new, id
<1>6. b = {<<new[i].owner, i>> : i \in DOMAIN new}
  <2>1. land.byOwner = {<<old[i].owner, i>> : i \in DOMAIN old}
    BY <1>2 DEF LandHas, Indexed
  <2>2. DOMAIN new = DOMAIN old \cup {n} /\ new[n] = v /\ \A i \in DOMAIN old : new[i] = old[i]
    BY <1>5 DEF OneMore
  <2> HIDE DEF old
  <2> QED BY <1>3, <1>5, <2>1, <2>2
<1> HIDE DEF b
<1>7. land' = [parcels |-> new, byOwner |-> b]
  BY <1>1, <1>2
<1>8. LandHas(new, b)
  BY <1>1, <1>2, <1>3, <1>5, <1>6 DEF LandHas, Indexed, OneMore
<1> QED BY <1>7, <1>8, LandBecomes

\* One parcel gets another record.
LEMMA ParcelChanges ==
    ASSUME LandInv, UNCHANGED citizens, NEW i \in DOMAIN land.parcels, NEW v \in Parcel,
           MayOwnLand(v.owner), NEW b,
           b = (land.byOwner \ {<<land.parcels[i].owner, i>>}) \cup {<<v.owner, i>>},
           land' = [parcels |-> [land.parcels EXCEPT ![i] = v], byOwner |-> b]
    PROVE  LandInv'
<1> DEFINE old == land.parcels
           new == [old EXCEPT ![i] = v]
<1>1. PICK n \in Nat : old \in Numbered(n, Parcel)
  BY DEF LandInv, LandHas
<1>2. /\ new \in Numbered(n, Parcel) /\ DOMAIN new = DOMAIN old
      /\ \A j \in DOMAIN old : new[j] = IF j = i THEN v ELSE old[j]
  BY <1>1, RecordChanged
<1>3. /\ land.byOwner = {<<old[j].owner, j>> : j \in DOMAIN old}
      /\ \A j \in DOMAIN old : MayOwnLand(old[j].owner)
  BY DEF LandInv, LandHas, Indexed
<1>4. land' = [parcels |-> new, byOwner |-> b]
  OBVIOUS
<1>5. i \in DOMAIN old /\ b = (land.byOwner \ {<<old[i].owner, i>>}) \cup {<<v.owner, i>>}
  OBVIOUS
<1> HIDE DEF new, old
<1>6. Indexed(new, b)
  BY <1>2, <1>3, <1>5 DEF Indexed
<1>7. LandHas(new, b)
  BY <1>1, <1>2, <1>3, <1>6 DEF LandHas
<1> QED BY <1>4, <1>7, LandBecomes

\* The entry moves with the parcel.
LEMMA SaleStep ==
    ASSUME LandInv, PeopleInv, UNCHANGED citizens, NEW s, NEW i, NEW c, transfer_land(s, i, c)
    PROVE  LandInv'
<1> DEFINE old == land.parcels
           r   == old[i]
           v   == [r EXCEPT !.owner = c]
           new == [old EXCEPT ![i] = v]
           b   == (land.byOwner \ {<<s, i>>}) \cup {<<c, i>>}
<1>1. /\ i \in DOMAIN old /\ r.owner = s /\ MayOwnLand(c)
      /\ land' = [land EXCEPT !.parcels = new, !.byOwner = b]
  BY DEF transfer_land, Reindexed
<1>2. land = [parcels |-> land.parcels, byOwner |-> land.byOwner] /\ LandHas(old, land.byOwner)
  BY DEF LandInv
<1>3. r \in Parcel
  BY <1>1, <1>2, RecordsAreTyped DEF LandHas
<1>4. v \in Parcel /\ v.owner = c
  BY <1>1, <1>3 DEF MayOwnLand, PeopleInv, Parcel
<1> HIDE DEF v, b
<1>5. land' = [parcels |-> new, byOwner |-> b]
  BY <1>1, <1>2
<1> QED BY <1>1, <1>4, <1>5, ParcelChanges DEF b

\* The rights change and the owner does not.
LEMMA RightsStep ==
    ASSUME LandInv, UNCHANGED citizens, NEW i, NEW r \in Rights, update_resource_rights(i, r)
    PROVE  LandInv'
<1> DEFINE old == land.parcels
           b   == land.byOwner
           p   == old[i]
           v   == [p EXCEPT !.resource_rights = r]
           new == [old EXCEPT ![i] = v]
<1>1. i \in DOMAIN old /\ land' = [land EXCEPT !.parcels = new]
  BY DEF update_resource_rights
<1>2. land = [parcels |-> old, byOwner |-> b] /\ LandHas(old, b)
  BY DEF LandInv
<1>3. p \in Parcel
  BY <1>1, <1>2, RecordsAreTyped DEF LandHas
<1>4. v \in Parcel /\ v.owner = p.owner
  BY <1>3 DEF Parcel
<1> HIDE DEF v
<1>5. land' = [parcels |-> new, byOwner |-> b]
  BY <1>1, <1>2
<1>6. MayOwnLand(v.owner) /\ b = (b \ {<<p.owner, i>>}) \cup {<<v.owner, i>>}
  BY <1>1, <1>2, <1>4 DEF LandHas, Indexed
<1> QED BY <1>1, <1>4, <1>5, <1>6, ParcelChanges

\* Every call keeps the book of the land.
LEMMA LandSteps ==
    ASSUME LandInv, PeopleInv, UNCHANGED citizens, LandStep
    PROVE  LandInv'
BY ParcelStep, SaleStep, RightsStep DEF LandStep

\* Whoever keeps the citizenship keeps the land.
LEMMA LandStays ==
    ASSUME LandInv, SameCitizenship, UNCHANGED land
    PROVE  LandInv'
<1>1. \A w : MayOwnLand(w) => MayOwnLand(w)'
  BY DEF MayOwnLand, SameCitizenship
<1> QED BY <1>1 DEF LandInv, LandHas, Indexed

\* There is no land at first.
LEMMA LandStart ==
    ASSUME land = NoParcels
    PROVE  LandInv
<1>1. land = [parcels |-> <<>>, byOwner |-> {}]
  BY DEF NoParcels
<1>2. <<>> \in Numbered(0, Parcel) /\ DOMAIN <<>> = {}
  BY DEF Numbered
<1> QED BY <1>1, <1>2 DEF LandInv, LandHas, Indexed
-----------------------------------------------------------------------------
(* The end of a citizenship.  Whoever becomes one of the dead or the       *)
(* exiled does so in a step that cleans up after that citizen.             *)

\* Every citizen has a status.
StatusKept == \A c \in DOMAIN citizens : "status" \in DOMAIN citizens[c]

\* At most w leaves the citizens that are not terminal.
NobodyLeavesBut(w) ==
    /\ StatusKept'
    /\ \A c \in DOMAIN citizens \ w : IsTerminal(c)' => IsTerminal(c)

\* At most w becomes one of the dead.
NobodyDiesBut(w) == \A c \in DOMAIN citizens' \ w : is_deceased(c)' => is_deceased(c)

NobodyGoes == NobodyLeavesBut({}) /\ NobodyDiesBut({})

\* Another status for one citizen.
LEMMA RecordChanges ==
    ASSUME StatusKept, NEW c \in DOMAIN citizens, NEW r,
           "status" \in DOMAIN r, citizens' = [citizens EXCEPT ![c] = r]
    PROVE  /\ NobodyLeavesBut({c}) /\ NobodyDiesBut({c})
           /\ (r.status \in {"Deceased", "Exiled"} => citizens[c].status = r.status) => NobodyGoes
           /\ r.status # "Deceased" => NobodyDiesBut({})
<1>1. NobodyLeavesBut({c}) /\ NobodyDiesBut({c})
  BY DEF StatusKept, NobodyLeavesBut, NobodyDiesBut, IsTerminal, IsRegistered, is_deceased
<1>2. ASSUME r.status \in {"Deceased", "Exiled"} => citizens[c].status = r.status
      PROVE  NobodyGoes
  BY <1>2 DEF StatusKept, NobodyGoes, NobodyLeavesBut, NobodyDiesBut, IsTerminal, IsRegistered,
     is_deceased
<1>3. r.status # "Deceased" => NobodyDiesBut({})
  BY DEF StatusKept, NobodyDiesBut, IsRegistered, is_deceased
<1> QED BY <1>1, <1>2, <1>3

\* Fields of a record that keep or set its status.
LEMMA StatusWritten ==
    ASSUME NEW r, "status" \in DOMAIN r, NEW v, NEW x, NEW y
    PROVE  /\ "status" \in DOMAIN [r EXCEPT !.role = x]
           /\ [r EXCEPT !.role = x].status = r.status
           /\ "status" \in DOMAIN [r EXCEPT !.status = v]
           /\ [r EXCEPT !.status = v].status = v
           /\ "status" \in DOMAIN [r EXCEPT !.status = v, !.role = x]
           /\ [r EXCEPT !.status = v, !.role = x].status = v
           /\ "status" \in DOMAIN [r EXCEPT !.status = v, !.role = x, !.branch = y]
<1>1. "status" \in DOMAIN [r EXCEPT !.role = x] /\ [r EXCEPT !.role = x].status = r.status
  OBVIOUS
<1>2. "status" \in DOMAIN [r EXCEPT !.status = v] /\ [r EXCEPT !.status = v].status = v
  OBVIOUS
<1>3. /\ "status" \in DOMAIN [r EXCEPT !.status = v, !.role = x]
      /\ [r EXCEPT !.status = v, !.role = x].status = v
  OBVIOUS
<1>4. "status" \in DOMAIN [r EXCEPT !.status = v, !.role = x, !.branch = y]
  OBVIOUS
<1> QED BY <1>1, <1>2, <1>3, <1>4

\* A citizen is frozen, released, demoted or given another role.
LEMMA CitizenWritten ==
    ASSUME StatusKept, NEW c \in DOMAIN citizens, NEW v \in {"Frozen", "Active"}, NEW x,
           \/ citizens' = [citizens EXCEPT ![c].status = v]
           \/ citizens' = [citizens EXCEPT ![c].role = x]
           \/ citizens' = [citizens EXCEPT ![c] = [@ EXCEPT !.status = v, !.role = x]]
    PROVE  NobodyGoes
<1> DEFINE r == citizens[c]
           s == [r EXCEPT !.status = v]
           t == [r EXCEPT !.role = x]
           u == [r EXCEPT !.status = v, !.role = x]
<1>1. \/ citizens' = [citizens EXCEPT ![c] = s]
      \/ citizens' = [citizens EXCEPT ![c] = t]
      \/ citizens' = [citizens EXCEPT ![c] = u]
  OBVIOUS
<1>2. /\ "status" \in DOMAIN s /\ s.status = v
      /\ "status" \in DOMAIN t /\ t.status = r.status
      /\ "status" \in DOMAIN u /\ u.status = v
  <2>1. "status" \in DOMAIN r
    BY DEF StatusKept
  <2> HIDE DEF r
  <2> QED BY <2>1, StatusWritten
<1> HIDE DEF s, t, u
<1>3. CASE citizens' = [citizens EXCEPT ![c] = s]
  BY <1>2, <1>3, RecordChanges
<1>4. CASE citizens' = [citizens EXCEPT ![c] = t]
  BY <1>2, <1>4, RecordChanges
<1>5. CASE citizens' = [citizens EXCEPT ![c] = u]
  BY <1>2, <1>5, RecordChanges
<1> QED BY <1>1, <1>3, <1>4, <1>5

\* Nobody leaves where nobody's record changes.
LEMMA CitizensStay ==
    ASSUME StatusKept, UNCHANGED citizens
    PROVE  NobodyGoes
BY DEF StatusKept, NobodyGoes, NobodyLeavesBut, NobodyDiesBut, IsTerminal, IsRegistered,
   is_deceased

\* Who is not registered has no record to change.
LEMMA NotRegistered ==
    ASSUME StatusKept, NEW c, c \notin DOMAIN citizens, NEW r,
           citizens' = [citizens EXCEPT ![c] = r]
    PROVE  NobodyGoes
BY DEF StatusKept, NobodyGoes, NobodyLeavesBut, NobodyDiesBut, IsTerminal, IsRegistered,
   is_deceased

\* Nobody leaves by a call of Root.
LEMMA RootRemovesNobody ==
    ASSUME StatusKept, NEW c, RegistryStep(c)
    PROVE  NobodyGoes
<1>1. CASE c \in DOMAIN citizens
  <2>1. \/ \E role \in Roles : citizens' = [citizens EXCEPT ![c].role = role]
        \/ \E v \in {"Frozen", "Active"} : citizens' = [citizens EXCEPT ![c].status = v]
    BY DEF RegistryStep, update_role, freeze_citizen, unfreeze_citizen
  <2> QED BY <1>1, <2>1, CitizenWritten
<1>2. CASE c \notin DOMAIN citizens
  <2>1. \/ \E role \in Roles : citizens' = [citizens EXCEPT ![c].role = role]
        \/ \E v \in {"Frozen", "Active"} : citizens' = [citizens EXCEPT ![c].status = v]
    BY DEF RegistryStep, update_role, freeze_citizen, unfreeze_citizen
  <2> QED BY <1>2, <2>1, NotRegistered
<1> QED BY <1>1, <1>2

\* Only the dead leave by a death.
LEMMA DeathRemovesOne ==
    ASSUME StatusKept, NEW c, register_death(c)
    PROVE  NobodyLeavesBut({c}) /\ NobodyDiesBut({c})
<1> DEFINE r == citizens[c]
           s == [r EXCEPT !.status = "Deceased", !.role = "Regular", !.branch = "None"]
<1>1. c \in DOMAIN citizens /\ citizens' = [citizens EXCEPT ![c] = s]
  BY DEF register_death, IsRegistered
<1>2. "status" \in DOMAIN s
  <2>1. "status" \in DOMAIN r
    BY <1>1 DEF StatusKept
  <2> HIDE DEF r
  <2> QED BY <2>1, StatusWritten
<1> HIDE DEF s
<1> QED BY <1>1, <1>2, RecordChanges

\* Only the exiled leave by an exile.
LEMMA ExileRemovesOne ==
    ASSUME StatusKept, NEW c, citizens' = Exile(c)
    PROVE  NobodyLeavesBut({c}) /\ NobodyDiesBut({})
<1>1. CASE c \in DOMAIN citizens
  <2> DEFINE r == citizens[c]
             s == [r EXCEPT !.status = "Exiled", !.role = "Regular"]
  <2>1. citizens' = [citizens EXCEPT ![c] = s]
    BY DEF Exile
  <2>2. "status" \in DOMAIN s /\ s.status = "Exiled"
    <3>1. "status" \in DOMAIN r
      BY <1>1 DEF StatusKept
    <3> HIDE DEF r
    <3> QED BY <3>1, StatusWritten
  <2> HIDE DEF s
  <2>3. s.status # "Deceased"
    BY <2>2
  <2> QED BY <1>1, <2>1, <2>2, <2>3, RecordChanges
<1>2. CASE c \notin DOMAIN citizens
  <2>1. citizens' = [citizens EXCEPT ![c] = [@ EXCEPT !.status = "Exiled", !.role = "Regular"]]
    BY DEF Exile
  <2>2. NobodyGoes
    BY <1>2, <2>1, NotRegistered
  <2> QED BY <2>2 DEF NobodyGoes, NobodyLeavesBut
<1> QED BY <1>1, <1>2

\* One citizen leaves, and is cleaned up after.
LeavesAlone(c) ==
    /\ NobodyLeavesBut({c})
    /\ CleanUp(c)
    /\ NobodyDiesBut({}) \/ (NobodyDiesBut({c}) /\ c \in civil'.deaths)

\* What the property asks of a step.
Departure == NobodyGoes \/ \E c : LeavesAlone(c)

\* The courts exile whom they clean up after, and free and freeze the others.
LEMMA CourtsDepart ==
    ASSUME StatusKept, CourtStep
    PROVE  Departure
<1>1. ASSUME NEW d, NEW W, open_case(d, W)
      PROVE  NobodyGoes
  BY <1>1, CitizenWritten DEF open_case, do_freeze_citizen, IsRegistered
<1>2. ASSUME NEW who, citizens' = IF CanUnfreeze(who) THEN do_unfreeze_citizen(who) ELSE citizens
      PROVE  NobodyGoes
  <2>1. CASE CanUnfreeze(who)
    BY <1>2, <2>1, CitizenWritten DEF CanUnfreeze, do_unfreeze_citizen, IsRegistered
  <2>2. CASE ~CanUnfreeze(who)
    BY <1>2, <2>2, CitizensStay
  <2> QED BY <2>1, <2>2
<1>3. ASSUME NEW i, NEW guilty, NEW p, NEW k, issue_verdict(i, guilty, p, k)
      PROVE  NobodyGoes
  <2>1. PICK who : citizens' = IF ~guilty /\ CanUnfreeze(who)
                               THEN do_unfreeze_citizen(who) ELSE citizens
    BY <1>3 DEF issue_verdict
  <2>2. CASE ~guilty /\ CanUnfreeze(who)
    BY <1>2, <2>1, <2>2
  <2>3. CASE ~(~guilty /\ CanUnfreeze(who))
    BY <2>1, <2>3, CitizensStay
  <2> QED BY <2>2, <2>3
<1>4. ASSUME NEW i, execute_penalty_verdict(i)
      PROVE  NobodyGoes
  BY <1>2, <1>4 DEF execute_penalty_verdict
<1>5. ASSUME NEW i, execute_hate_crime_verdict(i)
      PROVE  Departure
  <2> DEFINE who == courts.cases[i].defendant
             e   == Collected(CurrentBalances, who, courts.cases[i].whistleblower, free[who])
  <2>1. ExileWithHook(e, who) \/ UNCHANGED citizens
    BY <1>5 DEF execute_hate_crime_verdict
  <2> HIDE DEF who, e
  <2>2. ASSUME ExileWithHook(e, who)
        PROVE  NobodyLeavesBut({who}) /\ CleanUp(who) /\ NobodyDiesBut({})
    BY <2>2, ExileRemovesOne DEF ExileWithHook
  <2> QED BY <2>1, <2>2, CitizensStay DEF Departure, LeavesAlone
<1>6. ASSUME NEW c, declare_usurper(c)
      PROVE  NobodyGoes
  <2>1. CASE c \in DOMAIN citizens
    BY <1>6, <2>1, CitizenWritten DEF declare_usurper, IsRegistered
  <2>2. CASE c \notin DOMAIN citizens
    BY <1>6, <2>2, CitizensStay DEF declare_usurper, IsRegistered
  <2> QED BY <2>1, <2>2
<1>7. ASSUME on_initialize_constitution
      PROVE  NobodyGoes
  <2>1. PICK R : citizens' = [c \in DOMAIN citizens |->
                                 IF c \in R /\ CanUnfreeze(c)
                                 THEN [citizens[c] EXCEPT !.status = "Active"] ELSE citizens[c]]
    BY <1>7 DEF on_initialize_constitution
  <2>2. DOMAIN citizens' = DOMAIN citizens
    BY <2>1
  <2>3. ASSUME NEW c \in DOMAIN citizens
        PROVE  /\ "status" \in DOMAIN citizens'[c]
               /\ citizens'[c].status \in {"Deceased", "Exiled"} => citizens'[c] = citizens[c]
    <3> DEFINE r == citizens[c]
               s == [r EXCEPT !.status = "Active"]
    <3>1. "status" \in DOMAIN r
      BY DEF StatusKept
    <3>2. citizens'[c] \in {r, s}
      BY <2>1
    <3> HIDE DEF r
    <3>3. "status" \in DOMAIN s /\ s.status = "Active"
      BY <3>1
    <3> HIDE DEF s
    <3> QED BY <3>1, <3>2, <3>3 DEF r
  <2> QED BY <2>2, <2>3 DEF NobodyGoes, NobodyLeavesBut, NobodyDiesBut, StatusKept, IsTerminal,
             IsRegistered, is_deceased
<1>8. ASSUME NEW cid, set_constitution_hash(cid), UNCHANGED citizens
      PROVE  NobodyGoes
  BY <1>8, CitizensStay
<1>9. NobodyGoes => Departure
  BY DEF Departure
<1> QED BY <1>1, <1>3, <1>4, <1>5, <1>6, <1>7, <1>8, <1>9 DEF CourtStep

\* A death is recorded, and followed by its clean-up.
LEMMA DeathDeparts ==
    ASSUME StatusKept, CivilInv, NEW c, DeathWithHook(c)
    PROVE  Departure
<1>1. register_death(c) /\ CleanUp(c)
  BY DEF DeathWithHook
<1>2. c \in civil'.deaths
  BY <1>1, DeathIsBooked
<1> QED BY <1>1, <1>2, DeathRemovesOne DEF Departure, LeavesAlone

\* A trap exiles whom it cleans up after, and nothing else of the voices touches a citizen.
LEMMA VoicesDepart ==
    ASSUME StatusKept, VoiceStep
    PROVE  Departure
<1>1. ASSUME NEW i, reveal_and_spring_trap(i)
      PROVE  Departure
  <2>1. PICK who : citizens' = Exile(who) /\ CleanUp(who)
    BY <1>1 DEF reveal_and_spring_trap
  <2> QED BY <2>1, ExileRemovesOne DEF Departure, LeavesAlone
<1>2. VoiceStep /\ ~(\E i : reveal_and_spring_trap(i)) => UNCHANGED citizens
  BY DEF VoiceStep, submit_ticket, mark_in_review, resolve_ticket, escalate_ticket,
     request_sting_operation, approve_sting, civicVars
<1> QED BY <1>1, <1>2, CitizensStay DEF Departure, LeavesAlone

\* Nor does anything else that happens to what is held but a death.
LEMMA HeldDepart ==
    ASSUME StatusKept, CivilInv, HeldStep
    PROVE  Departure
<1>1. NobodyGoes => Departure
  BY DEF Departure
<1>2. ASSUME NEW c, declare_usurper(c)
      PROVE  Departure
  <2>1. CASE c \in DOMAIN citizens
    BY <1>1, <1>2, <2>1, CitizenWritten DEF declare_usurper, IsRegistered
  <2>2. CASE c \notin DOMAIN citizens
    BY <1>1, <1>2, <2>2, CitizensStay DEF declare_usurper, IsRegistered
  <2> QED BY <2>1, <2>2
<1>3. ASSUME RootStep
      PROVE  Departure
  BY <1>1, <1>3, RootRemovesNobody DEF RootStep
<1>4. \A c : execute_will(c) => UNCHANGED citizens
  BY DEF execute_will
<1>5. \/ VoiceStep \/ UNCHANGED citizens \/ RootStep
      \/ \E c : DeathWithHook(c) \/ execute_will(c) \/ declare_usurper(c)
  BY DEF HeldStep
<1> QED BY <1>1, <1>2, <1>3, <1>4, <1>5, CitizensStay, DeathDeparts, VoicesDepart

\* Whoever leaves the citizens is cleaned up after, in whichever pallet the step began.
LEMMA EveryoneDeparts ==
    ASSUME StatusKept, CivilInv, MCNext
    PROVE  Departure
<1>1. NobodyGoes => Departure
  BY DEF Departure
<1>2. ASSUME EstateStep
      PROVE  Departure
  <2>1. UNCHANGED citizens \/ \E c : DeathWithHook(c)
    BY <1>2 DEF EstateStep, WillStep, execute_will
  <2> QED BY <1>1, <2>1, CitizensStay, DeathDeparts
<1>3. ASSUME ContractStep
      PROVE  Departure
  BY <1>1, <1>3, CitizensStay, DeathDeparts DEF ContractStep
<1>4. ASSUME RootStep
      PROVE  Departure
  BY <1>1, <1>4, RootRemovesNobody DEF RootStep
<1>5. ASSUME JusticeNext
      PROVE  Departure
  <2>1. \/ EstateStep \/ ContractStep \/ CourtStep \/ DeathOfTheSentenced \/ HeldStep
        \/ CivilActStep \/ RootStep \/ UNCHANGED citizens
        \/ \E c : DeathWithHook(c)
    BY <1>5 DEF JusticeNext
  <2>2. CivilActStep => UNCHANGED citizens
    BY DEF CivilActStep, register_marriage, register_divorce, register_nickname, clear_nickname
  <2>3. DeathOfTheSentenced => \E c : DeathWithHook(c)
    BY DEF DeathOfTheSentenced
  <2> QED BY <1>1, <1>2, <1>3, <1>4, <2>1, <2>2, <2>3, CitizensStay, DeathDeparts, CourtsDepart,
             HeldDepart
<1>6. ASSUME RegistriesNext
      PROVE  Departure
  <2>1. UNCHANGED citizens \/ \E c : RegistryStep(c)
    BY <1>6 DEF RegistriesNext, MoneyStep, RecordStep, RegisterStep, Tick, ForumStep,
       post_message, pin_message
  <2> QED BY <1>1, <2>1, CitizensStay, RootRemovesNobody
<1> QED BY <1>5, <1>6 DEF MCNext

-----------------------------------------------------------------------------
(* The quests whose escrow a clean-up returns keep their fields.           *)

\* Nobody rises from the register of deaths.
LEMMA DeathsStay ==
    ASSUME CivilInv, MCNext
    PROVE  civil.deaths \subseteq civil'.deaths
<1>1. ASSUME NEW c, DeathWithHook(c)
      PROVE  civil.deaths \subseteq civil'.deaths
  BY <1>1, DeathIsBooked DEF DeathWithHook
<1>2. CivilActStep => civil.deaths \subseteq civil'.deaths
  BY ActIsBooked
<1>3. ASSUME CourtStep
      PROVE  UNCHANGED civil
  BY <1>3 DEF CourtStep, open_case, issue_verdict, execute_hate_crime_verdict,
     execute_penalty_verdict, declare_usurper, on_initialize_constitution, noHook
<1>4. ASSUME HeldStep
      PROVE  UNCHANGED civil \/ \E c : DeathWithHook(c)
  <2>1. VoiceStep => UNCHANGED civil
    BY DEF VoiceStep, submit_ticket, mark_in_review, resolve_ticket, escalate_ticket,
       request_sting_operation, approve_sting, reveal_and_spring_trap, civicVars
  <2>2. \A c : execute_will(c) \/ declare_usurper(c) => UNCHANGED civil
    BY DEF execute_will, declare_usurper, noHook
  <2> QED BY <1>4, <2>1, <2>2 DEF HeldStep, RootStep, noHook
<1>5. ASSUME JusticeNext
      PROVE  civil.deaths \subseteq civil'.deaths
  <2>1. \/ EstateStep \/ ContractStep \/ CourtStep \/ DeathOfTheSentenced \/ HeldStep
        \/ CivilActStep \/ UNCHANGED civil
        \/ \E c : DeathWithHook(c)
    BY <1>5 DEF JusticeNext, RootStep, noHook
  <2>2. EstateStep => UNCHANGED civil \/ \E c : DeathWithHook(c)
    BY DEF EstateStep, WillStep, execute_will
  <2>3. ContractStep \/ DeathOfTheSentenced => UNCHANGED civil \/ \E c : DeathWithHook(c)
    BY DEF ContractStep, DeathOfTheSentenced
  <2> QED BY <1>1, <1>2, <1>3, <1>4, <2>1, <2>2, <2>3
<1>6. RegistriesNext => UNCHANGED civil
  BY DEF RegistriesNext, noHook
<1> QED BY <1>5, <1>6 DEF MCNext

\* Every one of the dead is in the register of deaths.
DeadAreRecorded == \A c \in DOMAIN citizens : is_deceased(c) => c \in civil.deaths

\* It stays so.
LEMMA DeathsAreRecorded ==
    ASSUME StatusKept, CivilInv, DeadAreRecorded, MCNext
    PROVE  StatusKept' /\ DeadAreRecorded'
<1>1. Departure /\ civil.deaths \subseteq civil'.deaths
  BY EveryoneDeparts, DeathsStay
<1>2. CASE NobodyGoes
  BY <1>1, <1>2 DEF NobodyGoes, NobodyLeavesBut, NobodyDiesBut, DeadAreRecorded, is_deceased,
     IsRegistered
<1>3. ASSUME NEW c, LeavesAlone(c)
      PROVE  StatusKept' /\ DeadAreRecorded'
  <2>1. StatusKept'
    BY <1>3 DEF LeavesAlone, NobodyLeavesBut
  <2>2. PICK w : NobodyDiesBut(w) /\ w \subseteq civil'.deaths
    <3>1. NobodyDiesBut({}) \/ (NobodyDiesBut({c}) /\ c \in civil'.deaths)
      BY <1>3 DEF LeavesAlone
    <3>2. {} \subseteq civil'.deaths
      OBVIOUS
    <3>3. c \in civil'.deaths => {c} \subseteq civil'.deaths
      OBVIOUS
    <3> QED
      <4> HIDE DEF NobodyDiesBut
      <4> QED BY <3>1, <3>2, <3>3
  <2>3. ASSUME NEW d \in DOMAIN citizens', is_deceased(d)'
        PROVE  d \in civil'.deaths
    <3>1. CASE d \in w
      BY <2>2, <3>1
    <3>2. CASE d \notin w
      <4>1. is_deceased(d)
        BY <2>2, <2>3, <3>2 DEF NobodyDiesBut
      <4> QED BY <1>1, <4>1 DEF DeadAreRecorded, is_deceased, IsRegistered
    <3> QED BY <3>1, <3>2
  <2> QED BY <2>1, <2>3 DEF DeadAreRecorded
<1> QED BY <1>1, <1>2, <1>3 DEF Departure
-----------------------------------------------------------------------------
(* The estates.  The shares of a will are given one after the other, by a  *)
(* fold over the list of the heirs, which is a recursive function on the   *)
(* sets of those who were given theirs.                                    *)

\* One step of the fold, from the balances g after fewer gifts.
GiveStep(e, who, heirs, total, g, s) ==
    IF s = {} THEN e
    ELSE Given(g[s \ {Max(s)}], who, heirs[[j \in DOMAIN heirs |-> j][Max(s)]][1],
               Shares(total, heirs)[[j \in DOMAIN heirs |-> j][Max(s)]])

\* g holds the balances after the gifts to the heirs in each set of D.
GiftsOver(e, who, heirs, total, D, g) ==
    g = [s \in D |-> GiveStep(e, who, heirs, total, g, s)]

\* What the fold returns.
LEMMA FoldOfGifts ==
    ASSUME NEW e, NEW who, NEW heirs, NEW total
    PROVE  Distributed(e, who, heirs, total) =
              (CHOOSE g : GiftsOver(e, who, heirs, total, SUBSET (DOMAIN heirs), g))[DOMAIN heirs]
BY DEF Distributed, FoldLeft, MapThenFoldSet, GiftsOver, GiveStep

\* A set of positions has a last one.
LEMMA LastPosition ==
    ASSUME NEW n \in Nat, NEW s \in SUBSET (1 .. n), s # {}
    PROVE  Max(s) \in s /\ \A x \in s : Max(s) >= x
<1> DEFINE T == {n - x : x \in s}
<1>a. \A x \in s : x \in 1 .. n /\ n - x \in Nat
  OBVIOUS
<1>1. T \subseteq Nat /\ T # {}
  BY <1>a
<1>2. PICK k \in T : \A l \in T : k <= l
  <2> HIDE DEF T
  <2> QED BY <1>1, LeastNatural
<1>3. PICK x \in s : k = n - x
  BY <1>2
<1>4. \A y \in s : n - x <= n - y
  BY <1>2, <1>3
<1>5. \A y \in s : x >= y
  BY <1>a, <1>4
<1> QED BY <1>5 DEF Max

\* The positions up to the last of a set, and the set without it.
LEMMA PositionsBefore ==
    ASSUME NEW n \in Nat
    PROVE  /\ \A s \in SUBSET (1 .. n + 1) : s # {} => s \ {Max(s)} \in SUBSET (1 .. n)
           /\ n # 0 => Max(1 .. n) = n /\ (1 .. n) \ {n} = 1 .. n - 1
<1>1. ASSUME NEW s \in SUBSET (1 .. n + 1), s # {}
      PROVE  s \ {Max(s)} \in SUBSET (1 .. n)
  <2> DEFINE m == Max(s)
  <2>1. m \in s /\ \A x \in s : m >= x
    BY <1>1, LastPosition, n + 1 \in Nat
  <2> HIDE DEF m
  <2>2. \A x \in s : x \in 1 .. n + 1
    OBVIOUS
  <2>3. \A x \in s \ {m} : x \in 1 .. n
    BY <2>1, <2>2
  <2>4. s \ {m} \in SUBSET (1 .. n)
    BY <2>3
  <2> QED BY <2>4 DEF m
<1>2. ASSUME n # 0
      PROVE  Max(1 .. n) = n /\ (1 .. n) \ {n} = 1 .. n - 1
  <2> DEFINE m == Max(1 .. n)
  <2>1. n \in 1 .. n /\ 1 .. n \in SUBSET (1 .. n) /\ 1 .. n # {}
    BY <1>2
  <2>2. m \in 1 .. n /\ \A x \in 1 .. n : m >= x
    BY <2>1, LastPosition
  <2> HIDE DEF m
  <2>3. m = n /\ (1 .. n) \ {n} = 1 .. n - 1
    BY <2>1, <2>2
  <2> QED BY <2>3 DEF m
<1> QED BY <1>1, <1>2

\* Gifts to the sets of the first n heirs extend to those of one more.
LEMMA GiftsExtend ==
    ASSUME NEW e, NEW who, NEW heirs, NEW total, NEW n \in Nat,
           NEW g, GiftsOver(e, who, heirs, total, SUBSET (1 .. n), g)
    PROVE  \E h : GiftsOver(e, who, heirs, total, SUBSET (1 .. n + 1), h)
<1> DEFINE D == SUBSET (1 .. n)
           E == SUBSET (1 .. n + 1)
           h == [s \in E |-> GiveStep(e, who, heirs, total, g, s)]
<1>1. D \subseteq E
  OBVIOUS
<1>2. \A s \in D : h[s] = g[s]
  BY <1>1 DEF GiftsOver
<1>3. \A s \in E : s # {} => s \ {Max(s)} \in D
  BY PositionsBefore
<1>4. \A s \in E : GiveStep(e, who, heirs, total, h, s) = GiveStep(e, who, heirs, total, g, s)
  <2> HIDE DEF h, D, E
  <2> QED BY <1>2, <1>3 DEF GiveStep
<1>5. h = [s \in E |-> GiveStep(e, who, heirs, total, h, s)]
  <2> DEFINE H(s) == GiveStep(e, who, heirs, total, h, s)
             G(s) == GiveStep(e, who, heirs, total, g, s)
  <2>1. h = [s \in E |-> G(s)]
    OBVIOUS
  <2>2. \A s \in E : H(s) = G(s)
    BY <1>4
  <2> HIDE DEF H, G, h, E
  <2>3. h = [s \in E |-> H(s)]
    BY <2>1, <2>2
  <2> QED BY <2>3 DEF H
<1> HIDE DEF h
<1> QED BY <1>5 DEF GiftsOver

\* The gifts that the fold makes are there.
LEMMA GiftsExist ==
    ASSUME NEW e, NEW who, NEW heirs, NEW total, NEW n \in Nat
    PROVE  \E g : GiftsOver(e, who, heirs, total, SUBSET (1 .. n), g)
<1> DEFINE Z(k, g) == GiftsOver(e, who, heirs, total, SUBSET (1 .. k), g)
           T == {k \in Nat : ~ \E g : Z(k, g)}
<1>1. SUFFICES ASSUME T # {} PROVE FALSE
  OBVIOUS
<1> HIDE DEF Z
<1>2. PICK m \in T : \A k \in T : m <= k
  BY <1>1, LeastNatural
<1>3. CASE m = 0
  <2> DEFINE g == [s \in SUBSET {} |-> e]
             V(s) == GiveStep(e, who, heirs, total, g, s)
  <2>1. \A s \in SUBSET {} : V(s) = e
    <3> HIDE DEF g
    <3> QED BY DEF GiveStep
  <2>2. g = [s \in SUBSET {} |-> e]
    OBVIOUS
  <2> HIDE DEF g, V
  <2>3. g = [s \in SUBSET {} |-> V(s)]
    BY <2>1, <2>2
  <2>4. 1 .. 0 = {}
    OBVIOUS
  <2>5. Z(0, g)
    BY <2>3, <2>4 DEF GiftsOver, V, Z
  <2> QED BY <1>2, <1>3, <2>5
<1>4. CASE m # 0
  <2>1. m - 1 \in Nat /\ m - 1 \notin T /\ (m - 1) + 1 = m
    BY <1>2, <1>4
  <2>2. PICK g : Z(m - 1, g)
    BY <2>1
  <2>3. \E h : Z((m - 1) + 1, h)
    BY <2>1, <2>2, GiftsExtend DEF Z
  <2> QED BY <1>2, <2>1, <2>3
<1> QED BY <1>3, <1>4

\* The balances after each of the gifts.
InTurn(e, who, heirs, total, n, after) ==
    /\ after[0] = e
    /\ \A k \in 1 .. n :
          after[k] = Given(after[k - 1], who, heirs[k][1], Shares(total, heirs)[k])

\* The fold gives to one heir after the other.
LEMMA GiftsInTurn ==
    ASSUME NEW e, NEW who, NEW heirs, NEW total, NEW n \in Nat, DOMAIN heirs = 1 .. n
    PROVE  \E after : /\ InTurn(e, who, heirs, total, n, after)
                      /\ Distributed(e, who, heirs, total) = after[n]
<1> DEFINE D == SUBSET (1 .. n)
           Z(g) == GiftsOver(e, who, heirs, total, D, g)
           g == CHOOSE x : Z(x)
           after == [k \in 0 .. n |-> g[1 .. k]]
<1>1. Z(g)
  <2>1. \E x : Z(x)
    BY GiftsExist
  <2> HIDE DEF Z
  <2> QED BY <2>1
<1>2. Distributed(e, who, heirs, total) = g[1 .. n]
  BY FoldOfGifts
<1> HIDE DEF g
<1>3. \A s \in D : g[s] = GiveStep(e, who, heirs, total, g, s)
  BY <1>1 DEF GiftsOver
<1>4. after[0] = e
  <2>1. 1 .. 0 = {} /\ {} \in D /\ 0 \in 0 .. n
    OBVIOUS
  <2>2. g[{}] = e
    BY <1>3, <2>1 DEF GiveStep
  <2> QED BY <2>1, <2>2
<1>5. ASSUME NEW k \in 1 .. n
      PROVE  after[k] = Given(after[k - 1], who, heirs[k][1], Shares(total, heirs)[k])
  <2>1. /\ k \in Nat /\ k # 0 /\ k \in 0 .. n /\ k - 1 \in 0 .. n /\ k \in DOMAIN heirs
        /\ 1 .. k \in D /\ 1 .. k # {}
    OBVIOUS
  <2>2. Max(1 .. k) = k /\ (1 .. k) \ {k} = 1 .. k - 1
    BY <2>1, PositionsBefore
  <2>3. [j \in DOMAIN heirs |-> j][k] = k
    BY <2>1
  <2>4. g[1 .. k] = GiveStep(e, who, heirs, total, g, 1 .. k)
    BY <1>3, <2>1
  <2> DEFINE p == 1 .. k
             s == Shares(total, heirs)
             q == 1 .. k - 1
             f == [j \in DOMAIN heirs |-> j]
  <2> HIDE DEF p, s, q, f, D
  <2>5. g[p] = Given(g[q], who, heirs[k][1], s[k])
    BY <2>1, <2>2, <2>3, <2>4 DEF GiveStep, p, s, q, f
  <2>6. after[k] = g[p] /\ after[k - 1] = g[q]
    BY <2>1 DEF p, q
  <2> QED BY <2>5, <2>6 DEF s
<1>6. after[n] = g[1 .. n]
  OBVIOUS
<1> HIDE DEF after
<1>7. InTurn(e, who, heirs, total, n, after)
  BY <1>4, <1>5 DEF InTurn
<1> QED BY <1>2, <1>6, <1>7

-----------------------------------------------------------------------------
(* The wills.                                                              *)

\* n heirs whose parts make a hundred percent.
HeirsOf(heirs, n) ==
    /\ DOMAIN heirs = 1 .. n /\ Len(heirs) = n
    /\ \A i \in 1 .. n : heirs[i][1] \in Citizens \cup Guests /\ heirs[i][2] \in Nat
    /\ Percents(heirs) = 100

\* The wills of citizens, for heirs whose parts make a hundred percent.
WillsOK ==
    \A c \in DOMAIN wills :
        /\ c \in Citizens
        /\ {"heirs", "is_notarized", "notary"} \subseteq DOMAIN wills[c]
        /\ \E n \in Nat \ {0} : HeirsOf(wills[c].heirs, n)

\* A declared list of heirs.
LEMMA DeclaredHeirs ==
    ASSUME NEW heirs \in HeirLists, Len(heirs) \in 1 .. MaxHeirs, Percents(heirs) = 100
    PROVE  \E n \in Nat \ {0} : HeirsOf(heirs, n)
<1>1. heirs \in Seq((Citizens \cup Guests) \X Nat)
  BY EstatesAssumption
<1> DEFINE n == Len(heirs)
<1>2. n \in Nat \ {0} /\ DOMAIN heirs = 1 .. n
  BY <1>1, InheritanceAssumption
<1>3. \A i \in 1 .. n : heirs[i] \in (Citizens \cup Guests) \X Nat
  BY <1>1, <1>2
<1>4. \A i \in 1 .. n : heirs[i][1] \in Citizens \cup Guests /\ heirs[i][2] \in Nat
  BY <1>3
<1>5. HeirsOf(heirs, n)
  BY <1>2, <1>4 DEF HeirsOf
<1> QED BY <1>2, <1>5

\* Wills are drafted, notarized and executed.
LEMMA DraftedWill ==
    ASSUME WillsOK, NEW c \in Citizens, NEW heirs \in HeirLists, draft_will(c, heirs)
    PROVE  WillsOK' /\ DOMAIN wills \subseteq DOMAIN wills'
<1> DEFINE w == Will(heirs)
<1>1. \E n \in Nat \ {0} : HeirsOf(heirs, n)
  BY DeclaredHeirs DEF draft_will
<1>2. wills' = Put(wills, c, w)
  BY DEF draft_will
<1>3. {"heirs", "is_notarized", "notary"} \subseteq DOMAIN w /\ w.heirs = heirs
  <2> DEFINE o == {}
  <2>1. w = [heirs |-> heirs, is_notarized |-> FALSE, notary |-> o]
    BY DEF Will
  <2> HIDE DEF o, w
  <2> QED BY <2>1
<1> HIDE DEF w
<1>4. /\ DOMAIN wills' = DOMAIN wills \cup {c}
      /\ \A d \in DOMAIN wills' : wills'[d] = IF d = c THEN w ELSE wills[d]
  BY <1>2 DEF Put
<1> QED BY <1>1, <1>3, <1>4 DEF WillsOK

\* A notary changes nothing that a will says.
LEMMA NotarizedWill ==
    ASSUME WillsOK, NEW notary, NEW c, NEW fee, notarize_will(notary, c, fee)
    PROVE  WillsOK' /\ DOMAIN wills' = DOMAIN wills /\ c \in Citizens
<1> DEFINE r == wills[c]
           t == [r EXCEPT !.is_notarized = TRUE]
           s == [r EXCEPT !.is_notarized = TRUE, !.notary = {notary}]
<1>1. c \in DOMAIN wills
      /\ wills' = [wills EXCEPT ![c].is_notarized = TRUE, ![c].notary = {notary}]
  BY DEF notarize_will
<1>2. {"heirs", "is_notarized", "notary"} \subseteq DOMAIN r /\ c \in Citizens
      /\ \E n \in Nat \ {0} : HeirsOf(r.heirs, n)
  BY <1>1 DEF WillsOK
<1>3. wills' = [wills EXCEPT ![c] = s]
  BY <1>1, <1>2
<1> HIDE DEF r
<1>4. {"heirs", "is_notarized", "notary"} \subseteq DOMAIN s /\ s.heirs = r.heirs
  BY <1>2
<1> HIDE DEF s
<1>5. /\ DOMAIN wills' = DOMAIN wills
      /\ \A d \in DOMAIN wills : wills'[d] = IF d = c THEN s ELSE wills[d]
  BY <1>3
<1> QED BY <1>2, <1>4, <1>5 DEF WillsOK

\* An executed will is gone, and no other.
LEMMA ExecutedWill ==
    ASSUME WillsOK, NEW e, NEW c, do_execute_will(e, c)
    PROVE  WillsOK' /\ DOMAIN wills \ {c} \subseteq DOMAIN wills'
<1>1. wills' = wills \/ wills' = Without(wills, c)
  BY DEF do_execute_will, WillsAfter
<1>2. CASE wills' = wills
  BY <1>2 DEF WillsOK
<1>3. CASE wills' = Without(wills, c)
  <2>1. /\ DOMAIN wills' = DOMAIN wills \ {c}
        /\ \A d \in DOMAIN wills' : wills'[d] = wills[d]
    BY <1>3 DEF Without
  <2> QED BY <2>1 DEF WillsOK
<1> QED BY <1>1, <1>2, <1>3
-----------------------------------------------------------------------------
(* The escrow of the quests.                                               *)

Unsettled == {"Open", "InProgress", "Review"}

\* The quests of c in a list, the rewards of a list, and their sum.
QuestsIn(q, c, S) == {i \in DOMAIN q : q[i].employer = c /\ q[i].status \in S}

RewardsOf(q) == [i \in DOMAIN q |-> q[i].reward]

EscrowIn(q, c, S) == SumOver(RewardsOf(q), QuestsIn(q, c, S))

\* Quests are numbered from 0 and have an employer, a reward and a status.
QuestRecord(r) == {"employer", "reward", "status"} \subseteq DOMAIN r /\ r.reward \in Nat

Quests(q) ==
    /\ \E n \in Nat : DOMAIN q = 0 .. n - 1
    /\ \A i \in DOMAIN q : QuestRecord(q[i])

\* What an employer has in escrow is a sum of rewards.
LEMMA EscrowInNatural ==
    ASSUME NEW q, Quests(q), NEW c, NEW S
    PROVE  /\ IsFiniteSet(QuestsIn(q, c, S)) /\ QuestsIn(q, c, S) \subseteq DOMAIN q
           /\ \A i \in DOMAIN q : RewardsOf(q)[i] = q[i].reward /\ RewardsOf(q)[i] \in Nat
           /\ EscrowIn(q, c, S) \in Nat
           /\ \A i \in QuestsIn(q, c, S) : q[i].reward <= EscrowIn(q, c, S)
<1> DEFINE f == RewardsOf(q)
           X == QuestsIn(q, c, S)
<1>1. IsFiniteSet(DOMAIN q)
  BY FS_Interval DEF Quests
<1>2. X \subseteq DOMAIN q
  BY DEF QuestsIn
<1>3. \A i \in DOMAIN q : f[i] = q[i].reward /\ f[i] \in Nat
  BY DEF RewardsOf, Quests, QuestRecord
<1> HIDE DEF f, X
<1>4. IsFiniteSet(X)
  BY <1>1, <1>2, FS_Subset
<1>5. \A i \in X : f[i] \in Nat
  BY <1>2, <1>3
<1>6. SumOver(f, X) \in Nat /\ \A i \in X : f[i] <= SumOver(f, X)
  BY <1>4, <1>5, SumOfNaturals
<1>7. EscrowIn(q, c, S) = SumOver(f, X)
  BY DEF EscrowIn, f, X
<1>8. \A i \in X : q[i].reward <= EscrowIn(q, c, S)
  BY <1>2, <1>3, <1>6, <1>7
<1> QED BY <1>2, <1>3, <1>4, <1>6, <1>7, <1>8 DEF f, X

\* The escrow depends on the employer's quests alone.
LEMMA EscrowSame ==
    ASSUME NEW q, NEW u, Quests(q), NEW c, NEW S, QuestsIn(u, c, S) = QuestsIn(q, c, S),
           \A i \in QuestsIn(q, c, S) : i \in DOMAIN u /\ u[i].reward = q[i].reward
    PROVE  EscrowIn(u, c, S) = EscrowIn(q, c, S)
<1>1. IsFiniteSet(QuestsIn(q, c, S))
  BY EscrowInNatural
<1>2. \A i \in QuestsIn(q, c, S) : RewardsOf(u)[i] = RewardsOf(q)[i]
  BY DEF RewardsOf, QuestsIn
<1>3. SumOver(RewardsOf(u), QuestsIn(q, c, S)) = SumOver(RewardsOf(q), QuestsIn(q, c, S))
  BY <1>1, <1>2, SumOfSame
<1> QED BY <1>3 DEF EscrowIn

\* u is q with the quest i rewritten.
Rewritten(q, u, i, r) ==
    /\ DOMAIN u = DOMAIN q
    /\ \A j \in DOMAIN q : u[j] = IF j = i THEN r ELSE q[j]

\* A quest goes on, or ends and its reward leaves the escrow.
LEMMA QuestRewritten ==
    ASSUME NEW q, Quests(q), NEW i \in DOMAIN q, NEW u, NEW r, Rewritten(q, u, i, r),
           QuestRecord(r), r.employer = q[i].employer, r.reward = q[i].reward,
           q[i].status \in Unsettled
    PROVE  /\ Quests(u)
           /\ r.reward <= EscrowIn(q, r.employer, Unsettled)
           /\ \A c : EscrowIn(u, c, Unsettled) =
                        IF c = r.employer /\ r.status \notin Unsettled
                        THEN EscrowIn(q, c, Unsettled) - r.reward
                        ELSE EscrowIn(q, c, Unsettled)
<1>1. Quests(u)
  BY DEF Quests, Rewritten
<1>2. ASSUME NEW c, c # r.employer \/ r.status \in Unsettled
      PROVE  EscrowIn(u, c, Unsettled) = EscrowIn(q, c, Unsettled)
  <2>1. QuestsIn(u, c, Unsettled) = QuestsIn(q, c, Unsettled)
    BY <1>2 DEF QuestsIn, Rewritten
  <2>2. \A j \in QuestsIn(q, c, Unsettled) : j \in DOMAIN u /\ u[j].reward = q[j].reward
    BY DEF QuestsIn, Rewritten
  <2> QED BY <2>1, <2>2, EscrowSame
<1> DEFINE e == r.employer
           v == r.reward
           S == QuestsIn(q, e, Unsettled)
           f == RewardsOf(q)
<1>3. i \in S
  BY DEF QuestsIn
<1>4. v <= EscrowIn(q, e, Unsettled)
  BY <1>3, EscrowInNatural
<1>5. ASSUME r.status \notin Unsettled
      PROVE  EscrowIn(u, e, Unsettled) = EscrowIn(q, e, Unsettled) - v
  <2>1. QuestsIn(u, e, Unsettled) = S \ {i}
    BY <1>5 DEF QuestsIn, Rewritten
  <2>2. \A j \in S \ {i} : RewardsOf(u)[j] = f[j]
    BY DEF RewardsOf, QuestsIn, Rewritten
  <2>3. IsFiniteSet(S) /\ \A j \in S : f[j] \in Nat
    BY EscrowInNatural
  <2>4. f[i] = v
    BY DEF RewardsOf
  <2>5. EscrowIn(q, e, Unsettled) = SumOver(f, S)
    BY DEF EscrowIn
  <2>6. EscrowIn(u, e, Unsettled) = SumOver(RewardsOf(u), S \ {i})
    BY <2>1 DEF EscrowIn
  <2> HIDE DEF S, f, e, v
  <2>7. IsFiniteSet(S \ {i})
    BY <2>3, FS_Subset
  <2>8. SumOver(RewardsOf(u), S \ {i}) = SumOver(f, S \ {i})
    BY <2>2, <2>7, SumOfSame
  <2>9. SumOver(f, S) = SumOver(f, S \ {i}) + f[i]
    BY <1>3, <2>3, SumOfRest
  <2>10. SumOver(f, S \ {i}) \in Nat /\ f[i] \in Nat
    BY <1>3, <2>3, <2>7, SumOfNaturals
  <2> QED BY <2>4, <2>5, <2>6, <2>8, <2>9, <2>10
<1> QED BY <1>1, <1>2, <1>4, <1>5

\* A new quest puts its reward into the escrow.
LEMMA QuestAdded ==
    ASSUME NEW q, Quests(q), NEW r, QuestRecord(r), r.status \in Unsettled, NEW u,
           u = Put(q, FreshId(q), r)
    PROVE  /\ Quests(u)
           /\ \A c : EscrowIn(u, c, Unsettled) =
                        IF c = r.employer THEN EscrowIn(q, c, Unsettled) + r.reward
                        ELSE EscrowIn(q, c, Unsettled)
<1>1. PICK n \in Nat : DOMAIN q = 0 .. n - 1
  BY DEF Quests
<1>2. FreshId(q) = n
  <2>1. 0 \in Int /\ n - 1 \in Int
    OBVIOUS
  <2>2. Cardinality(0 .. n - 1) = n
    BY <2>1, FS_Interval
  <2> QED BY <1>1, <2>2 DEF FreshId
<1>3. 0 .. (n + 1) - 1 = (0 .. n - 1) \cup {n} /\ n \notin 0 .. n - 1 /\ n + 1 \in Nat
  OBVIOUS
<1>4. /\ n \notin DOMAIN q /\ DOMAIN u = DOMAIN q \cup {n} /\ u[n] = r
      /\ \A j \in DOMAIN q : j # n /\ u[j] = q[j]
  BY <1>1, <1>2, <1>3 DEF Put
<1>5. Quests(u)
  <2>1. DOMAIN u = 0 .. (n + 1) - 1
    BY <1>1, <1>3, <1>4
  <2> QED BY <1>3, <1>4, <2>1 DEF Quests
<1>6. ASSUME NEW c, c # r.employer
      PROVE  EscrowIn(u, c, Unsettled) = EscrowIn(q, c, Unsettled)
  <2>1. QuestsIn(u, c, Unsettled) = QuestsIn(q, c, Unsettled)
    BY <1>4, <1>6 DEF QuestsIn
  <2>2. \A j \in QuestsIn(q, c, Unsettled) : j \in DOMAIN u /\ u[j].reward = q[j].reward
    BY <1>4 DEF QuestsIn
  <2> QED BY <2>1, <2>2, EscrowSame
<1> DEFINE e == r.employer
           v == r.reward
           S == QuestsIn(q, e, Unsettled)
           f == RewardsOf(q)
           h == RewardsOf(u)
<1>7. QuestsIn(u, e, Unsettled) = S \cup {n} /\ n \notin S
  BY <1>4 DEF QuestsIn
<1>8. h[n] = v /\ v \in Nat /\ \A j \in S : h[j] = f[j]
  BY <1>4 DEF RewardsOf, QuestsIn, QuestRecord
<1>9. IsFiniteSet(S) /\ \A j \in S : f[j] \in Nat
  BY EscrowInNatural
<1>10. EscrowIn(q, e, Unsettled) = SumOver(f, S)
  BY DEF EscrowIn
<1>11. EscrowIn(u, e, Unsettled) = SumOver(h, S \cup {n})
  BY <1>7 DEF EscrowIn
<1> HIDE DEF S, f, h, e, v
<1>12. SumOver(h, S \cup {n}) = SumOver(h, S) + h[n]
  <2>1. \A j \in S \cup {n} : h[j] \in Int
    BY <1>8, <1>9
  <2> QED BY <1>7, <1>9, <2>1, SumOfOneMore
<1>13. SumOver(h, S) = SumOver(f, S)
  BY <1>8, <1>9, SumOfSame
<1>14. EscrowIn(u, e, Unsettled) = EscrowIn(q, e, Unsettled) + v
  BY <1>8, <1>10, <1>11, <1>12, <1>13
<1> QED BY <1>5, <1>6, <1>14 DEF e, v

\* u is q with the unfinished quests of who cancelled.
Cancelled(q, u, who) ==
    /\ DOMAIN u = DOMAIN q
    /\ \A i \in QuestsIn(q, who, {"Open", "InProgress"}) : u[i] = [q[i] EXCEPT !.status = "Cancelled"]
    /\ \A i \in DOMAIN q \ QuestsIn(q, who, {"Open", "InProgress"}) : u[i] = q[i]

\* The unfinished work of a citizen who died or was exiled is cancelled.
LEMMA QuestsCancelled ==
    ASSUME NEW q, Quests(q), NEW u, NEW who, Cancelled(q, u, who)
    PROVE  /\ Quests(u)
           /\ QuestsIn(u, who, {"Open", "InProgress"}) = {}
           /\ EscrowIn(q, who, Unsettled) =
                 EscrowIn(u, who, Unsettled) + EscrowIn(q, who, {"Open", "InProgress"})
           /\ \A c : c # who => EscrowIn(u, c, Unsettled) = EscrowIn(q, c, Unsettled)
<1> DEFINE A == QuestsIn(q, who, {"Open", "InProgress"})
           B == QuestsIn(q, who, {"Review"})
           S == QuestsIn(q, who, Unsettled)
           f == RewardsOf(q)
<1>1. \A i \in DOMAIN q : QuestRecord(q[i])
  BY DEF Quests
<1>2. \A i \in A : /\ QuestRecord(u[i]) /\ u[i].status = "Cancelled"
                   /\ u[i].employer = q[i].employer
  <2>1. ASSUME NEW i \in A
        PROVE  QuestRecord(u[i]) /\ u[i].status = "Cancelled" /\ u[i].employer = q[i].employer
    <3> DEFINE r == q[i]
    <3>1. u[i] = [r EXCEPT !.status = "Cancelled"]
      BY DEF Cancelled
    <3>2. QuestRecord(r)
      BY <1>1 DEF QuestsIn
    <3> HIDE DEF r
    <3>3. QuestRecord(u[i]) /\ u[i].status = "Cancelled" /\ u[i].employer = r.employer
      BY <3>1, <3>2 DEF QuestRecord
    <3> QED BY <3>3 DEF r
  <2> QED BY <2>1
<1>3. DOMAIN u = DOMAIN q /\ \A i \in DOMAIN q \ A : u[i] = q[i]
  BY DEF Cancelled
<1>4. Quests(u)
  <2>1. \A i \in DOMAIN u : QuestRecord(u[i])
    BY <1>1, <1>2, <1>3
  <2> QED BY <1>3, <2>1 DEF Quests
<1>5. QuestsIn(u, who, {"Open", "InProgress"}) = {} /\ QuestsIn(u, who, Unsettled) = B
  BY <1>2, <1>3 DEF QuestsIn, Unsettled
<1>6. S = A \cup B /\ A \cap B = {}
  BY DEF QuestsIn, Unsettled
<1>7. \A j \in B : RewardsOf(u)[j] = f[j]
  BY <1>3 DEF RewardsOf, QuestsIn
<1>8. ASSUME NEW c, c # who
      PROVE  EscrowIn(u, c, Unsettled) = EscrowIn(q, c, Unsettled)
  <2>1. QuestsIn(u, c, Unsettled) = QuestsIn(q, c, Unsettled)
    BY <1>2, <1>3, <1>8 DEF QuestsIn
  <2>2. \A j \in QuestsIn(q, c, Unsettled) : j \in DOMAIN u /\ u[j].reward = q[j].reward
    BY <1>3, <1>8 DEF QuestsIn
  <2> QED BY <2>1, <2>2, EscrowSame
<1>9. /\ IsFiniteSet(A) /\ IsFiniteSet(B)
      /\ \A j \in A \cup B : f[j] \in Nat
  <2>1. IsFiniteSet(A) /\ IsFiniteSet(B) /\ A \subseteq DOMAIN q /\ B \subseteq DOMAIN q
    BY EscrowInNatural
  <2>2. \A j \in DOMAIN q : f[j] \in Nat
    BY EscrowInNatural
  <2> HIDE DEF A, B, f
  <2> QED BY <2>1, <2>2
<1>10. /\ EscrowIn(q, who, Unsettled) = SumOver(f, S)
       /\ EscrowIn(q, who, {"Open", "InProgress"}) = SumOver(f, A)
       /\ EscrowIn(u, who, Unsettled) = SumOver(RewardsOf(u), B)
  BY <1>5 DEF EscrowIn
<1> HIDE DEF A, B, S, f
<1>11. SumOver(RewardsOf(u), B) = SumOver(f, B)
  BY <1>7, <1>9, SumOfSame
<1>12. SumOver(f, A \cup B) = SumOver(f, A) + SumOver(f, B)
  <2>1. \A j \in A \cup B : f[j] \in Int
    BY <1>9
  <2> QED BY <1>6, <1>9, <2>1, SumOfParts
<1>13. SumOver(f, A) \in Nat /\ SumOver(f, B) \in Nat
  BY <1>9, SumOfNaturals
<1>14. EscrowIn(q, who, Unsettled) =
          EscrowIn(u, who, Unsettled) + EscrowIn(q, who, {"Open", "InProgress"})
  BY <1>6, <1>10, <1>11, <1>12, <1>13
<1> QED BY <1>4, <1>5, <1>8, <1>14
-----------------------------------------------------------------------------
(* The calls about quests and the clean-up at the end of a citizenship.    *)

\* The fields that these write are there.
GuildFields(g) == {"quests", "academy"} \subseteq DOMAIN g /\ Quests(g.quests)

\* What a step does to the escrow of the quests.
EscrowStays(q, u) == \A c : EscrowIn(u, c, Unsettled) = EscrowIn(q, c, Unsettled)

EscrowGrows(q, u, who, v) ==
    \A c : EscrowIn(u, c, Unsettled) =
              IF c = who THEN EscrowIn(q, c, Unsettled) + v ELSE EscrowIn(q, c, Unsettled)

EscrowShrinks(q, u, who, v) ==
    /\ v <= EscrowIn(q, who, Unsettled)
    /\ \A c : EscrowIn(u, c, Unsettled) =
                 IF c = who THEN EscrowIn(q, c, Unsettled) - v ELSE EscrowIn(q, c, Unsettled)

\* A quest that is not settled gets another record, beside changes elsewhere.
LEMMA QuestWritten ==
    ASSUME GuildFields(guilds), NEW q \in DOMAIN guilds.quests, NEW r, QuestRecord(r),
           r.employer = guilds.quests[q].employer, r.reward = guilds.quests[q].reward,
           guilds.quests[q].status \in Unsettled, DOMAIN guilds' = DOMAIN guilds,
           guilds'.quests = [guilds.quests EXCEPT ![q] = r]
    PROVE  /\ GuildFields(guilds')
           /\ r.status \in Unsettled => EscrowStays(guilds.quests, guilds'.quests)
           /\ r.status \notin Unsettled =>
                 EscrowShrinks(guilds.quests, guilds'.quests, r.employer, r.reward)
<1> DEFINE p == guilds.quests
           u == guilds'.quests
<1>1. Rewritten(p, u, q, r) /\ Quests(p)
  BY DEF Rewritten, GuildFields
<1> HIDE DEF p, u
<1>2. p[q].employer = r.employer /\ p[q].reward = r.reward /\ p[q].status \in Unsettled
      /\ q \in DOMAIN p
  BY DEF p
<1>3. /\ Quests(u)
      /\ r.reward <= EscrowIn(p, r.employer, Unsettled)
      /\ \A c : EscrowIn(u, c, Unsettled) =
                   IF c = r.employer /\ r.status \notin Unsettled
                   THEN EscrowIn(p, c, Unsettled) - r.reward ELSE EscrowIn(p, c, Unsettled)
  BY <1>1, <1>2, QuestRewritten
<1>4. GuildFields(guilds')
  BY <1>3 DEF GuildFields, u
<1>5. r.status \in Unsettled => EscrowStays(p, u)
  BY <1>3 DEF EscrowStays
<1>6. r.status \notin Unsettled => EscrowShrinks(p, u, r.employer, r.reward)
  BY <1>3 DEF EscrowShrinks
<1> QED BY <1>4, <1>5, <1>6 DEF p, u

\* What a call about quests does to the escrow and to what is in reserve for it.
QuestOutcome ==
    \/ EscrowStays(guilds.quests, guilds'.quests) /\ UNCHANGED ledger
    \/ \E who \in Artisans, v \in Nat :
          EscrowGrows(guilds.quests, guilds'.quests, who, v) /\ reserve(who, v)
    \/ \E who, v :
          /\ v \in Nat /\ EscrowShrinks(guilds.quests, guilds'.quests, who, v)
          /\ reserved' = [reserved EXCEPT ![who] = @ - Releasable(who, v)]

\* A quest is published with its reward in reserve.
LEMMA QuestPublished ==
    ASSUME GuildFields(guilds), NEW a \in Artisans, NEW g, NEW v \in Rewards,
           publish_quest(a, g, v)
    PROVE  GuildFields(guilds') /\ QuestOutcome
<1> DEFINE q == guilds.quests
           r == NewQuest(g, a, v)
           u == Put(q, FreshId(q), r)
<1>1. guilds' = [guilds EXCEPT !.quests = u, !.guilds[g].quest_count = @ + 1] /\ reserve(a, v)
  BY DEF publish_quest
<1>2. QuestRecord(r) /\ r.status \in Unsettled /\ r.employer = a /\ r.reward = v /\ v \in Nat
  <2> DEFINE o == {}
  <2>1. r = [guild_id |-> g, employer |-> a, reward |-> v, status |-> "Open", assignee |-> o,
             assignee_quest_count |-> 0]
    BY DEF NewQuest
  <2> HIDE DEF o, r
  <2>2. v \in Nat
    BY GuildsAssumption
  <2> QED BY <2>1, <2>2 DEF QuestRecord, Unsettled
<1>3. "quests" \in DOMAIN guilds /\ "academy" \in DOMAIN guilds /\ Quests(q)
  BY DEF GuildFields
<1>4. u = Put(q, FreshId(q), r)
  OBVIOUS
<1> HIDE DEF r, u
<1>5. guilds'.quests = u /\ DOMAIN guilds' = DOMAIN guilds
  BY <1>1, <1>3
<1> HIDE DEF q
<1>6. /\ Quests(u)
      /\ \A c : EscrowIn(u, c, Unsettled) =
                   IF c = r.employer THEN EscrowIn(q, c, Unsettled) + r.reward
                   ELSE EscrowIn(q, c, Unsettled)
  BY <1>2, <1>3, <1>4, QuestAdded
<1>7. EscrowGrows(q, u, a, v)
  BY <1>2, <1>6 DEF EscrowGrows
<1> QED BY <1>1, <1>2, <1>3, <1>5, <1>6, <1>7 DEF GuildFields, QuestOutcome, q

\* The record of the same quest with the status v.
SameQuest(r, v, s) ==
    QuestRecord(s) /\ s.employer = r.employer /\ s.reward = r.reward /\ s.status = v

\* A quest goes on.
LEMMA QuestGoesOn ==
    ASSUME GuildFields(guilds), NEW a, NEW q, assign_quest(a, q) \/ submit_quest(a, q)
    PROVE  GuildFields(guilds') /\ QuestOutcome
<1> DEFINE r == guilds.quests[q]
           s == [r EXCEPT !.status = "InProgress", !.assignee = {a}]
           t == [r EXCEPT !.status = "Review"]
<1>1. q \in DOMAIN guilds.quests /\ r.status \in Unsettled /\ UNCHANGED ledger
  BY DEF assign_quest, submit_quest, Is, Unsettled
<1>2. QuestRecord(r)
  BY <1>1 DEF GuildFields, Quests
<1>3. "quests" \in DOMAIN guilds
  BY DEF GuildFields
<1>4. /\ DOMAIN guilds' = DOMAIN guilds
      /\ \/ guilds'.quests = [guilds.quests EXCEPT ![q] = s]
         \/ guilds'.quests = [guilds.quests EXCEPT ![q] = t]
  <2>1. CASE assign_quest(a, q)
    BY <1>1, <1>3, <2>1 DEF assign_quest
  <2>2. CASE submit_quest(a, q)
    BY <1>1, <1>3, <2>2 DEF submit_quest
  <2> QED BY <2>1, <2>2
<1>5. r.employer = guilds.quests[q].employer /\ r.reward = guilds.quests[q].reward
      /\ guilds.quests[q].status \in Unsettled
  BY <1>1
<1> HIDE DEF r
<1>6. SameQuest(r, "InProgress", s) /\ SameQuest(r, "Review", t)
  BY <1>2 DEF QuestRecord, SameQuest
<1> HIDE DEF s, t
<1>7. PICK x \in {s, t} : guilds'.quests = [guilds.quests EXCEPT ![q] = x]
  BY <1>4
<1>8. QuestRecord(x) /\ x.employer = r.employer /\ x.reward = r.reward /\ x.status \in Unsettled
  BY <1>6 DEF SameQuest, Unsettled
<1>9. GuildFields(guilds') /\ EscrowStays(guilds.quests, guilds'.quests)
  BY <1>1, <1>4, <1>5, <1>7, <1>8, QuestWritten
<1> QED BY <1>1, <1>9 DEF QuestOutcome

\* A quest ends, and its reward leaves the reserve.
LEMMA QuestEnds ==
    ASSUME GuildFields(guilds), NEW a, NEW q, NEW b,
           complete_quest(a, q) \/ cancel_quest(a, q) \/ force_resolve_quest(a, q, b)
    PROVE  GuildFields(guilds') /\ QuestOutcome
<1> DEFINE r == guilds.quests[q]
<1>1. q \in DOMAIN guilds.quests /\ r.status \in Unsettled
  BY DEF complete_quest, cancel_quest, force_resolve_quest, Is, Unsettled
<1>2. QuestRecord(r)
  BY <1>1 DEF GuildFields, Quests
<1>3. "quests" \in DOMAIN guilds
  BY DEF GuildFields
<1>4. \E s : /\ DOMAIN guilds' = DOMAIN guilds
             /\ guilds'.quests = [guilds.quests EXCEPT ![q] = s]
             /\ SameQuest(r, "Completed", s)
  <2> DEFINE t == [r EXCEPT !.status = "Completed"]
             u(x) == [r EXCEPT !.status = "Completed", !.assignee_quest_count = x]
  <2>0. SameQuest(r, "Completed", t) /\ \A x : SameQuest(r, "Completed", u(x))
    <3> HIDE DEF r
    <3> QED BY <1>2 DEF QuestRecord, SameQuest
  <2>1. CASE cancel_quest(a, q)
    <3>1. DOMAIN guilds' = DOMAIN guilds /\ guilds'.quests = [guilds.quests EXCEPT ![q] = t]
      BY <1>1, <1>3, <2>1 DEF cancel_quest
    <3> HIDE DEF t, u, r
    <3> QED BY <2>0, <3>1
  <2>2. CASE force_resolve_quest(a, q, b)
    <3>1. PICK m : guilds' = [guilds EXCEPT !.questCount = m, !.quests[q].status = "Completed"]
      BY <2>2 DEF force_resolve_quest
    <3>2. DOMAIN guilds' = DOMAIN guilds /\ guilds'.quests = [guilds.quests EXCEPT ![q] = t]
      BY <1>1, <1>3, <3>1
    <3> HIDE DEF t, u, r
    <3> QED BY <2>0, <3>2
  <2>3. CASE complete_quest(a, q)
    <3>1. PICK m, n : guilds' = [guilds EXCEPT !.questCount = m,
                                               !.quests[q].status = "Completed",
                                               !.quests[q].assignee_quest_count = n]
      BY <2>3 DEF complete_quest
    <3>2. DOMAIN guilds' = DOMAIN guilds /\ guilds'.quests = [guilds.quests EXCEPT ![q] = u(n)]
      BY <1>1, <1>3, <3>1
    <3> HIDE DEF t, u, r
    <3> QED BY <2>0, <3>2
  <2> QED BY <2>1, <2>2, <2>3
<1>5. reserved' = [reserved EXCEPT ![r.employer] = @ - Releasable(r.employer, r.reward)]
  <2>1. CASE cancel_quest(a, q)
    BY <2>1 DEF cancel_quest, unreserve
  <2>2. CASE force_resolve_quest(a, q, b)
    BY <2>2 DEF force_resolve_quest, PayReserved
  <2>3. CASE complete_quest(a, q)
    BY <2>3 DEF complete_quest, PayReserved
  <2> QED BY <2>1, <2>2, <2>3
<1>6. r.employer = guilds.quests[q].employer /\ r.reward = guilds.quests[q].reward
      /\ guilds.quests[q].status \in Unsettled
  BY <1>1
<1> HIDE DEF r
<1>7. PICK s : /\ DOMAIN guilds' = DOMAIN guilds
               /\ guilds'.quests = [guilds.quests EXCEPT ![q] = s]
               /\ SameQuest(r, "Completed", s)
  BY <1>4
<1>8. /\ QuestRecord(s) /\ s.employer = r.employer /\ s.reward = r.reward
      /\ s.status = "Completed"
  BY <1>7 DEF SameQuest
<1>9. DOMAIN guilds' = DOMAIN guilds /\ guilds'.quests = [guilds.quests EXCEPT ![q] = s]
  BY <1>7
<1>10. s.status \notin Unsettled
  BY <1>8 DEF Unsettled
<1>11. /\ GuildFields(guilds')
       /\ EscrowShrinks(guilds.quests, guilds'.quests, s.employer, s.reward)
  BY <1>1, <1>6, <1>8, <1>9, <1>10, QuestWritten
<1>12. s.reward \in Nat
  BY <1>8 DEF QuestRecord
<1> QED BY <1>5, <1>8, <1>11, <1>12 DEF QuestOutcome

\* The calls about quests.
LEMMA QuestCalls ==
    ASSUME GuildFields(guilds), QuestCall
    PROVE  GuildFields(guilds') /\ QuestOutcome
BY QuestPublished, QuestGoesOn, QuestEnds DEF QuestCall

\* The storage after a clean-up.
LEMMA CleanedGuilds ==
    ASSUME GuildFields(guilds), NEW c, guilds' = GuildsAfterCleanup(c)
    PROVE  /\ DOMAIN guilds' = DOMAIN guilds
           /\ Cancelled(guilds.quests, guilds'.quests, c)
           /\ guilds'.academy = guilds.academy \ {c}
<1> DEFINE q == QuestsAfterCleanup(c)
           rest == guilds.academy \ {c}
           g == [guilds EXCEPT !.quests = q, !.academy = rest]
<1>1. guilds' = g
  BY DEF GuildsAfterCleanup
<1>2. QuestsOf(c, {"Open", "InProgress"}) = QuestsIn(guilds.quests, c, {"Open", "InProgress"})
  BY DEF QuestsOf, QuestsIn
<1>3. Cancelled(guilds.quests, q, c)
  <2> DEFINE A == QuestsIn(guilds.quests, c, {"Open", "InProgress"})
             r(i) == [guilds.quests[i] EXCEPT !.status = "Cancelled"]
  <2>1. q = [i \in DOMAIN guilds.quests |-> IF i \in A THEN r(i) ELSE guilds.quests[i]]
    BY <1>2 DEF QuestsAfterCleanup
  <2>2. A \subseteq DOMAIN guilds.quests
    BY DEF QuestsIn
  <2> HIDE DEF q, A, r
  <2>3. /\ DOMAIN q = DOMAIN guilds.quests
        /\ \A i \in A : q[i] = r(i)
        /\ \A i \in DOMAIN guilds.quests \ A : q[i] = guilds.quests[i]
    BY <2>1, <2>2
  <2> QED BY <2>3 DEF Cancelled, A, r
<1>4. "quests" \in DOMAIN guilds /\ "academy" \in DOMAIN guilds
  BY DEF GuildFields
<1> HIDE DEF q, rest
<1>5. g.quests = q /\ g.academy = rest /\ DOMAIN g = DOMAIN guilds
  BY <1>4
<1> HIDE DEF g
<1> QED BY <1>1, <1>3, <1>5 DEF rest

\* A clean-up cancels the unfinished quests of c and takes c off the academy.
LEMMA FieldsAfterCleanup ==
    ASSUME GuildFields(guilds), NEW c, guilds' = GuildsAfterCleanup(c)
    PROVE  /\ GuildFields(guilds')
           /\ QuestsOf(c, {"Open", "InProgress"})' = {}
           /\ c \notin guilds'.academy
           /\ Escrow(c, {"Open", "InProgress"}) \in Nat
           /\ EscrowShrinks(guilds.quests, guilds'.quests, c, Escrow(c, {"Open", "InProgress"}))
<1> DEFINE q == guilds.quests
           u == guilds'.quests
           O == {"Open", "InProgress"}
<1>1. /\ DOMAIN guilds' = DOMAIN guilds /\ Cancelled(q, u, c)
      /\ guilds'.academy = guilds.academy \ {c}
  BY CleanedGuilds
<1>2. Quests(q)
  BY DEF GuildFields
<1>3. Escrow(c, O) = EscrowIn(q, c, O) /\ QuestsOf(c, O)' = QuestsIn(u, c, O)
  BY DEF Escrow, EscrowIn, QuestsOf, QuestsIn, RewardsOf
<1> HIDE DEF q, u
<1>4. /\ Quests(u) /\ QuestsIn(u, c, O) = {}
      /\ EscrowIn(q, c, Unsettled) = EscrowIn(u, c, Unsettled) + EscrowIn(q, c, O)
      /\ \A d : d # c => EscrowIn(u, d, Unsettled) = EscrowIn(q, d, Unsettled)
  BY <1>1, <1>2, QuestsCancelled
<1>5. EscrowIn(q, c, O) \in Nat /\ EscrowIn(u, c, Unsettled) \in Nat
  BY <1>2, <1>4, EscrowInNatural
<1>6. EscrowShrinks(q, u, c, EscrowIn(q, c, O))
  BY <1>4, <1>5 DEF EscrowShrinks
<1>7. GuildFields(guilds')
  BY <1>1, <1>4 DEF GuildFields, u
<1> QED BY <1>1, <1>3, <1>4, <1>5, <1>6, <1>7 DEF q, u
-----------------------------------------------------------------------------
(* What is held of a citizen: deposits of tickets and stakes of stings,    *)
(* beside the rewards of quests.                                           *)

TicketRecord == [author : Citizens, target : Targets, status : TicketStatus]

StingRecord == [citizen : Citizens, target : Citizens, amount : StingAmounts, status : StingStatus]

Unresolved == {"Open", "InReview", "Escalated"}

TicketsOf(tickets, c) ==
    {i \in DOMAIN tickets : tickets[i].author = c /\ tickets[i].status \in Unresolved}

StingsOf(stings, c) ==
    {i \in DOMAIN stings : stings[i].citizen = c /\ stings[i].status # "Sprung"}

StakeAmounts(stings) == [i \in DOMAIN stings |-> stings[i].amount]

Deposits(tickets, c) == TicketDeposit * Cardinality(TicketsOf(tickets, c))

Stakes(stings, c) == SumOver(StakeAmounts(stings), StingsOf(stings, c))

Tickets(t) == \E n \in Nat : t \in Numbered(n, TicketRecord)

Stings(s) == \E n \in Nat : s \in Numbered(n, StingRecord)

\* What counts of one citizen is finite and a natural number.
LEMMA HeldAreNatural ==
    ASSUME NEW t, Tickets(t), NEW s, Stings(s), NEW c
    PROVE  /\ IsFiniteSet(TicketsOf(t, c)) /\ Cardinality(TicketsOf(t, c)) \in Nat
           /\ IsFiniteSet(StingsOf(s, c))
           /\ \A i \in DOMAIN s : StakeAmounts(s)[i] = s[i].amount /\ s[i].amount \in Nat
           /\ Deposits(t, c) \in Nat /\ Stakes(s, c) \in Nat
<1>1. IsFiniteSet(DOMAIN t) /\ IsFiniteSet(DOMAIN s) /\ \A i \in DOMAIN s : s[i] \in StingRecord
  BY RecordsAreTyped DEF Tickets, Stings
<1>2. /\ IsFiniteSet(TicketsOf(t, c)) /\ Cardinality(TicketsOf(t, c)) \in Nat
      /\ IsFiniteSet(StingsOf(s, c)) /\ StingsOf(s, c) \subseteq DOMAIN s
  BY <1>1, FS_Subset, FS_CardinalityType DEF TicketsOf, StingsOf
<1>3. \A i \in DOMAIN s : StakeAmounts(s)[i] = s[i].amount /\ s[i].amount \in Nat
  BY <1>1, VoiceAssumption DEF StakeAmounts, StingRecord
<1>4. Deposits(t, c) \in Nat
  <2>1. \A k \in Nat : TicketDeposit * k \in Nat
    BY VoiceAssumption
  <2> QED BY <1>2, <2>1 DEF Deposits
<1>5. Stakes(s, c) \in Nat
  BY <1>2, <1>3, SumOfNaturals DEF Stakes
<1> QED BY <1>2, <1>3, <1>4, <1>5

\* A deposit more.
LEMMA OneDepositMore ==
    ASSUME NEW k \in Nat
    PROVE  TicketDeposit * (k + 1) = TicketDeposit * k + TicketDeposit
BY VoiceAssumption

\* A ticket more, or less, among those of a citizen.
LEMMA TicketJoins ==
    ASSUME NEW t, Tickets(t), NEW u, NEW c, NEW i, i \notin TicketsOf(t, c),
           TicketsOf(u, c) = TicketsOf(t, c) \cup {i}
    PROVE  Deposits(u, c) = Deposits(t, c) + TicketDeposit
<1> DEFINE S == TicketsOf(t, c)
<1>1. IsFiniteSet(S) /\ Cardinality(S) \in Nat
  <2>1. IsFiniteSet(DOMAIN t)
    BY RecordsAreTyped DEF Tickets
  <2>2. S \subseteq DOMAIN t
    BY DEF TicketsOf
  <2> HIDE DEF S
  <2> QED BY <2>1, <2>2, FS_Subset, FS_CardinalityType
<1>2. i \notin S /\ TicketsOf(u, c) = S \cup {i}
  OBVIOUS
<1> HIDE DEF S
<1>3. Cardinality(S \cup {i}) = Cardinality(S) + 1
  BY <1>1, <1>2, FS_AddElement
<1> QED BY <1>1, <1>2, <1>3, OneDepositMore DEF Deposits, S

\* A sting more among those of a citizen.
LEMMA StingJoins ==
    ASSUME NEW s, Stings(s), NEW u, Stings(u), NEW c, NEW i \in DOMAIN u, i \notin StingsOf(s, c),
           StingsOf(u, c) = StingsOf(s, c) \cup {i},
           \A j \in StingsOf(s, c) : u[j].amount = s[j].amount
    PROVE  Stakes(u, c) = Stakes(s, c) + u[i].amount
<1> DEFINE S == StingsOf(s, c)
           f == StakeAmounts(u)
<1>1. IsFiniteSet(DOMAIN s) /\ IsFiniteSet(DOMAIN u) /\ \A j \in DOMAIN u : u[j] \in StingRecord
  BY RecordsAreTyped DEF Stings
<1>2. S \subseteq DOMAIN s /\ S \cup {i} \subseteq DOMAIN u /\ i \notin S
  BY DEF StingsOf
<1>3. \A j \in DOMAIN u : f[j] = u[j].amount /\ f[j] \in Int
  <2>1. \A j \in DOMAIN u : u[j].amount \in Nat
    BY <1>1, VoiceAssumption DEF StingRecord
  <2> QED BY <2>1 DEF StakeAmounts
<1>4. \A j \in S : f[j] = StakeAmounts(s)[j]
  BY <1>2, <1>3 DEF StakeAmounts
<1>5. IsFiniteSet(S) /\ StingsOf(u, c) = S \cup {i}
  BY <1>1, <1>2, FS_Subset
<1> HIDE DEF S, f
<1>6. SumOver(f, S \cup {i}) = SumOver(f, S) + f[i]
  BY <1>2, <1>3, <1>5, SumOfOneMore
<1>7. SumOver(f, S) = SumOver(StakeAmounts(s), S)
  BY <1>4, <1>5, SumOfSame
<1> QED BY <1>3, <1>5, <1>6, <1>7 DEF Stakes, S, f

\* Who has the same tickets, or stings, has the same held.
LEMMA SameHeld ==
    ASSUME NEW c
    PROVE  /\ \A t, u : TicketsOf(u, c) = TicketsOf(t, c) => Deposits(u, c) = Deposits(t, c)
           /\ \A s, u : /\ Stings(s) /\ StingsOf(u, c) = StingsOf(s, c)
                        /\ \A j \in StingsOf(s, c) : j \in DOMAIN u /\ u[j].amount = s[j].amount
                        => Stakes(u, c) = Stakes(s, c)
<1>1. \A t, u : TicketsOf(u, c) = TicketsOf(t, c) => Deposits(u, c) = Deposits(t, c)
  BY DEF Deposits
<1>2. ASSUME NEW s, NEW u, Stings(s), StingsOf(u, c) = StingsOf(s, c),
             \A j \in StingsOf(s, c) : j \in DOMAIN u /\ u[j].amount = s[j].amount
      PROVE  Stakes(u, c) = Stakes(s, c)
  <2>1. IsFiniteSet(DOMAIN s)
    BY <1>2, RecordsAreTyped DEF Stings
  <2>2. StingsOf(s, c) \subseteq DOMAIN s
    BY DEF StingsOf
  <2>3. \A j \in StingsOf(s, c) : StakeAmounts(u)[j] = StakeAmounts(s)[j]
    BY <1>2, <2>2 DEF StakeAmounts
  <2>4. IsFiniteSet(StingsOf(s, c))
    BY <2>1, <2>2, FS_Subset
  <2>5. SumOver(StakeAmounts(u), StingsOf(s, c)) = SumOver(StakeAmounts(s), StingsOf(s, c))
    BY <2>3, <2>4, SumOfSame
  <2> QED BY <1>2, <2>5 DEF Stakes
<1> QED BY <1>1, <1>2

\* The records f, with another status of one of them.
Restatus(f, i, st) == [f EXCEPT ![i] = [f[i] EXCEPT !.status = st]]

\* A ticket gets another status.
LEMMA TicketRestated ==
    ASSUME NEW t, Tickets(t), NEW i \in DOMAIN t, t[i].status \in Unresolved,
           NEW st \in TicketStatus
    PROVE  /\ Tickets(Restatus(t, i, st))
           /\ t[i].author \in Citizens
           /\ st \in Unresolved => \A c : TicketsOf(Restatus(t, i, st), c) = TicketsOf(t, c)
           /\ st \notin Unresolved =>
                 /\ i \notin TicketsOf(Restatus(t, i, st), t[i].author)
                 /\ TicketsOf(t, t[i].author)
                       = TicketsOf(Restatus(t, i, st), t[i].author) \cup {i}
                 /\ \A c : c # t[i].author => TicketsOf(Restatus(t, i, st), c) = TicketsOf(t, c)
<1> DEFINE v == [t[i] EXCEPT !.status = st]
           u == [t EXCEPT ![i] = v]
           a == t[i].author
<1>1. PICK n \in Nat : t \in Numbered(n, TicketRecord)
  BY DEF Tickets
<1>2. t[i] \in TicketRecord
  BY <1>1, RecordsAreTyped
<1>3. v \in TicketRecord /\ v.author = a /\ v.status = st /\ a \in Citizens
  BY <1>2 DEF TicketRecord
<1> HIDE DEF v
<1>4. /\ u \in Numbered(n, TicketRecord) /\ DOMAIN u = DOMAIN t
      /\ \A j \in DOMAIN t : u[j] = IF j = i THEN v ELSE t[j]
  BY <1>1, <1>3, RecordChanged
<1> HIDE DEF u
<1>5. Tickets(u)
  BY <1>4 DEF Tickets
<1>6. st \in Unresolved => \A c : TicketsOf(u, c) = TicketsOf(t, c)
  BY <1>3, <1>4 DEF TicketsOf
<1>7. st \notin Unresolved =>
         /\ i \notin TicketsOf(u, a) /\ TicketsOf(t, a) = TicketsOf(u, a) \cup {i}
         /\ \A c : c # a => TicketsOf(u, c) = TicketsOf(t, c)
  BY <1>3, <1>4 DEF TicketsOf
<1> QED BY <1>3, <1>5, <1>6, <1>7 DEF u, v, Restatus

\* A sting gets another status.
LEMMA StingRestated ==
    ASSUME NEW s, Stings(s), NEW i \in DOMAIN s, s[i].status # "Sprung", NEW st \in StingStatus
    PROVE  /\ Stings(Restatus(s, i, st))
           /\ DOMAIN Restatus(s, i, st) = DOMAIN s /\ s[i] \in StingRecord
           /\ \A j \in DOMAIN s : Restatus(s, i, st)[j].amount = s[j].amount
           /\ st # "Sprung" => \A c : StingsOf(Restatus(s, i, st), c) = StingsOf(s, c)
           /\ st = "Sprung" =>
                 /\ i \notin StingsOf(Restatus(s, i, st), s[i].citizen)
                 /\ StingsOf(s, s[i].citizen)
                       = StingsOf(Restatus(s, i, st), s[i].citizen) \cup {i}
                 /\ \A c : c # s[i].citizen => StingsOf(Restatus(s, i, st), c) = StingsOf(s, c)
<1> DEFINE v == [s[i] EXCEPT !.status = st]
           u == [s EXCEPT ![i] = v]
           a == s[i].citizen
<1>1. PICK n \in Nat : s \in Numbered(n, StingRecord)
  BY DEF Stings
<1>2. s[i] \in StingRecord
  BY <1>1, RecordsAreTyped
<1>3. /\ v \in StingRecord /\ v.citizen = a /\ v.status = st
      /\ v.amount = s[i].amount
  BY <1>2 DEF StingRecord
<1> HIDE DEF v
<1>4. /\ u \in Numbered(n, StingRecord) /\ DOMAIN u = DOMAIN s
      /\ \A j \in DOMAIN s : u[j] = IF j = i THEN v ELSE s[j]
  BY <1>1, <1>3, RecordChanged
<1> HIDE DEF u
<1>5. Stings(u)
  BY <1>4 DEF Stings
<1>6. \A j \in DOMAIN s : u[j].amount = s[j].amount
  BY <1>3, <1>4
<1>7. st # "Sprung" => \A c : StingsOf(u, c) = StingsOf(s, c)
  BY <1>3, <1>4 DEF StingsOf
<1>8. st = "Sprung" =>
         /\ i \notin StingsOf(u, a) /\ StingsOf(s, a) = StingsOf(u, a) \cup {i}
         /\ \A c : c # a => StingsOf(u, c) = StingsOf(s, c)
  BY <1>3, <1>4 DEF StingsOf
<1> QED BY <1>2, <1>4, <1>5, <1>6, <1>7, <1>8 DEF u, v, Restatus

-----------------------------------------------------------------------------
(* The reserve of a citizen covers what the books hold of them.            *)

\* What the quests q, the tickets t and the stings s hold of c.
Booked(q, t, s, c) == EscrowIn(q, c, Unsettled) + Deposits(t, c) + Stakes(s, c)

\* The reserve r of somebody of whom b is held.
Covers(r, b, alive) == r \in Nat /\ b \in Nat /\ r <= b /\ (alive => r = b)

\* The reserves r, where those in D have died.
HoldsFor(q, t, s, r, D) ==
    /\ Quests(q) /\ Tickets(t) /\ Stings(s)
    /\ r \in [Accounts -> Nat]
    /\ \A c \in Citizens : Covers(r[c], Booked(q, t, s, c), c \notin D)

\* The smaller of two amounts.
Least(v, r) == IF v <= r THEN v ELSE r

\* A release of what is there of an amount that is held.
LEMMA ClampCovers ==
    ASSUME NEW r, NEW b, NEW alive \in BOOLEAN, Covers(r, b, alive), NEW v \in Nat, v <= b
    PROVE  Covers(r - Least(v, r), b - v, alive)
BY DEF Covers, Least

\* What is held of somebody is a natural number.
LEMMA BookedIsNatural ==
    ASSUME NEW q, Quests(q), NEW t, Tickets(t), NEW s, Stings(s), NEW c
    PROVE  Booked(q, t, s, c) \in Nat
<1>1. EscrowIn(q, c, Unsettled) \in Nat
  BY EscrowInNatural
<1>2. Deposits(t, c) \in Nat /\ Stakes(s, c) \in Nat
  BY HeldAreNatural
<1> QED BY <1>1, <1>2 DEF Booked

\* Nothing held of anybody changes.
LEMMA HeldSame ==
    ASSUME NEW q, NEW t, NEW s, NEW r, NEW D, HoldsFor(q, t, s, r, D),
           NEW q2, NEW t2, NEW s2, NEW E, Quests(q2), Tickets(t2), Stings(s2), D \subseteq E,
           \A a \in Citizens : Booked(q2, t2, s2, a) = Booked(q, t, s, a)
    PROVE  HoldsFor(q2, t2, s2, r, E)
<1>1. ASSUME NEW a \in Citizens
      PROVE  Covers(r[a], Booked(q2, t2, s2, a), a \notin E)
  <2> DEFINE b == Booked(q, t, s, a)
  <2>1. Covers(r[a], b, a \notin D)
    BY DEF HoldsFor
  <2>2. Booked(q2, t2, s2, a) = b
    OBVIOUS
  <2> HIDE DEF b
  <2> QED BY <2>1, <2>2 DEF Covers
<1> QED BY <1>1 DEF HoldsFor

\* The books hold v more of w, or v less, and nothing else of the others.
HoldMore(q, t, s, q2, t2, s2, w, v) ==
    \A a \in Citizens : Booked(q2, t2, s2, a) =
                           IF a = w THEN Booked(q, t, s, a) + v ELSE Booked(q, t, s, a)

HoldLess(q, t, s, q2, t2, s2, w, v) ==
    \A a \in Citizens :
       /\ a = w => v <= Booked(q, t, s, a)
       /\ Booked(q2, t2, s2, a) = IF a = w THEN Booked(q, t, s, a) - v ELSE Booked(q, t, s, a)

\* The reserves r after v more for w, or after what is there of v is released.
Plus(r, w, v) == [r EXCEPT ![w] = @ + v]

Minus(r, w, v) == [r EXCEPT ![w] = @ - Least(v, r[w])]

\* More is held of w, and reserved for it.
LEMMA HeldGrows ==
    ASSUME NEW q, NEW t, NEW s, NEW r, NEW D, HoldsFor(q, t, s, r, D),
           NEW q2, NEW t2, NEW s2, Quests(q2), Tickets(t2), Stings(s2),
           NEW w, NEW v \in Nat, HoldMore(q, t, s, q2, t2, s2, w, v)
    PROVE  HoldsFor(q2, t2, s2, Plus(r, w, v), D)
<1> DEFINE r2 == Plus(r, w, v)
<1>0. r2 = [r EXCEPT ![w] = @ + v]
  BY DEF Plus
<1> HIDE DEF r2
<1>1. r \in [Accounts -> Nat]
  BY DEF HoldsFor
<1>2. /\ r2 \in [Accounts -> Nat]
      /\ \A a \in Accounts : r2[a] = IF a = w THEN r[a] + v ELSE r[a]
  <2>1. CASE w \in Accounts
    BY <1>0, <1>1, <2>1
  <2>2. CASE w \notin Accounts
    <3>1. r2 = r
      BY <1>0, <1>1, <2>2
    <3> QED BY <1>1, <2>2, <3>1
  <2> QED BY <2>1, <2>2
<1>3. ASSUME NEW a \in Citizens
      PROVE  Covers(r2[a], Booked(q2, t2, s2, a), a \notin D)
  <2> DEFINE b == Booked(q, t, s, a)
             c == Booked(q2, t2, s2, a)
             x == r[a]
             y == r2[a]
  <2>1. Covers(x, b, a \notin D)
    BY DEF HoldsFor
  <2>2. c = IF a = w THEN b + v ELSE b
    BY DEF HoldMore
  <2>3. y = IF a = w THEN x + v ELSE x
    BY <1>2, IdentityAssumption
  <2> HIDE DEF b, c, x, y
  <2>4. Covers(y, c, a \notin D)
    BY <2>1, <2>2, <2>3 DEF Covers
  <2> QED BY <2>4 DEF y, c
<1> QED BY <1>2, <1>3 DEF HoldsFor, r2

\* Less is held of w, and what is there of it is released.
LEMMA HeldShrinks ==
    ASSUME NEW q, NEW t, NEW s, NEW r, NEW D, HoldsFor(q, t, s, r, D),
           NEW q2, NEW t2, NEW s2, Quests(q2), Tickets(t2), Stings(s2),
           NEW w, NEW v \in Nat, HoldLess(q, t, s, q2, t2, s2, w, v)
    PROVE  HoldsFor(q2, t2, s2, Minus(r, w, v), D)
<1> DEFINE r2 == Minus(r, w, v)
<1>0. r2 = [r EXCEPT ![w] = @ - Least(v, r[w])]
  BY DEF Minus
<1> HIDE DEF r2
<1>1. r \in [Accounts -> Nat]
  BY DEF HoldsFor
<1>2. /\ r2 \in [Accounts -> Nat]
      /\ \A a \in Accounts : r2[a] = IF a = w THEN r[a] - Least(v, r[a]) ELSE r[a]
  <2>1. CASE w \in Accounts
    <3> DEFINE n == r[w] - Least(v, r[w])
    <3>1. n \in Nat
      BY <1>1, <2>1 DEF Least
    <3>2. r2 = [r EXCEPT ![w] = n]
      BY <1>0
    <3> HIDE DEF n
    <3>3. r2 \in [Accounts -> Nat] /\ \A a \in Accounts : r2[a] = IF a = w THEN n ELSE r[a]
      BY <1>1, <2>1, <3>1, <3>2
    <3> QED BY <3>3 DEF n
  <2>2. CASE w \notin Accounts
    <3>1. r2 = r
      BY <1>0, <1>1, <2>2
    <3> QED BY <1>1, <2>2, <3>1
  <2> QED BY <2>1, <2>2
<1>3. ASSUME NEW a \in Citizens
      PROVE  Covers(r2[a], Booked(q2, t2, s2, a), a \notin D)
  <2> DEFINE b == Booked(q, t, s, a)
             c == Booked(q2, t2, s2, a)
             x == r[a]
             y == r2[a]
             alive == a \notin D
  <2>1. Covers(x, b, alive)
    BY DEF HoldsFor
  <2>2. (a = w => v <= b) /\ c = IF a = w THEN b - v ELSE b
    BY DEF HoldLess
  <2>3. y = IF a = w THEN x - Least(v, x) ELSE x
    BY <1>2, IdentityAssumption
  <2>4. alive \in BOOLEAN
    OBVIOUS
  <2> HIDE DEF b, c, x, y, alive
  <2>5. ASSUME a = w
        PROVE  Covers(y, c, alive)
    <3>1. Covers(x - Least(v, x), b - v, alive)
      BY <2>1, <2>2, <2>4, <2>5, ClampCovers
    <3>2. y = x - Least(v, x) /\ c = b - v
      BY <2>2, <2>3, <2>5
    <3> QED BY <3>1, <3>2
  <2>6. ASSUME a # w
        PROVE  Covers(y, c, alive)
    <3>1. y = x /\ c = b
      BY <2>2, <2>3, <2>6
    <3> QED BY <2>1, <3>1
  <2> QED BY <2>5, <2>6 DEF y, c, alive
<1> QED BY <1>2, <1>3 DEF HoldsFor, r2

\* The whole reserve of w, who has died, is taken.
LEMMA HeldTaken ==
    ASSUME NEW q, NEW t, NEW s, NEW r, NEW D, HoldsFor(q, t, s, r, D),
           NEW q2, Quests(q2), NEW w, NEW r2 \in [Accounts -> Nat], NEW E,
           \A a \in Accounts : r2[a] = IF a = w THEN 0 ELSE r[a], D \subseteq E, w \in E,
           \A a \in Citizens \ {w} : Booked(q2, t, s, a) = Booked(q, t, s, a)
    PROVE  HoldsFor(q2, t, s, r2, E)
<1>1. ASSUME NEW a \in Citizens
      PROVE  Covers(r2[a], Booked(q2, t, s, a), a \notin E)
  <2> DEFINE b == Booked(q, t, s, a)
             c == Booked(q2, t, s, a)
             x == r[a]
             y == r2[a]
  <2>1. Covers(x, b, a \notin D)
    BY DEF HoldsFor
  <2>2. a # w => c = b
    OBVIOUS
  <2>3. y = IF a = w THEN 0 ELSE x
    BY IdentityAssumption
  <2>4. c \in Nat
    BY BookedIsNatural DEF HoldsFor
  <2> HIDE DEF b, c, x, y
  <2>5. Covers(y, c, a \notin E)
    BY <2>1, <2>2, <2>3, <2>4 DEF Covers
  <2> QED BY <2>5 DEF y, c
<1> QED BY <1>1 DEF HoldsFor
-----------------------------------------------------------------------------
(* Tickets and stings.                                                     *)

\* What every part keeps about what is held of the citizens.
HeldInv ==
    /\ GuildFields(guilds)
    /\ voice = [tickets |-> voice.tickets, stings |-> voice.stings]
    /\ HoldsFor(guilds.quests, voice.tickets, voice.stings, reserved, civil.deaths)

\* The parts of what is held of somebody.
LEMMA BookedParts ==
    ASSUME NEW q, Quests(q), NEW t, Tickets(t), NEW s, Stings(s), NEW c
    PROVE  /\ EscrowIn(q, c, Unsettled) \in Nat /\ Deposits(t, c) \in Nat /\ Stakes(s, c) \in Nat
           /\ Booked(q, t, s, c) \in Nat
<1>1. EscrowIn(q, c, Unsettled) \in Nat
  BY EscrowInNatural
<1>2. Deposits(t, c) \in Nat /\ Stakes(s, c) \in Nat
  BY HeldAreNatural
<1> QED BY <1>1, <1>2 DEF Booked

\* The storage of the next state, where the other pallets rest.
LEMMA VoiceBecomes ==
    ASSUME HeldInv, NEW t, NEW s, voice' = [tickets |-> t, stings |-> s],
           UNCHANGED <<guilds, civil>>, HoldsFor(guilds.quests, t, s, reserved', civil.deaths)
    PROVE  HeldInv'
<1>1. voice'.tickets = t /\ voice'.stings = s
  OBVIOUS
<1> QED BY <1>1 DEF HeldInv

\* A new ticket and its deposit.
LEMMA TicketStep ==
    ASSUME HeldInv, NEW c \in Citizens, NEW target \in Targets, submit_ticket(c, target)
    PROVE  HeldInv'
<1> DEFINE q  == guilds.quests
           D  == civil.deaths
           t  == voice.tickets
           s  == voice.stings
           id == FreshId(t)
           v  == Ticket(c, target)
           u  == Put(t, id, v)
<1>1. /\ voice' = [voice EXCEPT !.tickets = u]
      /\ reserved' = [reserved EXCEPT ![c] = @ + TicketDeposit]
      /\ UNCHANGED <<guilds, civil>>
  BY DEF submit_ticket, reserve, civicVars
<1>2. voice = [tickets |-> t, stings |-> s] /\ HoldsFor(q, t, s, reserved, D)
  BY DEF HeldInv
<1>3. v \in TicketRecord /\ v.author = c /\ v.status = "Open"
  BY DEF Ticket, TicketRecord, TicketStatus
<1> HIDE DEF v
<1>4. PICK n \in Nat : t \in Numbered(n, TicketRecord)
  BY <1>2 DEF HoldsFor, Tickets
<1> HIDE DEF t, s
<1>5. id = n /\ OneMore(t, u, n, v) /\ n + 1 \in Nat /\ u \in Numbered(n + 1, TicketRecord)
  BY <1>3, <1>4, FreshRecord
<1> HIDE DEF u, id
<1>6. Quests(q) /\ Tickets(t) /\ Tickets(u) /\ Stings(s)
  BY <1>2, <1>5 DEF Tickets, HoldsFor
<1>7. /\ n \notin TicketsOf(t, c) /\ TicketsOf(u, c) = TicketsOf(t, c) \cup {n}
      /\ \A a \in Citizens \ {c} : TicketsOf(u, a) = TicketsOf(t, a)
  BY <1>3, <1>5 DEF OneMore, TicketsOf, Unresolved
<1>8. Deposits(u, c) = Deposits(t, c) + TicketDeposit
  BY <1>6, <1>7, TicketJoins
<1>9. \A a \in Citizens \ {c} : Deposits(u, a) = Deposits(t, a)
  BY <1>7, SameHeld
<1> HIDE DEF q, D
<1>10. HoldMore(q, t, s, q, u, s, c, TicketDeposit)
  <2> SUFFICES ASSUME NEW a \in Citizens
               PROVE  Booked(q, u, s, a) = IF a = c THEN Booked(q, t, s, a) + TicketDeposit
                                           ELSE Booked(q, t, s, a)
    BY DEF HoldMore
  <2>1. EscrowIn(q, a, Unsettled) \in Nat /\ Deposits(t, a) \in Nat /\ Stakes(s, a) \in Nat
        /\ TicketDeposit \in Nat
    BY <1>6, BookedParts, VoiceAssumption
  <2> QED BY <1>8, <1>9, <2>1 DEF Booked
<1>11. HoldsFor(q, u, s, reserved', D)
  <2>1. reserved' = Plus(reserved, c, TicketDeposit) /\ TicketDeposit \in Nat
    BY <1>1, VoiceAssumption DEF Plus
  <2> QED BY <1>2, <1>6, <1>10, <2>1, HeldGrows
<1>12. voice' = [tickets |-> u, stings |-> s]
  BY <1>1, <1>2
<1> QED BY <1>1, <1>11, <1>12, VoiceBecomes DEF q, D

\* The deposit of a resolved ticket is returned or burned, once.
LEMMA ResolveStep ==
    ASSUME HeldInv, NEW caller, NEW i, NEW helpful \in BOOLEAN, resolve_ticket(caller, i, helpful)
    PROVE  HeldInv'
<1> DEFINE q  == guilds.quests
           D  == civil.deaths
           t  == voice.tickets
           s  == voice.stings
           c  == t[i].author
           st == StatusAfter(i, helpful)
           u  == Restatus(t, i, st)
<1>1. /\ i \in DOMAIN t /\ t[i].status \in Unresolved
      /\ voice' = [voice EXCEPT !.tickets = u]
      /\ reserved' = [reserved EXCEPT ![c] = @ - Releasable(c, TicketDeposit)]
      /\ UNCHANGED <<guilds, civil>>
  BY DEF resolve_ticket, unreserve, slash_reserved, civicVars, TicketIs, Unresolved, Restatus
<1>2. voice = [tickets |-> t, stings |-> s] /\ HoldsFor(q, t, s, reserved, D)
  BY DEF HeldInv
<1>3. st \in TicketStatus /\ st \notin Unresolved
  BY DEF StatusAfter, TicketStatus, Unresolved
<1>4. Quests(q) /\ Tickets(t) /\ Stings(s)
  BY <1>2 DEF HoldsFor
<1> HIDE DEF t, s, st
<1>5. /\ Tickets(u) /\ c \in Citizens
      /\ i \notin TicketsOf(u, c) /\ TicketsOf(t, c) = TicketsOf(u, c) \cup {i}
      /\ \A a : a # c => TicketsOf(u, a) = TicketsOf(t, a)
  BY <1>1, <1>3, <1>4, TicketRestated
<1> HIDE DEF u, c
<1>6. Deposits(t, c) = Deposits(u, c) + TicketDeposit
  BY <1>5, TicketJoins
<1>7. \A a \in Citizens \ {c} : Deposits(u, a) = Deposits(t, a)
  BY <1>5, SameHeld
<1> HIDE DEF q, D
<1>8. HoldLess(q, t, s, q, u, s, c, TicketDeposit)
  <2> SUFFICES ASSUME NEW a \in Citizens
               PROVE  /\ a = c => TicketDeposit <= Booked(q, t, s, a)
                      /\ Booked(q, u, s, a) =
                            IF a = c THEN Booked(q, t, s, a) - TicketDeposit
                            ELSE Booked(q, t, s, a)
    BY DEF HoldLess
  <2>1. EscrowIn(q, a, Unsettled) \in Nat /\ Deposits(u, a) \in Nat /\ Stakes(s, a) \in Nat
        /\ TicketDeposit \in Nat
    BY <1>4, <1>5, BookedParts, VoiceAssumption
  <2> QED BY <1>6, <1>7, <2>1 DEF Booked
<1>9. reserved' = Minus(reserved, c, TicketDeposit) /\ TicketDeposit \in Nat
  BY <1>1, VoiceAssumption DEF Releasable, Least, Minus
<1>10. HoldsFor(q, u, s, reserved', D)
  BY <1>2, <1>4, <1>5, <1>8, <1>9, HeldShrinks
<1>11. voice' = [tickets |-> u, stings |-> s]
  BY <1>1, <1>2
<1> QED BY <1>1, <1>10, <1>11, VoiceBecomes DEF q, D

\* A ticket that is reviewed or escalated keeps its deposit.
LEMMA ReviewStep ==
    ASSUME HeldInv, NEW i, NEW st \in {"InReview", "Escalated"}, TicketIs(i, {"Open", "InReview"}),
           voice' = [voice EXCEPT !.tickets[i].status = st], UNCHANGED <<reserved, guilds, civil>>
    PROVE  HeldInv'
<1> DEFINE q  == guilds.quests
           D  == civil.deaths
           t  == voice.tickets
           s  == voice.stings
           u  == Restatus(t, i, st)
<1>1. /\ i \in DOMAIN t /\ t[i].status \in Unresolved
      /\ voice' = [voice EXCEPT !.tickets = u]
  BY DEF TicketIs, Unresolved, Restatus
<1>2. voice = [tickets |-> t, stings |-> s] /\ HoldsFor(q, t, s, reserved, D)
  BY DEF HeldInv
<1>3. st \in TicketStatus /\ st \in Unresolved
  BY DEF TicketStatus, Unresolved
<1>4. Quests(q) /\ Tickets(t) /\ Stings(s)
  BY <1>2 DEF HoldsFor
<1> HIDE DEF t, s
<1>5. Tickets(u) /\ \A a : TicketsOf(u, a) = TicketsOf(t, a)
  BY <1>1, <1>3, <1>4, TicketRestated
<1> HIDE DEF u, q, D
<1>6. \A a \in Citizens : Booked(q, u, s, a) = Booked(q, t, s, a)
  BY <1>5, SameHeld DEF Booked
<1>7. HoldsFor(q, u, s, reserved, D)
  BY <1>2, <1>4, <1>5, <1>6, HeldSame
<1>8. voice' = [tickets |-> u, stings |-> s]
  BY <1>1, <1>2
<1> QED BY <1>7, <1>8, VoiceBecomes DEF q, D

\* A new sting and its stake.
LEMMA RequestStep ==
    ASSUME HeldInv, NEW c \in Citizens, NEW target \in Citizens, NEW v \in StingAmounts,
           request_sting_operation(c, target, v)
    PROVE  HeldInv'
<1> DEFINE q  == guilds.quests
           D  == civil.deaths
           t  == voice.tickets
           s  == voice.stings
           id == FreshId(s)
           op == StingOperation(c, target, v)
           u  == Put(s, id, op)
<1>1. /\ voice' = [voice EXCEPT !.stings = u]
      /\ reserved' = [reserved EXCEPT ![c] = @ + v]
      /\ UNCHANGED <<guilds, civil>>
  BY DEF request_sting_operation, reserve, civicVars
<1>2. voice = [tickets |-> t, stings |-> s] /\ HoldsFor(q, t, s, reserved, D)
  BY DEF HeldInv
<1>3. op \in StingRecord /\ op.citizen = c /\ op.status = "Pending" /\ op.amount = v
  BY DEF StingOperation, StingRecord, StingStatus
<1> HIDE DEF op
<1>4. PICK n \in Nat : s \in Numbered(n, StingRecord)
  BY <1>2 DEF HoldsFor, Stings
<1> HIDE DEF t, s
<1>5. id = n /\ OneMore(s, u, n, op) /\ n + 1 \in Nat /\ u \in Numbered(n + 1, StingRecord)
  BY <1>3, <1>4, FreshRecord
<1> HIDE DEF u, id
<1>6. Quests(q) /\ Tickets(t) /\ Stings(s) /\ Stings(u)
  BY <1>2, <1>5 DEF Stings, HoldsFor
<1>7. /\ n \notin StingsOf(s, c) /\ StingsOf(u, c) = StingsOf(s, c) \cup {n} /\ n \in DOMAIN u
      /\ \A a \in Citizens \ {c} : StingsOf(u, a) = StingsOf(s, a)
      /\ \A a : \A j \in StingsOf(s, a) : j \in DOMAIN u /\ u[j].amount = s[j].amount
      /\ u[n].amount = v
  BY <1>3, <1>5 DEF OneMore, StingsOf
<1>8. Stakes(u, c) = Stakes(s, c) + v
  BY <1>6, <1>7, StingJoins
<1>9. \A a \in Citizens \ {c} : Stakes(u, a) = Stakes(s, a)
  BY <1>6, <1>7, SameHeld
<1>10. v \in Nat
  BY VoiceAssumption
<1> HIDE DEF q, D
<1>11. HoldMore(q, t, s, q, t, u, c, v)
  <2> SUFFICES ASSUME NEW a \in Citizens
               PROVE  Booked(q, t, u, a) = IF a = c THEN Booked(q, t, s, a) + v
                                           ELSE Booked(q, t, s, a)
    BY DEF HoldMore
  <2>1. EscrowIn(q, a, Unsettled) \in Nat /\ Deposits(t, a) \in Nat /\ Stakes(s, a) \in Nat
    BY <1>6, BookedParts
  <2> QED BY <1>8, <1>9, <1>10, <2>1 DEF Booked
<1>12. HoldsFor(q, t, u, reserved', D)
  <2>1. reserved' = Plus(reserved, c, v)
    BY <1>1 DEF Plus
  <2> QED BY <1>2, <1>6, <1>10, <1>11, <2>1, HeldGrows
<1>13. voice' = [tickets |-> t, stings |-> u]
  BY <1>1, <1>2
<1> QED BY <1>1, <1>12, <1>13, VoiceBecomes DEF q, D

\* An approval moves nothing.
LEMMA ApproveStep ==
    ASSUME HeldInv, NEW i \in DOMAIN voice.stings, approve_sting(i)
    PROVE  HeldInv'
<1> DEFINE q  == guilds.quests
           D  == civil.deaths
           t  == voice.tickets
           s  == voice.stings
           u  == Restatus(s, i, "Approved")
<1>1. /\ i \in DOMAIN s /\ s[i].status # "Sprung"
      /\ voice' = [voice EXCEPT !.stings = u]
      /\ UNCHANGED <<reserved, guilds, civil>>
  BY DEF approve_sting, ledger, civicVars, Restatus
<1>2. voice = [tickets |-> t, stings |-> s] /\ HoldsFor(q, t, s, reserved, D)
  BY DEF HeldInv
<1>3. Quests(q) /\ Tickets(t) /\ Stings(s) /\ "Approved" \in StingStatus
  BY <1>2 DEF HoldsFor, StingStatus
<1> HIDE DEF t, s
<1>4. /\ Stings(u) /\ DOMAIN u = DOMAIN s
      /\ \A j \in DOMAIN s : u[j].amount = s[j].amount
      /\ \A a : StingsOf(u, a) = StingsOf(s, a)
  BY <1>1, <1>3, StingRestated
<1> HIDE DEF u
<1>5. \A a : Stakes(u, a) = Stakes(s, a)
  <2>1. \A a : \A j \in StingsOf(s, a) : j \in DOMAIN u /\ u[j].amount = s[j].amount
    BY <1>4 DEF StingsOf
  <2> QED BY <1>3, <1>4, <2>1, SameHeld
<1> HIDE DEF q, D
<1>6. HoldsFor(q, t, u, reserved, D)
  <2>1. \A a \in Citizens : Booked(q, t, u, a) = Booked(q, t, s, a)
    BY <1>5 DEF Booked
  <2> QED BY <1>2, <1>3, <1>4, <2>1, HeldSame
<1>7. voice' = [tickets |-> t, stings |-> u]
  BY <1>1, <1>2
<1> QED BY <1>1, <1>6, <1>7, VoiceBecomes DEF q, D
-----------------------------------------------------------------------------
(* Balances that a call computes with, and what is taken of a reserve.     *)

BalanceShape(e) == e = [free |-> e.free, reserved |-> e.reserved, issuance |-> e.issuance]

\* The reserves f after v less at who.
Less(f, who, v) == [f EXCEPT ![who] = @ - v]

\* A release of v.
LEMMA ReleasedBalances ==
    ASSUME NEW e, BalanceShape(e), NEW who, NEW v
    PROVE  /\ BalanceShape(Unreserved(e, who, v))
           /\ Unreserved(e, who, v).reserved = Less(e.reserved, who, v)
<1> DEFINE f == [e.free EXCEPT ![who] = @ + v]
           r == Less(e.reserved, who, v)
           t == [e EXCEPT !.free = f]
           u == Unreserved(e, who, v)
<1>1. e = [free |-> e.free, reserved |-> e.reserved, issuance |-> e.issuance]
  BY DEF BalanceShape
<1>2. u = [e EXCEPT !.free = f, !.reserved = r]
  BY DEF Unreserved, Less
<1> HIDE DEF f, r, u
<1>3. t = [free |-> f, reserved |-> e.reserved, issuance |-> e.issuance]
  BY <1>1
<1>4. u = [t EXCEPT !.reserved = r]
  BY <1>1, <1>2, <1>3
<1> HIDE DEF t
<1>5. u = [free |-> f, reserved |-> r, issuance |-> e.issuance]
  BY <1>3, <1>4
<1>6. BalanceShape(u) /\ u.reserved = r
  BY <1>5 DEF BalanceShape
<1> QED BY <1>6 DEF u, r

\* A gift leaves the reserves alone.
LEMMA GiftsAreFree ==
    ASSUME NEW e, BalanceShape(e), NEW src, NEW dst, NEW v
    PROVE  BalanceShape(Given(e, src, dst, v)) /\ Given(e, src, dst, v).reserved = e.reserved
<1> DEFINE g == Given(e, src, dst, v)
<1>1. e = [free |-> e.free, reserved |-> e.reserved, issuance |-> e.issuance]
  BY DEF BalanceShape
<1>2. g = e \/ \E x, y : g = [e EXCEPT !.free = x, !.issuance = y]
  BY DEF Given
<1>3. CASE g = e
  BY <1>3
<1>4. ASSUME NEW x, NEW y, g = [e EXCEPT !.free = x, !.issuance = y]
      PROVE  BalanceShape(g) /\ g.reserved = e.reserved
  <2> HIDE DEF g
  <2> DEFINE u == [e EXCEPT !.free = x]
  <2>1. u = [free |-> x, reserved |-> e.reserved, issuance |-> e.issuance]
    BY <1>1
  <2>2. g = [u EXCEPT !.issuance = y]
    BY <1>1, <1>4, <2>1
  <2> HIDE DEF u
  <2>3. g = [free |-> x, reserved |-> e.reserved, issuance |-> y]
    BY <2>1, <2>2
  <2> QED BY <2>3 DEF BalanceShape
<1> QED BY <1>2, <1>3, <1>4

\* Penalties and rewards are paid from free balances.
LEMMA PenaltiesAreFree ==
    ASSUME NEW e, BalanceShape(e), NEW who, NEW w, NEW v
    PROVE  BalanceShape(Collected(e, who, w, v)) /\ Collected(e, who, w, v).reserved = e.reserved
<1> DEFINE p == Given(e, who, StateTreasury, v)
<1>1. BalanceShape(p) /\ p.reserved = e.reserved
  BY GiftsAreFree
<1>2. Collected(e, who, w, v) = p \/ \E f : Collected(e, who, w, v) = [p EXCEPT !.free = f]
  BY DEF Collected
<1> HIDE DEF p
<1>3. ASSUME NEW f
      PROVE  /\ BalanceShape([p EXCEPT !.free = f])
             /\ [p EXCEPT !.free = f].reserved = p.reserved
  <2> DEFINE t == [p EXCEPT !.free = f]
  <2>1. t = [free |-> f, reserved |-> p.reserved, issuance |-> p.issuance]
    BY <1>1 DEF BalanceShape
  <2> HIDE DEF t
  <2>2. BalanceShape(t) /\ t.reserved = p.reserved
    BY <2>1 DEF BalanceShape
  <2> QED BY <2>2 DEF t
<1> QED BY <1>1, <1>2, <1>3


\* A release of as much of v as is reserved.
LEMMA ReleaseClamps ==
    ASSUME NEW e, BalanceShape(e), e.reserved \in [Accounts -> Nat], NEW who, NEW v \in Nat
    PROVE  /\ BalanceShape(Released(e, who, v))
           /\ Released(e, who, v).reserved = Minus(e.reserved, who, v)
<1> DEFINE r == e.reserved
           w == IF v < r[who] THEN v ELSE r[who]
<1>1. Released(e, who, v) = Unreserved(e, who, w)
  BY DEF Released
<1>2. Less(r, who, w) = Minus(r, who, v)
  <2>1. CASE who \in Accounts
    <3>1. w = Least(v, r[who])
      BY <2>1 DEF Least
    <3> HIDE DEF w
    <3> QED BY <3>1 DEF Less, Minus
  <2>2. CASE who \notin Accounts
    <3>1. Less(r, who, w) = r
      BY <2>2 DEF Less
    <3>2. Minus(r, who, v) = r
      BY <2>2 DEF Minus
    <3> QED BY <3>1, <3>2
  <2> QED BY <2>1, <2>2
<1> HIDE DEF w
<1>3. /\ BalanceShape(Unreserved(e, who, w))
      /\ Unreserved(e, who, w).reserved = Less(r, who, w)
  BY ReleasedBalances
<1> QED BY <1>1, <1>2, <1>3

\* Gifts to any number of heirs leave the reserves alone.
LEMMA EstatesAreFree ==
    ASSUME NEW e, BalanceShape(e), NEW who, NEW n \in Nat, NEW heirs, DOMAIN heirs = 1 .. n,
           NEW total
    PROVE  Distributed(e, who, heirs, total).reserved = e.reserved
<1> DEFINE Z(f) == BalanceShape(f) /\ f.reserved = e.reserved
<1>1. PICK after : /\ InTurn(e, who, heirs, total, n, after)
                   /\ Distributed(e, who, heirs, total) = after[n]
  BY GiftsInTurn
<1> DEFINE T == {k \in 0 .. n : ~Z(after[k])}
<1>2. T = {}
  <2>1. SUFFICES ASSUME T # {} PROVE FALSE
    OBVIOUS
  <2>2. T \subseteq Nat
    OBVIOUS
  <2>3. PICK m \in T : \A k \in T : m <= k
    <3> HIDE DEF T
    <3> QED BY <2>1, <2>2, LeastNatural
  <2>4. m # 0
    BY <1>1, <2>3 DEF InTurn
  <2>5. m \in 1 .. n /\ m - 1 \in 0 .. n /\ m - 1 \notin T
    BY <2>3, <2>4
  <2> DEFINE f == after[m - 1]
  <2>6. Z(f)
    BY <2>5
  <2>7. \E dst, v : after[m] = Given(f, who, dst, v)
    BY <1>1, <2>5 DEF InTurn
  <2> HIDE DEF f
  <2>8. Z(after[m])
    BY <2>6, <2>7, GiftsAreFree
  <2> QED BY <2>3, <2>8
<1>3. n \in 0 .. n
  OBVIOUS
<1> QED BY <1>1, <1>2, <1>3

\* The burned part of an estate.
LEMMA BurnedBalances ==
    ASSUME NEW e, BalanceShape(e), NEW who, NEW v
    PROVE  /\ BalanceShape(Burned(e, who, v))
           /\ Burned(e, who, v).reserved = Less(e.reserved, who, v)
<1> DEFINE r == Less(e.reserved, who, v)
           t == [e EXCEPT !.reserved = r]
           i == e.issuance - v
           u == Burned(e, who, v)
<1>1. e = [free |-> e.free, reserved |-> e.reserved, issuance |-> e.issuance]
  BY DEF BalanceShape
<1>2. u = [e EXCEPT !.reserved = r, !.issuance = i]
  BY DEF Burned, Less
<1> HIDE DEF i, r, u
<1>3. t = [free |-> e.free, reserved |-> r, issuance |-> e.issuance]
  BY <1>1
<1>4. u = [t EXCEPT !.issuance = i]
  BY <1>1, <1>2, <1>3
<1> HIDE DEF t
<1>5. u = [free |-> e.free, reserved |-> r, issuance |-> i]
  BY <1>3, <1>4
<1>6. BalanceShape(u) /\ u.reserved = r
  BY <1>5 DEF BalanceShape
<1> QED BY <1>6 DEF u, r

\* The reserves r2 are r after the whole reserve of who has been taken.
TakenWhole(r, r2, who) ==
    r2 \in [Accounts -> Nat] /\ \A a \in Accounts : r2[a] = IF a = who THEN 0 ELSE r[a]

\* The reserve taken in two parts.
LEMMA TakenInParts ==
    ASSUME NEW r \in [Accounts -> Nat], NEW who, NEW v, NEW w,
           who \in Accounts => v \in Nat /\ w = r[who] - v
    PROVE  TakenWhole(r, Less(Less(r, who, v), who, w), who)
<1>1. CASE who \notin Accounts
  <2>1. Less(r, who, v) = r
    BY <1>1 DEF Less
  <2>2. Less(r, who, w) = r
    BY <1>1 DEF Less
  <2> QED BY <1>1, <2>1, <2>2 DEF TakenWhole
<1>2. CASE who \in Accounts
  <2> DEFINE x == r[who] - v
             s == Less(r, who, v)
             t == Less(s, who, w)
  <2>1. x \in Int /\ w \in Int /\ x - w = 0
    BY <1>2
  <2>2. s = [r EXCEPT ![who] = x]
    BY DEF Less
  <2> HIDE DEF x, s
  <2>3. s[who] = x /\ DOMAIN s = Accounts /\ \A a \in Accounts : a # who => s[a] = r[a]
    BY <1>2, <2>2
  <2>4. s = [a \in Accounts |-> s[a]]
    BY <2>2
  <2>5. t = [s EXCEPT ![who] = 0]
    BY <2>1, <2>3 DEF Less
  <2>6. t = [a \in Accounts |-> IF a = who THEN 0 ELSE r[a]]
    BY <1>2, <2>3, <2>4, <2>5
  <2> HIDE DEF t
  <2>7. TakenWhole(r, t, who)
    BY <2>6 DEF TakenWhole
  <2> QED BY <2>7 DEF s, t
<1> QED BY <1>1, <1>2

\* What do_execute_will takes of the reserve is all of it.
LEMMA SettledReserve ==
    ASSUME WillsOK, NEW e, BalanceShape(e), e.reserved \in [Accounts -> Nat], NEW who
    PROVE  TakenWhole(e.reserved, Settled(e, who).reserved, who)
<1> DEFINE r == e.reserved
           held == r[who]
           burn == DebtToBurn(e, who)
           net == held - burn
           b == Burned(e, who, burn)
           u == Unreserved(b, who, net)
           o == Unreserved(e, who, held)
<1>1. ASSUME ~IsNotarized(who)
      PROVE  TakenWhole(r, Settled(e, who).reserved, who)
  <2>1. Settled(e, who) = Given(o, who, StateTreasury, held)
    BY <1>1 DEF Settled
  <2>2. BalanceShape(o) /\ o.reserved = Less(r, who, held)
    BY ReleasedBalances
  <2> HIDE DEF o, held
  <2>3. Settled(e, who).reserved = Less(r, who, held)
    BY <2>1, <2>2, GiftsAreFree
  <2>4. TakenWhole(r, Less(r, who, held), who)
    <3>1. CASE who \in Accounts
      <4>1. held - held = 0
        BY <3>1 DEF held
      <4>2. Less(r, who, held) = [r EXCEPT ![who] = 0]
        BY <4>1 DEF Less, held
      <4> QED BY <4>2, <3>1 DEF TakenWhole
    <3>2. CASE who \notin Accounts
      <4>1. Less(r, who, held) = r
        BY <3>2 DEF Less
      <4> QED BY <3>2, <4>1 DEF TakenWhole
    <3> QED BY <3>1, <3>2
  <2> QED BY <2>3, <2>4
<1>2. ASSUME IsNotarized(who)
      PROVE  TakenWhole(r, Settled(e, who).reserved, who)
  <2> DEFINE h == wills[who].heirs
  <2>1. Settled(e, who) = Distributed(u, who, h, net)
    BY <1>2 DEF Settled
  <2>2. PICK n \in Nat : DOMAIN h = 1 .. n
    BY <1>2 DEF IsNotarized, WillsOK, HeirsOf
  <2>3. who \in Accounts => burn \in Nat /\ net = r[who] - burn
    BY InheritanceAssumption DEF DebtToBurn
  <2> HIDE DEF net, burn, h
  <2>4. BalanceShape(b) /\ b.reserved = Less(r, who, burn)
    BY BurnedBalances
  <2> HIDE DEF b
  <2>5. BalanceShape(u) /\ u.reserved = Less(b.reserved, who, net)
    BY <2>4, ReleasedBalances
  <2> HIDE DEF u
  <2>6. Settled(e, who).reserved = u.reserved
    BY <2>1, <2>2, <2>5, EstatesAreFree
  <2>7. TakenWhole(r, Less(Less(r, who, burn), who, net), who)
    BY <2>3, TakenInParts
  <2> QED BY <2>4, <2>5, <2>6, <2>7
<1> QED BY <1>1, <1>2
-----------------------------------------------------------------------------
(* What every step does to what is held.                                   *)

\* More in escrow is more held.
LEMMA MoreInEscrow ==
    ASSUME NEW q, Quests(q), NEW t, Tickets(t), NEW s, Stings(s), NEW u, NEW who, NEW v \in Nat,
           EscrowGrows(q, u, who, v)
    PROVE  HoldMore(q, t, s, u, t, s, who, v)
<1> SUFFICES ASSUME NEW a \in Citizens
             PROVE  Booked(u, t, s, a) = IF a = who THEN Booked(q, t, s, a) + v
                                         ELSE Booked(q, t, s, a)
  BY DEF HoldMore
<1>1. EscrowIn(q, a, Unsettled) \in Nat /\ Deposits(t, a) \in Nat /\ Stakes(s, a) \in Nat
  BY BookedParts
<1>2. EscrowIn(u, a, Unsettled) = IF a = who THEN EscrowIn(q, a, Unsettled) + v
                                  ELSE EscrowIn(q, a, Unsettled)
  BY DEF EscrowGrows
<1> QED BY <1>1, <1>2 DEF Booked

\* Less in escrow is less held.
LEMMA LessInEscrow ==
    ASSUME NEW q, Quests(q), NEW t, Tickets(t), NEW s, Stings(s), NEW u, NEW who, NEW v \in Nat,
           EscrowShrinks(q, u, who, v)
    PROVE  HoldLess(q, t, s, u, t, s, who, v)
<1> SUFFICES ASSUME NEW a \in Citizens
             PROVE  /\ a = who => v <= Booked(q, t, s, a)
                    /\ Booked(u, t, s, a) = IF a = who THEN Booked(q, t, s, a) - v
                                            ELSE Booked(q, t, s, a)
  BY DEF HoldLess
<1>1. EscrowIn(q, a, Unsettled) \in Nat /\ Deposits(t, a) \in Nat /\ Stakes(s, a) \in Nat
  BY BookedParts
<1>2. /\ a = who => v <= EscrowIn(q, a, Unsettled)
      /\ EscrowIn(u, a, Unsettled) = IF a = who THEN EscrowIn(q, a, Unsettled) - v
                                     ELSE EscrowIn(q, a, Unsettled)
  BY DEF EscrowShrinks
<1> QED BY <1>1, <1>2 DEF Booked

\* The calls about quests.
LEMMA QuestsHeld ==
    ASSUME HeldInv, QuestCall, UNCHANGED <<civil, voice>>
    PROVE  HeldInv'
<1> DEFINE q == guilds.quests
           u == guilds'.quests
           t == voice.tickets
           s == voice.stings
           D == civil.deaths
<1>1. GuildFields(guilds') /\ QuestOutcome
  BY QuestCalls DEF HeldInv
<1>2. HoldsFor(q, t, s, reserved, D) /\ Quests(u)
  BY <1>1 DEF HeldInv, GuildFields
<1>3. Quests(q) /\ Tickets(t) /\ Stings(s)
  BY <1>2 DEF HoldsFor
<1>4. SUFFICES HoldsFor(u, t, s, reserved', D)
  BY <1>1 DEF HeldInv
<1>5. ASSUME EscrowStays(q, u), UNCHANGED ledger
      PROVE  HoldsFor(u, t, s, reserved', D)
  <2>1. \A a \in Citizens : Booked(u, t, s, a) = Booked(q, t, s, a)
    BY <1>5 DEF Booked, EscrowStays
  <2>2. reserved' = reserved
    BY <1>5 DEF ledger
  <2> HIDE DEF q, u, t, s, D
  <2> QED BY <1>2, <1>3, <2>1, <2>2, HeldSame
<1>6. ASSUME NEW who, NEW v \in Nat, EscrowGrows(q, u, who, v), reserve(who, v)
      PROVE  HoldsFor(u, t, s, reserved', D)
  <2>1. reserved' = Plus(reserved, who, v)
    BY <1>6 DEF reserve, Plus
  <2> HIDE DEF q, u, t, s, D
  <2>2. HoldMore(q, t, s, u, t, s, who, v)
    BY <1>3, <1>6, MoreInEscrow
  <2> QED BY <1>2, <1>3, <2>1, <2>2, HeldGrows
<1>7. ASSUME NEW who, NEW v \in Nat, EscrowShrinks(q, u, who, v),
             reserved' = [reserved EXCEPT ![who] = @ - Releasable(who, v)]
      PROVE  HoldsFor(u, t, s, reserved', D)
  <2>1. reserved' = Minus(reserved, who, v)
    BY <1>7 DEF Releasable, Minus, Least
  <2> HIDE DEF q, u, t, s, D
  <2>2. HoldLess(q, t, s, u, t, s, who, v)
    BY <1>3, <1>7, LessInEscrow
  <2> QED BY <1>2, <1>3, <2>1, <2>2, HeldShrinks
<1> QED BY <1>1, <1>5, <1>6, <1>7 DEF QuestOutcome

\* The clean-up gives back the escrow of the quests it cancels.
LEMMA EscrowHeld ==
    ASSUME HeldInv, NEW e, BalanceShape(e), e.reserved = reserved, NEW c,
           guilds' = GuildsAfterCleanup(c)
    PROVE  /\ GuildFields(guilds') /\ BalanceShape(EscrowReturned(e, c))
           /\ HoldsFor(guilds'.quests, voice.tickets, voice.stings,
                       EscrowReturned(e, c).reserved, civil.deaths)
<1> DEFINE q == guilds.quests
           u == guilds'.quests
           t == voice.tickets
           s == voice.stings
           D == civil.deaths
           v == Escrow(c, {"Open", "InProgress"})
           b == EscrowReturned(e, c)
<1>1. GuildFields(guilds') /\ v \in Nat /\ EscrowShrinks(q, u, c, v)
  BY FieldsAfterCleanup DEF HeldInv
<1>2. HoldsFor(q, t, s, reserved, D) /\ Quests(u)
  BY <1>1 DEF HeldInv, GuildFields
<1>3. Quests(q) /\ Tickets(t) /\ Stings(s) /\ reserved \in [Accounts -> Nat]
  BY <1>2 DEF HoldsFor
<1>4. b = Released(e, c, v)
  BY DEF EscrowReturned
<1> HIDE DEF q, u, t, s, D, v, b
<1>5. BalanceShape(b) /\ b.reserved = Minus(reserved, c, v)
  BY <1>1, <1>3, <1>4, ReleaseClamps
<1>6. HoldLess(q, t, s, u, t, s, c, v)
  BY <1>1, <1>3, LessInEscrow
<1>7. HoldsFor(u, t, s, b.reserved, D)
  BY <1>1, <1>2, <1>3, <1>5, <1>6, HeldShrinks
<1> QED BY <1>1, <1>5, <1>7 DEF q, u, t, s, D, b

\* An exile, whatever balances it starts from.
LEMMA ExileHeld ==
    ASSUME HeldInv, NEW e, BalanceShape(e), e.reserved = reserved, NEW c, ExileWithHook(e, c),
           UNCHANGED <<civil, voice>>
    PROVE  HeldInv'
<1>1. guilds' = GuildsAfterCleanup(c) /\ reserved' = EscrowReturned(e, c).reserved
  BY DEF ExileWithHook, CleanUp, HasBalances
<1> QED BY <1>1, EscrowHeld DEF HeldInv

\* The reserve of one of the dead is taken for the estate.
LEMMA EstateHeld ==
    ASSUME HeldInv, WillsOK, NEW e, BalanceShape(e), GuildFields(guilds'), UNCHANGED voice,
           HoldsFor(guilds'.quests, voice.tickets, voice.stings, e.reserved, civil.deaths),
           NEW c, do_execute_will(e, c), civil.deaths \subseteq civil'.deaths, c \in civil'.deaths
    PROVE  HeldInv'
<1> DEFINE u == guilds'.quests
           t == voice.tickets
           s == voice.stings
           r == e.reserved
           r2 == Settled(e, c).reserved
           D == civil.deaths
           E == civil'.deaths
<1>1. reserved' = r2
  BY DEF do_execute_will, HasBalances
<1>2. HoldsFor(u, t, s, r, D) /\ r \in [Accounts -> Nat] /\ Quests(u)
  BY DEF HoldsFor
<1>3. TakenWhole(r, r2, c)
  BY <1>2, SettledReserve
<1> HIDE DEF u, t, s, r, r2, D, E
<1>4. r2 \in [Accounts -> Nat] /\ \A a \in Accounts : r2[a] = IF a = c THEN 0 ELSE r[a]
  BY <1>3 DEF TakenWhole
<1>5. D \subseteq E /\ c \in E
  BY DEF D, E
<1>6. HoldsFor(u, t, s, r2, E)
  BY <1>2, <1>4, <1>5, HeldTaken
<1> QED BY <1>1, <1>6 DEF HeldInv, u, t, s, E

\* A death.
LEMMA DeathHeld ==
    ASSUME HeldInv, WillsOK, CivilInv, NEW c, DeathWithHook(c), UNCHANGED voice
    PROVE  HeldInv'
<1> DEFINE e == CurrentBalances
           b == EscrowReturned(e, c)
<1>1. BalanceShape(e) /\ e.reserved = reserved
  BY DEF CurrentBalances, BalanceShape
<1>2. /\ guilds' = GuildsAfterCleanup(c) /\ do_execute_will(b, c)
      /\ register_death(c)
  BY DEF DeathWithHook, CleanUp
<1>3. civil'.deaths = civil.deaths \cup {c}
  BY <1>2, DeathIsBooked
<1> HIDE DEF e
<1>4. /\ GuildFields(guilds') /\ BalanceShape(b)
      /\ HoldsFor(guilds'.quests, voice.tickets, voice.stings, b.reserved, civil.deaths)
  BY <1>1, <1>2, EscrowHeld
<1> HIDE DEF b
<1> QED BY <1>2, <1>3, <1>4, EstateHeld

\* A will that is executed later.
LEMMA ExecutedHeld ==
    ASSUME HeldInv, WillsOK, DeadAreRecorded, NEW c, execute_will(c), UNCHANGED voice
    PROVE  HeldInv'
<1> DEFINE e == CurrentBalances
<1>1. BalanceShape(e) /\ e.reserved = reserved
  BY DEF CurrentBalances, BalanceShape
<1>2. do_execute_will(e, c) /\ UNCHANGED <<guilds, civil>> /\ c \in civil.deaths
  BY DEF execute_will, is_deceased, IsRegistered, DeadAreRecorded
<1> HIDE DEF e
<1> QED BY <1>1, <1>2, EstateHeld DEF HeldInv

\* Nothing that is held moves.
LEMMA HeldRests ==
    ASSUME HeldInv, UNCHANGED <<reserved, guilds, voice, civil>>
    PROVE  HeldInv'
BY DEF HeldInv

\* Neither does it by an act of the civil register or another change that
\* leaves the deaths as they are.
LEMMA HeldOutlives ==
    ASSUME HeldInv, UNCHANGED <<reserved, guilds, voice>>, civil'.deaths = civil.deaths
    PROVE  HeldInv'
BY DEF HeldInv

\* The stake of a sprung trap is released, and its target exiled.
LEMMA TrapStep ==
    ASSUME HeldInv, NEW i \in DOMAIN voice.stings, reveal_and_spring_trap(i)
    PROVE  HeldInv'
<1> DEFINE p  == guilds'.quests
           D  == civil.deaths
           t  == voice.tickets
           s  == voice.stings
           op == s[i]
           c  == op.citizen
           who == op.target
           v  == op.amount
           u  == Restatus(s, i, "Sprung")
           b  == EscrowReturned(CurrentBalances, who)
           e  == Released(b, c, v)
<1>1. /\ op.status = "Approved" /\ guilds' = GuildsAfterCleanup(who)
      /\ voice' = [voice EXCEPT !.stings = u] /\ UNCHANGED civil
      /\ \E f : reserved' = [e EXCEPT !.free = f].reserved
  BY DEF reveal_and_spring_trap, IsApproved, CleanUp, Restatus, HasBalances
<1>2. /\ GuildFields(guilds') /\ BalanceShape(b)
      /\ HoldsFor(p, t, s, b.reserved, D)
  <2> DEFINE x == CurrentBalances
  <2>1. BalanceShape(x) /\ x.reserved = reserved
    BY DEF CurrentBalances, BalanceShape
  <2> HIDE DEF x, who
  <2> QED BY <1>1, <2>1, EscrowHeld DEF x
<1>3. voice = [tickets |-> t, stings |-> s]
  BY DEF HeldInv
<1>4. Quests(p) /\ Tickets(t) /\ Stings(s) /\ b.reserved \in [Accounts -> Nat]
  BY <1>2 DEF HoldsFor
<1>5. /\ Stings(u) /\ DOMAIN u = DOMAIN s /\ s[i] \in StingRecord
      /\ \A j \in DOMAIN s : u[j].amount = s[j].amount
      /\ i \notin StingsOf(u, c) /\ StingsOf(s, c) = StingsOf(u, c) \cup {i}
      /\ \A a : a # c => StingsOf(u, a) = StingsOf(s, a)
  <2> HIDE DEF s, u
  <2>1. i \in DOMAIN s /\ s[i].status # "Sprung" /\ Stings(s) /\ "Sprung" \in StingStatus
    BY <1>1, <1>4 DEF s, StingStatus
  <2> QED BY <2>1, StingRestated DEF u
<1>6. c \in Citizens /\ v \in Nat
  <2>1. c \in Citizens /\ v \in StingAmounts
    <3> HIDE DEF s
    <3> QED BY <1>5 DEF StingRecord
  <2> QED BY <2>1, VoiceAssumption
<1> HIDE DEF t, s, u, p, D, b
<1>7. /\ i \in DOMAIN s /\ v = s[i].amount
      /\ \A j \in StingsOf(u, c) : j \in DOMAIN s /\ s[j].amount = u[j].amount
      /\ \A a : \A j \in StingsOf(s, a) : j \in DOMAIN u /\ u[j].amount = s[j].amount
  BY <1>5 DEF StingsOf, s
<1>8. Stakes(s, c) = Stakes(u, c) + v
  BY <1>4, <1>5, <1>7, StingJoins
<1>9. \A a \in Citizens \ {c} : Stakes(u, a) = Stakes(s, a)
  <2> SUFFICES ASSUME NEW a \in Citizens \ {c}
               PROVE  Stakes(u, a) = Stakes(s, a)
    OBVIOUS
  <2>1. Stings(s) /\ StingsOf(u, a) = StingsOf(s, a)
    BY <1>4, <1>5
  <2>2. \A j \in StingsOf(s, a) : j \in DOMAIN u /\ u[j].amount = s[j].amount
    BY <1>7
  <2> QED BY <2>1, <2>2, SameHeld
<1> HIDE DEF v, c
<1>10. HoldLess(p, t, s, p, t, u, c, v)
  <2> SUFFICES ASSUME NEW a \in Citizens
               PROVE  /\ a = c => v <= Booked(p, t, s, a)
                      /\ Booked(p, t, u, a) = IF a = c THEN Booked(p, t, s, a) - v
                                              ELSE Booked(p, t, s, a)
    BY DEF HoldLess
  <2>1. /\ EscrowIn(p, a, Unsettled) \in Nat /\ Deposits(t, a) \in Nat
        /\ Stakes(u, a) \in Nat
    BY <1>4, <1>5, BookedParts
  <2> QED BY <1>6, <1>8, <1>9, <2>1 DEF Booked
<1>11. BalanceShape(e) /\ e.reserved = Minus(b.reserved, c, v)
  BY <1>2, <1>4, <1>6, ReleaseClamps
<1>12. reserved' = e.reserved
  <2> HIDE DEF e
  <2>1. \A f : [e EXCEPT !.free = f].reserved = e.reserved
    BY <1>11 DEF BalanceShape
  <2> QED BY <1>1, <2>1
<1> HIDE DEF e
<1>13. HoldsFor(p, t, u, reserved', D)
  BY <1>2, <1>4, <1>5, <1>6, <1>10, <1>11, <1>12, HeldShrinks
<1>14. voice'.tickets = t /\ voice'.stings = u /\ voice' = [tickets |-> t, stings |-> u]
  BY <1>1, <1>3
<1> QED BY <1>1, <1>2, <1>13, <1>14 DEF HeldInv, p, D
-----------------------------------------------------------------------------
(* What everybody's books keep, in whichever pallet a step begins.         *)

BooksInv == AgreementsInv /\ CivilInv /\ HeldInv /\ WillsOK

\* Where nobody has a will, nobody gets one.
NoNewWills == DOMAIN wills = {} => DOMAIN wills' = {}

\* Nothing is written.
LEMMA RestBooks ==
    ASSUME BooksInv, UNCHANGED <<reserved, guilds, voice, civil, agreements, wills>>
    PROVE  BooksInv' /\ NoNewWills
<1>1. HeldInv'
  BY HeldRests DEF BooksInv
<1> QED BY <1>1 DEF BooksInv, NoNewWills, AgreementsInv, CivilInv, WillsOK

\* Executing a will takes it away or leaves it.
LEMMA WillsGo ==
    ASSUME WillsOK, NEW e, NEW c, do_execute_will(e, c)
    PROVE  WillsOK' /\ NoNewWills
<1>1. WillsOK'
  BY ExecutedWill
<1>2. wills' = wills \/ wills' = Without(wills, c)
  BY DEF do_execute_will, WillsAfter
<1> QED BY <1>1, <1>2 DEF NoNewWills, Without

\* A death.
LEMMA DeathBooks ==
    ASSUME BooksInv, NEW c, DeathWithHook(c), UNCHANGED voice
    PROVE  BooksInv' /\ NoNewWills
<1>1. register_death(c) /\ agreements' = AnnulledFor(c)
      /\ do_execute_will(EscrowReturned(CurrentBalances, c), c)
  BY DEF DeathWithHook, CleanUp
<1>2. AgreementsInv' /\ CivilInv'
  BY <1>1, AnnulStep, DeathIsBooked DEF BooksInv
<1>3. WillsOK' /\ NoNewWills
  BY <1>1, WillsGo DEF BooksInv
<1>4. HeldInv'
  BY DeathHeld DEF BooksInv
<1> QED BY <1>2, <1>3, <1>4 DEF BooksInv

\* A will that is executed later.
LEMMA ExecutionBooks ==
    ASSUME BooksInv, DeadAreRecorded, NEW c, execute_will(c), UNCHANGED voice
    PROVE  BooksInv' /\ NoNewWills
<1>1. do_execute_will(CurrentBalances, c) /\ UNCHANGED <<civil, agreements>>
  BY DEF execute_will
<1>2. WillsOK' /\ NoNewWills
  BY <1>1, WillsGo DEF BooksInv
<1>3. HeldInv'
  BY ExecutedHeld DEF BooksInv
<1> QED BY <1>1, <1>2, <1>3 DEF BooksInv, AgreementsInv, CivilInv

\* Wills.
LEMMA WillBooks ==
    ASSUME BooksInv, DeadAreRecorded, WillStep, UNCHANGED voice
    PROVE  BooksInv'
<1>1. ASSUME NEW c \in Citizens, NEW heirs \in HeirLists, draft_will(c, heirs),
             UNCHANGED <<citizens, civil, guilds, agreements>>
      PROVE  BooksInv'
  <2>1. WillsOK'
    BY <1>1, DraftedWill DEF BooksInv
  <2>2. HeldInv'
    BY <1>1, HeldRests DEF BooksInv, draft_will, ledger
  <2> QED BY <1>1, <2>1, <2>2 DEF BooksInv, AgreementsInv, CivilInv
<1>2. ASSUME NEW notary, NEW c, NEW fee, notarize_will(notary, c, fee),
             UNCHANGED <<citizens, civil, guilds, agreements>>
      PROVE  BooksInv'
  <2>1. WillsOK'
    BY <1>2, NotarizedWill DEF BooksInv
  <2>2. HeldInv'
    BY <1>2, HeldRests DEF BooksInv, notarize_will, transfer
  <2> QED BY <1>2, <2>1, <2>2 DEF BooksInv, AgreementsInv, CivilInv
<1> QED BY <1>1, <1>2, DeathBooks, ExecutionBooks DEF WillStep

\* Quests.
LEMMA QuestBooks ==
    ASSUME BooksInv, QuestCall, UNCHANGED <<civil, voice, agreements, wills>>
    PROVE  BooksInv' /\ NoNewWills
<1>1. HeldInv'
  BY QuestsHeld DEF BooksInv
<1> QED BY <1>1 DEF BooksInv, NoNewWills, AgreementsInv, CivilInv, WillsOK

\* Tickets and stings.
LEMMA VoicesHeld ==
    ASSUME HeldInv, VoiceStep
    PROVE  HeldInv'
<1>1. ASSUME NEW c \in Citizens, NEW x \in Targets, submit_ticket(c, x)
      PROVE  HeldInv'
  BY <1>1, TicketStep
<1>2. ASSUME NEW caller, NEW i, mark_in_review(caller, i)
      PROVE  HeldInv'
  <2>1. /\ TicketIs(i, {"Open", "InReview"})
        /\ voice' = [voice EXCEPT !.tickets[i].status = "InReview"]
        /\ UNCHANGED <<reserved, guilds, civil>>
    BY <1>2 DEF mark_in_review, TicketIs, ledger, civicVars
  <2> QED BY <2>1, ReviewStep
<1>3. ASSUME NEW caller, NEW i, escalate_ticket(caller, i)
      PROVE  HeldInv'
  <2>1. /\ TicketIs(i, {"Open", "InReview"})
        /\ voice' = [voice EXCEPT !.tickets[i].status = "Escalated"]
        /\ UNCHANGED <<reserved, guilds, civil>>
    BY <1>3 DEF escalate_ticket, ledger, civicVars
  <2> QED BY <2>1, ReviewStep
<1>4. ASSUME NEW caller, NEW i, NEW helpful \in BOOLEAN, resolve_ticket(caller, i, helpful)
      PROVE  HeldInv'
  BY <1>4, ResolveStep
<1>5. ASSUME NEW c \in Citizens, NEW x \in Citizens, NEW v \in StingAmounts,
             request_sting_operation(c, x, v)
      PROVE  HeldInv'
  BY <1>5, RequestStep
<1>6. ASSUME NEW i \in DOMAIN voice.stings, approve_sting(i) \/ reveal_and_spring_trap(i)
      PROVE  HeldInv'
  BY <1>6, ApproveStep, TrapStep
<1> QED BY <1>1, <1>2, <1>3, <1>4, <1>5, <1>6 DEF VoiceStep

\* A ticket or a sting keeps the books.
LEMMA VoiceBooks ==
    ASSUME BooksInv, VoiceStep
    PROVE  BooksInv' /\ NoNewWills
<1>1. ASSUME NEW i, reveal_and_spring_trap(i)
      PROVE  AgreementsInv' /\ UNCHANGED <<civil, wills>>
  <2>1. UNCHANGED <<civil, wills>> /\ agreements' = AnnulledFor(voice.stings[i].target)
    BY <1>1 DEF reveal_and_spring_trap, CleanUp
  <2> QED BY <2>1, AnnulStep DEF BooksInv
<1>2. VoiceStep /\ ~(\E i : reveal_and_spring_trap(i)) => UNCHANGED <<civil, agreements, wills>>
  BY DEF VoiceStep, submit_ticket, mark_in_review, resolve_ticket, escalate_ticket,
     request_sting_operation, approve_sting, civicVars
<1>3. AgreementsInv' /\ UNCHANGED <<civil, wills>>
  BY <1>1, <1>2 DEF BooksInv, AgreementsInv
<1>4. HeldInv'
  BY VoicesHeld DEF BooksInv
<1> QED BY <1>3, <1>4 DEF BooksInv, NoNewWills, CivilInv, WillsOK

\* The courts release the escrow of those they exile, and take only what is free.
LEMMA CourtsHeld ==
    ASSUME HeldInv, CourtStep, UNCHANGED voice
    PROVE  HeldInv'
<1> DEFINE e == CurrentBalances
<1>1. BalanceShape(e) /\ e.reserved = reserved
  BY DEF CurrentBalances, BalanceShape
<1>2. CASE UNCHANGED <<reserved, guilds, civil>>
  BY <1>2, HeldRests
<1>3. ASSUME NEW i, execute_hate_crime_verdict(i)
      PROVE  HeldInv'
  <2> DEFINE who == courts.cases[i].defendant
             x == Collected(e, who, courts.cases[i].whistleblower, free[who])
  <2>1. /\ ExileWithHook(x, who) \/ (HasBalances(x) /\ UNCHANGED guilds)
        /\ UNCHANGED civil
    BY <1>3 DEF execute_hate_crime_verdict
  <2>2. BalanceShape(x) /\ x.reserved = reserved
    BY <1>1, PenaltiesAreFree
  <2> HIDE DEF x, who
  <2>3. CASE ExileWithHook(x, who)
    BY <2>1, <2>2, <2>3, ExileHeld
  <2>4. CASE HasBalances(x) /\ UNCHANGED guilds
    BY <2>1, <2>2, <2>4, HeldRests DEF HasBalances
  <2> QED BY <2>1, <2>3, <2>4
<1>4. ASSUME NEW i, execute_penalty_verdict(i)
      PROVE  UNCHANGED <<reserved, guilds, civil>>
  <2> DEFINE who == courts.cases[i].defendant
             x == Collected(e, who, courts.cases[i].whistleblower, courts.cases[i].penalty_amount)
  <2>1. HasBalances(x) /\ UNCHANGED <<guilds, civil>>
    BY <1>4 DEF execute_penalty_verdict, noHook
  <2>2. x.reserved = reserved
    BY <1>1, PenaltiesAreFree
  <2> HIDE DEF x
  <2> QED BY <2>1, <2>2 DEF HasBalances
<1>5. ASSUME NEW c, declare_usurper(c)
      PROVE  UNCHANGED <<reserved, guilds, civil>>
  <2> DEFINE x == Given(e, c, StateTreasury, free[c])
  <2>1. HasBalances(x) /\ UNCHANGED <<guilds, civil>>
    BY <1>5 DEF declare_usurper, noHook
  <2>2. x.reserved = reserved
    BY <1>1, GiftsAreFree
  <2> HIDE DEF x
  <2> QED BY <2>1, <2>2 DEF HasBalances
<1>6. ASSUME NEW d, NEW W, open_case(d, W)
      PROVE  UNCHANGED <<reserved, guilds, civil>>
  BY <1>6 DEF open_case, ledger, noHook
<1>7. ASSUME NEW i, NEW guilty, NEW p, NEW k, issue_verdict(i, guilty, p, k)
      PROVE  UNCHANGED <<reserved, guilds, civil>>
  BY <1>7 DEF issue_verdict, ledger, noHook
<1>8. ASSUME on_initialize_constitution
      PROVE  UNCHANGED <<reserved, guilds, civil>>
  BY <1>8 DEF on_initialize_constitution, ledger, noHook
<1> QED BY <1>2, <1>3, <1>4, <1>5, <1>6, <1>7, <1>8 DEF CourtStep, ledger, noHook

\* A step of the courts keeps the books.
LEMMA CourtBooks ==
    ASSUME BooksInv, CourtStep, UNCHANGED voice
    PROVE  BooksInv' /\ NoNewWills
<1>1. ASSUME NEW i, execute_hate_crime_verdict(i)
      PROVE  AgreementsInv' /\ UNCHANGED <<civil, wills>>
  <2>1. UNCHANGED <<civil, wills>> /\ (UNCHANGED agreements \/ \E w : agreements' = AnnulledFor(w))
    BY <1>1 DEF execute_hate_crime_verdict, ExileWithHook, CleanUp
  <2> QED BY <2>1, AnnulStep DEF BooksInv, AgreementsInv
<1>2. CourtStep /\ ~(\E i : execute_hate_crime_verdict(i)) => UNCHANGED <<civil, agreements, wills>>
  BY DEF CourtStep, open_case, issue_verdict, execute_penalty_verdict, declare_usurper,
     on_initialize_constitution, noHook
<1>3. AgreementsInv' /\ UNCHANGED <<civil, wills>>
  BY <1>1, <1>2 DEF BooksInv, AgreementsInv
<1>4. HeldInv'
  BY CourtsHeld DEF BooksInv
<1> QED BY <1>3, <1>4 DEF BooksInv, NoNewWills, CivilInv, WillsOK

\* Acts of the civil register move no reserve.
LEMMA ActBooks ==
    ASSUME BooksInv, CivilActStep, UNCHANGED <<guilds, agreements, wills, voice>>
    PROVE  BooksInv' /\ NoNewWills
<1>1. UNCHANGED reserved
  BY DEF CivilActStep, register_marriage, register_divorce, register_nickname, clear_nickname,
     ledger
<1>2. CivilInv' /\ civil'.deaths = civil.deaths
  BY ActIsBooked DEF BooksInv
<1>3. HeldInv'
  BY <1>1, <1>2, HeldOutlives DEF BooksInv
<1> QED BY <1>2, <1>3 DEF BooksInv, NoNewWills, AgreementsInv, WillsOK

\* Agreements.
LEMMA AgreementBooks ==
    ASSUME BooksInv, AgreementStep, UNCHANGED <<ledger, citizens, civil, guilds, wills, voice>>
    PROVE  BooksInv' /\ NoNewWills
<1>1. AgreementsInv'
  BY AgreementSteps DEF BooksInv
<1>2. HeldInv'
  BY HeldRests DEF BooksInv, ledger
<1> QED BY <1>1, <1>2 DEF BooksInv, NoNewWills, CivilInv, WillsOK
-----------------------------------------------------------------------------
(* The registers together, in a behaviour about any of them.               *)

\* No case was ever opened.
NoCaseYet == courts = [cases |-> <<>>, martialLaw |-> courts.martialLaw, shame |-> <<>>]

\* What a behaviour about one part leaves at rest.
PartInv ==
    /\ IF part = "courts" THEN IInv ELSE NoCaseYet
    /\ IF part = "land" THEN LandInv /\ PeopleInv ELSE land = NoParcels
    /\ part # "estates" => DOMAIN wills = {}

JusticeInv == BooksInv /\ PartInv /\ StatusKept /\ DeadAreRecorded

\* A usurper is declared without a case.
LEMMA UsurpersHaveNoCase ==
    ASSUME NoCaseYet, NEW c, declare_usurper(c)
    PROVE  NoCaseYet'
<1> DEFINE o == <<>>
           y == TRUE
           m == courts.martialLaw
<1>1. courts = [cases |-> o, martialLaw |-> m, shame |-> o]
  BY DEF NoCaseYet
<1>2. courts' = [courts EXCEPT !.martialLaw = y]
  BY DEF declare_usurper
<1> HIDE DEF o, y, m
<1>3. courts' = [cases |-> o, martialLaw |-> y, shame |-> o]
  BY <1>1, <1>2
<1>4. courts' = [cases |-> o, martialLaw |-> courts'.martialLaw, shame |-> o]
  BY <1>3
<1> QED BY <1>4 DEF NoCaseYet, o

\* A step about what is held of somebody.
LEMMA HeldSteps ==
    ASSUME BooksInv, DeadAreRecorded, NoCaseYet, HeldStep
    PROVE  BooksInv' /\ NoNewWills /\ NoCaseYet'
<1>1. ASSUME UNCHANGED courts
      PROVE  NoCaseYet'
  BY <1>1 DEF NoCaseYet
<1>2. CASE VoiceStep /\ UNCHANGED courts
  BY <1>1, <1>2, VoiceBooks
<1>3. CASE QuestCall /\ UNCHANGED <<citizens, civil, agreements, wills, courts, voice>>
  BY <1>1, <1>3, QuestBooks
<1>4. CASE RootStep /\ UNCHANGED <<courts, voice>>
  BY <1>1, <1>4, RestBooks DEF RootStep, ledger, noHook
<1>5. ASSUME NEW c, DeathWithHook(c) \/ execute_will(c), UNCHANGED <<courts, voice>>
      PROVE  BooksInv' /\ NoNewWills /\ NoCaseYet'
  BY <1>1, <1>5, DeathBooks, ExecutionBooks
<1>6. ASSUME NEW c \in Citizens, declare_usurper(c), UNCHANGED voice
      PROVE  BooksInv' /\ NoNewWills /\ NoCaseYet'
  <2>1. CourtStep
    BY <1>6 DEF CourtStep
  <2> QED BY <1>6, <2>1, CourtBooks, UsurpersHaveNoCase
<1> QED BY <1>2, <1>3, <1>4, <1>5, <1>6 DEF HeldStep

\* A step of the justice system keeps the invariant of its part.
LEMMA JusticeSteps ==
    ASSUME JusticeInv, JusticeNext
    PROVE  BooksInv' /\ PartInv'
<1>0. /\ BooksInv /\ DeadAreRecorded /\ UNCHANGED part
      /\ part # "estates" => DOMAIN wills = {}
  BY DEF JusticeInv, PartInv, JusticeNext
<1>a. ASSUME UNCHANGED courts
      PROVE  NoCaseYet => NoCaseYet'
  BY <1>a DEF NoCaseYet
<1>1. CASE part = "estates"
  <2>1. EstateStep /\ UNCHANGED <<block, constitution, courts, voice, land>>
    BY <1>1 DEF JusticeNext
  <2>2. BooksInv'
    BY <1>0, <2>1, WillBooks, QuestBooks DEF EstateStep
  <2>3. NoCaseYet /\ land = NoParcels
    BY <1>1 DEF JusticeInv, PartInv
  <2> QED BY <1>0, <1>1, <1>a, <2>1, <2>2, <2>3 DEF PartInv
<1>2. CASE part = "contracts"
  <2>1. ContractStep /\ UNCHANGED <<block, constitution, courts, voice, land>>
    BY <1>2 DEF JusticeNext
  <2>2. BooksInv' /\ NoNewWills
    BY <1>0, <2>1, AgreementBooks, DeathBooks DEF ContractStep
  <2>3. NoCaseYet /\ land = NoParcels
    BY <1>2 DEF JusticeInv, PartInv
  <2> QED BY <1>0, <1>2, <1>a, <2>1, <2>2, <2>3 DEF PartInv, NoNewWills
<1>3. CASE part = "courts"
  <2>1. /\ CourtStep \/ (DeathOfTheSentenced /\ UNCHANGED <<block, constitution, courts>>)
        /\ UNCHANGED <<voice, land>>
    BY <1>3 DEF JusticeNext
  <2>2. IInv /\ land = NoParcels
    BY <1>3 DEF JusticeInv, PartInv
  <2>3. IInv'
    BY <2>1, <2>2, CourtStepInv DEF courtVars
  <2>4. BooksInv' /\ NoNewWills
    BY <1>0, <2>1, CourtBooks, DeathBooks DEF DeathOfTheSentenced
  <2> QED BY <1>0, <1>3, <2>1, <2>2, <2>3, <2>4 DEF PartInv, NoNewWills
<1>4. CASE part = "voices"
  <2>1. HeldStep /\ UNCHANGED <<block, constitution, land>>
    BY <1>4 DEF JusticeNext
  <2>2. NoCaseYet /\ land = NoParcels
    BY <1>4 DEF JusticeInv, PartInv
  <2>3. BooksInv' /\ NoNewWills /\ NoCaseYet'
    BY <1>0, <2>1, <2>2, HeldSteps
  <2> QED BY <1>0, <1>4, <2>1, <2>2, <2>3 DEF PartInv, NoNewWills
<1>5. CASE part = "families"
  <2>1. /\ \/ CivilActStep /\ UNCHANGED <<guilds, agreements, wills>>
           \/ RootStep
           \/ \E c \in DOMAIN citizens : DeathWithHook(c)
        /\ UNCHANGED <<block, constitution, courts, voice, land>>
    BY <1>5 DEF JusticeNext
  <2>2. NoCaseYet /\ land = NoParcels
    BY <1>5 DEF JusticeInv, PartInv
  <2>3. RootStep => UNCHANGED <<reserved, civil, guilds, agreements, wills>>
    BY DEF RootStep, ledger, noHook
  <2>4. BooksInv' /\ NoNewWills
    BY <1>0, <2>1, <2>3, RestBooks, ActBooks, DeathBooks
  <2> QED BY <1>0, <1>5, <1>a, <2>1, <2>2, <2>4 DEF PartInv, NoNewWills
<1>6. CASE part = "land"
  <2>1. /\ \/ LandStep /\ UNCHANGED <<ledger, citizens, noHook>>
           \/ (RootStep \/ \E c \in DOMAIN citizens : DeathWithHook(c)) /\ UNCHANGED land
        /\ UNCHANGED <<block, constitution, courts, voice>>
    BY <1>6 DEF JusticeNext
  <2>2. NoCaseYet /\ LandInv /\ PeopleInv
    BY <1>6 DEF JusticeInv, PartInv
  <2>3. ASSUME LandStep, UNCHANGED <<ledger, citizens, noHook, voice>>
        PROVE  BooksInv' /\ NoNewWills /\ LandInv' /\ PeopleInv'
    <3>1. UNCHANGED <<reserved, civil, guilds, agreements, wills, citizens, voice>>
      BY <2>3 DEF ledger, noHook
    <3>2. LandInv' /\ PeopleInv'
      BY <2>2, <2>3, <3>1, LandSteps DEF PeopleInv
    <3> QED BY <1>0, <3>1, <3>2, RestBooks
  <2>4. ASSUME RootStep, UNCHANGED <<land, voice>>
        PROVE  BooksInv' /\ NoNewWills /\ LandInv' /\ PeopleInv'
    <3>1. UNCHANGED <<reserved, civil, guilds, agreements, wills, voice>>
      BY <2>4 DEF RootStep, ledger, noHook
    <3>2. SameCitizenship
      BY <2>2, <2>4, RootKeepsCitizenship DEF RootStep
    <3>3. LandInv' /\ PeopleInv'
      BY <2>2, <2>4, <3>2, LandStays DEF SameCitizenship
    <3> QED BY <1>0, <3>1, <3>3, RestBooks
  <2>5. ASSUME NEW c, DeathWithHook(c), UNCHANGED <<land, voice>>
        PROVE  BooksInv' /\ NoNewWills /\ LandInv' /\ PeopleInv'
    <3>1. BooksInv' /\ NoNewWills
      BY <1>0, <2>5, DeathBooks
    <3>2. SameCitizenship
      BY <2>2, <2>5, DeathKeepsCitizenship DEF DeathWithHook
    <3> QED BY <2>2, <2>5, <3>1, <3>2, LandStays DEF SameCitizenship
  <2>6. BooksInv' /\ NoNewWills /\ LandInv' /\ PeopleInv'
    BY <2>1, <2>3, <2>4, <2>5
  <2> QED BY <1>0, <1>6, <1>a, <2>1, <2>2, <2>6 DEF PartInv, NoNewWills
<1> QED BY <1>1, <1>2, <1>3, <1>4, <1>5, <1>6 DEF JusticeNext

\* The registries hold nothing of citizens: only the rewards reserve at all,
\* what the reward treasury pays.
LEMMA OthersHoldNothing ==
    ASSUME RegistriesNext
    PROVE  \/ UNCHANGED reserved
           \/ \E v : reserved' = [reserved EXCEPT ![RewardTreasury] = v]
<1>1. ASSUME RewardStep
      PROVE  \/ UNCHANGED reserved
             \/ \E v : reserved' = [reserved EXCEPT ![RewardTreasury] = v]
  BY <1>1 DEF RewardStep, award_achievement, issue_reward_nft, redeem_reward_nft, reserve,
     PayReserved, ledger
<1>2. ProfitTaxStep => UNCHANGED reserved
  <2>1. ASSUME NEW a, NEW y, NEW p, NEW f, declare_annual_profit(a, y, p, f)
        PROVE  UNCHANGED reserved
    <3>1. \E payments : pay_in_order(a, payments)
      BY <2>1 DEF declare_annual_profit
    <3> QED BY <3>1 DEF pay_in_order
  <2>2. \A t : set_regional_treasury(t) \/ set_confederation_treasury(t) => UNCHANGED reserved
    BY DEF set_regional_treasury, set_confederation_treasury, ledger
  <2> QED BY <2>1, <2>2 DEF ProfitTaxStep
<1>3. FeeStep => UNCHANGED reserved
  BY DEF FeeStep, transfer_with_fee, pay_in_order
<1>4. MixerStep => UNCHANGED reserved
  BY DEF MixerStep, deposit, withdraw_mixed, reveal_transaction, submit_quarterly_audit,
     pay_in_order, transfer, ledger
<1>5. DaoStep => UNCHANGED reserved
  BY DEF DaoStep, instantiate_org, sync_council, create_dao_proposal, vote_dao_proposal,
     execute_dao_proposal, transfer, ledger
<1>6. ChronicleStep => UNCHANGED reserved
  BY DEF ChronicleStep, publish_document, donate_to_author, transfer, ledger
<1>7. RecordStep \/ RegisterStep \/ Tick => UNCHANGED reserved
  BY DEF RecordStep, RegisterStep, Tick, ledger
<1> QED BY <1>1, <1>2, <1>3, <1>4, <1>5, <1>6, <1>7 DEF RegistriesNext, MoneyStep

\* The other registries touch none of these.
LEMMA OtherPartsRest ==
    ASSUME JusticeInv, RegistriesNext, reserved' \in [Accounts -> Nat]
    PROVE  BooksInv' /\ PartInv'
<1>1. UNCHANGED <<noHook, constitution, courts, voice, land, part>>
  BY DEF RegistriesNext
<1>2. part \notin {"courts", "land", "estates"}
  BY DEF RegistriesNext, MoneyStep, RecordStep, RegisterStep, Tick
<1>3. PartInv'
  BY <1>1, <1>2 DEF JusticeInv, PartInv, NoCaseYet, noHook
<1>4. UNCHANGED <<guilds, voice, civil, agreements, wills>> /\ BooksInv
  BY <1>1 DEF noHook, JusticeInv
<1>5. HeldInv'
  <2> DEFINE q == guilds.quests
             t == voice.tickets
             s == voice.stings
             r == reserved
             D == civil.deaths
  <2>1. HoldsFor(q, t, s, r, D)
    BY <1>4 DEF BooksInv, HeldInv
  <2>2. \A a \in Citizens : a # RewardTreasury /\ a \in Accounts
    BY EstatesAssumption, IdentityAssumption
  <2>3. \A a \in Citizens : r'[a] = r[a]
    <3>1. r \in [Accounts -> Nat]
      BY <2>1 DEF HoldsFor
    <3> QED BY <2>2, <3>1, OthersHoldNothing
  <2> HIDE DEF q, t, s, D
  <2>4. HoldsFor(q, t, s, r', D)
    BY <2>1, <2>3 DEF HoldsFor
  <2> QED BY <1>4, <2>4 DEF BooksInv, HeldInv, q, t, s, D
<1> QED BY <1>3, <1>4, <1>5 DEF BooksInv, AgreementsInv, CivilInv, WillsOK
-----------------------------------------------------------------------------
\* Nobody has a quest or a will at first.
LEMMA NobodyStarts ==
    ASSUME MCInit
    PROVE  GuildFields(guilds) /\ DOMAIN guilds.quests = {} /\ DOMAIN wills = {}
<1> DEFINE gs == 0 :> [founder |-> Second, quest_count |-> 0, member_count |-> 1]
           ms == <<0, Second>> :> "Master"
           o  == <<>>
           g  == NoGuilds
           t  == [g EXCEPT !.guilds = gs]
<1>1. guilds = NotaryGuild /\ wills = <<>>
  BY DEF MCInit, Founded
<1>2. guilds = [g EXCEPT !.guilds = gs, !.members = ms] /\ DOMAIN o = {}
  BY <1>1 DEF NotaryGuild
<1>3. g = [guilds |-> o, members |-> o, questCount |-> o, quests |-> o,
           achievements |-> o, holders |-> {}, unions |-> o, nextUnionId |-> 0,
           unionOf |-> o, gmVotes |-> o, academy |-> {}, byUuid |-> o,
           proposals |-> o, ballots |-> {}]
  BY DEF NoGuilds
<1> HIDE DEF gs, ms, o, g
<1>4. t = [guilds |-> gs, members |-> o, questCount |-> o, quests |-> o,
           achievements |-> o, holders |-> {}, unions |-> o, nextUnionId |-> 0,
           unionOf |-> o, gmVotes |-> o, academy |-> {}, byUuid |-> o,
           proposals |-> o, ballots |-> {}]
  BY <1>3
<1>5. guilds = [t EXCEPT !.members = ms]
  BY <1>2, <1>3, <1>4
<1> HIDE DEF t
<1>6. guilds = [guilds |-> gs, members |-> ms, questCount |-> o, quests |-> o,
           achievements |-> o, holders |-> {}, unions |-> o, nextUnionId |-> 0,
           unionOf |-> o, gmVotes |-> o, academy |-> {}, byUuid |-> o,
           proposals |-> o, ballots |-> {}]
  BY <1>4, <1>5
<1>7. guilds.quests = o /\ {"quests", "academy"} \subseteq DOMAIN guilds
  BY <1>6
<1>8. DOMAIN guilds.quests = {} /\ 0 .. 0 - 1 = {}
  BY <1>2, <1>7
<1>9. Quests(guilds.quests)
  BY <1>8 DEF Quests
<1> QED BY <1>1, <1>7, <1>8, <1>9 DEF GuildFields

\* The sum over nothing.
LEMMA NothingBooked ==
    ASSUME NEW q, DOMAIN q = {}, NEW c
    PROVE  Booked(q, <<>>, <<>>, c) = 0
<1>1. TicketsOf(<<>>, c) = {} /\ StingsOf(<<>>, c) = {} /\ QuestsIn(q, c, Unsettled) = {}
  BY DEF TicketsOf, StingsOf, QuestsIn
<1>2. IsFiniteSet({}) /\ Cardinality({}) = 0
  BY FS_EmptySet
<1>3. SumOver(StakeAmounts(<<>>), {}) = 0 /\ SumOver(RewardsOf(q), {}) = 0
  BY <1>2, SumUnfolds
<1>4. TicketDeposit * 0 = 0
  BY VoiceAssumption
<1>5. Deposits(<<>>, c) = 0
  BY <1>1, <1>2, <1>4 DEF Deposits
<1>6. Stakes(<<>>, c) = 0
  BY <1>1, <1>3 DEF Stakes
<1>7. EscrowIn(q, c, Unsettled) = 0
  BY <1>1, <1>3 DEF EscrowIn
<1> QED BY <1>5, <1>6, <1>7 DEF Booked

\* Nothing is held at first.
LEMMA HeldStart ==
    ASSUME MCInit
    PROVE  HeldInv
<1>1. GuildFields(guilds) /\ DOMAIN guilds.quests = {}
  BY NobodyStarts
<1>2. voice = NoVoices /\ reserved = [a \in Accounts |-> 0]
  BY DEF MCInit, Founded
<1>3. voice = [tickets |-> <<>>, stings |-> <<>>]
  BY <1>2 DEF NoVoices
<1>4. Tickets(<<>>) /\ Stings(<<>>)
  <2>1. <<>> \in Numbered(0, TicketRecord) /\ <<>> \in Numbered(0, StingRecord)
    BY DEF Numbered
  <2> QED BY <2>1 DEF Tickets, Stings
<1>5. \A c \in Citizens : Covers(reserved[c], Booked(guilds.quests, <<>>, <<>>, c),
                                 c \notin civil.deaths)
  <2> SUFFICES ASSUME NEW c \in Citizens
               PROVE  Covers(reserved[c], Booked(guilds.quests, <<>>, <<>>, c),
                             c \notin civil.deaths)
    OBVIOUS
  <2>1. reserved[c] = 0 /\ Booked(guilds.quests, <<>>, <<>>, c) = 0
    BY <1>1, <1>2, NothingBooked, IdentityAssumption
  <2> QED BY <2>1 DEF Covers
<1> DEFINE o == <<>>
           q == guilds.quests
<1>6. HoldsFor(q, o, o, reserved, civil.deaths)
  BY <1>1, <1>2, <1>4, <1>5 DEF HoldsFor, GuildFields
<1>7. voice = [tickets |-> o, stings |-> o]
  BY <1>3
<1> HIDE DEF o, q
<1>8. voice = [tickets |-> voice.tickets, stings |-> voice.stings]
      /\ HoldsFor(q, voice.tickets, voice.stings, reserved, civil.deaths)
  BY <1>6, <1>7
<1> QED BY <1>1, <1>8 DEF HeldInv, q

\* Nothing has happened at first.
LEMMA JusticeStart ==
    ASSUME MCInit
    PROVE  JusticeInv
<1>1. /\ block = 0
      /\ citizens = Settlers(IF part \in {"families", "land"} THEN Citizens \cup Guests
                             ELSE Citizens)
      /\ civil = NoCivilRecords /\ agreements = <<>>
      /\ constitution = NoConstitution /\ courts = NoCases /\ land = NoParcels
  BY DEF MCInit, Founded
<1>2. HeldInv /\ DOMAIN wills = {}
  BY HeldStart, NobodyStarts
<1>3. AgreementsInv /\ WillsOK
  BY <1>1, <1>2 DEF AgreementsInv, WillsOK
<1>4. CivilInv
  <2>1. CivilShape(civil) /\ civil.spouse = <<>> /\ civil.nicknameOf = <<>> /\ civil.holderOf = <<>>
    BY <1>1 DEF NoCivilRecords, CivilShape
  <2> QED BY <2>1 DEF CivilInv, Coupled, Inverses
<1>5. IInv
  BY <1>1, CourtsInitInv DEF CourtsInit
<1>6. LandInv
  BY <1>1, LandStart
<1>7. PeopleInv
  BY <1>1, SettlersArePeople
<1>8. StatusKept
  BY <1>7 DEF StatusKept, PeopleInv, Person
<1>9. DeadAreRecorded
  <2>1. \A c \in DOMAIN citizens : citizens[c].status = "Active"
    BY <1>1 DEF Settlers, Identified
  <2> QED BY <2>1 DEF DeadAreRecorded, is_deceased
<1>10. NoCaseYet
  BY <1>1 DEF NoCases, NoCaseYet
<1> QED BY <1>1, <1>2, <1>3, <1>4, <1>5, <1>6, <1>7, <1>8, <1>9, <1>10 DEF JusticeInv, BooksInv,
           PartInv

\* What is held is what the property says.
LEMMA HeldAgrees ==
    ASSUME HeldInv
    PROVE  HeldIsBooked
<1> DEFINE q == guilds.quests
           t == voice.tickets
           s == voice.stings
<1>1. HoldsFor(q, t, s, reserved, civil.deaths)
  BY DEF HeldInv
<1>2. ASSUME NEW c \in Citizens
      PROVE  BookedFor(c) = Booked(q, t, s, c)
  <2> DEFINE open == {i \in DOMAIN voice.tickets :
                        voice.tickets[i].author = c
                          /\ TicketIs(i, {"Open", "InReview", "Escalated"})}
             waiting == {i \in DOMAIN voice.stings :
                           voice.stings[i].citizen = c /\ voice.stings[i].status # "Sprung"}
             f == [i \in waiting |-> voice.stings[i].amount]
  <2>1. open = TicketsOf(t, c)
    BY DEF TicketsOf, TicketIs, Unresolved
  <2>2. waiting = StingsOf(s, c)
    BY DEF StingsOf
  <2>3. IsFiniteSet(StingsOf(s, c))
    BY <1>1, HeldAreNatural DEF HoldsFor
  <2>4. \A i \in waiting : f[i] = StakeAmounts(s)[i]
    BY DEF StakeAmounts
  <2>5. Escrow(c, Unsettled) = EscrowIn(q, c, Unsettled)
    BY DEF Escrow, EscrowIn, QuestsOf, QuestsIn, RewardsOf
  <2>6. BookedFor(c) = Escrow(c, Unsettled) + TicketDeposit * Cardinality(open)
                         + SumOver(f, waiting)
    BY DEF BookedFor, Unsettled
  <2> HIDE DEF f, waiting, open
  <2>7. SumOver(f, waiting) = SumOver(StakeAmounts(s), waiting)
    BY <2>2, <2>3, <2>4, SumOfSame
  <2> QED BY <2>1, <2>2, <2>5, <2>6, <2>7 DEF Booked, Deposits, Stakes
<1>3. ASSUME NEW c \in Citizens
      PROVE  /\ reserved[c] <= BookedFor(c)
             /\ c \notin civil.deaths => reserved[c] = BookedFor(c)
  BY <1>1, <1>2 DEF HoldsFor, Covers
<1> QED BY <1>3 DEF HeldIsBooked

\* The invariant is what the property says.
LEMMA RegistersAreInOrder ==
    ASSUME JusticeInv
    PROVE  RegistersAgree
<1>1. ForceNeedsConsent
  BY DEF JusticeInv, BooksInv, AgreementsInv, Consented, ForceNeedsConsent
<1>2. ShameIsExecuted
  <2>1. CASE part = "courts"
    BY <2>1 DEF JusticeInv, PartInv, IInv
  <2>2. CASE part # "courts"
    <3>1. courts.cases = <<>>
      BY <2>2 DEF JusticeInv, PartInv, NoCaseYet
    <3> QED BY <3>1 DEF ShameIsExecuted
  <2> QED BY <2>1, <2>2
<1>3. HeldIsBooked
  BY HeldAgrees DEF JusticeInv, BooksInv
<1>4. LandBookAgrees
  <2>1. CASE part = "land"
    BY <2>1 DEF JusticeInv, PartInv, LandInv, LandHas, Indexed, LandBookAgrees
  <2>2. CASE part # "land"
    BY <2>2, LandStart DEF JusticeInv, PartInv, LandInv, LandHas, Indexed, LandBookAgrees
  <2> QED BY <2>1, <2>2
<1>5. CivilBooksAgree
  BY BooksAgree DEF JusticeInv, BooksInv
<1> QED BY <1>1, <1>2, <1>3, <1>4, <1>5 DEF RegistersAgree

\* A step of the specification keeps the invariant.
LEMMA JusticeKept ==
    ASSUME JusticeInv, MoneyInv', [MCNext]_MCvars
    PROVE  JusticeInv'
<1>1. ASSUME MCNext
      PROVE  StatusKept' /\ DeadAreRecorded'
  BY <1>1, DeathsAreRecorded DEF JusticeInv, BooksInv
<1>2. CASE JusticeNext /\ UNCHANGED registryVars
  <2>1. MCNext
    BY <1>2 DEF MCNext
  <2> QED BY <1>1, <1>2, <2>1, JusticeSteps DEF JusticeInv
<1>3. CASE RegistriesNext
  <2>1. MCNext
    BY <1>3 DEF MCNext
  <2>2. part' \in Parts
    BY <1>3 DEF RegistriesNext, MoneyStep, RecordStep, RegisterStep, Tick, Parts
  <2>3. reserved' \in [Accounts -> Nat]
    BY <2>2 DEF MoneyInv, LedgerTypeOK
  <2> QED BY <1>1, <1>3, <2>1, <2>3, OtherPartsRest DEF JusticeInv
<1>4. CASE UNCHANGED MCvars
  <2>1. UNCHANGED <<free, reserved, block, citizens, civil, guilds, agreements, wills,
                    constitution, courts, voice, land, part>>
    BY <1>4 DEF MCvars, justiceVars, civicVars, ledger
  <2>2. BooksInv'
    BY <2>1, RestBooks DEF JusticeInv
  <2>3. PartInv'
    <3>1. IInv => IInv'
      BY <2>1, CourtStepInv DEF courtVars
    <3>2. LandInv => LandInv'
      BY <2>1, LandStays DEF LandInv, LandHas, Indexed, MayOwnLand
    <3>3. (PeopleInv => PeopleInv') /\ (NoCaseYet => NoCaseYet')
      BY <2>1 DEF PeopleInv, NoCaseYet
    <3> QED BY <2>1, <3>1, <3>2, <3>3 DEF JusticeInv, PartInv
  <2>4. StatusKept' /\ DeadAreRecorded'
    BY <2>1 DEF JusticeInv, StatusKept, DeadAreRecorded, is_deceased, IsRegistered
  <2> QED BY <2>2, <2>3, <2>4 DEF JusticeInv
<1> QED BY <1>2, <1>3, <1>4 DEF MCNext

\* In every state.
LEMMA JusticeInvariant == MCSpec => []JusticeInv
<1>1. MCInit => JusticeInv
  BY JusticeStart
<1>2. JusticeInv /\ MoneyInv' /\ [MCNext]_MCvars => JusticeInv'
  BY JusticeKept
<1> QED BY <1>1, <1>2, MoneyInvariant, PTL DEF MCSpec

(***************************************************************************)
(* The registers of what citizens agreed, were sentenced to, reported and  *)
(* own say what was done, in whichever order agreements are signed and     *)
(* their parties die, verdicts are given and executed, quests, tickets and *)
(* stings are settled, estates are taken, parcels are sold and marriages   *)
(* end.                                                                    *)
(***************************************************************************)
THEOREM RegistersInOrder == MCSpec => []RegistersAgree
<1>1. JusticeInv => RegistersAgree
  BY RegistersAreInOrder
<1> QED BY <1>1, JusticeInvariant, PTL
-----------------------------------------------------------------------------
(* What a departure leaves.                                                *)

\* What is left open of the business of c.
NothingOpen(c) ==
    /\ QuestsOf(c, {"Open", "InProgress"}) = {}
    /\ c \notin guilds.academy
    /\ \A d \in DOMAIN agreements :
          agreements[d].status = "PendingSignatures" => c \notin agreements[d].parties

\* A clean-up leaves nothing open.
LEMMA CleanedUp ==
    ASSUME GuildFields(guilds), AgreementsInv, NEW c, CleanUp(c)
    PROVE  NothingOpen(c)'
<1>1. guilds' = GuildsAfterCleanup(c) /\ agreements' = AnnulledFor(c)
  BY DEF CleanUp
<1>2. ASSUME NEW d \in DOMAIN agreements', agreements'[d].status = "PendingSignatures"
      PROVE  c \notin agreements'[d].parties
  <2> DEFINE a == agreements[d]
             b == [a EXCEPT !.status = "Cancelled"]
  <2>1. /\ d \in DOMAIN agreements
        /\ agreements'[d] = IF InStatus(d, "PendingSignatures") /\ c \in a.parties THEN b ELSE a
    BY <1>1, <1>2 DEF AnnulledFor
  <2>2. "status" \in DOMAIN a
    BY <2>1 DEF AgreementsInv, Consented, AgreementShape
  <2>3. InStatus(d, "PendingSignatures") <=> a.status = "PendingSignatures"
    BY <2>1 DEF InStatus
  <2> HIDE DEF a
  <2>4. b.status = "Cancelled"
    BY <2>2
  <2> QED BY <1>2, <2>1, <2>3, <2>4
<1>3. QuestsOf(c, {"Open", "InProgress"})' = {} /\ c \notin guilds'.academy
  BY <1>1, FieldsAfterCleanup
<1> QED BY <1>2, <1>3 DEF NothingOpen

(***************************************************************************)
(* When a citizen dies or is exiled, no unfinished quest, no seat in the   *)
(* academy and no agreement that waits for signatures is left of theirs,   *)
(* whether a death, a verdict or a trap ended the citizenship.             *)
(***************************************************************************)
THEOREM DeparturesAreSettled == MCSpec => NothingIsLeftOpen
<1> DEFINE A == \A c \in DOMAIN citizens :
                   ~IsTerminal(c) /\ IsTerminal(c)' => NothingOpen(c)'
<1>1. JusticeInv /\ [MCNext]_MCvars => [A]_civicVars
  <2> SUFFICES ASSUME JusticeInv, [MCNext]_MCvars
               PROVE  [A]_civicVars
    OBVIOUS
  <2>1. CASE MCNext
    <3>1. Departure
      BY <2>1, EveryoneDeparts DEF JusticeInv, BooksInv
    <3>2. ASSUME NEW c, LeavesAlone(c)
          PROVE  NothingOpen(c)' /\ NobodyLeavesBut({c})
      BY <3>2, CleanedUp DEF LeavesAlone, JusticeInv, BooksInv, HeldInv
    <3>3. A
      BY <3>1, <3>2 DEF Departure, NobodyGoes, NobodyLeavesBut
    <3> QED BY <3>3
  <2>2. CASE UNCHANGED MCvars
    BY <2>2 DEF MCvars, justiceVars
  <2> QED BY <2>1, <2>2
<1>2. MCSpec => [][A]_civicVars
  BY <1>1, JusticeInvariant, PTL DEF MCSpec
<1>3. [A]_civicVars => [\A c \in DOMAIN citizens :
          ~IsTerminal(c) /\ IsTerminal(c)' =>
             /\ QuestsOf(c, {"Open", "InProgress"})' = {}
             /\ c \notin guilds'.academy
             /\ \A d \in DOMAIN agreements' :
                   agreements'[d].status = "PendingSignatures"
                      => c \notin agreements'[d].parties]_civicVars
  BY DEF NothingOpen
<1> QED BY <1>2, <1>3, PTL DEF NothingIsLeftOpen
-----------------------------------------------------------------------------
(* The shares of a will.  They are rounded down, and the last heir gets    *)
(* what the floors have left.                                              *)

\* Who may be an heir.
Relatives == Citizens \cup Guests

\* The sum up to the next position.
LEMMA SumToNext ==
    ASSUME NEW f, NEW m \in Nat, \A i \in 1 .. m + 1 : f[i] \in Int
    PROVE  SumOver(f, 1 .. m + 1) = SumOver(f, 1 .. m) + f[m + 1]
<1>1. 1 .. m + 1 = (1 .. m) \cup {m + 1} /\ m + 1 \notin 1 .. m
  OBVIOUS
<1>2. IsFiniteSet(1 .. m)
  BY FS_Interval
<1>3. \A i \in (1 .. m) \cup {m + 1} : f[i] \in Int
  BY <1>1
<1> DEFINE S == 1 .. m
           z == m + 1
           N == 1 .. m + 1
<1> HIDE DEF S, z, N
<1>4. /\ N = S \cup {z} /\ z \notin S /\ IsFiniteSet(S)
      /\ \A i \in S \cup {z} : f[i] \in Int
  BY <1>1, <1>2, <1>3 DEF S, z, N
<1>5. SumOver(f, N) = SumOver(f, S) + f[z]
  BY <1>4, SumOfOneMore
<1> QED BY <1>5 DEF S, z, N

\* The sum over no positions.
LEMMA SumToNone ==
    ASSUME NEW f
    PROVE  SumOver(f, 1 .. 0) = 0
<1>1. 1 .. 0 = {} /\ IsFiniteSet({})
  BY FS_EmptySet
<1> QED BY <1>1, SumUnfolds

\* The floors of some parts are together no more than the floor of these parts.
LEMMA FloorsOfParts ==
    ASSUME NEW n \in Nat, NEW total \in Nat, NEW p, NEW floor,
           \A i \in 1 .. n : p[i] \in Nat /\ floor[i] = (total * p[i]) \div 100
    PROVE  \A m \in 0 .. n : /\ SumOver(floor, 1 .. m) \in Nat /\ SumOver(p, 1 .. m) \in Nat
                             /\ SumOver(floor, 1 .. m) <= (total * SumOver(p, 1 .. m)) \div 100
<1>a. \A i \in 1 .. n : floor[i] \in Nat
  <2> SUFFICES ASSUME NEW i \in 1 .. n PROVE floor[i] \in Nat
    OBVIOUS
  <2>1. total * p[i] \in Nat
    OBVIOUS
  <2>2. (total * p[i]) \div 100 \in Nat
    BY <2>1, DivisionKeepsOrder
  <2> QED BY <2>2
<1>b. \A m \in 0 .. n : SumOver(floor, 1 .. m) \in Nat /\ SumOver(p, 1 .. m) \in Nat
  <2> SUFFICES ASSUME NEW m \in 0 .. n
               PROVE  SumOver(floor, 1 .. m) \in Nat /\ SumOver(p, 1 .. m) \in Nat
    OBVIOUS
  <2>1. IsFiniteSet(1 .. m) /\ \A i \in 1 .. m : i \in 1 .. n
    BY FS_Interval
  <2> QED BY <1>a, <2>1, SumOfNaturals
<1> DEFINE Z(k) == SumOver(floor, 1 .. k) <= (total * SumOver(p, 1 .. k)) \div 100
           T == {k \in 0 .. n : ~Z(k)}
<1> HIDE DEF Z
<1>1. T = {}
  <2>1. SUFFICES ASSUME T # {} PROVE FALSE
    OBVIOUS
  <2>a. T \subseteq Nat
    OBVIOUS
  <2>2. PICK m \in T : \A k \in T : m <= k
    <3> HIDE DEF T
    <3> QED BY <2>1, <2>a, LeastNatural
  <2>3. Z(0)
    <3>1. (total * 0) \div 100 = 0
      OBVIOUS
    <3> QED BY <3>1, SumToNone DEF Z
  <2>4. m # 0
    BY <2>2, <2>3
  <2> DEFINE l == m - 1
  <2>5. l \in Nat /\ l + 1 = m /\ l \in 0 .. n /\ m \in 1 .. n /\ l \notin T
    BY <2>2, <2>4
  <2>6. Z(l)
    BY <2>5
  <2> HIDE DEF l
  <2>7. \A i \in 1 .. l + 1 : i \in 1 .. n
    BY <2>5
  <2>8. /\ SumOver(floor, 1 .. m) = SumOver(floor, 1 .. l) + floor[m]
        /\ SumOver(p, 1 .. m) = SumOver(p, 1 .. l) + p[m]
    <3>1. \A i \in 1 .. l + 1 : floor[i] \in Int /\ p[i] \in Int
      BY <1>a, <2>7
    <3>2. SumOver(floor, 1 .. l + 1) = SumOver(floor, 1 .. l) + floor[l + 1]
      BY <2>5, <3>1, SumToNext
    <3>3. SumOver(p, 1 .. l + 1) = SumOver(p, 1 .. l) + p[l + 1]
      BY <2>5, <3>1, SumToNext
    <3> QED BY <2>5, <3>2, <3>3
  <2> DEFINE s == SumOver(p, 1 .. l)
             f == SumOver(floor, 1 .. l)
             a == total * s
             b == total * p[m]
  <2>9. s \in Nat /\ f \in Nat /\ p[m] \in Nat
    BY <1>b, <2>5
  <2>10. floor[m] = b \div 100
    BY <2>5
  <2>11. f <= a \div 100
    BY <2>6 DEF Z
  <2>12. SumOver(floor, 1 .. m) = f + floor[m] /\ SumOver(p, 1 .. m) = s + p[m]
    BY <2>8
  <2> HIDE DEF s, f
  <2>13. a \in Nat /\ b \in Nat /\ total * (s + p[m]) = a + b
    BY <2>9
  <2> HIDE DEF a, b
  <2>14. a \div 100 + b \div 100 <= (a + b) \div 100 /\ a \div 100 \in Nat /\ b \div 100 \in Nat
         /\ (a + b) \div 100 \in Nat
    BY <2>13, DivisionOfSum
  <2>15. f + floor[m] <= (total * (s + p[m])) \div 100
    BY <2>9, <2>10, <2>11, <2>13, <2>14
  <2>16. Z(m)
    BY <2>12, <2>15 DEF Z
  <2> QED BY <2>2, <2>16
<1>2. \A k \in 0 .. n : Z(k)
  BY <1>1
<1> QED BY <1>2, <1>b DEF Z

\* The shares are naturals and make up all that there is.
LEMMA SharesAddUp ==
    ASSUME NEW n \in Nat \ {0}, NEW heirs, HeirsOf(heirs, n), NEW total \in Nat
    PROVE  /\ \A i \in 1 .. n : Shares(total, heirs)[i] \in Nat
           /\ SumOver(Shares(total, heirs), 1 .. n) = total
<1> DEFINE p == [i \in DOMAIN heirs |-> heirs[i][2]]
           floor == [i \in DOMAIN heirs |-> (total * heirs[i][2]) \div 100]
           l == n - 1
           sh == Shares(total, heirs)
           rest == SumOver(floor, 1 .. l)
           parts == SumOver(p, 1 .. l)
<1>1. DOMAIN heirs = 1 .. n /\ Len(heirs) = n
  BY DEF HeirsOf, Relatives
<1>2. l \in Nat /\ l + 1 = n /\ l \in 0 .. n /\ n \in 1 .. n
      /\ \A i \in 1 .. l : i \in 1 .. n
  OBVIOUS
<1>3. \A i \in 1 .. n : p[i] = heirs[i][2] /\ p[i] \in Nat
  BY <1>1 DEF HeirsOf, Relatives
<1>4. \A i \in 1 .. n : floor[i] = (total * p[i]) \div 100
  <2> DEFINE q(i) == (total * heirs[i][2]) \div 100
  <2>1. floor = [i \in 1 .. n |-> q(i)]
    BY <1>1
  <2>2. \A i \in 1 .. n : q(i) = (total * p[i]) \div 100
    BY <1>3
  <2> HIDE DEF floor, q, p
  <2> QED BY <2>1, <2>2
<1>5. SumOver(p, 1 .. n) = 100
  BY <1>1 DEF HeirsOf, Percents
<1>6. /\ \A i \in 1 .. l : sh[i] = floor[i]
      /\ sh[n] = total - rest
  <2> DEFINE F(i) == IF i \in 1 .. n - 1 THEN floor[i] ELSE total - rest
  <2>1. sh = [i \in 1 .. n |-> F(i)]
    BY <1>1 DEF Shares
  <2>2. /\ \A i \in 1 .. l : F(i) = floor[i]
        /\ F(n) = total - rest
    <3> HIDE DEF floor, rest
    <3> QED OBVIOUS
  <2> HIDE DEF sh, F, floor, rest
  <2> QED BY <1>2, <2>1, <2>2
<1> HIDE DEF p, floor, sh, l
<1>7. rest \in Nat /\ parts \in Nat /\ rest <= (total * parts) \div 100
  <2>1. n \in Nat /\ \A i \in 1 .. n : p[i] \in Nat /\ floor[i] = (total * p[i]) \div 100
    BY <1>3, <1>4
  <2>2. \A m \in 0 .. n : /\ SumOver(floor, 1 .. m) \in Nat /\ SumOver(p, 1 .. m) \in Nat
                          /\ SumOver(floor, 1 .. m) <= (total * SumOver(p, 1 .. m)) \div 100
    BY <2>1, FloorsOfParts
  <2> QED BY <1>2, <2>2
<1>8. parts + p[n] = 100
  BY <1>2, <1>3, <1>5, SumToNext
<1>9. \A i \in 1 .. l : floor[i] \in Nat
  <2> SUFFICES ASSUME NEW i \in 1 .. l PROVE floor[i] \in Nat
    OBVIOUS
  <2>1. i \in 1 .. n /\ p[i] \in Nat
    BY <1>2, <1>3
  <2>2. total * p[i] \in Nat
    BY <2>1
  <2>3. (total * p[i]) \div 100 \in Nat
    BY <2>2, DivisionKeepsOrder
  <2> QED BY <1>4, <2>1, <2>3
<1>10. IsFiniteSet(1 .. l)
  BY <1>2, FS_Interval
<1>11. SumOver(sh, 1 .. l) = rest
  BY <1>6, <1>10, SumOfSame
<1> HIDE DEF rest, parts
<1>12. rest <= total
  <2>1. parts <= 100
    BY <1>2, <1>3, <1>7, <1>8
  <2>2. parts * total <= 100 * total /\ parts * total \in Nat /\ 100 * total \in Nat
    BY <1>7, <2>1, ProductKeepsOrder
  <2>3. parts * total = total * parts /\ 100 * total = total * 100
    BY <1>7
  <2>4. (total * parts) \div 100 <= (total * 100) \div 100 /\ (total * 100) \div 100 = total
        /\ (total * parts) \div 100 \in Nat
    BY <2>2, <2>3, DivisionKeepsOrder
  <2> QED BY <1>7, <2>4
<1>13. sh[n] \in Nat
  BY <1>6, <1>7, <1>12
<1>14. \A i \in 1 .. n : sh[i] \in Nat
  <2> SUFFICES ASSUME NEW i \in 1 .. n PROVE sh[i] \in Nat
    OBVIOUS
  <2>1. i = n \/ i \in 1 .. l
    BY <1>2
  <2> QED BY <1>6, <1>9, <1>13, <2>1
<1>15. SumOver(sh, 1 .. n) = SumOver(sh, 1 .. l) + sh[n]
  BY <1>2, <1>14, SumToNext
<1>16. SumOver(sh, 1 .. n) = total
  BY <1>6, <1>7, <1>11, <1>15
<1> QED BY <1>14, <1>16 DEF sh

\* No more than all is given to the first heirs.
LEMMA FirstShares ==
    ASSUME NEW n \in Nat, NEW sh, \A i \in 1 .. n : sh[i] \in Nat, NEW k \in 0 .. n
    PROVE  /\ SumOver(sh, 1 .. k) \in Nat /\ SumOver(sh, 1 .. n) \in Nat
           /\ SumOver(sh, 1 .. k) <= SumOver(sh, 1 .. n)
<1>1. IsFiniteSet(1 .. k) /\ IsFiniteSet(k + 1 .. n)
  BY FS_Interval
<1>2. 1 .. n = (1 .. k) \cup (k + 1 .. n) /\ (1 .. k) \cap (k + 1 .. n) = {}
  OBVIOUS
<1> DEFINE A == 1 .. k
           B == k + 1 .. n
           N == 1 .. n
<1> HIDE DEF A, B, N
<1>3. N = A \cup B /\ A \cap B = {} /\ IsFiniteSet(A) /\ IsFiniteSet(B)
  BY <1>1, <1>2 DEF A, B, N
<1>4. \A i \in A \cup B : sh[i] \in Nat
  BY <1>3 DEF N
<1>5. SumOver(sh, A) \in Nat /\ SumOver(sh, B) \in Nat
  BY <1>3, <1>4, SumOfNaturals
<1>6. SumOver(sh, A \cup B) = SumOver(sh, A) + SumOver(sh, B)
  BY <1>3, <1>4, SumOfParts
<1>7. /\ SumOver(sh, A) \in Nat /\ SumOver(sh, N) \in Nat
      /\ SumOver(sh, A) <= SumOver(sh, N)
  BY <1>3, <1>5, <1>6
<1> QED BY <1>7 DEF A, N

-----------------------------------------------------------------------------
(* What arrives of a gift, and of all of them.                             *)

\* Balances to compute with.
BalancesOK(e) ==
    /\ BalanceShape(e)
    /\ e.free \in [Accounts -> Int] /\ e.reserved \in [Accounts -> Int]

\* From e to g, v moves from src to dst.
GivesFree(e, g, src, dst, v) ==
    /\ g.reserved = e.reserved
    /\ \A a \in Accounts :
          g.free[a] = e.free[a] + (IF a = dst THEN v ELSE 0) - (IF a = src THEN v ELSE 0)

\* A gift of somebody with enough to somebody with an account arrives.
LEMMA GivenArrives ==
    ASSUME NEW e, BalancesOK(e), NEW src \in Accounts, NEW dst \in Accounts, NEW v \in Nat,
           frozen[src] = 0, e.free[src] >= v + ExistentialDeposit,
           e.free[dst] + v >= ExistentialDeposit
    PROVE  BalancesOK(Given(e, src, dst, v)) /\ GivesFree(e, Given(e, src, dst, v), src, dst, v)
<1> DEFINE g == Given(e, src, dst, v)
           left == e.free[src] - v
           f == [[e.free EXCEPT ![src] = left] EXCEPT ![dst] = @ + v]
<1>0. ExistentialDeposit \in Nat /\ e.free[src] \in Int /\ e.free[dst] \in Int
      /\ e.free \in [Accounts -> Int] /\ e.reserved \in [Accounts -> Int]
  BY LedgerAssumption DEF BalancesOK
<1>1. left \in Int /\ left >= ExistentialDeposit /\ e.free[dst] + v >= ExistentialDeposit
  BY <1>0
<1>2. BalanceShape(g) /\ g.reserved = e.reserved
  BY GiftsAreFree DEF BalancesOK
<1>3. CASE v = 0 \/ src = dst
  <2>1. g = e
    BY <1>3 DEF Given
  <2> HIDE DEF g
  <2>2. GivesFree(e, g, src, dst, v)
    BY <1>0, <1>3, <2>1 DEF GivesFree
  <2> QED BY <2>1, <2>2 DEF g
<1>4. CASE v # 0 /\ src # dst
  <2> DEFINE dust == IF left < ExistentialDeposit THEN left ELSE 0
             y == e.issuance - dust
             z == left - dust
             c == \/ v = 0 \/ src = dst
                  \/ left < frozen[src]
                  \/ e.free[dst] + v < ExistentialDeposit
                  \/ (frozen[src] > 0 \/ e.reserved[src] > 0) /\ left < ExistentialDeposit
             w == [e EXCEPT !.free[src] = z, !.free[dst] = @ + v, !.issuance = y]
  <2>a. ~c
    <3> HIDE DEF left
    <3> QED BY <1>0, <1>1, <1>4
  <2>1. g = w
    <3>1. g = IF c THEN e ELSE [e EXCEPT !.free[src] = z, !.free[dst] = @ + v,
                                       !.issuance = @ - dust]
      BY DEF Given
    <3> HIDE DEF c, z, dust, g
    <3> QED BY <2>a, <3>1
  <2>2. z = left
    <3> HIDE DEF left
    <3> QED BY <1>0, <1>1
  <2>3. e = [free |-> e.free, reserved |-> e.reserved, issuance |-> e.issuance]
    BY DEF BalancesOK, BalanceShape
  <2> HIDE DEF g, left, y, z
  <2> DEFINE t == [e EXCEPT !.free = [e.free EXCEPT ![src] = z]]
             u == [t EXCEPT !.free = [t.free EXCEPT ![dst] = e.free[dst] + v]]
  <2>4. t = [free |-> [e.free EXCEPT ![src] = z], reserved |-> e.reserved,
             issuance |-> e.issuance]
    BY <2>3
  <2>5. w.free = [[e.free EXCEPT ![src] = z] EXCEPT ![dst] = e.free[dst] + v]
    BY <2>3
  <2>6. \A a \in Accounts : w.free[a] = IF a = dst THEN e.free[dst] + v
                                        ELSE IF a = src THEN z ELSE e.free[a]
    BY <1>0, <2>5
  <2>7. w.free \in [Accounts -> Int]
    <3>1. z \in Int /\ e.free[dst] + v \in Int
      BY <1>0, <1>1, <2>2
    <3> QED BY <1>0, <2>5, <3>1
  <2> HIDE DEF w
  <2>8. g.free \in [Accounts -> Int]
    BY <2>1, <2>7
  <2>9. BalancesOK(g)
    BY <1>0, <1>2, <2>8 DEF BalancesOK
  <2>10. ASSUME NEW a \in Accounts
         PROVE  g.free[a] = e.free[a] + (IF a = dst THEN v ELSE 0) - (IF a = src THEN v ELSE 0)
    <3>1. e.free[a] \in Int
      BY <1>0
    <3> QED BY <1>0, <1>4, <2>1, <2>2, <2>6, <3>1 DEF left
  <2>11. GivesFree(e, g, src, dst, v)
    BY <1>2, <2>10 DEF GivesFree
  <2> QED BY <2>9, <2>11 DEF g
<1> QED BY <1>3, <1>4

\* What the heirs beside the deceased have after the first k gifts, sh being the shares.
GivenTo(e, f, who, H, sh, k, n) ==
    /\ BalancesOK(f) /\ f.reserved = e.reserved
    /\ f.free[who] >= ExistentialDeposit + SumOver(sh, 1 .. n) - SumOver(sh, 1 .. k)
    /\ \A a \in Accounts : a # who => f.free[a] >= e.free[a]
    /\ who \notin H => SumOver(f.free, H) = SumOver(e.free, H) + SumOver(sh, 1 .. k)

\* One more gift.
LEMMA NextGift ==
    ASSUME NEW e, BalancesOK(e), NEW who \in Accounts, NEW H \in SUBSET Accounts,
           NEW n \in Nat, NEW sh, \A i \in 1 .. n : sh[i] \in Nat,
           NEW k \in 1 .. n, NEW f, GivenTo(e, f, who, H, sh, k - 1, n), frozen[who] = 0,
           NEW dst \in Accounts, dst = who \/ e.free[dst] >= ExistentialDeposit,
           who \notin H => dst \in H
    PROVE  GivenTo(e, Given(f, who, dst, sh[k]), who, H, sh, k, n)
<1> DEFINE l == k - 1
           v == sh[k]
           g == Given(f, who, dst, v)
           all == SumOver(sh, 1 .. n)
           now == SumOver(sh, 1 .. l)
           then == SumOver(sh, 1 .. k)
<1>1. l \in Nat /\ l \in 0 .. n /\ k \in 0 .. n /\ l + 1 = k /\ v \in Nat
      /\ \A i \in 1 .. k : i \in 1 .. n
  OBVIOUS
<1>2. GivenTo(e, f, who, H, sh, l, n)
  OBVIOUS
<1>a. v = sh[k]
  OBVIOUS
<1> HIDE DEF l, v
<1>3. now \in Nat /\ then \in Nat /\ all \in Nat /\ then <= all
  BY <1>1, FirstShares
<1>4. then = now + v
  <2>1. \A i \in 1 .. l + 1 : sh[i] \in Int
    BY <1>1
  <2> QED BY <1>1, <2>1, SumToNext DEF v
<1>5. /\ f.free[who] >= ExistentialDeposit + all - now
      /\ who \notin H => SumOver(f.free, H) = SumOver(e.free, H) + now
  BY <1>2 DEF GivenTo
<1> HIDE DEF all, now, then
<1>6. /\ ExistentialDeposit \in Nat /\ IsFiniteSet(H)
      /\ BalancesOK(f) /\ f.free \in [Accounts -> Int] /\ f.reserved = e.reserved
      /\ e.free \in [Accounts -> Int]
      /\ \A a \in Accounts : a # who => f.free[a] >= e.free[a]
  BY <1>2, LedgerAssumption, FS_Subset DEF GivenTo, BalancesOK
<1>7. f.free[who] \in Int /\ f.free[dst] \in Int /\ e.free[dst] \in Int
  BY <1>6
<1>8. f.free[who] >= v + ExistentialDeposit
  BY <1>1, <1>3, <1>4, <1>5, <1>6, <1>7
<1>9. f.free[dst] + v >= ExistentialDeposit
  BY <1>1, <1>6, <1>7, <1>8
<1>10. BalancesOK(g) /\ GivesFree(f, g, who, dst, v)
  BY <1>1, <1>6, <1>8, <1>9, GivenArrives
<1> HIDE DEF g
<1>11. /\ g.reserved = e.reserved /\ g.free \in [Accounts -> Int]
       /\ \A a \in Accounts :
             g.free[a] = f.free[a] + (IF a = dst THEN v ELSE 0) - (IF a = who THEN v ELSE 0)
  BY <1>6, <1>10 DEF GivesFree, BalancesOK
<1>12. g.free[who] >= ExistentialDeposit + all - then
  <2>1. g.free[who] = f.free[who] + (IF who = dst THEN v ELSE 0) - v
    BY <1>11
  <2> QED BY <1>1, <1>3, <1>4, <1>5, <1>6, <1>7, <2>1
<1>13. \A a \in Accounts : a # who => g.free[a] >= e.free[a]
  <2> SUFFICES ASSUME NEW a \in Accounts, a # who
               PROVE  g.free[a] >= e.free[a]
    OBVIOUS
  <2>1. /\ f.free[a] \in Int /\ e.free[a] \in Int /\ f.free[a] >= e.free[a]
        /\ g.free[a] = f.free[a] + (IF a = dst THEN v ELSE 0) - (IF a = who THEN v ELSE 0)
    BY <1>6, <1>11
  <2> QED BY <1>1, <2>1
<1>14. ASSUME who \notin H
       PROVE  SumOver(g.free, H) = SumOver(e.free, H) + then
  <2>1. dst \in H /\ dst # who /\ \A a \in H : a \in Accounts /\ a # who
    BY <1>14
  <2> DEFINE x == f.free
             y == g.free
  <2>2. /\ \A a \in H : x[a] \in Int
        /\ y[dst] = x[dst] + v
        /\ \A a \in H \ {dst} : y[a] = x[a]
    <3>1. \A a \in H : x[a] \in Int
      BY <1>6, <2>1
    <3>2. y[dst] = x[dst] + v
      <4>1. y[dst] = x[dst] + v - 0
        BY <1>11, <2>1
      <4> QED BY <1>1, <1>7, <4>1
    <3>3. ASSUME NEW a \in H \ {dst} PROVE y[a] = x[a]
      <4>1. y[a] = x[a] + 0 - 0 /\ x[a] \in Int
        BY <1>11, <2>1, <3>1
      <4> QED BY <4>1
    <3> QED BY <3>1, <3>2, <3>3
  <2> HIDE DEF x, y
  <2>3. SumOver(y, H) = SumOver(x, H) + v
    BY <1>1, <1>6, <2>1, <2>2, SumOfChange
  <2>4. SumOver(x, H) = SumOver(e.free, H) + now
    BY <1>5, <1>14 DEF x
  <2>5. SumOver(e.free, H) \in Int
    BY <1>6, <2>1, SumIsInt
  <2>6. SumOver(y, H) = SumOver(e.free, H) + then
    BY <1>1, <1>3, <1>4, <2>3, <2>4, <2>5
  <2> QED BY <2>6 DEF y
<1>15. GivenTo(e, g, who, H, sh, k, n)
  BY <1>10, <1>11, <1>12, <1>13, <1>14 DEF GivenTo, all, then
<1> QED BY <1>15 DEF g, v

\* The heirs of a list.
HeirSet(heirs) == {heirs[i][1] : i \in DOMAIN heirs}

Unheld == [a \in Accounts |-> 0]

\* Balances of people who all keep the existential deposit.
HeldWell(fr, re) ==
    /\ fr \in [Accounts -> Int] /\ re \in [Accounts -> Nat]
    /\ \A a \in Relatives : fr[a] >= ExistentialDeposit

\* What the constants are.
LEMMA EstateConstants ==
    /\ Citizens \subseteq Relatives /\ Relatives \subseteq Accounts /\ StateTreasury \in Accounts /\ IsFiniteSet(Accounts)
    /\ ExistentialDeposit \in Nat /\ OutstandingDebt \in [Accounts -> Nat]
BY LedgerAssumption, InheritanceAssumption, IdentityAssumption, EstatesAssumption DEF Relatives

\* The estate arrives: what is left of it is given to the heirs, in full.
LEMMA AllGifts ==
    ASSUME NEW e, BalancesOK(e), NEW who \in Citizens, NEW n \in Nat \ {0},
           NEW heirs, HeirsOf(heirs, n), NEW total \in Nat, frozen[who] = 0,
           e.free[who] >= ExistentialDeposit + total,
           \A a \in Relatives : e.free[a] >= ExistentialDeposit
    PROVE  GivenTo(e, Distributed(e, who, heirs, total), who, HeirSet(heirs),
                   Shares(total, heirs), n, n)
<1> DEFINE sh == Shares(total, heirs)
           H == HeirSet(heirs)
           Z(k, f) == GivenTo(e, f, who, H, sh, k, n)
<1>1. DOMAIN heirs = 1 .. n /\ \A i \in 1 .. n : heirs[i][1] \in Relatives
  BY DEF HeirsOf, Relatives
<1>2. PICK after : /\ InTurn(e, who, heirs, total, n, after)
                   /\ Distributed(e, who, heirs, total) = after[n]
  BY <1>1, GiftsInTurn
<1>3. (\A i \in 1 .. n : sh[i] \in Nat) /\ SumOver(sh, 1 .. n) = total
  BY SharesAddUp
<1>4. H \in SUBSET Accounts /\ who \in Accounts /\ \A i \in 1 .. n : heirs[i][1] \in H
  BY <1>1, EstateConstants DEF HeirSet
<1>5. after[0] = e /\ \A k \in 1 .. n : after[k] = Given(after[k - 1], who, heirs[k][1], sh[k])
  BY <1>2 DEF InTurn
<1> HIDE DEF sh, H
<1>6. Z(0, after[0])
  <2>1. SumOver(sh, 1 .. 0) = 0
    BY SumToNone
  <2>2. \A a \in Accounts : e.free[a] \in Int
    BY DEF BalancesOK
  <2>3. e.free[who] >= ExistentialDeposit + total - 0
    BY <1>4, <2>2, EstateConstants
  <2>4. SumOver(e.free, H) = SumOver(e.free, H) + 0
    <3>1. IsFiniteSet(H)
      BY <1>4, EstateConstants, FS_Subset
    <3>2. SumOver(e.free, H) \in Int
      BY <1>4, <2>2, <3>1, SumIsInt
    <3> QED BY <3>2
  <2>5. \A a \in Accounts : a # who => e.free[a] >= e.free[a]
    BY <2>2
  <2> QED BY <1>3, <1>5, <2>1, <2>3, <2>4, <2>5 DEF GivenTo
<1> DEFINE T == {k \in 0 .. n : ~Z(k, after[k])}
<1>7. T = {}
  <2>1. SUFFICES ASSUME T # {} PROVE FALSE
    OBVIOUS
  <2>a. T \subseteq Nat
    OBVIOUS
  <2>2. PICK m \in T : \A k \in T : m <= k
    <3> HIDE DEF T
    <3> QED BY <2>1, <2>a, LeastNatural
  <2>3. m # 0
    BY <1>6, <2>2
  <2>4. m \in 1 .. n /\ m - 1 \in 0 .. n /\ m - 1 \notin T
    BY <2>2, <2>3
  <2>5. Z(m - 1, after[m - 1])
    BY <2>4
  <2> DEFINE dst == heirs[m][1]
             f == after[m - 1]
  <2>6. dst \in Accounts /\ e.free[dst] >= ExistentialDeposit /\ dst \in H
    BY <1>1, <1>4, <2>4, EstateConstants
  <2>7. after[m] = Given(f, who, dst, sh[m])
    BY <1>5, <2>4
  <2> HIDE DEF dst, f
  <2>8. GivenTo(e, f, who, H, sh, m - 1, n)
    BY <2>5 DEF f
  <2>9. Z(m, Given(f, who, dst, sh[m]))
    BY <1>3, <1>4, <2>4, <2>6, <2>8, NextGift
  <2> QED BY <2>2, <2>7, <2>9
<1>8. n \in 0 .. n
  OBVIOUS
<1>9. Z(n, after[n])
  BY <1>7, <1>8
<1> QED BY <1>2, <1>9 DEF sh, H

\* What is released moves from the reserve to what is free.
LEMMA UnreservedBalances ==
    ASSUME NEW e, BalancesOK(e), NEW who \in Accounts, NEW v \in Int
    PROVE  LET u == Unreserved(e, who, v)
           IN  /\ BalancesOK(u)
               /\ u.reserved = Less(e.reserved, who, v)
               /\ u.reserved[who] = e.reserved[who] - v
               /\ u.free[who] = e.free[who] + v
               /\ \A a \in Accounts : a # who => /\ u.free[a] = e.free[a]
                                                 /\ u.reserved[a] = e.reserved[a]
<1> DEFINE u == Unreserved(e, who, v)
           f == [e.free EXCEPT ![who] = @ + v]
           t == [e EXCEPT !.free = f]
           r == Less(e.reserved, who, v)
<1>1. e = [free |-> e.free, reserved |-> e.reserved, issuance |-> e.issuance]
      /\ e.free \in [Accounts -> Int] /\ e.reserved \in [Accounts -> Int]
  BY DEF BalancesOK, BalanceShape
<1>2. BalanceShape(u) /\ u.reserved = r
  BY <1>1, ReleasedBalances DEF BalancesOK
<1>3. u = [e EXCEPT !.free = f, !.reserved = r]
  BY DEF Unreserved, Less
<1>4. /\ f \in [Accounts -> Int] /\ f[who] = e.free[who] + v
      /\ \A a \in Accounts : a # who => f[a] = e.free[a]
  BY <1>1
<1>5. /\ r \in [Accounts -> Int] /\ r[who] = e.reserved[who] - v
      /\ \A a \in Accounts : a # who => r[a] = e.reserved[a]
  BY <1>1 DEF Less
<1> HIDE DEF u, f, r
<1>6. t = [free |-> f, reserved |-> e.reserved, issuance |-> e.issuance]
  BY <1>1
<1>7. u = [t EXCEPT !.reserved = r]
  BY <1>1, <1>3, <1>6
<1> HIDE DEF t
<1>8. u.free = f
  BY <1>6, <1>7
<1>9. BalancesOK(u)
  BY <1>2, <1>4, <1>5, <1>8 DEF BalancesOK
<1> QED BY <1>2, <1>4, <1>5, <1>8, <1>9 DEF u, r

\* What is burned leaves the reserve and nothing else.
LEMMA DebtBurned ==
    ASSUME NEW e, BalancesOK(e), NEW who \in Accounts, NEW v \in Int
    PROVE  LET u == Burned(e, who, v)
           IN  /\ BalancesOK(u) /\ u.free = e.free
               /\ u.reserved[who] = e.reserved[who] - v
               /\ \A a \in Accounts : a # who => u.reserved[a] = e.reserved[a]
<1> DEFINE u == Burned(e, who, v)
           i == e.issuance - v
           r == Less(e.reserved, who, v)
           t == [e EXCEPT !.reserved = r]
<1>1. e = [free |-> e.free, reserved |-> e.reserved, issuance |-> e.issuance]
      /\ e.free \in [Accounts -> Int] /\ e.reserved \in [Accounts -> Int]
  BY DEF BalancesOK, BalanceShape
<1>2. u = [e EXCEPT !.reserved = r, !.issuance = i]
  BY DEF Burned, Less
<1>3. /\ r \in [Accounts -> Int] /\ r[who] = e.reserved[who] - v
      /\ \A a \in Accounts : a # who => r[a] = e.reserved[a]
  BY <1>1 DEF Less
<1> HIDE DEF u, i, r
<1>4. t = [free |-> e.free, reserved |-> r, issuance |-> e.issuance]
  BY <1>1
<1>5. u = [t EXCEPT !.issuance = i]
  BY <1>1, <1>2, <1>4
<1> HIDE DEF t
<1>6. u = [free |-> e.free, reserved |-> r, issuance |-> i]
  BY <1>4, <1>5
<1>7. u.free = e.free /\ u.reserved = r /\ BalancesOK(u)
  BY <1>1, <1>3, <1>6 DEF BalancesOK, BalanceShape
<1> QED BY <1>3, <1>7 DEF u


\* A release of no more than what is held keeps the deposits of citizens.
LEMMA ReleasedWell ==
    ASSUME NEW e, BalanceShape(e), HeldWell(e.free, e.reserved), NEW who \in Accounts, NEW v \in Nat
    PROVE  LET u == Released(e, who, v)
           IN  /\ BalanceShape(u) /\ HeldWell(u.free, u.reserved)
               /\ \A a \in Accounts : a # who => u.free[a] = e.free[a]
<1> DEFINE x == IF v < e.reserved[who] THEN v ELSE e.reserved[who]
           u == Unreserved(e, who, x)
<1>1. /\ e.free \in [Accounts -> Int] /\ e.reserved \in [Accounts -> Nat]
      /\ e.reserved[who] \in Nat
  BY DEF HeldWell
<1>2. x \in Nat /\ x <= e.reserved[who]
  BY <1>1
<1>3. BalancesOK(e)
  BY <1>1 DEF BalancesOK
<1>4. Released(e, who, v) = u
  BY DEF Released
<1> HIDE DEF x
<1>5. /\ BalancesOK(u)
      /\ u.reserved[who] = e.reserved[who] - x /\ u.free[who] = e.free[who] + x
      /\ \A a \in Accounts : a # who => /\ u.free[a] = e.free[a]
                                        /\ u.reserved[a] = e.reserved[a]
  BY <1>2, <1>3, UnreservedBalances
<1> HIDE DEF u
<1>6. u.reserved[who] \in Nat
  BY <1>1, <1>2, <1>5
<1>7. \A a \in Accounts : u.reserved[a] \in Nat
  BY <1>1, <1>5, <1>6
<1>8. \A a \in Relatives : u.free[a] >= ExistentialDeposit
  <2> SUFFICES ASSUME NEW a \in Relatives PROVE u.free[a] >= ExistentialDeposit
    OBVIOUS
  <2>1. a \in Accounts /\ e.free[a] \in Int /\ e.free[a] >= ExistentialDeposit
    BY <1>1, EstateConstants DEF HeldWell
  <2>2. u.free[a] = e.free[a] \/ u.free[a] = e.free[a] + x
    BY <1>5, <2>1
  <2> QED BY <1>2, <2>1, <2>2, EstateConstants
<1>9. /\ BalanceShape(u) /\ u.free \in [Accounts -> Int] /\ u.reserved \in [Accounts -> Nat]
  BY <1>5, <1>7 DEF BalancesOK
<1> QED BY <1>4, <1>5, <1>8, <1>9 DEF HeldWell

\* What the estate of who leaves, with s the balances after and e those before.
LeftToHeirs(e, s, who) ==
    LET held == e.reserved[who]
        H == HeirSet(wills[who].heirs)
    IN  who \notin H => SumOver(s.free, H) - SumOver(e.free, H) = held - DebtToBurn(e, who)

\* An estate with a notarized will.
LEMMA WillSettled ==
    ASSUME NEW e, BalanceShape(e), HeldWell(e.free, e.reserved), NEW who \in Citizens,
           WillsOK, frozen = Unheld, IsNotarized(who)
    PROVE  LET s == Settled(e, who)
           IN  /\ HeldWell(s.free, s.reserved) /\ s.reserved[who] = 0
               /\ LeftToHeirs(e, s, who)
<1> DEFINE held == e.reserved[who]
           burn == DebtToBurn(e, who)
           net == held - burn
           heirs == wills[who].heirs
           b == Burned(e, who, burn)
           u == Unreserved(b, who, net)
           s == Distributed(u, who, heirs, net)
           H == HeirSet(heirs)
<1>1. /\ who \in Accounts /\ e.free \in [Accounts -> Int] /\ e.reserved \in [Accounts -> Nat]
      /\ \A a \in Relatives : e.free[a] >= ExistentialDeposit
  BY EstateConstants DEF HeldWell
<1>2. held \in Nat /\ burn \in Nat /\ net \in Nat
  <2>1. held \in Nat /\ OutstandingDebt[who] \in Nat
    BY <1>1, EstateConstants
  <2>2. burn = IF OutstandingDebt[who] < held THEN OutstandingDebt[who] ELSE held
    BY DEF DebtToBurn
  <2> HIDE DEF held, burn
  <2> QED BY <2>1, <2>2
<1>a. net = held - burn /\ held = e.reserved[who]
  OBVIOUS
<1>3. Settled(e, who) = s
  BY DEF Settled
<1>4. PICK n \in Nat \ {0} : HeirsOf(heirs, n)
  BY DEF WillsOK, IsNotarized
<1>5. BalancesOK(e)
  BY <1>1 DEF BalancesOK
<1> HIDE DEF burn, net, held, heirs
<1>6. /\ BalancesOK(b) /\ b.free = e.free
      /\ b.reserved[who] = e.reserved[who] - burn
      /\ \A a \in Accounts : a # who => b.reserved[a] = e.reserved[a]
  BY <1>1, <1>2, <1>5, DebtBurned
<1> HIDE DEF b
<1>7. /\ BalancesOK(u)
      /\ u.reserved[who] = b.reserved[who] - net
      /\ u.free[who] = b.free[who] + net
      /\ \A a \in Accounts : a # who => /\ u.free[a] = b.free[a]
                                        /\ u.reserved[a] = b.reserved[a]
  <2>1. BalancesOK(b) /\ who \in Accounts /\ net \in Int
    BY <1>1, <1>2, <1>6
  <2> HIDE DEF net
  <2> QED BY <2>1, UnreservedBalances
<1> HIDE DEF u
<1>8. u.reserved[who] = 0
  BY <1>a, <1>2, <1>6, <1>7
<1>9. frozen[who] = 0
  BY <1>1 DEF Unheld
<1>10. /\ e.free[who] \in Int /\ e.free[who] >= ExistentialDeposit
       /\ u.free[who] = e.free[who] + net
  BY <1>1, <1>6, <1>7, EstateConstants
<1>11. \A a \in Relatives : u.free[a] >= ExistentialDeposit
  <2> SUFFICES ASSUME NEW a \in Relatives PROVE u.free[a] >= ExistentialDeposit
    OBVIOUS
  <2>1. a \in Accounts /\ e.free[a] \in Int /\ e.free[a] >= ExistentialDeposit
    BY <1>1, EstateConstants
  <2>2. CASE a = who
    BY <1>2, <1>10, <2>2, EstateConstants
  <2>3. CASE a # who
    BY <1>6, <1>7, <2>1, <2>3
  <2> QED BY <2>2, <2>3
<1>12. u.free[who] >= ExistentialDeposit + net
  BY <1>2, <1>10, EstateConstants
<1>13. GivenTo(u, s, who, H, Shares(net, heirs), n, n)
  BY <1>2, <1>4, <1>7, <1>9, <1>11, <1>12, AllGifts
<1>14. SumOver(Shares(net, heirs), 1 .. n) = net
  BY <1>2, <1>4, SharesAddUp
<1> HIDE DEF s, H
<1>15. /\ BalancesOK(s) /\ s.reserved = u.reserved
       /\ s.free[who] >= ExistentialDeposit + net - net
       /\ \A a \in Accounts : a # who => s.free[a] >= u.free[a]
       /\ who \notin H => SumOver(s.free, H) = SumOver(u.free, H) + net
  BY <1>13, <1>14 DEF GivenTo
<1>16. \A a \in Accounts : s.reserved[a] \in Nat
  BY <1>1, <1>6, <1>7, <1>8, <1>15
<1>17. \A a \in Relatives : s.free[a] >= ExistentialDeposit
  <2> SUFFICES ASSUME NEW a \in Relatives PROVE s.free[a] >= ExistentialDeposit
    OBVIOUS
  <2>1. a \in Accounts /\ s.free[a] \in Int /\ u.free[a] \in Int /\ u.free[a] >= ExistentialDeposit
    BY <1>7, <1>11, <1>15, EstateConstants DEF BalancesOK
  <2>2. CASE a = who
    BY <1>2, <1>15, <2>1, <2>2, EstateConstants
  <2>3. CASE a # who
    BY <1>15, <2>1, <2>3, EstateConstants
  <2> QED BY <2>2, <2>3
<1>18. HeldWell(s.free, s.reserved)
  BY <1>15, <1>16, <1>17 DEF HeldWell, BalancesOK
<1>19. ASSUME who \notin H
       PROVE  SumOver(s.free, H) - SumOver(e.free, H) = net
  <2>1. H \subseteq Accounts /\ IsFiniteSet(H)
    <3>1. H \subseteq Relatives
      BY <1>4 DEF H, HeirSet, HeirsOf, Relatives
    <3> QED BY <3>1, EstateConstants, FS_Subset
  <2>2. \A a \in H : e.free[a] \in Int /\ u.free[a] = e.free[a]
    BY <1>1, <1>6, <1>7, <1>19, <2>1
  <2>3. SumOver(u.free, H) = SumOver(e.free, H) /\ SumOver(e.free, H) \in Int
    BY <2>1, <2>2, SumOfSame, SumIsInt
  <2>4. SumOver(s.free, H) = SumOver(u.free, H) + net
    BY <1>15, <1>19
  <2> QED BY <1>2, <2>3, <2>4
<1>20. LeftToHeirs(e, s, who)
  BY <1>19 DEF LeftToHeirs, H, heirs, net, held, burn
<1>21. s.reserved[who] = 0
  BY <1>8, <1>15
<1> QED BY <1>3, <1>18, <1>20, <1>21 DEF s, u, b, net, held, burn, heirs

\* An estate without one goes to the treasury.
LEMMA TreasuryInherits ==
    ASSUME NEW e, BalanceShape(e), HeldWell(e.free, e.reserved), NEW who \in Citizens,
           frozen = Unheld, ~IsNotarized(who)
    PROVE  LET s == Settled(e, who) IN HeldWell(s.free, s.reserved)
<1> DEFINE held == e.reserved[who]
           u == Unreserved(e, who, held)
           s == Given(u, who, StateTreasury, held)
<1>1. /\ who \in Accounts /\ e.free \in [Accounts -> Int] /\ e.reserved \in [Accounts -> Nat]
      /\ \A a \in Relatives : e.free[a] >= ExistentialDeposit
      /\ held \in Nat /\ e.free[who] \in Int /\ e.free[who] >= ExistentialDeposit
  BY EstateConstants DEF HeldWell
<1>2. Settled(e, who) = s
  BY DEF Settled
<1>3. BalancesOK(e)
  BY <1>1 DEF BalancesOK
<1>a. held = e.reserved[who]
  OBVIOUS
<1> HIDE DEF held
<1>4. /\ BalancesOK(u)
      /\ u.reserved[who] = e.reserved[who] - held
      /\ u.free[who] = e.free[who] + held
      /\ \A a \in Accounts : a # who => /\ u.free[a] = e.free[a]
                                        /\ u.reserved[a] = e.reserved[a]
  <2>1. who \in Accounts /\ held \in Int
    BY <1>1
  <2> QED BY <1>3, <2>1, UnreservedBalances
<1> HIDE DEF u
<1>5. frozen[who] = 0
  BY <1>1 DEF Unheld
<1>6. u.free[who] >= held + ExistentialDeposit
  BY <1>1, <1>4, EstateConstants
<1>7. BalancesOK(s) /\ (s = u \/ GivesFree(u, s, who, StateTreasury, held))
  <2>1. CASE u.free[StateTreasury] + held >= ExistentialDeposit
    BY <1>1, <1>4, <1>5, <1>6, <2>1, EstateConstants, GivenArrives
  <2>2. CASE ~(u.free[StateTreasury] + held >= ExistentialDeposit)
    <3>1. u.free[StateTreasury] + held < ExistentialDeposit
      BY <1>1, <1>4, <2>2, EstateConstants DEF BalancesOK
    <3>2. s = u
      BY <3>1 DEF Given
    <3> QED BY <1>4, <3>2
  <2> QED BY <2>1, <2>2
<1> HIDE DEF s
<1>8. s.reserved = u.reserved
  BY <1>7 DEF GivesFree
<1>9. \A a \in Accounts : s.reserved[a] \in Nat
  BY <1>a, <1>1, <1>4, <1>8
<1>10. \A a \in Relatives : s.free[a] >= ExistentialDeposit
  <2> SUFFICES ASSUME NEW a \in Relatives PROVE s.free[a] >= ExistentialDeposit
    OBVIOUS
  <2>1. a \in Accounts /\ e.free[a] \in Int /\ e.free[a] >= ExistentialDeposit
    BY <1>1, EstateConstants
  <2>2. u.free[a] = IF a = who THEN e.free[a] + held ELSE e.free[a]
    BY <1>4, <2>1
  <2>3. \/ s.free[a] = u.free[a]
        \/ s.free[a] = u.free[a] + (IF a = StateTreasury THEN held ELSE 0)
                       - (IF a = who THEN held ELSE 0)
    BY <1>7, <2>1 DEF GivesFree
  <2> QED BY <1>1, <2>1, <2>2, <2>3, EstateConstants
<1>11. HeldWell(s.free, s.reserved)
  BY <1>7, <1>9, <1>10, <1>8 DEF HeldWell, BalancesOK
<1> QED BY <1>2, <1>11 DEF s, u, held
-----------------------------------------------------------------------------
(* What a call leaves free.                                                *)

\* What is held is put aside above the deposit.
LEMMA ReserveWell ==
    ASSUME HeldWell(free, reserved), NEW who \in Accounts, NEW v \in Nat, reserve(who, v)
    PROVE  HeldWell(free', reserved')
<1>1. /\ free \in [Accounts -> Int] /\ reserved \in [Accounts -> Nat]
      /\ \A a \in Relatives : free[a] >= ExistentialDeposit
  BY DEF HeldWell
<1>2. /\ v > 0 => free[who] >= v + ExistentialDeposit
      /\ free' = [free EXCEPT ![who] = @ - v] /\ reserved' = [reserved EXCEPT ![who] = @ + v]
  BY DEF reserve
<1>3. free' \in [Accounts -> Int] /\ reserved' \in [Accounts -> Nat]
  BY <1>1, <1>2
<1>4. \A a \in Relatives : free'[a] >= ExistentialDeposit
  <2> SUFFICES ASSUME NEW a \in Relatives PROVE free'[a] >= ExistentialDeposit
    OBVIOUS
  <2>1. a \in Accounts /\ free[a] \in Int /\ free[a] >= ExistentialDeposit
    BY <1>1, EstateConstants
  <2>2. free'[a] = IF a = who THEN free[a] - v ELSE free[a]
    BY <1>1, <1>2, <2>1
  <2> QED BY <1>2, <2>1, <2>2, EstateConstants
<1> QED BY <1>3, <1>4 DEF HeldWell

\* A release leaves the deposits where they are.
LEMMA ReleaseWell ==
    ASSUME HeldWell(free, reserved), NEW who \in Accounts, NEW v \in Nat,
           NEW f, f = [free EXCEPT ![who] = @ + Releasable(who, v)],
           NEW r, r = [reserved EXCEPT ![who] = @ - Releasable(who, v)]
    PROVE  HeldWell(f, r)
<1> DEFINE x == Releasable(who, v)
<1>1. /\ free \in [Accounts -> Int] /\ reserved \in [Accounts -> Nat]
      /\ \A a \in Relatives : free[a] >= ExistentialDeposit
  BY DEF HeldWell
<1>2. x \in Nat /\ x <= reserved[who]
  BY <1>1 DEF Releasable
<1> HIDE DEF x
<1>3. f = [free EXCEPT ![who] = @ + x] /\ r = [reserved EXCEPT ![who] = @ - x]
  BY DEF x
<1>4. f \in [Accounts -> Int] /\ r \in [Accounts -> Nat]
  <2>1. free[who] + x \in Int /\ reserved[who] - x \in Nat
    BY <1>1, <1>2
  <2> QED BY <1>1, <1>3, <2>1
<1>5. \A a \in Relatives : f[a] >= ExistentialDeposit
  <2> SUFFICES ASSUME NEW a \in Relatives PROVE f[a] >= ExistentialDeposit
    OBVIOUS
  <2>1. a \in Accounts /\ free[a] \in Int /\ free[a] >= ExistentialDeposit
    BY <1>1, EstateConstants
  <2>2. f[a] = IF a = who THEN free[a] + x ELSE free[a]
    BY <1>1, <1>3, <2>1
  <2> QED BY <1>2, <2>1, <2>2, EstateConstants
<1> QED BY <1>4, <1>5 DEF HeldWell

\* A payment with KeepAlive leaves the deposits where they are.
LEMMA PaymentWell ==
    ASSUME NEW bal, NEW r, HeldWell(bal, r), NEW src, NEW dst, NEW v \in Nat,
           CanPay(bal, src, dst, v)
    PROVE  HeldWell(PaidFrom(bal, src, dst, v), r)
<1> DEFINE f == PaidFrom(bal, src, dst, v)
           g == [bal EXCEPT ![src] = @ - v]
           h == [g EXCEPT ![dst] = @ + v]
<1>1. /\ bal \in [Accounts -> Int] /\ r \in [Accounts -> Nat]
      /\ \A a \in Relatives : bal[a] >= ExistentialDeposit
  BY DEF HeldWell
<1>2. CASE ~Moves(src, dst, v)
  BY <1>2 DEF PaidFrom
<1>3. CASE Moves(src, dst, v)
  <2>1. src # dst /\ bal[src] >= v + ExistentialDeposit
    BY <1>3 DEF Moves, CanPay
  <2>2. f = [bal EXCEPT ![src] = @ - v, ![dst] = @ + v]
    BY <1>3 DEF PaidFrom
  <2>3. g \in [Accounts -> Int] /\ \A a \in Accounts : g[a] = IF a = src THEN bal[a] - v ELSE bal[a]
    <3>1. g = [a \in Accounts |-> IF a = src THEN bal[a] - v ELSE bal[a]]
      BY <1>1
    <3>2. \A a \in Accounts : bal[a] \in Int /\ bal[a] - v \in Int
      BY <1>1
    <3> HIDE DEF g
    <3> QED BY <3>1, <3>2
  <2>4. f = h
    BY <1>1, <2>1, <2>2
  <2> HIDE DEF g, f
  <2>5. h \in [Accounts -> Int] /\ \A a \in Accounts : h[a] = IF a = dst THEN g[a] + v ELSE g[a]
    <3>1. h = [a \in Accounts |-> IF a = dst THEN g[a] + v ELSE g[a]]
      BY <2>3
    <3>2. \A a \in Accounts : g[a] \in Int /\ g[a] + v \in Int
      BY <2>3
    <3> HIDE DEF h
    <3> QED BY <3>1, <3>2
  <2> HIDE DEF h
  <2>6. \A a \in Relatives : h[a] >= ExistentialDeposit
    <3> SUFFICES ASSUME NEW a \in Relatives PROVE h[a] >= ExistentialDeposit
      OBVIOUS
    <3>1. a \in Accounts /\ bal[a] \in Int /\ bal[a] >= ExistentialDeposit
      BY <1>1, EstateConstants
    <3> QED BY <2>1, <2>3, <2>5, <3>1, EstateConstants
  <2>7. HeldWell(f, r)
    BY <1>1, <2>4, <2>5, <2>6 DEF HeldWell
  <2> QED BY <2>7 DEF f
<1> QED BY <1>2, <1>3

\* A transfer with KeepAlive is such a payment.
LEMMA TransferWell ==
    ASSUME HeldWell(free, reserved), NEW src, NEW dst, NEW v \in Nat,
           src \in Accounts, transfer(src, dst, v, TRUE)
    PROVE  HeldWell(free', reserved')
<1>1. /\ free \in [Accounts -> Int] /\ free[src] \in Int
  BY DEF HeldWell
<1>2. /\ CanPay(free, src, dst, v)
      /\ reserved' = reserved
  BY DEF transfer, CanTransfer, CanPay
<1>3. free' = PaidFrom(free, src, dst, v)
  <2>1. CASE ~Moves(src, dst, v)
    BY <2>1 DEF transfer, PaidFrom
  <2>2. CASE Moves(src, dst, v)
    <3>1. free[src] - v >= ExistentialDeposit
      BY <1>1, <1>2, <2>2, EstateConstants DEF Moves, CanPay
    <3>2. Dust(src, v) = 0
      BY <1>1, <3>1, EstateConstants DEF Dust
    <3>3. free[src] - v - 0 = free[src] - v
      BY <1>1
    <3>4. free' = [free EXCEPT ![src] = free[src] - v - Dust(src, v), ![dst] = @ + v]
      BY <2>2 DEF transfer
    <3>5. free' = [free EXCEPT ![src] = free[src] - v, ![dst] = @ + v]
      BY <3>2, <3>3, <3>4
    <3> QED BY <2>2, <3>5 DEF PaidFrom
  <2> QED BY <2>1, <2>2
<1> QED BY <1>2, <1>3, PaymentWell

-----------------------------------------------------------------------------
(* The steps of the estates.                                               *)

\* The quests move what they hold and leave the deposits.
LEMMA QuestMoney ==
    ASSUME HeldWell(free, reserved), GuildFields(guilds), QuestCall
    PROVE  HeldWell(free', reserved') /\ frozen' = frozen
<1>0. Rewards \subseteq Nat /\ Artisans \subseteq Accounts
  BY GuildsAssumption
<1>1. ASSUME NEW a \in Artisans, NEW g, NEW v \in Rewards, publish_quest(a, g, v)
      PROVE  HeldWell(free', reserved') /\ frozen' = frozen
  <2>1. reserve(a, v)
    BY <1>1 DEF publish_quest
  <2>2. frozen' = frozen
    BY <2>1 DEF reserve
  <2> QED BY <1>0, <2>1, <2>2, ReserveWell
<1>2. ASSUME NEW who \in Accounts, NEW v \in Nat, unreserve(who, v)
      PROVE  HeldWell(free', reserved') /\ frozen' = frozen
  BY <1>2, ReleaseWell DEF unreserve
<1>3. ASSUME NEW a \in Artisans, NEW q, cancel_quest(a, q)
      PROVE  HeldWell(free', reserved') /\ frozen' = frozen
  <2>1. unreserve(a, guilds.quests[q].reward) /\ q \in DOMAIN guilds.quests
    BY <1>3 DEF cancel_quest, Is
  <2>2. guilds.quests[q].reward \in Nat
    BY <2>1 DEF GuildFields, Quests, QuestRecord
  <2> QED BY <1>0, <1>2, <2>1, <2>2
<1>4. ASSUME NEW who, NEW dst, NEW v \in Nat, PayReserved(who, dst, v)
      PROVE  HeldWell(free', reserved') /\ frozen' = frozen
  <2> DEFINE x == Releasable(who, v)
             bal == [free EXCEPT ![who] = @ + x]
             r == [reserved EXCEPT ![who] = @ - x]
  <2>1. /\ CanPay(bal, who, dst, v) /\ free' = PaidFrom(bal, who, dst, v)
        /\ reserved' = r /\ frozen' = frozen
    BY <1>4 DEF PayReserved
  <2>2. HeldWell(bal, r)
    <3>1. CASE who \in Accounts
      BY <3>1, ReleaseWell
    <3>2. CASE who \notin Accounts
      <4>1. bal = free /\ r = reserved
        BY <3>2 DEF HeldWell
      <4> QED BY <4>1
    <3> QED BY <3>1, <3>2
  <2> HIDE DEF bal, r
  <2> QED BY <2>1, <2>2, PaymentWell
<1>5. ASSUME NEW a, NEW q, complete_quest(a, q)
      PROVE  HeldWell(free', reserved') /\ frozen' = frozen
  <2>1. q \in DOMAIN guilds.quests
        /\ \E who, dst : PayReserved(who, dst, guilds.quests[q].reward)
    BY <1>5 DEF complete_quest, Is
  <2>2. guilds.quests[q].reward \in Nat
    BY <2>1 DEF GuildFields, Quests, QuestRecord
  <2> QED BY <1>4, <2>1, <2>2
<1>6. ASSUME NEW a, NEW b, NEW q, force_resolve_quest(a, q, b)
      PROVE  HeldWell(free', reserved') /\ frozen' = frozen
  <2>1. q \in DOMAIN guilds.quests
        /\ \E who, dst : PayReserved(who, dst, guilds.quests[q].reward)
    BY <1>6 DEF force_resolve_quest, Is
  <2>2. guilds.quests[q].reward \in Nat
    BY <2>1 DEF GuildFields, Quests, QuestRecord
  <2> QED BY <1>4, <2>1, <2>2
<1>7. ASSUME UNCHANGED ledger
      PROVE  HeldWell(free', reserved') /\ frozen' = frozen
  BY <1>7 DEF ledger
<1>8. \A a, q : assign_quest(a, q) \/ submit_quest(a, q) => UNCHANGED ledger
  BY DEF assign_quest, submit_quest
<1> QED BY <1>1, <1>3, <1>5, <1>6, <1>7, <1>8 DEF QuestCall

\* The state of the estates.
EstatesOK == HeldWell(free, reserved) /\ frozen = Unheld

\* An execution moves what Settled says.
LEMMA ExecutedBalances ==
    ASSUME EstatesOK, WillsOK, NEW e, BalanceShape(e), HeldWell(e.free, e.reserved), NEW c \in Citizens,
           do_execute_will(e, c)
    PROVE  /\ HeldWell(free', reserved') /\ frozen' = frozen
           /\ IsNotarized(c) => reserved'[c] = 0 /\ LeftToHeirs(e, Settled(e, c), c)
<1> DEFINE s == Settled(e, c)
<1>1. free' = s.free /\ reserved' = s.reserved /\ frozen' = frozen
  BY DEF do_execute_will, HasBalances
<1>2. frozen = Unheld
  BY DEF EstatesOK
<1>3. HeldWell(s.free, s.reserved)
      /\ (IsNotarized(c) => s.reserved[c] = 0 /\ LeftToHeirs(e, s, c))
  BY <1>2, EstateConstants, WillSettled, TreasuryInherits
<1> HIDE DEF s
<1>4. /\ HeldWell(free', reserved')
      /\ IsNotarized(c) => reserved'[c] = 0 /\ LeftToHeirs(e, s, c)
  BY <1>1, <1>3
<1> QED BY <1>1, <1>4 DEF s

\* The balances a settlement begins with.
LEMMA BalancesBefore ==
    ASSUME EstatesOK, GuildFields(guilds), NEW c \in Citizens
    PROVE  LET e == CurrentBalances
               u == EscrowReturned(CurrentBalances, c)
           IN  /\ BalanceShape(e) /\ e.free = free /\ e.reserved = reserved
               /\ HeldWell(e.free, e.reserved)
               /\ BalanceShape(u) /\ HeldWell(u.free, u.reserved)
               /\ \A a \in Accounts : a # c => u.free[a] = free[a]
<1> DEFINE e == CurrentBalances
           v == Escrow(c, {"Open", "InProgress"})
           u == Released(e, c, v)
<1>1. BalanceShape(e) /\ e.free = free /\ e.reserved = reserved
  BY DEF CurrentBalances, BalanceShape
<1>2. HeldWell(e.free, e.reserved)
  BY <1>1 DEF EstatesOK
<1>3. c \in Accounts /\ v \in Nat
  <2>1. v = EscrowIn(guilds.quests, c, {"Open", "InProgress"})
    BY DEF Escrow, EscrowIn, QuestsOf, QuestsIn, RewardsOf
  <2>2. v \in Nat
    BY <2>1, EscrowInNatural DEF GuildFields
  <2> QED BY <2>2, EstateConstants
<1>4. EscrowReturned(CurrentBalances, c) = u
  BY DEF EscrowReturned
<1> HIDE DEF e, v
<1>5. BalanceShape(u) /\ HeldWell(u.free, u.reserved)
      /\ \A a \in Accounts : a # c => u.free[a] = e.free[a]
  BY <1>1, <1>2, <1>3, ReleasedWell
<1> QED BY <1>1, <1>2, <1>4, <1>5 DEF e

\* What the heirs of c get of what c held, and what is left of it.
InheritedFrom(c) ==
    LET heirs == {wills[c].heirs[i][1] : i \in DOMAIN wills[c].heirs} \ {c}
        held == IF is_deceased(c) THEN reserved[c]
                ELSE EscrowReturned(CurrentBalances, c).reserved[c]
        debt == IF OutstandingDebt[c] < held THEN OutstandingDebt[c] ELSE held
    IN  /\ reserved'[c] = 0
        /\ c \notin {wills[c].heirs[i][1] : i \in DOMAIN wills[c].heirs} =>
              SumOver(free', heirs) - SumOver(free, heirs) = held - debt

\* What an execution leaves to the heirs is what they get.
LEMMA HeirsInherit ==
    ASSUME WillsOK, NEW c \in Citizens, c \in DOMAIN wills, NEW e,
           e.reserved[c] = IF is_deceased(c) THEN reserved[c]
                           ELSE EscrowReturned(CurrentBalances, c).reserved[c],
           \A a \in Accounts : a # c => e.free[a] = free[a],
           reserved'[c] = 0, NEW s, free' = s.free, LeftToHeirs(e, s, c)
    PROVE  InheritedFrom(c)
<1> DEFINE H == HeirSet(wills[c].heirs)
           held == e.reserved[c]
           debt == DebtToBurn(e, c)
<1>1. H \subseteq Accounts /\ IsFiniteSet(H)
  <2>1. H \subseteq Relatives
    BY DEF WillsOK, HeirSet, HeirsOf, Relatives
  <2> QED BY <2>1, EstateConstants, FS_Subset
<1>2. ASSUME c \notin H
      PROVE  SumOver(free', H) - SumOver(free, H) = held - debt
  <2>1. \A a \in H : e.free[a] = free[a]
    BY <1>1, <1>2
  <2>2. SumOver(e.free, H) = SumOver(free, H)
    BY <1>1, <2>1, SumOfSame
  <2>3. SumOver(s.free, H) - SumOver(e.free, H) = held - debt
    BY <1>2 DEF LeftToHeirs
  <2> QED BY <2>2, <2>3
<1>3. c \notin H => H \ {c} = H
  OBVIOUS
<1>4. debt = IF OutstandingDebt[c] < held THEN OutstandingDebt[c] ELSE held
  BY DEF DebtToBurn
<1> DEFINE before == IF is_deceased(c) THEN reserved[c]
                     ELSE EscrowReturned(CurrentBalances, c).reserved[c]
<1>5. held = before
  OBVIOUS
<1> HIDE DEF held, debt, before
<1>6. c \notin H =>
         SumOver(free', H \ {c}) - SumOver(free, H \ {c})
            = before - (IF OutstandingDebt[c] < before THEN OutstandingDebt[c] ELSE before)
  BY <1>2, <1>3, <1>4, <1>5
<1> QED BY <1>6 DEF InheritedFrom, H, HeirSet, before

\* Somebody who is dead already leaves an estate.
LEMMA ExecutedEstate ==
    ASSUME EstatesOK, BooksInv, NEW c \in Citizens, execute_will(c)
    PROVE  /\ EstatesOK' /\ DOMAIN wills \ {c} \subseteq DOMAIN wills'
           /\ c \in DOMAIN wills /\ IsNotarized(c) => InheritedFrom(c)
<1> DEFINE e == CurrentBalances
           s == Settled(e, c)
<1>0. WillsOK /\ GuildFields(guilds)
  BY DEF BooksInv, HeldInv
<1>1. is_deceased(c) /\ do_execute_will(e, c)
  BY DEF execute_will
<1>2. BalanceShape(e) /\ e.free = free /\ e.reserved = reserved /\ HeldWell(e.free, e.reserved)
  BY <1>0, BalancesBefore
<1>3. /\ HeldWell(free', reserved') /\ frozen' = frozen
      /\ IsNotarized(c) => reserved'[c] = 0 /\ LeftToHeirs(e, s, c)
  BY <1>0, <1>1, <1>2, ExecutedBalances
<1>4. DOMAIN wills \ {c} \subseteq DOMAIN wills'
  BY <1>0, <1>1, ExecutedWill
<1>5. free' = s.free
  BY <1>1 DEF do_execute_will, HasBalances
<1> HIDE DEF e, s
<1>6. EstatesOK'
  BY <1>3 DEF EstatesOK, Unheld
<1>7. ASSUME c \in DOMAIN wills, IsNotarized(c)
      PROVE  InheritedFrom(c)
  BY <1>0, <1>1, <1>2, <1>3, <1>5, <1>7, HeirsInherit
<1> QED BY <1>4, <1>6, <1>7

\* Somebody who dies now leaves what a clean-up has not returned.
LEMMA EstateOfTheDead ==
    ASSUME EstatesOK, BooksInv, NEW c \in Citizens, DeathWithHook(c)
    PROVE  /\ EstatesOK' /\ DOMAIN wills \ {c} \subseteq DOMAIN wills'
           /\ c \in DOMAIN wills /\ IsNotarized(c) => InheritedFrom(c)
<1> DEFINE e == EscrowReturned(CurrentBalances, c)
           s == Settled(e, c)
<1>0. WillsOK /\ GuildFields(guilds)
  BY DEF BooksInv, HeldInv
<1>1. ~is_deceased(c) /\ do_execute_will(e, c)
  BY DEF DeathWithHook, register_death, is_deceased
<1>2. BalanceShape(e) /\ HeldWell(e.free, e.reserved)
      /\ \A a \in Accounts : a # c => e.free[a] = free[a]
  BY <1>0, BalancesBefore
<1>3. /\ HeldWell(free', reserved') /\ frozen' = frozen
      /\ IsNotarized(c) => reserved'[c] = 0 /\ LeftToHeirs(e, s, c)
  BY <1>0, <1>1, <1>2, ExecutedBalances
<1>4. DOMAIN wills \ {c} \subseteq DOMAIN wills'
  BY <1>0, <1>1, ExecutedWill
<1>5. free' = s.free
  BY <1>1 DEF do_execute_will, HasBalances
<1>6. e = EscrowReturned(CurrentBalances, c)
  OBVIOUS
<1> HIDE DEF e, s
<1>7. EstatesOK'
  BY <1>3 DEF EstatesOK, Unheld
<1>8. ASSUME c \in DOMAIN wills, IsNotarized(c)
      PROVE  InheritedFrom(c)
  BY <1>0, <1>1, <1>2, <1>3, <1>5, <1>6, <1>8, HeirsInherit
<1> QED BY <1>4, <1>7, <1>8

\* A step of the estates, and what an heir gets by it.
LEMMA EstateSteps ==
    ASSUME EstatesOK, BooksInv, EstateStep
    PROVE  /\ EstatesOK'
           /\ \A c \in DOMAIN wills :
                 IsNotarized(c) /\ c \notin DOMAIN wills' => InheritedFrom(c)
<1>0. WillsOK /\ GuildFields(guilds)
  BY DEF BooksInv, HeldInv
<1>1. ASSUME NEW c \in Citizens, NEW heirs \in HeirLists, draft_will(c, heirs)
      PROVE  EstatesOK' /\ DOMAIN wills \subseteq DOMAIN wills'
  <2>1. UNCHANGED ledger
    BY <1>1 DEF draft_will
  <2>2. DOMAIN wills \subseteq DOMAIN wills'
    BY <1>0, <1>1, DraftedWill
  <2> QED BY <2>1, <2>2 DEF EstatesOK, Unheld, ledger
<1>2. ASSUME NEW notary, NEW c, NEW fee \in Fees, notarize_will(notary, c, fee)
      PROVE  EstatesOK' /\ DOMAIN wills \subseteq DOMAIN wills'
  <2>1. DOMAIN wills' = DOMAIN wills /\ c \in Citizens
    BY <1>0, <1>2, NotarizedWill
  <2>2. transfer(c, notary, fee, TRUE) /\ fee \in Nat /\ c \in Accounts
    BY <1>2, <2>1, InheritanceAssumption, EstateConstants DEF notarize_will
  <2>3. HeldWell(free', reserved')
    BY <2>2, TransferWell DEF EstatesOK
  <2>4. frozen' = frozen
    BY <2>2 DEF transfer
  <2> QED BY <2>1, <2>3, <2>4 DEF EstatesOK, Unheld
<1>3. ASSUME QuestCall, wills' = wills
      PROVE  EstatesOK' /\ DOMAIN wills \subseteq DOMAIN wills'
  <2>1. HeldWell(free', reserved') /\ frozen' = frozen
    BY <1>0, <1>3, QuestMoney DEF EstatesOK
  <2> QED BY <1>3, <2>1 DEF EstatesOK, Unheld
<1>4. ASSUME NEW c \in Citizens, execute_will(c) \/ DeathWithHook(c)
      PROVE  /\ EstatesOK' /\ DOMAIN wills \ {c} \subseteq DOMAIN wills'
             /\ c \in DOMAIN wills /\ IsNotarized(c) => InheritedFrom(c)
  BY <1>4, ExecutedEstate, EstateOfTheDead
<1>5. ASSUME WillStep
      PROVE  \/ EstatesOK' /\ DOMAIN wills \subseteq DOMAIN wills'
             \/ \E c \in Citizens : execute_will(c) \/ DeathWithHook(c)
  BY <1>1, <1>2, <1>5 DEF WillStep
<1> QED BY <1>3, <1>4, <1>5 DEF EstateStep

\* In a behaviour about estates these are in order.
EstateInv == part = "estates" => EstatesOK

\* It holds at first.
LEMMA EstatesStart ==
    ASSUME MCInit, part = "estates"
    PROVE  EstatesOK
<1>1. free = InitialFree /\ reserved = [a \in Accounts |-> 0] /\ frozen = [a \in Accounts |-> 0]
  BY DEF MCInit, Founded, JusticeParts
<1>2. CitizenHolds \in Nat /\ TreasuryHolds \in Nat /\ ExistentialDeposit <= CitizenHolds
  BY EstatesAssumption
<1>3. free \in [Accounts -> Int] /\ \A a \in Relatives : free[a] = CitizenHolds
  <2> DEFINE F(a) == CASE a \in Citizens \cup Guests -> CitizenHolds
                       [] a = StateTreasury -> TreasuryHolds
                       [] OTHER -> 0
  <2>1. free = [a \in Accounts |-> F(a)]
    BY <1>1 DEF InitialFree
  <2>2. \A a : F(a) \in Int
    BY <1>2
  <2>3. \A a \in Relatives : F(a) = CitizenHolds
    BY EstatesAssumption DEF Relatives
  <2> HIDE DEF F
  <2> QED BY <2>1, <2>2, <2>3, EstateConstants
<1>4. HeldWell(free, reserved)
  BY <1>1, <1>2, <1>3 DEF HeldWell
<1> QED BY <1>1, <1>4 DEF EstatesOK, Unheld

\* Whoever inherits does so in a step of the estates.
LEMMA EveryoneInherits ==
    ASSUME JusticeInv, EstateInv, [MCNext]_MCvars
    PROVE  /\ EstateInv'
           /\ \A c \in DOMAIN wills :
                 IsNotarized(c) /\ c \notin DOMAIN wills' => InheritedFrom(c)
<1>1. part # "estates" => DOMAIN wills = {}
  BY DEF JusticeInv, PartInv
<1>2. CASE JusticeNext /\ part = "estates"
  <2>1. EstateStep
    BY <1>2 DEF JusticeNext
  <2> QED BY <1>2, <2>1, EstateSteps DEF EstateInv, JusticeInv
<1>3. CASE JusticeNext /\ part # "estates"
  <2>1. part' = part
    BY <1>3 DEF JusticeNext
  <2> QED BY <1>1, <1>3, <2>1 DEF EstateInv
<1>4. CASE RegistriesNext
  <2>1. part' = part /\ part # "estates" /\ wills' = wills
    BY <1>4 DEF RegistriesNext, MoneyStep, RecordStep, RegisterStep, Tick, noHook
  <2> QED BY <2>1 DEF EstateInv
<1>5. CASE UNCHANGED MCvars
  <2>1. /\ part' = part /\ wills' = wills
        /\ free' = free /\ reserved' = reserved /\ frozen' = frozen
    BY <1>5 DEF MCvars, justiceVars, civicVars, ledger
  <2>2. EstatesOK => EstatesOK'
    BY <2>1 DEF EstatesOK, Unheld
  <2> QED BY <2>1, <2>2 DEF EstateInv
<1> QED BY <1>2, <1>3, <1>4, <1>5 DEF MCNext

(***************************************************************************)
(* A notarized estate is shared out whole: nothing of it stays reserved,   *)
(* the debt of the dead is burned as far as it goes, and the heirs         *)
(* together gain all of the rest, whatever the floors of their shares.     *)
(***************************************************************************)
THEOREM HeirsShareTheRest == MCSpec => HeirsGetTheRest
<1> DEFINE A == \A c \in DOMAIN wills :
                   IsNotarized(c) /\ c \notin DOMAIN wills' => InheritedFrom(c)
<1>1. MCInit => EstateInv
  BY EstatesStart DEF EstateInv
<1>2. JusticeInv /\ EstateInv /\ [MCNext]_MCvars => EstateInv'
  BY EveryoneInherits
<1>3. JusticeInv /\ EstateInv /\ [MCNext]_MCvars => [A]_civicVars
  BY EveryoneInherits
<1>4. MCSpec => [][A]_civicVars
  BY <1>1, <1>2, <1>3, JusticeInvariant, PTL DEF MCSpec
<1>5. [A]_civicVars => [\A c \in DOMAIN wills :
          IsNotarized(c) /\ c \notin DOMAIN wills' =>
             LET heirs == {wills[c].heirs[i][1] : i \in DOMAIN wills[c].heirs} \ {c}
                 held == IF is_deceased(c) THEN reserved[c]
                         ELSE EscrowReturned(CurrentBalances, c).reserved[c]
                 debt == IF OutstandingDebt[c] < held THEN OutstandingDebt[c] ELSE held
             IN  /\ reserved'[c] = 0
                 /\ c \notin {wills[c].heirs[i][1] : i \in DOMAIN wills[c].heirs} =>
                       SumOver(free', heirs) - SumOver(free, heirs) = held - debt]_civicVars
  BY DEF InheritedFrom
<1> QED BY <1>4, <1>5, PTL DEF HeirsGetTheRest
=============================================================================
