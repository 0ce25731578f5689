---------------------------- MODULE KhuralProofs ----------------------------
(***************************************************************************)
(* Proofs about the Khural (KhuralGovernance), for every set of accounts,  *)
(* of citizens and of treasuries, every quorum, deposit and voting period  *)
(* and every bound on what a behaviour opens.                              *)
(*                                                                         *)
(* The hook of a block enacts the expired proposals one after the other,   *)
(* in any order.  What the first i of them have done, EnactedSoFar, is     *)
(* carried along the order: the proposals among them that are executed     *)
(* account for every balance, since none is enacted twice.                 *)
(***************************************************************************)
EXTENDS KhuralGovernance, LedgerSums

-----------------------------------------------------------------------------
(* The chain of states that a sequence of proposals passes through.        *)

\* The i-th state of the chain, from the states g before it.
EnactStep(ids, g, i) ==
    IF i = 0 THEN [free |-> free, proposals |-> proposals]
             ELSE enact_proposal(g[i - 1], ids[i])

\* g holds the first states of the chain, up to the n-th.
EnactsTo(ids, n, g) == g = [i \in 0 .. n |-> EnactStep(ids, g, i)]

\* A chain can be continued by a state.
LEMMA ChainExtends ==
    ASSUME NEW ids, NEW n \in Nat, NEW g, EnactsTo(ids, n, g)
    PROVE  \E h : EnactsTo(ids, n + 1, h)
<1> DEFINE h == [i \in 0 .. n + 1 |-> EnactStep(ids, g, i)]
           H(i) == EnactStep(ids, h, i)
           G(i) == EnactStep(ids, g, i)
<1>1. \A i \in 0 .. n : h[i] = g[i]
  BY DEF EnactsTo
<1>2. h = [i \in 0 .. n + 1 |-> G(i)]
  OBVIOUS
<1> HIDE DEF h
<1>3. \A i \in 0 .. n + 1 : H(i) = G(i)
  <2> SUFFICES ASSUME NEW i \in 0 .. n + 1 PROVE H(i) = G(i)
    OBVIOUS
  <2>1. i # 0 => h[i - 1] = g[i - 1]
    BY <1>1
  <2> QED BY <2>1 DEF EnactStep
<1> HIDE DEF H, G
<1>4. h = [i \in 0 .. n + 1 |-> H(i)]
  BY <1>2, <1>3
<1> QED BY <1>4 DEF EnactsTo, H

\* There are chains of every length.
LEMMA ChainExists ==
    ASSUME NEW ids, NEW n \in Nat
    PROVE  \E g : EnactsTo(ids, n, g)
<1> DEFINE T == {k \in Nat : ~ \E g : EnactsTo(ids, k, g)}
<1>1. SUFFICES ASSUME T # {} PROVE FALSE
  OBVIOUS
<1>2. PICK m \in T : \A k \in T : m <= k
  BY <1>1, LeastNatural
<1>3. CASE m = 0
  <2> DEFINE s == [free |-> free, proposals |-> proposals]
             g == [i \in 0 .. 0 |-> s]
             G(i) == EnactStep(ids, g, i)
  <2>1. \A i \in 0 .. 0 : G(i) = s
    BY DEF EnactStep
  <2>2. g = [i \in 0 .. 0 |-> s]
    OBVIOUS
  <2> HIDE DEF g, G, s
  <2>3. g = [i \in 0 .. 0 |-> G(i)]
    BY <2>1, <2>2
  <2>4. EnactsTo(ids, 0, g)
    BY <2>3 DEF EnactsTo, G
  <2> QED BY <1>2, <1>3, <2>4
<1>4. CASE m # 0
  <2>1. m - 1 \in Nat /\ m - 1 \notin T /\ (m - 1) + 1 = m
    BY <1>2, <1>4
  <2>2. PICK g : EnactsTo(ids, m - 1, g)
    BY <2>1
  <2>3. \E h : EnactsTo(ids, (m - 1) + 1, h)
    BY <2>1, <2>2, ChainExtends
  <2> QED BY <1>2, <2>1, <2>3
<1> QED BY <1>3, <1>4

\* What the chain of the hook is.
LEMMA ChainUnfolds ==
    ASSUME NEW ids, Len(ids) \in Nat
    PROVE  /\ Enacted(ids)[0] = [free |-> free, proposals |-> proposals]
           /\ \A i \in 1 .. Len(ids) : Enacted(ids)[i] = enact_proposal(Enacted(ids)[i - 1], ids[i])
<1> DEFINE g == Enacted(ids)
<1>1. g = CHOOSE h : EnactsTo(ids, Len(ids), h)
  BY DEF Enacted, EnactsTo, EnactStep
<1>2. \E h : EnactsTo(ids, Len(ids), h)
  BY ChainExists
<1> HIDE DEF g
<1>3. EnactsTo(ids, Len(ids), g)
  BY <1>1, <1>2
<1>4. \A i \in 0 .. Len(ids) : g[i] = EnactStep(ids, g, i)
  BY <1>3 DEF EnactsTo
<1>5. g[0] = [free |-> free, proposals |-> proposals]
  BY <1>4 DEF EnactStep
<1>6. \A i \in 1 .. Len(ids) : g[i] = enact_proposal(g[i - 1], ids[i])
  BY <1>4 DEF EnactStep
<1> QED BY <1>5, <1>6 DEF g

-----------------------------------------------------------------------------
(* What one proposal does to the balances.                                 *)

\* A nation's treasury is an account, and no citizen's.
LEMMA TreasuriesAreAccounts ==
    \A n \in DOMAIN NationTreasuries :
        NationTreasuries[n] \in Accounts /\ NationTreasuries[n] \notin Citizens
BY KhuralAssumption

\* A payment takes the amount from one account and gives it to another.
LEMMA PaidFromMoves ==
    ASSUME NEW bal \in [Accounts -> Nat], NEW src \in Accounts, NEW dst \in Accounts,
           NEW v \in Nat, frozen \in [Accounts -> Nat], CanPay(bal, src, dst, v)
    PROVE  /\ PaidFrom(bal, src, dst, v) \in [Accounts -> Nat]
           /\ \A a \in Accounts : PaidFrom(bal, src, dst, v)[a] =
                 bal[a] - (IF a = src /\ a # dst THEN v ELSE 0)
                        + (IF a # src /\ a = dst THEN v ELSE 0)
           /\ \A a \in Accounts : bal[a] >= ExistentialDeposit =>
                 PaidFrom(bal, src, dst, v)[a] >= ExistentialDeposit
<1>1. ExistentialDeposit \in Nat
  BY LedgerAssumption
<1>2. CASE v = 0 \/ src = dst
  <2>1. PaidFrom(bal, src, dst, v) = bal
    BY <1>2 DEF PaidFrom, Moves
  <2> QED BY <1>2, <2>1
<1>3. CASE v # 0 /\ src # dst
  <2>1. PaidFrom(bal, src, dst, v) = [bal EXCEPT ![src] = @ - v, ![dst] = @ + v]
    BY <1>3 DEF PaidFrom, Moves
  <2>2. bal[src] >= v + ExistentialDeposit
    BY <1>3 DEF CanPay
  <2>3. \A a \in Accounts : bal[a] \in Nat
    OBVIOUS
  <2>4. bal[src] - v \in Nat /\ bal[src] - v >= ExistentialDeposit
    BY <1>1, <2>2, <2>3
  <2> QED BY <1>1, <1>3, <2>1, <2>3, <2>4
<1> QED BY <1>2, <1>3

\* The terms of a proposal that its settlement leaves alone.
SameTerms(p, q) ==
    /\ q.nation_id = p.nation_id /\ q.amount = p.amount /\ q.beneficiary = p.beneficiary
    /\ q.votes_for = p.votes_for /\ q.votes_against = p.votes_against
    /\ q.end_block = p.end_block

\* A proposal may be executed: its nation decided for it and has a treasury.
Executable(p) == Passes(p) /\ p.nation_id \in DOMAIN NationTreasuries

\* What the proposal p takes from the account a, or gives to it.
TakenBy(p, a) ==
    IF NationTreasuries[p.nation_id] = a /\ p.beneficiary # a THEN p.amount ELSE 0

GivenBy(p, a) ==
    IF NationTreasuries[p.nation_id] # a /\ p.beneficiary = a THEN p.amount ELSE 0

\* The state r is s with the proposal id settled: its status says whether it was paid.
Settles(D, s, id, r) ==
    /\ r.free \in [Accounts -> Nat]
    /\ r.proposals \in [D -> Proposal]
    /\ \A x \in D \ {id} : r.proposals[x] = s.proposals[x]
    /\ SameTerms(s.proposals[id], r.proposals[id])
    /\ \/ /\ r.proposals[id].status = "Executed"
          /\ Executable(s.proposals[id])
          /\ \A a \in Accounts : r.free[a] = s.free[a] - TakenBy(s.proposals[id], a)
                                                       + GivenBy(s.proposals[id], a)
       \/ r.proposals[id].status = "Rejected" /\ r.free = s.free
    /\ \A a \in Accounts : s.free[a] >= ExistentialDeposit => r.free[a] >= ExistentialDeposit

\* enact_proposal settles the proposal.
LEMMA OneEnacted ==
    ASSUME NEW D, NEW s, s.free \in [Accounts -> Nat], s.proposals \in [D -> Proposal],
           frozen \in [Accounts -> Nat], NEW id \in D
    PROVE  Settles(D, s, id, enact_proposal(s, id))
<1> DEFINE r == enact_proposal(s, id)
<1>0. r = enact_proposal(s, id)
  OBVIOUS
<1> HIDE DEF r
<1> SUFFICES Settles(D, s, id, r)
  BY <1>0
<1> DEFINE p == s.proposals[id]
           t == NationTreasuries[p.nation_id]
           paid == Executable(p) /\ CanPay(s.free, t, p.beneficiary, p.amount)
           status == IF paid THEN "Executed" ELSE "Rejected"
<1>1. p \in Proposal
  OBVIOUS
<1>2. p.amount \in Nat /\ p.beneficiary \in Accounts
  BY <1>1, KhuralAssumption DEF Proposal
<1>3. /\ r.free = IF paid THEN PaidFrom(s.free, t, p.beneficiary, p.amount) ELSE s.free
      /\ r.proposals = [s.proposals EXCEPT ![id].status = status]
  BY <1>0 DEF enact_proposal, Executable
<1>4. status \in ProposalStatus
  BY DEF ProposalStatus
<1> HIDE DEF status
<1>5. /\ r.proposals[id] = [p EXCEPT !.status = status]
      /\ \A x \in D \ {id} : r.proposals[x] = s.proposals[x]
      /\ DOMAIN r.proposals = D
      /\ r.proposals = [x \in D |-> r.proposals[x]]
  BY <1>3
<1> HIDE DEF p
<1>6. r.proposals[id] \in Proposal /\ SameTerms(p, r.proposals[id])
      /\ r.proposals[id].status = status
  BY <1>1, <1>4, <1>5 DEF Proposal, SameTerms
<1>7. \A x \in D : r.proposals[x] \in Proposal
  BY <1>5, <1>6
<1>8. r.proposals \in [D -> Proposal]
  BY <1>5, <1>7
<1> HIDE DEF t
<1>9. CASE paid
  <2>1. t \in Accounts
    BY <1>9, TreasuriesAreAccounts DEF Executable, t
  <2>2. /\ r.free \in [Accounts -> Nat]
        /\ \A a \in Accounts : r.free[a] =
              s.free[a] - (IF a = t /\ a # p.beneficiary THEN p.amount ELSE 0)
                        + (IF a # t /\ a = p.beneficiary THEN p.amount ELSE 0)
        /\ \A a \in Accounts : s.free[a] >= ExistentialDeposit =>
              r.free[a] >= ExistentialDeposit
    <3> DEFINE bal == s.free
               b == p.beneficiary
               v == p.amount
    <3>1. /\ bal \in [Accounts -> Nat] /\ b \in Accounts /\ v \in Nat
          /\ CanPay(bal, t, b, v) /\ r.free = PaidFrom(bal, t, b, v)
      BY <1>2, <1>3, <1>9
    <3> HIDE DEF bal, b, v
    <3>2. /\ r.free \in [Accounts -> Nat]
          /\ \A a \in Accounts : r.free[a] = bal[a] - (IF a = t /\ a # b THEN v ELSE 0)
                                                  + (IF a # t /\ a = b THEN v ELSE 0)
          /\ \A a \in Accounts : bal[a] >= ExistentialDeposit => r.free[a] >= ExistentialDeposit
      <4> DEFINE w == PaidFrom(bal, t, b, v)
      <4>1. /\ w \in [Accounts -> Nat]
            /\ \A a \in Accounts : w[a] = bal[a] - (IF a = t /\ a # b THEN v ELSE 0)
                                                + (IF a # t /\ a = b THEN v ELSE 0)
            /\ \A a \in Accounts : bal[a] >= ExistentialDeposit => w[a] >= ExistentialDeposit
        BY <2>1, <3>1, PaidFromMoves
      <4> HIDE DEF w
      <4>2. r.free = w
        BY <3>1 DEF w
      <4> QED BY <4>1, <4>2
    <3> QED BY <3>2 DEF bal, b, v
  <2>3. \A a \in Accounts : r.free[a] = s.free[a] - TakenBy(p, a) + GivenBy(p, a)
    BY <2>2 DEF TakenBy, GivenBy, t
  <2> QED BY <1>5, <1>6, <1>8, <1>9, <2>2, <2>3 DEF p, status, Settles
<1>10. CASE ~paid
  <2>1. r.free = s.free /\ r.proposals[id].status = "Rejected"
    BY <1>3, <1>6, <1>10 DEF status
  <2> QED BY <1>5, <1>6, <1>8, <2>1 DEF p, Settles
<1> QED BY <1>9, <1>10

-----------------------------------------------------------------------------
(* What a sequence of proposals does to the balances.                      *)

\* The stored proposals are finitely many.
LEMMA ProposalsAreFinite ==
    ASSUME KhuralTypeOK
    PROVE  /\ IsFiniteSet(DOMAIN proposals)
           /\ \A id \in DOMAIN proposals : proposals[id] \in Proposal /\ Amounts[id] \in Nat
<1>1. IsFiniteSet(0 .. nextProposalId - 1)
  <2>1. nextProposalId \in Nat
    BY DEF KhuralTypeOK
  <2> QED BY <2>1, FS_Interval
<1>2. DOMAIN proposals = 0 .. nextProposalId - 1
      /\ \A id \in DOMAIN proposals : proposals[id] \in Proposal
  BY DEF KhuralTypeOK
<1>3. \A id \in DOMAIN proposals : Amounts[id] \in Nat
  BY <1>2, KhuralAssumption DEF Amounts, Proposal
<1> QED BY <1>1, <1>2, <1>3

\* The sum over the members of S with a property when one more is settled.
LEMMA OneMoreSum ==
    ASSUME KhuralTypeOK, NEW S, S \subseteq DOMAIN proposals,
           NEW id \in (DOMAIN proposals) \ S, NEW P
    PROVE  SumOver(Amounts, (S \cup {id}) \cap P) =
              SumOver(Amounts, S \cap P) + (IF id \in P THEN proposals[id].amount ELSE 0)
           /\ SumOver(Amounts, S \cap P) \in Nat
<1> DEFINE A == S \cap P
           B == (S \cup {id}) \cap P
<1>1. IsFiniteSet(A) /\ \A x \in A \cup {id} : Amounts[x] \in Nat
  BY ProposalsAreFinite, FS_Subset
<1>2. Amounts[id] = proposals[id].amount
  BY DEF Amounts
<1>3. id \notin A
  OBVIOUS
<1>4. SumOver(Amounts, A) \in Nat
  BY <1>1, SumOfNaturals
<1>5. CASE id \in P
  <2>1. B = A \cup {id}
    BY <1>5
  <2> HIDE DEF A, B
  <2>2. SumOver(Amounts, A \cup {id}) = SumOver(Amounts, A) + Amounts[id]
    <3>1. \A x \in A \cup {id} : Amounts[x] \in Int
      BY <1>1
    <3> QED BY <1>1, <1>3, <3>1, SumOfOneMore
  <2>3. SumOver(Amounts, B) = SumOver(Amounts, A) + Amounts[id]
    BY <2>1, <2>2
  <2>4. SumOver(Amounts, B) = SumOver(Amounts, A)
                                 + (IF id \in P THEN proposals[id].amount ELSE 0)
    BY <1>2, <1>5, <2>3
  <2> QED BY <1>4, <2>4 DEF A, B
<1>6. CASE id \notin P
  <2>1. B = A
    BY <1>6
  <2> HIDE DEF A, B
  <2>2. SumOver(Amounts, B) = SumOver(Amounts, A)
                                 + (IF id \in P THEN proposals[id].amount ELSE 0)
    BY <1>4, <1>6, <2>1
  <2> QED BY <1>4, <2>2 DEF A, B
<1> QED BY <1>5, <1>6

\* One more executed proposal adds its amount to what is asked and granted.
LEMMA OneMoreAsked ==
    ASSUME KhuralTypeOK, NEW S, S \subseteq DOMAIN proposals,
           NEW id \in (DOMAIN proposals) \ S, NEW a
    PROVE  /\ AskedOf(a, S) \in Nat /\ GrantedTo(a, S) \in Nat
           /\ AskedOf(a, S \cup {id}) = AskedOf(a, S) + TakenBy(proposals[id], a)
           /\ GrantedTo(a, S \cup {id}) = GrantedTo(a, S) + GivenBy(proposals[id], a)
<1> DEFINE P == {x \in DOMAIN proposals : Treasury(x) = a /\ proposals[x].beneficiary # a}
           Q == {x \in DOMAIN proposals : Treasury(x) # a /\ proposals[x].beneficiary = a}
<1>1. /\ {x \in S : Treasury(x) = a /\ proposals[x].beneficiary # a} = S \cap P
      /\ {x \in S : Treasury(x) # a /\ proposals[x].beneficiary = a} = S \cap Q
      /\ {x \in S \cup {id} : Treasury(x) = a /\ proposals[x].beneficiary # a}
            = (S \cup {id}) \cap P
      /\ {x \in S \cup {id} : Treasury(x) # a /\ proposals[x].beneficiary = a}
            = (S \cup {id}) \cap Q
  OBVIOUS
<1>2. /\ TakenBy(proposals[id], a) = IF id \in P THEN proposals[id].amount ELSE 0
      /\ GivenBy(proposals[id], a) = IF id \in Q THEN proposals[id].amount ELSE 0
  BY DEF TakenBy, GivenBy, Treasury
<1> HIDE DEF P, Q
<1>3. /\ AskedOf(a, S) = SumOver(Amounts, S \cap P)
      /\ AskedOf(a, S \cup {id}) = SumOver(Amounts, (S \cup {id}) \cap P)
      /\ GrantedTo(a, S) = SumOver(Amounts, S \cap Q)
      /\ GrantedTo(a, S \cup {id}) = SumOver(Amounts, (S \cup {id}) \cap Q)
  BY <1>1, Zenon DEF AskedOf, GrantedTo
<1>4. /\ SumOver(Amounts, (S \cup {id}) \cap P) =
            SumOver(Amounts, S \cap P) + (IF id \in P THEN proposals[id].amount ELSE 0)
      /\ SumOver(Amounts, S \cap P) \in Nat
  BY OneMoreSum
<1>5. /\ SumOver(Amounts, (S \cup {id}) \cap Q) =
            SumOver(Amounts, S \cap Q) + (IF id \in Q THEN proposals[id].amount ELSE 0)
      /\ SumOver(Amounts, S \cap Q) \in Nat
  BY OneMoreSum
<1> QED BY <1>2, <1>3, <1>4, <1>5, Zenon

\* Nothing is asked or granted when nothing is executed.
LEMMA NothingAsked ==
    ASSUME NEW a
    PROVE  AskedOf(a, {}) = 0 /\ GrantedTo(a, {}) = 0
<1>1. SumOver(Amounts, {}) = 0
  BY SumUnfolds, FS_EmptySet
<1>2. /\ {x \in {} : Treasury(x) = a /\ proposals[x].beneficiary # a} = {}
      /\ {x \in {} : Treasury(x) # a /\ proposals[x].beneficiary = a} = {}
  OBVIOUS
<1> QED BY <1>1, <1>2, Zenon DEF AskedOf, GrantedTo

\* The first i proposals of the sequence.
Settled(ids, i) == {ids[j] : j \in 1 .. i}

\* Those of them that are executed in the state r.
Paid(ids, i, r) == {id \in Settled(ids, i) : r.proposals[id].status = "Executed"}

(***************************************************************************)
(* What the first i proposals of the sequence have done when the state is  *)
(* r: every one of them is settled, no other has changed, and the executed *)
(* ones account for all the money that moved.                              *)
(***************************************************************************)
EnactedSoFar(ids, i, r) ==
    /\ r.free \in [Accounts -> Nat]
    /\ r.proposals \in [DOMAIN proposals -> Proposal]
    /\ \A id \in DOMAIN proposals :
          /\ SameTerms(proposals[id], r.proposals[id])
          /\ id \notin Settled(ids, i) => r.proposals[id] = proposals[id]
          /\ id \in Settled(ids, i) =>
                \/ r.proposals[id].status = "Executed" /\ Executable(proposals[id])
                \/ r.proposals[id].status = "Rejected"
    /\ \A a \in Accounts :
          /\ r.free[a] = free[a] - AskedOf(a, Paid(ids, i, r)) + GrantedTo(a, Paid(ids, i, r))
          /\ free[a] >= ExistentialDeposit => r.free[a] >= ExistentialDeposit

\* Different proposals of the stored ones, in some order.
IsAgenda(ids) ==
    /\ Len(ids) \in Nat
    /\ \A i \in 1 .. Len(ids) : ids[i] \in DOMAIN proposals
    /\ \A i, j \in 1 .. Len(ids) : i # j => ids[i] # ids[j]

\* The sequence has done nothing when none of it is settled.
LEMMA EnactedAtStart ==
    ASSUME KhuralTypeOK, NEW ids,
           NEW r, r = [free |-> free, proposals |-> proposals]
    PROVE  EnactedSoFar(ids, 0, r)
<1>1. Settled(ids, 0) = {}
  BY DEF Settled
<1>2. Paid(ids, 0, r) = {}
  BY <1>1 DEF Paid
<1>3. r.free \in [Accounts -> Nat] /\ r.proposals \in [DOMAIN proposals -> Proposal]
  BY DEF KhuralTypeOK, LedgerTypeOK
<1>4. \A a \in Accounts : AskedOf(a, {}) = 0 /\ GrantedTo(a, {}) = 0
  BY NothingAsked
<1>5. \A a \in Accounts :
          r.free[a] = free[a] - AskedOf(a, Paid(ids, 0, r)) + GrantedTo(a, Paid(ids, 0, r))
  <2> SUFFICES ASSUME NEW a \in Accounts
               PROVE  r.free[a] = free[a] - AskedOf(a, Paid(ids, 0, r))
                                          + GrantedTo(a, Paid(ids, 0, r))
    OBVIOUS
  <2>1. AskedOf(a, Paid(ids, 0, r)) = 0 /\ GrantedTo(a, Paid(ids, 0, r)) = 0
    BY <1>2, <1>4
  <2>2. r.free[a] = free[a] /\ r.free[a] \in Nat
    BY <1>3
  <2> QED BY <2>1, <2>2
<1> QED BY <1>1, <1>3, <1>5 DEF EnactedSoFar, SameTerms

\* The next proposal of the sequence is one that was not settled before.
LEMMA EnactedNext ==
    ASSUME KhuralTypeOK, NEW ids, IsAgenda(ids), NEW i \in 1 .. Len(ids),
           NEW s, EnactedSoFar(ids, i - 1, s), NEW r, r = enact_proposal(s, ids[i])
    PROVE  EnactedSoFar(ids, i, r)
<1> DEFINE id == ids[i]
           D == DOMAIN proposals
           before == Settled(ids, i - 1)
           paid == Paid(ids, i - 1, s)
<1>1. id \in D /\ id \notin before /\ Settled(ids, i) = before \cup {id} /\ before \subseteq D
  BY DEF IsAgenda, Settled
<1>2. /\ s.free \in [Accounts -> Nat] /\ s.proposals \in [D -> Proposal]
      /\ s.proposals[id] = proposals[id]
  BY <1>1 DEF EnactedSoFar
<1>3. frozen \in [Accounts -> Nat] /\ free \in [Accounts -> Nat]
  BY DEF KhuralTypeOK, LedgerTypeOK
<1>4. /\ r.free \in [Accounts -> Nat]
      /\ r.proposals \in [D -> Proposal]
      /\ \A x \in D \ {id} : r.proposals[x] = s.proposals[x]
      /\ SameTerms(s.proposals[id], r.proposals[id])
      /\ \/ /\ r.proposals[id].status = "Executed"
            /\ Executable(s.proposals[id])
            /\ \A a \in Accounts : r.free[a] = s.free[a] - TakenBy(s.proposals[id], a)
                                                         + GivenBy(s.proposals[id], a)
         \/ r.proposals[id].status = "Rejected" /\ r.free = s.free
      /\ \A a \in Accounts : s.free[a] >= ExistentialDeposit =>
            r.free[a] >= ExistentialDeposit
  <2>1. Settles(D, s, id, r)
    BY <1>1, <1>2, <1>3, OneEnacted
  <2> QED BY <2>1 DEF Settles
<1>5. \A x \in D : /\ SameTerms(proposals[x], s.proposals[x])
                   /\ x \notin before => s.proposals[x] = proposals[x]
                   /\ x \in before => \/ s.proposals[x].status = "Executed"
                                         /\ Executable(proposals[x])
                                      \/ s.proposals[x].status = "Rejected"
  BY DEF EnactedSoFar
<1>6. \A a \in Accounts :
         /\ s.free[a] = free[a] - AskedOf(a, paid) + GrantedTo(a, paid)
         /\ free[a] >= ExistentialDeposit => s.free[a] >= ExistentialDeposit
  BY DEF EnactedSoFar
<1>7. paid \subseteq DOMAIN proposals /\ id \in (DOMAIN proposals) \ paid
  BY <1>1 DEF Paid
<1>8. Paid(ids, i, r) = IF r.proposals[id].status = "Executed" THEN paid \cup {id} ELSE paid
  BY <1>1, <1>4 DEF Paid
<1> HIDE DEF id, D, before, paid
<1>9. \A x \in D : /\ SameTerms(proposals[x], r.proposals[x])
                   /\ x \notin Settled(ids, i) => r.proposals[x] = proposals[x]
                   /\ x \in Settled(ids, i) => \/ r.proposals[x].status = "Executed"
                                                  /\ Executable(proposals[x])
                                               \/ r.proposals[x].status = "Rejected"
  <2> SUFFICES ASSUME NEW x \in D
               PROVE  /\ SameTerms(proposals[x], r.proposals[x])
                      /\ x \notin Settled(ids, i) => r.proposals[x] = proposals[x]
                      /\ x \in Settled(ids, i) => \/ r.proposals[x].status = "Executed"
                                                     /\ Executable(proposals[x])
                                                  \/ r.proposals[x].status = "Rejected"
    OBVIOUS
  <2>1. CASE x = id
    BY <1>1, <1>2, <1>4, <2>1, Zenon
  <2>2. CASE x # id
    BY <1>1, <1>4, <1>5, <2>2
  <2> QED BY <2>1, <2>2
<1>10. \A a \in Accounts :
          r.free[a] = free[a] - AskedOf(a, Paid(ids, i, r)) + GrantedTo(a, Paid(ids, i, r))
  <2> SUFFICES ASSUME NEW a \in Accounts
               PROVE  r.free[a] = free[a] - AskedOf(a, Paid(ids, i, r))
                                          + GrantedTo(a, Paid(ids, i, r))
    OBVIOUS
  <2>1. /\ AskedOf(a, paid) \in Nat /\ GrantedTo(a, paid) \in Nat
        /\ AskedOf(a, paid \cup {id}) = AskedOf(a, paid) + TakenBy(proposals[id], a)
        /\ GrantedTo(a, paid \cup {id}) = GrantedTo(a, paid) + GivenBy(proposals[id], a)
    BY <1>7, OneMoreAsked
  <2>2. proposals[id].amount \in Nat
    BY <1>1, ProposalsAreFinite, KhuralAssumption DEF Proposal, D
  <2>3. TakenBy(proposals[id], a) \in Nat /\ GivenBy(proposals[id], a) \in Nat
    BY <2>2 DEF TakenBy, GivenBy
  <2>4. free[a] \in Nat /\ s.free[a] = free[a] - AskedOf(a, paid) + GrantedTo(a, paid)
    BY <1>3, <1>6
  <2>5. CASE r.proposals[id].status = "Executed"
    <3>1. Paid(ids, i, r) = paid \cup {id}
      BY <1>8, <2>5
    <3>2. r.free[a] = s.free[a] - TakenBy(proposals[id], a) + GivenBy(proposals[id], a)
      BY <1>2, <1>4, <2>5
    <3>3. r.free[a] = free[a] - AskedOf(a, paid \cup {id}) + GrantedTo(a, paid \cup {id})
      BY <2>1, <2>3, <2>4, <3>2
    <3> QED BY <3>1, <3>3, Zenon
  <2>6. CASE r.proposals[id].status # "Executed"
    <3>1. Paid(ids, i, r) = paid
      BY <1>8, <2>6
    <3>2. r.free[a] = s.free[a]
      BY <1>4, <2>6
    <3> QED BY <2>4, <3>1, <3>2, Zenon
  <2> QED BY <2>5, <2>6
<1>11. \A a \in Accounts : free[a] >= ExistentialDeposit => r.free[a] >= ExistentialDeposit
  BY <1>4, <1>6
<1> QED BY <1>4, <1>9, <1>10, <1>11 DEF EnactedSoFar, D

\* Every state of the chain is what the proposals before it have done.
LEMMA EnactedAlong ==
    ASSUME KhuralTypeOK, NEW ids, IsAgenda(ids), NEW n \in 0 .. Len(ids)
    PROVE  EnactedSoFar(ids, n, Enacted(ids)[n])
<1> DEFINE g == Enacted(ids)
           T == {k \in 0 .. Len(ids) : ~EnactedSoFar(ids, k, g[k])}
<1>1. Len(ids) \in Nat
  BY DEF IsAgenda
<1>2. /\ g[0] = [free |-> free, proposals |-> proposals]
      /\ \A i \in 1 .. Len(ids) : g[i] = enact_proposal(g[i - 1], ids[i])
  BY <1>1, ChainUnfolds
<1> HIDE DEF g
<1>3. SUFFICES ASSUME T # {} PROVE FALSE
  BY DEF g
<1>4. PICK m \in T : \A k \in T : m <= k
  <2>1. T \subseteq Nat
    BY <1>1
  <2> HIDE DEF T
  <2> QED BY <1>3, <2>1, LeastNatural
<1>5. CASE m = 0
  <2>1. EnactedSoFar(ids, 0, g[0])
    BY <1>2, EnactedAtStart
  <2> QED BY <1>4, <1>5, <2>1
<1>6. CASE m # 0
  <2>1. m \in 1 .. Len(ids) /\ m - 1 \in 0 .. Len(ids) /\ m - 1 \notin T
    BY <1>1, <1>4, <1>6
  <2>2. EnactedSoFar(ids, m - 1, g[m - 1])
    BY <2>1
  <2>3. g[m] = enact_proposal(g[m - 1], ids[m])
    BY <1>2, <2>1
  <2>4. EnactedSoFar(ids, m, g[m])
    BY <2>1, <2>2, <2>3, EnactedNext
  <2> QED BY <1>4, <2>4
<1> QED BY <1>5, <1>6

\* The proposals of S are settled, and nothing else about the money happens.
SettlesAll(S) ==
    /\ free' \in [Accounts -> Nat]
    /\ proposals' \in [DOMAIN proposals -> Proposal]
    /\ \A id \in DOMAIN proposals :
          /\ SameTerms(proposals[id], proposals'[id])
          /\ id \notin S => proposals'[id] = proposals[id]
          /\ id \in S => \/ proposals'[id].status = "Executed" /\ Executable(proposals[id])
                         \/ proposals'[id].status = "Rejected"
    /\ \A a \in Accounts :
          LET paid == {id \in S : proposals'[id].status = "Executed"}
          IN  /\ free'[a] = free[a] - AskedOf(a, paid) + GrantedTo(a, paid)
              /\ free[a] >= ExistentialDeposit => free'[a] >= ExistentialDeposit

\* Enacting a sequence settles the proposals in it.
LEMMA EnactAllSettles ==
    ASSUME KhuralTypeOK, NEW ids, IsAgenda(ids), EnactAll(ids)
    PROVE  SettlesAll(Settled(ids, Len(ids)))
<1> DEFINE r == Enacted(ids)[Len(ids)]
<1>1. EnactedSoFar(ids, Len(ids), r)
  <2>1. Len(ids) \in 0 .. Len(ids)
    BY DEF IsAgenda
  <2> QED BY <2>1, EnactedAlong
<1>2. free' = r.free /\ proposals' = r.proposals
  BY DEF EnactAll
<1> HIDE DEF r
<1>3. Paid(ids, Len(ids), r) = {id \in Settled(ids, Len(ids)) : proposals'[id].status = "Executed"}
  BY <1>2 DEF Paid
<1> QED BY <1>1, <1>2, <1>3 DEF EnactedSoFar, SettlesAll

\* An order of a finite set goes through all of it, once.
LEMMA OrderIsAgenda ==
    ASSUME NEW S \in SUBSET DOMAIN proposals, IsFiniteSet(S), NEW order \in SetToSeqs(S)
    PROVE  IsAgenda(order) /\ Settled(order, Len(order)) = S
<1> DEFINE n == Cardinality(S)
<1>1. n \in Nat
  BY FS_CardinalityType
<1>2. /\ order \in [1 .. n -> S]
      /\ \A i, j \in 1 .. n : i # j => order[i] # order[j]
  BY DEF SetToSeqs
<1> HIDE DEF n
<1>3. Len(order) = n
  BY <1>1, <1>2
<1>4. IsAgenda(order)
  BY <1>1, <1>2, <1>3 DEF IsAgenda
<1>5. order \in Injection(1 .. n, S)
  BY <1>2 DEF Injection, IsInjective
<1>6. IsFiniteSet(1 .. n) /\ Cardinality(1 .. n) = n
  BY <1>1, FS_Interval
<1>7. order \in Surjection(1 .. n, S)
  BY <1>5, <1>6, FS_Injection DEF n
<1>8. \A x \in S : \E i \in 1 .. n : order[i] = x
  BY <1>7 DEF Surjection
<1>9. Settled(order, n) = S
  BY <1>2, <1>8 DEF Settled
<1> QED BY <1>3, <1>4, <1>9

\* The hook of a block settles all the proposals that have expired by then.
LEMMA HookSettles ==
    ASSUME KhuralTypeOK, on_initialize
    PROVE  SettlesAll(Expired(block + 1))
<1>1. Expired(block + 1) \in SUBSET DOMAIN proposals /\ IsFiniteSet(Expired(block + 1))
  BY ProposalsAreFinite, FS_Subset DEF Expired
<1>2. PICK order \in SetToSeqs(Expired(block + 1)) : EnactAll(order)
  BY DEF on_initialize
<1>3. IsAgenda(order) /\ Settled(order, Len(order)) = Expired(block + 1)
  BY <1>1, <1>2, OrderIsAgenda
<1>4. SettlesAll(Settled(order, Len(order)))
  BY <1>2, <1>3, EnactAllSettles
<1> QED BY <1>3, <1>4

\* A call settles the proposal it names.
LEMMA CallSettles ==
    ASSUME KhuralTypeOK, NEW id \in DOMAIN proposals, execute_proposal(id)
    PROVE  SettlesAll({id})
<1> DEFINE ids == <<id>>
<1>1. Len(ids) = 1 /\ ids[1] = id
  OBVIOUS
<1>2. EnactAll(ids)
  BY DEF execute_proposal
<1> HIDE DEF ids
<1>3. IsAgenda(ids)
  BY <1>1 DEF IsAgenda
<1>4. Settled(ids, Len(ids)) = {id}
  BY <1>1 DEF Settled
<1> QED BY <1>2, <1>3, <1>4, EnactAllSettles

-----------------------------------------------------------------------------
(* The invariant: KhuralBooksAgree is inductive as it stands.              *)

\* What the proposals are about, without the deposits of the bills.
BillsUntouched == UNCHANGED <<reserved, frozen, billVars>>

\* The books of the bills do not depend on the proposals.
LEMMA BillsStay ==
    ASSUME DepositsAreHeld, BillsUntouched
    PROVE  DepositsAreHeld'
<1>1. UNCHANGED <<reserved, Deposits, expertBills, expertBillDepositor>>
  BY DEF BillsUntouched, billVars, Deposits
<1>2. \A id : Depositor(id)' = Depositor(id)
  BY <1>1 DEF Depositor
<1>3. \A a \in Accounts : {id \in DOMAIN Deposits : Depositor(id) = a}'
                             = {id \in DOMAIN Deposits : Depositor(id) = a}
  BY <1>1, <1>2
<1> QED BY <1>1, <1>3 DEF DepositsAreHeld

\* The citizens of the nation of the proposal id who are on record as its voters.
Voters(id) == {c \in Citizens : <<id, c>> \in hasVoted /\ NationOf[c] = proposals[id].nation_id}

\* What DecidedByItsNation says of one proposal.
Decided(id) ==
    /\ proposals[id].votes_for + proposals[id].votes_against = Cardinality(Voters(id))
    /\ proposals[id].status = "Executed" =>
          /\ proposals[id].votes_for >= MinQuorum
          /\ 2 * proposals[id].votes_for > Cardinality(Voters(id))

\* The invariant about the votes, proposal by proposal.
LEMMA DecidedOneByOne == DecidedByItsNation <=> \A id \in DOMAIN proposals : Decided(id)
BY DEF DecidedByItsNation, Decided, Voters

\* The voters of a proposal are finitely many.
LEMMA VotersAreFinite == \A id : IsFiniteSet(Voters(id)) /\ Cardinality(Voters(id)) \in Nat
<1>1. IsFiniteSet(Citizens)
  BY KhuralAssumption, LedgerAssumption, FS_Subset
<1> QED BY <1>1, FS_Subset, FS_CardinalityType DEF Voters

\* Settling proposals leaves the books in order.
LEMMA SettlingStep ==
    ASSUME KhuralBooksAgree, NEW S \in SUBSET DOMAIN proposals, SettlesAll(S),
           BillsUntouched, UNCHANGED <<issuance, citizens, nextProposalId, hasVoted>>,
           block' \in 0 .. MaxBlock
    PROVE  KhuralBooksAgree'
<1>1. KhuralTypeOK /\ DecidedByItsNation /\ DepositsAreHeld
  BY DEF KhuralBooksAgree
<1>2. UNCHANGED <<reserved, frozen, expertBills, nextExpertBillId, hasVotedOnBill,
                  expertBillDepositor>>
  BY DEF BillsUntouched, billVars
<1>3. proposals' \in [0 .. nextProposalId - 1 -> Proposal] /\ DOMAIN proposals' = DOMAIN proposals
  BY <1>1 DEF KhuralTypeOK, SettlesAll
<1>4. KhuralTypeOK'
  BY <1>1, <1>2, <1>3 DEF KhuralTypeOK, LedgerTypeOK, SettlesAll
<1>5. DecidedByItsNation'
  <2> SUFFICES ASSUME NEW id \in DOMAIN proposals
               PROVE  Decided(id)'
    BY <1>3 DEF DecidedByItsNation, Decided, Voters
  <2>1. Decided(id)
    BY <1>1, DecidedOneByOne
  <2>2. SameTerms(proposals[id], proposals'[id])
    BY DEF SettlesAll
  <2>3. Voters(id)' = Voters(id)
    BY <2>2 DEF Voters, SameTerms
  <2>4. CASE proposals'[id] = proposals[id]
    BY <2>1, <2>3, <2>4 DEF Decided
  <2>5. CASE proposals'[id] # proposals[id]
    <3>1. proposals'[id].status = "Executed" => Passes(proposals[id])
      BY <2>5 DEF SettlesAll, Executable
    <3>2. proposals[id] \in Proposal
      BY <1>1 DEF KhuralTypeOK
    <3> QED BY <2>1, <2>2, <2>3, <3>1, <3>2, VotersAreFinite, KhuralAssumption
            DEF Decided, SameTerms, Passes, Proposal
  <2> QED BY <2>4, <2>5
<1>6. DepositsAreHeld'
  BY <1>1, BillsStay
<1> QED BY <1>4, <1>5, <1>6 DEF KhuralBooksAgree

\* The hook of a block preserves the invariant.
LEMMA HookStep ==
    ASSUME KhuralBooksAgree, on_initialize
    PROVE  KhuralBooksAgree'
<1>1. KhuralTypeOK
  BY DEF KhuralBooksAgree
<1>2. SettlesAll(Expired(block + 1)) /\ Expired(block + 1) \in SUBSET DOMAIN proposals
  BY <1>1, HookSettles DEF Expired
<1>3. block' \in 0 .. MaxBlock
  BY <1>1, KhuralAssumption DEF on_initialize, KhuralTypeOK
<1>4. BillsUntouched /\ UNCHANGED <<issuance, citizens, nextProposalId, hasVoted>>
  BY DEF on_initialize, BillsUntouched
<1> QED BY <1>2, <1>3, <1>4, SettlingStep

\* Executing a proposal preserves the invariant.
LEMMA ExecuteStep ==
    ASSUME KhuralBooksAgree, NEW id \in DOMAIN proposals, execute_proposal(id)
    PROVE  KhuralBooksAgree'
<1>1. KhuralTypeOK
  BY DEF KhuralBooksAgree
<1>2. SettlesAll({id}) /\ {id} \in SUBSET DOMAIN proposals
  BY <1>1, CallSettles
<1>3. block' \in 0 .. MaxBlock
  BY <1>1 DEF execute_proposal, KhuralTypeOK
<1>4. BillsUntouched /\ UNCHANGED <<issuance, citizens, nextProposalId, hasVoted>>
  BY DEF execute_proposal, BillsUntouched
<1> QED BY <1>2, <1>3, <1>4, SettlingStep

\* A new proposal has neither votes nor voters.
LEMMA CreateProposalStep ==
    ASSUME KhuralBooksAgree, NEW c \in Citizens, NEW n \in {NationOf[d] : d \in Citizens},
           NEW v \in SpendAmounts, NEW b \in Beneficiaries, create_proposal(c, n, v, b)
    PROVE  KhuralBooksAgree'
<1> DEFINE new == nextProposalId
<1>1. KhuralTypeOK /\ DecidedByItsNation /\ DepositsAreHeld
  BY DEF KhuralBooksAgree
<1>2. PICK period \in VotingPeriods :
         /\ block + period <= MaxBlock
         /\ proposals' = Put(proposals, new,
               [proposer |-> c, nation_id |-> n, amount |-> v,
                beneficiary |-> b, votes_for |-> 0, votes_against |-> 0,
                status |-> "Active", end_block |-> block + period])
  BY DEF create_proposal
<1> DEFINE p == [proposer |-> c, nation_id |-> n, amount |-> v,
                 beneficiary |-> b, votes_for |-> 0, votes_against |-> 0,
                 status |-> "Active", end_block |-> block + period]
<1>3. /\ new \in 0 .. MaxProposals /\ new < MaxProposals /\ MaxProposals \in Nat
      /\ nextProposalId' = new + 1
      /\ DOMAIN proposals = 0 .. new - 1
  BY <1>1, KhuralAssumption DEF create_proposal, KhuralTypeOK, NextId
<1>4. /\ DOMAIN proposals' = (DOMAIN proposals) \cup {new}
      /\ \A id \in DOMAIN proposals : proposals'[id] = proposals[id]
      /\ proposals'[new] = p
      /\ proposals' = [id \in DOMAIN proposals' |-> proposals'[id]]
  BY <1>2, <1>3 DEF Put
<1>5. p \in Proposal
  <2>1. n \in 1 .. 79
    BY RegistryAssumption
  <2>2. block + period \in 0 .. MaxBlock
    BY <1>1, <1>2, KhuralAssumption DEF KhuralTypeOK
  <2> QED BY <2>1, <2>2 DEF Proposal, ProposalStatus
<1>6. p.votes_for = 0 /\ p.votes_against = 0 /\ p.status = "Active"
  OBVIOUS
<1> HIDE DEF p, new
<1>7. /\ DOMAIN proposals' = 0 .. nextProposalId' - 1
      /\ \A id \in DOMAIN proposals : id \in DOMAIN proposals'
      /\ new \notin DOMAIN proposals
  BY <1>3, <1>4
<1>8. \A id \in DOMAIN proposals' : proposals'[id] \in Proposal
  BY <1>1, <1>4, <1>5 DEF KhuralTypeOK
<1>9. proposals' \in [0 .. nextProposalId' - 1 -> Proposal]
  BY <1>4, <1>7, <1>8
<1>10. KhuralTypeOK'
  <2>1. hasVoted' \subseteq (DOMAIN proposals') \X Citizens
    BY <1>1, <1>7 DEF create_proposal, KhuralTypeOK
  <2>2. nextProposalId' \in 0 .. MaxProposals
    BY <1>3
  <2> QED BY <1>1, <1>9, <2>1, <2>2 DEF create_proposal, KhuralTypeOK, LedgerTypeOK,
              ledger, billVars
<1>11. DecidedByItsNation'
  <2> SUFFICES ASSUME NEW id \in DOMAIN proposals'
               PROVE  Decided(id)'
    BY DEF DecidedByItsNation, Decided, Voters
  <2>1. hasVoted' = hasVoted
    BY DEF create_proposal
  <2>2. CASE id \in DOMAIN proposals
    <3>1. proposals'[id] = proposals[id]
      BY <1>4, <2>2
    <3>2. Voters(id)' = Voters(id)
      BY <2>1, <3>1 DEF Voters
    <3> QED BY <1>1, <2>2, <3>1, <3>2, DecidedOneByOne DEF Decided
  <2>3. CASE id = new
    <3>1. Voters(id)' = {}
      BY <1>1, <1>7, <2>1, <2>3 DEF Voters, KhuralTypeOK
    <3>2. Cardinality({}) = 0
      BY FS_EmptySet
    <3> QED BY <1>4, <1>6, <2>3, <3>1, <3>2 DEF Decided
  <2> QED BY <1>4, <2>2, <2>3
<1>12. DepositsAreHeld'
  <2>1. BillsUntouched
    BY DEF create_proposal, BillsUntouched, ledger
  <2> QED BY <1>1, <2>1, BillsStay
<1> QED BY <1>10, <1>11, <1>12 DEF KhuralBooksAgree

\* A counted vote is one more on its side.
LEMMA CountedOnce ==
    ASSUME NEW p, p \in Proposal \/ p \in ExpertBill, NEW approve \in BOOLEAN
    PROVE  /\ p \in Proposal => Counted(p, approve) \in Proposal
           /\ p \in ExpertBill => Counted(p, approve) \in ExpertBill
           /\ Counted(p, approve).status = p.status
           /\ p \in Proposal => Counted(p, approve).nation_id = p.nation_id
           /\ Counted(p, approve).votes_for + Counted(p, approve).votes_against
                 = p.votes_for + p.votes_against + 1
BY DEF Counted, Proposal, ExpertBill

\* A vote adds a voter to the proposal and one to its votes.
LEMMA VoteStep ==
    ASSUME KhuralBooksAgree, NEW c \in Citizens, NEW id \in DOMAIN proposals,
           NEW approve \in BOOLEAN, vote(c, id, approve)
    PROVE  KhuralBooksAgree'
<1>1. KhuralTypeOK /\ DecidedByItsNation /\ DepositsAreHeld
  BY DEF KhuralBooksAgree
<1>2. /\ hasVoted' = hasVoted \cup {<<id, c>>}
      /\ proposals' = [proposals EXCEPT ![id] = Counted(@, approve)]
      /\ UNCHANGED <<ledger, citizens, block, nextProposalId, billVars>>
  BY DEF vote
<1>3. /\ proposals[id].status = "Active" /\ <<id, c>> \notin hasVoted
      /\ NationOf[c] = proposals[id].nation_id
  BY <1>1 DEF vote, CanVote, KhuralTypeOK
<1>4. proposals[id] \in Proposal
  BY <1>1 DEF KhuralTypeOK
<1>5. /\ proposals'[id] = Counted(proposals[id], approve)
      /\ DOMAIN proposals' = DOMAIN proposals
      /\ \A x \in DOMAIN proposals : x # id => proposals'[x] = proposals[x]
  BY <1>2
<1>6. /\ proposals'[id] \in Proposal
      /\ proposals'[id].status = "Active"
      /\ proposals'[id].nation_id = proposals[id].nation_id
      /\ proposals'[id].votes_for + proposals'[id].votes_against
            = proposals[id].votes_for + proposals[id].votes_against + 1
  BY <1>3, <1>4, <1>5, CountedOnce
<1>7. KhuralTypeOK'
  <2>1. proposals' \in [0 .. nextProposalId - 1 -> Proposal]
    BY <1>1, <1>2, <1>5, <1>6 DEF KhuralTypeOK
  <2>2. hasVoted' \subseteq (DOMAIN proposals') \X Citizens
    BY <1>1, <1>2, <1>5 DEF KhuralTypeOK
  <2> QED BY <1>1, <1>2, <2>1, <2>2 DEF KhuralTypeOK, LedgerTypeOK, ledger, billVars
<1>8. DecidedByItsNation'
  <2> SUFFICES ASSUME NEW x \in DOMAIN proposals
               PROVE  Decided(x)'
    BY <1>5 DEF DecidedByItsNation, Decided, Voters
  <2>1. Decided(x)
    BY <1>1, DecidedOneByOne
  <2>2. CASE x = id
    <3>1. Voters(x)' = Voters(x) \cup {c} /\ c \notin Voters(x)
      BY <1>2, <1>3, <1>6, <2>2 DEF Voters
    <3>2. Cardinality(Voters(x) \cup {c}) = Cardinality(Voters(x)) + 1
      BY <3>1, VotersAreFinite, FS_AddElement
    <3> QED BY <1>6, <2>1, <2>2, <3>1, <3>2 DEF Decided
  <2>3. CASE x # id
    <3>1. proposals'[x] = proposals[x]
      BY <1>5, <2>3
    <3>2. Voters(x)' = Voters(x)
      BY <1>2, <2>3, <3>1 DEF Voters
    <3> QED BY <2>1, <3>1, <3>2 DEF Decided
  <2> QED BY <2>2, <2>3
<1>9. DepositsAreHeld'
  <2>1. BillsUntouched
    BY <1>2 DEF BillsUntouched, ledger
  <2> QED BY <1>1, <2>1, BillsStay
<1> QED BY <1>7, <1>8, <1>9 DEF KhuralBooksAgree

-----------------------------------------------------------------------------
(* Expert bills.                                                           *)

\* The bills whose deposit the account a has put up.
Holding(a) == {id \in DOMAIN Deposits : Depositor(id) = a}

\* The deposits are finitely many, of citizens, each a natural number.
LEMMA DepositsAreFinite ==
    ASSUME KhuralTypeOK
    PROVE  /\ IsFiniteSet(DOMAIN Deposits)
           /\ DOMAIN Deposits = DOMAIN expertBillDepositor
           /\ DOMAIN expertBills = 0 .. nextExpertBillId - 1
           /\ \A id \in DOMAIN Deposits : /\ Deposits[id] \in Nat
                                          /\ Depositor(id) \in Citizens
                                          /\ Deposits[id] = expertBillDepositor[id].deposit
           /\ \A a : IsFiniteSet(Holding(a))
<1>1. DOMAIN Deposits = DOMAIN expertBillDepositor
      /\ DOMAIN expertBills = 0 .. nextExpertBillId - 1
  BY DEF Deposits, KhuralTypeOK
<1>2. IsFiniteSet(0 .. nextExpertBillId - 1)
  <2>1. nextExpertBillId \in Nat
    BY DEF KhuralTypeOK
  <2> QED BY <2>1, FS_Interval
<1>3. DOMAIN Deposits \subseteq 0 .. nextExpertBillId - 1
  BY <1>1 DEF KhuralTypeOK
<1>4. IsFiniteSet(DOMAIN Deposits)
  BY <1>2, <1>3, FS_Subset
<1>5. \A id \in DOMAIN Deposits : Deposits[id] = expertBillDepositor[id].deposit
  BY DEF Deposits
<1>6. \A id \in DOMAIN Deposits : Deposits[id] \in Nat /\ Depositor(id) \in Citizens
  BY <1>1, <1>5 DEF KhuralTypeOK, Depositor
<1>7. \A a : IsFiniteSet(Holding(a))
  BY <1>4, FS_Subset DEF Holding
<1> QED BY <1>1, <1>4, <1>5, <1>6, <1>7

\* The votes do not depend on the bills.
LEMMA VotesStay ==
    ASSUME DecidedByItsNation, UNCHANGED <<proposals, hasVoted>>
    PROVE  DecidedByItsNation'
BY DEF DecidedByItsNation

\* A new bill reserves its deposit.
LEMMA ProposeBillStep ==
    ASSUME KhuralBooksAgree, NEW c \in Citizens, propose_expert_bill(c)
    PROVE  KhuralBooksAgree'
<1> DEFINE new == nextExpertBillId
           bill == [proposer |-> c, votes_for |-> 0, votes_against |-> 0, status |-> "Active"]
           held == [who |-> c, deposit |-> ExpertBillDeposit]
<1>1. KhuralTypeOK /\ DecidedByItsNation /\ DepositsAreHeld
  BY DEF KhuralBooksAgree
<1>2. /\ expertBills' = Put(expertBills, new, bill)
      /\ nextExpertBillId' = new + 1
      /\ expertBillDepositor' = Put(expertBillDepositor, new, held)
      /\ UNCHANGED <<citizens, block, hasVotedOnBill, proposalVars>>
      /\ reserve(c, ExpertBillDeposit)
      /\ new < MaxBills
  BY DEF propose_expert_bill, NextId
<1>3. ExpertBillDeposit \in Nat /\ c \in Accounts /\ MaxBills \in Nat
  BY KhuralAssumption
<1>4. bill \in ExpertBill /\ bill.status = "Active" /\ held \in [who : Citizens, deposit : Nat]
      /\ held.who = c /\ held.deposit = ExpertBillDeposit
  BY <1>3 DEF ExpertBill, ProposalStatus
<1>5. /\ new \in 0 .. MaxBills
      /\ DOMAIN expertBills = 0 .. new - 1
      /\ DOMAIN expertBillDepositor \subseteq DOMAIN expertBills
      /\ \A id \in DOMAIN expertBills : expertBills[id] \in ExpertBill
      /\ \A id \in DOMAIN expertBillDepositor :
            expertBillDepositor[id] \in [who : Citizens, deposit : Nat]
  BY <1>1 DEF KhuralTypeOK
<1> HIDE DEF bill, held, new
<1>6. /\ DOMAIN expertBills' = (DOMAIN expertBills) \cup {new}
      /\ \A id \in DOMAIN expertBills : expertBills'[id] = expertBills[id]
      /\ expertBills'[new] = bill
      /\ expertBills' = [id \in DOMAIN expertBills' |-> expertBills'[id]]
      /\ new \notin DOMAIN expertBills
      /\ DOMAIN expertBills' = 0 .. nextExpertBillId' - 1
      /\ nextExpertBillId' \in 0 .. MaxBills
  BY <1>2, <1>3, <1>5 DEF Put
<1>7. /\ DOMAIN expertBillDepositor' = (DOMAIN expertBillDepositor) \cup {new}
      /\ \A id \in DOMAIN expertBillDepositor :
            expertBillDepositor'[id] = expertBillDepositor[id]
      /\ expertBillDepositor'[new] = held
  BY <1>2, <1>5, <1>6 DEF Put
<1>8. /\ free[c] >= ExpertBillDeposit
      /\ free' = [free EXCEPT ![c] = @ - ExpertBillDeposit]
      /\ reserved' = [reserved EXCEPT ![c] = @ + ExpertBillDeposit]
      /\ UNCHANGED <<frozen, issuance>>
  BY <1>1, <1>2, <1>3 DEF reserve, KhuralTypeOK, LedgerTypeOK
<1>9. KhuralTypeOK'
  <2>1. LedgerTypeOK'
    BY <1>1, <1>3, <1>8 DEF KhuralTypeOK, LedgerTypeOK
  <2>2. \A id \in DOMAIN expertBills' : expertBills'[id] \in ExpertBill
    BY <1>4, <1>5, <1>6
  <2>3. expertBills' \in [0 .. nextExpertBillId' - 1 -> ExpertBill]
    BY <1>6, <2>2
  <2>4. hasVotedOnBill' \subseteq (DOMAIN expertBills') \X Citizens
    BY <1>1, <1>2, <1>6 DEF KhuralTypeOK
  <2>5. /\ DOMAIN expertBillDepositor' \subseteq DOMAIN expertBills'
        /\ \A id \in DOMAIN expertBillDepositor' :
              expertBillDepositor'[id] \in [who : Citizens, deposit : Nat]
    BY <1>4, <1>5, <1>6, <1>7
  <2> QED BY <1>1, <1>2, <1>6, <2>1, <2>3, <2>4, <2>5 DEF KhuralTypeOK, proposalVars
<1>10. DecidedByItsNation'
  BY <1>1, <1>2, VotesStay DEF proposalVars
<1>11. /\ DOMAIN Deposits' = (DOMAIN Deposits) \cup {new} /\ new \notin DOMAIN Deposits
       /\ \A id \in DOMAIN Deposits : /\ Deposits'[id] = Deposits[id]
                                      /\ Depositor(id)' = Depositor(id)
       /\ Deposits'[new] = ExpertBillDeposit /\ expertBillDepositor'[new].who = c
  BY <1>4, <1>5, <1>6, <1>7 DEF Deposits, Depositor
<1>12. DepositsAreHeld'
  <2>1. DOMAIN expertBillDepositor'
           = {id \in DOMAIN expertBills' : expertBills'[id].status = "Active"}
    BY <1>1, <1>4, <1>6, <1>7 DEF DepositsAreHeld
  <2>2. ASSUME NEW a \in Accounts
        PROVE  reserved'[a] = SumOver(Deposits', Holding(a)')
    <3>1. /\ reserved[a] = SumOver(Deposits, Holding(a))
          /\ IsFiniteSet(Holding(a)) /\ \A id \in Holding(a) : Deposits[id] \in Nat
      BY <1>1, DepositsAreFinite DEF DepositsAreHeld, Holding
    <3>2. \A id \in Holding(a) : Deposits'[id] = Deposits[id]
      BY <1>11 DEF Holding
    <3>3. SumOver(Deposits', Holding(a)) = SumOver(Deposits, Holding(a))
      BY <3>1, <3>2, SumOfSame
    <3>4. CASE a = c
      <4>1. Holding(a)' = Holding(a) \cup {new} /\ new \notin Holding(a)
        BY <1>11, <3>4 DEF Holding, Depositor
      <4>2. \A id \in Holding(a) \cup {new} : Deposits'[id] \in Int
        BY <1>3, <1>11, <3>1, <3>2
      <4>3. SumOver(Deposits', Holding(a) \cup {new})
               = SumOver(Deposits', Holding(a)) + Deposits'[new]
        BY <3>1, <4>1, <4>2, SumOfOneMore
      <4>4. reserved'[a] = reserved[a] + ExpertBillDeposit
        BY <1>1, <1>8, <3>4 DEF KhuralTypeOK, LedgerTypeOK
      <4> QED BY <1>11, <3>1, <3>3, <4>1, <4>3, <4>4, Zenon
    <3>5. CASE a # c
      <4>1. Holding(a)' = Holding(a)
        BY <1>11, <3>5 DEF Holding, Depositor
      <4>2. reserved'[a] = reserved[a]
        BY <1>1, <1>8, <3>5 DEF KhuralTypeOK, LedgerTypeOK
      <4> QED BY <3>1, <3>3, <4>1, <4>2, Zenon
    <3> QED BY <3>4, <3>5
  <2> QED BY <2>1, <2>2 DEF DepositsAreHeld, Holding
<1> QED BY <1>9, <1>10, <1>12 DEF KhuralBooksAgree

\* A vote on a bill touches no deposit.
LEMMA VoteOnBillStep ==
    ASSUME KhuralBooksAgree, NEW c \in Citizens, NEW id \in DOMAIN expertBills,
           NEW approve \in BOOLEAN, vote_on_expert_bill(c, id, approve)
    PROVE  KhuralBooksAgree'
<1>1. KhuralTypeOK /\ DecidedByItsNation /\ DepositsAreHeld
  BY DEF KhuralBooksAgree
<1>2. /\ hasVotedOnBill' = hasVotedOnBill \cup {<<id, c>>}
      /\ expertBills' = [expertBills EXCEPT ![id] = Counted(@, approve)]
      /\ UNCHANGED <<free, reserved, frozen, issuance, citizens, block, nextExpertBillId,
                     expertBillDepositor, proposals, nextProposalId, hasVoted>>
  BY DEF vote_on_expert_bill, ledger, proposalVars
<1>3. expertBills[id] \in ExpertBill
  BY <1>1 DEF KhuralTypeOK
<1>4. /\ expertBills'[id] = Counted(expertBills[id], approve)
      /\ DOMAIN expertBills' = DOMAIN expertBills
      /\ \A x \in DOMAIN expertBills : x # id => expertBills'[x] = expertBills[x]
  BY <1>2
<1>5. expertBills'[id] \in ExpertBill /\ expertBills'[id].status = expertBills[id].status
  BY <1>3, <1>4, CountedOnce
<1>6. KhuralTypeOK'
  <2>1. expertBills' \in [0 .. nextExpertBillId - 1 -> ExpertBill]
    BY <1>1, <1>2, <1>4, <1>5 DEF KhuralTypeOK
  <2>2. hasVotedOnBill' \subseteq (DOMAIN expertBills') \X Citizens
    BY <1>1, <1>2, <1>4 DEF KhuralTypeOK
  <2> QED BY <1>1, <1>2, <1>4, <2>1, <2>2 DEF KhuralTypeOK, LedgerTypeOK
<1>7. DecidedByItsNation'
  BY <1>1, <1>2, VotesStay
<1>8. DepositsAreHeld'
  <2>1. {x \in DOMAIN expertBills' : expertBills'[x].status = "Active"}
           = {x \in DOMAIN expertBills : expertBills[x].status = "Active"}
    BY <1>4, <1>5
  <2>2. Deposits' = Deposits /\ \A x : Depositor(x)' = Depositor(x)
    BY <1>2 DEF Deposits, Depositor
  <2> QED BY <1>1, <1>2, <2>1, <2>2 DEF DepositsAreHeld
<1> QED BY <1>6, <1>7, <1>8 DEF KhuralBooksAgree

\* The deposit of a bill is within the reserve of who put it up.
LEMMA DepositIsReserved ==
    ASSUME KhuralTypeOK, DepositsAreHeld, NEW id \in DOMAIN Deposits
    PROVE  /\ Depositor(id) \in Accounts
           /\ Deposits[id] <= reserved[Depositor(id)]
           /\ Releasable(Depositor(id), Deposits[id]) = Deposits[id]
<1> DEFINE a == Depositor(id)
<1>1. a \in Accounts /\ Deposits[id] \in Nat
  BY DepositsAreFinite, KhuralAssumption
<1>2. id \in Holding(a) /\ IsFiniteSet(Holding(a)) /\ \A x \in Holding(a) : Deposits[x] \in Nat
  BY DepositsAreFinite DEF Holding
<1>3. reserved[a] = SumOver(Deposits, Holding(a))
  BY <1>1 DEF DepositsAreHeld, Holding
<1> HIDE DEF a
<1>4. Deposits[id] <= reserved[a]
  BY <1>2, <1>3, SumOfNaturals
<1> QED BY <1>1, <1>4 DEF a, Releasable

\* A settled bill gives its deposit back or loses it, and no other.
LEMMA ExecuteBillStep ==
    ASSUME KhuralBooksAgree, NEW id \in DOMAIN expertBills, execute_expert_bill(id)
    PROVE  KhuralBooksAgree'
<1> DEFINE who == Depositor(id)
           v == Deposits[id]
           passed == expertBills[id].votes_for > 2
           status == IF passed THEN "Executed" ELSE "Rejected"
<1>1. KhuralTypeOK /\ DecidedByItsNation /\ DepositsAreHeld
  BY DEF KhuralBooksAgree
<1>2. /\ expertBills[id].status = "Active"
      /\ expertBills' = [expertBills EXCEPT ![id].status = status]
      /\ expertBillDepositor' = Without(expertBillDepositor, id)
      /\ UNCHANGED <<citizens, block, nextExpertBillId, hasVotedOnBill, proposals,
                     nextProposalId, hasVoted>>
  BY DEF execute_expert_bill, TakeDepositor, proposalVars
<1>3. id \in DOMAIN Deposits /\ id \in DOMAIN expertBillDepositor
  BY <1>1, <1>2 DEF DepositsAreHeld, Deposits
<1>4. /\ who = expertBillDepositor[id].who
      /\ v = expertBillDepositor[id].deposit
  BY <1>3 DEF Deposits, Depositor
<1>5. SettleDeposit(id, passed)
  BY <1>3 DEF execute_expert_bill
<1>6. who \in Accounts /\ v \in Nat /\ v <= reserved[who] /\ Releasable(who, v) = v
  BY <1>1, <1>3, DepositIsReserved, DepositsAreFinite
<1>7. status \in ProposalStatus /\ status # "Active"
  BY DEF ProposalStatus
<1> HIDE DEF who, v, passed, status
<1>8. /\ reserved' = [reserved EXCEPT ![who] = @ - v]
      /\ free' = [free EXCEPT ![who] = @ + v] \/ free' = free
      /\ frozen' = frozen
      /\ issuance' = issuance \/ issuance' = issuance - v
  <2>1. CASE passed
    <3>1. unreserve(who, v)
      BY <1>4, <1>5, <2>1 DEF SettleDeposit
    <3> QED BY <1>6, <3>1 DEF unreserve
  <2>2. CASE ~passed
    <3>1. slash_reserved(who, v)
      BY <1>4, <1>5, <2>2 DEF SettleDeposit
    <3> QED BY <1>6, <3>1 DEF slash_reserved
  <2> QED BY <2>1, <2>2
<1>9. expertBills[id] \in ExpertBill
  BY <1>1 DEF KhuralTypeOK
<1>10. /\ expertBills'[id] = [expertBills[id] EXCEPT !.status = status]
       /\ DOMAIN expertBills' = DOMAIN expertBills
       /\ \A x \in DOMAIN expertBills : x # id => expertBills'[x] = expertBills[x]
  BY <1>2
<1>11. expertBills'[id] \in ExpertBill /\ expertBills'[id].status = status
  BY <1>7, <1>9, <1>10 DEF ExpertBill
<1>12. /\ DOMAIN expertBillDepositor' = (DOMAIN expertBillDepositor) \ {id}
       /\ \A x \in DOMAIN expertBillDepositor' : expertBillDepositor'[x] = expertBillDepositor[x]
  BY <1>2 DEF Without
<1>13. KhuralTypeOK'
  <2>1. LedgerTypeOK'
    <3>1. LedgerTypeOK
      BY <1>1 DEF KhuralTypeOK
    <3>2. reserved' \in [Accounts -> Nat]
      BY <1>6, <1>8, <3>1 DEF LedgerTypeOK
    <3>3. free' \in [Accounts -> Nat]
      BY <1>6, <1>8, <3>1 DEF LedgerTypeOK
    <3>4. frozen' \in [Accounts -> Nat] /\ issuance' \in Int
      BY <1>6, <1>8, <3>1 DEF LedgerTypeOK
    <3> QED BY <3>2, <3>3, <3>4 DEF LedgerTypeOK
  <2>2. expertBills' \in [0 .. nextExpertBillId - 1 -> ExpertBill]
    BY <1>1, <1>2, <1>10, <1>11 DEF KhuralTypeOK
  <2>3. hasVotedOnBill' \subseteq (DOMAIN expertBills') \X Citizens
    BY <1>1, <1>2, <1>10 DEF KhuralTypeOK
  <2>4. /\ DOMAIN expertBillDepositor' \subseteq DOMAIN expertBills'
        /\ \A x \in DOMAIN expertBillDepositor' :
              expertBillDepositor'[x] \in [who : Citizens, deposit : Nat]
    BY <1>1, <1>10, <1>12 DEF KhuralTypeOK
  <2> QED BY <1>1, <1>2, <2>1, <2>2, <2>3, <2>4 DEF KhuralTypeOK
<1>14. DecidedByItsNation'
  BY <1>1, <1>2, VotesStay
<1>15. /\ DOMAIN Deposits' = (DOMAIN Deposits) \ {id}
       /\ \A x \in DOMAIN Deposits' : Deposits'[x] = Deposits[x]
  BY <1>12 DEF Deposits
<1>16. DepositsAreHeld'
  <2>1. DOMAIN expertBillDepositor'
           = {x \in DOMAIN expertBills' : expertBills'[x].status = "Active"}
    BY <1>1, <1>7, <1>10, <1>11, <1>12 DEF DepositsAreHeld
  <2>2. ASSUME NEW a \in Accounts
        PROVE  reserved'[a] = SumOver(Deposits', Holding(a)')
    <3>1. /\ reserved[a] = SumOver(Deposits, Holding(a)) /\ reserved[a] \in Nat
          /\ IsFiniteSet(Holding(a)) /\ \A x \in Holding(a) : Deposits[x] \in Int
      <4>1. reserved[a] = SumOver(Deposits, Holding(a))
        BY <1>1 DEF DepositsAreHeld, Holding
      <4>2. reserved[a] \in Nat
        BY <1>1 DEF KhuralTypeOK, LedgerTypeOK
      <4>3. IsFiniteSet(Holding(a)) /\ \A x \in Holding(a) : Deposits[x] \in Int
        <5>1. IsFiniteSet(Holding(a)) /\ \A x \in DOMAIN Deposits : Deposits[x] \in Nat
          BY <1>1, DepositsAreFinite
        <5>2. Holding(a) \subseteq DOMAIN Deposits
          BY DEF Holding
        <5> QED BY <5>1, <5>2
      <4> QED BY <4>1, <4>2, <4>3
    <3>2. Holding(a)' = Holding(a) \ {id}
      <4>1. \A x \in DOMAIN Deposits' : Depositor(x)' = Depositor(x)
        BY <1>12 DEF Depositor, Deposits
      <4> QED BY <1>15, <4>1 DEF Holding
    <3>3. IsFiniteSet(Holding(a) \ {id})
          /\ \A x \in Holding(a) \ {id} : Deposits'[x] = Deposits[x]
      BY <1>15, <3>1, FS_Subset DEF Holding
    <3>4. SumOver(Deposits', Holding(a) \ {id}) = SumOver(Deposits, Holding(a) \ {id})
      BY <3>3, SumOfSame
    <3>5. CASE a = who
      <4>1. id \in Holding(a)
        BY <1>3, <3>5 DEF Holding, who
      <4>2. SumOver(Deposits, Holding(a)) = SumOver(Deposits, Holding(a) \ {id}) + v
        BY <3>1, <4>1, SumOfRest DEF v
      <4>3. reserved'[a] = reserved[a] - v
        BY <1>1, <1>8, <3>5 DEF KhuralTypeOK, LedgerTypeOK
      <4>4. SumOver(Deposits, Holding(a) \ {id}) \in Int
        BY <3>1, <3>3, SumIsInt
      <4>5. reserved'[a] = SumOver(Deposits, Holding(a) \ {id})
        BY <1>6, <3>1, <4>2, <4>3, <4>4
      <4> QED BY <3>2, <3>4, <4>5, Zenon
    <3>6. CASE a # who
      <4>1. Holding(a) \ {id} = Holding(a)
        BY <3>6 DEF Holding, who
      <4>2. reserved'[a] = reserved[a]
        BY <1>1, <1>8, <3>6 DEF KhuralTypeOK, LedgerTypeOK
      <4> QED BY <3>1, <3>2, <3>4, <4>1, <4>2, Zenon
    <3> QED BY <3>5, <3>6
  <2> QED BY <2>1, <2>2 DEF DepositsAreHeld, Holding
<1> QED BY <1>13, <1>14, <1>16 DEF KhuralBooksAgree

-----------------------------------------------------------------------------
(* The other steps, and the theorem about the books.                       *)

\* Root's calls leave a citizen in the nation it was registered in.
LEMMA RegistryKeepsNations ==
    ASSUME NEW c \in Citizens, RegistryStep(c), citizens \in [Citizens -> CitizenRecord]
    PROVE  /\ citizens' \in [Citizens -> CitizenRecord]
           /\ \A d \in Citizens : citizens'[d].nation_id = citizens[d].nation_id
<1>1. citizens[c] \in CitizenRecord
  OBVIOUS
<1>2. CASE \E role \in Roles : update_role(c, role)
  <2>1. PICK role \in Roles : citizens' = [citizens EXCEPT ![c].role = role]
    BY <1>2 DEF update_role
  <2>2. role \in CitizenRole
    BY RegistryAssumption
  <2>3. [citizens[c] EXCEPT !.role = role] \in CitizenRecord
    BY <1>1, <2>2 DEF CitizenRecord
  <2> QED BY <1>1, <2>1, <2>3 DEF CitizenRecord
<1>3. CASE freeze_citizen(c) \/ unfreeze_citizen(c)
  <2>1. PICK status \in CitizenStatus : citizens' = [citizens EXCEPT ![c].status = status]
    BY <1>3 DEF freeze_citizen, unfreeze_citizen, CitizenStatus
  <2>2. [citizens[c] EXCEPT !.status = status] \in CitizenRecord
    BY <1>1 DEF CitizenRecord
  <2> QED BY <1>1, <2>1, <2>2 DEF CitizenRecord
<1> QED BY <1>2, <1>3 DEF RegistryStep

\* Changes of the citizens' records leave the books alone.
LEMMA CitizenKeepsBooks ==
    ASSUME KhuralBooksAgree, CitizenStep
    PROVE  KhuralBooksAgree'
<1>1. KhuralTypeOK /\ DecidedByItsNation /\ DepositsAreHeld
  BY DEF KhuralBooksAgree
<1>2. UNCHANGED <<free, reserved, frozen, issuance, block, proposals, nextProposalId, hasVoted,
                  expertBills, nextExpertBillId, hasVotedOnBill, expertBillDepositor>>
  BY DEF CitizenStep, ledger, proposalVars, billVars
<1>3. KhuralTypeOK'
  <2>1. citizens' \in [Citizens -> CitizenRecord]
        /\ \A c \in Citizens : citizens'[c].nation_id = NationOf[c]
    BY <1>1, RegistryKeepsNations DEF CitizenStep, KhuralTypeOK
  <2> QED BY <1>1, <1>2, <2>1 DEF KhuralTypeOK, LedgerTypeOK
<1>4. DecidedByItsNation'
  BY <1>1, <1>2, VotesStay
<1>5. DepositsAreHeld'
  BY <1>1, <1>2, BillsStay DEF BillsUntouched, billVars
<1> QED BY <1>3, <1>4, <1>5 DEF KhuralBooksAgree

\* A step of the Khural preserves the invariant.
LEMMA KhuralStep == KhuralBooksAgree /\ [KhuralNext]_khuralState => KhuralBooksAgree'
<1> SUFFICES ASSUME KhuralBooksAgree, [KhuralNext]_khuralState
             PROVE  KhuralBooksAgree'
  OBVIOUS
<1>1. CASE on_initialize
  BY <1>1, HookStep
<1>2. CASE ProposalStep
  BY <1>2, CreateProposalStep, VoteStep, ExecuteStep DEF ProposalStep
<1>3. CASE BillStep
  BY <1>3, ProposeBillStep, VoteOnBillStep, ExecuteBillStep DEF BillStep
<1>4. CASE CitizenStep
  BY <1>4, CitizenKeepsBooks
<1>5. CASE UNCHANGED khuralState
  <2>1. KhuralTypeOK /\ DecidedByItsNation /\ DepositsAreHeld
    BY DEF KhuralBooksAgree
  <2>2. UNCHANGED <<free, reserved, frozen, issuance, citizens, block, proposals, nextProposalId,
                    hasVoted, expertBills, nextExpertBillId, hasVotedOnBill, expertBillDepositor>>
    BY <1>5 DEF khuralState, ledger, proposalVars, billVars
  <2>3. KhuralTypeOK'
    BY <2>1, <2>2 DEF KhuralTypeOK, LedgerTypeOK
  <2>4. DecidedByItsNation'
    BY <2>1, <2>2, VotesStay
  <2>5. DepositsAreHeld'
    BY <2>1, <2>2, BillsStay DEF BillsUntouched, billVars
  <2> QED BY <2>3, <2>4, <2>5 DEF KhuralBooksAgree
<1> QED BY <1>1, <1>2, <1>3, <1>4, <1>5 DEF KhuralNext

\* At the start there are no proposals, bills or deposits.
LEMMA KhuralStart == KhuralInit => KhuralBooksAgree
<1> SUFFICES ASSUME KhuralInit PROVE KhuralBooksAgree
  OBVIOUS
<1>1. /\ proposals = <<>> /\ expertBills = <<>> /\ expertBillDepositor = <<>>
      /\ hasVoted = {} /\ hasVotedOnBill = {} /\ nextProposalId = 0 /\ nextExpertBillId = 0
  BY DEF KhuralInit
<1>2. proposals \in [0 .. -1 -> Proposal] /\ expertBills \in [0 .. -1 -> ExpertBill]
      /\ DOMAIN expertBillDepositor = {}
  BY <1>1
<1>3. LedgerTypeOK
  <2>1. IsFiniteSet(Accounts) /\ \A a \in Accounts : InitialFree[a] \in Int
    BY LedgerAssumption, KhuralAssumption
  <2>2. SumOver(InitialFree, Accounts) \in Int
    BY <2>1, SumIsInt
  <2> QED BY <2>2, KhuralAssumption DEF KhuralInit, LedgerTypeOK
<1>4. citizens \in [Citizens -> CitizenRecord]
      /\ \A c \in Citizens : citizens[c].nation_id = NationOf[c]
  <2>1. PICK role \in [Citizens -> Roles] : citizens = Registered(role)
    BY DEF KhuralInit
  <2>2. \A c \in Citizens : role[c] \in CitizenRole /\ NationOf[c] \in 1 .. 79
    BY RegistryAssumption
  <2> QED BY <2>1, <2>2 DEF Registered, CitizenRecord, CitizenStatus
<1>5. KhuralTypeOK
  <2>1. block \in 0 .. MaxBlock /\ 0 \in 0 .. MaxProposals /\ 0 \in 0 .. MaxBills
    BY KhuralAssumption DEF KhuralInit
  <2>2. nextProposalId - 1 = -1 /\ nextExpertBillId - 1 = -1
    BY <1>1
  <2> QED BY <1>1, <1>2, <1>3, <1>4, <2>1, <2>2 DEF KhuralTypeOK
<1>6. DecidedByItsNation
  BY <1>1 DEF DecidedByItsNation
<1>7. DepositsAreHeld
  <2>1. DOMAIN Deposits = {}
    BY <1>2 DEF Deposits
  <2>2. \A a \in Accounts : {id \in DOMAIN Deposits : Depositor(id) = a} = {}
    BY <2>1
  <2>3. SumOver(Deposits, {}) = 0
    BY SumUnfolds, FS_EmptySet
  <2>4. \A a \in Accounts : reserved[a] = 0
    BY DEF KhuralInit
  <2>5. {id \in DOMAIN expertBills : expertBills[id].status = "Active"} = {}
    BY <1>1
  <2> QED BY <1>2, <2>2, <2>3, <2>4, <2>5 DEF DepositsAreHeld
<1> QED BY <1>5, <1>6, <1>7 DEF KhuralBooksAgree

(***************************************************************************)
(* The books of the Khural agree with what was done: every proposal has    *)
(* one vote of each citizen of its nation on record as its voter, what was *)
(* executed had quorum and majority of them, and the reserves are the      *)
(* deposits of the open bills.                                             *)
(***************************************************************************)
THEOREM BooksAgree == KhuralSpec => []KhuralBooksAgree
BY KhuralStart, KhuralStep, PTL DEF KhuralSpec

-----------------------------------------------------------------------------
(* What a step may never do.                                               *)

\* What ActiveUntilDeadline says of a step.
DeadlineKept ==
    block' # block =>
        \A id \in DOMAIN proposals' :
            proposals'[id].status = "Active" => block' < proposals'[id].end_block

\* The hook leaves no expired proposal active.
LEMMA HookKeepsDeadlines ==
    ASSUME KhuralBooksAgree, on_initialize
    PROVE  DeadlineKept
<1>1. KhuralTypeOK
  BY DEF KhuralBooksAgree
<1>2. SettlesAll(Expired(block + 1))
  BY <1>1, HookSettles
<1>3. block' = block + 1 /\ block' \in Nat
  BY <1>1, KhuralAssumption DEF on_initialize, KhuralTypeOK
<1>4. SUFFICES ASSUME NEW id \in DOMAIN proposals', proposals'[id].status = "Active"
               PROVE  block' < proposals'[id].end_block
  BY DEF DeadlineKept
<1>5. id \in DOMAIN proposals
  BY <1>2 DEF SettlesAll
<1>6. id \notin Expired(block + 1)
  BY <1>2, <1>4, <1>5 DEF SettlesAll
<1>7. proposals'[id] = proposals[id]
  BY <1>2, <1>5, <1>6 DEF SettlesAll
<1>8. ~(block + 1 >= proposals[id].end_block)
  BY <1>4, <1>5, <1>6, <1>7 DEF Expired
<1>9. proposals[id].end_block \in Nat
  BY <1>1, <1>5, KhuralAssumption DEF KhuralTypeOK, Proposal
<1> QED BY <1>3, <1>7, <1>8, <1>9

\* Only the hook moves the clock.
LEMMA DeadlineStep == KhuralBooksAgree /\ [KhuralNext]_khuralState => DeadlineKept
<1> SUFFICES ASSUME KhuralBooksAgree, [KhuralNext]_khuralState
             PROVE  DeadlineKept
  OBVIOUS
<1>1. CASE on_initialize
  BY <1>1, HookKeepsDeadlines
<1>2. CASE block' = block
  BY <1>2 DEF DeadlineKept
<1>3. ProposalStep => block' = block
  BY DEF ProposalStep, create_proposal, vote, execute_proposal
<1>4. BillStep => block' = block
  BY DEF BillStep, propose_expert_bill, vote_on_expert_bill, execute_expert_bill
<1>5. CitizenStep => block' = block
  BY DEF CitizenStep
<1>6. UNCHANGED khuralState => block' = block
  BY DEF khuralState
<1> QED BY <1>1, <1>2, <1>3, <1>4, <1>5, <1>6 DEF KhuralNext

(***************************************************************************)
(* A block begins with no active proposal whose window is closed, however  *)
(* many expire together and in whichever order the hook finds them.        *)
(***************************************************************************)
THEOREM HookLeavesNothingBehind == KhuralSpec => ActiveUntilDeadline
<1>1. KhuralBooksAgree /\ [KhuralNext]_khuralState => [DeadlineKept]_khuralState
  BY DeadlineStep
<1>2. KhuralSpec => [][DeadlineKept]_khuralState
  BY <1>1, KhuralStart, KhuralStep, PTL DEF KhuralSpec
<1> QED BY <1>2 DEF ActiveUntilDeadline, DeadlineKept

\* The proposals a step marks Executed.
ExecutedNow == {id \in DOMAIN proposals : /\ proposals[id].status = "Active"
                                          /\ proposals'[id].status = "Executed"}

\* A step moves the treasury t by what it executes, above the existential deposit.
PaysAs(t, executed) ==
    /\ free'[t] = free[t] - AskedOf(t, executed) + GrantedTo(t, executed)
    /\ free[t] >= ExistentialDeposit => free'[t] >= ExistentialDeposit

\* A step that executes nothing and leaves the balance of the treasury alone.
LEMMA IdleTreasury ==
    ASSUME KhuralTypeOK, ExecutedNow = {}, NEW t \in Accounts, free'[t] = free[t]
    PROVE  PaysAs(t, ExecutedNow)
<1>1. AskedOf(t, ExecutedNow) = 0 /\ GrantedTo(t, ExecutedNow) = 0
  BY NothingAsked
<1>2. free[t] \in Nat
  BY DEF KhuralTypeOK, LedgerTypeOK
<1> QED BY <1>1, <1>2 DEF PaysAs

\* A settlement of active proposals moves every account by what it executes.
LEMMA SettlementPays ==
    ASSUME KhuralTypeOK, NEW S \in SUBSET DOMAIN proposals, SettlesAll(S),
           \A id \in S : proposals[id].status = "Active", NEW t \in Accounts
    PROVE  PaysAs(t, ExecutedNow)
<1> DEFINE paid == {id \in S : proposals'[id].status = "Executed"}
<1>1. /\ free'[t] = free[t] - AskedOf(t, paid) + GrantedTo(t, paid)
      /\ free[t] >= ExistentialDeposit => free'[t] >= ExistentialDeposit
  BY DEF SettlesAll
<1>2. paid = ExecutedNow
  BY DEF ExecutedNow, SettlesAll
<1> HIDE DEF paid
<1> QED BY <1>1, <1>2 DEF PaysAs

\* What TreasuryPaysDecisions says of a step.
TreasuriesPay == \A n \in DOMAIN NationTreasuries : PaysAs(NationTreasuries[n], ExecutedNow)

\* Of the calls only the hook and execute_proposal execute a proposal.
LEMMA NothingExecuted ==
    ASSUME KhuralTypeOK,
           \A id \in DOMAIN proposals : proposals'[id].status = proposals[id].status
    PROVE  ExecutedNow = {}
BY DEF ExecutedNow

\* A treasury reserves no deposit and gets none back: it is no citizen.
LEMMA TreasuryStep == KhuralBooksAgree /\ [KhuralNext]_khuralState => TreasuriesPay
<1> SUFFICES ASSUME KhuralBooksAgree, [KhuralNext]_khuralState, NEW n \in DOMAIN NationTreasuries
             PROVE  PaysAs(NationTreasuries[n], ExecutedNow)
  BY DEF TreasuriesPay
<1> DEFINE t == NationTreasuries[n]
<1>1. t \in Accounts /\ t \notin Citizens
  BY TreasuriesAreAccounts
<1>2. KhuralTypeOK /\ DepositsAreHeld
  BY DEF KhuralBooksAgree
<1> HIDE DEF t
<1>3. SUFFICES PaysAs(t, ExecutedNow)
  BY DEF t
<1>4. CASE on_initialize
  <2>1. /\ SettlesAll(Expired(block + 1))
        /\ Expired(block + 1) \in SUBSET DOMAIN proposals
        /\ \A id \in Expired(block + 1) : proposals[id].status = "Active"
    BY <1>2, <1>4, HookSettles DEF Expired
  <2> QED BY <1>1, <1>2, <2>1, SettlementPays
<1>5. ASSUME NEW id \in DOMAIN proposals, execute_proposal(id)
      PROVE  PaysAs(t, ExecutedNow)
  <2>1. SettlesAll({id}) /\ {id} \in SUBSET DOMAIN proposals /\ proposals[id].status = "Active"
    BY <1>2, <1>5, CallSettles DEF execute_proposal
  <2>2. \A x \in {id} : proposals[x].status = "Active"
    BY <2>1
  <2> QED BY <1>1, <1>2, <2>1, <2>2, SettlementPays
<1>6. ASSUME NEW c \in Citizens, NEW nation, NEW v, NEW b, create_proposal(c, nation, v, b)
      PROVE  PaysAs(t, ExecutedNow)
  <2>1. free' = free
    BY <1>6 DEF create_proposal, ledger
  <2>2. nextProposalId \notin DOMAIN proposals
    BY <1>2 DEF KhuralTypeOK
  <2>3. \A id \in DOMAIN proposals : proposals'[id] = proposals[id]
    BY <1>6, <2>2 DEF create_proposal, Put
  <2> QED BY <1>1, <1>2, <2>1, <2>3, NothingExecuted, IdleTreasury
<1>7. ASSUME NEW c \in Citizens, NEW id \in DOMAIN proposals, NEW approve \in BOOLEAN,
             vote(c, id, approve)
      PROVE  PaysAs(t, ExecutedNow)
  <2>1. free' = free
    BY <1>7 DEF vote, ledger
  <2>2. \A x \in DOMAIN proposals : proposals'[x].status = proposals[x].status
    <3>1. proposals[id] \in Proposal
      BY <1>2 DEF KhuralTypeOK
    <3>2. Counted(proposals[id], approve).status = proposals[id].status
      BY <3>1, CountedOnce
    <3> QED BY <1>7, <3>2 DEF vote
  <2> QED BY <1>1, <1>2, <2>1, <2>2, NothingExecuted, IdleTreasury
<1>8. CASE BillStep
  <2>1. proposals' = proposals
    BY <1>8 DEF BillStep, propose_expert_bill, vote_on_expert_bill, execute_expert_bill,
                proposalVars
  <2>2. free'[t] = free[t]
    <3>1. CASE \E c \in Citizens : propose_expert_bill(c)
      BY <1>1, <1>2, <3>1 DEF propose_expert_bill, reserve, KhuralTypeOK, LedgerTypeOK
    <3>2. CASE \E c \in Citizens, id \in DOMAIN expertBills, approve \in BOOLEAN :
                  vote_on_expert_bill(c, id, approve)
      BY <3>2 DEF vote_on_expert_bill, ledger
    <3>3. ASSUME NEW id \in DOMAIN expertBills, execute_expert_bill(id)
          PROVE  free'[t] = free[t]
      <4>1. CASE id \notin DOMAIN expertBillDepositor
        BY <3>3, <4>1 DEF execute_expert_bill, ledger
      <4>2. CASE id \in DOMAIN expertBillDepositor
        <5> DEFINE who == expertBillDepositor[id].who
                   v == expertBillDepositor[id].deposit
        <5>1. who \in Citizens
          BY <1>2, <4>2 DEF KhuralTypeOK
        <5>2. unreserve(who, v) \/ slash_reserved(who, v)
          BY <3>3, <4>2 DEF execute_expert_bill, SettleDeposit
        <5> HIDE DEF who, v
        <5> QED BY <1>1, <1>2, <5>1, <5>2
                DEF unreserve, slash_reserved, KhuralTypeOK, LedgerTypeOK
      <4> QED BY <4>1, <4>2
    <3> QED BY <1>8, <3>1, <3>2, <3>3 DEF BillStep
  <2> QED BY <1>1, <1>2, <2>1, <2>2, NothingExecuted, IdleTreasury
<1>9. CASE CitizenStep \/ UNCHANGED khuralState
  <2>1. free' = free /\ proposals' = proposals
    BY <1>9 DEF CitizenStep, khuralState, ledger, proposalVars
  <2> QED BY <1>1, <1>2, <2>1, NothingExecuted, IdleTreasury
<1> QED BY <1>4, <1>5, <1>6, <1>7, <1>8, <1>9 DEF KhuralNext, ProposalStep

(***************************************************************************)
(* A treasury pays and gets exactly what the proposals say that a step     *)
(* marks Executed, also when several of them compete for what it holds.    *)
(***************************************************************************)
THEOREM TreasuriesPayDecisions == KhuralSpec => TreasuryPaysDecisions
<1>1. KhuralBooksAgree /\ [KhuralNext]_khuralState => [TreasuriesPay]_khuralState
  BY TreasuryStep
<1>2. KhuralSpec => [][TreasuriesPay]_khuralState
  BY <1>1, KhuralStart, KhuralStep, PTL DEF KhuralSpec
<1> QED BY <1>2 DEF TreasuryPaysDecisions, TreasuriesPay, PaysAs, ExecutedNow
=============================================================================
