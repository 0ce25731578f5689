------------------------- MODULE CentralBankProofs -------------------------
(***************************************************************************)
(* Proofs about CentralBank, for every set of accounts, every limit of the *)
(* credit pool, every rate curve and every bound.                          *)
(*                                                                         *)
(* The issuance bound needs that do_repay_credit never saturates the       *)
(* counter of outstanding credit: an operator's debt of one epoch must be  *)
(* at most the outstanding total.  That is a fact about sums, which is     *)
(* carried through the induction in the form of LedgerSums.                *)
(***************************************************************************)
EXTENDS CentralBank, LedgerSums

\* The debts of all operators in all epochs, and of all operators in one epoch.
AllDebts == [c \in Accounts \X EpochIds |-> operatorDebt[c[1]][c[2]]]
EpochDebts(e) == [a \in Accounts |-> operatorDebt[a][e]]

\* The outstanding total is the sum of all debts.
OutstandingIsSum == IsSum(AllDebts, totalOutstanding)

\* What an operator owes over all epochs is the sum of the debts per epoch.
OperatorTotalsAreSums == \A op \in Accounts : IsSum(operatorDebt[op], totalOperatorDebt[op])

\* What an epoch issued and did not get back is the sum of its debts.
EpochTotalsAreSums ==
    \A e \in EpochIds :
        IsSum(EpochDebts(e),
              IF e \in DOMAIN epochs
              THEN epochs[e].total_issued - epochs[e].total_repaid ELSE 0)

\* The inductive invariant.
IInv ==
    /\ TypeOK
    /\ PoolConservation
    /\ OutstandingIsSum
    /\ OperatorTotalsAreSums
    /\ EpochTotalsAreSums
    /\ IssuanceBound
    /\ KeyRateIsCurrent

-----------------------------------------------------------------------------
(* The rate and the ledger                                                 *)

\* What the genesis accounts hold is a natural number.
LEMMA GenesisIsNatural == M0 \in Nat
BY LedgerAssumption, CentralBankAssumption, SumOfNaturals DEF M0

\* The two-phase curve computes a natural number.
LEMMA RateType ==
    ASSUME NEW o \in Nat
    PROVE  compute_dynamic_rate(o) \in Nat
<1> USE CentralBankAssumption
<1>1. \A a, b, c \in Nat : c # 0 => (a * b) \div c \in Nat
  <2>1. \A p, c \in Nat : c # 0 => p \div c \in Nat
    OBVIOUS
  <2>2. \A a, b \in Nat : a * b \in Nat
    OBVIOUS
  <2> SUFFICES ASSUME NEW a \in Nat, NEW b \in Nat, NEW c \in Nat, c # 0
               PROVE  (a * b) \div c \in Nat
    OBVIOUS
  <2> DEFINE p == a * b
  <2>3. p \in Nat
    BY <2>2
  <2> HIDE DEF p
  <2>4. p \div c \in Nat
    BY <2>1, <2>3
  <2> QED BY <2>4 DEF p
<1>2. CreditEpochLimit # 0 => utilization_percent(o) \in Nat
  BY <1>1 DEF utilization_percent
<1>3. \A u \in Nat : HealthyRate(u) \in Nat
  <2>1. OptimalKeyRate \in Nat /\ OptimalUtilization \in Nat /\ OptimalUtilization # 0
    OBVIOUS
  <2> QED BY <2>1, <1>1, Zenon DEF HealthyRate
<1>4. \A u \in Nat : u > OptimalUtilization => PenaltyRate(u) \in Nat
  <2> SUFFICES ASSUME NEW u \in Nat, u > OptimalUtilization
               PROVE  PenaltyRate(u) \in Nat
    OBVIOUS
  <2>1. CASE OptimalUtilization = 100
    BY <2>1 DEF PenaltyRate
  <2>2. CASE OptimalUtilization # 100
    <3>1. /\ u - OptimalUtilization \in Nat
          /\ SatSub(MaxProtectiveRate, OptimalKeyRate) \in Nat
          /\ 100 - OptimalUtilization \in Nat \ {0}
      BY <2>2 DEF SatSub
    <3>2. ((u - OptimalUtilization) * SatSub(MaxProtectiveRate, OptimalKeyRate))
             \div (100 - OptimalUtilization) \in Nat
      BY <3>1, <1>1
    <3> QED BY <2>2, <3>2 DEF PenaltyRate
  <2> QED BY <2>1, <2>2
<1> QED BY <1>2, <1>3, <1>4 DEF compute_dynamic_rate

\* Minting keeps the ledger well typed and issues at most the amount.
LEMMA DepositCreating ==
    ASSUME LedgerTypeOK, NEW who \in Accounts, NEW v \in Nat, deposit_creating(who, v)
    PROVE  LedgerTypeOK' /\ issuance' <= issuance + v
BY LedgerAssumption DEF LedgerTypeOK, deposit_creating, Credited

\* Withdrawing keeps the ledger well typed and takes the amount out of issue.
LEMMA Withdraw ==
    ASSUME LedgerTypeOK, NEW who \in Accounts, NEW v \in Nat, withdraw(who, v)
    PROVE  LedgerTypeOK' /\ issuance' = issuance - v
BY LedgerAssumption DEF LedgerTypeOK, withdraw

\* A transfer keeps the ledger well typed and issues nothing.
LEMMA Transfer ==
    ASSUME LedgerTypeOK, NEW src \in Accounts, NEW dst \in Accounts, NEW v \in Nat,
           NEW keepAlive \in BOOLEAN, transfer(src, dst, v, keepAlive)
    PROVE  LedgerTypeOK' /\ issuance' <= issuance
<1>1. CASE ~Moves(src, dst, v)
  BY <1>1 DEF LedgerTypeOK, transfer
<1>2. CASE Moves(src, dst, v)
  <2>1. free[src] >= v + frozen[src] /\ src # dst
    BY <1>2 DEF transfer, CanTransfer, Moves
  <2>2. free[src] \in Nat /\ frozen[src] \in Nat /\ free[dst] \in Nat
    BY DEF LedgerTypeOK
  <2>3. Dust(src, v) \in 0 .. free[src] - v
    BY <2>1, <2>2, LedgerAssumption DEF Dust
  <2>4. free' = [free EXCEPT ![src] = @ - v - Dust(src, v), ![dst] = @ + v]
    BY <1>2 DEF transfer
  <2>5. free' \in [Accounts -> Nat]
    BY <2>1, <2>2, <2>3, <2>4 DEF LedgerTypeOK
  <2>6. issuance' = issuance - Dust(src, v)
    BY <1>2 DEF transfer
  <2> QED BY <2>2, <2>3, <2>5, <2>6 DEF LedgerTypeOK, transfer
<1> QED BY <1>1, <1>2

\* What the distribution costs and gives is never negative.
LEMMA SharesAreNatural ==
    /\ PureProxies * ProxyDeposit \in Nat /\ Distributed \in Nat
    /\ \A p \in PureAccounts : ShareOf(p) \in Nat
<1> USE CentralBankAssumption
<1>1. Cardinality(Regions) \in Nat \ {0}
  BY FS_CardinalityType, FS_EmptySet
<1>2. PureProxies \in Nat /\ RegionalShare \in Nat /\ PensionShare \in Nat
  BY <1>1 DEF PureProxies, RegionalShare, PensionShare
<1>3. Distributed \in Nat /\ PureProxies * ProxyDeposit \in Nat
  <2>1. \A a, b \in Nat : a * b \in Nat
    OBVIOUS
  <2> QED BY <1>1, <1>2, <2>1 DEF Distributed
<1>4. \A p \in PureAccounts : ShareOf(p) \in Nat
  BY <1>2 DEF ShareOf
<1> QED BY <1>3, <1>4

\* The genesis distribution takes no account below zero.
LEMMA DistributionType ==
    ASSUME LedgerTypeOK, trigger_genesis_distribution
    PROVE  LedgerTypeOK'
<1> USE CentralBankAssumption
<1>1. Distributed \in Nat /\ PureProxies * ProxyDeposit \in Nat
  BY SharesAreNatural
<1>2. \A p \in PureAccounts : ShareOf(p) \in Nat
  BY SharesAreNatural
<1> DEFINE cost == PureProxies * ProxyDeposit
<1>3. /\ free[Creator] >= cost + ExistentialDeposit
      /\ free[CentralBankAccount] >= Distributed + ExistentialDeposit
      /\ free' = FreeAfterDistribution
      /\ reserved' = [reserved EXCEPT ![Creator] = @ + cost]
      /\ UNCHANGED <<frozen, issuance>>
  BY DEF trigger_genesis_distribution, CanDistribute
<1>4. \A a \in Accounts :
         free'[a] = IF a \in PureAccounts THEN free[a] + ShareOf(a)
                    ELSE IF a = Creator THEN free[a] - cost
                    ELSE IF a = CentralBankAccount THEN free[a] - Distributed
                    ELSE free[a]
  BY <1>3 DEF FreeAfterDistribution
<1>5. cost \in Nat
  BY <1>1
<1> HIDE DEF cost
<1>6. \A a \in Accounts : free'[a] \in Nat
  <2> SUFFICES ASSUME NEW a \in Accounts
               PROVE  free'[a] \in Nat
    OBVIOUS
  <2>1. free[a] \in Nat
    BY DEF LedgerTypeOK
  <2>2. CASE a \in PureAccounts
    BY <1>2, <1>4, <2>1, <2>2
  <2>3. CASE a \notin PureAccounts
    BY <1>1, <1>3, <1>4, <1>5, <2>1, <2>3, LedgerAssumption
  <2> QED BY <2>2, <2>3
<1>7. DOMAIN free' = Accounts /\ free' = [a \in Accounts |-> free'[a]]
  BY <1>3 DEF FreeAfterDistribution
<1>8. free' \in [Accounts -> Nat]
  BY <1>6, <1>7
<1>9. reserved' \in [Accounts -> Nat]
  <2>1. reserved \in [Accounts -> Nat] /\ reserved' = [reserved EXCEPT ![Creator] = @ + cost]
    BY <1>3 DEF LedgerTypeOK
  <2>2. reserved[Creator] + cost \in Nat
    BY <1>5, <2>1
  <2> QED BY <2>1, <2>2
<1>10. frozen' \in [Accounts -> Nat] /\ issuance' \in Int
  BY <1>3 DEF LedgerTypeOK
<1> QED BY <1>8, <1>9, <1>10 DEF LedgerTypeOK

-----------------------------------------------------------------------------
(* The debts                                                               *)

\* A change of one debt changes one cell of every ledger it is part of.
LEMMA DebtChange ==
    ASSUME operatorDebt \in [Accounts -> [EpochIds -> Nat]],
           NEW op \in Accounts, NEW e \in EpochIds, NEW d \in Int,
           operatorDebt[op][e] + d >= 0,
           operatorDebt' = DebtAfter(op, e, d)
    PROVE  /\ operatorDebt' \in [Accounts -> [EpochIds -> Nat]]
           /\ AllDebts' = Adjusted(AllDebts, <<op, e>>, d)
           /\ operatorDebt'[op] = Adjusted(operatorDebt[op], e, d)
           /\ \A a \in Accounts \ {op} : operatorDebt'[a] = operatorDebt[a]
           /\ EpochDebts(e)' = Adjusted(EpochDebts(e), op, d)
           /\ \A k \in EpochIds \ {e} : EpochDebts(k)' = EpochDebts(k)
<1>1. operatorDebt' = [operatorDebt EXCEPT ![op][e] = @ + d]
  BY DEF DebtAfter
<1>2. operatorDebt' \in [Accounts -> [EpochIds -> Nat]]
  BY <1>1
<1>3. \A a \in Accounts, k \in EpochIds :
         operatorDebt'[a][k] = IF a = op /\ k = e THEN operatorDebt[a][k] + d
                                                  ELSE operatorDebt[a][k]
  BY <1>1
<1>4. AllDebts' = Adjusted(AllDebts, <<op, e>>, d)
  <2>1. \A c \in Accounts \X EpochIds :
           AllDebts'[c] = IF c = <<op, e>> THEN AllDebts[c] + d ELSE AllDebts[c]
    BY <1>3 DEF AllDebts
  <2> QED BY <2>1 DEF AllDebts, Adjusted
<1>5. operatorDebt'[op] = Adjusted(operatorDebt[op], e, d)
  BY <1>1 DEF Adjusted
<1>6. \A a \in Accounts \ {op} : operatorDebt'[a] = operatorDebt[a]
  BY <1>1
<1>7. EpochDebts(e)' = Adjusted(EpochDebts(e), op, d)
  BY <1>3 DEF EpochDebts, Adjusted
<1>8. \A k \in EpochIds \ {e} : EpochDebts(k)' = EpochDebts(k)
  BY <1>3 DEF EpochDebts
<1> QED BY <1>2, <1>4, <1>5, <1>6, <1>7, <1>8

-----------------------------------------------------------------------------
(* Initial states                                                          *)

\* A freshly built genesis satisfies the inductive invariant.
LEMMA InitIInv == Init => IInv
<1> SUFFICES ASSUME Init
             PROVE  IInv
  OBVIOUS
<1> USE CentralBankAssumption, LedgerAssumption, GenesisIsNatural
<1>1. IsFiniteSet(EpochIds)
  BY FS_Interval DEF EpochIds
<1>2. compute_dynamic_rate(0) = 0
  BY DEF compute_dynamic_rate
<1>3. /\ NewEpoch(0) \in EpochInfo
      /\ NewEpoch(0).key_rate = 0
      /\ NewEpoch(0).total_issued = 0
      /\ NewEpoch(0).total_repaid = 0
  BY <1>2 DEF NewEpoch, EpochInfo
<1>4. /\ currentEpochId = 1
      /\ epochs = [e \in 1 .. 1 |-> NewEpoch(0)]
  BY DEF Init
<1>5. TypeOK
  <2>1. LedgerTypeOK
    BY DEF Init, LedgerTypeOK
  <2>2. epochs \in [1 .. currentEpochId -> EpochInfo]
    BY <1>3, <1>4
  <2>3. currentEpochId \in EpochIds
    BY DEF Init, EpochIds
  <2>4. DOMAIN regionalTreasuries = {} /\ DOMAIN pensionFunds = {}
    BY DEF Init
  <2> QED BY <2>1, <2>2, <2>3, <2>4 DEF Init, TypeOK
<1>6. PoolConservation
  BY DEF Init, PoolConservation
<1>7. OutstandingIsSum
  <2>1. IsFiniteSet(Accounts \X EpochIds)
    BY <1>1, FS_Product
  <2>2. AllDebts = [c \in Accounts \X EpochIds |-> 0]
    BY DEF Init, AllDebts
  <2>3. totalOutstanding = 0
    BY DEF Init
  <2> QED BY <2>1, <2>2, <2>3, EmptyLedgerSum DEF OutstandingIsSum
<1>8. OperatorTotalsAreSums
  <2> SUFFICES ASSUME NEW op \in Accounts
               PROVE  IsSum(operatorDebt[op], totalOperatorDebt[op])
    BY DEF OperatorTotalsAreSums
  <2>1. operatorDebt[op] = [e \in EpochIds |-> 0] /\ totalOperatorDebt[op] = 0
    BY DEF Init
  <2> QED BY <2>1, <1>1, EmptyLedgerSum
<1>9. EpochTotalsAreSums
  <2> SUFFICES ASSUME NEW e \in EpochIds
               PROVE  IsSum(EpochDebts(e),
                            IF e \in DOMAIN epochs
                            THEN epochs[e].total_issued - epochs[e].total_repaid ELSE 0)
    BY DEF EpochTotalsAreSums
  <2>1. EpochDebts(e) = [a \in Accounts |-> 0]
    BY DEF Init, EpochDebts
  <2>2. e \in DOMAIN epochs => epochs[e].total_issued - epochs[e].total_repaid = 0
    BY <1>3, <1>4
  <2>3. IsSum(EpochDebts(e), 0)
    BY <2>1, EmptyLedgerSum
  <2> QED BY <2>2, <2>3
<1>10. IssuanceBound
  BY DEF Init, IssuanceBound
<1>11. KeyRateIsCurrent
  <2>1. totalOutstanding = 0
    BY DEF Init
  <2> QED BY <2>1, <1>2, <1>3, <1>4 DEF KeyRateIsCurrent
<1> QED BY <1>5, <1>6, <1>7, <1>8, <1>9, <1>10, <1>11 DEF IInv

-----------------------------------------------------------------------------
(* Steps that leave the credit engine alone                                *)

\* The parts of the invariant that speak of credit only.
CreditInv ==
    /\ PoolConservation
    /\ OutstandingIsSum
    /\ OperatorTotalsAreSums
    /\ EpochTotalsAreSums
    /\ KeyRateIsCurrent

\* A step that changes neither epochs nor debts nor the pool preserves them.
LEMMA CreditUnchanged ==
    ASSUME IInv, UNCHANGED <<epochBook, debts, pool>>
    PROVE  CreditInv'
<1>1. UNCHANGED <<currentEpochId, epochs, operatorDebt, totalOperatorDebt,
                  genesisCreditAvailable, totalOutstanding>>
  BY DEF epochBook, debts, pool
<1>2. PoolConservation' /\ OutstandingIsSum' /\ OperatorTotalsAreSums' /\ KeyRateIsCurrent'
  BY <1>1 DEF IInv, PoolConservation, OutstandingIsSum, AllDebts,
              OperatorTotalsAreSums, KeyRateIsCurrent, compute_dynamic_rate,
              utilization_percent
<1>3. EpochTotalsAreSums'
  BY <1>1 DEF IInv, EpochTotalsAreSums, EpochDebts
<1> QED BY <1>2, <1>3 DEF CreditInv

\* Emission of at most what is added to TotalEmitted keeps the issuance bound.
LEMMA EmissionArithmetic ==
    ASSUME TypeOK, IssuanceBound, NEW v \in Nat, LedgerTypeOK',
           issuance' <= issuance + v, totalEmitted' = totalEmitted + v,
           totalBurned' = totalBurned, totalOutstanding' = totalOutstanding
    PROVE  IssuanceBound'
<1>1. /\ issuance \in Int /\ issuance' \in Int /\ M0 \in Nat
      /\ totalEmitted \in Nat /\ totalBurned \in Nat /\ totalOutstanding \in Nat
  BY GenesisIsNatural DEF TypeOK, LedgerTypeOK
<1>2. issuance + totalBurned <= M0 + totalEmitted + totalOutstanding
  BY DEF IssuanceBound
<1>3. \A i, j \in Int, b, m, e, o \in Nat :
         i + b <= m + e + o /\ j <= i + v => j + b <= m + (e + v) + o
  OBVIOUS
<1>4. issuance' + totalBurned <= M0 + (totalEmitted + v) + totalOutstanding
  BY <1>1, <1>2, <1>3
<1> QED BY <1>4 DEF IssuanceBound

\* Whatever else moves money without issuing any preserves the invariant.
LEMMA TransferStep ==
    ASSUME IInv, LedgerTypeOK', issuance' <= issuance, UNCHANGED cbVars
    PROVE  IInv'
<1>1. TypeOK /\ IssuanceBound /\ LedgerTypeOK
  BY DEF IInv, TypeOK
<1>2. CreditInv'
  BY CreditUnchanged DEF cbVars
<1>3. TypeOK'
  BY <1>1 DEF TypeOK, cbVars, emission, treasuries, epochBook, debts, pool
<1>4. totalEmitted' = totalEmitted /\ totalBurned' = totalBurned
      /\ totalOutstanding' = totalOutstanding
  BY DEF cbVars, emission, pool
<1>5. totalEmitted' = totalEmitted + 0 /\ issuance' <= issuance + 0
  BY <1>1, <1>4 DEF TypeOK, LedgerTypeOK
<1>6. IssuanceBound'
  BY <1>1, <1>4, <1>5, EmissionArithmetic
<1> QED BY <1>2, <1>3, <1>6 DEF CreditInv, IInv

\* Licensing, emission, burning, the base rate, the distribution, the grants
\* and the holders' transfers preserve the invariant.
LEMMA MoneySteps ==
    ASSUME IInv,
           \/ \E op \in Operators : grant_operator_license(op) \/ revoke_operator_license(op)
           \/ \E op \in Operators, n \in Amounts : mint_to_operator(op, n) \/ burn(op, n)
           \/ \E rate \in BaseRates : set_base_rate(rate)
           \/ trigger_genesis_distribution
           \/ \E c \in Wallets, r \in Regions : issue_genesis_grant(c, r)
           \/ LedgerNext
    PROVE  IInv'
<1>1. TypeOK /\ IssuanceBound /\ LedgerTypeOK
  BY DEF IInv, TypeOK
<1>0. M0 \in Nat
  BY GenesisIsNatural
<1>2. UNCHANGED <<epochBook, debts, pool>>
  BY DEF grant_operator_license, revoke_operator_license, mint_to_operator, burn,
         set_base_rate, trigger_genesis_distribution, issue_genesis_grant,
         LedgerNext, UserTransfer, cbVars
<1>3. CreditInv'
  BY <1>2, CreditUnchanged
<1>4. ASSUME TypeOK', IssuanceBound'
      PROVE  IInv'
  BY <1>3, <1>4 DEF CreditInv, IInv
<1>5. CASE \E op \in Operators : grant_operator_license(op) \/ revoke_operator_license(op)
  <2>1. /\ licensedOperators' \subseteq Accounts
        /\ UNCHANGED <<ledger, emission, treasuries, epochBook, debts, pool, baseKeyRate>>
    <3>1. licensedOperators \subseteq Accounts /\ Operators \subseteq Accounts
      BY <1>1, CentralBankAssumption DEF TypeOK
    <3> QED BY <1>5, <3>1 DEF grant_operator_license, revoke_operator_license
  <2>2. TypeOK'
    BY <1>1, <2>1 DEF TypeOK, LedgerTypeOK, ledger, emission, treasuries, epochBook, debts, pool
  <2>3. IssuanceBound'
    BY <1>1, <2>1 DEF IssuanceBound, ledger, emission, pool
  <2> QED BY <2>2, <2>3, <1>4
<1>6. ASSUME NEW op \in Operators, NEW n \in Amounts, mint_to_operator(op, n)
      PROVE  IInv'
  <2>1. n \in Nat /\ op \in Accounts
    BY CentralBankAssumption
  <2>2. LedgerTypeOK' /\ issuance' <= issuance + n
    BY <1>1, <1>6, <2>1, DepositCreating DEF mint_to_operator
  <2>3. TypeOK'
    BY <1>1, <1>6, <2>1, <2>2 DEF mint_to_operator, TypeOK, treasuries, epochBook, debts, pool
  <2>4. /\ totalEmitted' = totalEmitted + n
        /\ totalBurned' = totalBurned /\ totalOutstanding' = totalOutstanding
    BY <1>6 DEF mint_to_operator, pool
  <2>5. IssuanceBound'
    BY <1>1, <2>1, <2>2, <2>4, EmissionArithmetic
  <2> QED BY <2>3, <2>5, <1>4
<1>7. ASSUME NEW op \in Operators, NEW n \in Amounts, burn(op, n)
      PROVE  IInv'
  <2>1. n \in Nat /\ op \in Accounts
    BY CentralBankAssumption
  <2>2. LedgerTypeOK' /\ issuance' = issuance - n
    BY <1>1, <1>7, <2>1, Withdraw DEF burn
  <2>3. TypeOK'
    BY <1>1, <1>7, <2>1, <2>2 DEF burn, TypeOK, treasuries, epochBook, debts, pool
  <2>4. /\ totalBurned' = totalBurned + n
        /\ totalEmitted' = totalEmitted /\ totalOutstanding' = totalOutstanding
    BY <1>7 DEF burn, pool
  <2>5. /\ issuance \in Int /\ totalEmitted \in Nat /\ totalBurned \in Nat
        /\ totalOutstanding \in Nat
    BY <1>1 DEF TypeOK, LedgerTypeOK
  <2>6. IssuanceBound'
    BY <1>0, <1>1, <2>1, <2>2, <2>4, <2>5 DEF IssuanceBound
  <2> QED BY <2>3, <2>6, <1>4
<1>8. CASE \E rate \in BaseRates : set_base_rate(rate)
  <2>1. /\ baseKeyRate' \in Nat
        /\ UNCHANGED <<ledger, licensedOperators, emission, treasuries, epochBook, debts, pool>>
    BY <1>8, CentralBankAssumption DEF set_base_rate
  <2>2. TypeOK'
    BY <1>1, <2>1 DEF TypeOK, LedgerTypeOK, ledger, emission, treasuries, epochBook, debts, pool
  <2>3. IssuanceBound'
    BY <1>1, <2>1 DEF IssuanceBound, ledger, emission, pool
  <2> QED BY <2>2, <2>3, <1>4
<1>9. CASE trigger_genesis_distribution
  <2>1. LedgerTypeOK'
    BY <1>1, <1>9, DistributionType DEF trigger_genesis_distribution
  <2>2. TypeOK'
    BY <1>1, <1>9, <2>1 DEF trigger_genesis_distribution, TypeOK, emission, epochBook,
          debts, pool
  <2>3. IssuanceBound'
    BY <1>1, <1>9 DEF trigger_genesis_distribution, IssuanceBound, emission, pool
  <2> QED BY <2>2, <2>3, <1>4
<1>10. ASSUME NEW c \in Wallets, NEW r \in Regions, issue_genesis_grant(c, r)
       PROVE  IInv'
  <2>1. GenesisGrant \in Nat /\ c \in Accounts
    BY CentralBankAssumption
  <2>2. LedgerTypeOK' /\ issuance' <= issuance + GenesisGrant
    BY <1>1, <1>10, <2>1, DepositCreating DEF issue_genesis_grant
  <2>3. TypeOK'
    BY <1>1, <1>10, <2>1, <2>2 DEF issue_genesis_grant, GrantEmitted, TypeOK,
          treasuries, epochBook, debts, pool
  <2>4. /\ totalEmitted' = totalEmitted + GenesisGrant
        /\ totalBurned' = totalBurned /\ totalOutstanding' = totalOutstanding
    BY <1>10 DEF issue_genesis_grant, GrantEmitted, pool
  <2>5. IssuanceBound'
    BY <1>1, <2>1, <2>2, <2>4, EmissionArithmetic
  <2> QED BY <2>3, <2>5, <1>4
<1>11. ASSUME NEW src \in Wallets, NEW dst \in Payees, NEW n \in Amounts,
              NEW keepAlive \in BOOLEAN, UserTransfer(src, dst, n, keepAlive)
       PROVE  IInv'
  <2>1. n \in Nat /\ src \in Accounts /\ dst \in Accounts
    BY CentralBankAssumption
  <2>2. LedgerTypeOK' /\ issuance' <= issuance
    BY <1>1, <1>11, <2>1, Transfer DEF UserTransfer
  <2> QED BY <1>11, <2>2, TransferStep DEF UserTransfer
<1> QED BY <1>5, <1>6, <1>7, <1>8, <1>9, <1>10, <1>11 DEF LedgerNext

-----------------------------------------------------------------------------
(* Steps of the credit engine                                              *)

\* Closing an epoch preserves the invariant: the fresh record has the rate of
\* the credit that is carried over, and no debts.
LEMMA TransitionStep ==
    ASSUME IInv, transition_epoch
    PROVE  IInv'
<1> DEFINE next == currentEpochId + 1
           fresh == NewEpoch(totalOutstanding)
<1>1. TypeOK /\ LedgerTypeOK
  BY DEF IInv, TypeOK
<1>2. /\ currentEpochId \in EpochIds /\ next \in EpochIds
      /\ DOMAIN epochs = 1 .. currentEpochId
      /\ 1 .. next = DOMAIN epochs \cup {next}
      /\ next \notin DOMAIN epochs
  <2>1. MaxEpoch \in Nat /\ currentEpochId \in 1 .. MaxEpoch /\ currentEpochId < MaxEpoch
    BY <1>1, CentralBankAssumption DEF transition_epoch, do_epoch_transition, TypeOK, EpochIds
  <2>2. DOMAIN epochs = 1 .. currentEpochId
    BY <1>1 DEF TypeOK
  <2>3. 1 .. next = 1 .. currentEpochId \cup {next} /\ next \notin 1 .. currentEpochId
    BY <2>1
  <2> QED BY <2>1, <2>2, <2>3 DEF EpochIds
<1>3. compute_dynamic_rate(totalOutstanding) \in Nat
  BY <1>1, RateType DEF TypeOK
<1>4. /\ fresh \in EpochInfo
      /\ fresh.key_rate = compute_dynamic_rate(totalOutstanding)
      /\ fresh.total_issued - fresh.total_repaid = 0
  BY <1>3, CentralBankAssumption DEF NewEpoch, EpochInfo
<1>5. /\ currentEpochId' = next
      /\ DOMAIN epochs' = 1 .. next
      /\ epochs'[next] = fresh
      /\ \A e \in DOMAIN epochs : epochs'[e] = epochs[e]
      /\ epochs' = [e \in 1 .. next |-> epochs'[e]]
  BY <1>2 DEF transition_epoch, do_epoch_transition
<1>6. UNCHANGED <<ledger, licensedOperators, emission, treasuries, debts, pool, baseKeyRate>>
  BY DEF transition_epoch, do_epoch_transition
<1> HIDE DEF fresh
<1>7. epochs' \in [1 .. currentEpochId' -> EpochInfo]
  <2>1. \A e \in DOMAIN epochs : epochs[e] \in EpochInfo
    BY <1>1, <1>2 DEF TypeOK
  <2>2. \A e \in 1 .. next : epochs'[e] \in EpochInfo
    BY <1>2, <1>4, <1>5, <2>1
  <2> QED BY <1>5, <2>2
<1>8. TypeOK'
  BY <1>1, <1>2, <1>5, <1>6, <1>7 DEF TypeOK, LedgerTypeOK, ledger, emission, treasuries,
        debts, pool
<1>9. PoolConservation' /\ IssuanceBound'
  BY <1>6 DEF IInv, PoolConservation, IssuanceBound, pool, emission, ledger
<1>10. OutstandingIsSum' /\ OperatorTotalsAreSums'
  BY <1>6 DEF IInv, OutstandingIsSum, OperatorTotalsAreSums, AllDebts, debts, pool
<1>11. KeyRateIsCurrent'
  <2>1. totalOutstanding' = totalOutstanding
    BY <1>6 DEF pool
  <2>2. compute_dynamic_rate(totalOutstanding)' = compute_dynamic_rate(totalOutstanding)
    BY <2>1 DEF compute_dynamic_rate, utilization_percent
  <2> QED BY <1>4, <1>5, <2>2 DEF KeyRateIsCurrent
<1>12. EpochTotalsAreSums'
  <2> SUFFICES ASSUME NEW e \in EpochIds
               PROVE  IsSum(EpochDebts(e)',
                            IF e \in DOMAIN epochs'
                            THEN epochs'[e].total_issued - epochs'[e].total_repaid ELSE 0)
    BY DEF EpochTotalsAreSums
  <2>1. EpochDebts(e)' = EpochDebts(e)
    BY <1>6 DEF EpochDebts, debts
  <2>2. IsSum(EpochDebts(e),
              IF e \in DOMAIN epochs
              THEN epochs[e].total_issued - epochs[e].total_repaid ELSE 0)
    BY DEF IInv, EpochTotalsAreSums
  <2>3. CASE e \in DOMAIN epochs
    BY <1>2, <1>5, <2>1, <2>2, <2>3
  <2>4. CASE e = next
    BY <1>2, <1>4, <1>5, <2>1, <2>2, <2>4
  <2>5. CASE e \notin 1 .. next
    BY <1>2, <1>5, <2>1, <2>2, <2>5
  <2> QED BY <1>2, <2>3, <2>4, <2>5
<1> QED BY <1>8, <1>9, <1>10, <1>11, <1>12 DEF IInv

\* The three sums after the debt of op in epoch e changed by d.  The counters
\* and the epoch's totals have followed the change.
LEMMA DebtSums ==
    ASSUME IInv, NEW op \in Accounts, NEW e \in DOMAIN epochs, NEW d \in Int,
           operatorDebt[op][e] + d >= 0,
           operatorDebt' = DebtAfter(op, e, d),
           totalOperatorDebt' = [totalOperatorDebt EXCEPT ![op] = @ + d],
           totalOutstanding' = totalOutstanding + d,
           DOMAIN epochs' = DOMAIN epochs,
           epochs'[e].total_issued - epochs'[e].total_repaid
             = (epochs[e].total_issued - epochs[e].total_repaid) + d,
           \A k \in DOMAIN epochs \ {e} :
              /\ epochs'[k].total_issued = epochs[k].total_issued
              /\ epochs'[k].total_repaid = epochs[k].total_repaid
    PROVE  OutstandingIsSum' /\ OperatorTotalsAreSums' /\ EpochTotalsAreSums'
<1>1. operatorDebt \in [Accounts -> [EpochIds -> Nat]] /\ totalOperatorDebt \in [Accounts -> Nat]
  BY DEF IInv, TypeOK
<1>2. e \in EpochIds
  BY CentralBankAssumption DEF IInv, TypeOK, EpochIds
<1>3. /\ AllDebts' = Adjusted(AllDebts, <<op, e>>, d)
      /\ operatorDebt'[op] = Adjusted(operatorDebt[op], e, d)
      /\ \A a \in Accounts \ {op} : operatorDebt'[a] = operatorDebt[a]
      /\ EpochDebts(e)' = Adjusted(EpochDebts(e), op, d)
      /\ \A k \in EpochIds \ {e} : EpochDebts(k)' = EpochDebts(k)
  BY <1>1, <1>2, DebtChange
<1>4. OutstandingIsSum'
  <2>1. /\ AllDebts \in [DOMAIN AllDebts -> Nat]
        /\ <<op, e>> \in DOMAIN AllDebts
        /\ AllDebts[<<op, e>>] + d >= 0
    BY <1>1, <1>2 DEF AllDebts
  <2>2. IsSum(AllDebts, totalOutstanding)
    BY DEF IInv, OutstandingIsSum
  <2>3. IsSum(Adjusted(AllDebts, <<op, e>>, d), totalOutstanding + d)
    BY <2>1, <2>2, AdjustedSum
  <2> QED BY <1>3, <2>3 DEF OutstandingIsSum
<1>5. OperatorTotalsAreSums'
  <2> SUFFICES ASSUME NEW a \in Accounts
               PROVE  IsSum(operatorDebt'[a], totalOperatorDebt'[a])
    BY DEF OperatorTotalsAreSums
  <2>1. IsSum(operatorDebt[a], totalOperatorDebt[a])
    BY DEF IInv, OperatorTotalsAreSums
  <2>2. CASE a = op
    <3>1. /\ operatorDebt[op] \in [DOMAIN operatorDebt[op] -> Nat]
          /\ e \in DOMAIN operatorDebt[op]
      BY <1>1, <1>2
    <3>2. IsSum(Adjusted(operatorDebt[op], e, d), totalOperatorDebt[op] + d)
      BY <2>1, <2>2, <3>1, AdjustedSum
    <3>3. totalOperatorDebt'[op] = totalOperatorDebt[op] + d
      BY <1>1
    <3> QED BY <1>3, <2>2, <3>2, <3>3
  <2>3. CASE a # op
    <3>1. totalOperatorDebt'[a] = totalOperatorDebt[a]
      BY <1>1, <2>3
    <3> QED BY <1>3, <2>1, <2>3, <3>1
  <2> QED BY <2>2, <2>3
<1>6. EpochTotalsAreSums'
  <2> SUFFICES ASSUME NEW k \in EpochIds
               PROVE  IsSum(EpochDebts(k)',
                            IF k \in DOMAIN epochs'
                            THEN epochs'[k].total_issued - epochs'[k].total_repaid ELSE 0)
    BY DEF EpochTotalsAreSums
  <2>1. IsSum(EpochDebts(k),
              IF k \in DOMAIN epochs
              THEN epochs[k].total_issued - epochs[k].total_repaid ELSE 0)
    BY DEF IInv, EpochTotalsAreSums
  <2>2. CASE k = e
    <3>1. /\ EpochDebts(e) \in [DOMAIN EpochDebts(e) -> Nat]
          /\ op \in DOMAIN EpochDebts(e)
          /\ EpochDebts(e)[op] + d >= 0
      BY <1>1, <1>2 DEF EpochDebts
    <3> DEFINE t == epochs[e].total_issued - epochs[e].total_repaid
    <3>2. IsSum(EpochDebts(e), t)
      BY <2>1, <2>2
    <3>3. epochs'[e].total_issued - epochs'[e].total_repaid = t + d
      OBVIOUS
    <3> HIDE DEF t
    <3>4. IsSum(Adjusted(EpochDebts(e), op, d), t + d)
      BY <3>1, <3>2, AdjustedSum
    <3> QED BY <1>3, <2>2, <3>3, <3>4
  <2>3. CASE k # e
    BY <1>3, <2>1, <2>3
  <2> QED BY <2>2, <2>3
<1> QED BY <1>4, <1>5, <1>6

\* Storing the rate of the open epoch keeps the shape of the book and makes
\* the rate current; book is the book with the issued or repaid total updated.
LEMMA RateUpdate ==
    ASSUME NEW book \in [1 .. currentEpochId -> EpochInfo], NEW o \in Nat,
           currentEpochId \in EpochIds
    PROVE  LET es == update_dynamic_rate(book, o)
           IN  /\ es \in [1 .. currentEpochId -> EpochInfo]
               /\ es[currentEpochId].key_rate = compute_dynamic_rate(o)
               /\ \A e \in 1 .. currentEpochId :
                     /\ es[e].total_issued = book[e].total_issued
                     /\ es[e].total_repaid = book[e].total_repaid
                     /\ e # currentEpochId => es[e].key_rate = book[e].key_rate
<1>1. compute_dynamic_rate(o) \in Nat
  BY RateType
<1>2. currentEpochId \in 1 .. currentEpochId
  BY CentralBankAssumption DEF EpochIds
<1> QED BY <1>1, <1>2 DEF update_dynamic_rate, EpochInfo

BookIssued(es, e, n) == [es EXCEPT ![e].total_issued = @ + n]

\* Raising the issued total of one epoch changes nothing else in the book.
LEMMA IssuedRaised ==
    ASSUME NEW m \in Nat, NEW es \in [1 .. m -> EpochInfo], NEW e \in 1 .. m, NEW n \in Nat,
           NEW book, book = BookIssued(es, e, n)
    PROVE  /\ book \in [1 .. m -> EpochInfo]
           /\ book[e].total_issued = es[e].total_issued + n
           /\ \A k \in 1 .. m :
                 /\ book[k].total_repaid = es[k].total_repaid
                 /\ book[k].key_rate = es[k].key_rate
                 /\ k # e => book[k].total_issued = es[k].total_issued
<1>1. es[e] \in EpochInfo /\ es[e].total_issued + n \in Nat
  <2>1. es[e] \in EpochInfo
    OBVIOUS
  <2>2. es[e].total_issued \in Nat
    BY <2>1, Zenon DEF EpochInfo
  <2> QED BY <2>1, <2>2
<1> DEFINE new == [es[e] EXCEPT !.total_issued = @ + n]
<1>2. /\ new \in EpochInfo
      /\ new.total_issued = es[e].total_issued + n
      /\ new.total_repaid = es[e].total_repaid
      /\ new.key_rate = es[e].key_rate
  BY <1>1 DEF EpochInfo
<1>3. /\ DOMAIN book = 1 .. m
      /\ book[e] = new
      /\ \A k \in 1 .. m : k # e => book[k] = es[k]
      /\ book = [k \in 1 .. m |-> book[k]]
  BY DEF BookIssued
<1> HIDE DEF new
<1>4. \A k \in 1 .. m : book[k] \in EpochInfo
  BY <1>2, <1>3
<1>5. book \in [1 .. m -> EpochInfo]
  BY <1>3, <1>4
<1>6. /\ book[e].total_issued = es[e].total_issued + n
      /\ \A k \in 1 .. m :
            /\ book[k].total_repaid = es[k].total_repaid
            /\ book[k].key_rate = es[k].key_rate
            /\ k # e => book[k].total_issued = es[k].total_issued
  BY <1>2, <1>3
<1> QED BY <1>5, <1>6

BookRepaid(es, e, n) == [es EXCEPT ![e].total_repaid = @ + n]

\* Raising the repaid total of one epoch changes nothing else in the book.
LEMMA RepaidRaised ==
    ASSUME NEW m \in Nat, NEW es \in [1 .. m -> EpochInfo], NEW e \in 1 .. m, NEW n \in Nat,
           NEW book, book = BookRepaid(es, e, n)
    PROVE  /\ book \in [1 .. m -> EpochInfo]
           /\ book[e].total_repaid = es[e].total_repaid + n
           /\ \A k \in 1 .. m :
                 /\ book[k].total_issued = es[k].total_issued
                 /\ book[k].key_rate = es[k].key_rate
                 /\ k # e => book[k].total_repaid = es[k].total_repaid
<1>1. es[e] \in EpochInfo /\ es[e].total_repaid + n \in Nat
  <2>1. es[e] \in EpochInfo
    OBVIOUS
  <2>2. es[e].total_repaid \in Nat
    BY <2>1, Zenon DEF EpochInfo
  <2> QED BY <2>1, <2>2
<1> DEFINE new == [es[e] EXCEPT !.total_repaid = @ + n]
<1>2. /\ new \in EpochInfo
      /\ new.total_repaid = es[e].total_repaid + n
      /\ new.total_issued = es[e].total_issued
      /\ new.key_rate = es[e].key_rate
  BY <1>1 DEF EpochInfo
<1>3. /\ DOMAIN book = 1 .. m
      /\ book[e] = new
      /\ \A k \in 1 .. m : k # e => book[k] = es[k]
      /\ book = [k \in 1 .. m |-> book[k]]
  BY DEF BookRepaid
<1> HIDE DEF new
<1>4. \A k \in 1 .. m : book[k] \in EpochInfo
  BY <1>2, <1>3
<1>5. book \in [1 .. m -> EpochInfo]
  BY <1>3, <1>4
<1>6. /\ book[e].total_repaid = es[e].total_repaid + n
      /\ \A k \in 1 .. m :
            /\ book[k].total_issued = es[k].total_issued
            /\ book[k].key_rate = es[k].key_rate
            /\ k # e => book[k].total_repaid = es[k].total_repaid
  BY <1>2, <1>3
<1> QED BY <1>5, <1>6

\* Taking credit preserves the invariant.
LEMMA RequestStep ==
    ASSUME IInv, NEW op \in Accounts, NEW n \in Nat, do_request_credit(op, n)
    PROVE  IInv'
<1>1. TypeOK /\ LedgerTypeOK /\ PoolConservation /\ IssuanceBound
  BY DEF IInv, TypeOK
<1>2. n \in Nat /\ op \in Accounts /\ CreditEpochLimit \in Nat /\ M0 \in Nat
  BY CentralBankAssumption, GenesisIsNatural
<1>3. do_request_credit(op, n) /\ n > 0 /\ genesisCreditAvailable >= n
  BY DEF do_request_credit, CanRequestCredit
<1>4. /\ currentEpochId \in EpochIds /\ currentEpochId \in DOMAIN epochs
      /\ epochs \in [1 .. currentEpochId -> EpochInfo]
      /\ DOMAIN epochs = 1 .. currentEpochId
      /\ totalOutstanding \in Nat /\ genesisCreditAvailable \in Nat
      /\ operatorDebt \in [Accounts -> [EpochIds -> Nat]]
      /\ totalOperatorDebt \in [Accounts -> Nat]
  BY <1>1, <1>3 DEF TypeOK, do_request_credit, CanRequestCredit
<1> DEFINE book == BookIssued(epochs, currentEpochId, n)
<1>5. /\ genesisCreditAvailable' = genesisCreditAvailable - n
      /\ totalOutstanding' = totalOutstanding + n
      /\ operatorDebt' = DebtAfter(op, currentEpochId, n)
      /\ totalOperatorDebt' = [totalOperatorDebt EXCEPT ![op] = @ + n]
      /\ epochs' = update_dynamic_rate(book, totalOutstanding + n)
      /\ deposit_creating(op, n)
      /\ UNCHANGED <<licensedOperators, emission, treasuries, currentEpochId, baseKeyRate>>
  BY <1>2, <1>3, <1>4 DEF do_request_credit, RecordDebt, SatSub, BookIssued
<1>6. /\ book \in [1 .. currentEpochId -> EpochInfo]
      /\ book[currentEpochId].total_issued = epochs[currentEpochId].total_issued + n
      /\ \A e \in 1 .. currentEpochId :
            /\ book[e].total_repaid = epochs[e].total_repaid
            /\ e # currentEpochId => book[e].total_issued = epochs[e].total_issued
  <2>1. currentEpochId \in Nat
    BY <1>4, CentralBankAssumption DEF EpochIds
  <2> QED BY <1>2, <1>4, <2>1, IssuedRaised
<1>7. totalOutstanding + n \in Nat
  BY <1>2, <1>4
<1> HIDE DEF book
<1>8. /\ epochs' \in [1 .. currentEpochId -> EpochInfo]
      /\ epochs'[currentEpochId].key_rate = compute_dynamic_rate(totalOutstanding + n)
      /\ \A e \in 1 .. currentEpochId :
            /\ epochs'[e].total_issued = book[e].total_issued
            /\ epochs'[e].total_repaid = book[e].total_repaid
  BY <1>4, <1>5, <1>6, <1>7, RateUpdate
<1>9. LedgerTypeOK' /\ issuance' <= issuance + n
  BY <1>1, <1>2, <1>5, DepositCreating
<1>10. TypeOK'
  <2>1. operatorDebt' \in [Accounts -> [EpochIds -> Nat]]
    BY <1>2, <1>4, <1>5 DEF DebtAfter
  <2>2. totalOperatorDebt' \in [Accounts -> Nat]
    BY <1>2, <1>4, <1>5
  <2>3. genesisCreditAvailable' \in Nat /\ totalOutstanding' \in Nat
    BY <1>2, <1>3, <1>4, <1>5
  <2>4. epochs' \in [1 .. currentEpochId' -> EpochInfo]
    BY <1>5, <1>8
  <2> QED BY <1>1, <1>5, <1>9, <2>1, <2>2, <2>3, <2>4 DEF TypeOK, emission, treasuries
<1>11. PoolConservation'
  BY <1>1, <1>2, <1>4, <1>5 DEF PoolConservation
<1>12. KeyRateIsCurrent'
  <2>1. compute_dynamic_rate(totalOutstanding)' = compute_dynamic_rate(totalOutstanding + n)
    BY <1>5 DEF compute_dynamic_rate, utilization_percent
  <2> QED BY <1>5, <1>8, <2>1 DEF KeyRateIsCurrent
<1>13. IssuanceBound'
  <2>1. /\ issuance \in Int /\ issuance' \in Int
        /\ totalEmitted \in Nat /\ totalBurned \in Nat
    BY <1>1, <1>9 DEF TypeOK, LedgerTypeOK
  <2>2. totalEmitted' = totalEmitted /\ totalBurned' = totalBurned
    BY <1>5 DEF emission
  <2>3. \A i, j \in Int, b, m, e, o \in Nat :
           i + b <= m + e + o /\ j <= i + n => j + b <= m + e + (o + n)
    BY <1>2
  <2> QED BY <1>1, <1>2, <1>4, <1>5, <1>9, <2>1, <2>2, <2>3 DEF IssuanceBound
<1>14. OutstandingIsSum' /\ OperatorTotalsAreSums' /\ EpochTotalsAreSums'
  <2>1. n \in Int /\ operatorDebt[op][currentEpochId] + n >= 0
    BY <1>2, <1>4
  <2>2. DOMAIN epochs' = DOMAIN epochs
    BY <1>4, <1>8
  <2>3. epochs'[currentEpochId].total_issued - epochs'[currentEpochId].total_repaid
          = (epochs[currentEpochId].total_issued - epochs[currentEpochId].total_repaid) + n
    <3>1. epochs[currentEpochId].total_issued \in Nat /\ epochs[currentEpochId].total_repaid \in Nat
      BY <1>4 DEF EpochInfo
    <3> QED BY <1>2, <1>4, <1>6, <1>8, <3>1
  <2>4. \A k \in DOMAIN epochs \ {currentEpochId} :
           /\ epochs'[k].total_issued = epochs[k].total_issued
           /\ epochs'[k].total_repaid = epochs[k].total_repaid
    BY <1>4, <1>6, <1>8
  <2> QED BY <1>2, <1>4, <1>5, <2>1, <2>2, <2>3, <2>4, DebtSums
<1> QED BY <1>10, <1>11, <1>12, <1>13, <1>14 DEF IInv

\* A debt is covered by the operator's total and by the outstanding total:
\* neither counter saturates when it is repaid.
LEMMA DebtIsCovered ==
    ASSUME IInv, NEW op \in Accounts, NEW e \in EpochIds
    PROVE  /\ operatorDebt[op][e] <= totalOperatorDebt[op]
           /\ operatorDebt[op][e] <= totalOutstanding
<1>1. operatorDebt \in [Accounts -> [EpochIds -> Nat]]
  BY DEF IInv, TypeOK
<1>2. operatorDebt[op][e] <= totalOperatorDebt[op]
  <2>1. /\ operatorDebt[op] \in [DOMAIN operatorDebt[op] -> Nat]
        /\ e \in DOMAIN operatorDebt[op]
    BY <1>1
  <2>2. IsSum(operatorDebt[op], totalOperatorDebt[op])
    BY DEF IInv, OperatorTotalsAreSums
  <2> QED BY <2>1, <2>2, CellAtMostSum
<1>3. operatorDebt[op][e] <= totalOutstanding
  <2>1. /\ AllDebts \in [DOMAIN AllDebts -> Nat]
        /\ <<op, e>> \in DOMAIN AllDebts
        /\ AllDebts[<<op, e>>] = operatorDebt[op][e]
    BY <1>1 DEF AllDebts
  <2>2. IsSum(AllDebts, totalOutstanding)
    BY DEF IInv, OutstandingIsSum
  <2> QED BY <2>1, <2>2, CellAtMostSum
<1> QED BY <1>2, <1>3

\* Repaying credit of any epoch preserves the invariant.
LEMMA RepayStep ==
    ASSUME IInv, NEW op \in Accounts, NEW e \in EpochIds, NEW n \in Nat,
           do_repay_credit(op, e, n)
    PROVE  IInv'
<1>1. TypeOK /\ LedgerTypeOK /\ PoolConservation /\ IssuanceBound
  BY DEF IInv, TypeOK
<1>2. n \in Nat /\ op \in Accounts /\ CreditEpochLimit \in Nat /\ M0 \in Nat
  BY CentralBankAssumption, GenesisIsNatural
<1>3. do_repay_credit(op, e, n) /\ operatorDebt[op][e] >= n /\ e \in DOMAIN epochs
  BY DEF do_repay_credit, CanRepayCredit
<1>4. /\ currentEpochId \in EpochIds
      /\ currentEpochId \in Nat
      /\ epochs \in [1 .. currentEpochId -> EpochInfo]
      /\ DOMAIN epochs = 1 .. currentEpochId
      /\ totalOutstanding \in Nat /\ genesisCreditAvailable \in Nat
      /\ operatorDebt \in [Accounts -> [EpochIds -> Nat]]
      /\ operatorDebt[op][e] \in Nat
      /\ totalOperatorDebt \in [Accounts -> Nat]
      /\ totalOperatorDebt[op] \in Nat
  <2>1. currentEpochId \in Nat
    BY <1>1, CentralBankAssumption DEF TypeOK, EpochIds
  <2>2. /\ currentEpochId \in EpochIds
        /\ epochs \in [1 .. currentEpochId -> EpochInfo]
        /\ totalOutstanding \in Nat /\ genesisCreditAvailable \in Nat
        /\ operatorDebt \in [Accounts -> [EpochIds -> Nat]]
        /\ totalOperatorDebt \in [Accounts -> Nat]
    BY <1>1 DEF TypeOK
  <2> QED BY <1>2, <2>1, <2>2
<1>5. n <= totalOperatorDebt[op] /\ n <= totalOutstanding
  BY <1>2, <1>3, <1>4, DebtIsCovered
<1>6. genesisCreditAvailable + n <= CreditEpochLimit
  BY <1>1, <1>2, <1>4, <1>5 DEF PoolConservation
<1> DEFINE book == BookRepaid(epochs, e, n)
<1>7. /\ genesisCreditAvailable' = genesisCreditAvailable + n
      /\ totalOutstanding' = totalOutstanding - n
      /\ operatorDebt' = DebtAfter(op, e, 0 - n)
      /\ epochs' = update_dynamic_rate(book, totalOutstanding - n)
      /\ withdraw(op, n)
      /\ UNCHANGED <<licensedOperators, emission, treasuries, currentEpochId, baseKeyRate>>
  BY <1>2, <1>3, <1>4, <1>5, <1>6 DEF do_repay_credit, RestorePool, AtMost, SatSub,
        EpochsAfterRepayment, BookRepaid
<1>8. totalOperatorDebt' = [totalOperatorDebt EXCEPT ![op] = @ + (0 - n)]
  <2>1. totalOperatorDebt' = [totalOperatorDebt EXCEPT ![op] = SatSub(@, n)]
    BY <1>3 DEF do_repay_credit
  <2>2. SatSub(totalOperatorDebt[op], n) = totalOperatorDebt[op] + (0 - n)
    BY <1>2, <1>4, <1>5 DEF SatSub
  <2> QED BY <2>1, <2>2
<1>9. /\ book \in [1 .. currentEpochId -> EpochInfo]
      /\ book[e].total_repaid = epochs[e].total_repaid + n
      /\ \A k \in 1 .. currentEpochId :
            /\ book[k].total_issued = epochs[k].total_issued
            /\ k # e => book[k].total_repaid = epochs[k].total_repaid
  <2>1. currentEpochId \in Nat
    BY <1>1, CentralBankAssumption DEF TypeOK, EpochIds
  <2>2. epochs \in [1 .. currentEpochId -> EpochInfo] /\ e \in 1 .. currentEpochId /\ n \in Nat
    BY <1>2, <1>3, <1>4
  <2>3. book = BookRepaid(epochs, e, n)
    OBVIOUS
  <2> HIDE DEF book
  <2> QED BY <2>1, <2>2, <2>3, RepaidRaised
<1>10. totalOutstanding - n \in Nat
  BY <1>2, <1>4, <1>5
<1> HIDE DEF book
<1>11. /\ epochs' \in [1 .. currentEpochId -> EpochInfo]
       /\ epochs'[currentEpochId].key_rate = compute_dynamic_rate(totalOutstanding - n)
       /\ \A k \in 1 .. currentEpochId :
             /\ epochs'[k].total_issued = book[k].total_issued
             /\ epochs'[k].total_repaid = book[k].total_repaid
  BY <1>4, <1>7, <1>9, <1>10, RateUpdate
<1>12. LedgerTypeOK' /\ issuance' = issuance - n
  BY <1>1, <1>2, <1>7, Withdraw
<1>13. 0 - n \in Int /\ operatorDebt[op][e] + (0 - n) >= 0
  BY <1>2, <1>3, <1>4
<1>14. TypeOK'
  <2>1. operatorDebt' \in [Accounts -> [EpochIds -> Nat]]
    BY <1>2, <1>4, <1>7, <1>13, DebtChange
  <2>2. totalOperatorDebt' \in [Accounts -> Nat]
    <3>1. totalOperatorDebt[op] + (0 - n) \in Nat
      BY <1>2, <1>4, <1>5
    <3> QED BY <1>4, <1>8, <3>1
  <2>3. genesisCreditAvailable' \in Nat /\ totalOutstanding' \in Nat
    BY <1>2, <1>4, <1>7, <1>10
  <2>4. epochs' \in [1 .. currentEpochId' -> EpochInfo]
    BY <1>7, <1>11
  <2> QED BY <1>1, <1>7, <1>12, <2>1, <2>2, <2>3, <2>4 DEF TypeOK, emission, treasuries
<1>15. PoolConservation'
  BY <1>1, <1>2, <1>4, <1>7 DEF PoolConservation
<1>16. KeyRateIsCurrent'
  <2>1. compute_dynamic_rate(totalOutstanding)' = compute_dynamic_rate(totalOutstanding - n)
    BY <1>7 DEF compute_dynamic_rate, utilization_percent
  <2> QED BY <1>7, <1>11, <2>1 DEF KeyRateIsCurrent
<1>17. IssuanceBound'
  <2>1. /\ issuance \in Int /\ totalEmitted \in Nat /\ totalBurned \in Nat
    BY <1>1 DEF TypeOK, LedgerTypeOK
  <2>2. totalEmitted' = totalEmitted /\ totalBurned' = totalBurned
    BY <1>7 DEF emission
  <2>3. \A i \in Int, b, m, x, o \in Nat :
           i + b <= m + x + o => (i - n) + b <= m + x + (o - n)
    BY <1>2
  <2> QED BY <1>1, <1>2, <1>4, <1>7, <1>12, <2>1, <2>2, <2>3 DEF IssuanceBound
<1>18. OutstandingIsSum' /\ OperatorTotalsAreSums' /\ EpochTotalsAreSums'
  <2>1. DOMAIN epochs' = DOMAIN epochs
    BY <1>4, <1>11
  <2>2. epochs'[e].total_issued - epochs'[e].total_repaid
          = (epochs[e].total_issued - epochs[e].total_repaid) + (0 - n)
    <3>1. epochs[e].total_issued \in Nat /\ epochs[e].total_repaid \in Nat
      BY <1>3, <1>4 DEF EpochInfo
    <3> QED BY <1>2, <1>3, <1>4, <1>9, <1>11, <3>1
  <2>3. \A k \in DOMAIN epochs \ {e} :
           /\ epochs'[k].total_issued = epochs[k].total_issued
           /\ epochs'[k].total_repaid = epochs[k].total_repaid
    BY <1>4, <1>9, <1>11
  <2>4. totalOutstanding' = totalOutstanding + (0 - n)
    BY <1>2, <1>4, <1>7
  <2> QED BY <1>2, <1>3, <1>7, <1>8, <1>13, <2>1, <2>2, <2>3, <2>4, DebtSums
<1> QED BY <1>14, <1>15, <1>16, <1>17, <1>18 DEF IInv

\* The calls of the operators themselves.
LEMMA CreditStep ==
    ASSUME IInv,
           \/ \E op \in Wallets, n \in Amounts : request_credit(op, n)
           \/ \E op \in Wallets, e \in EpochIds, n \in Amounts : repay_credit(op, e, n)
    PROVE  IInv'
<1>1. ASSUME NEW op \in Wallets, NEW n \in Amounts, request_credit(op, n)
      PROVE  IInv'
  <2>1. op \in Accounts /\ n \in Nat /\ do_request_credit(op, n)
    BY <1>1, CentralBankAssumption DEF request_credit
  <2> QED BY <2>1, RequestStep
<1>2. ASSUME NEW op \in Wallets, NEW e \in EpochIds, NEW n \in Amounts, repay_credit(op, e, n)
      PROVE  IInv'
  <2>1. op \in Accounts /\ n \in Nat /\ do_repay_credit(op, e, n)
    BY <1>2, CentralBankAssumption DEF repay_credit
  <2> QED BY <2>1, RepayStep
<1> QED BY <1>1, <1>2

-----------------------------------------------------------------------------
(* The theorems                                                            *)

\* A stuttering step preserves the invariant.
LEMMA StutterStep ==
    ASSUME IInv, UNCHANGED vars
    PROVE  IInv'
<1>1. /\ UNCHANGED <<epochBook, debts, pool>>
      /\ UNCHANGED <<ledger, licensedOperators, emission, treasuries, baseKeyRate>>
  BY DEF vars, cbVars
<1>2. CreditInv'
  BY <1>1, CreditUnchanged
<1>3. TypeOK' /\ IssuanceBound'
  BY <1>1 DEF IInv, TypeOK, IssuanceBound, LedgerTypeOK, ledger, emission, treasuries,
        epochBook, debts, pool
<1> QED BY <1>2, <1>3 DEF CreditInv, IInv

\* Every call of the Central Bank preserves the invariant.
LEMMA CentralBankStepInv ==
    ASSUME IInv, CentralBankNext
    PROVE  IInv'
<1>1. CASE transition_epoch
  BY <1>1, TransitionStep
<1>2. CASE \E op \in Wallets, n \in Amounts : request_credit(op, n)
  BY <1>2, CreditStep
<1>3. CASE \E op \in Wallets, e \in EpochIds, n \in Amounts : repay_credit(op, e, n)
  BY <1>3, CreditStep
<1>4. CASE \/ \E op \in Operators : grant_operator_license(op) \/ revoke_operator_license(op)
           \/ \E op \in Operators, n \in Amounts : mint_to_operator(op, n) \/ burn(op, n)
           \/ \E rate \in BaseRates : set_base_rate(rate)
           \/ trigger_genesis_distribution
           \/ \E c \in Wallets, r \in Regions : issue_genesis_grant(c, r)
           \/ LedgerNext
  BY <1>4, MoneySteps
<1> QED BY <1>1, <1>2, <1>3, <1>4 DEF CentralBankNext

\* The inductive invariant holds in every reachable state: every call of the
\* pallet, in any order, keeps the four records of every debt in step.
THEOREM Invariance == Spec => []IInv
<1>1. ASSUME IInv, [Next]_vars
      PROVE  IInv'
  <2>1. CASE CentralBankNext
    BY <1>1, <2>1, CentralBankStepInv
  <2>2. CASE LedgerNext
    BY <1>1, <2>2, MoneySteps
  <2>3. CASE UNCHANGED vars
    BY <1>1, <2>3, StutterStep
  <2> QED BY <1>1, <2>1, <2>2, <2>3 DEF Next
<1> QED BY <1>1, InitIInv, PTL DEF Spec

\* Every storage item keeps its type, no subtraction of the pallet or of the
\* ledger goes below zero and the epoch book has no gaps.
THEOREM TypeCorrect == Spec => []TypeOK
<1>1. IInv => TypeOK
  BY DEF IInv
<1> QED BY <1>1, Invariance, PTL

\* What the pool has left and what is outstanding always make up the limit:
\* neither the saturation nor the cap of do_repay_credit ever takes effect.
THEOREM PoolIsConserved == Spec => []PoolConservation
<1>1. IInv => PoolConservation
  BY DEF IInv
<1> QED BY <1>1, Invariance, PTL

\* All ALTAN in issue is covered by M0, unburned emission or outstanding credit.
THEOREM IssuanceIsCovered == Spec => []IssuanceBound
<1>1. IInv => IssuanceBound
  BY DEF IInv
<1> QED BY <1>1, Invariance, PTL

\* The stored rate of the open epoch is never stale.
THEOREM RateIsCurrent == Spec => []KeyRateIsCurrent
<1>1. IInv => KeyRateIsCurrent
  BY DEF IInv
<1> QED BY <1>1, Invariance, PTL

\* No epoch was ever repaid more than it issued.
LEMMA RepaidAtMostIssued ==
    ASSUME IInv, NEW e \in EpochIds, e \in DOMAIN epochs,
           epochs[e].total_issued \in Nat, epochs[e].total_repaid \in Nat
    PROVE  epochs[e].total_repaid <= epochs[e].total_issued
<1>1. IsSum(EpochDebts(e), epochs[e].total_issued - epochs[e].total_repaid)
  BY DEF IInv, EpochTotalsAreSums
<1>2. epochs[e].total_issued - epochs[e].total_repaid \in Nat
  BY <1>1, SumIsNatural
<1> QED BY <1>2

\* Repayments, the only steps that touch the record of a closed epoch, add to
\* its repaid total and never take it beyond what the epoch issued.
THEOREM HistoryIsKept == Spec => ClosedEpochHistory
<1>1. ASSUME IInv, IInv', [Next]_vars, NEW e \in DOMAIN epochs \ {currentEpochId}
      PROVE  /\ epochs'[e].key_rate = epochs[e].key_rate
             /\ epochs'[e].total_issued = epochs[e].total_issued
             /\ epochs'[e].total_repaid
                  \in epochs[e].total_repaid .. epochs[e].total_issued
  <2>1. /\ currentEpochId \in EpochIds
        /\ epochs \in [1 .. currentEpochId -> EpochInfo]
        /\ DOMAIN epochs = 1 .. currentEpochId
    BY <1>1 DEF IInv, TypeOK
  <2>2. currentEpochId \in Nat /\ e \in 1 .. currentEpochId /\ e \in EpochIds
    BY <2>1, <1>1, CentralBankAssumption DEF EpochIds
  <2>3. epochs[e].total_issued \in Nat /\ epochs[e].total_repaid \in Nat
    BY <2>1, <2>2 DEF EpochInfo
  <2>4. epochs[e].total_repaid <= epochs[e].total_issued
    BY <1>1, <2>1, <2>2, <2>3, RepaidAtMostIssued
  <2>5. CASE epochs'[e] = epochs[e]
    BY <2>3, <2>4, <2>5
  <2>6. CASE UNCHANGED epochs
    BY <2>5, <2>6
  <2>7. CASE transition_epoch
    <3>1. epochs'[e] = epochs[e]
      BY <2>1, <2>2, <2>7 DEF transition_epoch, do_epoch_transition
    <3> QED BY <2>5, <3>1
  <2>8. ASSUME NEW op \in Wallets, NEW n \in Amounts, request_credit(op, n)
        PROVE  epochs'[e] = epochs[e]
    BY <1>1, <2>1, <2>2, <2>8 DEF request_credit, do_request_credit, update_dynamic_rate
  <2>9. ASSUME NEW op \in Wallets, NEW k \in EpochIds, NEW n \in Amounts,
               repay_credit(op, k, n)
        PROVE  /\ epochs'[e].key_rate = epochs[e].key_rate
               /\ epochs'[e].total_issued = epochs[e].total_issued
               /\ epochs'[e].total_repaid
                    \in epochs[e].total_repaid .. epochs[e].total_issued
    <3> DEFINE book == BookRepaid(epochs, k, n)
    <3>1. n \in Nat
      BY CentralBankAssumption
    <3>2. /\ k \in 1 .. currentEpochId
          /\ epochs' = update_dynamic_rate(book, SatSub(totalOutstanding, n))
      BY <2>1, <2>9 DEF repay_credit, do_repay_credit, CanRepayCredit,
            EpochsAfterRepayment, BookRepaid
    <3>3. /\ book \in [1 .. currentEpochId -> EpochInfo]
          /\ book[k].total_repaid = epochs[k].total_repaid + n
          /\ book[e].total_issued = epochs[e].total_issued
          /\ book[e].key_rate = epochs[e].key_rate
          /\ e # k => book[e].total_repaid = epochs[e].total_repaid
      BY <2>1, <2>2, <3>1, <3>2, RepaidRaised
    <3> HIDE DEF book
    <3>4. SatSub(totalOutstanding, n) \in Nat
      BY <1>1, <3>1 DEF SatSub, IInv, TypeOK
    <3>5. /\ epochs'[e].total_issued = book[e].total_issued
          /\ epochs'[e].total_repaid = book[e].total_repaid
          /\ epochs'[e].key_rate = book[e].key_rate
      BY <1>1, <2>1, <2>2, <3>2, <3>3, <3>4, RateUpdate
    <3>6. epochs'[e].total_repaid <= epochs'[e].total_issued
      <4>1. currentEpochId' = currentEpochId
        BY <2>9 DEF repay_credit, do_repay_credit
      <4>2. epochs' \in [1 .. currentEpochId -> EpochInfo]
        BY <1>1, <4>1 DEF IInv, TypeOK
      <4>3. /\ e \in DOMAIN epochs'
            /\ epochs'[e].total_issued \in Nat
            /\ epochs'[e].total_repaid \in Nat
        BY <2>2, <4>2 DEF EpochInfo
      <4>4. IsSum(EpochDebts(e)', epochs'[e].total_issued - epochs'[e].total_repaid)
        BY <1>1, <2>2, <4>3 DEF IInv, EpochTotalsAreSums
      <4>5. epochs'[e].total_issued - epochs'[e].total_repaid \in Nat
        BY <4>4, SumIsNatural
      <4> QED BY <4>3, <4>5
    <3>7. epochs'[e].total_repaid \in Nat /\ epochs'[e].total_repaid >= epochs[e].total_repaid
      BY <2>3, <3>1, <3>3, <3>5
    <3> QED BY <2>3, <3>3, <3>5, <3>6, <3>7
  <2>10. CASE \/ \E op \in Operators : grant_operator_license(op) \/ revoke_operator_license(op)
              \/ \E op \in Operators, n \in Amounts : mint_to_operator(op, n) \/ burn(op, n)
              \/ \E rate \in BaseRates : set_base_rate(rate)
              \/ trigger_genesis_distribution
              \/ \E c \in Wallets, r \in Regions : issue_genesis_grant(c, r)
              \/ LedgerNext
              \/ UNCHANGED vars
    <3>1. UNCHANGED epochs
      BY <2>10 DEF grant_operator_license, revoke_operator_license, mint_to_operator, burn,
             set_base_rate, trigger_genesis_distribution, issue_genesis_grant,
             LedgerNext, UserTransfer, vars, cbVars, epochBook
    <3> QED BY <2>6, <3>1
  <2> QED BY <1>1, <2>5, <2>7, <2>8, <2>9, <2>10 DEF Next, CentralBankNext
<1>2. ASSUME IInv, IInv', [Next]_vars
      PROVE  [\A e \in DOMAIN epochs \ {currentEpochId} :
                 /\ epochs'[e].key_rate = epochs[e].key_rate
                 /\ epochs'[e].total_issued = epochs[e].total_issued
                 /\ epochs'[e].total_repaid
                      \in epochs[e].total_repaid .. epochs[e].total_issued]_vars
  BY <1>1, <1>2
<1> QED BY <1>2, Invariance, PTL DEF Spec, ClosedEpochHistory

-----------------------------------------------------------------------------
(* The debts and the pool                                                  *)

\* The operators' totals add up to the outstanding total.
TotalsAreOutstanding == IsSum(totalOperatorDebt, totalOutstanding)

\* What op owes grows by n, or shrinks when n is negative, and with it the
\* outstanding total.
DebtMoves(op, n) ==
    /\ totalOperatorDebt' = Adjusted(totalOperatorDebt, op, n)
    /\ totalOutstanding' = totalOutstanding + n

\* Every step gives credit the pool has room for, takes back some of what its
\* operator owes, or leaves the debts alone.
LEMMA DebtSteps ==
    ASSUME IInv, [Next]_vars
    PROVE  \/ UNCHANGED <<totalOperatorDebt, totalOutstanding>>
           \/ \E op \in Accounts, n \in 1 .. CreditEpochLimit :
                 totalOutstanding + n <= CreditEpochLimit /\ DebtMoves(op, n)
           \/ \E op \in Accounts, n \in 1 .. CreditEpochLimit :
                 n <= totalOperatorDebt[op] /\ DebtMoves(op, 0 - n)
<1>1. /\ totalOperatorDebt \in [Accounts -> Nat]
      /\ operatorDebt \in [Accounts -> [EpochIds -> Nat]]
      /\ totalOutstanding \in Nat /\ genesisCreditAvailable \in Nat
      /\ CreditEpochLimit \in Nat
      /\ genesisCreditAvailable + totalOutstanding = CreditEpochLimit
  BY CentralBankAssumption DEF IInv, TypeOK, PoolConservation
<1>2. ASSUME NEW op \in Wallets, NEW n \in Amounts, request_credit(op, n)
      PROVE  /\ op \in Accounts /\ n \in 1 .. CreditEpochLimit
             /\ totalOutstanding + n <= CreditEpochLimit /\ DebtMoves(op, n)
  <2>1. op \in Accounts /\ n \in Nat /\ n > 0 /\ genesisCreditAvailable >= n
    BY <1>2, CentralBankAssumption DEF request_credit, do_request_credit, CanRequestCredit
  <2>2. DebtMoves(op, n)
    BY <1>2 DEF request_credit, do_request_credit, RecordDebt, DebtMoves, Adjusted
  <2> QED BY <1>1, <2>1, <2>2
<1>3. ASSUME NEW op \in Wallets, NEW e \in EpochIds, NEW n \in Amounts, repay_credit(op, e, n)
      PROVE  /\ op \in Accounts /\ n \in 1 .. CreditEpochLimit
             /\ n <= totalOperatorDebt[op] /\ DebtMoves(op, 0 - n)
  <2>1. op \in Accounts /\ n \in Nat /\ n > 0 /\ operatorDebt[op][e] >= n
    BY <1>3, CentralBankAssumption DEF repay_credit, do_repay_credit, CanRepayCredit
  <2>2. operatorDebt[op][e] \in Nat /\ totalOperatorDebt[op] \in Nat
    BY <1>1, <2>1
  <2>3. n <= totalOperatorDebt[op] /\ n <= totalOutstanding
    BY <1>1, <2>1, <2>2, DebtIsCovered
  <2>4. /\ totalOperatorDebt' = [totalOperatorDebt EXCEPT ![op] = SatSub(@, n)]
        /\ totalOutstanding' = SatSub(totalOutstanding, n)
    BY <1>3 DEF repay_credit, do_repay_credit
  <2>5. /\ SatSub(totalOperatorDebt[op], n) = totalOperatorDebt[op] + (0 - n)
        /\ SatSub(totalOutstanding, n) = totalOutstanding + (0 - n)
    BY <1>1, <2>1, <2>2, <2>3 DEF SatSub
  <2>6. DebtMoves(op, 0 - n)
    BY <2>4, <2>5 DEF DebtMoves, Adjusted
  <2>7. n \in 1 .. CreditEpochLimit
    BY <1>1, <2>1, <2>3
  <2> QED BY <2>1, <2>3, <2>6, <2>7
<1>4. CASE \/ transition_epoch
           \/ \E op \in Operators : grant_operator_license(op) \/ revoke_operator_license(op)
           \/ \E op \in Operators, n \in Amounts : mint_to_operator(op, n) \/ burn(op, n)
           \/ \E rate \in BaseRates : set_base_rate(rate)
           \/ trigger_genesis_distribution
           \/ \E c \in Wallets, r \in Regions : issue_genesis_grant(c, r)
           \/ LedgerNext
           \/ UNCHANGED vars
  BY <1>4 DEF transition_epoch, do_epoch_transition, grant_operator_license,
        revoke_operator_license, mint_to_operator, burn, set_base_rate,
        trigger_genesis_distribution, issue_genesis_grant, LedgerNext, UserTransfer,
        vars, cbVars, debts, pool
<1> QED BY <1>2, <1>3, <1>4 DEF Next, CentralBankNext

\* The totals of the operators follow the outstanding total.
LEMMA TotalsStep ==
    ASSUME IInv, TotalsAreOutstanding, [Next]_vars
    PROVE  TotalsAreOutstanding'
<1>1. /\ totalOperatorDebt \in [Accounts -> Nat]
      /\ DOMAIN totalOperatorDebt = Accounts
  BY DEF IInv, TypeOK
<1>2. ASSUME NEW op \in Accounts, NEW d \in Int, totalOperatorDebt[op] + d >= 0,
             DebtMoves(op, d)
      PROVE  TotalsAreOutstanding'
  <2>1. IsSum(Adjusted(totalOperatorDebt, op, d), totalOutstanding + d)
    BY <1>1, <1>2, AdjustedSum DEF TotalsAreOutstanding
  <2> QED BY <1>2, <2>1 DEF DebtMoves, TotalsAreOutstanding
<1>3. CASE UNCHANGED <<totalOperatorDebt, totalOutstanding>>
  BY <1>3 DEF TotalsAreOutstanding
<1>4. CASE \E op \in Accounts, n \in 1 .. CreditEpochLimit :
              totalOutstanding + n <= CreditEpochLimit /\ DebtMoves(op, n)
  <2>1. PICK op \in Accounts, n \in 1 .. CreditEpochLimit : DebtMoves(op, n)
    BY <1>4
  <2>2. n \in Int /\ totalOperatorDebt[op] + n >= 0
    BY <1>1, CentralBankAssumption
  <2> QED BY <1>2, <2>1, <2>2
<1>5. CASE \E op \in Accounts, n \in 1 .. CreditEpochLimit :
              n <= totalOperatorDebt[op] /\ DebtMoves(op, 0 - n)
  <2>1. PICK op \in Accounts, n \in 1 .. CreditEpochLimit :
                n <= totalOperatorDebt[op] /\ DebtMoves(op, 0 - n)
    BY <1>5
  <2>2. 0 - n \in Int /\ totalOperatorDebt[op] + (0 - n) >= 0
    BY <1>1, <2>1, CentralBankAssumption
  <2> QED BY <1>2, <2>1, <2>2
<1> QED BY <1>3, <1>4, <1>5, DebtSteps

\* Initially nobody owes anything.
LEMMA TotalsInit == Init => TotalsAreOutstanding
BY LedgerAssumption, EmptyLedgerSum DEF Init, TotalsAreOutstanding

\* The totals of the operators add up to the outstanding total in every
\* reachable state, whatever credit is taken and repaid in whatever epochs.
LEMMA TotalsInvariance == Spec => []TotalsAreOutstanding
<1>1. ASSUME IInv, TotalsAreOutstanding, [Next]_vars
      PROVE  TotalsAreOutstanding'
  BY <1>1, TotalsStep
<1> QED BY <1>1, TotalsInit, Invariance, PTL DEF Spec

\* The four records of a debt agree: do_request_credit and do_repay_credit
\* update each by a statement of its own, and no interleaving of operators and
\* epochs, nor any saturation, takes them apart.
THEOREM DebtRecordsAgree == Spec => []DebtLedgersAgree
<1>1. ASSUME IInv, TotalsAreOutstanding
      PROVE  DebtLedgersAgree
  <2>1. ASSUME NEW op \in Accounts
        PROVE  totalOperatorDebt[op] = SumOver(operatorDebt[op], EpochIds)
    <3>1. IsSum(operatorDebt[op], totalOperatorDebt[op])
      BY <1>1 DEF IInv, OperatorTotalsAreSums
    <3>2. DOMAIN operatorDebt[op] = EpochIds
      BY <1>1 DEF IInv, TypeOK
    <3> QED BY <3>1, <3>2 DEF IsSum
  <2>2. ASSUME NEW e \in DOMAIN epochs
        PROVE  epochs[e].total_issued
                 = epochs[e].total_repaid
                     + SumOver([op \in Accounts |-> operatorDebt[op][e]], Accounts)
    <3>1. e \in EpochIds /\ epochs[e] \in EpochInfo
      BY <1>1, CentralBankAssumption DEF IInv, TypeOK, EpochIds
    <3>2. IsSum(EpochDebts(e), epochs[e].total_issued - epochs[e].total_repaid)
      BY <1>1, <3>1 DEF IInv, EpochTotalsAreSums
    <3>3. SumOver(EpochDebts(e), Accounts) = epochs[e].total_issued - epochs[e].total_repaid
      BY <3>2 DEF IsSum, EpochDebts
    <3>4. epochs[e].total_issued \in Nat /\ epochs[e].total_repaid \in Nat
      BY <3>1 DEF EpochInfo
    <3> QED BY <3>3, <3>4 DEF EpochDebts
  <2>3. totalOutstanding = SumOver(totalOperatorDebt, Accounts)
    BY <1>1 DEF TotalsAreOutstanding, IsSum, IInv, TypeOK
  <2> QED BY <2>1, <2>2, <2>3 DEF DebtLedgersAgree
<1> QED BY <1>1, Invariance, TotalsInvariance, PTL

\* The credit engine implements CreditPool: seen through what each operator
\* owes, it lends while the sum of all debts leaves room and only then, and
\* changes no debt but by lending and by taking back.
THEOREM PoolIsImplemented == Spec => ImplementsCreditPool
<1>1. Init => Pool!Init
  BY DEF Init, Pool!Init
<1>2. ASSUME IInv, TotalsAreOutstanding, [Next]_vars
      PROVE  [Pool!Next]_totalOperatorDebt
  <2>1. Pool!TotalOwed = totalOutstanding
    <3>1. SumOver(totalOperatorDebt, Accounts) = totalOutstanding
      BY <1>2 DEF TotalsAreOutstanding, IsSum, IInv, TypeOK
    <3> QED BY <3>1 DEF Pool!TotalOwed, Pool!MapThenSumSet, Pool!MapThenFoldSet,
          SumOver, MapThenSumSet, MapThenFoldSet
  <2>2. ASSUME NEW op \in Accounts, NEW n \in 1 .. CreditEpochLimit,
               totalOutstanding + n <= CreditEpochLimit, DebtMoves(op, n)
        PROVE  Pool!Borrow(op, n)
    BY <2>1, <2>2 DEF Pool!Borrow, DebtMoves, Adjusted
  <2>3. ASSUME NEW op \in Accounts, NEW n \in 1 .. CreditEpochLimit,
               n <= totalOperatorDebt[op], DebtMoves(op, 0 - n)
        PROVE  Pool!Repay(op, n)
    <3>1. totalOperatorDebt[op] \in Nat /\ n \in Int
      BY <1>2, CentralBankAssumption DEF IInv, TypeOK
    <3>2. totalOperatorDebt[op] + (0 - n) = totalOperatorDebt[op] - n
      BY <3>1
    <3> QED BY <2>3, <3>2 DEF Pool!Repay, DebtMoves, Adjusted
  <2> QED BY <1>2, <2>2, <2>3, DebtSteps DEF Pool!Next
<1> QED BY <1>1, <1>2, Invariance, TotalsInvariance, PTL DEF Spec, Pool!Spec, ImplementsCreditPool

-----------------------------------------------------------------------------
(* The epoch book and the migration                                        *)

\* The totals of one kind, per epoch.
FieldOf(field) == [e \in DOMAIN epochs |-> epochs[e][field]]

\* What the epochs issued and did not get back is what is outstanding.
EpochsAreOutstanding ==
    SumOfEpochs("total_issued") = SumOfEpochs("total_repaid") + totalOutstanding

\* The number of epochs is finite, and their totals are naturals.
LEMMA BookType ==
    ASSUME IInv
    PROVE  /\ IsFiniteSet(DOMAIN epochs)
           /\ totalOutstanding \in Nat
           /\ currentEpochId \in Nat /\ currentEpochId \in EpochIds
           /\ DOMAIN epochs = 1 .. currentEpochId
           /\ epochs \in [1 .. currentEpochId -> EpochInfo]
           /\ \A e \in DOMAIN epochs :
                 epochs[e].total_issued \in Nat /\ epochs[e].total_repaid \in Nat
           /\ SumOfEpochs("total_issued") \in Nat
           /\ SumOfEpochs("total_repaid") \in Nat
<1>1. /\ currentEpochId \in Nat /\ currentEpochId \in EpochIds /\ totalOutstanding \in Nat
      /\ epochs \in [1 .. currentEpochId -> EpochInfo]
      /\ DOMAIN epochs = 1 .. currentEpochId
  BY CentralBankAssumption DEF IInv, TypeOK, EpochIds
<1>2. IsFiniteSet(DOMAIN epochs)
  BY <1>1, FS_Interval
<1>3. \A e \in DOMAIN epochs : epochs[e].total_issued \in Nat /\ epochs[e].total_repaid \in Nat
  BY <1>1 DEF EpochInfo
<1>4. SumOfEpochs("total_issued") \in Nat
  <2>1. \A e \in DOMAIN epochs : FieldOf("total_issued")[e] \in Nat
    BY <1>3 DEF FieldOf
  <2> QED BY <1>2, <2>1, SumOfNaturals DEF SumOfEpochs, FieldOf
<1>5. SumOfEpochs("total_repaid") \in Nat
  <2>1. \A e \in DOMAIN epochs : FieldOf("total_repaid")[e] \in Nat
    BY <1>3 DEF FieldOf
  <2> QED BY <1>2, <2>1, SumOfNaturals DEF SumOfEpochs, FieldOf
<1> QED BY <1>1, <1>2, <1>3, <1>4, <1>5

\* The total of one epoch grew by n, the other totals are as before.
LEMMA BookGrows ==
    ASSUME IInv, NEW field \in {"total_issued", "total_repaid"}, NEW e \in DOMAIN epochs,
           NEW n \in Nat,
           DOMAIN epochs' = DOMAIN epochs,
           epochs'[e][field] = epochs[e][field] + n,
           \A k \in DOMAIN epochs \ {e} : epochs'[k][field] = epochs[k][field]
    PROVE  SumOfEpochs(field)' = SumOfEpochs(field) + n
<1> DEFINE f == FieldOf(field)
           h == FieldOf(field)'
           D == DOMAIN epochs
<1>1. IsFiniteSet(D) /\ n \in Int /\ \A k \in D : f[k] \in Int
  BY BookType DEF FieldOf
<1>2. h[e] = f[e] + n /\ \A k \in D \ {e} : h[k] = f[k]
  BY DEF FieldOf
<1>3. SumOfEpochs(field)' = SumOver(h, D) /\ SumOfEpochs(field) = SumOver(f, D)
  BY DEF SumOfEpochs, FieldOf
<1>4. e \in D
  OBVIOUS
<1> HIDE DEF f, h, D
<1>5. SumOver(h, D) = SumOver(f, D) + n
  BY <1>1, <1>2, <1>4, SumOfChange
<1> QED BY <1>3, <1>5

\* The totals of the epochs are as before.
LEMMA BookRests ==
    ASSUME IInv, NEW field \in {"total_issued", "total_repaid"},
           DOMAIN epochs' = DOMAIN epochs,
           \A k \in DOMAIN epochs : epochs'[k][field] = epochs[k][field]
    PROVE  SumOfEpochs(field)' = SumOfEpochs(field)
BY DEF SumOfEpochs

\* A new epoch with a total of zero was added to the book.
LEMMA BookOpens ==
    ASSUME IInv, NEW field \in {"total_issued", "total_repaid"},
           NEW next, next \notin DOMAIN epochs,
           DOMAIN epochs' = DOMAIN epochs \cup {next},
           epochs'[next][field] = 0,
           \A k \in DOMAIN epochs : epochs'[k][field] = epochs[k][field]
    PROVE  SumOfEpochs(field)' = SumOfEpochs(field)
<1> DEFINE f == FieldOf(field)
           h == FieldOf(field)'
           D == DOMAIN epochs
<1>1. IsFiniteSet(D) /\ \A k \in D : f[k] \in Int
  BY BookType DEF FieldOf
<1>2. h[next] = 0 /\ \A k \in D : h[k] = f[k]
  BY DEF FieldOf
<1>3. /\ SumOfEpochs(field)' = SumOver(h, D \cup {next})
      /\ SumOfEpochs(field) = SumOver(f, D)
  BY DEF SumOfEpochs, FieldOf
<1>4. next \notin D
  OBVIOUS
<1> HIDE DEF f, h, D
<1>5. SumOver(h, D \cup {next}) = SumOver(h, D) + h[next]
  BY <1>1, <1>2, <1>4, SumOfOneMore
<1>6. SumOver(h, D) = SumOver(f, D) /\ SumOver(f, D) \in Int
  BY <1>1, <1>2, SumOfSame, SumIsInt
<1> QED BY <1>2, <1>3, <1>5, <1>6

\* Issuing, repaying and closing an epoch keep book and pool in step.
LEMMA BookStep ==
    ASSUME IInv, EpochsAreOutstanding, [Next]_vars
    PROVE  EpochsAreOutstanding'
<1>1. /\ currentEpochId \in Nat /\ currentEpochId \in EpochIds
      /\ epochs \in [1 .. currentEpochId -> EpochInfo]
      /\ DOMAIN epochs = 1 .. currentEpochId
      /\ totalOutstanding \in Nat
      /\ SumOfEpochs("total_issued") \in Nat /\ SumOfEpochs("total_repaid") \in Nat
  BY BookType
<1>2. CASE UNCHANGED <<epochs, totalOutstanding>>
  BY <1>2 DEF EpochsAreOutstanding, SumOfEpochs
<1>3. CASE transition_epoch
  <2> DEFINE next == currentEpochId + 1
  <2>1. /\ next \notin DOMAIN epochs
        /\ DOMAIN epochs' = DOMAIN epochs \cup {next}
        /\ epochs'[next].total_issued = 0 /\ epochs'[next].total_repaid = 0
        /\ \A k \in DOMAIN epochs : epochs'[k] = epochs[k]
        /\ totalOutstanding' = totalOutstanding
    BY <1>1, <1>3 DEF transition_epoch, do_epoch_transition, NewEpoch, pool
  <2> HIDE DEF next
  <2>2. /\ SumOfEpochs("total_issued")' = SumOfEpochs("total_issued")
        /\ SumOfEpochs("total_repaid")' = SumOfEpochs("total_repaid")
    BY <2>1, BookOpens
  <2> QED BY <2>1, <2>2 DEF EpochsAreOutstanding
<1>4. ASSUME NEW op \in Wallets, NEW n \in Amounts, request_credit(op, n)
      PROVE  EpochsAreOutstanding'
  <2> DEFINE book == BookIssued(epochs, currentEpochId, n)
  <2>1. n \in Nat /\ currentEpochId \in 1 .. currentEpochId /\ totalOutstanding + n \in Nat
    <3>1. n \in Nat
      BY CentralBankAssumption
    <3>2. currentEpochId \in DOMAIN epochs
      BY <1>4 DEF request_credit, do_request_credit, CanRequestCredit
    <3> QED BY <1>1, <3>1, <3>2
  <2>2. /\ totalOutstanding' = totalOutstanding + n
        /\ epochs' = update_dynamic_rate(book, totalOutstanding + n)
    BY <1>4 DEF request_credit, do_request_credit, BookIssued
  <2>3. /\ book \in [1 .. currentEpochId -> EpochInfo]
        /\ book[currentEpochId].total_issued = epochs[currentEpochId].total_issued + n
        /\ \A k \in 1 .. currentEpochId :
              /\ book[k].total_repaid = epochs[k].total_repaid
              /\ k # currentEpochId => book[k].total_issued = epochs[k].total_issued
    BY <1>1, <2>1, IssuedRaised
  <2> HIDE DEF book
  <2>4. /\ DOMAIN epochs' = 1 .. currentEpochId
        /\ \A k \in 1 .. currentEpochId :
              /\ epochs'[k].total_issued = book[k].total_issued
              /\ epochs'[k].total_repaid = book[k].total_repaid
    BY <1>1, <2>1, <2>2, <2>3, RateUpdate
  <2>5. SumOfEpochs("total_issued")' = SumOfEpochs("total_issued") + n
    <3> DEFINE e == currentEpochId
    <3>1. /\ e \in DOMAIN epochs /\ n \in Nat /\ DOMAIN epochs' = DOMAIN epochs
          /\ epochs'[e].total_issued = epochs[e].total_issued + n
          /\ \A k \in DOMAIN epochs \ {e} : epochs'[k].total_issued = epochs[k].total_issued
      BY <1>1, <2>1, <2>3, <2>4
    <3> HIDE DEF e
    <3> QED BY <3>1, BookGrows
  <2>6. SumOfEpochs("total_repaid")' = SumOfEpochs("total_repaid")
    BY <1>1, <2>3, <2>4, BookRests
  <2> QED BY <1>1, <2>1, <2>2, <2>5, <2>6 DEF EpochsAreOutstanding
<1>5. ASSUME NEW op \in Wallets, NEW e \in EpochIds, NEW n \in Amounts, repay_credit(op, e, n)
      PROVE  EpochsAreOutstanding'
  <2> DEFINE book == BookRepaid(epochs, e, n)
  <2>1. /\ n \in Nat /\ e \in DOMAIN epochs /\ op \in Accounts
        /\ operatorDebt[op][e] >= n /\ e \in 1 .. currentEpochId
    BY <1>1, <1>5, CentralBankAssumption DEF repay_credit, do_repay_credit, CanRepayCredit
  <2>2. n <= totalOutstanding /\ SatSub(totalOutstanding, n) = totalOutstanding - n
    <3>1. operatorDebt[op][e] \in Nat
      BY <2>1 DEF IInv, TypeOK
    <3> QED BY <1>1, <2>1, <3>1, DebtIsCovered DEF SatSub
  <2>3. /\ totalOutstanding' = totalOutstanding - n
        /\ epochs' = update_dynamic_rate(book, totalOutstanding - n)
        /\ totalOutstanding - n \in Nat
    BY <1>1, <1>5, <2>1, <2>2 DEF repay_credit, do_repay_credit, EpochsAfterRepayment, BookRepaid
  <2>4. /\ book \in [1 .. currentEpochId -> EpochInfo]
        /\ book[e].total_repaid = epochs[e].total_repaid + n
        /\ \A k \in 1 .. currentEpochId :
              /\ book[k].total_issued = epochs[k].total_issued
              /\ k # e => book[k].total_repaid = epochs[k].total_repaid
    <3>1. /\ currentEpochId \in Nat /\ n \in Nat /\ e \in 1 .. currentEpochId
          /\ epochs \in [1 .. currentEpochId -> EpochInfo]
      BY <1>1, <2>1
    <3> HIDE DEF book
    <3>2. book = BookRepaid(epochs, e, n)
      BY DEF book
    <3> QED BY <3>1, <3>2, RepaidRaised
  <2> HIDE DEF book
  <2>5. /\ DOMAIN epochs' = 1 .. currentEpochId
        /\ \A k \in 1 .. currentEpochId :
              /\ epochs'[k].total_issued = book[k].total_issued
              /\ epochs'[k].total_repaid = book[k].total_repaid
    BY <1>1, <2>3, <2>4, RateUpdate
  <2>6. SumOfEpochs("total_repaid")' = SumOfEpochs("total_repaid") + n
    BY <1>1, <2>1, <2>4, <2>5, BookGrows
  <2>7. SumOfEpochs("total_issued")' = SumOfEpochs("total_issued")
    BY <1>1, <2>4, <2>5, BookRests
  <2> QED BY <1>1, <2>1, <2>3, <2>6, <2>7 DEF EpochsAreOutstanding
<1>6. CASE \/ \E op \in Operators : grant_operator_license(op) \/ revoke_operator_license(op)
           \/ \E op \in Operators, n \in Amounts : mint_to_operator(op, n) \/ burn(op, n)
           \/ \E rate \in BaseRates : set_base_rate(rate)
           \/ trigger_genesis_distribution
           \/ \E c \in Wallets, r \in Regions : issue_genesis_grant(c, r)
           \/ LedgerNext
           \/ UNCHANGED vars
  <2>1. UNCHANGED <<epochs, totalOutstanding>>
    BY <1>6 DEF grant_operator_license, revoke_operator_license, mint_to_operator, burn,
          set_base_rate, trigger_genesis_distribution, issue_genesis_grant, LedgerNext,
          UserTransfer, vars, cbVars, epochBook, pool
  <2> QED BY <2>1, <1>2
<1> QED BY <1>3, <1>4, <1>5, <1>6 DEF Next, CentralBankNext

\* The book of the first epoch is empty, as the pool's debts are.
LEMMA BookInit == Init => EpochsAreOutstanding
<1> SUFFICES ASSUME Init PROVE EpochsAreOutstanding
  OBVIOUS
<1>1. /\ FieldOf("total_issued") = [e \in {1} |-> 0]
      /\ FieldOf("total_repaid") = [e \in {1} |-> 0]
      /\ DOMAIN epochs = {1} /\ totalOutstanding = 0
  BY DEF Init, FieldOf, NewEpoch
<1> DEFINE zero == [e \in {1} |-> 0]
<1>2. SumOver(zero, {1}) = 0
  <2>1. IsSum(zero, 0)
    BY FS_Singleton, EmptyLedgerSum
  <2> QED BY <2>1 DEF IsSum
<1>3. SumOfEpochs("total_issued") = 0 /\ SumOfEpochs("total_repaid") = 0
  BY <1>1, <1>2 DEF SumOfEpochs, FieldOf
<1> QED BY <1>1, <1>3 DEF EpochsAreOutstanding

\* InitCreditPool may be applied to any reachable state: where its guard lets
\* it rebuild the pool, what it computes from the epochs is what is stored.
THEOREM MigrationChangesNothing == Spec => []MigrationIsIdempotent
<1>1. ASSUME IInv, EpochsAreOutstanding
      PROVE  MigrationIsIdempotent
  <2>1. CASE genesisCreditAvailable # 0
    BY <2>1 DEF MigrationIsIdempotent, InitCreditPool
  <2>2. CASE genesisCreditAvailable = 0
    <3>1. /\ totalOutstanding \in Nat
          /\ SumOfEpochs("total_issued") \in Nat /\ SumOfEpochs("total_repaid") \in Nat
      BY <1>1, BookType
    <3>2. SatSub(SumOfEpochs("total_issued"), SumOfEpochs("total_repaid")) = totalOutstanding
      BY <1>1, <3>1 DEF EpochsAreOutstanding, SatSub
    <3>3. SatSub(CreditEpochLimit, totalOutstanding) = 0
      BY <1>1, <2>2, <3>1, CentralBankAssumption DEF IInv, PoolConservation, SatSub
    <3> QED BY <2>2, <3>2, <3>3 DEF MigrationIsIdempotent, InitCreditPool, pool
  <2> QED BY <2>1, <2>2
<1>2. ASSUME IInv, EpochsAreOutstanding, [Next]_vars
      PROVE  EpochsAreOutstanding'
  BY <1>2, BookStep
<1> QED BY <1>1, <1>2, BookInit, Invariance, PTL DEF Spec

-----------------------------------------------------------------------------
(* The ledger                                                              *)

\* The sums of the balances are integers, whatever the balances.
LEMMA BalancesAddUp ==
    ASSUME LedgerTypeOK
    PROVE  /\ SumOver(free, Accounts) \in Int /\ SumOver(reserved, Accounts) \in Int
           /\ \A a \in Accounts : free[a] \in Nat /\ reserved[a] \in Nat
           /\ IsFiniteSet(Accounts) /\ ExistentialDeposit \in Nat \ {0}
<1>1. \A a \in Accounts : free[a] \in Nat /\ reserved[a] \in Nat
  BY DEF LedgerTypeOK
<1> QED BY <1>1, LedgerAssumption, SumIsInt

\* Minting adds to one account what it adds to the issuance.
LEMMA HeldDeposit ==
    ASSUME LedgerTypeOK, IssuanceIsHeld, NEW who \in Accounts, NEW v \in Nat,
           deposit_creating(who, v)
    PROVE  IssuanceIsHeld'
<1> DEFINE c == Credited(who, v)
<1>1. c \in Nat /\ (~Exists(who) => c = 0 \/ c >= ExistentialDeposit)
  BY LedgerAssumption DEF Credited
<1>2. /\ free' = [free EXCEPT ![who] = @ + c]
      /\ issuance' = issuance + c /\ reserved' = reserved
  BY DEF deposit_creating
<1> HIDE DEF c
<1>3. /\ free'[who] = free[who] + c
      /\ \A a \in Accounts \ {who} : free'[a] = free[a]
  BY <1>2 DEF LedgerTypeOK
<1>4. SumOver(free', Accounts) = SumOver(free, Accounts) + c
  BY <1>1, <1>3, BalancesAddUp, SumOfChange
<1>5. SumOver(free', Accounts) + SumOver(reserved', Accounts) = issuance'
  BY <1>1, <1>2, <1>4, BalancesAddUp DEF IssuanceIsHeld
<1>6. \A a \in Accounts :
         free'[a] + reserved'[a] > 0 => free'[a] + reserved'[a] >= ExistentialDeposit
  <2> SUFFICES ASSUME NEW a \in Accounts
               PROVE  free'[a] + reserved'[a] > 0
                        => free'[a] + reserved'[a] >= ExistentialDeposit
    OBVIOUS
  <2>1. Exists(a) => free[a] + reserved[a] >= ExistentialDeposit
    BY DEF IssuanceIsHeld
  <2>2. CASE a = who
    BY <1>1, <1>2, <1>3, <2>1, <2>2, BalancesAddUp DEF Exists
  <2>3. CASE a # who
    BY <1>2, <1>3, <2>1, <2>3 DEF Exists
  <2> QED BY <2>2, <2>3
<1> QED BY <1>5, <1>6 DEF IssuanceIsHeld, Exists

\* A withdrawal takes from one account what it takes out of the issuance.
LEMMA HeldWithdraw ==
    ASSUME LedgerTypeOK, IssuanceIsHeld, NEW who \in Accounts, NEW v \in Nat,
           withdraw(who, v)
    PROVE  IssuanceIsHeld'
<1>1. /\ free' = [free EXCEPT ![who] = @ - v]
      /\ issuance' = issuance - v /\ reserved' = reserved
      /\ free[who] >= v + ExistentialDeposit
  BY DEF withdraw
<1>2. /\ free'[who] = free[who] + (0 - v)
      /\ \A a \in Accounts \ {who} : free'[a] = free[a]
  BY <1>1, BalancesAddUp DEF LedgerTypeOK
<1>3. SumOver(free', Accounts) = SumOver(free, Accounts) + (0 - v)
  <2>1. 0 - v \in Int
    OBVIOUS
  <2> QED BY <1>2, <2>1, BalancesAddUp, SumOfChange
<1>4. SumOver(free', Accounts) + SumOver(reserved', Accounts) = issuance'
  BY <1>1, <1>3, BalancesAddUp DEF IssuanceIsHeld
<1>5. \A a \in Accounts :
         free'[a] + reserved'[a] > 0 => free'[a] + reserved'[a] >= ExistentialDeposit
  BY <1>1, <1>2, BalancesAddUp DEF IssuanceIsHeld, Exists
<1> QED BY <1>4, <1>5 DEF IssuanceIsHeld, Exists

\* A transfer takes out of the issuance the dust of the account it reaps, which
\* has nothing reserved.
LEMMA HeldTransfer ==
    ASSUME LedgerTypeOK, IssuanceIsHeld, NEW src \in Accounts, NEW dst \in Accounts,
           NEW v \in Nat, NEW keepAlive \in BOOLEAN, transfer(src, dst, v, keepAlive)
    PROVE  IssuanceIsHeld'
<1>1. CASE ~Moves(src, dst, v)
  BY <1>1 DEF transfer, IssuanceIsHeld, Exists
<1>2. CASE Moves(src, dst, v)
  <2> DEFINE dust == Dust(src, v)
             left == [free EXCEPT ![src] = @ - v - dust]
  <2>1. /\ v > 0 /\ src # dst
        /\ free[src] >= v + frozen[src]
        /\ free[dst] + v >= ExistentialDeposit
        /\ reserved[src] > 0 => free[src] >= v + ExistentialDeposit
        /\ free' = [free EXCEPT ![src] = @ - v - dust, ![dst] = @ + v]
        /\ issuance' = issuance - dust /\ reserved' = reserved
    BY <1>2 DEF transfer, CanTransfer, Moves, Pinned
  <2>2. /\ free[src] - v \in Nat
        /\ dust = IF free[src] - v < ExistentialDeposit THEN free[src] - v ELSE 0
        /\ dust \in Nat
    <3>1. frozen[src] \in Nat
      BY DEF LedgerTypeOK
    <3>2. free[src] - v \in Nat
      BY <2>1, <3>1, BalancesAddUp
    <3> QED BY <3>2 DEF Dust
  <2> HIDE DEF dust
  <2>3. /\ left[src] = free[src] + (0 - (v + dust))
        /\ \A a \in Accounts \ {src} : left[a] = free[a]
    BY <2>2, BalancesAddUp DEF LedgerTypeOK
  <2>4. /\ free'[dst] = left[dst] + v
        /\ \A a \in Accounts \ {dst} : free'[a] = left[a]
    BY <2>1, <2>2, BalancesAddUp DEF LedgerTypeOK
  <2> HIDE DEF left
  <2>5. SumOver(left, Accounts) = SumOver(free, Accounts) + (0 - (v + dust))
    <3>1. 0 - (v + dust) \in Int
      BY <2>2
    <3> QED BY <2>3, <3>1, BalancesAddUp, SumOfChange
  <2>6. SumOver(free', Accounts) = SumOver(left, Accounts) + v
    <3>1. \A a \in Accounts : left[a] \in Int
      BY <2>2, <2>3, BalancesAddUp
    <3> QED BY <2>4, <3>1, BalancesAddUp, SumOfChange
  <2>7. SumOver(free', Accounts) + SumOver(reserved', Accounts) = issuance'
    BY <2>1, <2>2, <2>5, <2>6, BalancesAddUp DEF IssuanceIsHeld
  <2>8. ASSUME NEW a \in Accounts, free'[a] + reserved'[a] > 0
        PROVE  free'[a] + reserved'[a] >= ExistentialDeposit
    <3>1. CASE a = src
      <4>1. free'[src] = free[src] - v - dust
        <5>1. free'[src] = left[src]
          BY <2>1, <2>4
        <5>2. left[src] = free[src] + (0 - (v + dust)) /\ free[src] \in Nat
          BY <2>3, BalancesAddUp
        <5> QED BY <2>2, <5>1, <5>2
      <4>2. CASE free[src] - v < ExistentialDeposit
        <5>1. free'[src] = 0 /\ reserved[src] = 0
          BY <2>1, <2>2, <4>1, <4>2, BalancesAddUp
        <5> QED BY <2>1, <2>8, <3>1, <5>1
      <4>3. CASE ~(free[src] - v < ExistentialDeposit)
        BY <2>1, <2>2, <3>1, <4>1, <4>3, BalancesAddUp
      <4> QED BY <4>2, <4>3
    <3>2. CASE a = dst
      BY <2>1, <2>3, <2>4, <3>2, BalancesAddUp
    <3>3. CASE a # src /\ a # dst
      BY <2>1, <2>3, <2>4, <2>8, <3>3, BalancesAddUp DEF IssuanceIsHeld, Exists
    <3> QED BY <3>1, <3>2, <3>3
  <2> QED BY <2>7, <2>8 DEF IssuanceIsHeld, Exists
<1> QED BY <1>1, <1>2

\* What the treasuries receive of M0.
LEMMA SharesAddUp ==
    ASSUME NEW g, \A p \in PureAccounts : g[p] = ShareOf(p)
    PROVE  IsFiniteSet(PureAccounts) /\ SumOver(g, PureAccounts) = Distributed
<1> USE CentralBankAssumption
<1> DEFINE Regional == {RegionalTreasury(r) : r \in Regions}
           Pension == {PensionFund(r) : r \in Regions}
           n == Cardinality(Regions)
<1>1. n \in Nat \ {0}
  BY FS_CardinalityType, FS_EmptySet
<1>2. RegionalShare \in Nat /\ PensionShare \in Nat /\ ConfederationTotal \in Nat
  BY <1>1 DEF RegionalShare, PensionShare
<1>3. IsFiniteSet(Regional) /\ Cardinality(Regional) = n
  BY TaggedCardinality DEF RegionalTreasury
<1>4. IsFiniteSet(Pension) /\ Cardinality(Pension) = n
  BY TaggedCardinality DEF PensionFund
<1>5. IsFiniteSet({Confederation}) /\ Cardinality({Confederation}) = 1
  BY FS_Singleton
<1>6. /\ Confederation[1] = "confederation"
      /\ \A p \in Regional : p[1] = "regional"
      /\ \A p \in Pension : p[1] = "pension"
  BY DEF Confederation, RegionalTreasury, PensionFund
<1>7. PureAccounts = ({Confederation} \cup Regional) \cup Pension
  BY DEF PureAccounts
<1>8. /\ g[Confederation] = ConfederationTotal
      /\ \A p \in Regional : g[p] = RegionalShare
      /\ \A p \in Pension : g[p] = PensionShare
  <2> HIDE DEF Regional, Pension
  <2> QED BY <1>6, <1>7 DEF ShareOf
<1>9. {Confederation} \cap Regional = {} /\ ({Confederation} \cup Regional) \cap Pension = {}
  <2> HIDE DEF Regional, Pension
  <2> QED BY <1>6
<1> HIDE DEF Regional, Pension, n
<1>10. /\ SumOver(g, {Confederation}) = 1 * ConfederationTotal
       /\ SumOver(g, Regional) = n * RegionalShare
       /\ SumOver(g, Pension) = n * PensionShare
  <2>1. \A p \in {Confederation} : g[p] = ConfederationTotal
    BY <1>8
  <2>2. SumOver(g, {Confederation}) = 1 * ConfederationTotal
    BY <1>2, <1>5, <2>1, SumOfConstant
  <2>3. SumOver(g, Regional) = n * RegionalShare
    BY <1>2, <1>3, <1>8, SumOfConstant
  <2>4. SumOver(g, Pension) = n * PensionShare
    BY <1>2, <1>4, <1>8, SumOfConstant
  <2> QED BY <2>2, <2>3, <2>4
<1>11. \A p \in PureAccounts : g[p] \in Int
  BY <1>2, <1>7, <1>8
<1>12. SumOver(g, {Confederation} \cup Regional)
         = SumOver(g, {Confederation}) + SumOver(g, Regional)
  BY <1>3, <1>5, <1>7, <1>9, <1>11, SumOfParts
<1>13. IsFiniteSet({Confederation} \cup Regional)
  BY <1>3, <1>5, FS_Union
<1>14. SumOver(g, PureAccounts)
         = SumOver(g, {Confederation} \cup Regional) + SumOver(g, Pension)
  BY <1>4, <1>7, <1>9, <1>11, <1>13, SumOfParts
<1>15. n * RegionalShare + n * PensionShare = n * (RegionalShare + PensionShare)
  <2>1. \A a, b, c \in Nat : a * b + a * c = a * (b + c)
    OBVIOUS
  <2> QED BY <1>1, <1>2, <2>1
<1>16. n * RegionalShare \in Int /\ n * PensionShare \in Int
  <2>1. \A a, b \in Nat : a * b \in Int
    OBVIOUS
  <2> QED BY <1>1, <1>2, <2>1
<1>17. SumOver(g, PureAccounts) = ConfederationTotal + n * (RegionalShare + PensionShare)
  BY <1>2, <1>10, <1>12, <1>14, <1>15, <1>16
<1>18. IsFiniteSet(PureAccounts)
  BY <1>4, <1>7, <1>13, FS_Union
<1> QED BY <1>17, <1>18 DEF Distributed, n

\* The distribution moves M0 and reserves the deposits: nothing is issued.
LEMMA HeldDistribution ==
    ASSUME LedgerTypeOK, IssuanceIsHeld, trigger_genesis_distribution
    PROVE  IssuanceIsHeld'
<1> DEFINE cost == PureProxies * ProxyDeposit
           g == [a \in Accounts |-> IF a \in PureAccounts THEN ShareOf(a)
                                    ELSE IF a = Creator THEN 0 - cost
                                    ELSE IF a = CentralBankAccount THEN 0 - Distributed
                                    ELSE 0]
           zero == [a \in Accounts |-> 0]
           debit == [a \in Accounts |-> IF a = Creator THEN 0 - cost ELSE 0]
           Others == Accounts \ PureAccounts
<1>1. /\ Creator \in Others /\ CentralBankAccount \in Others
      /\ Creator # CentralBankAccount /\ PureAccounts \subseteq Accounts
      /\ Accounts = PureAccounts \cup Others /\ PureAccounts \cap Others = {}
  BY CentralBankAssumption
<1>2. cost \in Nat /\ Distributed \in Nat /\ \A p \in PureAccounts : ShareOf(p) \in Nat
  BY SharesAreNatural
<1>3. /\ free[Creator] >= cost + ExistentialDeposit
      /\ free[CentralBankAccount] >= Distributed + ExistentialDeposit
      /\ \A p \in PureAccounts : free[p] + ShareOf(p) >= ExistentialDeposit
      /\ free' = FreeAfterDistribution
      /\ reserved' = [reserved EXCEPT ![Creator] = @ + cost]
      /\ issuance' = issuance
  BY DEF trigger_genesis_distribution, CanDistribute
<1> HIDE DEF cost
<1>4. \A a \in Accounts : free'[a] = free[a] + g[a] /\ g[a] \in Int
  <2> SUFFICES ASSUME NEW a \in Accounts
               PROVE  free'[a] = free[a] + g[a] /\ g[a] \in Int
    OBVIOUS
  <2>1. free'[a] = IF a \in PureAccounts THEN free[a] + ShareOf(a)
                   ELSE IF a = Creator THEN free[a] - cost
                   ELSE IF a = CentralBankAccount THEN free[a] - Distributed
                   ELSE free[a]
    BY <1>3 DEF FreeAfterDistribution, cost
  <2> QED BY <1>2, <2>1, BalancesAddUp
<1>5. SumOver(g, PureAccounts) = Distributed /\ IsFiniteSet(PureAccounts)
  <2>1. \A p \in PureAccounts : g[p] = ShareOf(p)
    BY <1>1
  <2> HIDE DEF g
  <2> QED BY <2>1, SharesAddUp
<1>6. SumOver(g, Others) = (0 - cost) + (0 - Distributed)
  <2>1. IsFiniteSet(Others) /\ Cardinality(Others) \in Nat
    BY BalancesAddUp, FS_Subset, FS_CardinalityType
  <2>2. \A a \in Others : zero[a] = 0
    OBVIOUS
  <2>3. /\ debit[Creator] = zero[Creator] + (0 - cost)
        /\ \A a \in Others \ {Creator} : debit[a] = zero[a]
        /\ \A a \in Others : debit[a] \in Int
    BY <1>1, <1>2
  <2>4. /\ g[CentralBankAccount] = debit[CentralBankAccount] + (0 - Distributed)
        /\ \A a \in Others \ {CentralBankAccount} : g[a] = debit[a]
    BY <1>1, <1>2
  <2>5. 0 - cost \in Int /\ 0 - Distributed \in Int
    BY <1>2
  <2> HIDE DEF zero, debit, g, Others
  <2>6. SumOver(zero, Others) = Cardinality(Others) * 0
    BY <2>1, <2>2, SumOfConstant
  <2>7. SumOver(debit, Others) = SumOver(zero, Others) + (0 - cost)
    BY <1>1, <2>1, <2>2, <2>3, <2>5, SumOfChange
  <2>8. SumOver(g, Others) = SumOver(debit, Others) + (0 - Distributed)
    BY <1>1, <2>1, <2>3, <2>4, <2>5, SumOfChange
  <2> QED BY <1>2, <2>1, <2>6, <2>7, <2>8
<1> HIDE DEF g
<1>7. SumOver(g, Accounts) = 0 - cost
  <2>1. IsFiniteSet(Others)
    BY BalancesAddUp, FS_Subset
  <2> HIDE DEF Others
  <2>2. SumOver(g, PureAccounts \cup Others) = SumOver(g, PureAccounts) + SumOver(g, Others)
    BY <1>1, <1>4, <1>5, <2>1, SumOfParts
  <2> QED BY <1>1, <1>2, <1>5, <1>6, <2>2
<1>8. SumOver(free', Accounts) = SumOver(free, Accounts) + (0 - cost)
  <2>1. SumOver(free', Accounts) = SumOver(free, Accounts) + SumOver(g, Accounts)
    <3>1. \A a \in Accounts : free[a] \in Int /\ g[a] \in Int /\ free'[a] = free[a] + g[a]
      BY <1>4, BalancesAddUp
    <3> QED BY <3>1, BalancesAddUp, SumOfPairs
  <2> QED BY <1>7, <2>1
<1>9. SumOver(reserved', Accounts) = SumOver(reserved, Accounts) + cost
  <2>1. /\ reserved'[Creator] = reserved[Creator] + cost
        /\ \A a \in Accounts \ {Creator} : reserved'[a] = reserved[a]
    BY <1>1, <1>3 DEF LedgerTypeOK
  <2> QED BY <1>1, <1>2, <2>1, BalancesAddUp, SumOfChange
<1>10. SumOver(free', Accounts) + SumOver(reserved', Accounts) = issuance'
  BY <1>2, <1>3, <1>8, <1>9, BalancesAddUp DEF IssuanceIsHeld
<1>11. ASSUME NEW a \in Accounts, free'[a] + reserved'[a] > 0
       PROVE  free'[a] + reserved'[a] >= ExistentialDeposit
  <2>1. free[a] \in Nat /\ reserved[a] \in Nat /\ ExistentialDeposit \in Nat
    BY BalancesAddUp
  <2>2. free'[a] = IF a \in PureAccounts THEN free[a] + ShareOf(a)
                   ELSE IF a = Creator THEN free[a] - cost
                   ELSE IF a = CentralBankAccount THEN free[a] - Distributed
                   ELSE free[a]
    BY <1>3 DEF FreeAfterDistribution, cost
  <2>3. reserved'[a] = IF a = Creator THEN reserved[a] + cost ELSE reserved[a]
    BY <1>1, <1>3 DEF LedgerTypeOK
  <2>4. CASE a \in PureAccounts
    BY <1>1, <1>2, <1>3, <2>1, <2>2, <2>3, <2>4
  <2>5. CASE a = Creator
    BY <1>1, <1>2, <1>3, <2>1, <2>2, <2>3, <2>5
  <2>6. CASE a = CentralBankAccount
    BY <1>1, <1>2, <1>3, <2>1, <2>2, <2>3, <2>6
  <2>7. CASE a \notin PureAccounts \cup {Creator, CentralBankAccount}
    BY <1>11, <2>2, <2>3, <2>7 DEF IssuanceIsHeld, Exists
  <2> QED BY <2>4, <2>5, <2>6, <2>7
<1> QED BY <1>10, <1>11 DEF IssuanceIsHeld, Exists

\* Every call leaves what is in issue on the accounts.
LEMMA HeldStep ==
    ASSUME IInv, IssuanceIsHeld, [Next]_vars
    PROVE  IssuanceIsHeld'
<1> USE CentralBankAssumption
<1>1. LedgerTypeOK
  BY DEF IInv, TypeOK
<1>2. CASE UNCHANGED ledger
  BY <1>2 DEF ledger, IssuanceIsHeld, Exists
<1>3. ASSUME NEW who \in Accounts, NEW v \in Nat, deposit_creating(who, v)
      PROVE  IssuanceIsHeld'
  BY <1>1, <1>3, HeldDeposit
<1>4. ASSUME NEW who \in Accounts, NEW v \in Nat, withdraw(who, v)
      PROVE  IssuanceIsHeld'
  BY <1>1, <1>4, HeldWithdraw
<1>5. CASE \E op \in Operators, n \in Amounts : mint_to_operator(op, n) \/ burn(op, n)
  BY <1>3, <1>4, <1>5 DEF mint_to_operator, burn
<1>6. CASE \E op \in Wallets, n \in Amounts : request_credit(op, n)
  BY <1>3, <1>6 DEF request_credit, do_request_credit
<1>7. CASE \E op \in Wallets, e \in EpochIds, n \in Amounts : repay_credit(op, e, n)
  BY <1>4, <1>7 DEF repay_credit, do_repay_credit
<1>8. CASE \E c \in Wallets, r \in Regions : issue_genesis_grant(c, r)
  BY <1>3, <1>8 DEF issue_genesis_grant
<1>9. CASE trigger_genesis_distribution
  BY <1>1, <1>9, HeldDistribution
<1>10. ASSUME NEW src \in Wallets, NEW dst \in Payees, NEW n \in Amounts,
              NEW keepAlive \in BOOLEAN, UserTransfer(src, dst, n, keepAlive)
       PROVE  IssuanceIsHeld'
  BY <1>1, <1>10, HeldTransfer DEF UserTransfer
<1>11. CASE \/ \E op \in Operators : grant_operator_license(op) \/ revoke_operator_license(op)
            \/ \E rate \in BaseRates : set_base_rate(rate)
            \/ transition_epoch
            \/ UNCHANGED vars
  BY <1>2, <1>11 DEF grant_operator_license, revoke_operator_license, set_base_rate,
        transition_epoch, do_epoch_transition, vars
<1> QED BY <1>5, <1>6, <1>7, <1>8, <1>9, <1>10, <1>11 DEF Next, CentralBankNext, LedgerNext

\* The genesis accounts hold M0.
LEMMA HeldInit == Init => IssuanceIsHeld
<1> SUFFICES ASSUME Init PROVE IssuanceIsHeld
  OBVIOUS
<1>1. /\ free = GenesisFree /\ reserved = [a \in Accounts |-> 0] /\ issuance = M0
  BY DEF Init
<1>2. SumOver(reserved, Accounts) = 0
  <2>1. IsSum(reserved, 0) /\ DOMAIN reserved = Accounts
    BY <1>1, LedgerAssumption, EmptyLedgerSum
  <2> QED BY <2>1 DEF IsSum
<1>3. SumOver(free, Accounts) + SumOver(reserved, Accounts) = issuance
  BY <1>1, <1>2, GenesisIsNatural DEF M0
<1>4. \A a \in Accounts : Exists(a) => free[a] + reserved[a] >= ExistentialDeposit
  BY <1>1, CentralBankAssumption, LedgerAssumption DEF Exists
<1> QED BY <1>3, <1>4 DEF IssuanceIsHeld

\* The total issuance is what the accounts hold, and none of them holds less
\* than the existential deposit: no call of the pallet mints without crediting,
\* debits without burning, or leaves dust behind.
THEOREM LedgerIsHeld == Spec => []IssuanceIsHeld
<1>1. ASSUME IInv, IssuanceIsHeld, [Next]_vars
      PROVE  IssuanceIsHeld'
  BY <1>1, HeldStep
<1> QED BY <1>1, HeldInit, Invariance, PTL DEF Spec

\* Debts, money in issue and the migration's view of the pool agree, in every
\* state that the calls of the pallet and its holders' transfers lead to.
THEOREM LedgersAlwaysAgree == Spec => []LedgersAgree
<1>1. DebtLedgersAgree /\ IssuanceIsHeld /\ MigrationIsIdempotent => LedgersAgree
  BY DEF LedgersAgree
<1> QED BY <1>1, DebtRecordsAgree, LedgerIsHeld, MigrationChangesNothing, PTL

-----------------------------------------------------------------------------
(* The rate curve                                                          *)

\* In the healthy phase the rate rises with the utilisation, to the optimal rate.
LEMMA HealthyOrder ==
    ASSUME NEW u \in Nat, NEW w \in Nat, u <= w
    PROVE  /\ HealthyRate(u) \in Nat
           /\ HealthyRate(u) <= HealthyRate(w)
           /\ w <= OptimalUtilization => HealthyRate(w) <= OptimalKeyRate
<1>1. OptimalKeyRate \in Nat /\ OptimalUtilization \in Nat \ {0}
  BY CentralBankAssumption
<1>2. /\ u * OptimalKeyRate \in Nat /\ w * OptimalKeyRate \in Nat
      /\ u * OptimalKeyRate <= w * OptimalKeyRate
  BY <1>1, ProductKeepsOrder
<1>3. HealthyRate(u) \in Nat /\ HealthyRate(u) <= HealthyRate(w)
  BY <1>1, <1>2, DivisionKeepsOrder DEF HealthyRate
<1>4. ASSUME w <= OptimalUtilization
      PROVE  HealthyRate(w) <= OptimalKeyRate
  <2> DEFINE full == OptimalUtilization * OptimalKeyRate
  <2>1. full \in Nat /\ w * OptimalKeyRate <= full
    BY <1>1, <1>4, ProductKeepsOrder
  <2>2. full = OptimalKeyRate * OptimalUtilization
    BY <1>1
  <2>3. full \div OptimalUtilization = OptimalKeyRate
    BY <1>1, <2>2, DivisionKeepsOrder
  <2> HIDE DEF full
  <2>4. (w * OptimalKeyRate) \div OptimalUtilization <= full \div OptimalUtilization
    BY <1>1, <1>2, <2>1, DivisionKeepsOrder
  <2> QED BY <2>3, <2>4 DEF HealthyRate
<1> QED BY <1>3, <1>4

\* In the penalty phase it rises from the optimal rate to the protective one.
LEMMA PenaltyOrder ==
    ASSUME NEW u \in Nat, NEW w \in Nat, OptimalUtilization < u, u <= w
    PROVE  /\ PenaltyRate(u) \in Nat
           /\ OptimalKeyRate <= PenaltyRate(u)
           /\ PenaltyRate(u) <= PenaltyRate(w)
           /\ w <= 100 => PenaltyRate(w) <= MaxProtectiveRate
<1>1. /\ OptimalKeyRate \in Nat /\ MaxProtectiveRate \in Nat
      /\ OptimalKeyRate <= MaxProtectiveRate
      /\ OptimalUtilization \in 1 .. 100
  BY CentralBankAssumption
<1>2. CASE OptimalUtilization = 100
  BY <1>1, <1>2 DEF PenaltyRate
<1>3. CASE OptimalUtilization # 100
  <2> DEFINE span == SatSub(MaxProtectiveRate, OptimalKeyRate)
             room == 100 - OptimalUtilization
             over == u - OptimalUtilization
             beyond == w - OptimalUtilization
  <2>1. /\ span \in Nat /\ OptimalKeyRate + span = MaxProtectiveRate
        /\ room \in Nat \ {0}
        /\ over \in Nat /\ beyond \in Nat /\ over <= beyond
        /\ w <= 100 => beyond <= room
    BY <1>1, <1>3 DEF SatSub
  <2>2. /\ PenaltyRate(u) = OptimalKeyRate + (over * span) \div room
        /\ PenaltyRate(w) = OptimalKeyRate + (beyond * span) \div room
    BY <1>3 DEF PenaltyRate
  <2> HIDE DEF span, room, over, beyond
  <2>3. over * span \in Nat /\ beyond * span \in Nat /\ over * span <= beyond * span
    BY <2>1, ProductKeepsOrder
  <2>4. /\ (over * span) \div room \in Nat /\ (beyond * span) \div room \in Nat
        /\ (over * span) \div room <= (beyond * span) \div room
    BY <2>1, <2>3, DivisionKeepsOrder
  <2>5. ASSUME w <= 100
        PROVE  (beyond * span) \div room <= span
    <3> DEFINE full == room * span
    <3>1. full \in Nat /\ beyond * span <= full
      BY <2>1, <2>5, ProductKeepsOrder
    <3>2. full = span * room
      BY <2>1
    <3>3. full \div room = span
      BY <2>1, <3>2, DivisionKeepsOrder
    <3> HIDE DEF full
    <3>4. (beyond * span) \div room <= full \div room
      BY <2>1, <2>3, <3>1, DivisionKeepsOrder
    <3> QED BY <3>3, <3>4
  <2>6. w <= 100 => OptimalKeyRate + (beyond * span) \div room <= MaxProtectiveRate
    BY <1>1, <2>1, <2>4, <2>5
  <2> QED BY <1>1, <2>2, <2>4, <2>6
<1> QED BY <1>2, <1>3

\* The whole curve: no dip at the kink, and the protective rate is its top.
LEMMA CurveOrder ==
    ASSUME NEW o \in Nat, NEW p \in Nat, o <= p, p <= CreditEpochLimit
    PROVE  /\ compute_dynamic_rate(o) \in Nat /\ compute_dynamic_rate(p) \in Nat
           /\ compute_dynamic_rate(o) <= compute_dynamic_rate(p)
           /\ compute_dynamic_rate(p) <= MaxProtectiveRate
<1>1. /\ CreditEpochLimit \in Nat /\ OptimalUtilization \in Nat
      /\ OptimalKeyRate \in Nat /\ MaxProtectiveRate \in Nat
      /\ OptimalKeyRate <= MaxProtectiveRate
  BY CentralBankAssumption
<1>2. compute_dynamic_rate(o) \in Nat /\ compute_dynamic_rate(p) \in Nat
  BY RateType
<1>3. CASE CreditEpochLimit = 0 \/ p = 0
  BY <1>1, <1>3 DEF compute_dynamic_rate
<1>4. CASE ~(CreditEpochLimit = 0 \/ p = 0)
  <2> DEFINE u == utilization_percent(o)
             w == utilization_percent(p)
  <2>1. u \in Nat /\ w \in Nat /\ u <= w /\ w <= 100
    <3>1. CreditEpochLimit \in Nat \ {0}
      BY <1>1, <1>4
    <3>2. o * 100 \in Nat /\ p * 100 \in Nat /\ o * 100 <= p * 100
      OBVIOUS
    <3>3. p * 100 <= 100 * CreditEpochLimit /\ 100 * CreditEpochLimit \in Nat
      BY <1>1
    <3>4. (100 * CreditEpochLimit) \div CreditEpochLimit = 100
      BY <3>1, DivisionKeepsOrder
    <3>5. /\ (o * 100) \div CreditEpochLimit \in Nat
          /\ (p * 100) \div CreditEpochLimit \in Nat
          /\ (o * 100) \div CreditEpochLimit <= (p * 100) \div CreditEpochLimit
      BY <3>1, <3>2, DivisionKeepsOrder
    <3>6. (p * 100) \div CreditEpochLimit <= (100 * CreditEpochLimit) \div CreditEpochLimit
      BY <3>1, <3>2, <3>3, DivisionKeepsOrder
    <3> QED BY <3>4, <3>5, <3>6 DEF utilization_percent
  <2>2. /\ compute_dynamic_rate(p)
             = IF w <= OptimalUtilization THEN HealthyRate(w) ELSE PenaltyRate(w)
        /\ compute_dynamic_rate(o)
             = IF o = 0 THEN 0
               ELSE IF u <= OptimalUtilization THEN HealthyRate(u) ELSE PenaltyRate(u)
    BY <1>4 DEF compute_dynamic_rate
  <2> HIDE DEF u, w
  <2>3. CASE w <= OptimalUtilization
    <3>1. /\ HealthyRate(u) <= HealthyRate(w) /\ HealthyRate(w) <= OptimalKeyRate
          /\ HealthyRate(u) \in Nat /\ HealthyRate(w) \in Nat
      BY <2>1, <2>3, HealthyOrder
    <3>2. u <= OptimalUtilization
      BY <1>1, <2>1, <2>3
    <3> QED BY <1>1, <1>2, <2>2, <2>3, <3>1, <3>2
  <2>4. CASE ~(w <= OptimalUtilization)
    <3>1. OptimalUtilization < w
      BY <1>1, <2>1, <2>4
    <3>2. /\ PenaltyRate(w) \in Nat /\ OptimalKeyRate <= PenaltyRate(w)
          /\ PenaltyRate(w) <= MaxProtectiveRate
      BY <2>1, <3>1, PenaltyOrder
    <3>3. CASE u <= OptimalUtilization
      <4>1. HealthyRate(u) \in Nat /\ HealthyRate(u) <= OptimalKeyRate
        BY <2>1, <3>3, HealthyOrder
      <4> QED BY <1>1, <1>2, <2>2, <2>4, <3>2, <3>3, <4>1
    <3>4. CASE ~(u <= OptimalUtilization)
      <4>1. OptimalUtilization < u
        BY <1>1, <2>1, <3>4
      <4>2. PenaltyRate(u) \in Nat /\ PenaltyRate(u) <= PenaltyRate(w)
        BY <2>1, <4>1, PenaltyOrder
      <4> QED BY <1>1, <1>2, <2>2, <2>4, <3>2, <3>4, <4>2
    <3> QED BY <3>3, <3>4
  <2> QED BY <2>3, <2>4
<1> QED BY <1>2, <1>3, <1>4

\* The key rate of the open epoch follows the outstanding credit up and down,
\* whichever call changed it, and never passes MaxProtectiveRate.
THEOREM RateFollows == Spec => RateFollowsUtilisation
<1> DEFINE rate == epochs[currentEpochId].key_rate
           A == /\ totalOutstanding' >= totalOutstanding => rate' >= rate
                /\ totalOutstanding' <= totalOutstanding => rate' <= rate
                /\ rate' <= MaxProtectiveRate
<1>1. ASSUME IInv, IInv'
      PROVE  A
  <2>1. /\ totalOutstanding \in Nat /\ totalOutstanding <= CreditEpochLimit
        /\ rate = compute_dynamic_rate(totalOutstanding)
    BY <1>1, CentralBankAssumption DEF IInv, TypeOK, PoolConservation, KeyRateIsCurrent
  <2>2. /\ totalOutstanding' \in Nat /\ totalOutstanding' <= CreditEpochLimit
        /\ rate' = compute_dynamic_rate(totalOutstanding')
    <3>1. /\ totalOutstanding' \in Nat /\ genesisCreditAvailable' \in Nat
          /\ genesisCreditAvailable' + totalOutstanding' = CreditEpochLimit
      BY <1>1 DEF IInv, TypeOK, PoolConservation
    <3>2. rate' = compute_dynamic_rate(totalOutstanding)'
      BY <1>1 DEF IInv, KeyRateIsCurrent
    <3>3. compute_dynamic_rate(totalOutstanding)' = compute_dynamic_rate(totalOutstanding')
      BY DEF compute_dynamic_rate, utilization_percent
    <3>4. totalOutstanding' <= CreditEpochLimit
      <4>1. \A a, b \in Nat : a + b = CreditEpochLimit => b <= CreditEpochLimit
        OBVIOUS
      <4> QED BY <3>1, <4>1
    <3>5. rate' = compute_dynamic_rate(totalOutstanding')
      BY <3>2, <3>3, Zenon
    <3> QED BY <3>1, <3>4, <3>5, Zenon
  <2> HIDE DEF rate
  <2>3. totalOutstanding <= totalOutstanding' => rate <= rate' /\ rate' <= MaxProtectiveRate
    BY <2>1, <2>2, CurveOrder
  <2>4. totalOutstanding' <= totalOutstanding => rate' <= rate /\ rate <= MaxProtectiveRate
    BY <2>1, <2>2, CurveOrder
  <2>5. rate \in Nat /\ rate' \in Nat /\ MaxProtectiveRate \in Nat
    BY <2>1, <2>2, RateType, CentralBankAssumption
  <2> QED BY <2>1, <2>2, <2>3, <2>4, <2>5
<1>2. ASSUME IInv, IInv'
      PROVE  [LET now == epochs[currentEpochId].key_rate
                  then == epochs'[currentEpochId'].key_rate
              IN  /\ totalOutstanding' >= totalOutstanding => then >= now
                  /\ totalOutstanding' <= totalOutstanding => then <= now
                  /\ then <= MaxProtectiveRate]_vars
  BY <1>1, <1>2
<1> QED BY <1>2, Invariance, PTL DEF Spec, RateFollowsUtilisation

=============================================================================
