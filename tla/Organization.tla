---------------------------- MODULE Organization ----------------------------
(***************************************************************************)
(* pallets/organization: founding deposits, crews, tax returns paid from   *)
(* the keyless account of an organization or from its shielded vault, the  *)
(* scan of every block for overdue organizations, and the reports of       *)
(* citizens.  Names, regions of crew members and document hashes are left  *)
(* out.  A block is in the filing period, 1 January to 15 April, or not.   *)
(***************************************************************************)
EXTENDS ShieldedVaults, CitizenRegistry, Sequences

CONSTANTS
    OrgAccount,           \* org_id -> derive_org_account(org_id)
    Regions,              \* hq_region of an organization
    NationTreasuries,     \* hq_region -> treasury, of the regions that have one
    RegionTreasury,       \* receives the regional share of a tax return
    FilingBlocks,         \* blocks in the filing period
    TaxPeriodBlocks, PenaltyAccrualPeriodBlocks, BasePenaltyAmount,
    AuditorRewardAmount, MinTaxAmount, OrgActivationDeposit,
    MaxFounders, MaxDirectorsPerOrg, MaxOrgsPerBlock,
    Payments,             \* amounts of tax returns and of spendings
    MaxDeclarations       \* bound on the number of tax returns

ASSUME OrganizationAssumption ==
    /\ Citizens \subseteq Accounts
    /\ OrgIds \subseteq Nat
    /\ OrgAccount \in [OrgIds -> Accounts]
    /\ RegionTreasury \in Accounts
    /\ \A r \in DOMAIN NationTreasuries : NationTreasuries[r] \in Accounts
    /\ {TaxPeriodBlocks, PenaltyAccrualPeriodBlocks, MaxOrgsPerBlock} \subseteq Nat \ {0}
    /\ BasePenaltyAmount \in Nat /\ 100 <= BasePenaltyAmount   \* a hundredth of it is not 0
    /\ {OrgActivationDeposit, AuditorRewardAmount} \subseteq Nat /\ Payments \subseteq Nat

VARIABLE orgs   \* the storage of the pallet

OrgStatus == {"Pending", "Active", "Delinquent", "Frozen"}

OrgRole == {"Director", "Employee"}

NoOrgs ==
    [organizations |-> <<>>,   \* org_id -> Organization
     crew          |-> <<>>,   \* <<org_id, account>> -> OrgRole
     declarations  |-> <<>>,   \* declaration_id -> TaxDeclaration
     penaltyDebt   |-> <<>>,   \* org_id -> debt
     lastPenalty   |-> <<>>,   \* org_id -> block
     deposits      |-> <<>>,   \* org_id -> set of FounderDeposit
     required      |-> <<>>,   \* org_id -> number of founders
     cursor        |-> 0]

IsOrg(org_id) == org_id \in DOMAIN orgs.organizations

Status(org_id) == orgs.organizations[org_id].status

ensure_director(caller, org_id) ==
    IsOrg(org_id) /\ At(orgs.crew, <<org_id, caller>>, "Employee") = "Director"

ensure_within_filing_period == block \in FilingBlocks

\* Mutant: each share is rounded by itself.
RoundedSplit(amount) ==
    [confederation |-> (amount * 3) \div 10, region |-> (amount * 7) \div 10]

\* The Confederation's three tenths, rounded down; the region has the rest.
constitutional_tax_split(amount) ==
    [confederation |-> (amount * 3) \div 10, region |-> amount - (amount * 3) \div 10]

regional_treasury_for(org_id) ==
    IF IsOrg(org_id) /\ orgs.organizations[org_id].hq_region \in DOMAIN NationTreasuries
    THEN {NationTreasuries[orgs.organizations[org_id].hq_region]}
    ELSE {}

-----------------------------------------------------------------------------
register_organization(caller, hq_region, required_founders) ==
    LET org_id == FreshId(orgs.organizations)
    IN  /\ org_id \in OrgIds
        /\ required_founders <= MaxFounders
        /\ orgs' = [orgs EXCEPT
              !.organizations = Put(@, org_id,
                    [hq_region |-> hq_region, status |-> "Pending",
                     last_tax_period_paid |-> block, registered_at |-> block]),
              !.crew = Put(@, <<org_id, caller>>, "Director"),
              !.required = Put(@, org_id, IF required_founders = 0 THEN 1 ELSE required_founders)]
        /\ UNCHANGED <<ledger, block, citizens, pool>>

activate_organization(caller, org_id) ==
    /\ ensure_director(caller, org_id)
    /\ Status(org_id) = "Pending"
    /\ LET before == At(orgs.deposits, org_id, {})
           deposits == before \cup {[founder |-> caller, block_number |-> block]}
       IN  /\ \A d \in before : d.founder # caller
           /\ Cardinality(deposits) <= MaxFounders
           /\ transfer(caller, OrgAccount[org_id], OrgActivationDeposit, TRUE)
           /\ orgs' = [orgs EXCEPT
                 !.deposits = Put(@, org_id, deposits),
                 !.organizations[org_id].status =
                     IF Cardinality(deposits) >= orgs.required[org_id] THEN "Active" ELSE @]
    /\ UNCHANGED <<block, citizens, pool>>

add_crew_member(caller, org_id, member, role) ==
    /\ ensure_director(caller, org_id)
    /\ Status(org_id) \notin {"Frozen", "Pending"}
    /\ <<org_id, member>> \notin DOMAIN orgs.crew
    /\ orgs' = [orgs EXCEPT !.crew = Put(@, <<org_id, member>>, role)]
    /\ UNCHANGED <<ledger, block, citizens, pool>>

\* The storage after a tax return of an organization.
Filed(org_id, amount, via_zk_vault) ==
    LET split == constitutional_tax_split(amount)
    IN  [orgs EXCEPT
            !.declarations = Put(@, FreshId(@),
                [org_id |-> org_id, amount_paid |-> amount,
                 confederation_share |-> split.confederation, regional_share |-> split.region,
                 timestamp |-> block, via_zk_vault |-> via_zk_vault]),
            !.organizations[org_id].last_tax_period_paid = block,
            !.organizations[org_id].status = IF @ = "Delinquent" THEN "Active" ELSE @,
            !.penaltyDebt = Without(@, org_id),
            !.lastPenalty = Without(@, org_id)]

CanFile(caller, org_id, amount) ==
    /\ FreshId(orgs.declarations) < MaxDeclarations
    /\ ensure_director(caller, org_id)
    /\ Status(org_id) # "Frozen"
    /\ ensure_within_filing_period
    /\ amount >= MinTaxAmount

file_tax_return(caller, org_id, amount) ==
    /\ CanFile(caller, org_id, amount)
    /\ LET split == constitutional_tax_split(amount)
           payer == OrgAccount[org_id]
           paid == PaidFrom(free, payer, RegionTreasury, split.region)
       IN  /\ CanPay(free, payer, RegionTreasury, split.region)
           /\ CanPay(paid, payer, ConfederationTreasury, split.confederation)
           /\ free' = PaidFrom(paid, payer, ConfederationTreasury, split.confederation)
           /\ UNCHANGED <<reserved, frozen, issuance>>
    /\ orgs' = Filed(org_id, amount, FALSE)
    /\ UNCHANGED <<block, citizens, pool>>

\* amount is the caller's: unshield_for_tax mints it for any active commitment.
file_tax_return_zk(caller, org_id, nullifier, commitment, amount) ==
    LET share == constitutional_tax_split(amount).confederation
        minted == [free EXCEPT ![RegionTreasury] = @ + Credited(RegionTreasury, amount)]
    IN  /\ amount > 0
        /\ CanFile(caller, org_id, amount)
        /\ CanSpend(nullifier, commitment)
        /\ CanPay(minted, RegionTreasury, ConfederationTreasury, share)
        /\ free' = PaidFrom(minted, RegionTreasury, ConfederationTreasury, share)
        /\ issuance' = issuance + Credited(RegionTreasury, amount)
        /\ pool' = PoolAfterTax(nullifier, commitment, amount)
        /\ orgs' = Filed(org_id, amount, TRUE)
        /\ UNCHANGED <<reserved, frozen, block, citizens>>

freeze_organization(org_id) ==
    /\ IsOrg(org_id)
    /\ orgs' = [orgs EXCEPT !.organizations[org_id].status = "Frozen"]
    /\ UNCHANGED <<ledger, block, citizens, pool>>

spend_org_funds(caller, org_id, beneficiary, amount) ==
    /\ ensure_director(caller, org_id)
    /\ Status(org_id) # "Frozen"
    /\ transfer(OrgAccount[org_id], beneficiary, amount, TRUE)
    /\ UNCHANGED <<block, citizens, pool, orgs>>

-----------------------------------------------------------------------------
(* The punishment engine                                                   *)

IsOverdue(org_id, now) ==
    now - orgs.organizations[org_id].last_tax_period_paid > TaxPeriodBlocks

TurnsDelinquent(org_id, now) == IsOverdue(org_id, now) /\ Status(org_id) = "Active"

\* A hundredth of the debt, rounded down, is added every accrual period.
WithAccrual(debt) == debt + debt \div 100

\* apply_punishment of every organization in ids, at the block now.
Punished(ids, now) ==
    LET overdue == {i \in ids : IsOverdue(i, now)}
        newly == {i \in ids : TurnsDelinquent(i, now)}
        base == [i \in DOMAIN orgs.penaltyDebt \cup newly |->
                    At(orgs.penaltyDebt, i, 0) + IF i \in newly THEN BasePenaltyAmount ELSE 0]
        last == PutAll(orgs.lastPenalty, newly, now)
        accrue == {i \in overdue : /\ now - At(last, i, 0) >= PenaltyAccrualPeriodBlocks
                                   /\ WithAccrual(At(base, i, 0)) > At(base, i, 0)}
    IN  [orgs EXCEPT
            !.organizations = [i \in DOMAIN @ |->
                IF i \in newly THEN [@[i] EXCEPT !.status = "Delinquent"] ELSE @[i]],
            !.penaltyDebt = [i \in DOMAIN base |-> IF i \in accrue THEN WithAccrual(base[i]) ELSE base[i]],
            !.lastPenalty = PutAll(last, accrue, now)]

\* The directors among the first MaxDirectorsPerOrg members of a crew, which
\* are stored in the order of the hashes of their accounts: any order.
FrozenWith(ids) ==
    {c \in [ids -> SUBSET Citizens] :
        \A i \in ids :
            LET crew == {a \in Citizens : <<i, a>> \in DOMAIN orgs.crew}
                directors == {a \in crew : orgs.crew[<<i, a>>] = "Director"}
            IN  \E seen \in SUBSET crew :
                   /\ Cardinality(seen) =
                         IF Cardinality(crew) <= MaxDirectorsPerOrg THEN Cardinality(crew)
                         ELSE MaxDirectorsPerOrg
                   /\ c[i] = seen \cap directors}

\* do_freeze_citizen of the registry, for everybody in people.
FreezeDirectors(ids, now) ==
    \E c \in FrozenWith({i \in ids : TurnsDelinquent(i, now)}) :
        LET people == UNION {c[i] : i \in DOMAIN c}
        IN  citizens' = [a \in Citizens |->
                            IF a \in people THEN [citizens[a] EXCEPT !.status = "Frozen"]
                            ELSE citizens[a]]

report_tax_evasion(reporter, org_id) ==
    /\ IsOrg(org_id)
    /\ Status(org_id) \notin {"Frozen", "Delinquent"}
    /\ IsOverdue(org_id, block)
    /\ orgs' = Punished({org_id}, block)
    /\ FreezeDirectors({org_id}, block)
    /\ free' = IF CanPay(free, RegionTreasury, reporter, AuditorRewardAmount)
               THEN PaidFrom(free, RegionTreasury, reporter, AuditorRewardAmount) ELSE free
    /\ UNCHANGED <<reserved, frozen, issuance, block, pool>>

\* Mutant: the cursor starts again from the first organization.
CursorRestarts(total) == 0

NextCursor(total) ==
    IF MaxOrgsPerBlock >= total THEN 0 ELSE (orgs.cursor + MaxOrgsPerBlock) % total

\* A new block: the scan goes on from the cursor, before the calls of the block.
on_initialize_orgs ==
    LET total == FreshId(orgs.organizations)
        seen == {(orgs.cursor + i) % total : i \in 0 .. (IF MaxOrgsPerBlock <= total
                                                        THEN MaxOrgsPerBlock ELSE total) - 1}
        scanned == {i \in seen : Status(i) # "Frozen"}
    IN  /\ NextBlock
        /\ \/ total = 0 /\ UNCHANGED <<citizens, orgs>>
           \/ /\ total > 0
              /\ orgs' = [Punished(scanned, block') EXCEPT !.cursor = NextCursor(total)]
              /\ FreezeDirectors(scanned, block')
        /\ UNCHANGED <<ledger, pool>>

-----------------------------------------------------------------------------
VaultStep ==
    \/ \E a \in Holders, v \in ShieldedAmounts, c \in Commitments, o \in OrgIds \cup {NoOrg} :
          shield_funds(a, v, c, o)
    \/ \E n \in Nullifiers, c \in Commitments :
          \/ \E d \in Commitments : shielded_transfer(n, c, d)
          \/ \E v \in ShieldedAmounts :
                \/ \E a \in Holders, o \in OrgIds \cup {NoOrg} : unshield_to_account(n, c, v, a, o)
                \/ \E o \in OrgIds : org_unshield_tax_payment(o, n, c, v, regional_treasury_for(o))

\* The calls that need no shielded note; file_tax_return_zk spends one.
OrgStep ==
    \/ \E a \in Citizens, r \in Regions, n \in 0 .. MaxFounders : register_organization(a, r, n)
    \/ \E a \in Citizens, o \in OrgIds :
          \/ activate_organization(a, o)
          \/ report_tax_evasion(a, o)
          \/ \E b \in Citizens, role \in OrgRole : add_crew_member(a, o, b, role)
          \/ \E v \in Payments : file_tax_return(a, o, v)
          \/ \E b \in Citizens, v \in Payments : spend_org_funds(a, o, b, v)
    \/ \E o \in OrgIds : freeze_organization(o)
    \/ on_initialize_orgs

-----------------------------------------------------------------------------
(* Correctness                                                             *)

\* The block from which an organization is punishable: its tax period is over
\* and all its founders have paid.
DueFrom(org_id) ==
    LET activated == {d.block_number : d \in At(orgs.deposits, org_id, {})}
        expired == orgs.organizations[org_id].last_tax_period_paid + TaxPeriodBlocks
    IN  CHOOSE b \in activated \cup {expired} : \A c \in activated \cup {expired} : c <= b

(***************************************************************************)
(* Nobody escapes the scan: an organization that owes a return is          *)
(* delinquent after one round of the cursor, however many others register  *)
(* meanwhile, and a delinquent one has a debt of a penalty at least.       *)
(***************************************************************************)
ScanIsTimely ==
    \A o \in DOMAIN orgs.organizations :
        LET total == FreshId(orgs.organizations)
            round == (total + MaxOrgsPerBlock - 1) \div MaxOrgsPerBlock
        IN  /\ Status(o) = "Active" => block - DueFrom(o) <= round
            /\ Status(o) = "Delinquent" =>
                  /\ At(orgs.penaltyDebt, o, 0) >= BasePenaltyAmount
                  /\ block - At(orgs.lastPenalty, o, 0) <= PenaltyAccrualPeriodBlocks + round

\* No balance changes but that the shares of v leave src, one for a and one for b.
Splits(src, v, a, x, b, y) ==
    /\ v = x + y /\ UNCHANGED reserved
    /\ free' = [free EXCEPT ![src] = @ - v, ![a] = @ + x, ![b] = @ + y]

\* No balance changes but that v leaves src for b.
Arrives(src, v, b) ==
    UNCHANGED reserved /\ free' = [free EXCEPT ![src] = @ - v, ![b] = @ + v]

(***************************************************************************)
(* What leaves the keyless account of an organization arrives, and nothing *)
(* else moves with it: the two shares of the tax that the return of the    *)
(* same call declares, in the two treasuries, or the whole of a spending   *)
(* with one beneficiary.  Nothing leaves it once Root has frozen it.       *)
(***************************************************************************)
OrgMoneyIsAccounted ==
    [][\A o \in OrgIds :
          LET purse == OrgAccount[o]
              left == free[purse] - free'[purse]
              declared == FreshId(orgs'.declarations) > FreshId(orgs.declarations)
              last == orgs'.declarations[FreshId(orgs.declarations)]
          IN  left > 0 =>
                 /\ Status(o) # "Frozen"
                 /\ \/ /\ declared /\ last.org_id = o /\ ~last.via_zk_vault
                       /\ left = last.amount_paid
                       /\ Splits(purse, left, RegionTreasury, last.regional_share,
                                 ConfederationTreasury, last.confederation_share)
                    \/ /\ ~declared
                       /\ \E b \in Accounts \ {purse} :
                             Arrives(purse, left, b)]_<<ledger, block, citizens, pool, orgs>>
=============================================================================
