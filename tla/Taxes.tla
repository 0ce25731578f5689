------------------------------- MODULE Taxes --------------------------------
(***************************************************************************)
(* The two taxes on money: pallets/altan-tax and pallets/annual-profit-    *)
(* tax.                                                                    *)
(***************************************************************************)
EXTENDS AltanBalances, StorageMaps, Clock

(***************************************************************************)
(* pallets/altan-tax: a transfer with a fee of 0.03 %, at most FeeCap,     *)
(* divided between three accounts that the genesis names for ever.  The    *)
(* list of the treasuries of the nations is stored and never read.         *)
(***************************************************************************)

CONSTANTS
    Payers, Amounts,
    FeeCap,                   \* 1_000_000_000_000_000
    AgTreasuryAccount, ValidatorPoolAccount, KhuralFoundationAccount

ASSUME AltanTaxAssumption ==
    /\ Payers \cup {AgTreasuryAccount, ValidatorPoolAccount, KhuralFoundationAccount} \subseteq Accounts
    /\ Amounts \subseteq Nat /\ FeeCap \in Nat

FeeOf(amount) ==
    LET raw == (amount * 3) \div 10000
    IN  IF raw <= FeeCap THEN raw ELSE FeeCap

\* Mutant: the remainder of the divisions is paid to nobody.
RoundedKhuralShare(fee) == (fee * 54) \div 100

KhuralShare(fee) == fee - (fee * 36) \div 100 - (fee * 10) \div 100

transfer_with_fee(sender, dest, amount) ==
    LET fee == FeeOf(amount)
    IN  pay_in_order(sender,
            <<Payment(dest, amount),
              Payment(AgTreasuryAccount, (fee * 36) \div 100),
              Payment(ValidatorPoolAccount, (fee * 10) \div 100),
              Payment(KhuralFoundationAccount, KhuralShare(fee))>>)

FeeStep == \E a, b \in Payers, v \in Amounts : transfer_with_fee(a, b, v)

-----------------------------------------------------------------------------
Collectors == {AgTreasuryAccount, ValidatorPoolAccount, KhuralFoundationAccount}

(***************************************************************************)
(* The three accounts share the whole fee, with nothing lost to rounding   *)
(* and no more than the cap, and the sender pays that and the amount; a    *)
(* call whose last transfer fails moves nothing at all.                    *)
(***************************************************************************)
FeeIsWhole ==
    LET gain == SumOver(free', Collectors) - SumOver(free, Collectors)
    IN  \E a, b \in Payers, v \in Amounts :
           /\ gain = FeeOf(v) /\ gain <= FeeCap
           /\ free[a] - free'[a] = gain + (IF a = b THEN 0 ELSE v)

-----------------------------------------------------------------------------
(***************************************************************************)
(* pallets/annual-profit-tax: the yearly declaration of a profit, the      *)
(* charges for a late one and the division of the tax.  Times are seconds  *)
(* of the Unix clock; each block has one.                                  *)
(***************************************************************************)

CONSTANTS
    Declarers,      \* accounts that declare a profit
    Profits, TaxYears,
    TimeOf,         \* block -> seconds of the Unix clock
    TaxTreasuries   \* accounts that Root makes a treasury

ASSUME ProfitTaxAssumption ==
    /\ Declarers \cup TaxTreasuries \subseteq Accounts
    /\ Profits \subseteq Nat /\ TaxYears \subseteq Nat
    /\ TimeOf \in [0 .. MaxBlock -> Nat]
    /\ \A b \in 1 .. MaxBlock : TimeOf[b - 1] <= TimeOf[b]

VARIABLE profitTax   \* the storage of the pallet

SECONDS_PER_DAY == 86400

SECONDS_PER_YEAR == 365 * SECONDS_PER_DAY

MAX_DAYS_LATE == 259

ANCHOR_YEAR == 2026

\* Midnight of 1 January 2025, though the source calls it 2026.
ANCHOR_TIMESTAMP == 1735689600

StandardTaxRatePermill == 100

LargeFamilyTaxRatePermill == 50

NoDeclarations(regional, confederation) ==
    [declarations |-> <<>>,   \* <<org, tax_year>> -> ProfitRecord
     regional     |-> regional,
     confederation |-> confederation]

now_secs == TimeOf[block]

year_start_secs(year) == ANCHOR_TIMESTAMP + (year - ANCHOR_YEAR) * SECONDS_PER_YEAR

current_year(now) ==
    ANCHOR_YEAR + (IF now >= ANCHOR_TIMESTAMP THEN (now - ANCHOR_TIMESTAMP) \div SECONDS_PER_YEAR ELSE 0)

\* Day 106, 16 April, is not late, though the window ended with day 105.
days_late(now, tax_year) ==
    LET late_start == year_start_secs(tax_year) + 106 * SECONDS_PER_DAY
        days == (now - late_start) \div SECONDS_PER_DAY + 1
    IN  IF now < late_start THEN 0 ELSE IF days <= MAX_DAYS_LATE THEN days ELSE MAX_DAYS_LATE

compute_peni(base_tax, days) == (base_tax * 5 * days) \div 36500

compute_shtraf(base_tax) == (base_tax * 5) \div 100

ProfitRecord(profit, large_family, now, days) ==
    LET rate == IF large_family THEN LargeFamilyTaxRatePermill ELSE StandardTaxRatePermill
        base_tax == (profit * rate) \div 1000
        shtraf == IF days = 0 THEN 0 ELSE compute_shtraf(base_tax)
        total == base_tax + shtraf + compute_peni(base_tax, days)
        regional == (total * 70) \div 100
    IN  [declared_profit |-> profit, base_tax |-> base_tax, total_paid |-> total,
         regional_share |-> regional, confederation_share |-> total - regional,
         paid_at |-> now, days_late |-> days, large_family_rate |-> large_family]

\* Mutant: a second declaration replaces the first.
DeclareAgain(org, tax_year) == TRUE

NotDeclared(org, tax_year) == <<org, tax_year>> \notin DOMAIN profitTax.declarations

IsOpenYear(tax_year, now) ==
    /\ tax_year \in 2026 .. current_year(now)
    /\ now < year_start_secs(tax_year) + SECONDS_PER_YEAR

declare_annual_profit(org, tax_year, profit, large_family) ==
    LET rec == ProfitRecord(profit, large_family, now_secs, days_late(now_secs, tax_year))
    IN  /\ profit > 0
        /\ IsOpenYear(tax_year, now_secs)
        /\ NotDeclared(org, tax_year)
        /\ pay_in_order(org, <<Payment(profitTax.regional, rec.regional_share),
                               Payment(profitTax.confederation, rec.confederation_share)>>)
        /\ profitTax' = [profitTax EXCEPT !.declarations = Put(@, <<org, tax_year>>, rec)]
        /\ UNCHANGED block

set_regional_treasury(new_account) ==
    /\ profitTax' = [profitTax EXCEPT !.regional = new_account]
    /\ UNCHANGED <<ledger, block>>

set_confederation_treasury(new_account) ==
    /\ profitTax' = [profitTax EXCEPT !.confederation = new_account]
    /\ UNCHANGED <<ledger, block>>

ProfitTaxStep ==
    \/ \E a \in Declarers, y \in TaxYears, p \in Profits, f \in BOOLEAN :
          declare_annual_profit(a, y, p, f)
    \/ \E t \in TaxTreasuries : set_regional_treasury(t) \/ set_confederation_treasury(t)

-----------------------------------------------------------------------------
(* Correctness                                                             *)

(***************************************************************************)
(* What the treasuries received is what the declarations say was paid,     *)
(* whoever the treasuries were at the time; and of two equal profits of a  *)
(* year the one declared later did not cost less.  opening is what the     *)
(* treasuries held before the first declaration.                           *)
(***************************************************************************)
TaxesAreRecorded(opening) ==
    LET paid == profitTax.declarations
        Terms(k) == <<k[2], paid[k].declared_profit, paid[k].large_family_rate>>
    IN  /\ SumOver(free, TaxTreasuries) =
              opening + SumOver([k \in DOMAIN paid |-> paid[k].total_paid], DOMAIN paid)
        /\ \A j, k \in DOMAIN paid :
              Terms(j) = Terms(k) /\ paid[j].paid_at <= paid[k].paid_at
                 => paid[j].total_paid <= paid[k].total_paid
=============================================================================
