------------------------------ MODULE Licensing ------------------------------
(***************************************************************************)
(* pallets/licensing: ministries apply for licences of organizations with  *)
(* a deposit, delegates of the Khural vote, and the block at which the     *)
(* voting period ends enacts the application.  The tag of a ministry, the  *)
(* hash of an audit, the reason of a revocation and the submitter's copies *)
(* in the records are left out.                                            *)
(***************************************************************************)
EXTENDS AltanBalances, StorageMaps, Clock, CitizenRegistry, Sequences

CONSTANTS
    Ministries,          \* accounts that apply
    Firms,               \* accounts of organizations
    LicenseTypes,        \* the types applied for
    LicenseRegions,
    Durations,           \* requested durations; 0 asks for the default
    ApplicationDeposit, MinLicenseQuorum, LicenseVotingPeriod,
    BlocksPerYear,       \* BLOCKS_PER_YEAR
    MaxLicensesPerOrg,   \* ids that LicensesByOrg holds of one organization
    MaxAppsPerBlock,     \* ids that LicenseAppsEnding holds of one block
    MaxApps              \* bound on the number of applications

ASSUME LicensingAssumption ==
    /\ Ministries \subseteq Accounts
    /\ Durations \subseteq Nat
    /\ LicenseVotingPeriod \in Nat \ {0}
    /\ {ApplicationDeposit, MinLicenseQuorum, BlocksPerYear, MaxLicensesPerOrg,
        MaxAppsPerBlock, MaxApps} \subseteq Nat

VARIABLE licensing   \* the storage of the pallet

LicenseType ==
    {"MineralExtraction", "OilGasExtraction", "WaterExtraction", "ForestryHarvesting",
     "FishingCommercial", "AviationOperator", "AviationCharter", "AviationCargo",
     "RailwayOperator", "HazmatTransport", "MicrofinanceLender", "InsuranceProvider",
     "CurrencyExchange", "PharmaceuticalMfg", "TelecomOperator", "BroadcastMedia",
     "LandConcession", "SubsoilConcession", "MiningPlot", "WeaponsManufacture", "NuclearOperator"}

is_confederal_only(type) == type \in {"WeaponsManufacture", "NuclearOperator"}

requires_supermajority(type) == is_confederal_only(type)

MaxLicenseBlocks == BlocksPerYear * 10

default_duration(type) ==
    CASE type \in {"MineralExtraction", "OilGasExtraction", "SubsoilConcession", "MiningPlot",
                   "ForestryHarvesting", "TelecomOperator", "RailwayOperator"} -> MaxLicenseBlocks
      [] type \in {"AviationOperator", "AviationCharter", "AviationCargo",
                   "HazmatTransport"} -> BlocksPerYear * 5
      [] OTHER -> BlocksPerYear * 3

AppStatus == {"PendingKhural", "Approved", "Rejected", "Withdrawn"}

NoLicenses ==
    [ministries |-> {},    \* AuthorizedMinistries, all active
     apps       |-> <<>>,  \* app_id -> LicenseApplication
     ending     |-> <<>>,  \* end_block -> set of app_ids
     voted      |-> {},    \* <<app_id, voter>>
     licenses   |-> <<>>,  \* license_id -> License
     byOrg      |-> [f \in Firms |-> {}],
     depositors |-> <<>>]  \* app_id -> ministry, the deposit is ApplicationDeposit

LicenseApplication(org_account, type, region_id, nation_id, duration, renews) ==
    [org_account |-> org_account, license_type |-> type, region_id |-> region_id,
     nation_id |-> nation_id, requested_duration |-> duration, votes_for |-> 0,
     votes_against |-> 0, status |-> "PendingKhural",
     end_block |-> block + LicenseVotingPeriod, renews_license_id |-> renews]

License(app_id, app, now) ==
    [org_account |-> app.org_account, license_type |-> app.license_type,
     region_id |-> app.region_id, issued_block |-> now,
     expires_block |-> now + app.requested_duration, is_active |-> TRUE, app_id |-> app_id]

-----------------------------------------------------------------------------
authorize_ministry(ministry) ==
    /\ licensing' = [licensing EXCEPT !.ministries = @ \cup {ministry}]
    /\ UNCHANGED <<ledger, block, citizens>>

deauthorize_ministry(ministry) ==
    /\ licensing' = [licensing EXCEPT !.ministries = @ \ {ministry}]
    /\ UNCHANGED <<ledger, block, citizens>>

DurationOf(type, requested) == IF requested = 0 THEN default_duration(type) ELSE requested

\* The part that applications and renewals share.
Submit(caller, app) ==
    LET app_id == FreshId(licensing.apps)
    IN  /\ app_id < MaxApps
        /\ caller \in licensing.ministries
        /\ app.requested_duration <= MaxLicenseBlocks
        /\ Cardinality(At(licensing.ending, app.end_block, {})) < MaxAppsPerBlock
        /\ reserve(caller, ApplicationDeposit)
        /\ licensing' = [licensing EXCEPT
              !.apps = Put(@, app_id, app),
              !.ending = Put(@, app.end_block, At(@, app.end_block, {}) \cup {app_id}),
              !.depositors = Put(@, app_id, caller)]
        /\ UNCHANGED <<block, citizens>>

submit_license_application(caller, org_account, type, region_id, nation_id, requested) ==
    Submit(caller, LicenseApplication(org_account, type, region_id, nation_id,
                                      DurationOf(type, requested), {}))

\* The nation of the renewal is that of the renewed licence's application.
renew_license(caller, license_id, requested) ==
    /\ license_id \in DOMAIN licensing.licenses
    /\ LET license == licensing.licenses[license_id]
       IN  /\ license.is_active
           /\ Submit(caller,
                LicenseApplication(license.org_account, license.license_type, license.region_id,
                                   licensing.apps[license.app_id].nation_id,
                                   DurationOf(license.license_type, requested), {license_id}))

validate_khural_voter(who, app) ==
    /\ who \in Citizens
    /\ IsActive(who)
    /\ IF is_confederal_only(app.license_type)
       THEN citizens[who].role = "ConfederationDelegate"
       ELSE citizens[who].role = "KhuralDelegate" /\ citizens[who].nation_id = app.nation_id

\* Mutant: HasVotedOnLicense is not looked at.
VoteAgain(caller, app_id) == app_id \in DOMAIN licensing.apps

HasNotVoted(caller, app_id) == <<app_id, caller>> \notin licensing.voted

vote_on_license(caller, app_id, approve) ==
    /\ app_id \in DOMAIN licensing.apps
    /\ LET app == licensing.apps[app_id]
       IN  /\ app.status = "PendingKhural"
           /\ block < app.end_block
           /\ validate_khural_voter(caller, app)
           /\ HasNotVoted(caller, app_id)
    /\ licensing' = [licensing EXCEPT
          !.voted = @ \cup {<<app_id, caller>>},
          !.apps[app_id].votes_for = @ + IF approve THEN 1 ELSE 0,
          !.apps[app_id].votes_against = @ + IF approve THEN 0 ELSE 1]
    /\ UNCHANGED <<ledger, block, citizens>>

Accepted(app) ==
    /\ app.votes_for >= MinLicenseQuorum
    /\ IF requires_supermajority(app.license_type)
       THEN /\ app.votes_for + app.votes_against > 0
            /\ app.votes_for * 3 >= (app.votes_for + app.votes_against) * 2
       ELSE app.votes_for > app.votes_against

\* Mutant: the deposit is left to the slashing of the rejected ones.
KeepDeposit(s, app_id) == s.depositors

DepositTaken(s, app_id) == Without(s.depositors, app_id)

\* The storage s after enact_application of one application.
Enacted(s, app_id, now) ==
    LET app == s.apps[app_id]
        license_id == FreshId(s.licenses)
    IN  IF Accepted(app)
        THEN [s EXCEPT !.licenses = Put(@, license_id, License(app_id, app, now)),
                       !.byOrg[app.org_account] =
                           IF Cardinality(@) < MaxLicensesPerOrg THEN @ \cup {license_id} ELSE @,
                       !.apps[app_id].status = "Approved",
                       !.depositors = DepositTaken(s, app_id)]
        ELSE [s EXCEPT !.apps[app_id].status = "Rejected",
                       !.depositors = DepositTaken(s, app_id)]

LastOf(ids) == CHOOSE i \in ids : \A j \in ids : j <= i

\* The storage after enact_application of all of ids, in their order.
EnactedAll(ids, now) ==
    LET after[S \in SUBSET ids] ==
            IF S = {} THEN licensing ELSE Enacted(after[S \ {LastOf(S)}], LastOf(S), now)
    IN  after[ids]

\* A new block enacts the applications that end at it.
on_initialize_licensing ==
    /\ NextBlock
    /\ LET expiring == {i \in At(licensing.ending, block', {}) :
                          licensing.apps[i].status = "PendingKhural"}
           after == EnactedAll(expiring, block')
           lost == {i \in expiring : after.apps[i].status = "Rejected"}
           Deposits(S, m) == ApplicationDeposit * Cardinality({i \in S : licensing.depositors[i] = m})
       IN  /\ licensing' = [after EXCEPT !.ending = Without(@, block')]
           /\ free' = [a \in Accounts |-> free[a] + Deposits(expiring \ lost, a)]
           /\ reserved' = [a \in Accounts |-> reserved[a] - Deposits(expiring, a)]
           /\ issuance' = issuance - ApplicationDeposit * Cardinality(lost)
    /\ UNCHANGED <<frozen, citizens>>

revoke_license(license_id) ==
    /\ license_id \in DOMAIN licensing.licenses
    /\ licensing.licenses[license_id].is_active
    /\ licensing' = [licensing EXCEPT !.licenses[license_id].is_active = FALSE]
    /\ UNCHANGED <<ledger, block, citizens>>

\* A judgement is obeyed whether or not the licence was still active.
judicial_revoke(license_id) ==
    /\ license_id \in DOMAIN licensing.licenses
    /\ licensing' = [licensing EXCEPT !.licenses[license_id].is_active = FALSE]
    /\ UNCHANGED <<ledger, block, citizens>>

is_licensed(org_account, type, region_id) ==
    \E i \in licensing.byOrg[org_account] :
        LET l == licensing.licenses[i]
        IN  /\ l.is_active /\ l.license_type = type
            /\ l.region_id = region_id /\ l.expires_block > block

LicensingStep ==
    \/ \E m \in Ministries :
          \/ authorize_ministry(m)
          \/ deauthorize_ministry(m)
          \/ \E f \in Firms, t \in LicenseTypes, r \in LicenseRegions, d \in Durations,
                n \in {NationOf[c] : c \in Citizens} : submit_license_application(m, f, t, r, n, d)
          \/ \E i \in DOMAIN licensing.licenses, d \in Durations : renew_license(m, i, d)
    \/ \E c \in Citizens, i \in DOMAIN licensing.apps, approve \in BOOLEAN : vote_on_license(c, i, approve)
    \/ \E i \in DOMAIN licensing.licenses : revoke_license(i) \/ judicial_revoke(i)
    \/ on_initialize_licensing

-----------------------------------------------------------------------------
(* Correctness                                                             *)

(***************************************************************************)
(* Every application is settled once, at the end of its period: until then *)
(* its ministry has the deposit reserved, each counted vote is that of one *)
(* delegate, and there is a licence for exactly the approved ones, each    *)
(* with a quorum of delegates for it.                                      *)
(***************************************************************************)
ApplicationsSettleOnce ==
    LET pending == {i \in DOMAIN licensing.apps : licensing.apps[i].status = "PendingKhural"}
        Votes(i) == licensing.apps[i].votes_for + licensing.apps[i].votes_against
    IN  /\ DOMAIN licensing.depositors = pending
        /\ \A m \in Ministries :
              reserved[m] = ApplicationDeposit
                              * Cardinality({i \in pending : licensing.depositors[i] = m})
        /\ \A i \in pending : block < licensing.apps[i].end_block
        /\ \A i \in DOMAIN licensing.apps :
              /\ Votes(i) = Cardinality({c \in Citizens : <<i, c>> \in licensing.voted})
              /\ (licensing.apps[i].status = "Approved")
                    <=> (\E l \in DOMAIN licensing.licenses : licensing.licenses[l].app_id = i)
        /\ \A l, k \in DOMAIN licensing.licenses :
              licensing.licenses[l].app_id = licensing.licenses[k].app_id => l = k

(***************************************************************************)
(* is_licensed, which the other parts of the state ask, sees every licence *)
(* in force of the first MaxLicensesPerOrg of an organization.  The full   *)
(* register of an organization drops the later ones.                       *)
(***************************************************************************)
LicencesAreSeen ==
    \A i \in DOMAIN licensing.licenses :
        LET l == licensing.licenses[i]
            earlier == {k \in DOMAIN licensing.licenses :
                           k < i /\ licensing.licenses[k].org_account = l.org_account}
        IN  l.is_active /\ l.expires_block > block /\ Cardinality(earlier) < MaxLicensesPerOrg =>
               is_licensed(l.org_account, l.license_type, l.region_id)
=============================================================================
