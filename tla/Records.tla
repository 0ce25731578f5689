------------------------------- MODULE Records ------------------------------
(***************************************************************************)
(* The two pallets that keep records and no money: pallets/land-registry   *)
(* and pallets/migration-center.                                           *)
(***************************************************************************)
EXTENDS StorageMaps, Clock, CitizenRegistry, FiniteSets

(***************************************************************************)
(* pallets/land-registry: parcels of land, their owners and the rights to  *)
(* what is on and under them.  Coordinates and sizes are left out.         *)
(***************************************************************************)

CONSTANTS
    Rights,      \* the rights granted in the calls
    MaxParcels   \* bound on the number of parcels

ResourceRights ==
    {"SurfaceOnly", "SurfaceAndForestry", "SurfaceAndWater", "SurfaceAndHunting",
     "MineralProspecting", "FullSubsoil"}

ASSUME LandAssumption == Rights \subseteq ResourceRights /\ MaxParcels \in Nat

VARIABLE land   \* the storage of the pallet

NoParcels ==
    [parcels |-> <<>>,   \* LandParcels
     byOwner |-> {}]     \* ParcelsByOwner: <<owner, parcel_id>>

MayOwnLand(who) ==
    who \in DOMAIN citizens /\ citizens[who].citizenship_status # "Foreigner"

register_parcel(owner, rights) ==
    LET id == FreshId(land.parcels)
    IN  /\ id < MaxParcels
        /\ MayOwnLand(owner)
        /\ land' = [land EXCEPT
              !.parcels = Put(@, id, [owner |-> owner, resource_rights |-> rights]),
              !.byOwner = @ \cup {<<owner, id>>}]

\* Mutant: the seller's entry stays in the index.
KeepSeller(seller, buyer, id) == land.byOwner \cup {<<buyer, id>>}

Reindexed(seller, buyer, id) == (land.byOwner \ {<<seller, id>>}) \cup {<<buyer, id>>}

transfer_land(seller, id, buyer) ==
    /\ seller # buyer
    /\ id \in DOMAIN land.parcels /\ land.parcels[id].owner = seller
    /\ MayOwnLand(buyer)
    /\ IsActive(buyer)
    /\ land' = [land EXCEPT !.parcels[id].owner = buyer,
                            !.byOwner = Reindexed(seller, buyer, id)]

update_resource_rights(id, rights) ==
    /\ id \in DOMAIN land.parcels
    /\ land' = [land EXCEPT !.parcels[id].resource_rights = rights]

LandStep ==
    \/ \E c \in DOMAIN citizens, r \in Rights : register_parcel(c, r)
    \/ \E i \in DOMAIN land.parcels :
          \/ \E s, b \in DOMAIN citizens : transfer_land(s, i, b)
          \/ \E r \in Rights : update_resource_rights(i, r)

-----------------------------------------------------------------------------
(* Correctness                                                             *)

(***************************************************************************)
(* The register and the index of owners say the same of every parcel, and  *)
(* no parcel belongs to a foreigner, through sales, deaths and exiles.     *)
(***************************************************************************)
LandBookAgrees ==
    /\ land.byOwner = {<<land.parcels[i].owner, i>> : i \in DOMAIN land.parcels}
    /\ \A i \in DOMAIN land.parcels : MayOwnLand(land.parcels[i].owner)

-----------------------------------------------------------------------------
(***************************************************************************)
(* pallets/migration-center: the anchors of applications for citizenship.  *)
(* An application is its application_id_hash; the hashes of its data and   *)
(* of the outcome are left out.  A signature says who signed which message *)
(* at which block, in place of its 64 bytes.                               *)
(***************************************************************************)

CONSTANTS Applicants, Officers, Applications

VARIABLE migration   \* the storage of the pallet

AnchorStatus == {"Submitted", "UnderReview", "Approved", "Rejected", "Revoked"}

Terminal == {"Approved", "Rejected", "Revoked"}

NoAnchors ==
    [anchors           |-> <<>>,   \* applicant -> ApplicationAnchor
     applicantOf       |-> <<>>,   \* HashToApplicant
     totalApplications |-> 0,
     totalApproved     |-> 0]

\* officer is the set of the claiming officer, if any.
ApplicationAnchor(hash) == [hash |-> hash, status |-> "Submitted", officer |-> {}]

\* build_claim_message, which the officer signs.
ClaimMessage(hash, block_num) == [claim |-> hash, block |-> block_num]

has_active_application(applicant) ==
    /\ applicant \in DOMAIN migration.anchors
    /\ migration.anchors[applicant].status \notin Terminal

\* Mutant: only the applicant's own last application is compared.
IsNewHere(applicant, hash) ==
    applicant \in DOMAIN migration.anchors => migration.anchors[applicant].hash # hash

IsNewHash(applicant, hash) == hash \notin DOMAIN migration.applicantOf

submit_application(applicant, hash) ==
    /\ IsNewHash(applicant, hash)
    /\ ~has_active_application(applicant)
    /\ migration' = [migration EXCEPT
          !.anchors = Put(@, applicant, ApplicationAnchor(hash)),
          !.applicantOf = Put(@, hash, applicant),
          !.totalApplications = @ + 1]
    /\ UNCHANGED block

IsIn(applicant, status) ==
    applicant \in DOMAIN migration.anchors /\ migration.anchors[applicant].status = status

claim_application(officer, applicant, signed_by, message) ==
    /\ IsIn(applicant, "Submitted")
    /\ signed_by = officer
    /\ message = ClaimMessage(migration.anchors[applicant].hash, block)
    /\ migration' = [migration EXCEPT
          !.anchors[applicant] = [@ EXCEPT !.status = "UnderReview", !.officer = {officer}]]
    /\ UNCHANGED block

finalize_application(officer, applicant, approved) ==
    /\ IsIn(applicant, "UnderReview")
    /\ migration.anchors[applicant].officer = {officer}
    /\ migration' = [migration EXCEPT
          !.anchors[applicant].status = IF approved THEN "Approved" ELSE "Rejected",
          !.totalApproved = @ + (IF approved THEN 1 ELSE 0)]
    /\ UNCHANGED block

revoke_application(applicant) ==
    /\ has_active_application(applicant)
    /\ migration' = [migration EXCEPT !.anchors[applicant].status = "Revoked"]
    /\ UNCHANGED block

MigrationStep ==
    \/ \E a \in Applicants, h \in Applications : submit_application(a, h)
    \/ \E a \in Applicants : revoke_application(a)
    \/ \E o, s \in Officers, a \in Applicants :
          \/ \E h \in Applications, b \in 0 .. MaxBlock : claim_application(o, a, s, ClaimMessage(h, b))
          \/ \E approved \in BOOLEAN : finalize_application(o, a, approved)

-----------------------------------------------------------------------------
(***************************************************************************)
(* Every application ever submitted leads to one applicant for ever, the   *)
(* counter counts them, and no more are approved than were decided.        *)
(***************************************************************************)
ApplicationsHaveOneOwner ==
    LET Open(a) == migration.anchors[a].status # "Approved"
    IN  /\ migration.totalApplications = Cardinality(DOMAIN migration.applicantOf)
        /\ \A a \in DOMAIN migration.anchors :
              At(migration.applicantOf, migration.anchors[a].hash, {}) = a
        /\ migration.totalApproved <=
              migration.totalApplications - Cardinality({a \in DOMAIN migration.anchors : Open(a)})
=============================================================================
