-------------------------- MODULE CitizenRegistry --------------------------
(***************************************************************************)
(* The part of pallets/inomad-identity that the other pallets read: the    *)
(* record of every registered citizen, with the nation it is bound to, its *)
(* role and its status, and the calls of Root that change role and status. *)
(* The nation of a record is written by the registration only.             *)
(***************************************************************************)
EXTENDS Integers

CONSTANTS
    Citizens,   \* registered accounts
    NationOf,   \* citizen -> nation_id, 1 .. 79
    Roles       \* the roles the calls are made with

CitizenRole == {"Regular", "ArbadLeader", "ZunLeader", "MyangadLeader", "TumedLeader",
                "President", "KhuralDelegate", "ConfederationDelegate"}

CitizenStatus == {"Active", "Frozen", "Minor", "Deceased", "Exiled"}

ASSUME RegistryAssumption ==
    /\ NationOf \in [Citizens -> 1 .. 79]
    /\ Roles \subseteq CitizenRole

VARIABLE citizens   \* citizen -> CitizenRecord

CitizenRecord == [nation_id : 1 .. 79, role : CitizenRole, status : CitizenStatus]

\* register_citizen stores any role, the given nation and status Active.
Registered(role) ==
    [c \in Citizens |-> [nation_id |-> NationOf[c], role |-> role[c], status |-> "Active"]]

IsActive(who) == citizens[who].status = "Active"

update_role(target, new_role) ==
    citizens' = [citizens EXCEPT ![target].role = new_role]

freeze_citizen(target) ==
    /\ IsActive(target)
    /\ citizens' = [citizens EXCEPT ![target].status = "Frozen"]

unfreeze_citizen(target) ==
    /\ citizens[target].status # "Deceased"
    /\ citizens[target].status = "Frozen"
    /\ citizens' = [citizens EXCEPT ![target].status = "Active"]

\* do_exile: terminal for do_exile itself, freeze_citizen and unfreeze_citizen.
CanExile(who) == citizens[who].status \notin {"Exiled", "Deceased"}

do_exile(who) ==
    /\ CanExile(who)
    /\ citizens' = [citizens EXCEPT ![who].status = "Exiled", ![who].role = "Regular"]

\* IdentitySlasher of the runtime: whatever the status was.
slash_citizen(who) == citizens' = [citizens EXCEPT ![who].status = "Frozen"]

\* KhuralDelegateBridge of the runtime.
is_active_khural_delegate(who) ==
    IsActive(who) /\ citizens[who].role \in {"KhuralDelegate", "ConfederationDelegate"}

\* Root's calls on one citizen.
RegistryStep(who) ==
    \/ \E role \in Roles : update_role(who, role)
    \/ freeze_citizen(who)
    \/ unfreeze_citizen(who)
=============================================================================
