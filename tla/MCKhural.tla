------------------------------ MODULE MCKhural ------------------------------
(***************************************************************************)
(* Instances of KhuralGovernance for TLC.  Proposals and expert bills      *)
(* share the citizens and the ledger but no account: treasuries pay        *)
(* proposals and citizens put up deposits.  A behaviour exercises one of   *)
(* the two, so that their states add up instead of multiplying.            *)
(***************************************************************************)
EXTENDS KhuralGovernance

CONSTANTS
    Nation1,         \* citizens of the nation with a treasury
    Nation2,         \* citizens of a nation the treasuries do not list
    Judged,          \* citizens whose record changes
    Purse,           \* what a citizen holds
    TreasuryHolds,   \* what the treasury holds
    NationTreasury   \* the account of the treasury of nation 1

VARIABLE part        \* what this behaviour is about

MCCitizens == Nation1 \cup Nation2
MCAccounts == MCCitizens \cup {NationTreasury}
MCNationOf == [c \in MCCitizens |-> IF c \in Nation1 THEN 1 ELSE 2]
MCTreasuries == <<NationTreasury>>
MCInitialFree == [a \in MCAccounts |-> IF a = NationTreasury THEN TreasuryHolds ELSE Purse]

MCInit ==
    /\ KhuralInit
    /\ \A c \in MCCitizens \ Judged : citizens[c].role = "ArbadLeader"
    /\ part \in {"proposals", "bills"}

MCNext ==
    /\ \/ part = "proposals" /\ (on_initialize \/ ProposalStep)
       \/ part = "bills" /\ BillStep
       \/ /\ \E c \in Judged : RegistryStep(c)
          /\ UNCHANGED <<ledger, block, proposalVars, billVars>>
    /\ UNCHANGED part

MCvars == <<khuralState, part>>

MCSpec == MCInit /\ [][MCNext]_MCvars /\ WF_MCvars(on_initialize /\ part = "proposals" /\ UNCHANGED part)
=============================================================================
