------------------------------ MODULE Chancery ------------------------------
(***************************************************************************)
(* pallets/chancery: agreements that all parties sign and, when the        *)
(* proposer named validators, all of those confirm before it is in force.  *)
(***************************************************************************)
EXTENDS StorageMaps, Naturals, FiniteSets, Sequences

CONSTANTS
    Signers,           \* accounts that are parties or validators
    Professionals,     \* those is_valid_validator accepts
    Agreements,        \* hashes of documents
    PartyLists,        \* the lists proposed as parties; one may repeat an account
    MaxParties

ASSUME ChanceryAssumption == Professionals \subseteq Signers /\ MaxParties \in Nat

VARIABLE agreements   \* document_hash -> Agreement

AgreementStatus ==
    {"PendingSignatures", "PendingValidation", "Active", "Disputed", "Completed", "Cancelled"}

\* Who is listed, not how often, decides when all have signed.
Agreement(parties, validators) ==
    [parties |-> parties, validators |-> validators, signed_by |-> {}, validated_by |-> {},
     status |-> "PendingSignatures"]

InStatus(document, status) ==
    document \in DOMAIN agreements /\ agreements[document].status = status

\* Mutant: the signatures are counted against one party less.
OneIsMissing(required, collected) == Cardinality(required \ collected) <= 1

all_present(required, collected) == required \subseteq collected

-----------------------------------------------------------------------------
propose_agreement(creator, document, parties, validators) ==
    /\ document \notin DOMAIN agreements
    /\ Len(parties) \in 2 .. MaxParties
    /\ \E i \in DOMAIN parties : parties[i] = creator
    /\ agreements' = Put(agreements, document,
                         Agreement({parties[i] : i \in DOMAIN parties}, validators))

sign_agreement(signer, document) ==
    /\ InStatus(document, "PendingSignatures")
    /\ LET a == agreements[document]
           signed == a.signed_by \cup {signer}
       IN  /\ signer \in a.parties \ a.signed_by
           /\ agreements' = [agreements EXCEPT ![document] =
                 [@ EXCEPT !.signed_by = signed,
                           !.status = IF ~all_present(a.parties, signed) THEN "PendingSignatures"
                                      ELSE IF a.validators # {} THEN "PendingValidation"
                                      ELSE "Active"]]

validate_agreement(validator, document) ==
    /\ validator \in Professionals
    /\ InStatus(document, "PendingValidation")
    /\ LET a == agreements[document]
           validated == a.validated_by \cup {validator}
       IN  /\ validator \in a.validators \ a.validated_by
           /\ agreements' = [agreements EXCEPT ![document] =
                 [@ EXCEPT !.validated_by = validated,
                           !.status = IF all_present(a.validators, validated)
                                      THEN "Active" ELSE "PendingValidation"]]

\* raise_dispute and complete_agreement.
Conclude(caller, document, status) ==
    /\ InStatus(document, "Active")
    /\ caller \in agreements[document].parties
    /\ agreements' = [agreements EXCEPT ![document].status = status]

raise_dispute(caller, document) == Conclude(caller, document, "Disputed")

complete_agreement(caller, document) == Conclude(caller, document, "Completed")

\* The agreements after annul_signatures.
AnnulledFor(who) ==
    [d \in DOMAIN agreements |->
        IF InStatus(d, "PendingSignatures") /\ who \in agreements[d].parties
        THEN [agreements[d] EXCEPT !.status = "Cancelled"]
        ELSE agreements[d]]

AgreementStep ==
    \E s \in Signers, d \in Agreements :
        \/ \E list \in PartyLists, V \in SUBSET Signers : propose_agreement(s, d, list, V)
        \/ sign_agreement(s, d)
        \/ validate_agreement(s, d)
        \/ raise_dispute(s, d)
        \/ complete_agreement(s, d)

-----------------------------------------------------------------------------
(* Correctness                                                             *)

(***************************************************************************)
(* What is in force, was completed or is disputed was signed by every      *)
(* party and confirmed by every validator the proposer named, each of them *)
(* a professional; nobody else's name is on it.                            *)
(***************************************************************************)
ForceNeedsConsent ==
    \A d \in DOMAIN agreements :
        LET a == agreements[d]
        IN  /\ a.signed_by \subseteq a.parties /\ a.validated_by \subseteq a.validators
            /\ a.status \in {"PendingValidation", "Active", "Disputed", "Completed"} =>
                  a.signed_by = a.parties
            /\ a.status \in {"Active", "Disputed", "Completed"} =>
                  a.validated_by = a.validators /\ a.validators \subseteq Professionals
=============================================================================
