--------------------------- MODULE ForeignAffairs ---------------------------
(***************************************************************************)
(* pallets/foreign-affairs: the register of foreign states, the            *)
(* representative of each and the council he appoints, and the two         *)
(* channels of messages.  Codes, names, accounts of the state (hashes of   *)
(* its code and a slot 0 .. 12) and contents are left out.                 *)
(***************************************************************************)
EXTENDS StorageMaps, Clock, Sequences, FiniteSets

CONSTANTS
    Countries, Diplomats,
    MaxChannelMessages, MaxDiplomaticCouncil

ASSUME ForeignAssumption == {MaxChannelMessages, MaxDiplomaticCouncil} \subseteq Nat

VARIABLE foreign   \* the storage of the pallet

DiplomaticStatus == {"Active", "Suspended", "Sanctioned", "NoRelations"}

ChannelMessageType ==
    {"DiplomaticNote", "DocumentLegalization", "PassportApplication",
     "BankingNotification", "TradeAgreement", "ConsularRequest"}

ChannelKind == {"Diplomatic", "Legalization"}

NoStates ==
    [states         |-> <<>>,   \* country_code -> ForeignStateRecord: its status
     totalStates    |-> 0,
     Diplomatic     |-> <<>>,   \* country_code -> sequence of ChannelMessage
     Legalization   |-> <<>>,   \* country_code -> sequence of ChannelMessage
     representative |-> <<>>,   \* country_code -> account
     council        |-> <<>>]   \* country_code -> accounts

ChannelMessage(sender, type) ==
    [sender |-> sender, message_type |-> type, submitted_at |-> block, acknowledged |-> FALSE]

register_foreign_state(country, status) ==
    /\ country \notin DOMAIN foreign.states
    /\ foreign' = [foreign EXCEPT !.states = Put(@, country, status), !.totalStates = @ + 1]
    /\ UNCHANGED block

update_diplomatic_status(country, new_status) ==
    /\ country \in DOMAIN foreign.states
    /\ foreign' = [foreign EXCEPT !.states[country] = new_status]
    /\ UNCHANGED block

is_council_authorized(country, who) ==
    \/ country \in DOMAIN foreign.representative /\ foreign.representative[country] = who
    \/ who \in At(foreign.council, country, {})

\* try_push of a message to a channel of a state.
Pushed(channel, country, message) ==
    Put(channel, country, Append(At(channel, country, <<>>), message))

send_diplomatic_message(sender, country, type) ==
    /\ country \in DOMAIN foreign.states
    /\ foreign.states[country] = "Active"
    /\ is_council_authorized(country, sender)
    /\ Len(At(foreign.Diplomatic, country, <<>>)) < MaxChannelMessages
    /\ foreign' = [foreign EXCEPT !.Diplomatic = Pushed(@, country, ChannelMessage(sender, type))]
    /\ UNCHANGED block

\* Anybody may: the sender need not be of the council.
submit_legalization_document(sender, country) ==
    /\ country \in DOMAIN foreign.states
    /\ foreign.states[country] \in {"Active", "Suspended"}
    /\ Len(At(foreign.Legalization, country, <<>>)) < MaxChannelMessages
    /\ foreign' = [foreign EXCEPT
          !.Legalization = Pushed(@, country, ChannelMessage(sender, "DocumentLegalization"))]
    /\ UNCHANGED block

freeze_country_operations(country) == update_diplomatic_status(country, "Sanctioned")

acknowledge_message(sender, country, channel, index) ==
    /\ is_council_authorized(country, sender)
    /\ index \in DOMAIN At(foreign[channel], country, <<>>)
    /\ foreign' = [foreign EXCEPT ![channel][country][index].acknowledged = TRUE]
    /\ UNCHANGED block

\* Mutant: the appointments of the former representative stay.
CouncilStays(country) == foreign.council

\* The councils once a state has a new representative.
CouncilDismissed(country) ==
    IF country \in DOMAIN foreign.representative THEN Without(foreign.council, country)
    ELSE foreign.council

register_representative(country, representative) ==
    /\ country \in DOMAIN foreign.states
    /\ foreign' = [foreign EXCEPT !.representative = Put(@, country, representative),
                                  !.council = CouncilDismissed(country)]
    /\ UNCHANGED block

IsRepresentative(caller, country) ==
    country \in DOMAIN foreign.representative /\ foreign.representative[country] = caller

appoint_council_member(caller, country, member) ==
    /\ country \in DOMAIN foreign.states
    /\ foreign.states[country] # "Sanctioned"
    /\ IsRepresentative(caller, country)
    /\ LET council == At(foreign.council, country, {})
       IN  /\ member \notin council
           /\ Cardinality(council) < MaxDiplomaticCouncil
           /\ foreign' = [foreign EXCEPT !.council = Put(@, country, council \cup {member})]
    /\ UNCHANGED block

remove_council_member(caller, country, member) ==
    /\ IsRepresentative(caller, country)
    /\ member \in At(foreign.council, country, {})
    /\ foreign' = [foreign EXCEPT !.council[country] = @ \ {member}]
    /\ UNCHANGED block

ForeignStep ==
    \E c \in Countries :
        \/ \E s \in DiplomaticStatus : register_foreign_state(c, s) \/ update_diplomatic_status(c, s)
        \/ freeze_country_operations(c)
        \/ \E a \in Diplomats :
              \/ send_diplomatic_message(a, c, "DiplomaticNote")
              \/ submit_legalization_document(a, c)
              \/ register_representative(c, a)
              \/ \E k \in ChannelKind, i \in 1 .. MaxChannelMessages : acknowledge_message(a, c, k, i)
              \/ \E b \in Diplomats : appoint_council_member(a, c, b) \/ remove_council_member(a, c, b)

\* The pallet among everything else that happens.
ForeignInit == foreign = NoStates

ForeignSpec == ForeignInit /\ [][ForeignStep]_foreign

-----------------------------------------------------------------------------
(***************************************************************************)
(* Who speaks for the state is the representative or owes his seat to him: *)
(* a new representative starts without the council of the former one, who  *)
(* loses his own voice too.                                                *)
(***************************************************************************)
VoiceIsDelegated ==
    [][\A c \in Countries :
          At(foreign'.representative, c, {}) # At(foreign.representative, c, {})
             => /\ At(foreign'.council, c, {}) = {}
                /\ \A a \in Diplomats :
                      is_council_authorized(c, a)' => At(foreign'.representative, c, {}) = a]_foreign
=============================================================================
