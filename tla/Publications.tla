---------------------------- MODULE Publications ----------------------------
(***************************************************************************)
(* The two pallets in which citizens publish: pallets/forums and           *)
(* pallets/chronicles.                                                     *)
(***************************************************************************)
EXTENDS AltanBalances, StorageMaps, CitizenRegistry

(***************************************************************************)
(* pallets/forums: messages and replies of active citizens, the index of   *)
(* the threads of a forum and that of the replies to a message.            *)
(***************************************************************************)

CONSTANTS
    ForumIds,
    MaxMessages   \* bound on the messages

ASSUME ForumAssumption == MaxMessages \in Nat

VARIABLE forums   \* the storage of the pallet

NoMessages ==
    [messages |-> <<>>,                        \* message_id -> Message
     threads  |-> [f \in ForumIds |-> {}],     \* ForumIndex
     replies  |-> {}]                          \* ThreadReplies: <<parent, child>>

\* parent_id is the set of the parent, if any.
Message(author, forum_id, parent_id) ==
    [author |-> author, forum_id |-> forum_id, parent_id |-> parent_id, pinned |-> FALSE]

\* Mutant: the parent need only exist.
AnyForum(forum_id, reply_to) == reply_to \subseteq DOMAIN forums.messages

SameForum(forum_id, reply_to) ==
    /\ reply_to \subseteq DOMAIN forums.messages
    /\ \A p \in reply_to : forums.messages[p].forum_id = forum_id

post_message(caller, forum_id, reply_to) ==
    LET id == FreshId(forums.messages)
    IN  /\ id < MaxMessages
        /\ IsActive(caller)
        /\ SameForum(forum_id, reply_to)
        /\ forums' = [forums EXCEPT
              !.messages = Put(@, id, Message(caller, forum_id, reply_to)),
              !.replies = @ \cup {<<p, id>> : p \in reply_to},
              !.threads[forum_id] = IF reply_to = {} THEN @ \cup {id} ELSE @]
        /\ UNCHANGED citizens

pin_message(message_id) ==
    /\ message_id \in DOMAIN forums.messages
    /\ forums' = [forums EXCEPT !.messages[message_id].pinned = TRUE]
    /\ UNCHANGED citizens

ForumStep ==
    \/ \E c \in Citizens, f \in ForumIds :
          \E p \in {{}} \cup {{i} : i \in DOMAIN forums.messages} : post_message(c, f, p)
    \/ \E i \in DOMAIN forums.messages : pin_message(i)

-----------------------------------------------------------------------------
(***************************************************************************)
(* "Every statement traces back to its original context": from the index   *)
(* of a forum and the replies one finds all of its messages and no other's.*)
(***************************************************************************)
ThreadsAreWhole ==
    LET found[n \in 0 .. MaxMessages] ==
            IF n = 0 THEN forums.threads
            ELSE [f \in ForumIds |->
                     found[n - 1][f] \cup {r[2] : r \in {q \in forums.replies : q[1] \in found[n - 1][f]}}]
    IN  \A f \in ForumIds :
            found[MaxMessages][f] =
                {i \in DOMAIN forums.messages : forums.messages[i].forum_id = f}

-----------------------------------------------------------------------------
(***************************************************************************)
(* pallets/chronicles: the first publication of a document is its author's *)
(* for ever, and readers donate to the author.                             *)
(***************************************************************************)

CONSTANTS Authors, Documents, Donations

ASSUME ChroniclesAssumption == Authors \subseteq Accounts /\ Donations \subseteq Nat

VARIABLE chronicles   \* the storage of the pallet

NoDocuments ==
    [owner    |-> <<>>,   \* content_hash -> owner of its DocumentRecord
     byAuthor |-> {}]     \* AuthorDocuments: <<owner, content_hash>>

\* Mutant: a document can be published again by another.
NotMine(owner, hash) == <<owner, hash>> \notin chronicles.byAuthor

IsUnpublished(owner, hash) == hash \notin DOMAIN chronicles.owner

publish_document(owner, hash) ==
    /\ IsUnpublished(owner, hash)
    /\ chronicles' = [chronicles EXCEPT !.owner = Put(@, hash, owner),
                                        !.byAuthor = @ \cup {<<owner, hash>>}]
    /\ UNCHANGED ledger

donate_to_author(donor, hash, amount) ==
    /\ hash \in DOMAIN chronicles.owner
    /\ transfer(donor, chronicles.owner[hash], amount, TRUE)
    /\ UNCHANGED chronicles

ChronicleStep ==
    \E a \in Authors, d \in Documents :
        publish_document(a, d) \/ \E v \in Donations : donate_to_author(a, d, v)

-----------------------------------------------------------------------------
(***************************************************************************)
(* The list of an author's documents is that of the documents whose        *)
(* donations the author receives.                                          *)
(***************************************************************************)
AuthorsOwnTheirWorks ==
    chronicles.byAuthor = {<<chronicles.owner[d], d>> : d \in DOMAIN chronicles.owner}
=============================================================================
