------------------------------- MODULE Messaging -------------------------------
(***************************************************************************)
(* One conversation between two users: starting it, sending, reading and   *)
(* deleting messages, hiding it (handler/message_handler.go and the two    *)
(* repositories).  Conversations do not touch each other's rows, so one    *)
(* stands for all.                                                         *)
(*                                                                         *)
(* The number of unread messages is kept twice: as the status of the       *)
(* messages and as a counter of the conversation row.  Sending and reading *)
(* update both in several statements without a transaction; one statement  *)
(* is one step.                                                            *)
(***************************************************************************)
EXTENDS Naturals, FiniteSets

CONSTANTS
    Users,   \* the two participants
    Msgs,    \* message ids; each is sent by one request
    None

ASSUME TwoUsers == \E u, v \in Users : u # v /\ Users = {u, v}
ASSUME NoneAssumption == None \notin Users \cup Msgs

VARIABLES
    exists,   \* the conversation row has been inserted
    unread,   \* unread_count_1 and unread_count_2, by user
    hidden,   \* users for whom deleted_for_?_at is set
    last,     \* the message shown as the last one
    msg,      \* the messages table
    start,    \* StartConversation requests
    send,     \* SendMessage requests
    read,     \* MarkAsRead requests
    calm,     \* history: no two requests have overlapped, and none has failed
    misled    \* history: users who lost an unread message to an outsider's call,
              \* and have not read since

vars == <<exists, unread, hidden, last, msg, start, send, read, calm, misled>>

Other(u) == CHOOSE v \in Users : v # u

Message == [sender : Users \cup {None}, status : {"absent", "sent", "read"},
            deleted : BOOLEAN]

TypeOK ==
    /\ exists \in BOOLEAN
    /\ unread \in [Users -> Nat]
    /\ hidden \in SUBSET Users
    /\ last \in Msgs \cup {None}
    /\ msg \in [Msgs -> Message]
    /\ start \in [Users -> {"idle", "missed"}]
    /\ send \in [Msgs -> {"none", "inserted", "previewed", "created",
                          "previewedAgain", "done"}]
    /\ read \in [Users -> {"idle", "marked", "reset"}]
    /\ calm \in BOOLEAN
    /\ misled \in SUBSET Users

Init ==
    /\ exists = FALSE
    /\ unread = [u \in Users |-> 0]
    /\ hidden = {}
    /\ last = None
    /\ msg = [m \in Msgs |-> [sender |-> None, status |-> "absent",
                              deleted |-> FALSE]]
    /\ start = [u \in Users |-> "idle"]
    /\ send = [m \in Msgs |-> "none"]
    /\ read = [u \in Users |-> "idle"]
    /\ calm = TRUE
    /\ misled = {}

Quiet ==
    /\ \A u \in Users : start[u] = "idle" /\ read[u] = "idle"
    /\ \A m \in Msgs : send[m] \in {"none", "done"}

Exists(m) == msg[m].status # "absent"

Unread(u) ==
    {m \in Msgs : msg[m].status = "sent" /\ msg[m].sender # u /\ ~msg[m].deleted}

-----------------------------------------------------------------------------
(* Starting and hiding the conversation *)

\* FindOrCreate finds the row and returns it as it is.
StartFinds(u) ==
    /\ calm' = (calm /\ Quiet)
    /\ start[u] = "idle"
    /\ exists
    /\ UNCHANGED <<exists, unread, hidden, last, msg, start, send, read, misled>>

\* It does not: the INSERT follows.
StartMisses(u) ==
    /\ calm' = (calm /\ Quiet)
    /\ start[u] = "idle"
    /\ ~exists
    /\ start' = [start EXCEPT ![u] = "missed"]
    /\ UNCHANGED <<exists, unread, hidden, last, msg, send, read, misled>>

\* The row is unique: the second of two racing INSERTs fails.
StartInserts(u) ==
    /\ start[u] = "missed"
    /\ start' = [start EXCEPT ![u] = "idle"]
    /\ \/ ~exists /\ exists' = TRUE
       \/ exists /\ UNCHANGED exists
    /\ UNCHANGED <<unread, hidden, last, msg, send, read, calm, misled>>

SoftDeleteFor(u) ==
    /\ calm' = (calm /\ Quiet)
    /\ exists
    /\ hidden' = hidden \cup {u}
    /\ UNCHANGED <<exists, unread, last, msg, start, send, read, misled>>

-----------------------------------------------------------------------------
(* Sending a message *)

SendStep(m, from, to) ==
    /\ send[m] = from
    /\ send' = [send EXCEPT ![m] = to]

SendMessage(m, u) ==
    /\ calm' = (calm /\ Quiet)
    /\ exists
    /\ SendStep(m, "none", "inserted")
    /\ msg' = [msg EXCEPT ![m] = [sender |-> u, status |-> "sent",
                                  deleted |-> FALSE]]
    /\ UNCHANGED <<exists, unread, hidden, last, start, read, misled>>

\* Once in messageRepo.Create, and once more in the handler.
UpdateLastMessage(m) ==
    /\ \/ SendStep(m, "inserted", "previewed")
       \/ SendStep(m, "created", "previewedAgain")
    /\ last' = m
    /\ UNCHANGED <<exists, unread, hidden, msg, start, read, calm, misled>>

\* Mutant: the sender's counter is incremented.
IncrementUnreadOfSender(m) ==
    /\ \/ SendStep(m, "previewed", "created")
       \/ SendStep(m, "previewedAgain", "done")
    /\ unread' = [unread EXCEPT ![msg[m].sender] = @ + 1]
    /\ UNCHANGED <<exists, hidden, last, msg, start, read, calm, misled>>

IncrementUnread(m) ==
    /\ \/ SendStep(m, "previewed", "created")
       \/ SendStep(m, "previewedAgain", "done")
    /\ unread' = [unread EXCEPT ![Other(msg[m].sender)] = @ + 1]
    /\ UNCHANGED <<exists, hidden, last, msg, start, read, calm, misled>>

\* An error in Create ends the request, though the message has been stored; one
\* is certain when the preview's 100 bytes end inside a character.  The handler
\* ignores the errors of its own two calls.
SendFails(m) ==
    /\ calm' = FALSE
    /\ \/ \E pc \in {"inserted", "previewed", "previewedAgain"} :
             SendStep(m, pc, "done")
       \/ SendStep(m, "created", "previewedAgain")
    /\ UNCHANGED <<exists, unread, hidden, last, msg, start, read, misled>>

-----------------------------------------------------------------------------
(* Reading *)

Marked(u) ==
    [m \in Msgs |-> IF m \in Unread(u) THEN [msg[m] EXCEPT !.status = "read"] ELSE msg[m]]

MarkAsRead(u) ==
    /\ calm' = (calm /\ Quiet)
    /\ exists
    /\ read[u] = "idle"
    /\ read' = [read EXCEPT ![u] = "marked"]
    /\ msg' = Marked(u)
    /\ UNCHANGED <<exists, unread, hidden, last, start, send, misled>>

\* Nobody looks whether the caller takes part.  To a user who does not, every
\* message is somebody else's, and the two resets that follow touch no counter.
OutsiderMarksAsRead ==
    /\ calm' = (calm /\ Quiet)
    /\ exists
    /\ msg' = Marked(None)
    /\ misled' = misled \cup {u \in Users : Unread(u) # {}}
    /\ UNCHANGED <<exists, unread, hidden, last, start, send, read>>

\* Mutant: the counter is decremented, as if a message counted once.
ResetUnreadByOne(u) ==
    /\ \/ read[u] = "marked" /\ read' = [read EXCEPT ![u] = "reset"]
       \/ read[u] = "reset" /\ read' = [read EXCEPT ![u] = "idle"]
    /\ unread' = [unread EXCEPT ![u] = IF @ > 0 THEN @ - 1 ELSE 0]
    /\ misled' = misled \ {u}
    /\ UNCHANGED <<exists, hidden, last, msg, start, send, calm>>

\* Once in the repository, and once more in the handler.
ResetUnread(u) ==
    /\ \/ read[u] = "marked" /\ read' = [read EXCEPT ![u] = "reset"]
       \/ read[u] = "reset" /\ read' = [read EXCEPT ![u] = "idle"]
    /\ unread' = [unread EXCEPT ![u] = 0]
    /\ misled' = misled \ {u}
    /\ UNCHANGED <<exists, hidden, last, msg, start, send, calm>>

ReadFails(u) ==
    /\ calm' = FALSE
    /\ read[u] # "idle"
    /\ read' = [read EXCEPT ![u] = "idle"]
    /\ UNCHANGED <<exists, unread, hidden, last, msg, start, send, misled>>

\* Neither the counter nor the preview is looked at.
DeleteMessage(m) ==
    /\ calm' = (calm /\ Quiet)
    /\ Exists(m)
    /\ ~msg[m].deleted
    /\ msg' = [msg EXCEPT ![m].deleted = TRUE]
    /\ UNCHANGED <<exists, unread, hidden, last, start, send, read, misled>>

-----------------------------------------------------------------------------

UserStep ==
    \E u \in Users :
        \/ StartFinds(u) \/ StartMisses(u) \/ StartInserts(u)
        \/ SoftDeleteFor(u)
        \/ \E m \in Msgs : SendMessage(m, u)
        \/ MarkAsRead(u) \/ ResetUnread(u) \/ ReadFails(u)

MessageStep ==
    \E m \in Msgs :
        \/ UpdateLastMessage(m) \/ IncrementUnread(m) \/ SendFails(m)
        \/ DeleteMessage(m)

Next == UserStep \/ MessageStep \/ OutsiderMarksAsRead

Spec == Init /\ [][Next]_vars

-----------------------------------------------------------------------------
(* Properties *)

\* As long as requests neither overlap nor fail, the badge never hides a message:
\* the counter is at least the number of those unread.
BadgeCoversUnread ==
    calm /\ Quiet => \A u \in Users : unread[u] >= Cardinality(Unread(u))

\* As long as requests neither overlap nor fail, a badge without any message behind it
\* (unread, or deleted before it was read) is an outsider's doing, and goes away as
\* soon as its user reads the conversation.
BadgeHasReason ==
    calm /\ Quiet => \A u \in Users \ misled : unread[u] > 0 =>
        \E m \in Msgs : msg[m].sender = Other(u) /\ msg[m].status = "sent"
=============================================================================
