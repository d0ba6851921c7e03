---------------------------- MODULE MessagingProofs ----------------------------
(***************************************************************************)
(* BadgeCoversUnread and BadgeHasReason for every number of messages.      *)
(*                                                                         *)
(* Both speak of moments at which no request is in progress.  In between,  *)
(* the counter may lag behind by the one message that is being sent, and   *)
(* may stand for nothing between the two updates of a reading; while no    *)
(* requests overlap there is one such request at a time (SerialOK), a      *)
(* message that is being sent is not read meanwhile, and nobody sends to   *)
(* a user who is reading (HandsOff).                                       *)
(***************************************************************************)
EXTENDS Messaging, FiniteSetTheorems, TLAPS

Sending(m) == send[m] \notin {"none", "done"}

\* The messages of one user that the counter of the other is still to count.
Lagging(u) == {m \in Msgs : send[m] \in {"inserted", "previewed"} /\ msg[m].sender # u}

Lag(u) == IF Lagging(u) = {} THEN 0 ELSE 1

Reason(u) == \E m \in Msgs : msg[m].sender = Other(u) /\ msg[m].status = "sent"

\* A message exists from its INSERT on, and has a sender.
MsgOK ==
    /\ \A m \in Msgs :
          /\ Exists(m) => msg[m].sender \in Users
          /\ send[m] = "none" <=> ~Exists(m)
    /\ IsFiniteSet({m \in Msgs : Exists(m)})

SerialOK ==
    /\ \A m, n \in Msgs : Sending(m) /\ Sending(n) => m = n
    /\ \A u \in Users, m \in Msgs : ~(Sending(m) /\ read[u] # "idle")

HandsOff ==
    /\ \A m \in Msgs : Sending(m) => msg[m].status = "sent"
    /\ \A u \in Users : read[u] # "idle" => Unread(u) = {}

CoverOK == \A u \in Users : unread[u] + Lag(u) >= Cardinality(Unread(u))

ReasonOK == \A u \in Users \ misled : read[u] # "marked" /\ unread[u] > 0 => Reason(u)

IInv ==
    /\ TypeOK /\ MsgOK
    /\ calm => SerialOK /\ HandsOff /\ CoverOK /\ ReasonOK

-----------------------------------------------------------------------------
(* The two users, and the sets of their messages *)

LEMMA OtherUser ==
    ASSUME NEW u \in Users
    PROVE  /\ Other(u) \in Users /\ Other(u) # u
           /\ \A v \in Users : v # u => v = Other(u)
  <1>1. \E v \in Users : v # u /\ \A w \in Users : w # u => w = v
    BY TwoUsers
  <1>2. Other(u) \in Users /\ Other(u) # u
    BY <1>1 DEF Other
  <1> QED
    BY <1>1, <1>2

\* What is unread was sent by the other one, and there is only so much of it.
LEMMA UnreadFinite ==
    ASSUME MsgOK, NEW u
    PROVE  IsFiniteSet(Unread(u)) /\ Cardinality(Unread(u)) \in Nat
  <1>1. Unread(u) \subseteq {m \in Msgs : Exists(m)}
    BY DEF Unread, Exists
  <1>2. IsFiniteSet(Unread(u))
    BY <1>1, FS_Subset DEF MsgOK
  <1> QED
    BY <1>2, FS_CardinalityType

LEMMA LagType == \A u : Lag(u) \in Nat
  BY DEF Lag

-----------------------------------------------------------------------------
(* Starting and hiding *)

\* A step that touches neither messages nor counters.
LEMMA Elsewhere ==
    ASSUME IInv, TypeOK', UNCHANGED <<unread, msg, send, read, misled>>, calm' => calm
    PROVE  IInv'
  <1>1. MsgOK'
    BY DEF IInv, MsgOK, Exists
  <1>2. ASSUME calm' PROVE SerialOK' /\ HandsOff' /\ CoverOK' /\ ReasonOK'
    <2>1. SerialOK /\ HandsOff /\ CoverOK /\ ReasonOK
      BY <1>2 DEF IInv
    <2>2. \A u : Unread(u)' = Unread(u) /\ Lag(u)' = Lag(u) /\ (Reason(u) => Reason(u)')
      BY DEF Unread, Lag, Lagging, Reason
    <2>3. SerialOK' /\ HandsOff'
      BY <2>1, <2>2 DEF SerialOK, HandsOff, Sending
    <2>4. CoverOK' /\ ReasonOK'
      BY <2>1, <2>2 DEF CoverOK, ReasonOK
    <2> QED
      BY <2>3, <2>4
  <1> QED
    BY <1>1, <1>2 DEF IInv

LEMMA StartStep ==
    ASSUME IInv, NEW u \in Users,
           StartFinds(u) \/ StartMisses(u) \/ StartInserts(u) \/ SoftDeleteFor(u)
    PROVE  IInv'
  <1>1. TypeOK'
    BY DEF IInv, TypeOK, StartFinds, StartMisses, StartInserts, SoftDeleteFor
  <1>2. UNCHANGED <<unread, msg, send, read, misled>> /\ (calm' => calm)
    <2>1. CASE StartFinds(u)
      BY <2>1 DEF StartFinds
    <2>2. CASE StartMisses(u)
      BY <2>2 DEF StartMisses
    <2>3. CASE StartInserts(u)
      BY <2>3 DEF StartInserts
    <2>4. CASE SoftDeleteFor(u)
      BY <2>4 DEF SoftDeleteFor
    <2> QED
      BY <2>1, <2>2, <2>3, <2>4
  <1> QED
    BY <1>1, <1>2, Elsewhere

-----------------------------------------------------------------------------
(* Sending *)

LEMMA SendMessageStep ==
    ASSUME IInv, NEW u \in Users, NEW m \in Msgs, SendMessage(m, u)
    PROVE  IInv'
  <1> DEFINE t == [sender |-> u, status |-> "sent", deleted |-> FALSE]
  <1>1. /\ send[m] = "none" /\ send' = [send EXCEPT ![m] = "inserted"]
        /\ msg' = [msg EXCEPT ![m] = t]
        /\ UNCHANGED <<unread, read, misled>> /\ (calm' => calm /\ Quiet)
    BY DEF SendMessage, SendStep
  <1>2. TypeOK /\ MsgOK
    BY DEF IInv
  <1>3. t \in Message /\ t.sender = u /\ t.status = "sent" /\ ~t.deleted
    BY DEF Message
  <1>4. /\ msg'[m] = t /\ send'[m] = "inserted"
        /\ \A n \in Msgs \ {m} : msg'[n] = msg[n] /\ send'[n] = send[n]
    BY <1>1, <1>2 DEF TypeOK
  <1>5. TypeOK'
    BY <1>1, <1>2, <1>3 DEF TypeOK, SendMessage
  <1> HIDE DEF t
  <1>6. ~Exists(m) /\ msg[m].status # "sent"
    BY <1>1, <1>2 DEF MsgOK, Exists
  <1>7. MsgOK'
    <2>1. {n \in Msgs : Exists(n)}' = {n \in Msgs : Exists(n)} \cup {m}
      BY <1>3, <1>4 DEF Exists
    <2>2. IsFiniteSet({n \in Msgs : Exists(n)}')
      BY <1>2, <2>1, FS_AddElement DEF MsgOK
    <2> QED
      BY <1>2, <1>3, <1>4, <2>2 DEF MsgOK, Exists
  <1>8. ASSUME calm' PROVE SerialOK' /\ HandsOff' /\ CoverOK' /\ ReasonOK'
    <2>1. /\ HandsOff /\ CoverOK /\ ReasonOK
          /\ \A n \in Msgs : send[n] \in {"none", "done"} /\ \A v \in Users : read[v] = "idle"
      BY <1>1, <1>8 DEF IInv, Quiet
    <2>2. \A n \in Msgs : Sending(n)' => n = m
      BY <1>4, <2>1 DEF Sending
    <2>3. SerialOK' /\ HandsOff'
      BY <1>1, <1>3, <1>4, <2>1, <2>2 DEF SerialOK, HandsOff
    <2>4. ASSUME NEW v \in Users
          PROVE  unread'[v] + Lag(v)' >= Cardinality(Unread(v)')
      <3>1. IsFiniteSet(Unread(v)) /\ Cardinality(Unread(v)) \in Nat
        BY <1>2, UnreadFinite
      <3>2. unread[v] \in Nat /\ unread'[v] = unread[v]
        BY <1>1, <1>2 DEF TypeOK
      <3>3. Lagging(v) = {} /\ unread[v] >= Cardinality(Unread(v))
        <4>1. Lagging(v) = {}
          BY <2>1 DEF Lagging
        <4> QED
          BY <2>1, <3>2, <4>1 DEF CoverOK, Lag
      <3>4. CASE v = u
        <4>1. Unread(v)' = Unread(v)
          BY <1>3, <1>4, <1>6, <3>4 DEF Unread
        <4>2. Lag(v)' \in Nat
          BY DEF Lag
        <4> QED
          BY <3>1, <3>2, <3>3, <4>1, <4>2
      <3>5. CASE v # u
        <4>1. Unread(v)' = Unread(v) \cup {m} /\ m \notin Unread(v)
          BY <1>3, <1>4, <1>6, <3>5 DEF Unread
        <4>2. m \in Lagging(v)'
          BY <1>3, <1>4, <3>5 DEF Lagging
        <4>3. Lag(v)' = 1
          BY <4>2 DEF Lag
        <4>4. Cardinality(Unread(v)') = Cardinality(Unread(v)) + 1
          BY <3>1, <4>1, FS_AddElement
        <4> QED
          BY <3>1, <3>2, <3>3, <4>3, <4>4
      <3> QED
        BY <3>4, <3>5
    <2>5. \A v \in Users : Reason(v) => Reason(v)'
      BY <1>4, <1>6 DEF Reason
    <2>6. ReasonOK'
      BY <1>1, <2>1, <2>5 DEF ReasonOK
    <2> QED
      BY <2>3, <2>4, <2>6 DEF CoverOK
  <1> QED
    BY <1>5, <1>7, <1>8 DEF IInv

LEMMA UpdateLastMessageStep ==
    ASSUME IInv, NEW m \in Msgs, UpdateLastMessage(m)
    PROVE  IInv'
  <1>1. \/ send[m] = "inserted" /\ send' = [send EXCEPT ![m] = "previewed"]
        \/ send[m] = "created" /\ send' = [send EXCEPT ![m] = "previewedAgain"]
    BY DEF UpdateLastMessage, SendStep
  <1>2. TypeOK /\ MsgOK /\ UNCHANGED <<unread, msg, read, calm, misled>>
    BY DEF IInv, UpdateLastMessage
  <1>3. TypeOK'
    BY <1>1, <1>2 DEF TypeOK, UpdateLastMessage
  <1>4. /\ \A n \in Msgs : /\ Sending(n)' <=> Sending(n)
                           /\ send'[n] = "none" <=> send[n] = "none"
                           /\ send'[n] \in {"inserted", "previewed"}
                                <=> send[n] \in {"inserted", "previewed"}
    BY <1>1, <1>2 DEF TypeOK, Sending
  <1>5. MsgOK'
    BY <1>2, <1>4 DEF MsgOK, Exists
  <1>6. \A u : /\ Unread(u)' = Unread(u) /\ Lagging(u)' = Lagging(u)
               /\ Reason(u) => Reason(u)'
    BY <1>2, <1>4 DEF Unread, Lagging, Reason
  <1>7. ASSUME calm' PROVE SerialOK' /\ HandsOff' /\ CoverOK' /\ ReasonOK'
    <2>1. SerialOK /\ HandsOff /\ CoverOK /\ ReasonOK
      BY <1>2, <1>7 DEF IInv
    <2>2. SerialOK' /\ HandsOff'
      BY <1>2, <1>4, <1>6, <2>1 DEF SerialOK, HandsOff
    <2>3. CoverOK' /\ ReasonOK'
      BY <1>2, <1>6, <2>1 DEF CoverOK, ReasonOK, Lag
    <2> QED
      BY <2>2, <2>3
  <1> QED
    BY <1>3, <1>5, <1>7 DEF IInv

LEMMA IncrementUnreadStep ==
    ASSUME IInv, NEW m \in Msgs, IncrementUnread(m)
    PROVE  IInv'
  <1>a. PICK to : to = Other(msg[m].sender)
    OBVIOUS
  <1>1. PICK pc \in {"created", "done"} :
           /\ send[m] = IF pc = "created" THEN "previewed" ELSE "previewedAgain"
           /\ send' = [send EXCEPT ![m] = pc]
           /\ unread' = [unread EXCEPT ![to] = @ + 1]
           /\ UNCHANGED <<msg, read, calm, misled>>
    BY <1>a DEF IncrementUnread, SendStep
  <1>2. TypeOK /\ MsgOK
    BY DEF IInv
  <1>3. msg[m].sender \in Users
    BY <1>1, <1>2 DEF MsgOK
  <1>4. to \in Users /\ to # msg[m].sender /\ Other(to) = msg[m].sender
    BY <1>a, <1>3, OtherUser
  <1>5. /\ unread[to] \in Nat /\ unread'[to] = unread[to] + 1
        /\ \A u \in Users \ {to} : unread'[u] = unread[u]
        /\ send'[m] = pc /\ \A n \in Msgs \ {m} : send'[n] = send[n]
    BY <1>1, <1>2, <1>4 DEF TypeOK
  <1>6. TypeOK'
    BY <1>1, <1>2, <1>4, <1>5 DEF TypeOK, IncrementUnread
  <1>7. MsgOK'
    BY <1>1, <1>2, <1>5 DEF MsgOK, Exists
  <1>8. ASSUME calm' PROVE SerialOK' /\ HandsOff' /\ CoverOK' /\ ReasonOK'
    <2>1. SerialOK /\ HandsOff /\ CoverOK /\ ReasonOK /\ Sending(m)
      BY <1>1, <1>8 DEF IInv, Sending
    <2>2. \A n \in Msgs : Sending(n)' => Sending(n)
      BY <1>5, <2>1 DEF Sending
    <2>3. \A u : Unread(u)' = Unread(u) /\ (Reason(u) => Reason(u)')
      BY <1>1 DEF Unread, Reason
    <2>4. SerialOK' /\ HandsOff'
      BY <1>1, <2>1, <2>2, <2>3 DEF SerialOK, HandsOff
    <2>5. ASSUME NEW u \in Users PROVE unread'[u] + Lag(u)' >= Cardinality(Unread(u)')
      <3>1. /\ Cardinality(Unread(u)) \in Nat /\ unread[u] \in Nat
            /\ unread[u] + Lag(u) >= Cardinality(Unread(u))
            /\ Lag(u)' \in Nat
        BY <1>2, <2>1, UnreadFinite DEF TypeOK, CoverOK, Lag
      <3>2. CASE u = to
        <4>1. unread'[u] = unread[u] + 1 /\ Lag(u) \in {0, 1}
          BY <1>5, <3>2 DEF Lag
        <4> QED
          BY <2>3, <3>1, <4>1
      <3>3. CASE u # to
        <4>1. msg[m].sender = u
          BY <1>3, <1>4, <3>3, OtherUser
        <4>2. Lagging(u)' = Lagging(u)
          BY <1>1, <1>5, <4>1 DEF Lagging
        <4> QED
          BY <1>5, <2>3, <3>1, <3>3, <4>2 DEF Lag
      <3> QED
        BY <3>2, <3>3
    <2>6. ReasonOK'
      <3>1. Reason(to)'
        BY <1>1, <1>4, <2>1 DEF HandsOff, Reason
      <3> QED
        BY <1>1, <1>5, <2>1, <2>3, <3>1 DEF ReasonOK
    <2> QED
      BY <2>4, <2>5, <2>6 DEF CoverOK
  <1> QED
    BY <1>6, <1>7, <1>8 DEF IInv

LEMMA SendFailsStep ==
    ASSUME IInv, NEW m \in Msgs, SendFails(m)
    PROVE  IInv'
  <1>1. /\ \E pc \in {"done", "previewedAgain"} : send' = [send EXCEPT ![m] = pc]
        /\ send[m] \in {"inserted", "previewed", "previewedAgain", "created"}
        /\ calm' = FALSE /\ UNCHANGED <<exists, unread, hidden, last, msg, start, read, misled>>
    BY DEF SendFails, SendStep
  <1>2. TypeOK'
    BY <1>1 DEF IInv, TypeOK
  <1>3. MsgOK'
    BY <1>1 DEF IInv, TypeOK, MsgOK, Exists
  <1> QED
    BY <1>1, <1>2, <1>3 DEF IInv

-----------------------------------------------------------------------------
(* Reading and deleting *)

\* A marking takes what is unread to its caller, a user or an outsider, and keeps
\* the rest of every message.
LEMMA Marking ==
    ASSUME TypeOK, MsgOK, NEW u, msg' = Marked(u)
    PROVE  /\ msg' \in [Msgs -> Message]
           /\ \A m \in Msgs :
                 /\ msg'[m].sender = msg[m].sender /\ msg'[m].deleted = msg[m].deleted
                 /\ m \in Unread(u) => msg'[m].status = "read" /\ msg[m].status = "sent"
                 /\ m \notin Unread(u) => msg'[m].status = msg[m].status
           /\ send' = send => MsgOK'
  <1>1. \A m \in Msgs :
           /\ msg[m] \in Message
           /\ msg'[m] = IF m \in Unread(u) THEN [msg[m] EXCEPT !.status = "read"] ELSE msg[m]
    BY DEF TypeOK, Marked
  <1>2. \A m \in Msgs :
           /\ msg'[m] \in Message
           /\ msg'[m].sender = msg[m].sender /\ msg'[m].deleted = msg[m].deleted
           /\ m \in Unread(u) => msg'[m].status = "read" /\ msg[m].status = "sent"
           /\ m \notin Unread(u) => msg'[m].status = msg[m].status
    BY <1>1 DEF Message, Unread
  <1>3. \A m \in Msgs : Exists(m)' <=> Exists(m)
    BY <1>2 DEF Exists
  <1>4. {m \in Msgs : Exists(m)}' = {m \in Msgs : Exists(m)}
    BY <1>3
  <1>5. send' = send => MsgOK'
    BY <1>2, <1>3, <1>4 DEF MsgOK
  <1>6. msg' \in [Msgs -> Message]
    BY <1>2 DEF Marked
  <1> QED
    BY <1>2, <1>5, <1>6

LEMMA MarkAsReadStep ==
    ASSUME IInv, NEW u \in Users, MarkAsRead(u)
    PROVE  IInv'
  <1>1. /\ read[u] = "idle" /\ read' = [read EXCEPT ![u] = "marked"]
        /\ msg' = Marked(u)
        /\ UNCHANGED <<exists, unread, hidden, last, start, send, misled>>
        /\ calm' => calm /\ Quiet
    BY DEF MarkAsRead
  <1>2. TypeOK /\ MsgOK
    BY DEF IInv
  <1>3. \A m \in Msgs :
           /\ msg'[m].sender = msg[m].sender /\ msg'[m].deleted = msg[m].deleted
           /\ m \in Unread(u) => msg'[m].status = "read" /\ msg[m].status = "sent"
           /\ m \notin Unread(u) => msg'[m].status = msg[m].status
    BY <1>1, <1>2, Marking
  <1>4. TypeOK'
    <2>1. msg' \in [Msgs -> Message]
      BY <1>1, <1>2, Marking
    <2>2. calm' \in BOOLEAN
      BY <1>2 DEF MarkAsRead, TypeOK, Quiet
    <2> QED
      BY <1>1, <1>2, <2>1, <2>2 DEF TypeOK
  <1>5. MsgOK'
    BY <1>1, <1>2, Marking
  <1>6. ASSUME calm' PROVE SerialOK' /\ HandsOff' /\ CoverOK' /\ ReasonOK'
    <2>1. /\ CoverOK /\ ReasonOK
          /\ \A m \in Msgs : ~Sending(m) /\ ~Sending(m)'
          /\ \A v \in Users : read[v] = "idle"
      BY <1>1, <1>6 DEF IInv, Quiet, Sending
    <2>2. read'[u] = "marked" /\ \A v \in Users \ {u} : read'[v] = "idle"
      BY <1>1, <1>2, <2>1 DEF TypeOK
    <2>3. Unread(u)' = {}
      BY <1>3 DEF Unread
    <2>4. SerialOK' /\ HandsOff'
      BY <2>1, <2>2, <2>3 DEF SerialOK, HandsOff
    <2>5. ASSUME NEW v \in Users, v # u
          PROVE  /\ Unread(v)' = Unread(v)
                 /\ Reason(v) => Reason(v)'
      <3>1. \A m \in Msgs : msg[m].status = "sent" /\ msg[m].sender # v => m \notin Unread(u)
        <4>1. \A m \in Msgs : msg[m].status = "sent" => msg[m].sender \in Users
          BY <1>2 DEF MsgOK, Exists
        <4> QED
          BY <2>5, <4>1, OtherUser DEF Unread
      <3>2. \A m \in Msgs : msg[m].status = "sent" /\ msg[m].sender # v
                              => msg'[m].status = "sent"
        BY <1>3, <3>1
      <3>3. Unread(v)' = Unread(v)
        BY <1>3, <3>2 DEF Unread
      <3>4. Reason(v) => Reason(v)'
        BY <1>3, <3>2, OtherUser DEF Reason
      <3> QED
        BY <3>3, <3>4
    <2>6. CoverOK'
      <3> SUFFICES ASSUME NEW v \in Users
                   PROVE  unread'[v] + Lag(v)' >= Cardinality(Unread(v)')
        BY DEF CoverOK
      <3>1. Lag(v) = 0 /\ Lag(v)' = 0
        BY <2>1 DEF Lag, Lagging, Sending
      <3>2. unread'[v] \in Nat /\ unread'[v] = unread[v]
        BY <1>1, <1>2 DEF TypeOK
      <3>3. CASE v = u
        BY <2>3, <3>1, <3>2, <3>3, FS_EmptySet
      <3>4. CASE v # u
        BY <2>1, <2>5, <3>1, <3>2, <3>4 DEF CoverOK
      <3> QED
        BY <3>3, <3>4
    <2>7. ReasonOK'
      BY <1>1, <2>1, <2>2, <2>5 DEF ReasonOK
    <2> QED
      BY <2>4, <2>6, <2>7
  <1> QED
    BY <1>4, <1>5, <1>6 DEF IInv

\* An outsider leaves nothing unread; whoever lost a message that way is misled, and
\* to everybody else nothing happens.
LEMMA OutsiderStep ==
    ASSUME IInv, OutsiderMarksAsRead
    PROVE  IInv'
  <1>1. /\ msg' = Marked(None)
        /\ misled' = misled \cup {u \in Users : Unread(u) # {}}
        /\ UNCHANGED <<exists, unread, hidden, last, start, send, read>>
        /\ calm' => calm /\ Quiet
    BY DEF OutsiderMarksAsRead
  <1>2. TypeOK /\ MsgOK
    BY DEF IInv
  <1>3. \A m \in Msgs :
           /\ msg'[m].sender = msg[m].sender /\ msg'[m].deleted = msg[m].deleted
           /\ m \in Unread(None) => msg'[m].status = "read" /\ msg[m].status = "sent"
           /\ m \notin Unread(None) => msg'[m].status = msg[m].status
    BY <1>1, <1>2, Marking
  <1>4. TypeOK'
    <2>1. msg' \in [Msgs -> Message]
      BY <1>1, <1>2, Marking
    <2>2. calm' \in BOOLEAN
      BY <1>2 DEF OutsiderMarksAsRead, TypeOK, Quiet
    <2> QED
      BY <1>1, <1>2, <2>1, <2>2 DEF TypeOK
  <1>5. MsgOK'
    BY <1>1, <1>2, Marking
  <1>6. ASSUME calm' PROVE SerialOK' /\ HandsOff' /\ CoverOK' /\ ReasonOK'
    <2>1. /\ CoverOK /\ ReasonOK
          /\ \A m \in Msgs : ~Sending(m) /\ ~Sending(m)'
          /\ \A v \in Users : read[v] = "idle" /\ read'[v] = "idle"
      BY <1>1, <1>6 DEF IInv, Quiet, Sending
    <2>2. SerialOK' /\ HandsOff'
      BY <2>1 DEF SerialOK, HandsOff
    <2>3. \A v \in Users : Unread(v)' = {}
      BY <1>3, NoneAssumption, <1>2 DEF Unread, MsgOK, Exists
    <2>4. CoverOK'
      <3> SUFFICES ASSUME NEW v \in Users
                   PROVE  unread'[v] + Lag(v)' >= Cardinality(Unread(v)')
        BY DEF CoverOK
      <3>1. Lag(v)' = 0
        BY <2>1 DEF Lag, Lagging, Sending
      <3>2. unread'[v] \in Nat
        BY <1>1, <1>2 DEF TypeOK
      <3> QED
        BY <2>3, <3>1, <3>2, FS_EmptySet
    <2>5. ReasonOK'
      <3> SUFFICES ASSUME NEW v \in Users \ misled', unread'[v] > 0
                   PROVE  Reason(v)'
        BY DEF ReasonOK
      <3>1. v \in Users \ misled /\ Unread(v) = {} /\ Reason(v)
        BY <1>1, <2>1 DEF ReasonOK
      <3>2. PICK m \in Msgs : msg[m].sender = Other(v) /\ msg[m].status = "sent"
        BY <3>1 DEF Reason
      <3>3. msg[m].deleted
        BY <3>1, <3>2, OtherUser DEF Unread
      <3>4. m \notin Unread(None)
        BY <3>3 DEF Unread
      <3> QED
        BY <1>3, <3>2, <3>4 DEF Reason
    <2> QED
      BY <2>2, <2>4, <2>5
  <1> QED
    BY <1>4, <1>5, <1>6 DEF IInv

LEMMA ResetUnreadStep ==
    ASSUME IInv, NEW u \in Users, ResetUnread(u)
    PROVE  IInv'
  <1>1. /\ read[u] # "idle" /\ read' \in [Users -> {"idle", "marked", "reset"}]
        /\ \A v \in Users \ {u} : read'[v] = read[v]
        /\ unread' = [unread EXCEPT ![u] = 0] /\ misled' = misled \ {u}
        /\ UNCHANGED <<exists, hidden, last, msg, start, send, calm>>
    BY DEF IInv, TypeOK, ResetUnread
  <1>2. TypeOK /\ MsgOK
    BY DEF IInv
  <1>3. unread'[u] = 0 /\ \A v \in Users \ {u} : unread'[v] = unread[v]
    BY <1>1, <1>2 DEF TypeOK
  <1>4. TypeOK'
    BY <1>1, <1>2 DEF TypeOK
  <1>5. MsgOK'
    BY <1>1, <1>2 DEF MsgOK, Exists
  <1>6. ASSUME calm' PROVE SerialOK' /\ HandsOff' /\ CoverOK' /\ ReasonOK'
    <2>1. SerialOK /\ HandsOff /\ CoverOK /\ ReasonOK
      BY <1>1, <1>6 DEF IInv
    <2>2. \A v : Unread(v)' = Unread(v) /\ Lag(v)' = Lag(v) /\ (Reason(v) => Reason(v)')
      BY <1>1 DEF Unread, Lag, Lagging, Reason
    <2>3. \A v \in Users : read'[v] # "idle" => read[v] # "idle"
      BY <1>1
    <2>4. SerialOK' /\ HandsOff'
      BY <1>1, <2>1, <2>2, <2>3 DEF SerialOK, HandsOff, Sending
    <2>5. Unread(u)' = {} /\ Cardinality(Unread(u)') = 0
      BY <1>1, <2>1, <2>2, FS_EmptySet DEF HandsOff
    <2>6. CoverOK'
      <3> SUFFICES ASSUME NEW v \in Users
                   PROVE  unread'[v] + Lag(v)' >= Cardinality(Unread(v)')
        BY DEF CoverOK
      <3>1. CASE v = u
        <4>1. unread'[v] = 0 /\ Lag(v)' \in Nat /\ Cardinality(Unread(v)') = 0
          BY <1>3, <2>2, <2>5, <3>1, LagType
        <4> QED
          BY <4>1
      <3>2. CASE v # u
        BY <1>3, <2>1, <2>2, <3>2 DEF CoverOK
      <3> QED
        BY <3>1, <3>2
    <2>7. ReasonOK'
      BY <1>1, <1>3, <2>1, <2>2 DEF ReasonOK
    <2> QED
      BY <2>4, <2>6, <2>7
  <1> QED
    BY <1>4, <1>5, <1>6 DEF IInv

LEMMA ReadFailsStep ==
    ASSUME IInv, NEW u \in Users, ReadFails(u)
    PROVE  IInv'
  BY DEF IInv, TypeOK, MsgOK, Exists, ReadFails

LEMMA DeleteMessageStep ==
    ASSUME IInv, NEW m \in Msgs, DeleteMessage(m)
    PROVE  IInv'
  <1>1. /\ msg' = [msg EXCEPT ![m].deleted = TRUE]
        /\ UNCHANGED <<exists, unread, hidden, last, start, send, read, misled>>
        /\ calm' => calm /\ Quiet
    BY DEF DeleteMessage
  <1>2. TypeOK /\ MsgOK
    BY DEF IInv
  <1>3. \A n \in Msgs :
           /\ msg'[n] \in Message
           /\ msg'[n].sender = msg[n].sender /\ msg'[n].status = msg[n].status
           /\ ~msg'[n].deleted => ~msg[n].deleted
    BY <1>1, <1>2 DEF TypeOK, Message
  <1>4. TypeOK'
    <2>1. msg' \in [Msgs -> Message]
      BY <1>1, <1>2, <1>3 DEF TypeOK
    <2>2. calm' \in BOOLEAN
      BY <1>2 DEF DeleteMessage, TypeOK, Quiet
    <2> QED
      BY <1>1, <1>2, <2>1, <2>2 DEF TypeOK
  <1>5. MsgOK'
    <2>1. \A n \in Msgs : Exists(n)' <=> Exists(n)
      BY <1>3 DEF Exists
    <2>2. {n \in Msgs : Exists(n)}' = {n \in Msgs : Exists(n)}
      BY <2>1
    <2> QED
      BY <1>1, <1>2, <1>3, <2>1, <2>2 DEF MsgOK
  <1>6. ASSUME calm' PROVE SerialOK' /\ HandsOff' /\ CoverOK' /\ ReasonOK'
    <2>1. /\ SerialOK /\ CoverOK /\ ReasonOK
          /\ \A n \in Msgs : ~Sending(n) /\ ~Sending(n)'
          /\ \A v \in Users : read[v] = "idle" /\ read'[v] = "idle"
      BY <1>1, <1>6 DEF IInv, Quiet, Sending
    <2>2. SerialOK' /\ HandsOff'
      BY <2>1 DEF SerialOK, HandsOff
    <2>3. CoverOK'
      <3> SUFFICES ASSUME NEW v \in Users
                   PROVE  unread'[v] + Lag(v)' >= Cardinality(Unread(v)')
        BY DEF CoverOK
      <3>1. Lag(v)' = Lag(v) /\ Lag(v) = 0 /\ unread'[v] = unread[v] /\ unread[v] \in Nat
        BY <1>1, <1>2, <2>1 DEF Lag, Lagging, Sending, TypeOK
      <3>2. Unread(v)' \subseteq Unread(v)
        BY <1>3 DEF Unread
      <3>3. IsFiniteSet(Unread(v)) /\ Cardinality(Unread(v)) \in Nat
        BY <1>2, UnreadFinite
      <3>4. /\ Cardinality(Unread(v)') <= Cardinality(Unread(v))
            /\ Cardinality(Unread(v)') \in Nat
        BY <3>2, <3>3, FS_Subset, FS_CardinalityType
      <3> QED
        BY <2>1, <3>1, <3>3, <3>4 DEF CoverOK
    <2>4. ReasonOK'
      <3>1. \A v : Reason(v) => Reason(v)'
        BY <1>3 DEF Reason
      <3> QED
        BY <1>1, <2>1, <3>1 DEF ReasonOK
    <2> QED
      BY <2>2, <2>3, <2>4
  <1> QED
    BY <1>4, <1>5, <1>6 DEF IInv

-----------------------------------------------------------------------------

LEMMA IInit == Init => IInv
  <1> SUFFICES ASSUME Init PROVE IInv
    OBVIOUS
  <1>1. TypeOK
    BY DEF Init, TypeOK, Message
  <1>2. \A m \in Msgs : send[m] = "none" /\ msg[m].status = "absent" /\ ~Exists(m)
    BY DEF Init, Exists
  <1>3. MsgOK
    <2>1. {m \in Msgs : Exists(m)} = {}
      BY <1>2
    <2> QED
      BY <1>2, <2>1, FS_EmptySet DEF MsgOK
  <1>4. \A u \in Users : read[u] = "idle" /\ unread[u] = 0 /\ Unread(u) = {}
    BY <1>2 DEF Init, Unread
  <1>5. SerialOK /\ HandsOff /\ ReasonOK
    BY <1>2, <1>4 DEF SerialOK, HandsOff, ReasonOK, Sending
  <1>6. CoverOK
    BY <1>4, LagType, FS_EmptySet DEF CoverOK
  <1> QED
    BY <1>1, <1>3, <1>5, <1>6 DEF IInv

LEMMA INext == IInv /\ [Next]_vars => IInv'
  <1> SUFFICES ASSUME IInv, [Next]_vars PROVE IInv'
    OBVIOUS
  <1>1. CASE UNCHANGED vars
    <2>1. TypeOK'
      BY <1>1 DEF IInv, TypeOK, vars
    <2> QED
      BY <1>1, <2>1, Elsewhere DEF vars
  <1>2. ASSUME NEW u \in Users,
               StartFinds(u) \/ StartMisses(u) \/ StartInserts(u) \/ SoftDeleteFor(u)
        PROVE  IInv'
    BY <1>2, StartStep
  <1>3. ASSUME NEW u \in Users, \/ \E m \in Msgs : SendMessage(m, u)
                                \/ MarkAsRead(u) \/ ResetUnread(u) \/ ReadFails(u)
        PROVE  IInv'
    BY <1>3, SendMessageStep, MarkAsReadStep, ResetUnreadStep, ReadFailsStep
  <1>4. ASSUME NEW m \in Msgs, \/ UpdateLastMessage(m) \/ IncrementUnread(m)
                               \/ SendFails(m) \/ DeleteMessage(m)
        PROVE  IInv'
    BY <1>4, UpdateLastMessageStep, IncrementUnreadStep, SendFailsStep, DeleteMessageStep
  <1> QED
    BY <1>1, <1>2, <1>3, <1>4, OutsiderStep DEF Next, UserStep, MessageStep

\* The counters follow the messages at every step of a request.
THEOREM Invariance == Spec => []IInv
  BY IInit, INext, PTL DEF Spec

\* Rows, counters and requests keep their types.
THEOREM TypeCorrect == Spec => []TypeOK
  <1>1. IInv => TypeOK
    BY DEF IInv
  <1> QED
    BY <1>1, Invariance, PTL

\* As long as requests neither overlap nor fail, the badge never hides a message,
\* however many are sent, read and deleted.
THEOREM BadgeAlwaysCovers == Spec => []BadgeCoversUnread
  <1>1. IInv => BadgeCoversUnread
    <2> SUFFICES ASSUME IInv, calm, Quiet, NEW u \in Users
                 PROVE  unread[u] >= Cardinality(Unread(u))
      BY DEF BadgeCoversUnread
    <2>1. unread[u] + Lag(u) >= Cardinality(Unread(u)) /\ unread[u] \in Nat
      BY DEF IInv, CoverOK, TypeOK
    <2>2. Lag(u) = 0
      BY DEF Quiet, Lag, Lagging
    <2> QED
      BY <2>1, <2>2
  <1> QED
    BY <1>1, Invariance, PTL

\* ... and never shows without a message that was not read, but to a user whose
\* messages an outsider's call has marked, and not after that user's next reading.
THEOREM BadgeAlwaysHasReason == Spec => []BadgeHasReason
  <1>1. IInv => BadgeHasReason
    BY DEF IInv, BadgeHasReason, ReasonOK, Reason, Quiet
  <1> QED
    BY <1>1, Invariance, PTL
=============================================================================
