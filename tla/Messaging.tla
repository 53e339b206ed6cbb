----------------------------- MODULE Messaging -----------------------------
(***************************************************************************)
(* The properties of MessagingService and its gateway, whatever overlaps,  *)
(* fails or is suspended, and what a comment promises and the code does    *)
(* not keep.                                                               *)
(***************************************************************************)
EXTENDS MessagingService

\* Type correctness of the tables, the gateway's maps, the requests in flight
\* and the history.
TypeOK ==
    /\ client \in [Sockets -> Users \cup {Null}]
    /\ gone \subseteq Sockets
    /\ rooms \in [Sockets -> SUBSET Conversations]
    /\ onlineUsers \in [Users -> (SUBSET Sockets) \cup {Null}]
    /\ presence \in [Users -> BOOLEAN]
    /\ status \in [Conversations -> ConversationStatus \cup {Null}]
    /\ members \in [Conversations -> SUBSET Member]
    /\ message \in [Messages -> Message \cup {Null}]
    /\ is_read \subseteq Messages
    /\ deleted \subseteq Messages
    /\ suspended \subseteq Users
    /\ watching \subseteq Users
    /\ task \in [Tasks -> Task]
    /\ pushed \subseteq Delivery
    /\ skipped \subseteq Delivery
    /\ heard \subseteq Delivery
    /\ interrupted \subseteq Messages
    /\ seen \in [Conversations -> SUBSET Conversations]

-----------------------------------------------------------------------------

\* users:status, the last user:online or user:offline about a user, and the
\* sockets that are connected agree, however connections come and go.
PresenceIsTrue == \A u \in Users :
    /\ onlineUsers[u] = IF SocketsOf(u) = {} THEN Null ELSE SocketsOf(u)
    /\ presence[u] <=> SocketsOf(u) # {}

\* Only participants of its conversation hear a message live, although a join
\* checks the participant before an await and enters the room after it.
HeardByMembers == \A d \in heard : d.to \in UsersIn(message[d.message].conversation)

Notified(m, u) == [message |-> m, to |-> u] \in pushed \cup skipped

\* Every other participant of a stored message was considered for a push, unless
\* the request is still to do so or was cut off.
SentIsAnnounced == \A m \in Sent :
    \/ \A u \in Recipients(m) : Notified(m, u)
    \/ m \in Unannounced(Tasks)
    \/ m \in interrupted

\* Two users have one conversation, as far as its creator could see: a second one
\* stems from a request that looked before the first had its participants.
NoSecondInSight == \A u, other \in Users, c1, c2 \in Conversations :
    u # other /\ c1 # c2 /\ {c1, c2} \subseteq Between(u, other) => c1 \notin seen[c2]

InInbox(u, role) == UNION {UnreadIn(c, u) : c \in Inbox(u, role)}

\* What a user wrote to a suspended one, who cannot read it.
WrittenToSuspended(u, role) ==
    {m \in InInbox(u, role) :
        /\ message[m].sender = u
        /\ UsersIn(message[m].conversation) \ {u} \subseteq suspended}

\* The badge counts what the scoped inbox shows as unread, and the inbox shows no
\* more than that but what its owner wrote to a suspended user.
BadgeWithinInbox == \A u \in Users, role \in Roles \cup {NoRole} :
    Unread(u, role) = InInbox(u, role) \ WrittenToSuspended(u, role)

\* messaging.service.ts:508: the badge matches the scoped inbox.
BadgeMatchesInbox == \A u \in Users, role \in Roles \cup {NoRole} :
    Unread(u, role) = InInbox(u, role)

\* Messaging as a whole implements PrivateTalk: a conversation gets its two sides once,
\* only they post to it and hear it, whenever they were checked, and marks that race do
\* not undo each other.
Talk == INSTANCE PrivateTalk WITH
    People <- Users, Talks <- Conversations, Unsaid <- Null,
    between <- [c \in Conversations |-> UsersIn(c)], said <- message,
    told <- pushed \cup skipped, marked <- is_read, removed <- deleted

ImplementsPrivateTalk == Talk!Spec

(***************************************************************************)
(* The inductive invariant: a request may rely after its await on what it  *)
(* checked before, because participants and messages are never removed, a  *)
(* conversation gets its participants from the one request that inserted   *)
(* it, and a socket id keeps its user until it is gone for good.           *)
(***************************************************************************)
TwoSides(side) == \E u, other \in Users, r1, r2 \in Roles \cup {NoRole} :
    u # other /\ side = {[user |-> u, role |-> r1], [user |-> other, role |-> r2]}

MembersInv ==
    /\ \A c \in Conversations : members[c] = {} \/ (c \in Opened /\ TwoSides(members[c]))
    /\ \A m \in Sent : message[m].sender \in UsersIn(message[m].conversation)

\* Whom a creation joins had no conversation among those it saw.
UnseenBy(known, side) == \A c \in known : ~({member.user : member \in side} \subseteq UsersIn(c))

SeenInv == \A c \in Conversations : seen[c] \subseteq Joined /\ UnseenBy(seen[c], members[c])

SocketInv ==
    /\ Connected \cap gone = {}
    /\ \A s \in Connected, c \in Conversations : c \in rooms[s] => client[s] \in UsersIn(c)
    /\ \A s \in Sockets : s \notin Connected \cup gone => rooms[s] = {}

\* What a request in flight knows.
Knows(t) ==
    LET local == task[t]
    IN  /\ local.pc \in {"creating", "adding"} =>
              /\ TwoSides(local.members)
              /\ local.seen \subseteq Joined
              /\ UnseenBy(local.seen, local.members)
        /\ local.pc \in {"adding", "sending", "joining", "updating"} =>
              local.conversation \in Opened
        /\ local.pc = "adding" => members[local.conversation] = {}
        /\ local.pc \in {"sending", "joining"} => local.user \in UsersIn(local.conversation)
        /\ local.pc \in {"announcing", "marking", "deleting"} =>
              local.message \in Sent
        /\ local.pc = "announcing" => local.conversation = message[local.message].conversation
        /\ local.pc \in {"sending", "marking"} => local.user \in Users
        /\ local.pc = "joining" =>
              /\ local.socket \in Sockets
              /\ client[local.socket] = local.user \/ local.socket \in gone

TaskInv ==
    /\ \A t \in Tasks : Knows(t)
    /\ \A t1, t2 \in Tasks :
          At(t1, "adding") /\ At(t2, "adding") /\ task[t1].conversation = task[t2].conversation
             => t1 = t2

\* What every reachable state keeps, whatever overlaps or fails.
Inv ==
    /\ TypeOK
    /\ PresenceIsTrue
    /\ MembersInv
    /\ SeenInv
    /\ SocketInv
    /\ TaskInv
    /\ \A d \in heard : d.message \in Sent
    /\ HeardByMembers
    /\ SentIsAnnounced
=============================================================================
