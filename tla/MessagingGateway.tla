-------------------------- MODULE MessagingGateway --------------------------
(***************************************************************************)
(* MessagingGateway: the sockets of the messaging namespace, the rooms     *)
(* they are in, and who is online.  Its handlers of connections run in one *)
(* go: verifying a token takes only microtasks, which no socket event      *)
(* comes between.  A socket id is never used again.  The other map of the  *)
(* gateway, userConversations, is written and never read: left out.        *)
(***************************************************************************)
CONSTANTS
    Users, Conversations,
    Sockets,         \* bound: connections ever made to the messaging namespace
    Null             \* no user, no conversation, no entry, no row

VARIABLES
    client,        \* socket -> the user authenticated on it while connected
    gone,          \* sockets that have disconnected
    rooms,         \* socket.io: the conversations a socket is in the room of
    onlineUsers,   \* user -> socket ids; Null: no such key
    presence       \* user -> whether the last event about it was user:online

gvars == <<client, gone, rooms, onlineUsers, presence>>

Connected == {s \in Sockets : client[s] # Null}
SocketsOf(u) == {s \in Sockets : client[s] = u}

GatewayInit ==
    /\ client = [s \in Sockets |-> Null]
    /\ gone = {}
    /\ rooms = [s \in Sockets |-> {}]
    /\ onlineUsers = [u \in Users |-> Null]
    /\ presence = [u \in Users |-> FALSE]

HandleConnection(s, u) ==
    /\ s \notin Connected \cup gone
    /\ client' = [client EXCEPT ![s] = u]
    /\ onlineUsers' = [onlineUsers EXCEPT ![u] = IF @ = Null THEN {s} ELSE @ \cup {s}]
    /\ presence' = [presence EXCEPT ![u] = TRUE]
    /\ UNCHANGED <<gone, rooms>>

\* Mutant: the user goes offline with the first of its devices.
ForgetsOtherDevices(s) ==
    /\ s \in Connected
    /\ client' = [client EXCEPT ![s] = Null]
    /\ gone' = gone \cup {s}
    /\ rooms' = [rooms EXCEPT ![s] = {}]
    /\ onlineUsers' = [onlineUsers EXCEPT ![client[s]] = Null]
    /\ presence' = [presence EXCEPT ![client[s]] = FALSE]

\* socket.io has emptied its rooms before the handler runs.
HandleDisconnect(s) ==
    LET u == client[s]
        left == onlineUsers[u] \ {s}
    IN  /\ s \in Connected
        /\ client' = [client EXCEPT ![s] = Null]
        /\ gone' = gone \cup {s}
        /\ rooms' = [rooms EXCEPT ![s] = {}]
        /\ IF onlineUsers[u] = Null
           THEN UNCHANGED <<onlineUsers, presence>>
           ELSE /\ onlineUsers' = [onlineUsers EXCEPT ![u] = IF left = {} THEN Null ELSE left]
                /\ presence' = [presence EXCEPT ![u] = left # {}]

\* The end of handleJoinConversation.  socket.join does not ask whether the
\* socket is still connected.
EnterRoom(s, c) ==
    /\ rooms' = [rooms EXCEPT ![s] = @ \cup {c}]
    /\ UNCHANGED <<client, gone, onlineUsers, presence>>

HandleLeaveConversation(s, c) ==
    /\ s \in Connected
    /\ rooms' = [rooms EXCEPT ![s] = @ \ {c}]
    /\ UNCHANGED <<client, gone, onlineUsers, presence>>

\* Whom an event to the room of a conversation reaches.
Hearers(c) == {client[s] : s \in {s \in Connected : c \in rooms[s]}}

\* The maps and the connections are the process's own.
GatewayStops ==
    /\ client' = [s \in Sockets |-> Null]
    /\ gone' = gone \cup Connected
    /\ rooms' = [s \in Sockets |-> {}]
    /\ onlineUsers' = [u \in Users |-> Null]
    /\ presence' = [u \in Users |-> FALSE]
=============================================================================
