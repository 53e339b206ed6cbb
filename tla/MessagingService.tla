-------------------------- MODULE MessagingService --------------------------
(***************************************************************************)
(* MessagingService and the handlers that call it, over REST or a socket:  *)
(* conversations between two users, the messages in them, read marks, soft *)
(* deletion, and the push to who is not connected.  Unlike bookings, rows  *)
(* are changed by an UPDATE of single columns.  Reports of conversations   *)
(* are left out, and so are times: no handler decides on either.           *)
(***************************************************************************)
EXTENDS MessagingGateway

CONSTANTS
    Messages,        \* bound: rows of messages
    ActiveRoles,     \* bound: the roles users act in
    Contexts,        \* bound: the contexts conversations are opened in
    Statuses,        \* bound: the statuses updateConversation is asked for
    Joinable,        \* bound: the conversations whose rooms are joined
    Watchers,        \* bound: users who connect to the notifications namespace
    Suspendable,     \* bound: users whom the administrators suspend
    Tasks,           \* bound: requests in flight at a time
    Faults           \* whether calls may fail and the process may stop

NoRole == ""         \* NULL in a participant, undefined in a user
Roles == {"buyer", "auto dealer", "service provider", "driver", "driver employer"}
ConversationStatus == {"active", "archived", "blocked"}
ContextTypes == {"product_inquiry", "booking", "driver_job", "general"}

Member == [user : Users, role : Roles \cup {NoRole}]
Message == [conversation : Conversations, sender : Users]
Delivery == [message : Messages, to : Users]

VARIABLES
    status,       \* table conversations; Null: no such row
    members,      \* table conversation_participants, by conversation
    message,      \* table messages: the columns that never change; Null: no such row
    is_read,      \* messages whose is_read is set
    deleted,      \* messages whose deleted_at is set
    suspended,    \* users who are soft-deleted
    watching,     \* users with a socket on the notifications namespace
    task,         \* each request in flight
    pushed,       \* what the subscriber passed to pushToUser
    skipped,      \* history: what it did not, the recipient being online
    heard,        \* history: who received a message live
    interrupted,  \* history: messages whose announcement an error or a stop cut off
    seen          \* history: the conversations with participants when the creator of
                  \* one looked for an earlier one

svars == <<status, members, message, is_read, deleted, suspended>>
history == <<pushed, skipped, heard, interrupted, seen>>
vars == <<gvars, svars, watching, task, history>>

TaskPcs == {"idle", "creating", "adding", "sending", "announcing", "marking",
            "updating", "deleting", "joining"}
Task == [pc : TaskPcs, user : Users \cup {Null}, socket : Sockets \cup {Null},
         conversation : Conversations \cup {Null}, message : Messages \cup {Null},
         members : SUBSET Member, seen : SUBSET Conversations, status : ConversationStatus]
IdleTask == [pc |-> "idle", user |-> Null, socket |-> Null, conversation |-> Null,
             message |-> Null, members |-> {}, seen |-> {}, status |-> "active"]

ASSUME MessagingAssumption ==
    /\ Null \notin Users \cup Conversations \cup Messages \cup Sockets
    /\ Null \notin ConversationStatus
    /\ Null \notin Message
    /\ \A ids \in SUBSET Sockets : Null # ids
    /\ ActiveRoles \subseteq Roles \cup {NoRole}
    /\ Contexts \subseteq ContextTypes
    /\ Statuses \subseteq ConversationStatus
    /\ Joinable \subseteq Conversations
    /\ Watchers \subseteq Users
    /\ Suspendable \subseteq Users
    /\ Faults \in BOOLEAN

At(t, pc) == task[t].pc = pc
Begins(t) == At(t, "idle")
Awaits(t, local) == task' = [task EXCEPT ![t] = local]
Goto(t, pc) == Awaits(t, [task[t] EXCEPT !.pc = pc])
Returns(t) == Awaits(t, IdleTask)

Opened == {c \in Conversations : status[c] # Null}
Sent == {m \in Messages : message[m] # Null}
UsersIn(c) == {member.user : member \in members[c]}

\* A request comes over REST, or over a socket authenticated as its user.
Ways(u) == {Null} \cup SocketsOf(u)

ServiceInit ==
    /\ status = [c \in Conversations |-> Null]
    /\ members = [c \in Conversations |-> {}]
    /\ message = [m \in Messages |-> Null]
    /\ is_read = {}
    /\ deleted = {}
    /\ suspended = {}
    /\ watching = {}
    /\ task = [t \in Tasks |-> IdleTask]
    /\ pushed = {}
    /\ skipped = {}
    /\ heard = {}
    /\ interrupted = {}
    /\ seen = [c \in Conversations |-> {}]

Init == GatewayInit /\ ServiceInit

\* What a handler leaves alone between its start and its first write.
OnlyTask == UNCHANGED <<gvars, svars, watching, history>>

-----------------------------------------------------------------------------
(* createConversation *)

RolePairs == {<<"product_inquiry", "buyer", "auto dealer">>,
              <<"booking", "buyer", "service provider">>,
              <<"driver_job", "driver", "driver employer">>}

Counterparts(context, role) ==
    {other \in Roles : <<context, role, other>> \in RolePairs
                       \/ <<context, other, role>> \in RolePairs}

\* The roles of the creator and of the other side.
ParticipantRolesForContext(context, role) ==
    IF Counterparts(context, role) = {}
    THEN {<<NoRole, NoRole>>}
    ELSE {<<role, other>> : other \in Counterparts(context, role)}

Joined == {c \in Conversations : members[c] # {}}
Between(u, other) == {c \in Opened : {u, other} \subseteq UsersIn(c)}

Creates(t, u, other, context, role) ==
    \E roles \in ParticipantRolesForContext(context, role) :
        Awaits(t, [IdleTask EXCEPT !.pc = "creating", !.user = u, !.seen = Joined,
            !.members = {[user |-> u, role |-> roles[1]], [user |-> other, role |-> roles[2]]}])

\* Mutant: an existing conversation is not looked for.
OpensAnother(t, u, other, context, role) ==
    /\ Begins(t)
    /\ u # other
    /\ Creates(t, u, other, context, role)
    /\ OnlyTask

\* If there is a conversation between the two already, it is returned.
CreateConversation(t, u, other, context, role) ==
    /\ Begins(t)
    /\ u # other
    /\ Between(u, other) = {}
    /\ Creates(t, u, other, context, role)
    /\ OnlyTask

SaveConversation(t) ==
    /\ At(t, "creating")
    /\ \E c \in Conversations \ Opened :
          /\ status' = [status EXCEPT ![c] = "active"]
          /\ Awaits(t, [task[t] EXCEPT !.pc = "adding", !.conversation = c])
    /\ UNCHANGED <<gvars, members, message, is_read, deleted, suspended, watching, history>>

\* Both rows in one transaction.
SaveParticipants(t) ==
    /\ At(t, "adding")
    /\ members' = [members EXCEPT ![task[t].conversation] = task[t].members]
    /\ seen' = [seen EXCEPT ![task[t].conversation] = task[t].seen]
    /\ Returns(t)
    /\ UNCHANGED <<gvars, status, message, is_read, deleted, suspended, watching,
                   pushed, skipped, heard, interrupted>>

-----------------------------------------------------------------------------
(* sendMessage, message:send, and the subscriber of MESSAGE_SENT *)

SendMessage(t, u, c, via) ==
    /\ Begins(t)
    /\ c \in Opened
    /\ u \in UsersIn(c)
    /\ Awaits(t, [IdleTask EXCEPT !.pc = "sending", !.user = u, !.conversation = c,
                                  !.socket = via])
    /\ OnlyTask

SaveMessage(t) ==
    /\ At(t, "sending")
    /\ \E m \in Messages \ Sent :
          /\ message' = [message EXCEPT ![m] =
                [conversation |-> task[t].conversation, sender |-> task[t].user]]
          /\ Awaits(t, [task[t] EXCEPT !.pc = "announcing", !.message = m])
    /\ UNCHANGED <<gvars, status, members, is_read, deleted, suspended, watching, history>>

Recipients(m) == UsersIn(message[m].conversation) \ {message[m].sender}
Addressed(m, users) == {[message |-> m, to |-> u] : u \in users}

\* Mutant: only a message sent over a socket is pushed.
PushesLiveOnly(t) ==
    LET m == task[t].message
    IN  /\ At(t, "announcing")
        /\ IF task[t].socket = Null
           THEN UNCHANGED <<pushed, skipped, heard>>
           ELSE /\ pushed' = pushed \cup Addressed(m, Recipients(m) \ watching)
                /\ skipped' = skipped \cup Addressed(m, Recipients(m) \cap watching)
                /\ heard' = heard \cup Addressed(m, Hearers(task[t].conversation))
        /\ Returns(t)
        /\ UNCHANGED <<gvars, svars, watching, interrupted, seen>>

\* The message is read again and emitted as it is; a recipient connected to the
\* notifications namespace is not pushed to; the room hears what came by a socket.
AnnounceMessage(t) ==
    LET m == task[t].message
    IN  /\ At(t, "announcing")
        /\ pushed' = pushed \cup Addressed(m, Recipients(m) \ watching)
        /\ skipped' = skipped \cup Addressed(m, Recipients(m) \cap watching)
        /\ heard' = IF task[t].socket = Null THEN heard
                    ELSE heard \cup Addressed(m, Hearers(task[t].conversation))
        /\ Returns(t)
        /\ UNCHANGED <<gvars, svars, watching, interrupted, seen>>

-----------------------------------------------------------------------------
(* markMessageAsRead: any participant, its sender too *)

MarkMessageAsRead(t, u, m) ==
    /\ Begins(t)
    /\ m \in Sent
    /\ u \in UsersIn(message[m].conversation)
    /\ Awaits(t, [IdleTask EXCEPT !.pc = "marking", !.user = u, !.message = m])
    /\ OnlyTask

\* Mutant: the entity that was read is saved whole.
SavesWholeMessage(t) ==
    /\ At(t, "marking")
    /\ is_read' = is_read \cup {task[t].message}
    /\ deleted' = deleted \ {task[t].message}
    /\ Returns(t)
    /\ UNCHANGED <<gvars, status, members, message, suspended, watching, history>>

SaveRead(t) ==
    /\ At(t, "marking")
    /\ is_read' = is_read \cup {task[t].message}
    /\ Returns(t)
    /\ UNCHANGED <<gvars, status, members, message, deleted, suspended, watching, history>>

-----------------------------------------------------------------------------
(* updateConversation and deleteConversation *)

UpdateConversation(t, u, c, new) ==
    /\ Begins(t)
    /\ c \in Opened
    /\ u \in UsersIn(c)
    /\ Awaits(t, [IdleTask EXCEPT !.pc = "updating", !.user = u, !.conversation = c,
                                  !.status = new])
    /\ OnlyTask

DeleteConversation(t, u, c) == UpdateConversation(t, u, c, "archived")

SaveStatus(t) ==
    /\ At(t, "updating")
    /\ status' = [status EXCEPT ![task[t].conversation] = task[t].status]
    /\ Returns(t)
    /\ UNCHANGED <<gvars, members, message, is_read, deleted, suspended, watching, history>>

-----------------------------------------------------------------------------
(* deleteMessage: what it returns and emits is cleared. *)

DeleteMessage(t, u, m) ==
    /\ Begins(t)
    /\ m \in Sent \ deleted
    /\ message[m].sender = u
    /\ Awaits(t, [IdleTask EXCEPT !.pc = "deleting", !.user = u, !.message = m])
    /\ OnlyTask

SaveDeletion(t) ==
    /\ At(t, "deleting")
    /\ deleted' = deleted \cup {task[t].message}
    /\ Returns(t)
    /\ UNCHANGED <<gvars, status, members, message, is_read, suspended, watching, history>>

-----------------------------------------------------------------------------
(* conversation:join and the notifications namespace *)

\* Mutant: whoever knows the id may join.
JoinsAny(t, u, c, s) ==
    /\ Begins(t)
    /\ s \in SocketsOf(u)
    /\ c \in Opened
    /\ Awaits(t, [IdleTask EXCEPT !.pc = "joining", !.user = u, !.conversation = c,
                                  !.socket = s])
    /\ OnlyTask

HandleJoinConversation(t, u, c, s) ==
    /\ Begins(t)
    /\ s \in SocketsOf(u)
    /\ c \in Opened
    /\ u \in UsersIn(c)
    /\ Awaits(t, [IdleTask EXCEPT !.pc = "joining", !.user = u, !.conversation = c,
                                  !.socket = s])
    /\ OnlyTask

JoinEnds(t) ==
    /\ At(t, "joining")
    /\ EnterRoom(task[t].socket, task[t].conversation)
    /\ Returns(t)
    /\ UNCHANGED <<svars, watching, history>>

\* NotificationsGateway: a user's first socket connects, or its last one closes.
Watch(u) ==
    /\ watching' = IF u \in watching THEN watching \ {u} ELSE watching \cup {u}
    /\ UNCHANGED <<gvars, svars, task, history>>

\* AdminUsersService: a suspended user keeps tokens, sockets and rows.
Suspend(u) ==
    /\ suspended' = suspended \cup {u}
    /\ UNCHANGED <<gvars, status, members, message, is_read, deleted, watching, task, history>>

Reactivate(u) ==
    /\ suspended' = suspended \ {u}
    /\ UNCHANGED <<gvars, status, members, message, is_read, deleted, watching, task, history>>

-----------------------------------------------------------------------------
(* getUserConversations and getUnreadCount: what a user acting in a role sees *)

Inbox(u, role) ==
    {c \in Opened : \E member \in members[c] : member.user = u /\ member.role \in {role, NoRole}}

MessagesIn(c) == {m \in Sent : message[m].conversation = c}

\* The join with users leaves a suspended receiver out.
Receiver(c, u) == (UsersIn(c) \ {u}) \ suspended

\* The unread_count of a conversation in the inbox: what its receiver sent.  The
\* id of a null receiver is undefined, and TypeORM drops such a condition.
UnreadIn(c, u) ==
    {m \in MessagesIn(c) \ (is_read \cup deleted) :
        Receiver(c, u) # {} => message[m].sender \in Receiver(c, u)}

\* Mutant: the badge is not scoped to the role.
CountsEveryRole(u, role) ==
    {m \in Sent \ (is_read \cup deleted) :
        message[m].sender # u /\ u \in UsersIn(message[m].conversation)}

\* What getUnreadCount counts.
Unread(u, role) ==
    {m \in Sent \ (is_read \cup deleted) :
        message[m].sender # u /\ message[m].conversation \in Inbox(u, role)}

-----------------------------------------------------------------------------
Unannounced(tasks) == {task[t].message : t \in {t \in tasks : At(t, "announcing")}}

\* A query that was awaited fails: the handler is left.
RequestThrows(t) ==
    /\ Faults
    /\ ~At(t, "idle")
    /\ interrupted' = interrupted \cup Unannounced({t})
    /\ Returns(t)
    /\ UNCHANGED <<gvars, svars, watching, pushed, skipped, heard, seen>>

ProcessStops ==
    /\ Faults
    /\ GatewayStops
    /\ watching' = {}
    /\ interrupted' = interrupted \cup Unannounced(Tasks)
    /\ task' = [t \in Tasks |-> IdleTask]
    /\ UNCHANGED <<svars, pushed, skipped, heard, seen>>

SocketEvents ==
    /\ \/ \E s \in Sockets, u \in Users : HandleConnection(s, u)
       \/ \E s \in Sockets : HandleDisconnect(s)
       \/ \E s \in Sockets, c \in Conversations : HandleLeaveConversation(s, c)
    /\ UNCHANGED <<svars, watching, task, history>>

Asks(t, u) ==
    \/ \E other \in Users, context \in Contexts, role \in ActiveRoles :
          CreateConversation(t, u, other, context, role)
    \/ \E c \in Conversations :
          \/ \E via \in Ways(u) : SendMessage(t, u, c, via)
          \/ \E new \in Statuses : UpdateConversation(t, u, c, new)
          \/ DeleteConversation(t, u, c)
          \/ \E s \in Sockets : c \in Joinable /\ HandleJoinConversation(t, u, c, s)
    \/ \E m \in Messages :
          \/ MarkMessageAsRead(t, u, m)
          \/ DeleteMessage(t, u, m)

Advances(t) ==
    \/ SaveConversation(t)
    \/ SaveParticipants(t)
    \/ SaveMessage(t)
    \/ AnnounceMessage(t)
    \/ SaveRead(t)
    \/ SaveStatus(t)
    \/ SaveDeletion(t)
    \/ JoinEnds(t)

Next ==
    \/ \E t \in Tasks : Advances(t) \/ RequestThrows(t) \/ \E u \in Users : Asks(t, u)
    \/ SocketEvents
    \/ \E u \in Watchers : Watch(u)
    \/ \E u \in Suspendable : Suspend(u) \/ Reactivate(u)
    \/ ProcessStops

Spec == Init /\ [][Next]_vars
=============================================================================
