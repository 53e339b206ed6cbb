-------------------------- MODULE MessagingProofs --------------------------
(***************************************************************************)
(* Proofs about Messaging for any users, ids, sockets and requests in      *)
(* flight: the inductive invariant and with it presence, rooms and the     *)
(* announcement of messages, that the badge counts what the inbox shows,   *)
(* that a second conversation of a pair stems from a lookup before the     *)
(* first, and that messaging implements PrivateTalk.                       *)
(***************************************************************************)
EXTENDS Messaging, TLAPS

-----------------------------------------------------------------------------
(* What a step does to a request in flight. *)

LEMMA AwaitsSets ==
    ASSUME TypeOK, NEW t \in Tasks, NEW local \in Task, Awaits(t, local)
    PROVE  /\ task' \in [Tasks -> Task]
           /\ task'[t] = local
           /\ \A other \in Tasks : other # t => task'[other] = task[other]
BY DEF Awaits, TypeOK

LEMMA IdleIsTask == IdleTask \in Task
BY DEF IdleTask, Task, TaskPcs, ConversationStatus

LEMMA GotoIsTask ==
    ASSUME TypeOK, NEW t \in Tasks, NEW pc \in TaskPcs
    PROVE  [task[t] EXCEPT !.pc = pc] \in Task
BY DEF TypeOK, Task

\* Rows, once there, are never taken away; a socket keeps its user until it is gone.
Grows ==
    /\ Opened \subseteq Opened'
    /\ \A c \in Conversations : members[c] # {} => members'[c] = members[c]
    /\ \A m \in Sent : message'[m] = message[m]
    /\ gone \subseteq gone'
    /\ \A s \in Sockets : s \notin gone' /\ client[s] # Null => client'[s] = client[s]

LEMMA StillGrows ==
    ASSUME UNCHANGED <<status, members, message, client, gone>>
    PROVE  Grows
BY DEF Grows, Opened

LEMMA UsersPersist ==
    ASSUME Grows, NEW c \in Conversations, NEW u \in UsersIn(c)
    PROVE  u \in UsersIn(c)'
BY DEF Grows, UsersIn

\* Who had no conversation among those somebody saw will have none among them.
LEMMA UnseenPersists ==
    ASSUME Grows, NEW known, known \subseteq Joined, NEW side, UnseenBy(known, side)
    PROVE  known \subseteq Joined' /\ UnseenBy(known, side)'
BY DEF Grows, Joined, UnseenBy, UsersIn

LEMMA SeenPersists ==
    ASSUME SeenInv, UNCHANGED <<members, seen>>
    PROVE  SeenInv'
BY DEF SeenInv, Joined, UnseenBy, UsersIn

LEMMA KnowsPersists ==
    ASSUME NEW t \in Tasks, TypeOK, Knows(t), Grows, task'[t] = task[t],
           At(t, "adding") => members'[task[t].conversation] = {}
    PROVE  Knows(t)'
<1> DEFINE local == task[t]
<1>1. local \in Task
  BY DEF TypeOK
<1>2. Opened \subseteq Opened'
  BY DEF Grows
<1>3. local.pc \in {"sending", "joining"} => local.user \in UsersIn(local.conversation)'
  BY UsersPersist DEF Knows, Opened
<1>4. local.message \in Sent => local.message \in Sent' /\ message'[local.message] = message[local.message]
  BY DEF Grows, Sent
<1>5. local.pc = "joining" =>
         /\ local.socket \in Sockets
         /\ client'[local.socket] = local.user \/ local.socket \in gone'
  <2>1. SUFFICES ASSUME local.pc = "joining", local.socket \notin gone'
                 PROVE  local.socket \in Sockets /\ client'[local.socket] = local.user
    BY DEF Knows
  <2>2. /\ local.socket \in Sockets
        /\ client[local.socket] = local.user
        /\ local.user \in UsersIn(local.conversation)
        /\ local.conversation \in Conversations
    BY <2>1 DEF Knows, Grows, Opened
  <2>3. local.user # Null
    BY <2>2, MessagingAssumption DEF UsersIn, TypeOK, Member
  <2> QED
    BY <2>1, <2>2, <2>3 DEF Grows
<1>6. local.pc \in {"creating", "adding"} =>
         TwoSides(local.members)' /\ local.seen \subseteq Joined' /\ UnseenBy(local.seen, local.members)'
  <2> PICK side, known : side = task[t].members /\ known = task[t].seen
    OBVIOUS
  <2>1. local.pc \in {"creating", "adding"} =>
           TwoSides(side)' /\ known \subseteq Joined' /\ UnseenBy(known, side)'
    BY UnseenPersists DEF Knows, TwoSides
  <2>2. task'[t].members = side /\ task'[t].seen = known
    OBVIOUS
  <2> QED
    BY <2>1, <2>2 DEF TwoSides, UnseenBy
<1> QED
  BY <1>2, <1>3, <1>4, <1>5, <1>6 DEF Knows, At

LEMMA IdleKnows ==
    ASSUME NEW t \in Tasks, task'[t] = IdleTask
    PROVE  Knows(t)'
BY DEF Knows, IdleTask

\* Whether a step of one request keeps what all of them rely on.
LEMMA TasksPersist ==
    ASSUME TypeOK, TaskInv, Grows, NEW t \in Tasks, Knows(t)',
           \A other \in Tasks \ {t} :
              /\ task'[other] = task[other]
              /\ At(other, "adding") => /\ members'[task[other].conversation] = {}
                                        /\ task'[t].pc = "adding" =>
                                             task'[t].conversation # task[other].conversation
    PROVE  TaskInv'
<1>1. \A other \in Tasks : Knows(other)'
  <2> SUFFICES ASSUME NEW other \in Tasks, other # t PROVE Knows(other)'
    OBVIOUS
  <2> QED
    BY KnowsPersists DEF TaskInv
<1>2. ASSUME NEW t1 \in Tasks, NEW t2 \in Tasks, t1 # t2,
             task'[t1].pc = "adding", task'[t2].pc = "adding",
             task'[t1].conversation = task'[t2].conversation
      PROVE  FALSE
  <2>1. CASE t1 = t
    BY <1>2, <2>1 DEF At
  <2>2. CASE t2 = t
    BY <1>2, <2>2 DEF At
  <2>3. CASE t1 # t /\ t2 # t
    BY <1>2, <2>3 DEF At, TaskInv
  <2> QED
    BY <2>1, <2>2, <2>3
<1> QED
  BY <1>1, <1>2 DEF TaskInv, At

-----------------------------------------------------------------------------
(* What a step does to the other parts of the invariant. *)

\* SentIsAnnounced, for one message.
Covered(m) ==
    \/ \A u \in Recipients(m) : Notified(m, u)
    \/ m \in Unannounced(Tasks)
    \/ m \in interrupted

LEMMA CoveredIsAnnounced == SentIsAnnounced <=> \A m \in Sent : Covered(m)
BY DEF SentIsAnnounced, Covered

LEMMA MembersStay ==
    ASSUME TypeOK, MembersInv, Grows, NEW m \in Sent
    PROVE  /\ m \in Sent'
           /\ message'[m] = message[m]
           /\ message[m].conversation \in Opened
           /\ UsersIn(message[m].conversation)' = UsersIn(message[m].conversation)
           /\ Recipients(m)' = Recipients(m)
<1> DEFINE c == message[m].conversation
<1>1. c \in Conversations /\ message[m] # Null
  BY DEF TypeOK, Sent, Message
<1>2. members[c] # {} /\ c \in Opened
  BY <1>1 DEF MembersInv, UsersIn
<1>3. members'[c] = members[c] /\ message'[m] = message[m]
  BY <1>1, <1>2 DEF Grows
<1>4. m \in Sent'
  BY <1>1, <1>3 DEF Sent
<1> QED
  BY <1>1, <1>2, <1>3, <1>4 DEF UsersIn, Recipients

LEMMA CoveredPersists ==
    ASSUME TypeOK, MembersInv, Grows, NEW m \in Sent, Covered(m),
           pushed \subseteq pushed', skipped \subseteq skipped', interrupted \subseteq interrupted',
           m \in Unannounced(Tasks) => Covered(m)'
    PROVE  Covered(m)'
<1>1. Recipients(m)' = Recipients(m)
  BY MembersStay
<1>2. ASSUME \A u \in Recipients(m) : Notified(m, u)
      PROVE  \A u \in Recipients(m)' : Notified(m, u)'
  BY <1>1, <1>2 DEF Notified
<1>3. CASE \A u \in Recipients(m) : Notified(m, u)
  BY <1>2, <1>3 DEF Covered
<1>4. CASE m \in interrupted
  BY <1>4 DEF Covered
<1> QED
  BY <1>3, <1>4 DEF Covered

LEMMA StillUnannounced ==
    ASSUME NEW m \in Unannounced(Tasks), NEW t, ~At(t, "announcing"),
           \A other \in Tasks \ {t} : task'[other] = task[other]
    PROVE  Covered(m)'
<1> PICK other \in Tasks : At(other, "announcing") /\ task[other].message = m
  BY DEF Unannounced
<1>1. task'[other].pc = "announcing" /\ task'[other].message = m
  BY DEF At
<1> QED
  BY <1>1 DEF Covered, Unannounced, At

LEMMA SocketsPersist ==
    ASSUME SocketInv, Grows, UNCHANGED <<client, gone, rooms>>
    PROVE  SocketInv'
BY UsersPersist DEF SocketInv, Connected

LEMMA HeardPersists ==
    ASSUME TypeOK, MembersInv, Grows, NEW d \in heard,
           \A e \in heard : e.message \in Sent, HeardByMembers
    PROVE  /\ d.message \in Sent'
           /\ d.to \in UsersIn(message[d.message].conversation)'
<1>1. d.message \in Sent /\ d.to \in UsersIn(message[d.message].conversation)
  BY DEF HeardByMembers
<1>2. /\ d.message \in Sent'
      /\ UsersIn(message[d.message].conversation)' = UsersIn(message[d.message].conversation)
  BY <1>1, MembersStay
<1> QED
  BY <1>1, <1>2

LEMMA MembersPersist ==
    ASSUME MembersInv, Opened \subseteq Opened', UNCHANGED <<members, message>>
    PROVE  MembersInv'
BY DEF MembersInv, UsersIn, Sent

LEMMA PresencePersists ==
    ASSUME PresenceIsTrue, UNCHANGED gvars
    PROVE  PresenceIsTrue'
BY DEF PresenceIsTrue, gvars, SocketsOf

-----------------------------------------------------------------------------
(* The steps of MessagingService: they leave the gateway alone. *)

LEMMA ServiceKeeps ==
    ASSUME Inv, TypeOK', Grows, MembersInv', SeenInv', TaskInv', UNCHANGED gvars,
           pushed \subseteq pushed', skipped \subseteq skipped', interrupted \subseteq interrupted',
           \A d \in heard' \ heard :
              d.message \in Sent' /\ d.to \in UsersIn(message[d.message].conversation)',
           \A m \in Unannounced(Tasks) \cup (Sent' \ Sent) : Covered(m)'
    PROVE  Inv'
<1>1. TypeOK /\ MembersInv /\ SocketInv /\ PresenceIsTrue
  BY DEF Inv
<1>2. PresenceIsTrue'
  BY <1>1, PresencePersists
<1>3. SocketInv'
  BY <1>1, SocketsPersist DEF gvars
<1>4. \A d \in heard' :
         d.message \in Sent' /\ d.to \in UsersIn(message[d.message].conversation)'
  <2> SUFFICES ASSUME NEW d \in heard
               PROVE  d.message \in Sent' /\ d.to \in UsersIn(message[d.message].conversation)'
    OBVIOUS
  <2>1. (\A e \in heard : e.message \in Sent) /\ HeardByMembers
    BY DEF Inv
  <2> QED
    BY <1>1, <2>1, HeardPersists
<1>5. \A m \in Sent' : Covered(m)'
  <2> SUFFICES ASSUME NEW m \in Sent' PROVE Covered(m)'
    OBVIOUS
  <2>1. CASE m \notin Sent
    BY <2>1
  <2>2. CASE m \in Sent
    <3>1. Covered(m)
      BY <2>2, CoveredIsAnnounced DEF Inv
    <3> QED
      BY <1>1, <2>2, <3>1, CoveredPersists
  <2> QED
    BY <2>1, <2>2
<1>6. SentIsAnnounced'
  BY <1>5 DEF SentIsAnnounced, Covered
<1>7. HeardByMembers' /\ \A d \in heard' : d.message \in Sent'
  BY <1>4 DEF HeardByMembers
<1> QED
  BY <1>2, <1>3, <1>6, <1>7 DEF Inv

\* A request moves on, and conversations, participants and messages stay.
LEMMA MoveKeeps ==
    ASSUME Inv, NEW t \in Tasks, NEW local \in Task, Awaits(t, local), local.pc # "adding",
           Knows(t)', TypeOK', UNCHANGED <<gvars, members, message, seen>>, Opened' = Opened,
           pushed \subseteq pushed', skipped \subseteq skipped', interrupted \subseteq interrupted',
           \A d \in heard' \ heard :
              d.message \in Sent /\ d.to \in UsersIn(message[d.message].conversation),
           \A m \in Unannounced({t}) : Covered(m)'
    PROVE  Inv'
<1>1. TypeOK /\ MembersInv /\ TaskInv
  BY DEF Inv
<1>2. /\ task'[t] = local
      /\ \A other \in Tasks : other # t => task'[other] = task[other]
  BY <1>1, AwaitsSets
<1>3. Grows
  BY DEF Grows, gvars
<1>4. MembersInv'
  BY <1>1, <1>3, MembersPersist DEF Grows
<1>5. TaskInv'
  <2>1. \A other \in Tasks \ {t} :
           /\ task'[other] = task[other]
           /\ At(other, "adding") => /\ members'[task[other].conversation] = {}
                                     /\ task'[t].pc = "adding" =>
                                          task'[t].conversation # task[other].conversation
    BY <1>1, <1>2 DEF TaskInv, Knows, At
  <2> QED
    BY <1>1, <1>3, <2>1, TasksPersist
<1>6. Sent' = Sent
  BY DEF Sent
<1>7. ASSUME NEW m \in Unannounced(Tasks) PROVE Covered(m)'
  <2>1. CASE At(t, "announcing") /\ task[t].message = m
    BY <2>1 DEF Unannounced
  <2>2. CASE ~(At(t, "announcing") /\ task[t].message = m)
    <3> PICK other \in Tasks \ {t} : At(other, "announcing") /\ task[other].message = m
      BY <1>7, <2>2 DEF Unannounced
    <3> QED
      BY <1>2 DEF Covered, Unannounced, At
  <2> QED
    BY <2>1, <2>2
<1>8. \A d \in heard' \ heard :
         d.message \in Sent' /\ d.to \in UsersIn(message[d.message].conversation)'
  BY <1>6 DEF UsersIn
<1>9. SeenInv'
  BY SeenPersists DEF Inv
<1> QED
  BY <1>3, <1>4, <1>5, <1>6, <1>7, <1>8, <1>9, ServiceKeeps

\* A handler begins.
LEMMA BeginKeeps ==
    ASSUME Inv, NEW t \in Tasks, At(t, "idle"), NEW local \in Task, Awaits(t, local),
           local.pc # "adding", Knows(t)', OnlyTask
    PROVE  Inv'
<1>1. TypeOK'
  BY AwaitsSets DEF Inv, TypeOK, OnlyTask, svars, gvars, history
<1>2. Unannounced({t}) = {}
  BY DEF At, Unannounced
<1>3. /\ UNCHANGED <<gvars, members, message, heard, pushed, skipped, interrupted, seen>>
      /\ Opened' = Opened
  BY DEF OnlyTask, svars, history, Opened
<1> QED
  BY <1>1, <1>2, <1>3, MoveKeeps

LEMMA RolesOfSides ==
    ASSUME NEW context \in Contexts, NEW role \in ActiveRoles,
           NEW roles \in ParticipantRolesForContext(context, role)
    PROVE  roles[1] \in Roles \cup {NoRole} /\ roles[2] \in Roles \cup {NoRole}
<1>1. CASE Counterparts(context, role) = {}
  <2>1. roles = <<NoRole, NoRole>>
    BY <1>1 DEF ParticipantRolesForContext
  <2> QED
    BY <2>1
<1>2. CASE Counterparts(context, role) # {}
  <2>1. PICK r \in Counterparts(context, role) : roles = <<role, r>>
    BY <1>2 DEF ParticipantRolesForContext
  <2>2. r \in Roles /\ role \in Roles \cup {NoRole}
    BY MessagingAssumption DEF Counterparts
  <2> QED
    BY <2>1, <2>2
<1> QED
  BY <1>1, <1>2

LEMMA CreateConversationKeeps ==
    ASSUME Inv, NEW t \in Tasks, NEW u \in Users, NEW other \in Users,
           NEW context \in Contexts, NEW role \in ActiveRoles,
           CreateConversation(t, u, other, context, role)
    PROVE  Inv'
<1>1. PICK roles, side, known :
         /\ roles \in ParticipantRolesForContext(context, role)
         /\ side = {[user |-> u, role |-> roles[1]], [user |-> other, role |-> roles[2]]}
         /\ known = Joined
         /\ Awaits(t, [IdleTask EXCEPT !.pc = "creating", !.user = u, !.seen = known, !.members = side])
  BY DEF CreateConversation, Creates
<1> DEFINE local == [IdleTask EXCEPT !.pc = "creating", !.user = u, !.seen = known, !.members = side]
<1>2. roles[1] \in Roles \cup {NoRole} /\ roles[2] \in Roles \cup {NoRole}
  BY <1>1, RolesOfSides
<1>3. side \subseteq Member /\ TwoSides(side) /\ {member.user : member \in side} = {u, other}
  BY <1>1, <1>2 DEF Member, TwoSides, CreateConversation
<1>4. known \subseteq Conversations /\ UnseenBy(known, side)
  <2>1. known \subseteq Opened
    BY <1>1 DEF Joined, Inv, MembersInv
  <2>2. \A c \in Opened : ~({u, other} \subseteq UsersIn(c))
    BY DEF CreateConversation, Between
  <2> QED
    BY <1>3, <2>1, <2>2 DEF UnseenBy, Opened
<1>5. local \in Task /\ local.pc = "creating" /\ local.members = side /\ local.seen = known
  BY <1>3, <1>4, IdleIsTask DEF Task, TaskPcs, IdleTask
<1>6. task'[t] = local
  BY <1>1, <1>5, AwaitsSets DEF Inv
<1>7. known \subseteq Joined' /\ UnseenBy(known, side)'
  BY <1>1, <1>4 DEF CreateConversation, OnlyTask, svars, Joined, UnseenBy, UsersIn
<1> HIDE DEF local
<1>8. Knows(t)'
  <2>1. task'[t].pc = "creating" /\ task'[t].members = side /\ task'[t].seen = known
    BY <1>5, <1>6
  <2>2. TwoSides(side)' /\ known \subseteq Joined' /\ UnseenBy(known, side)'
    BY <1>3, <1>7 DEF TwoSides
  <2>3. TwoSides(task[t].members)'
    BY <2>1, <2>2 DEF TwoSides
  <2>4. (task[t].seen \subseteq Joined)' /\ UnseenBy(task[t].seen, task[t].members)'
    BY <2>1, <2>2 DEF UnseenBy
  <2> QED
    BY <2>1, <2>3, <2>4 DEF Knows
<1> QED
  BY <1>1, <1>5, <1>8, BeginKeeps DEF CreateConversation, Begins, local

LEMMA AsksKeeps ==
    ASSUME Inv, NEW t \in Tasks, NEW u \in Users, Asks(t, u)
    PROVE  Inv'
<1>1. ASSUME NEW local \in Task, At(t, "idle"), Awaits(t, local), OnlyTask, local.user = u,
             local.pc \in {"sending", "marking", "updating", "deleting", "joining"},
             local.pc \in {"sending", "joining", "updating"} =>
                local.conversation \in Opened,
             local.pc \in {"sending", "joining"} => u \in UsersIn(local.conversation),
             local.pc \in {"marking", "deleting"} => local.message \in Sent,
             local.pc = "joining" => local.socket \in SocketsOf(u)
      PROVE  Inv'
  <2>1. task'[t] = local
    BY <1>1, AwaitsSets DEF Inv
  <2>2. UNCHANGED <<status, members, message, client, gone>>
    BY <1>1 DEF OnlyTask, svars, gvars
  <2>3. Knows(t)'
    BY <1>1, <2>1, <2>2 DEF Knows, Opened, Sent, UsersIn, SocketsOf
  <2> QED
    BY <1>1, <2>3, BeginKeeps
<1>2. ASSUME NEW other \in Users, NEW context \in Contexts, NEW role \in ActiveRoles,
             CreateConversation(t, u, other, context, role)
      PROVE  Inv'
  BY <1>2, CreateConversationKeeps
<1>3. ASSUME NEW c \in Conversations, NEW via \in Ways(u), SendMessage(t, u, c, via)
      PROVE  Inv'
  <2> PICK local : local = [IdleTask EXCEPT !.pc = "sending", !.user = u, !.conversation = c, !.socket = via]
    OBVIOUS
  <2>1. local \in Task /\ local.user = u /\ local.conversation = c /\ local.pc = "sending"
    BY IdleIsTask DEF Task, TaskPcs, IdleTask, Ways, SocketsOf
  <2> QED
    BY <1>1, <1>3, <2>1 DEF SendMessage, Begins
<1>4. ASSUME NEW c \in Conversations, NEW new \in ConversationStatus, UpdateConversation(t, u, c, new)
      PROVE  Inv'
  <2> PICK local : local = [IdleTask EXCEPT !.pc = "updating", !.user = u, !.conversation = c, !.status = new]
    OBVIOUS
  <2>1. local \in Task /\ local.user = u /\ local.conversation = c /\ local.pc = "updating"
    BY IdleIsTask DEF Task, TaskPcs, IdleTask
  <2> QED
    BY <1>1, <1>4, <2>1 DEF UpdateConversation, Begins
<1>5. ASSUME NEW c \in Conversations, DeleteConversation(t, u, c)
      PROVE  Inv'
  BY <1>4, <1>5 DEF DeleteConversation, ConversationStatus
<1>6. ASSUME NEW c \in Conversations, NEW s \in Sockets, HandleJoinConversation(t, u, c, s)
      PROVE  Inv'
  <2> PICK local : local = [IdleTask EXCEPT !.pc = "joining", !.user = u, !.conversation = c, !.socket = s]
    OBVIOUS
  <2>1. local \in Task /\ local.user = u /\ local.conversation = c /\ local.socket = s /\ local.pc = "joining"
    BY IdleIsTask DEF Task, TaskPcs, IdleTask
  <2> QED
    BY <1>1, <1>6, <2>1 DEF HandleJoinConversation, Begins
<1>7. ASSUME NEW m \in Messages, MarkMessageAsRead(t, u, m)
      PROVE  Inv'
  <2> PICK local : local = [IdleTask EXCEPT !.pc = "marking", !.user = u, !.message = m]
    OBVIOUS
  <2>1. local \in Task /\ local.user = u /\ local.message = m /\ local.pc = "marking"
    BY IdleIsTask DEF Task, TaskPcs, IdleTask
  <2> QED
    BY <1>1, <1>7, <2>1 DEF MarkMessageAsRead, Begins
<1>8. ASSUME NEW m \in Messages, DeleteMessage(t, u, m)
      PROVE  Inv'
  <2> PICK local : local = [IdleTask EXCEPT !.pc = "deleting", !.user = u, !.message = m]
    OBVIOUS
  <2>1. local \in Task /\ local.user = u /\ local.message = m /\ local.pc = "deleting"
    BY IdleIsTask DEF Task, TaskPcs, IdleTask
  <2> QED
    BY <1>1, <1>8, <2>1 DEF DeleteMessage, Begins
<1> QED
  BY <1>2, <1>3, <1>4, <1>5, <1>6, <1>7, <1>8, MessagingAssumption DEF Asks

\* The insert of a conversation, its participants or a message: each is of a row
\* that was not there.
LEMMA SaveConversationKeeps ==
    ASSUME Inv, NEW t \in Tasks, SaveConversation(t)
    PROVE  Inv'
<1>1. TypeOK /\ MembersInv /\ TaskInv
  BY DEF Inv
<1> PICK c \in Conversations \ Opened :
       /\ status' = [status EXCEPT ![c] = "active"]
       /\ Awaits(t, [task[t] EXCEPT !.pc = "adding", !.conversation = c])
  BY DEF SaveConversation
<1> PICK local : local = [task[t] EXCEPT !.pc = "adding", !.conversation = c]
  OBVIOUS
<1>2. /\ local \in Task
      /\ local.pc = "adding" /\ local.conversation = c
      /\ local.members = task[t].members /\ local.seen = task[t].seen
  BY <1>1 DEF TypeOK, Task, TaskPcs
<1>3. /\ task' \in [Tasks -> Task]
      /\ task'[t] = local
      /\ \A other \in Tasks : other # t => task'[other] = task[other]
  BY <1>1, <1>2, AwaitsSets
<1>4. /\ UNCHANGED <<gvars, client, gone, members, message, is_read, deleted, suspended, watching,
                     pushed, skipped, heard, interrupted, seen>>
      /\ Sent' = Sent
  BY DEF SaveConversation, history, gvars, Sent
<1>5. Opened' = Opened \cup {c}
  BY <1>1, MessagingAssumption DEF Opened, TypeOK, ConversationStatus
<1>6. Grows
  BY <1>4, <1>5 DEF Grows
<1>7. TypeOK'
  BY <1>1, <1>3, <1>4 DEF TypeOK, gvars, ConversationStatus
<1>8. MembersInv'
  BY <1>1, <1>4, <1>5, MembersPersist
<1>9. members[c] = {}
  BY <1>1 DEF MembersInv
<1>10. Knows(t)'
  <2>1. TwoSides(local.members) /\ local.seen \subseteq Joined /\ UnseenBy(local.seen, local.members)
    BY <1>1, <1>2 DEF SaveConversation, TaskInv, Knows, At
  <2>2. local.seen \subseteq Joined' /\ UnseenBy(local.seen, local.members)'
    BY <2>1, <1>6, UnseenPersists
  <2> QED
    BY <2>1, <2>2, <1>2, <1>3, <1>4, <1>5, <1>9 DEF Knows, TwoSides, UnseenBy
<1>11. \A other \in Tasks \ {t} :
         /\ task'[other] = task[other]
         /\ At(other, "adding") => /\ members'[task[other].conversation] = {}
                                   /\ task'[t].conversation # task[other].conversation
  BY <1>1, <1>2, <1>3, <1>4 DEF TaskInv, Knows, At
<1>12. TaskInv'
  BY <1>1, <1>6, <1>10, <1>11, TasksPersist
<1>13. \A m \in Unannounced(Tasks) : Covered(m)'
  BY <1>3, StillUnannounced DEF At, SaveConversation
<1>14. SeenInv'
  BY <1>4, SeenPersists DEF Inv
<1> QED
  BY <1>4, <1>6, <1>7, <1>8, <1>12, <1>13, <1>14, ServiceKeeps

LEMMA SaveParticipantsKeeps ==
    ASSUME Inv, NEW t \in Tasks, SaveParticipants(t)
    PROVE  Inv'
<1>1. TypeOK /\ MembersInv /\ TaskInv
  BY DEF Inv
<1> PICK local : local = task[t]
  OBVIOUS
<1>2. /\ local \in Task /\ local.pc = "adding" /\ TwoSides(local.members)
      /\ local.conversation \in Opened /\ local.conversation \in Conversations
      /\ members[local.conversation] = {}
      /\ local.seen \subseteq Joined /\ UnseenBy(local.seen, local.members)
  BY <1>1 DEF TaskInv, Knows, SaveParticipants, At, Opened, TypeOK
<1>3. /\ task' \in [Tasks -> Task]
      /\ task'[t] = IdleTask
      /\ \A other \in Tasks : other # t => task'[other] = task[other]
  BY <1>1, IdleIsTask, AwaitsSets DEF SaveParticipants, Returns
<1>4. /\ UNCHANGED <<gvars, client, gone, status, message, is_read, deleted, suspended, watching,
                     pushed, skipped, heard, interrupted>>
      /\ seen' = [seen EXCEPT ![local.conversation] = local.seen]
      /\ Sent' = Sent /\ Opened' = Opened
  BY DEF SaveParticipants, history, gvars, Sent, Opened
<1>5. /\ members' = [members EXCEPT ![local.conversation] = local.members]
      /\ members'[local.conversation] = local.members
      /\ \A c \in Conversations \ {local.conversation} : members'[c] = members[c]
  BY <1>1, <1>2 DEF SaveParticipants, TypeOK
<1>6. Grows
  BY <1>2, <1>4, <1>5 DEF Grows
<1>7. TypeOK'
  <2>1. /\ members' \in [Conversations -> SUBSET Member]
        /\ seen' \in [Conversations -> SUBSET Conversations]
    BY <1>1, <1>2, <1>4, <1>5 DEF TypeOK, Task
  <2> QED
    BY <2>1, <1>1, <1>3, <1>4 DEF TypeOK, gvars
<1>8. MembersInv'
  <2>1. \A c \in Conversations : members'[c] = {} \/ (c \in Opened' /\ TwoSides(members'[c]))
    BY <1>1, <1>2, <1>4, <1>5 DEF MembersInv
  <2>2. \A m \in Sent' : message'[m].sender \in UsersIn(message[m].conversation)'
    BY <1>1, <1>4, <1>6, MembersStay DEF MembersInv
  <2> QED
    BY <2>1, <2>2 DEF MembersInv, TwoSides
<1>9. \A other \in Tasks \ {t} :
         /\ task'[other] = task[other]
         /\ At(other, "adding") => members'[task[other].conversation] = {}
  <2> SUFFICES ASSUME NEW other \in Tasks \ {t}, At(other, "adding")
               PROVE  members'[task[other].conversation] = {}
    BY <1>3
  <2>1. /\ task[other].conversation # local.conversation
        /\ task[other].conversation \in Conversations
        /\ members[task[other].conversation] = {}
    BY <1>1, <1>2 DEF TaskInv, At, Knows, Opened
  <2> QED
    BY <1>5, <2>1
<1>10. TaskInv'
  <2>1. task'[t].pc # "adding" /\ Knows(t)'
    BY <1>3, IdleKnows DEF IdleTask
  <2> QED
    BY <1>1, <1>6, <1>9, <2>1, TasksPersist
<1>11. \A m \in Unannounced(Tasks) : Covered(m)'
  BY <1>3, StillUnannounced DEF At, SaveParticipants
<1>12. SeenInv'
  <2> SUFFICES ASSUME NEW c \in Conversations
               PROVE  (seen[c] \subseteq Joined /\ UnseenBy(seen[c], members[c]))'
    BY DEF SeenInv
  <2> PICK known, side : known = seen'[c] /\ side = members'[c]
    OBVIOUS
  <2>1. CASE c = local.conversation
    <3>1. known = local.seen /\ side = local.members
      BY <1>1, <1>2, <1>4, <1>5, <2>1 DEF TypeOK
    <3>2. known \subseteq Joined' /\ UnseenBy(known, side)'
      BY <1>2, <1>6, <3>1, UnseenPersists
    <3> QED
      BY <3>2 DEF UnseenBy
  <2>2. CASE c # local.conversation
    <3>1. known = seen[c] /\ side = members[c]
      BY <1>1, <1>4, <1>5, <2>2 DEF TypeOK
    <3>2. known \subseteq Joined /\ UnseenBy(known, side)
      BY <3>1 DEF Inv, SeenInv
    <3>3. known \subseteq Joined' /\ UnseenBy(known, side)'
      BY <1>6, <3>2, UnseenPersists
    <3> QED
      BY <3>3 DEF UnseenBy
  <2> QED
    BY <2>1, <2>2
<1> QED
  BY <1>4, <1>6, <1>7, <1>8, <1>10, <1>11, <1>12, ServiceKeeps

LEMMA SaveMessageKeeps ==
    ASSUME Inv, NEW t \in Tasks, SaveMessage(t)
    PROVE  Inv'
<1>1. TypeOK /\ MembersInv /\ TaskInv
  BY DEF Inv
<1> PICK own : own = task[t]
  OBVIOUS
<1> PICK m \in Messages \ Sent :
       /\ message' = [message EXCEPT ![m] =
                        [conversation |-> own.conversation, sender |-> own.user]]
       /\ Awaits(t, [own EXCEPT !.pc = "announcing", !.message = m])
  BY DEF SaveMessage
<1> PICK local : local = [own EXCEPT !.pc = "announcing", !.message = m]
  OBVIOUS
<1>2. own \in Task /\ own.pc = "sending"
  BY <1>1 DEF TypeOK, SaveMessage, At
<1>3. /\ own.conversation \in Opened /\ own.conversation \in Conversations
      /\ own.user \in UsersIn(own.conversation) /\ own.user \in Users
  BY <1>1, <1>2 DEF TaskInv, Knows, Opened
<1>4. /\ local \in Task
      /\ local.pc = "announcing" /\ local.conversation = own.conversation /\ local.message = m
  BY <1>2 DEF Task, TaskPcs
<1>5. /\ task' \in [Tasks -> Task]
      /\ task'[t] = local
      /\ \A other \in Tasks : other # t => task'[other] = task[other]
  BY <1>1, <1>4, AwaitsSets
<1>6. /\ UNCHANGED <<gvars, client, gone, status, members, is_read, deleted, suspended, watching,
                     pushed, skipped, heard, interrupted, seen>>
      /\ Opened' = Opened
  BY DEF SaveMessage, history, gvars, Opened
<1>7. /\ message'[m] \in Message
      /\ message'[m].conversation = own.conversation /\ message'[m].sender = own.user
      /\ \A n \in Messages \ {m} : message'[n] = message[n]
      /\ message' \in [Messages -> Message \cup {Null}]
  BY <1>1, <1>3 DEF TypeOK, Message
<1>8. Sent' = Sent \cup {m} /\ m \notin Sent
  BY <1>7, MessagingAssumption DEF Sent
<1>9. Grows
  BY <1>6, <1>7, <1>8 DEF Grows, Sent
<1>10. TypeOK'
  BY <1>1, <1>5, <1>6, <1>7 DEF TypeOK, gvars
<1>11. MembersInv'
  <2>1. \A n \in Sent' : message'[n].sender \in UsersIn(message[n].conversation)'
    <3> SUFFICES ASSUME NEW n \in Sent' PROVE message'[n].sender \in UsersIn(message[n].conversation)'
      OBVIOUS
    <3>1. CASE n = m
      BY <1>3, <1>6, <1>7, <3>1 DEF UsersIn
    <3>2. CASE n # m
      BY <1>1, <1>8, <1>9, <3>2, MembersStay DEF MembersInv
    <3> QED
      BY <3>1, <3>2
  <2> QED
    BY <2>1, <1>1, <1>6 DEF MembersInv, TwoSides
<1>12. TaskInv'
  <2>1. Knows(t)'
    BY <1>4, <1>5, <1>7, <1>8 DEF Knows
  <2>2. \A other \in Tasks \ {t} :
           /\ task'[other] = task[other]
           /\ At(other, "adding") => /\ members'[task[other].conversation] = {}
                                     /\ task'[t].pc = "adding" =>
                                          task'[t].conversation # task[other].conversation
    BY <1>1, <1>4, <1>5, <1>6 DEF TaskInv, Knows, At
  <2> QED
    BY <1>1, <1>9, <2>1, <2>2, TasksPersist
<1>13. \A n \in Unannounced(Tasks) : Covered(n)'
  BY <1>2, <1>5, StillUnannounced DEF At
<1>14. Covered(m)'
  BY <1>4, <1>5 DEF Covered, Unannounced, At
<1>15. SeenInv'
  BY <1>6, SeenPersists DEF Inv
<1> QED
  BY <1>6, <1>8, <1>9, <1>10, <1>11, <1>12, <1>13, <1>14, <1>15, ServiceKeeps

\* The subscriber considers every recipient, and who hears the message live is in
\* the room, hence a participant.
LEMMA AnnounceMessageKeeps ==
    ASSUME Inv, NEW t \in Tasks, AnnounceMessage(t)
    PROVE  Inv'
<1>1. TypeOK /\ MembersInv /\ TaskInv /\ SocketInv
  BY DEF Inv
<1> PICK m, c : m = task[t].message /\ c = task[t].conversation
  OBVIOUS
<1>2. m \in Sent /\ m \in Messages /\ c = message[m].conversation /\ c \in Conversations
  BY <1>1 DEF TaskInv, Knows, AnnounceMessage, At, TypeOK, Sent, Message
<1>3. /\ pushed' = pushed \cup Addressed(m, Recipients(m) \ watching)
      /\ skipped' = skipped \cup Addressed(m, Recipients(m) \cap watching)
      /\ heard' \subseteq heard \cup Addressed(m, Hearers(c))
      /\ Awaits(t, IdleTask)
      /\ UNCHANGED <<gvars, svars, watching, interrupted, seen>>
  BY DEF AnnounceMessage, Returns
<1>4. UsersIn(c) \subseteq Users
  BY <1>1, <1>2 DEF UsersIn, TypeOK, Member
<1>5. Hearers(c) \subseteq UsersIn(c)
  BY <1>1, <1>2 DEF Hearers, SocketInv
<1>6. Recipients(m) \subseteq Users
  BY <1>2, <1>4 DEF Recipients
<1>7. /\ pushed' \subseteq Delivery /\ skipped' \subseteq Delivery /\ heard' \subseteq Delivery
  BY <1>1, <1>2, <1>3, <1>4, <1>5, <1>6 DEF TypeOK, Addressed, Delivery
<1>8. TypeOK'
  <2>1. task' \in [Tasks -> Task]
    BY <1>1, <1>3, IdleIsTask, AwaitsSets
  <2>2. UNCHANGED <<client, gone, rooms, onlineUsers, presence, status,
                    members, message, is_read, deleted, suspended, watching, interrupted, seen>>
    BY <1>3 DEF svars, gvars
  <2> QED
    BY <1>1, <1>7, <2>1, <2>2 DEF TypeOK
<1>9. Recipients(m)' = Recipients(m)
  BY <1>3 DEF Recipients, UsersIn, svars
<1>10. \A u \in Recipients(m) : Notified(m, u)'
  BY <1>3 DEF Notified, Addressed
<1>11. \A n \in Unannounced({t}) : Covered(n)'
  BY <1>9, <1>10 DEF Covered, Unannounced
<1>12. \A d \in heard' \ heard :
         d.message \in Sent /\ d.to \in UsersIn(message[d.message].conversation)
  BY <1>2, <1>3, <1>5 DEF Addressed
<1>13. task'[t] = IdleTask
  BY <1>1, <1>3, IdleIsTask, AwaitsSets
<1>14. Knows(t)' /\ IdleTask.pc # "adding"
  BY <1>13, IdleKnows DEF IdleTask
<1>15. /\ UNCHANGED <<gvars, members, message, interrupted, seen>>
       /\ Opened' = Opened
  BY <1>3 DEF svars, Opened
<1> QED
  BY <1>3, <1>8, <1>11, <1>12, <1>14, <1>15, IdleIsTask, MoveKeeps

\* Marks, deletions, statuses, answers and failures.
LEMMA EndKeeps ==
    ASSUME Inv, NEW t \in Tasks, Returns(t), TypeOK', Opened' = Opened,
           UNCHANGED <<gvars, members, message, heard, pushed, skipped, seen>>,
           interrupted \subseteq interrupted',
           Unannounced({t}) \subseteq interrupted'
    PROVE  Inv'
<1>1. task'[t] = IdleTask
  BY IdleIsTask, AwaitsSets DEF Inv, Returns
<1>2. Knows(t)' /\ IdleTask.pc # "adding" /\ IdleTask \in Task
  BY <1>1, IdleKnows, IdleIsTask DEF IdleTask
<1>3. \A m \in Unannounced({t}) : Covered(m)'
  BY DEF Covered
<1> QED
  BY <1>2, <1>3, MoveKeeps DEF Returns

LEMMA SavesKeep ==
    ASSUME Inv, NEW t \in Tasks, SaveRead(t) \/ SaveStatus(t) \/ SaveDeletion(t)
    PROVE  Inv'
<1>1. TypeOK /\ TaskInv
  BY DEF Inv
<1> PICK own : own = task[t]
  OBVIOUS
<1>2. own \in Task
  BY <1>1 DEF TypeOK
<1>3. own.pc # "announcing" => Unannounced({t}) = {}
  BY DEF Unannounced, At
<1>4. CASE SaveRead(t)
  <2>1. own.pc = "marking" /\ own.message \in Messages /\ Returns(t)
    BY <1>1, <1>4 DEF TaskInv, Knows, SaveRead, At, Sent
  <2>2. task' \in [Tasks -> Task]
    BY <1>1, <2>1, IdleIsTask, AwaitsSets DEF Returns
  <2>3. TypeOK'
    BY <1>1, <1>4, <2>1, <2>2 DEF SaveRead, TypeOK, gvars, history
  <2>4. Opened' = Opened
    BY <1>4 DEF SaveRead, Opened
  <2> QED
    BY <1>3, <1>4, <2>1, <2>3, <2>4, EndKeeps DEF SaveRead, history
<1>5. CASE SaveStatus(t)
  <2>1. /\ own.pc = "updating" /\ Returns(t)
        /\ own.conversation \in Opened /\ own.conversation \in Conversations
        /\ own.status \in ConversationStatus
    BY <1>1, <1>2, <1>5 DEF TaskInv, Knows, SaveStatus, At, Opened, Task
  <2>2. /\ status' \in [Conversations -> ConversationStatus \cup {Null}]
        /\ Opened' = Opened
    BY <1>1, <1>5, <2>1, MessagingAssumption DEF SaveStatus, TypeOK, Opened
  <2>3. task' \in [Tasks -> Task]
    BY <1>1, <2>1, IdleIsTask, AwaitsSets DEF Returns
  <2>4. TypeOK'
    BY <1>1, <1>5, <2>2, <2>3 DEF SaveStatus, TypeOK, gvars, history
  <2> QED
    BY <1>3, <1>5, <2>1, <2>2, <2>4, EndKeeps DEF SaveStatus, history
<1>6. CASE SaveDeletion(t)
  <2>1. own.pc = "deleting" /\ own.message \in Messages /\ Returns(t)
    BY <1>1, <1>6 DEF TaskInv, Knows, SaveDeletion, At, Sent
  <2>2. task' \in [Tasks -> Task]
    BY <1>1, <2>1, IdleIsTask, AwaitsSets DEF Returns
  <2>3. TypeOK'
    BY <1>1, <1>6, <2>1, <2>2 DEF SaveDeletion, TypeOK, gvars, history
  <2>4. Opened' = Opened
    BY <1>6 DEF SaveDeletion, Opened
  <2> QED
    BY <1>3, <1>6, <2>1, <2>3, <2>4, EndKeeps DEF SaveDeletion, history
<1> QED
  BY <1>4, <1>5, <1>6

LEMMA ThrowsKeep ==
    ASSUME Inv, NEW t \in Tasks, RequestThrows(t)
    PROVE  Inv'
<1>1. TypeOK /\ TaskInv
  BY DEF Inv
<1>2. /\ Returns(t)
      /\ interrupted' = interrupted \cup Unannounced({t})
      /\ UNCHANGED <<gvars, svars, watching, pushed, skipped, heard, seen>>
  BY DEF RequestThrows
<1>3. task' \in [Tasks -> Task]
  BY <1>1, <1>2, IdleIsTask, AwaitsSets DEF Returns
<1>4. Unannounced({t}) \subseteq Messages
  BY <1>1 DEF Unannounced, TaskInv, Knows, At, Sent
<1>5. TypeOK'
  BY <1>1, <1>2, <1>3, <1>4 DEF TypeOK, gvars, svars
<1>6. Opened' = Opened
  BY <1>2 DEF svars, Opened
<1> QED
  BY <1>2, <1>5, <1>6, EndKeeps DEF svars

-----------------------------------------------------------------------------
(* The steps of the gateway. *)

\* A step of sockets that leaves the tables and the history alone.
LEMMA GatewayKeeps ==
    ASSUME Inv, TypeOK', TaskInv', PresenceIsTrue', SocketInv', Grows,
           UNCHANGED <<status, members, message, pushed, skipped, heard, seen>>,
           interrupted \subseteq interrupted',
           \A m \in Unannounced(Tasks) : Covered(m)'
    PROVE  Inv'
<1>1. TypeOK /\ MembersInv
  BY DEF Inv
<1>2. MembersInv'
  BY <1>1, MembersPersist DEF Grows
<1>3. \A d \in heard' :
         d.message \in Sent' /\ d.to \in UsersIn(message[d.message].conversation)'
  <2>1. (\A e \in heard : e.message \in Sent) /\ HeardByMembers
    BY DEF Inv
  <2> QED
    BY <1>1, <2>1, HeardPersists
<1>4. \A m \in Sent' : Covered(m)'
  <2> SUFFICES ASSUME NEW m \in Sent PROVE Covered(m)'
    BY DEF Sent
  <2>1. Covered(m)
    BY CoveredIsAnnounced DEF Inv
  <2> QED
    BY <1>1, <2>1, CoveredPersists
<1>5. SentIsAnnounced'
  BY <1>4 DEF SentIsAnnounced, Covered
<1>6. HeardByMembers' /\ \A d \in heard' : d.message \in Sent'
  BY <1>3 DEF HeardByMembers
<1>7. SeenInv'
  BY SeenPersists DEF Inv
<1> QED
  BY <1>2, <1>5, <1>6, <1>7 DEF Inv

\* Every request still knows what it did, as none has moved.
LEMMA TasksRest ==
    ASSUME TypeOK, TaskInv, Grows, UNCHANGED <<task, members>>
    PROVE  TaskInv' /\ \A m \in Unannounced(Tasks) : Covered(m)'
<1>1. \A t \in Tasks : Knows(t)'
  BY KnowsPersists DEF TaskInv, Knows, At
<1>2. \A m \in Unannounced(Tasks) : Covered(m)'
  BY DEF Covered, Unannounced, At
<1> QED
  BY <1>1, <1>2 DEF TaskInv, At

\* A join that ends after its socket disconnected leaves a room nobody hears in.
LEMMA JoinEndsKeeps ==
    ASSUME Inv, NEW t \in Tasks, JoinEnds(t)
    PROVE  Inv'
<1>1. TypeOK /\ TaskInv /\ SocketInv
  BY DEF Inv
<1> PICK s, c, u : s = task[t].socket /\ c = task[t].conversation /\ u = task[t].user
  OBVIOUS
<1>2. /\ s \in Sockets /\ c \in Conversations
      /\ u \in UsersIn(c)
      /\ client[s] = u \/ s \in gone
  BY <1>1 DEF TaskInv, Knows, JoinEnds, At, Opened
<1>3. /\ Awaits(t, IdleTask)
      /\ rooms' = [rooms EXCEPT ![s] = @ \cup {c}]
      /\ UNCHANGED <<client, gone, onlineUsers, presence, svars, watching, history>>
  BY DEF JoinEnds, EnterRoom, Returns
<1>4. /\ task' \in [Tasks -> Task]
      /\ task'[t] = IdleTask
      /\ \A other \in Tasks : other # t => task'[other] = task[other]
  BY <1>1, <1>3, IdleIsTask, AwaitsSets
<1>5. TypeOK'
  BY <1>1, <1>2, <1>3, <1>4 DEF TypeOK, svars, history
<1>6. Grows
  BY <1>3, StillGrows DEF svars
<1>7. TaskInv'
  <2>1. Knows(t)' /\ task'[t].pc # "adding"
    BY <1>4, IdleKnows DEF IdleTask
  <2>2. \A other \in Tasks \ {t} :
           /\ task'[other] = task[other]
           /\ At(other, "adding") => /\ members'[task[other].conversation] = {}
                                     /\ task'[t].pc = "adding" =>
                                          task'[t].conversation # task[other].conversation
    BY <1>1, <1>3, <1>4, <2>1 DEF TaskInv, Knows, At, svars
  <2> QED
    BY <1>1, <1>6, <2>1, <2>2, TasksPersist
<1>8. SocketInv'
  <2>1. UNCHANGED <<client, gone, members>> /\ Connected' = Connected
    BY <1>3 DEF svars, Connected
  <2>2. \A s2 \in Connected, c2 \in Conversations : c2 \in rooms'[s2] => client[s2] \in UsersIn(c2)
    <3> SUFFICES ASSUME NEW s2 \in Connected, NEW c2 \in Conversations, c2 \in rooms'[s2]
                 PROVE  client[s2] \in UsersIn(c2)
      OBVIOUS
    <3>1. CASE s2 = s /\ c2 = c
      BY <1>1, <1>2, <3>1 DEF SocketInv
    <3>2. CASE ~(s2 = s /\ c2 = c)
      <4>1. c2 \in rooms[s2]
        BY <1>1, <1>2, <1>3, <3>2 DEF TypeOK, Connected
      <4> QED
        BY <1>1, <4>1 DEF SocketInv
    <3> QED
      BY <3>1, <3>2
  <2>3. s \in Connected \cup gone
    BY <1>2, MessagingAssumption, <1>1 DEF Connected, UsersIn, TypeOK, Member
  <2>4. \A s2 \in Sockets : s2 \notin Connected \cup gone => rooms'[s2] = {}
    BY <1>1, <1>3, <2>3 DEF SocketInv, TypeOK
  <2> QED
    BY <1>1, <2>1, <2>2, <2>4 DEF SocketInv, UsersIn, Connected
<1>9. PresenceIsTrue'
  BY <1>3 DEF Inv, PresenceIsTrue, SocketsOf
<1>10. \A m \in Unannounced(Tasks) : Covered(m)'
  BY <1>4, StillUnannounced DEF JoinEnds, At
<1>11. UNCHANGED <<status, members, message, pushed, skipped, heard, interrupted, seen>>
  BY <1>3 DEF svars, history
<1> QED
  BY <1>5, <1>6, <1>7, <1>8, <1>9, <1>10, <1>11, GatewayKeeps

LEMMA SocketStepKeeps ==
    ASSUME Inv, UNCHANGED <<svars, watching, task, history>>, Grows, SocketInv', PresenceIsTrue',
           client' \in [Sockets -> Users \cup {Null}], gone' \subseteq Sockets,
           rooms' \in [Sockets -> SUBSET Conversations],
           onlineUsers' \in [Users -> (SUBSET Sockets) \cup {Null}],
           presence' \in [Users -> BOOLEAN]
    PROVE  Inv'
<1>1. TypeOK /\ TaskInv
  BY DEF Inv
<1>2. UNCHANGED <<status, members, message, task, pushed, skipped, heard, interrupted, seen>>
  BY DEF svars, history
<1>3. TypeOK'
  BY <1>1 DEF TypeOK, svars, history
<1>4. TaskInv' /\ \A m \in Unannounced(Tasks) : Covered(m)'
  BY <1>1, <1>2, TasksRest
<1> QED
  BY <1>2, <1>3, <1>4, GatewayKeeps

LEMMA HandleConnectionKeeps ==
    ASSUME Inv, NEW s \in Sockets, NEW u \in Users, HandleConnection(s, u),
           UNCHANGED <<svars, watching, task, history>>
    PROVE  Inv'
<1>1. TypeOK /\ SocketInv /\ PresenceIsTrue
  BY DEF Inv
<1>2. s \notin Connected \cup gone /\ client[s] = Null /\ u # Null
  BY MessagingAssumption DEF HandleConnection, Connected
<1>3. /\ client' = [client EXCEPT ![s] = u]
      /\ UNCHANGED <<gone, rooms, status, members, message>>
  BY DEF HandleConnection, svars
<1>4. Connected' = Connected \cup {s} /\ client'[s] = u
      /\ \A other \in Sockets \ {s} : client'[other] = client[other]
  BY <1>1, <1>2, <1>3 DEF Connected, TypeOK
<1>5. SocketsOf(u)' = SocketsOf(u) \cup {s}
      /\ \A other \in Users \ {u} : SocketsOf(other)' = SocketsOf(other)
  BY <1>2, <1>4, MessagingAssumption DEF SocketsOf
<1>6. Grows
  BY <1>2, <1>3, <1>4 DEF Grows, Opened
<1>7. SocketInv'
  <2>1. rooms[s] = {}
    BY <1>1, <1>2 DEF SocketInv
  <2> QED
    BY <1>1, <1>2, <1>3, <1>4, <2>1 DEF SocketInv, UsersIn, Connected
<1>8. /\ onlineUsers' = [onlineUsers EXCEPT ![u] = SocketsOf(u) \cup {s}]
      /\ presence' = [presence EXCEPT ![u] = TRUE]
  <2>1. SocketsOf(u) \in SUBSET Sockets
    BY DEF SocketsOf
  <2>2. (IF onlineUsers[u] = Null THEN {s} ELSE onlineUsers[u] \cup {s}) = SocketsOf(u) \cup {s}
    BY <1>1, <2>1, MessagingAssumption DEF PresenceIsTrue
  <2> QED
    BY <2>2 DEF HandleConnection
<1>9. PresenceIsTrue'
  BY <1>1, <1>5, <1>8 DEF PresenceIsTrue, TypeOK
<1>10. onlineUsers' \in [Users -> (SUBSET Sockets) \cup {Null}]
  <2>1. SocketsOf(u) \cup {s} \in SUBSET Sockets
    BY DEF SocketsOf
  <2> QED
    BY <1>1, <1>8, <2>1 DEF TypeOK
<1> QED
  BY <1>1, <1>3, <1>6, <1>7, <1>8, <1>9, <1>10, SocketStepKeeps DEF TypeOK

LEMMA HandleDisconnectKeeps ==
    ASSUME Inv, NEW s \in Sockets, HandleDisconnect(s),
           UNCHANGED <<svars, watching, task, history>>
    PROVE  Inv'
<1>1. TypeOK /\ SocketInv /\ PresenceIsTrue
  BY DEF Inv
<1> PICK u : u = client[s]
  OBVIOUS
<1>2. s \in Connected /\ u \in Users
  BY <1>1 DEF HandleDisconnect, Connected, TypeOK
<1>3. /\ client' = [client EXCEPT ![s] = Null]
      /\ gone' = gone \cup {s}
      /\ rooms' = [rooms EXCEPT ![s] = {}]
      /\ UNCHANGED <<status, members, message>>
  BY DEF HandleDisconnect, svars
<1>4. Connected' = Connected \ {s} /\ client'[s] = Null
      /\ \A other \in Sockets \ {s} : client'[other] = client[other]
  BY <1>1, <1>3 DEF Connected, TypeOK
<1>5. SocketsOf(u)' = SocketsOf(u) \ {s} /\ s \in SocketsOf(u)
      /\ \A other \in Users \ {u} : SocketsOf(other)' = SocketsOf(other)
  BY <1>2, <1>4, MessagingAssumption DEF SocketsOf, Connected
<1>6. Grows
  BY <1>3, <1>4 DEF Grows, Opened
<1>7. SocketInv'
  BY <1>1, <1>3, <1>4 DEF SocketInv, UsersIn, Connected, TypeOK
<1>8. onlineUsers[u] = SocketsOf(u) /\ onlineUsers[u] # Null
  <2>1. SocketsOf(u) \in SUBSET Sockets
    BY DEF SocketsOf
  <2> QED
    BY <1>1, <1>2, <1>5, <2>1, MessagingAssumption DEF PresenceIsTrue
<1> PICK left : left = SocketsOf(u) \ {s}
  OBVIOUS
<1>9. /\ onlineUsers' = [onlineUsers EXCEPT ![u] = IF left = {} THEN Null ELSE left]
      /\ presence' = [presence EXCEPT ![u] = left # {}]
  BY <1>8 DEF HandleDisconnect
<1>10. PresenceIsTrue'
  BY <1>1, <1>5, <1>9 DEF PresenceIsTrue, TypeOK
<1>11. onlineUsers' \in [Users -> (SUBSET Sockets) \cup {Null}]
  <2>1. left \in SUBSET Sockets
    BY DEF SocketsOf
  <2> QED
    BY <1>1, <1>9, <2>1 DEF TypeOK
<1>12. presence' \in [Users -> BOOLEAN]
  BY <1>1, <1>9 DEF TypeOK
<1> QED
  BY <1>1, <1>3, <1>6, <1>7, <1>10, <1>11, <1>12, SocketStepKeeps DEF TypeOK

LEMMA HandleLeaveConversationKeeps ==
    ASSUME Inv, NEW s \in Sockets, NEW c \in Conversations, HandleLeaveConversation(s, c),
           UNCHANGED <<svars, watching, task, history>>
    PROVE  Inv'
<1>1. TypeOK /\ SocketInv /\ PresenceIsTrue
  BY DEF Inv
<1>2. /\ rooms' = [rooms EXCEPT ![s] = @ \ {c}]
      /\ UNCHANGED <<client, gone, onlineUsers, presence, status, members, message>>
  BY DEF HandleLeaveConversation, svars
<1>3. SocketInv'
  BY <1>1, <1>2 DEF SocketInv, UsersIn, Connected, TypeOK
<1>4. PresenceIsTrue'
  BY <1>1, <1>2 DEF PresenceIsTrue, SocketsOf
<1>5. Grows
  BY <1>2, StillGrows
<1> QED
  BY <1>1, <1>2, <1>3, <1>4, <1>5, SocketStepKeeps DEF TypeOK

LEMMA WatchKeeps ==
    ASSUME Inv, NEW u \in Watchers, Watch(u)
    PROVE  Inv'
<1>1. TypeOK /\ TaskInv /\ SocketInv /\ PresenceIsTrue
  BY DEF Inv
<1>2. UNCHANGED <<client, gone, rooms, status, members, message, task, pushed, skipped, heard,
                  interrupted, seen>> /\ UNCHANGED gvars
  BY DEF Watch, gvars, svars, history
<1>3. TypeOK'
  BY <1>1, MessagingAssumption DEF Watch, TypeOK, gvars, svars, history
<1>4. Grows
  BY <1>2, StillGrows
<1>5. TaskInv' /\ \A m \in Unannounced(Tasks) : Covered(m)'
  BY <1>1, <1>2, <1>4, TasksRest
<1>6. SocketInv' /\ PresenceIsTrue'
  BY <1>1, <1>2, <1>4, SocketsPersist, PresencePersists
<1> QED
  BY <1>2, <1>3, <1>4, <1>5, <1>6, GatewayKeeps

LEMMA SuspensionKeeps ==
    ASSUME Inv, NEW u \in Suspendable, Suspend(u) \/ Reactivate(u)
    PROVE  Inv'
<1>1. TypeOK /\ TaskInv /\ SocketInv /\ PresenceIsTrue
  BY DEF Inv
<1>2. UNCHANGED <<client, gone, rooms, status, members, message, task, pushed, skipped, heard,
                  interrupted, seen>> /\ UNCHANGED gvars
  BY DEF Suspend, Reactivate, gvars, history
<1>3. TypeOK'
  BY <1>1, MessagingAssumption DEF Suspend, Reactivate, TypeOK, gvars, history
<1>4. Grows
  BY <1>2, StillGrows
<1>5. TaskInv' /\ \A m \in Unannounced(Tasks) : Covered(m)'
  BY <1>1, <1>2, <1>4, TasksRest
<1>6. SocketInv' /\ PresenceIsTrue'
  BY <1>1, <1>2, <1>4, SocketsPersist, PresencePersists
<1> QED
  BY <1>2, <1>3, <1>4, <1>5, <1>6, GatewayKeeps

LEMMA ProcessStopsKeeps ==
    ASSUME Inv, ProcessStops
    PROVE  Inv'
<1>1. TypeOK /\ TaskInv /\ SocketInv
  BY DEF Inv
<1>2. /\ client' = [s \in Sockets |-> Null]
      /\ gone' = gone \cup Connected
      /\ rooms' = [s \in Sockets |-> {}]
      /\ onlineUsers' = [u \in Users |-> Null]
      /\ presence' = [u \in Users |-> FALSE]
      /\ task' = [t \in Tasks |-> IdleTask]
      /\ interrupted' = interrupted \cup Unannounced(Tasks)
      /\ UNCHANGED <<status, members, message, pushed, skipped, heard, seen>>
  BY DEF ProcessStops, GatewayStops, svars
<1>3. Unannounced(Tasks) \subseteq Messages
  BY <1>1 DEF Unannounced, TaskInv, Knows, At, Sent
<1>4. TypeOK'
  BY <1>1, <1>2, <1>3, IdleIsTask DEF ProcessStops, TypeOK, svars, Connected
<1>5. Grows
  BY <1>2 DEF Grows, Opened, Connected
<1>6. TaskInv'
  <2>1. \A t \in Tasks : Knows(t)'
    BY <1>2, IdleKnows
  <2> QED
    BY <1>2, <2>1 DEF TaskInv, At, IdleTask
<1>7. SocketInv' /\ PresenceIsTrue'
  <2>1. Connected' = {} /\ \A u \in Users : SocketsOf(u)' = {}
    BY <1>2, MessagingAssumption DEF Connected, SocketsOf
  <2> QED
    BY <1>2, <2>1 DEF SocketInv, PresenceIsTrue
<1>8. \A m \in Unannounced(Tasks) : Covered(m)'
  BY <1>2 DEF Covered
<1> QED
  BY <1>2, <1>4, <1>5, <1>6, <1>7, <1>8, GatewayKeeps

-----------------------------------------------------------------------------
LEMMA InitInv == Init => Inv
<1> SUFFICES ASSUME Init PROVE Inv
  OBVIOUS
<1>1. TypeOK
  BY IdleIsTask DEF Init, GatewayInit, ServiceInit, TypeOK
<1>2. TaskInv
  BY DEF Init, ServiceInit, TaskInv, Knows, At, IdleTask
<1>3. PresenceIsTrue /\ SocketInv
  <2>1. Connected = {} /\ \A u \in Users : SocketsOf(u) = {}
    BY MessagingAssumption DEF Init, GatewayInit, Connected, SocketsOf
  <2> QED
    BY <2>1 DEF Init, GatewayInit, PresenceIsTrue, SocketInv
<1>4. Sent = {} /\ MembersInv /\ SeenInv
  BY DEF Init, ServiceInit, MembersInv, Sent, SeenInv, UnseenBy
<1> QED
  BY <1>1, <1>2, <1>3, <1>4 DEF Inv, Init, ServiceInit, HeardByMembers, SentIsAnnounced

LEMMA NextInv == Inv /\ [Next]_vars => Inv'
<1> SUFFICES ASSUME Inv, [Next]_vars PROVE Inv'
  OBVIOUS
<1>1. ASSUME NEW t \in Tasks, Advances(t) PROVE Inv'
  BY <1>1, SaveConversationKeeps, SaveParticipantsKeeps, SaveMessageKeeps, AnnounceMessageKeeps,
     SavesKeep, ThrowsKeep, JoinEndsKeeps DEF Advances
<1>2. ASSUME NEW t \in Tasks, RequestThrows(t) PROVE Inv'
  BY <1>2, ThrowsKeep
<1>3. ASSUME NEW t \in Tasks, NEW u \in Users, Asks(t, u) PROVE Inv'
  BY <1>3, AsksKeeps
<1>4. ASSUME SocketEvents PROVE Inv'
  BY <1>4, HandleConnectionKeeps, HandleDisconnectKeeps, HandleLeaveConversationKeeps
     DEF SocketEvents
<1>5. ASSUME NEW u \in Watchers, Watch(u) PROVE Inv'
  BY <1>5, WatchKeeps
<1>6. ASSUME ProcessStops PROVE Inv'
  BY <1>6, ProcessStopsKeeps
<1>8. ASSUME NEW u \in Suspendable, Suspend(u) \/ Reactivate(u) PROVE Inv'
  BY <1>8, SuspensionKeeps
<1>7. CASE UNCHANGED vars
  <2>1. TypeOK /\ TaskInv /\ MembersInv /\ SocketInv /\ PresenceIsTrue
    BY DEF Inv
  <2>2. TypeOK'
    BY <1>7, <2>1 DEF vars, gvars, svars, history, TypeOK
  <2>3. UNCHANGED gvars /\ Grows /\ UNCHANGED <<client, gone, rooms>>
        /\ UNCHANGED <<status, members, message, task, pushed, skipped, heard, interrupted, seen>>
    BY <1>7, StillGrows DEF vars, gvars, svars, history
  <2>4. TaskInv' /\ \A m \in Unannounced(Tasks) : Covered(m)'
    BY <2>1, <2>3, TasksRest
  <2>5. SocketInv' /\ PresenceIsTrue'
    BY <2>1, <2>3, SocketsPersist, PresencePersists
  <2> QED
    BY <2>2, <2>3, <2>4, <2>5, GatewayKeeps
<1> QED
  BY <1>1, <1>2, <1>3, <1>4, <1>5, <1>6, <1>7, <1>8 DEF Next

-----------------------------------------------------------------------------
(* The theorems. *)

\* The inductive invariant holds however requests, connections and failures
\* interleave: what a request checked before its await is still so after it.
THEOREM MessagingInvariance == Spec => []Inv
<1>1. Init => Inv
  BY InitInv
<1>2. Inv /\ [Next]_vars => Inv'
  BY NextInv
<1> QED
  BY <1>1, <1>2, PTL DEF Spec

\* Presence never disagrees with the sockets that are connected.
THEOREM PresenceCorrect == Spec => []PresenceIsTrue
<1>1. Inv => PresenceIsTrue
  BY DEF Inv
<1> QED
  BY <1>1, MessagingInvariance, PTL

\* A message is heard live by participants of its conversation only.
THEOREM RoomsCorrect == Spec => []HeardByMembers
<1>1. Inv => HeardByMembers
  BY DEF Inv
<1> QED
  BY <1>1, MessagingInvariance, PTL

\* A stored message is announced, about to be, or was cut off.
THEOREM AnnouncedCorrect == Spec => []SentIsAnnounced
<1>1. Inv => SentIsAnnounced
  BY DEF Inv
<1> QED
  BY <1>1, MessagingInvariance, PTL

\* The badge of a role counts what the inbox of the role shows as unread, less what
\* its owner wrote to suspended users.
THEOREM BadgeCorrect == Spec => []BadgeWithinInbox
<1>1. Inv => BadgeWithinInbox
  <2> SUFFICES ASSUME Inv, NEW u \in Users, NEW role \in Roles \cup {NoRole}
               PROVE  Unread(u, role) = InInbox(u, role) \ WrittenToSuspended(u, role)
    BY DEF BadgeWithinInbox
  <2>1. \A m \in Sent : message[m].sender \in UsersIn(message[m].conversation)
    BY DEF Inv, MembersInv
  <2>2. ASSUME NEW c \in Inbox(u, role)
        PROVE  \E other : other # u /\ UsersIn(c) = {u, other}
    <3>1. c \in Conversations /\ u \in UsersIn(c)
      BY <2>2 DEF Inbox, Opened, UsersIn
    <3>2. TwoSides(members[c])
      BY <3>1 DEF Inv, MembersInv, UsersIn
    <3> QED
      BY <3>1, <3>2 DEF TwoSides, UsersIn
  <2>3. ASSUME NEW m \in Unread(u, role)
        PROVE  m \in InInbox(u, role) \ WrittenToSuspended(u, role)
    <3>1. PICK c \in Inbox(u, role) : c = message[m].conversation
      BY <2>3 DEF Unread
    <3>2. message[m].sender # u /\ message[m].sender \in UsersIn(c)
      BY <2>1, <2>3, <3>1 DEF Unread
    <3>3. m \in UnreadIn(c, u)
      BY <2>2, <2>3, <3>1, <3>2 DEF Unread, UnreadIn, MessagesIn, Receiver
    <3> QED
      BY <3>2, <3>3 DEF InInbox, WrittenToSuspended
  <2>4. ASSUME NEW m \in InInbox(u, role) \ WrittenToSuspended(u, role)
        PROVE  m \in Unread(u, role)
    <3>1. PICK c \in Inbox(u, role) : m \in UnreadIn(c, u)
      BY <2>4 DEF InInbox
    <3>2. m \in Sent \ (is_read \cup deleted) /\ c = message[m].conversation
      BY <3>1 DEF UnreadIn, MessagesIn
    <3>3. message[m].sender # u
      BY <2>4, <3>1, <3>2 DEF WrittenToSuspended, UnreadIn, Receiver
    <3> QED
      BY <3>1, <3>2, <3>3 DEF Unread
  <2> QED
    BY <2>3, <2>4
<1> QED
  BY <1>1, MessagingInvariance, PTL

\* A second conversation of two users was opened by a request that looked before the
\* first one had its participants.
THEOREM PairsCorrect == Spec => []NoSecondInSight
<1>1. Inv => NoSecondInSight
  <2> SUFFICES ASSUME Inv, NEW u \in Users, NEW other \in Users, u # other,
                      NEW c1 \in Conversations, NEW c2 \in Conversations,
                      {c1, c2} \subseteq Between(u, other), c1 \in seen[c2]
               PROVE  FALSE
    BY DEF NoSecondInSight
  <2>1. {u, other} \subseteq UsersIn(c1) /\ {u, other} \subseteq UsersIn(c2)
    BY DEF Between
  <2>2. TwoSides(members[c2])
    BY <2>1 DEF Inv, MembersInv, UsersIn
  <2>3. UsersIn(c2) = {u, other}
    BY <2>1, <2>2 DEF TwoSides, UsersIn
  <2> QED
    BY <2>1, <2>3 DEF Inv, SeenInv, UnseenBy, UsersIn
<1> QED
  BY <1>1, MessagingInvariance, PTL

-----------------------------------------------------------------------------
(* Messaging implements PrivateTalk. *)

Sides == [c \in Conversations |-> UsersIn(c)]
Told == pushed \cup skipped

LEMMA SidesStay ==
    ASSUME members' = members
    PROVE  Sides' = Sides
BY DEF Sides, UsersIn

\* A step that writes none of what PrivateTalk speaks of.
LEMMA StutterMaps ==
    ASSUME UNCHANGED <<members, message, pushed, skipped, heard, is_read, deleted>>
    PROVE  UNCHANGED Talk!tvars
BY DEF Talk!tvars, UsersIn

LEMMA MeetMaps ==
    ASSUME Inv, NEW t \in Tasks, SaveParticipants(t)
    PROVE  Talk!Next
<1> PICK c : c = task[t].conversation
  OBVIOUS
<1> PICK side : side = task[t].members
  OBVIOUS
<1>1. Knows(t) /\ task[t].pc = "adding"
  BY DEF Inv, TaskInv, SaveParticipants, At
<1>2. c \in Conversations /\ members[c] = {} /\ TwoSides(side)
  BY <1>1 DEF Knows, Opened
<1>3. PICK u \in Users, other \in Users, r1 \in Roles \cup {NoRole}, r2 \in Roles \cup {NoRole} :
          u # other /\ side = {[user |-> u, role |-> r1], [user |-> other, role |-> r2]}
  BY <1>2 DEF TwoSides
<1>4. {member.user : member \in side} = {u, other}
  BY <1>3
<1>5. /\ members' = [members EXCEPT ![c] = side]
      /\ members \in [Conversations -> SUBSET Member]
      /\ UNCHANGED <<message, pushed, skipped, heard, is_read, deleted>>
  BY DEF SaveParticipants, history, Inv, TypeOK
<1>6. UsersIn(c) = {}
  BY <1>2 DEF UsersIn
<1>7. /\ UsersIn(c)' = {u, other}
      /\ \A d \in Conversations : d # c => UsersIn(d)' = UsersIn(d)
  BY <1>2, <1>4, <1>5 DEF UsersIn
<1>8. Sides' = [Sides EXCEPT ![c] = {u, other}] /\ Sides[c] = {}
  BY <1>2, <1>6, <1>7 DEF Sides
<1>9. Talk!Meet(c, u, other)
  BY <1>3, <1>5, <1>8 DEF Talk!Meet, Sides
<1> QED
  BY <1>2, <1>9 DEF Talk!Next

LEMMA SayMaps ==
    ASSUME Inv, NEW t \in Tasks, SaveMessage(t)
    PROVE  Talk!Next
<1> PICK c : c = task[t].conversation
  OBVIOUS
<1> PICK u : u = task[t].user
  OBVIOUS
<1>1. Knows(t) /\ task[t].pc = "sending"
  BY DEF Inv, TaskInv, SaveMessage, At
<1>2. c \in Conversations /\ u \in Users /\ u \in UsersIn(c)
  BY <1>1 DEF Knows, Opened
<1>3. PICK m \in Messages \ Sent :
          message' = [message EXCEPT ![m] = [conversation |-> c, sender |-> u]]
  BY DEF SaveMessage
<1>4. UNCHANGED <<members, pushed, skipped, heard, is_read, deleted>>
  BY DEF SaveMessage, history
<1>5. Sides' = Sides /\ u \in Sides[c]
  BY <1>2, <1>4, SidesStay DEF Sides
<1>6. Talk!Say(m, c, u)
  BY <1>3, <1>4, <1>5 DEF Talk!Say, Sides, Sent
<1> QED
  BY <1>2, <1>3, <1>6 DEF Talk!Next

\* Whoever is in the room when the message comes is of its conversation.
LEMMA HearersAreMembers ==
    ASSUME SocketInv, NEW c \in Conversations
    PROVE  Hearers(c) \subseteq UsersIn(c)
BY DEF SocketInv, Hearers, Connected

LEMMA TellMaps ==
    ASSUME Inv, NEW t \in Tasks, AnnounceMessage(t)
    PROVE  Talk!Next
<1> PICK m : m = task[t].message
  OBVIOUS
<1> PICK c : c = task[t].conversation
  OBVIOUS
<1> PICK listeners : listeners = IF task[t].socket = Null THEN {} ELSE Hearers(c)
  OBVIOUS
<1>1. Knows(t) /\ task[t].pc = "announcing"
  BY DEF Inv, TaskInv, AnnounceMessage, At
<1>2. m \in Messages /\ message[m] # Null /\ c = message[m].conversation
  BY <1>1 DEF Knows, Sent
<1>3. c \in Conversations
  BY <1>2 DEF Inv, TypeOK, Message
<1>4. listeners \subseteq UsersIn(c) /\ UsersIn(c) \subseteq Users
  BY <1>3, HearersAreMembers DEF Inv, TypeOK, UsersIn, Member
<1>5. UNCHANGED <<members, message, is_read, deleted>>
  BY DEF AnnounceMessage, svars
<1>6. Sides' = Sides /\ Sides[c] = UsersIn(c)
  BY <1>3, <1>5, SidesStay DEF Sides
<1>7. /\ pushed' = pushed \cup Addressed(m, Recipients(m) \ watching)
      /\ skipped' = skipped \cup Addressed(m, Recipients(m) \cap watching)
  BY DEF AnnounceMessage
<1>8. Told' = Told \cup Addressed(m, Recipients(m))
  BY <1>7 DEF Told, Addressed
<1>9. heard' = heard \cup Addressed(m, listeners)
  BY DEF AnnounceMessage, Addressed
<1>10. Talk!Tell(m, listeners)
  BY <1>2, <1>4, <1>5, <1>6, <1>8, <1>9
  DEF Talk!Tell, Talk!Each, Talk!Side, Sides, Told, Addressed, Recipients
<1>11. listeners \in SUBSET Users
  BY <1>4
<1> QED
  BY <1>2, <1>10, <1>11 DEF Talk!Next

LEMMA MarkMaps ==
    ASSUME Inv, NEW t \in Tasks, SaveRead(t) \/ SaveDeletion(t)
    PROVE  Talk!Next
<1> PICK m : m = task[t].message
  OBVIOUS
<1>1. Knows(t) /\ task[t].pc \in {"marking", "deleting"}
  BY DEF Inv, TaskInv, SaveRead, SaveDeletion, At
<1>2. m \in Messages /\ message[m] # Null
  BY <1>1 DEF Knows, Sent
<1>3. UNCHANGED <<members, message, pushed, skipped, heard>>
  BY DEF SaveRead, SaveDeletion, history
<1>4. Sides' = Sides
  BY <1>3, SidesStay
<1>5. Talk!See(m) \/ Talk!Remove(m)
  BY <1>2, <1>3, <1>4 DEF SaveRead, SaveDeletion, Talk!See, Talk!Remove, Sides
<1> QED
  BY <1>2, <1>5 DEF Talk!Next

LEMMA NextMaps == Inv /\ [Next]_vars => [Talk!Next]_(Talk!tvars)
<1> SUFFICES ASSUME Inv, [Next]_vars PROVE [Talk!Next]_(Talk!tvars)
  OBVIOUS
<1>1. ASSUME NEW t \in Tasks, Advances(t)
      PROVE  [Talk!Next]_(Talk!tvars)
  <2>1. CASE SaveConversation(t) \/ SaveStatus(t) \/ JoinEnds(t)
    BY <2>1, StutterMaps DEF SaveConversation, SaveStatus, JoinEnds, svars, history
  <2>2. CASE ~(SaveConversation(t) \/ SaveStatus(t) \/ JoinEnds(t))
    BY <1>1, <2>2, MeetMaps, SayMaps, TellMaps, MarkMaps DEF Advances
  <2> QED
    BY <2>1, <2>2
<1>2. ASSUME NEW t \in Tasks, RequestThrows(t)
      PROVE  [Talk!Next]_(Talk!tvars)
  BY <1>2, StutterMaps DEF RequestThrows, svars
<1>3. ASSUME NEW t \in Tasks, NEW u \in Users, Asks(t, u)
      PROVE  [Talk!Next]_(Talk!tvars)
  <2>1. OnlyTask
    BY <1>3 DEF Asks, CreateConversation, Creates, SendMessage, UpdateConversation, DeleteConversation,
       HandleJoinConversation, MarkMessageAsRead, DeleteMessage
  <2> QED
    BY <2>1, StutterMaps DEF OnlyTask, svars, history
<1>4. CASE SocketEvents \/ (\E u \in Watchers : Watch(u)) \/ ProcessStops \/ UNCHANGED vars
           \/ \E u \in Suspendable : Suspend(u) \/ Reactivate(u)
  BY <1>4, StutterMaps
  DEF SocketEvents, Watch, Suspend, Reactivate, ProcessStops, vars, svars, history
<1> QED
  BY <1>1, <1>2, <1>3, <1>4 DEF Next

LEMMA InitMaps == Init => Talk!Init
<1> SUFFICES ASSUME Init PROVE Talk!Init
  OBVIOUS
<1>1. \A c \in Conversations : UsersIn(c) = {}
  BY DEF Init, ServiceInit, UsersIn
<1> QED
  BY <1>1 DEF Init, ServiceInit, Talk!Init

\* Seen through its tables and announcements, messaging with its checks before
\* awaits, sockets, failures and stops only takes PrivateTalk's atomic steps: a
\* conversation keeps the two who met in it, only they post and hear, the other side
\* of a message is told all at once, and marks and deletions stay.
THEOREM TalkImplemented == Spec => ImplementsPrivateTalk
<1>1. Inv /\ [Next]_vars => [Talk!Next]_(Talk!tvars)
  BY NextMaps
<1> QED
  BY <1>1, InitMaps, MessagingInvariance, PTL DEF Spec, ImplementsPrivateTalk, Talk!Spec
=============================================================================
