------------------------ MODULE NotificationsService ------------------------
(***************************************************************************)
(* NotificationsService over its tables notifications, device_tokens and   *)
(* notification_preferences, with FcmService behind it.  A request stands  *)
(* for one notice, and is its own text: ids number them in the order in    *)
(* which they began.  Firebase is configured; createJob has no caller.     *)
(***************************************************************************)
EXTENDS Integers, Sequences, FiniteSets, SequencesExt

CONSTANTS
    Users,
    Devices,               \* FCM tokens, one for each installation of the app
    FCM_MULTICAST_LIMIT,
    FeedLimit,             \* rows in a page of the feed
    Readers,               \* bound: users who open their feed
    MaxRequests,           \* bound: requests begun
    Tasks,                 \* bound: requests in flight at a time
    Faults,                \* whether calls may fail and the process may stop
    Null

Channels == {"push", "email", "promotions"}
Ids == 1 .. MaxRequests

ASSUME NotificationAssumption ==
    /\ FCM_MULTICAST_LIMIT \in Nat \ {0}
    /\ FeedLimit \in Nat \ {0}
    /\ Readers \subseteq Users
    /\ MaxRequests \in Nat
    /\ IsFiniteSet(Devices)
    /\ Null \notin Users
    /\ Null \notin Devices
    /\ Faults \in BOOLEAN

VARIABLES
    owner,        \* device_tokens: whose device it is; Null: no such row
    off,          \* notification_preferences: what a user switched off
    feed,         \* notifications: rows of a user, oldest first
    read,         \* those with read_at
    task,         \* each request in flight
    begun,        \* how many requests began
    reader,       \* somebody who walks the pages of their feed
    delivered,    \* history: what the last step sent out, and to whom
    asked,        \* history: whom a request must tell
    holder,       \* history: who last signed in on a device, unless signed out
    pruned,       \* history: devices deleted as dead and not registered again
    unsure,       \* history: devices that were registered or removed while another
                  \* request about them was in flight, or whose registration failed
    cut           \* history: requests that failed half way

tables == <<owner, off, feed, read>>
devices == <<holder, pruned, unsure>>
vars == <<tables, task, begun, reader, delivered, asked, devices, cut>>

TaskPcs == {"idle", "emailing", "delivering", "filtering", "saving", "preferring",
            "finding", "sending", "pruning", "registering"}
DeviceRow == [token : Devices, user : Users]
Task == [pc : TaskPcs, kind : {"notice", "event", "broadcast", "chat", "register"},
         id : Ids \cup {0}, promo : BOOLEAN, users : SUBSET Users,
         rows : Seq(DeviceRow), next : Nat, tried : Seq(DeviceRow), dead : SUBSET Devices,
         device : Devices \cup {Null}, existing : BOOLEAN, off : [Users -> SUBSET Channels]]
NothingOff == [u \in Users |-> {}]
IdleTask == [pc |-> "idle", kind |-> "event", id |-> 0, promo |-> FALSE, users |-> {},
             rows |-> <<>>, next |-> 1, tried |-> <<>>, dead |-> {}, device |-> Null,
             existing |-> FALSE, off |-> NothingOff]
Delivery == [id : Ids, user : Users, channel : {"email", "live", "push", "chat"},
             device : Devices \cup {Null}]
Reader == [user : Users \cup {Null}, page : Nat, missing : SUBSET Ids]
IdleReader == [user |-> Null, page |-> 0, missing |-> {}]

At(t, pc) == task[t].pc = pc
InFlight(id) == \E t \in Tasks : task[t].id = id /\ ~At(t, "idle")
Pushing(t) == {row.token : row \in Range(task[t].rows)}
Busy(d) == \E t \in Tasks : task[t].device = d \/ d \in Pushing(t)
Registering(d) == \E t \in Tasks : task[t].device = d

MayBegin(t) == At(t, "idle") /\ begun < MaxRequests
Begins(t, local) ==
    /\ MayBegin(t)
    /\ begun' = begun + 1
    /\ task' = [task EXCEPT ![t] = [local EXCEPT
          !.id = begun + 1,
          !.off = [u \in Users |-> IF u \in local.users THEN off[u] ELSE {}]]]
Goto(t, local) == task' = [task EXCEPT ![t] = local] /\ begun' = begun
Returns(t) == Goto(t, IdleTask)
Silent == delivered' = {}

ServiceInit ==
    /\ owner \in [Devices -> Users \cup {Null}]
    /\ off = [u \in Users |-> {}]
    /\ feed = [u \in Users |-> <<>>]
    /\ read = [u \in Users |-> {}]
    /\ task = [t \in Tasks |-> IdleTask]
    /\ begun = 0
    /\ reader = IdleReader
    /\ delivered = {}
    /\ asked = [id \in Ids |-> {}]
    /\ holder = owner
    /\ pruned = {}
    /\ unsure = {}
    /\ cut = {}

-----------------------------------------------------------------------------
(* notify and notifyUsers *)

PreferenceOff(channel) == {u \in Users : channel \in off[u]}

\* usersWithDisabled: who opted out of marketing is dropped; a known domain event
\* has no promotional tag.
DropOptedOut(t) ==
    LET users == task[t].users \ (IF task[t].promo THEN PreferenceOff("promotions") ELSE {})
    IN  /\ At(t, "filtering")
        /\ IF users = {} THEN Returns(t)
           ELSE Goto(t, [task[t] EXCEPT !.pc = "saving", !.users = users])
        /\ Silent
        /\ UNCHANGED <<tables, reader, asked, devices, cut>>

\* Mutant: the rows are saved one by one, and the first one that fails ends it.
FirstRow(t) == {CHOOSE u \in task[t].users : TRUE}
RowsFor(t) == task[t].users

Messages(local, users, channel) ==
    [id : {local.id}, user : users, channel : {channel}, device : {Null}]

\* One row for each, in one transaction; then the sockets of each hear of it.
SaveRows(t) ==
    /\ At(t, "saving")
    /\ feed' = [u \in Users |-> IF u \in RowsFor(t) THEN Append(feed[u], task[t].id) ELSE feed[u]]
    /\ delivered' = Messages(task[t], task[t].users, "live")
    /\ Goto(t, [task[t] EXCEPT !.pc = "preferring"])
    /\ UNCHANGED <<owner, off, read, reader, asked, devices, cut>>

-----------------------------------------------------------------------------
(* pushToUser and pushToUsers *)

PushTargets(t) == task[t].users \ PreferenceOff("push")

CheckPushEnabled(t) ==
    /\ At(t, "preferring")
    /\ IF PushTargets(t) = {} THEN Returns(t)
       ELSE Goto(t, [task[t] EXCEPT !.pc = "finding", !.users = PushTargets(t)])
    /\ Silent
    /\ UNCHANGED <<tables, reader, asked, devices, cut>>

FoundFor(users) == {row \in DeviceRow : row.user \in users /\ owner[row.token] = row.user}

\* In whatever order the database returns them.
FindDevices(t) ==
    LET found == FoundFor(task[t].users)
    IN  /\ At(t, "finding")
        /\ IF found = {} THEN Returns(t)
           ELSE \E rows \in SetToSeqs(found) :
                   Goto(t, [task[t] EXCEPT !.pc = "sending", !.rows = rows])
        /\ unsure' = unsure \cup {row.token : row \in {r \in found : Registering(r.token)}}
        /\ Silent
        /\ UNCHANGED <<tables, reader, asked, holder, pruned, cut>>

\* Mutant: a chunk ends one too far.
LongChunk(rows, i) == SubSeq(rows, i, Min({Len(rows), i + FCM_MULTICAST_LIMIT}))
Chunk(rows, i) == SubSeq(rows, i, Min({Len(rows), i + FCM_MULTICAST_LIMIT - 1}))

\* pushToUsers sends chunk after chunk, pushToUser everything in one call.
NextCall(local) ==
    IF local.kind = "broadcast" THEN Chunk(local.rows, local.next) ELSE local.rows
After(local) ==
    IF local.kind = "broadcast" THEN local.next + FCM_MULTICAST_LIMIT ELSE Len(local.rows) + 1

\* FCM refuses a call with too many tokens, and a call may fail; else it delivers to
\* some, calls some dead and neither of the rest.
FcmAnswers(call) == {answer \in [reached : SUBSET Range(call), dead : SUBSET Range(call)] :
    /\ answer.reached \cap answer.dead = {}
    /\ Len(call) > FCM_MULTICAST_LIMIT => answer.reached \cup answer.dead = {}}

Pushed(local, rows) ==
    {[id |-> local.id, user |-> row.user, device |-> row.token,
      channel |-> IF local.kind = "chat" THEN "chat" ELSE "push"] : row \in rows}

SendToTokens(t) ==
    LET local == task[t]  call == NextCall(local)
    IN  /\ At(t, "sending")
        /\ \E answer \in FcmAnswers(call) :
              /\ delivered' = Pushed(local, answer.reached)
              /\ Goto(t, [local EXCEPT
                    !.pc = IF After(local) > Len(local.rows) THEN "pruning" ELSE "sending",
                    !.next = After(local),
                    !.tried = @ \o call,
                    !.dead = @ \cup {row.token : row \in answer.dead}])
        /\ UNCHANGED <<tables, reader, asked, devices, cut>>

\* The rows are gone: a registration that found one will insert it anew.
Without(tokens) == [d \in Devices |-> IF d \in tokens THEN Null ELSE owner[d]]
Forget(tasks, tokens) ==
    [t \in Tasks |-> [tasks[t] EXCEPT !.existing = @ /\ tasks[t].device \notin tokens]]

Prune(t) ==
    /\ At(t, "pruning")
    /\ owner' = Without(task[t].dead)
    /\ pruned' = pruned \cup task[t].dead
    /\ task' = Forget([task EXCEPT ![t] = IdleTask], task[t].dead)
    /\ Silent
    /\ UNCHANGED <<off, feed, read, begun, reader, asked, holder, unsure, cut>>

-----------------------------------------------------------------------------
(* Device tokens *)

RegisterDeviceToken(t, u, d) ==
    /\ Begins(t, [IdleTask EXCEPT !.pc = "registering", !.kind = "register", !.users = {u},
                                  !.device = d, !.existing = owner[d] # Null])
    /\ holder' = [holder EXCEPT ![d] = u]
    /\ unsure' = IF Busy(d) THEN unsure \cup {d} ELSE unsure
    /\ Silent
    /\ UNCHANGED <<tables, reader, asked, pruned, cut>>

\* Saving a row that is there updates it; else one is inserted.
SaveToken(t) ==
    LET d == task[t].device
    IN  /\ At(t, "registering")
        /\ task[t].existing \/ owner[d] = Null
        /\ \E u \in task[t].users : owner' = [owner EXCEPT ![d] = u]
        /\ pruned' = pruned \ {d}
        /\ Returns(t)
        /\ Silent
        /\ UNCHANGED <<off, feed, read, reader, asked, holder, unsure, cut>>

\* The unique index refuses a second row of a token.
RefuseToken(t) ==
    /\ At(t, "registering")
    /\ ~task[t].existing /\ owner[task[t].device] # Null
    /\ Returns(t)
    /\ Silent
    /\ UNCHANGED <<tables, reader, asked, devices, cut>>

\* Mutant: a token is removed whosever it is.
AnyOwner(d, u) == owner[d] # Null
Removable(d, u) == owner[d] = u

\* DELETE WHERE token and user; a client signs out with its own token.
RemoveDeviceToken(d, u) ==
    /\ begun < MaxRequests
    /\ begun' = begun + 1
    /\ owner' = IF Removable(d, u) THEN Without({d}) ELSE owner
    /\ task' = IF Removable(d, u) THEN Forget(task, {d}) ELSE task
    /\ holder' = [holder EXCEPT ![d] = IF @ = u THEN Null ELSE @]
    /\ unsure' = IF Busy(d) THEN unsure \cup {d} ELSE unsure
    /\ Silent
    /\ UNCHANGED <<off, feed, read, reader, asked, pruned, cut>>

-----------------------------------------------------------------------------
(* Preferences and the feed *)

\* One upsert; channels it does not name keep their value.
UpdatePreferences(u, on, now) ==
    /\ begun < MaxRequests
    /\ begun' = begun + 1
    /\ on \cup now # {} /\ on \cap now = {}
    /\ off' = [off EXCEPT ![u] = (@ \ on) \cup now]
    /\ task' = [t \in Tasks |-> [task[t] EXCEPT !.off[u] = @ \ on]]
    /\ asked' = [id \in Ids |->
          IF "promotions" \in now /\ \E t \in Tasks : task[t].id = id /\ task[t].promo
          THEN asked[id] \ {u} ELSE asked[id]]
    /\ Silent
    /\ UNCHANGED <<owner, feed, read, reader, devices, cut>>

MarkRead(u, ids) ==
    /\ u \in Readers
    /\ ids \subseteq Range(feed[u]) \ read[u] /\ ids # {}
    /\ Cardinality(ids) = 1 \/ ids = Range(feed[u]) \ read[u]
    /\ read' = [read EXCEPT ![u] = @ \cup ids]
    /\ Silent
    /\ UNCHANGED <<owner, off, feed, task, begun, reader, asked, devices, cut>>

\* Mutant: what is unread comes first.
UnreadFirst(u) ==
    SelectSeq(Reverse(feed[u]), LAMBDA id : id \notin read[u])
        \o SelectSeq(Reverse(feed[u]), LAMBDA id : id \in read[u])
Listed(u) == Reverse(feed[u])

Page(rows, page) ==
    SubSeq(rows, (page - 1) * FeedLimit + 1, Min({Len(rows), page * FeedLimit}))
TotalPages(rows) == (Len(rows) + FeedLimit - 1) \div FeedLimit

\* findAll, by somebody who opens page after page.
OpenFeed(u) ==
    /\ u \in Readers
    /\ reader = IdleReader
    /\ reader' = [user |-> u, page |-> 1, missing |-> Range(feed[u])]
    /\ Silent
    /\ UNCHANGED <<tables, task, begun, asked, devices, cut>>

FindAll ==
    LET rows == Listed(reader.user)
        left == reader.missing \ Range(Page(rows, reader.page))
    IN  /\ reader.user # Null
        /\ reader' = IF reader.page < TotalPages(rows)
                     THEN [reader EXCEPT !.page = @ + 1, !.missing = left]
                     ELSE [IdleReader EXCEPT !.missing = left]
        /\ Silent
        /\ UNCHANGED <<tables, task, begun, asked, devices, cut>>

-----------------------------------------------------------------------------
(* Failures *)

Unsettled(t) == {task[t].device} \ {Null}

\* A query fails.  What the services only log fails in the steps themselves.
Fails(t) ==
    /\ Faults
    /\ task[t].pc \notin {"idle", "emailing", "delivering", "sending"}
    /\ unsure' = unsure \cup Unsettled(t)
    /\ cut' = cut \cup {task[t].id}
    /\ Returns(t)
    /\ Silent
    /\ UNCHANGED <<tables, reader, asked, holder, pruned>>

Stop ==
    /\ Faults
    /\ \E t \in Tasks : ~At(t, "idle")
    /\ unsure' = unsure \cup UNION {Unsettled(t) : t \in Tasks}
    /\ cut' = cut \cup {id \in Ids : InFlight(id)}
    /\ task' = [t \in Tasks |-> IdleTask]
    /\ Silent
    /\ UNCHANGED <<tables, begun, reader, asked, holder, pruned>>
=============================================================================
