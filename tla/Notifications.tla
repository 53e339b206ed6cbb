--------------------------- MODULE Notifications ---------------------------
(***************************************************************************)
(* NotificationsService and what makes it speak, and their properties.     *)
(***************************************************************************)
EXTENDS NotificationsSubscriber

Request(t) ==
    \/ \E u \in Users : \/ OnEvent(t, u) \/ OnMessageSent(t, u) \/ Notify(t, u)
                        \/ \E d \in Devices : RegisterDeviceToken(t, u, d)
    \/ \E users \in SUBSET Users, promo \in BOOLEAN : Broadcast(t, users, promo)

Step(t) ==
    \/ SendEmail(t) \/ Deliver(t) \/ DropOptedOut(t) \/ SaveRows(t)
    \/ CheckPushEnabled(t) \/ FindDevices(t) \/ SendToTokens(t) \/ Prune(t)
    \/ SaveToken(t) \/ RefuseToken(t) \/ Fails(t)

Act(u) ==
    \/ OpenFeed(u)
    \/ \E d \in Devices : RemoveDeviceToken(d, u)
    \/ \E on, now \in SUBSET Channels : UpdatePreferences(u, on, now)
    \/ \E ids \in SUBSET Ids : MarkRead(u, ids)

Next ==
    \/ \E t \in Tasks : Request(t) \/ Step(t)
    \/ \E u \in Users : Act(u)
    \/ FindAll
    \/ Stop

Spec == ServiceInit /\ [][Next]_vars

-----------------------------------------------------------------------------
Told(id) == {u \in Users : id \in Range(feed[u])}

\* Type correctness of the tables, the requests, the reader and the history.
TypeOK ==
    /\ owner \in [Devices -> Users \cup {Null}]
    /\ off \in [Users -> SUBSET Channels]
    /\ feed \in [Users -> Seq(Ids)]
    /\ read \in [Users -> SUBSET Ids]
    /\ task \in [Tasks -> Task]
    /\ begun \in 0 .. MaxRequests
    /\ reader \in Reader
    /\ delivered \subseteq Delivery
    /\ asked \in [Ids -> SUBSET Users]
    /\ holder \in [Devices -> Users \cup {Null}]
    /\ pruned \subseteq Devices
    /\ unsure \subseteq Devices
    /\ cut \subseteq Ids

\* notify is documented as persisting the notification before it pushes: whatever
\* reached a device or a socket is in the feed of that user.  Chat messages have no row.
PushedIsStored == \A delivery \in delivered :
    delivery.channel \in {"live", "push"} => delivery.user \in Told(delivery.id)

\* A broadcast reaches the feeds of all it must tell or of none, and none only while
\* it is on its way or when it was cut off; so does any other notice, whether or
\* not its e-mail could be sent.
ToldAllOrNone == \A id \in Ids :
    \/ asked[id] \subseteq Told(id)
    \/ Told(id) = {} /\ (InFlight(id) \/ id \in cut)

\* Before it prunes, a broadcast has passed every device it found to FCM, and none
\* of them twice, whatever the limit of one call.
EveryDeviceOnce == \A t \in Tasks :
    At(t, "pruning") /\ task[t].kind = "broadcast" => task[t].tried = task[t].rows

\* A token belongs to the user who signed in last on its device, or to nobody if
\* they signed out or FCM called it dead.
TokenFollowsSignIn == \A d \in Devices :
    \/ owner[d] = holder[d]
    \/ owner[d] = Null /\ d \in pruned
    \/ Registering(d) \/ d \in unsure

\* Opening the feed page by page misses nothing that was in it at the start, however
\* many notices arrive and whatever is marked as read meanwhile.
WalkMissesNothing == reader.user = Null => reader.missing = {}

\* A channel that has been off since before a request began carries nothing of it,
\* and who has marketing off gets no row of a promotion either.
OffMeansOff == \A t \in Tasks, u \in Users :
    LET closed == task[t].off[u]
        channels == {delivery.channel : delivery \in
                        {d \in delivered : d.id = task[t].id /\ d.user = u}}
    IN  /\ "email" \in closed => "email" \notin channels
        /\ "push" \in closed => channels \subseteq {"email", "live"}
        /\ task[t].promo /\ "promotions" \in closed => channels = {} /\ u \notin Told(task[t].id)

\* What a push says is for the user who is signed in on the device it reaches.
PushReachesItsUser == \A delivery \in delivered :
    delivery.channel \in {"push", "chat"} =>
        holder[delivery.device] = delivery.user \/ delivery.device \in unsure

(***************************************************************************)
(* The inductive invariant behind them: what a request in flight may rely  *)
(* on.  Rows of the feed are never removed; a channel in the off of a      *)
(* request is still off; whoever registers a device nobody else is busy    *)
(* with is still the last who did; a broadcast has tried the rows before   *)
(* the next one; and what a reader still has to see is among the oldest    *)
(* rows, beyond the pages they opened.                                     *)
(***************************************************************************)
Pushes(t) == task[t].pc \in {"finding", "sending", "pruning"}
Tells(t) == task[t].kind \notin {"chat", "register"}

IdleInv == \A t \in Tasks : At(t, "idle") => task[t] = IdleTask

IdInv ==
    /\ \A t \in Tasks : ~At(t, "idle") => task[t].id \in 1 .. begun
    /\ \A s, t \in Tasks : task[s].id = task[t].id => s = t \/ At(s, "idle")
    /\ \A id \in Ids : id > begun => asked[id] = {} /\ Told(id) = {}

FeedInv == \A t \in Tasks : ~At(t, "idle") => IF ~Tells(t) THEN asked[task[t].id] = {} ELSE
    /\ task[t].pc \in {"emailing", "delivering", "filtering", "saving"} => Told(task[t].id) = {}
    /\ task[t].pc \in {"emailing", "delivering", "filtering", "saving"} =>
          asked[task[t].id] \subseteq task[t].users
    /\ task[t].pc \in {"preferring", "finding", "sending", "pruning"} =>
          task[t].users \cup asked[task[t].id] \subseteq Told(task[t].id)
    /\ At(t, "filtering") /\ task[t].promo =>
          asked[task[t].id] \cap PreferenceOff("promotions") = {}

OffInv == \A t \in Tasks, u \in Users :
    LET closed == task[t].off[u]
    IN  /\ closed \subseteq off[u]
        /\ At(t, "delivering") /\ u \in task[t].users => "email" \notin closed
        /\ Pushes(t) /\ u \in task[t].users => "push" \notin closed
        /\ task[t].promo /\ ~At(t, "filtering") /\ u \in task[t].users =>
              "promotions" \notin closed

KindInv == \A t \in Tasks :
    /\ task[t].device # Null <=> At(t, "registering")
    /\ At(t, "registering") <=> task[t].kind = "register"
    /\ task[t].kind = "chat" => task[t].pc \in {"preferring", "finding", "sending", "pruning"}
    /\ task[t].pc \in {"emailing", "delivering"} => ~task[t].promo
    /\ task[t].rows # <<>> => task[t].pc \in {"sending", "pruning"}

DeviceInv == \A t \in Tasks :
    /\ \A row \in Range(task[t].rows) :
          /\ row.user \in task[t].users
          /\ row.token \in unsure \/ holder[row.token] = row.user
    /\ At(t, "registering") =>
          LET d == task[t].device
          IN  \/ d \in unsure
              \/ /\ task[t].users = {holder[d]}
                 /\ task[t].existing <=> owner[d] # Null
                 /\ \A s \in Tasks \ {t} : task[s].device # d

SentInv == \A t \in Tasks :
    LET sent == SubSeq(task[t].rows, 1, task[t].next - 1)
    IN  /\ task[t].pc \notin {"sending", "pruning"} => task[t].next = 1 /\ task[t].tried = <<>>
        /\ At(t, "sending") => task[t].next \in 1 .. Len(task[t].rows)
        /\ At(t, "sending") /\ task[t].kind = "broadcast" => task[t].tried = sent

WalkInv == reader.user # Null =>
    LET rows == feed[reader.user]
    IN  /\ reader.page > 0
        /\ reader.missing \subseteq
              {rows[i] : i \in 1 .. Len(rows) - (reader.page - 1) * FeedLimit}

Inv == TypeOK /\ PushedIsStored /\ OffMeansOff /\ ToldAllOrNone /\ TokenFollowsSignIn
       /\ PushReachesItsUser /\ EveryDeviceOnce /\ WalkMissesNothing /\ IdleInv /\ IdInv
       /\ FeedInv /\ OffInv /\ KindInv /\ DeviceInv /\ SentInv /\ WalkInv
=============================================================================
