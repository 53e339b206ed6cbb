------------------------ MODULE NotificationsProofs ------------------------
(***************************************************************************)
(* Proofs about Notifications for any users, devices and limits and any    *)
(* number of requests in flight: the inductive invariant, and the          *)
(* properties of feeds, pushes and device tokens it implies.               *)
(***************************************************************************)
EXTENDS Notifications, FiniteSetTheorems, SequenceTheorems, TLAPS

-----------------------------------------------------------------------------
(* Sequences *)

LEMMA RangeElements ==
    ASSUME NEW S, NEW seq \in Seq(S)
    PROVE  \A x : x \in Range(seq) <=> \E i \in 1 .. Len(seq) : seq[i] = x
<1>1. Len(seq) \in Nat /\ DOMAIN seq = 1 .. Len(seq)
  BY LenProperties
<1>2. \A x : x \in Range(seq) <=> \E i \in 1 .. Len(seq) : seq[i] = x
  BY <1>1 DEF Range
<1> QED
  BY <1>2

LEMMA RangeOfAppend ==
    ASSUME NEW S, NEW seq \in Seq(S), NEW e \in S
    PROVE  /\ Append(seq, e) \in Seq(S)
           /\ Len(Append(seq, e)) = Len(seq) + 1
           /\ \A i \in 1 .. Len(seq) : Append(seq, e)[i] = seq[i]
           /\ Range(Append(seq, e)) = Range(seq) \cup {e}
<1>1. /\ Append(seq, e) \in Seq(S) /\ Len(Append(seq, e)) = Len(seq) + 1
      /\ \A i \in 1 .. Len(seq) : Append(seq, e)[i] = seq[i]
      /\ Append(seq, e)[Len(seq) + 1] = e /\ Len(seq) \in Nat
  OBVIOUS
<1>2. \A x : x \in Range(Append(seq, e)) <=> \E i \in 1 .. Len(seq) + 1 : Append(seq, e)[i] = x
  <2> PICK longer : longer = Append(seq, e)
    OBVIOUS
  <2>1. longer \in Seq(S) /\ Len(longer) = Len(seq) + 1
    BY <1>1
  <2>2. \A x : x \in Range(longer) <=> \E i \in 1 .. Len(longer) : longer[i] = x
    BY <2>1, RangeElements
  <2> QED
    BY <2>1, <2>2
<1>3. \A x : x \in Range(seq) <=> \E i \in 1 .. Len(seq) : seq[i] = x
  BY RangeElements
<1>4. \A x : x \in Range(Append(seq, e)) <=> x \in Range(seq) \cup {e}
  BY <1>1, <1>2, <1>3
<1> QED
  BY <1>1, <1>4

LEMMA PartOf ==
    ASSUME NEW S, NEW seq \in Seq(S), NEW m \in 1 .. Len(seq), NEW n \in m .. Len(seq)
    PROVE  /\ SubSeq(seq, m, n) \in Seq(S) /\ Len(SubSeq(seq, m, n)) = n - m + 1
           /\ \A k \in 1 .. n - m + 1 : SubSeq(seq, m, n)[k] = seq[m + k - 1]
<1>1. Len(seq) \in Nat /\ \A k \in 1 .. Len(seq) : seq[k] \in S
  BY LenProperties, ElementOfSeq
<1>2. m \in Int /\ n \in Int /\ m <= n /\ \A k \in m .. n : seq[k] \in S
  BY <1>1
<1> QED
  BY <1>2, SubSeqProperties

LEMMA MinOfTwo ==
    ASSUME NEW a \in Int, NEW b \in Int
    PROVE  Min({a, b}) = IF a <= b THEN a ELSE b
<1>1. \E x \in {a, b} : \A y \in {a, b} : x <= y
  OBVIOUS
<1>2. Min({a, b}) \in {a, b} /\ \A y \in {a, b} : Min({a, b}) <= y
  BY <1>1 DEF Min
<1> QED
  BY <1>2

\* A chunk is the rows from i on, as many as one call may have.
LEMMA ChunkIsPart ==
    ASSUME NEW rows \in Seq(DeviceRow), NEW i \in 1 .. Len(rows), FCM_MULTICAST_LIMIT \in Nat \ {0}
    PROVE  /\ Chunk(rows, i) \in Seq(DeviceRow)
           /\ Range(Chunk(rows, i)) \subseteq Range(rows)
           /\ i + FCM_MULTICAST_LIMIT <= Len(rows) =>
                 Chunk(rows, i) = SubSeq(rows, i, i + FCM_MULTICAST_LIMIT - 1)
           /\ i + FCM_MULTICAST_LIMIT > Len(rows) => Chunk(rows, i) = SubSeq(rows, i, Len(rows))
<1>1. Len(rows) \in Nat /\ \A k \in 1 .. Len(rows) : rows[k] \in DeviceRow
  BY LenProperties, ElementOfSeq
<1>2. PICK j : j = Min({Len(rows), i + FCM_MULTICAST_LIMIT - 1})
  OBVIOUS
<1>3. j = IF Len(rows) <= i + FCM_MULTICAST_LIMIT - 1 THEN Len(rows) ELSE i + FCM_MULTICAST_LIMIT - 1
  BY <1>1, <1>2, MinOfTwo
<1>4. Chunk(rows, i) = SubSeq(rows, i, j)
  BY <1>2 DEF Chunk
<1>5. j \in i .. Len(rows)
  BY <1>1, <1>3
<1>6. /\ SubSeq(rows, i, j) \in Seq(DeviceRow) /\ Len(SubSeq(rows, i, j)) = j - i + 1
      /\ \A k \in 1 .. j - i + 1 : SubSeq(rows, i, j)[k] = rows[i + k - 1]
  BY <1>1, <1>5, SubSeqProperties
<1>7. Range(SubSeq(rows, i, j)) \subseteq Range(rows)
  <2>1. \A x : x \in Range(SubSeq(rows, i, j)) <=>
               \E k \in 1 .. j - i + 1 : SubSeq(rows, i, j)[k] = x
    BY <1>6, RangeElements
  <2>2. \A x : x \in Range(rows) <=> \E k \in 1 .. Len(rows) : rows[k] = x
    BY RangeElements
  <2>3. \A k \in 1 .. j - i + 1 : SubSeq(rows, i, j)[k] = rows[i + k - 1] /\ i + k - 1 \in 1 .. Len(rows)
    BY <1>1, <1>5, <1>6
  <2> QED
    BY <2>1, <2>2, <2>3
<1> QED
  BY <1>1, <1>3, <1>4, <1>6, <1>7

\* The rows before the next one and the chunk that starts there.
LEMMA ChunkExtends ==
    ASSUME NEW rows \in Seq(DeviceRow), NEW i \in 1 .. Len(rows), FCM_MULTICAST_LIMIT \in Nat \ {0}
    PROVE  /\ i + FCM_MULTICAST_LIMIT <= Len(rows) =>
                 SubSeq(rows, 1, i - 1) \o Chunk(rows, i)
                    = SubSeq(rows, 1, i + FCM_MULTICAST_LIMIT - 1)
           /\ i + FCM_MULTICAST_LIMIT > Len(rows) => SubSeq(rows, 1, i - 1) \o Chunk(rows, i) = rows
<1>1. Len(rows) \in Nat
  BY LenProperties
<1>2. ASSUME NEW j \in i - 1 .. Len(rows)
      PROVE  SubSeq(rows, 1, i - 1) \o SubSeq(rows, i, j) = SubSeq(rows, 1, j)
  <2>1. 1 \in 1 .. Len(rows) + 1 /\ i - 1 \in 1 - 1 .. Len(rows) /\ j \in i - 1 .. Len(rows)
    BY <1>1
  <2>2. SubSeq(rows, 1, i - 1) \o SubSeq(rows, (i - 1) + 1, j) = SubSeq(rows, 1, j)
    BY <2>1, ConcatAdjacentSubSeq
  <2> QED
    BY <2>2
<1>3. SubSeq(rows, 1, Len(rows)) = rows
  BY SubSeqFull
<1>4. ASSUME i + FCM_MULTICAST_LIMIT <= Len(rows)
      PROVE  SubSeq(rows, 1, i - 1) \o Chunk(rows, i) = SubSeq(rows, 1, i + FCM_MULTICAST_LIMIT - 1)
  <2>1. i + FCM_MULTICAST_LIMIT - 1 \in i - 1 .. Len(rows)
    BY <1>1, <1>4
  <2>2. Chunk(rows, i) = SubSeq(rows, i, i + FCM_MULTICAST_LIMIT - 1)
    BY <1>4, ChunkIsPart
  <2> QED
    BY <1>2, <2>1, <2>2
<1>5. ASSUME i + FCM_MULTICAST_LIMIT > Len(rows)
      PROVE  SubSeq(rows, 1, i - 1) \o Chunk(rows, i) = rows
  <2>1. Len(rows) \in i - 1 .. Len(rows)
    BY <1>1
  <2>2. Chunk(rows, i) = SubSeq(rows, i, Len(rows))
    BY <1>5, ChunkIsPart
  <2> QED
    BY <1>2, <1>3, <2>1, <2>2
<1> QED
  BY <1>1, <1>4, <1>5

-----------------------------------------------------------------------------
(* The invariant, request by request. *)

\* What a request is by itself.
Sane(local) ==
    /\ local.pc = "idle" => local = IdleTask
    /\ local.device # Null <=> local.pc = "registering"
    /\ local.pc = "registering" <=> local.kind = "register"
    /\ local.kind = "chat" => local.pc \in {"preferring", "finding", "sending", "pruning"}
    /\ local.pc \in {"emailing", "delivering"} => ~local.promo
    /\ local.rows # <<>> => local.pc \in {"sending", "pruning"}
    /\ local.pc \notin {"sending", "pruning"} => local.next = 1 /\ local.tried = <<>>
    /\ local.pc = "sending" => local.next \in 1 .. Len(local.rows)
    /\ local.pc = "sending" /\ local.kind = "broadcast" =>
          local.tried = SubSeq(local.rows, 1, local.next - 1)
    /\ local.pc = "pruning" /\ local.kind = "broadcast" => local.tried = local.rows

Early == {"emailing", "delivering", "filtering", "saving"}
Late == {"preferring", "finding", "sending", "pruning"}

\* The feeds and what the request must tell.
Fed(local) == local.pc # "idle" =>
    IF local.kind \in {"chat", "register"} THEN asked[local.id] = {} ELSE
    /\ local.pc \in Early => Told(local.id) = {} /\ asked[local.id] \subseteq local.users
    /\ local.pc \in Late => local.users \cup asked[local.id] \subseteq Told(local.id)
    /\ local.pc = "filtering" /\ local.promo =>
          asked[local.id] \cap PreferenceOff("promotions") = {}

\* The channels that were off when the request began, and still are.
Closed(local) == \A u \in Users :
    /\ local.off[u] \subseteq off[u]
    /\ local.pc = "delivering" /\ u \in local.users => "email" \notin local.off[u]
    /\ local.pc \in {"finding", "sending", "pruning"} /\ u \in local.users =>
          "push" \notin local.off[u]
    /\ local.promo /\ local.pc # "filtering" /\ u \in local.users =>
          "promotions" \notin local.off[u]
    /\ local.promo /\ "promotions" \in local.off[u] => u \notin Told(local.id)

\* The devices it is about to reach.
Reaches(local) == \A row \in Range(local.rows) :
    /\ row.user \in local.users
    /\ row.token \in unsure \/ holder[row.token] = row.user

Backed(local) ==
    /\ local.pc # "idle" => local.id \in 1 .. begun
    /\ Fed(local) /\ Closed(local) /\ Reaches(local)

TasksOK == \A t \in Tasks : Sane(task[t]) /\ Backed(task[t])
Unique == \A s, t \in Tasks : task[s].id = task[t].id => s = t \/ task[s].pc = "idle"
Unborn == \A id \in Ids : id > begun => asked[id] = {} /\ Told(id) = {}

\* A registration that nobody else disturbed.
Alone(t) ==
    /\ task[t].users = {holder[task[t].device]}
    /\ task[t].existing <=> owner[task[t].device] # Null
    /\ \A s \in Tasks \ {t} : task[s].device # task[t].device
RegInv == \A t \in Tasks :
    task[t].pc = "registering" => task[t].device \in unsure \/ Alone(t)

Sends == PushedIsStored /\ PushReachesItsUser /\ OffMeansOff
Walks == WalkMissesNothing /\ WalkInv

IndInv == TypeOK /\ TasksOK /\ Unique /\ Unborn /\ RegInv /\ Sends /\ ToldAllOrNone
          /\ TokenFollowsSignIn /\ Walks

LEMMA IndImpliesInv == IndInv => Inv
<1> SUFFICES ASSUME IndInv
             PROVE  Inv
  OBVIOUS
<1>1. \A t \in Tasks : Sane(task[t]) /\ Backed(task[t])
  BY DEF IndInv, TasksOK
<1>2. IdleInv /\ KindInv
  BY <1>1 DEF IdleInv, KindInv, Sane, At
<1>3. EveryDeviceOnce
  BY <1>1 DEF EveryDeviceOnce, Sane, At
<1>4. SentInv
  BY <1>1 DEF SentInv, Sane, At
<1>5. FeedInv
  BY <1>1 DEF FeedInv, Backed, Fed, Tells, At, Early, Late
<1>6. OffInv
  BY <1>1 DEF OffInv, Backed, Closed, Pushes, At
<1>7. DeviceInv
  <2>1. \A t \in Tasks : \A row \in Range(task[t].rows) :
           row.user \in task[t].users /\ (row.token \in unsure \/ holder[row.token] = row.user)
    BY <1>1 DEF Backed, Reaches
  <2>2. RegInv
    BY DEF IndInv
  <2> QED
    BY <2>1, <2>2 DEF DeviceInv, RegInv, Alone, At
<1>8. IdInv
  BY <1>1 DEF IdInv, IndInv, Unique, Unborn, Backed, At
<1> QED
  BY <1>2, <1>3, <1>4, <1>5, <1>6, <1>7, <1>8 DEF IndInv, Inv, Sends, Walks

-----------------------------------------------------------------------------
(* What is true of every step. *)

LEMMA IdleIsOK ==
    ASSUME begun' \in Nat, off' \in [Users -> SUBSET Channels]
    PROVE  IdleTask \in Task /\ Sane(IdleTask) /\ Backed(IdleTask)' /\ IdleTask.pc = "idle"
           /\ IdleTask.device = Null /\ IdleTask.id = 0 /\ IdleTask.rows = <<>>
<1>1. IdleTask \in Task
  BY EmptySeq DEF IdleTask, Task, TaskPcs, NothingOff
<1>2. Sane(IdleTask)
  BY DEF IdleTask, Sane
<1>3. Range(IdleTask.rows) = {}
  BY DEF IdleTask, Range
<1>4. Backed(IdleTask)'
  BY <1>3 DEF IdleTask, Backed, Fed, Closed, Reaches, NothingOff
<1> QED
  BY <1>1, <1>2, <1>4 DEF IdleTask

LEMMA OneTask ==
    ASSUME IndInv, NEW t \in Tasks, NEW new \in Task, task' = [task EXCEPT ![t] = new],
           Sane(new), Backed(new)',
           \A s \in Tasks \ {t} : \A other \in Task :
              other = task[s] /\ Backed(other) => Backed(other)'
    PROVE  TasksOK' /\ task' \in [Tasks -> Task]
<1>1. task \in [Tasks -> Task] /\ TasksOK
  BY DEF IndInv, TypeOK
<1>2. ASSUME NEW s \in Tasks
      PROVE  (Sane(task[s]) /\ Backed(task[s]))'
  <2> PICK own : own = task'[s]
    OBVIOUS
  <2>1. Sane(own) /\ Backed(own)'
    BY <1>1 DEF TasksOK
  <2> QED
    BY <2>1 DEF Sane, Backed, Fed, Closed, Reaches
<1> QED
  BY <1>1, <1>2 DEF TasksOK

\* A step that sends nothing out.
LEMMA SilentSends ==
    ASSUME Silent, TasksOK'
    PROVE  Sends'
<1>1. delivered' = {}
  BY DEF Silent
<1>2. PushedIsStored' /\ PushReachesItsUser'
  BY <1>1 DEF PushedIsStored, PushReachesItsUser
<1>3. ASSUME NEW s \in Tasks, NEW u \in Users, task'[s].promo, "promotions" \in task'[s].off[u]
      PROVE  u \notin Told(task[s].id)'
  BY <1>3 DEF TasksOK, Backed, Closed
<1>4. OffMeansOff'
  BY <1>1, <1>3 DEF OffMeansOff
<1> QED
  BY <1>2, <1>4 DEF Sends

\* Steps that leave the feeds, the preferences and who is signed in alone.
Steady ==
    /\ UNCHANGED <<off, feed, asked, holder, begun>>
    /\ unsure \subseteq unsure'

LEMMA SteadyBacked ==
    ASSUME Steady, NEW local, Backed(local)
    PROVE  Backed(local)'
<1>1. \A id : Told(id)' = Told(id)
  BY DEF Told, Steady
<1>2. Fed(local)'
  BY <1>1 DEF Backed, Fed, PreferenceOff, Steady
<1>3. Closed(local)'
  BY <1>1 DEF Backed, Closed, Steady
<1>4. Reaches(local)'
  BY DEF Backed, Reaches, Steady
<1> QED
  BY <1>2, <1>3, <1>4 DEF Backed, Steady

\* A request that is under way moves on or ends, and has no device to register any more.
LEMMA MovesOn ==
    ASSUME IndInv, NEW t \in Tasks, NEW new \in Task, task' = [task EXCEPT ![t] = new],
           Sane(new), Backed(new)', Steady, UNCHANGED <<owner, read, reader, pruned>>,
           unsure' \subseteq Devices, cut \subseteq cut', cut' \subseteq Ids,
           new.device = Null, task[t].device = Null \/ task[t].device \in unsure',
           new.pc = "idle" \/ new.id = task[t].id, task[t].pc # "idle",
           new.pc = "idle" =>
              task[t].id \in cut' \/ asked[task[t].id] \subseteq Told(task[t].id),
           delivered' \subseteq Delivery, TasksOK' => Sends'
    PROVE  IndInv'
<1>1. /\ task \in [Tasks -> Task] /\ TypeOK /\ TasksOK /\ Unique /\ Unborn /\ RegInv
      /\ ToldAllOrNone /\ TokenFollowsSignIn /\ Walks
  BY DEF IndInv, TypeOK
<1>2. TasksOK' /\ task' \in [Tasks -> Task] /\ Sends'
  BY SteadyBacked, OneTask
<1>3. TypeOK'
  BY <1>1, <1>2 DEF TypeOK, Steady
<1>4. Unique'
  <2> SUFFICES ASSUME NEW r \in Tasks, NEW s \in Tasks, task'[r].id = task'[s].id, r # s
               PROVE  task'[r].pc = "idle"
    BY DEF Unique
  <2>1. CASE r = t
    <3>1. CASE new.pc = "idle"
      BY <1>1, <2>1, <3>1
    <3>2. CASE new.id = task[t].id
      BY <1>1, <2>1, <3>2 DEF Unique
    <3> QED
      BY <3>1, <3>2
  <2>2. CASE s = t
    <3>1. CASE new.pc = "idle"
      <4>1. task'[s].id = 0
        BY <1>1, <2>2, <3>1 DEF Sane, IdleTask
      <4>2. task'[r] = task[r] /\ task[r].id = 0
        BY <1>1, <2>2, <4>1
      <4>3. Backed(task[r])
        BY <1>1 DEF TasksOK
      <4> QED
        BY <4>2, <4>3 DEF Backed
    <3>2. CASE new.id = task[t].id
      BY <1>1, <2>2, <3>2 DEF Unique
    <3> QED
      BY <3>1, <3>2
  <2>3. CASE r # t /\ s # t
    BY <1>1, <2>3 DEF Unique
  <2> QED
    BY <2>1, <2>2, <2>3
<1>5. \A id : Told(id)' = Told(id)
  BY DEF Told, Steady
<1>6. Unborn'
  BY <1>1, <1>5 DEF Unborn, Steady
<1>7. RegInv'
  <2> SUFFICES ASSUME NEW s \in Tasks, task'[s].pc = "registering", task'[s].device \notin unsure'
               PROVE  Alone(s)'
    BY DEF RegInv
  <2>1. s # t
    BY <1>1 DEF Sane
  <2>2. task'[s] = task[s]
    BY <1>1, <2>1
  <2>3. Alone(s) /\ task[s].device # Null
    BY <1>1, <2>2 DEF RegInv, Steady, TasksOK, Sane
  <2>4. \A r \in Tasks \ {s} : task'[r].device # task'[s].device
    BY <1>1, <2>1, <2>2, <2>3 DEF Alone
  <2> QED
    BY <2>2, <2>3, <2>4 DEF Alone, Steady
<1>8. ToldAllOrNone'
  <2> SUFFICES ASSUME NEW id \in Ids
               PROVE  \/ asked[id] \subseteq Told(id)
                      \/ Told(id) = {} /\ (InFlight(id)' \/ id \in cut')
    BY <1>5 DEF ToldAllOrNone, Steady
  <2>1. CASE asked[id] \subseteq Told(id)
    BY <2>1
  <2>2. CASE ~(asked[id] \subseteq Told(id))
    <3>1. Told(id) = {} /\ (InFlight(id) \/ id \in cut)
      BY <1>1, <2>2 DEF ToldAllOrNone
    <3>2. ASSUME NEW s \in Tasks, task[s].id = id, task[s].pc # "idle"
          PROVE  InFlight(id)' \/ id \in cut'
      <4>1. CASE s # t
        BY <1>1, <3>2, <4>1 DEF InFlight, At
      <4>2. CASE s = t
        BY <1>1, <2>2, <3>2, <4>2 DEF InFlight, At
      <4> QED
        BY <4>1, <4>2
    <3> QED
      BY <3>1, <3>2 DEF InFlight, At
  <2> QED
    BY <2>1, <2>2
<1>9. TokenFollowsSignIn'
  <2> SUFFICES ASSUME NEW d \in Devices, d \notin unsure', Registering(d)
               PROVE  Registering(d)'
    BY <1>1 DEF TokenFollowsSignIn, Steady
  <2>1. PICK s \in Tasks : task[s].device = d
    BY DEF Registering
  <2>2. s # t
    BY <2>1, NotificationAssumption
  <2> QED
    BY <1>1, <2>1, <2>2 DEF Registering
<1>10. Walks'
  BY <1>1 DEF Walks, WalkMissesNothing, WalkInv, Steady
<1> QED
  BY <1>2, <1>3, <1>4, <1>6, <1>7, <1>8, <1>9, <1>10 DEF IndInv

-----------------------------------------------------------------------------
(* Steps of a request that is under way. *)

LEMMA OwnFacts ==
    ASSUME IndInv, NEW t \in Tasks, NEW own, own = task[t]
    PROVE  /\ own \in Task /\ Sane(own) /\ Backed(own)
           /\ own.pc # "idle" => own.id \in Ids
           /\ begun \in Nat /\ off \in [Users -> SUBSET Channels]
<1>1. own \in Task /\ Sane(own) /\ Backed(own) /\ begun \in 0 .. MaxRequests
      /\ off \in [Users -> SUBSET Channels]
  BY DEF IndInv, TasksOK, TypeOK
<1> QED
  BY <1>1, NotificationAssumption DEF Backed, Ids

LEMMA SilentMove ==
    ASSUME IndInv, NEW t \in Tasks, NEW new \in Task, task' = [task EXCEPT ![t] = new],
           Sane(new), Backed(new), new.pc # "idle", new.id = task[t].id, new.device = Null,
           task[t].device = Null, task[t].pc # "idle", begun' = begun, Silent,
           UNCHANGED <<tables, reader, asked, cut>>, UNCHANGED <<holder, pruned>>,
           unsure \subseteq unsure', unsure' \subseteq Devices
    PROVE  IndInv'
<1>1. Steady
  BY DEF Steady, tables
<1>2. Backed(new)'
  BY <1>1, SteadyBacked
<1>3. TasksOK' => Sends'
  BY SilentSends
<1>4. UNCHANGED <<owner, read, reader, pruned>> /\ cut \subseteq cut' /\ cut' \subseteq Ids
      /\ delivered' \subseteq Delivery
  BY DEF tables, Silent, IndInv, TypeOK
<1> QED
  BY <1>1, <1>2, <1>3, <1>4, MovesOn

LEMMA SilentEnd ==
    ASSUME IndInv, NEW t \in Tasks, task' = [task EXCEPT ![t] = IdleTask], task[t].pc # "idle",
           begun' = begun, Silent, UNCHANGED <<tables, reader, asked>>, UNCHANGED <<holder, pruned>>,
           unsure \subseteq unsure', unsure' \subseteq Devices, cut \subseteq cut', cut' \subseteq Ids,
           task[t].device = Null \/ task[t].device \in unsure',
           task[t].id \in cut' \/ asked[task[t].id] \subseteq Told(task[t].id)
    PROVE  IndInv'
<1>1. Steady
  BY DEF Steady, tables
<1>2. IdleTask \in Task /\ Sane(IdleTask) /\ Backed(IdleTask)' /\ IdleTask.pc = "idle"
      /\ IdleTask.device = Null
  BY <1>1, OwnFacts, IdleIsOK DEF Steady
<1>3. TasksOK' => Sends'
  BY SilentSends
<1>4. UNCHANGED <<owner, read, reader, pruned>> /\ delivered' \subseteq Delivery
  BY DEF tables, Silent
<1> QED
  BY <1>1, <1>2, <1>3, <1>4, MovesOn

LEMMA SendEmailKeeps ==
    ASSUME IndInv, NEW t \in Tasks, SendEmail(t)
    PROVE  IndInv'
<1> PICK own : own = task[t]
  OBVIOUS
<1>1. own \in Task /\ Sane(own) /\ Backed(own)
  BY OwnFacts
<1>2. /\ own.pc = "emailing" /\ begun' = begun /\ Silent
      /\ UNCHANGED <<tables, reader, asked, devices, cut>>
      /\ \/ /\ own.users \cap PreferenceOff("email") = {}
            /\ task' = [task EXCEPT ![t] = [own EXCEPT !.pc = "delivering"]]
         \/ task' = [task EXCEPT ![t] = [own EXCEPT !.pc = "saving"]]
  BY DEF SendEmail, At, Goto, Emitted
<1>3. PICK pc \in {"delivering", "saving"} :
         /\ pc = "delivering" => own.users \cap PreferenceOff("email") = {}
         /\ task' = [task EXCEPT ![t] = [own EXCEPT !.pc = pc]]
  BY <1>2
<1> PICK new : new = [own EXCEPT !.pc = pc]
  OBVIOUS
<1>4. /\ new \in Task /\ new.pc = pc
      /\ new.kind = own.kind /\ new.id = own.id /\ new.promo = own.promo
      /\ new.users = own.users /\ new.rows = own.rows /\ new.next = own.next
      /\ new.tried = own.tried /\ new.device = own.device /\ new.off = own.off
  BY <1>1 DEF Task, TaskPcs
<1>5. Sane(new) /\ own.device = Null /\ own.promo = FALSE
  BY <1>1, <1>2, <1>4 DEF Sane, Task
<1>6. Backed(new)
  <2>1. Fed(new)
    BY <1>1, <1>2, <1>4 DEF Backed, Fed, Early, Late
  <2>2. Closed(new)
    BY <1>1, <1>2, <1>3, <1>4, <1>5 DEF Backed, Closed, PreferenceOff
  <2>3. Reaches(new)
    BY <1>1, <1>4 DEF Backed, Reaches
  <2> QED
    BY <1>1, <1>2, <1>4, <2>1, <2>2, <2>3 DEF Backed
<1>7. UNCHANGED <<holder, pruned>> /\ unsure \subseteq unsure' /\ unsure' \subseteq Devices
  BY <1>2 DEF devices, IndInv, TypeOK
<1> QED
  BY <1>2, <1>3, <1>4, <1>5, <1>6, <1>7, SilentMove

LEMMA DropOptedOutKeeps ==
    ASSUME IndInv, NEW t \in Tasks, DropOptedOut(t)
    PROVE  IndInv'
<1> PICK own : own = task[t]
  OBVIOUS
<1> PICK users : users = own.users \ (IF own.promo THEN PreferenceOff("promotions") ELSE {})
  OBVIOUS
<1>1. own \in Task /\ Sane(own) /\ Backed(own)
  BY OwnFacts
<1>2. /\ own.pc = "filtering" /\ begun' = begun /\ Silent
      /\ UNCHANGED <<tables, reader, asked, devices, cut>>
      /\ IF users = {} THEN task' = [task EXCEPT ![t] = IdleTask]
         ELSE task' = [task EXCEPT ![t] = [own EXCEPT !.pc = "saving", !.users = users]]
  BY DEF DropOptedOut, At, Goto, Returns
<1>3. own.device = Null /\ own.kind \notin {"chat", "register"} /\ own.users \subseteq Users
      /\ own.promo \in BOOLEAN
  BY <1>1, <1>2 DEF Sane, Task
<1>4. asked[own.id] \subseteq users /\ Told(own.id) = {}
  BY <1>1, <1>2, <1>3 DEF Backed, Fed, Early
<1>5. UNCHANGED <<holder, pruned>> /\ unsure \subseteq unsure' /\ unsure' \subseteq Devices
      /\ cut \subseteq cut' /\ cut' \subseteq Ids
  BY <1>2 DEF devices, IndInv, TypeOK
<1>6. CASE users = {}
  BY <1>2, <1>3, <1>4, <1>5, <1>6, SilentEnd
<1>7. CASE users # {}
  <2> PICK new : new = [own EXCEPT !.pc = "saving", !.users = users]
    OBVIOUS
  <2>1. /\ new \in Task /\ new.pc = "saving" /\ new.users = users
        /\ new.kind = own.kind /\ new.id = own.id /\ new.promo = own.promo
        /\ new.rows = own.rows /\ new.next = own.next
        /\ new.tried = own.tried /\ new.device = own.device /\ new.off = own.off
    BY <1>1, <1>3 DEF Task, TaskPcs
  <2>2. Sane(new)
    BY <1>1, <1>2, <2>1 DEF Sane
  <2>3. Backed(new)
    <3>1. Fed(new)
      BY <1>3, <1>4, <2>1 DEF Fed, Early, Late
    <3>2. Closed(new)
      BY <1>1, <1>2, <2>1 DEF Backed, Closed, PreferenceOff
    <3>3. Reaches(new)
      <4>1. own.rows = <<>>
        BY <1>1, <1>2 DEF Sane
      <4> QED
        BY <2>1, <4>1 DEF Reaches, Range
    <3> QED
      BY <1>1, <1>2, <2>1, <3>1, <3>2, <3>3 DEF Backed
  <2> QED
    BY <1>2, <1>3, <1>5, <1>7, <2>1, <2>2, <2>3, SilentMove
<1> QED
  BY <1>6, <1>7

LEMMA CheckPushEnabledKeeps ==
    ASSUME IndInv, NEW t \in Tasks, CheckPushEnabled(t)
    PROVE  IndInv'
<1> PICK own : own = task[t]
  OBVIOUS
<1> PICK users : users = own.users \ PreferenceOff("push")
  OBVIOUS
<1>1. own \in Task /\ Sane(own) /\ Backed(own)
  BY OwnFacts
<1>2. /\ own.pc = "preferring" /\ begun' = begun /\ Silent
      /\ UNCHANGED <<tables, reader, asked, devices, cut>>
      /\ IF users = {} THEN task' = [task EXCEPT ![t] = IdleTask]
         ELSE task' = [task EXCEPT ![t] = [own EXCEPT !.pc = "finding", !.users = users]]
  BY DEF CheckPushEnabled, At, Goto, Returns, PushTargets
<1>3. own.device = Null /\ own.kind # "register" /\ own.users \subseteq Users
  BY <1>1, <1>2 DEF Sane, Task
<1>4. asked[own.id] \subseteq Told(own.id)
  BY <1>1, <1>2, <1>3 DEF Backed, Fed, Late, Early
<1>5. UNCHANGED <<holder, pruned>> /\ unsure \subseteq unsure' /\ unsure' \subseteq Devices
      /\ cut \subseteq cut' /\ cut' \subseteq Ids
  BY <1>2 DEF devices, IndInv, TypeOK
<1>6. CASE users = {}
  BY <1>2, <1>3, <1>4, <1>5, <1>6, SilentEnd
<1>7. CASE users # {}
  <2> PICK new : new = [own EXCEPT !.pc = "finding", !.users = users]
    OBVIOUS
  <2>1. /\ new \in Task /\ new.pc = "finding" /\ new.users = users
        /\ new.kind = own.kind /\ new.id = own.id /\ new.promo = own.promo
        /\ new.rows = own.rows /\ new.next = own.next
        /\ new.tried = own.tried /\ new.device = own.device /\ new.off = own.off
    BY <1>1, <1>3 DEF Task, TaskPcs
  <2>2. Sane(new)
    BY <1>1, <1>2, <2>1 DEF Sane
  <2>3. Backed(new)
    <3>1. Fed(new)
      BY <1>1, <1>2, <2>1 DEF Backed, Fed, Early, Late
    <3>2. Closed(new)
      BY <1>1, <1>2, <2>1 DEF Backed, Closed, PreferenceOff
    <3>3. Reaches(new)
      <4>1. own.rows = <<>>
        BY <1>1, <1>2 DEF Sane
      <4> QED
        BY <2>1, <4>1 DEF Reaches, Range
    <3> QED
      BY <1>1, <1>2, <2>1, <3>1, <3>2, <3>3 DEF Backed
  <2> QED
    BY <1>2, <1>3, <1>5, <1>7, <2>1, <2>2, <2>3, SilentMove
<1> QED
  BY <1>6, <1>7

\* A device has one owner, so there are no more rows than devices.
LEMMA FoundIsFinite ==
    ASSUME NEW users
    PROVE  IsFiniteSet(FoundFor(users)) /\ Cardinality(FoundFor(users)) \in Nat
<1> DEFINE found == FoundFor(users)
           token == [row \in found |-> row.token]
<1>1. token \in Injection(found, Devices)
  BY DEF FoundFor, DeviceRow, Injection, IsInjective
<1>2. IsFiniteSet(found)
  BY <1>1, NotificationAssumption, FS_Injection
<1> QED
  BY <1>2, FS_CardinalityType

LEMMA OrderOfFound ==
    ASSUME NEW users, NEW rows \in SetToSeqs(FoundFor(users)), FoundFor(users) # {}
    PROVE  /\ rows \in Seq(DeviceRow) /\ Len(rows) > 0 /\ rows # <<>>
           /\ Range(rows) \subseteq FoundFor(users)
<1> PICK found : found = FoundFor(users)
  OBVIOUS
<1> PICK n : n = Cardinality(found)
  OBVIOUS
<1>1. n \in Nat /\ n # 0 /\ found \subseteq DeviceRow
  <2>1. IsFiniteSet(found) /\ n \in Nat
    BY FoundIsFinite
  <2>2. n # 0
    BY <2>1, FS_EmptySet
  <2> QED
    BY <2>1, <2>2 DEF FoundFor
<1>2. rows \in [1 .. n -> found]
  BY DEF SetToSeqs
<1>3. rows \in [1 .. n -> DeviceRow]
  BY <1>1, <1>2
<1>4. rows \in Seq(DeviceRow)
  BY <1>1, <1>3, SeqDef
<1>5. Len(rows) = n
  BY <1>1, <1>3, <1>4, LenProperties
<1>6. Range(rows) \subseteq found
  BY <1>2 DEF Range
<1> QED
  BY <1>1, <1>4, <1>5, <1>6, EmptySeq

LEMMA FindDevicesKeeps ==
    ASSUME IndInv, NEW t \in Tasks, FindDevices(t)
    PROVE  IndInv'
<1> PICK own : own = task[t]
  OBVIOUS
<1> PICK found : found = FoundFor(own.users)
  OBVIOUS
<1>1. own \in Task /\ Sane(own) /\ Backed(own)
  BY OwnFacts
<1>2. /\ own.pc = "finding" /\ begun' = begun /\ Silent
      /\ UNCHANGED <<tables, reader, asked, holder, pruned, cut>>
      /\ unsure' = unsure \cup {row.token : row \in {r \in found : Registering(r.token)}}
      /\ IF found = {} THEN task' = [task EXCEPT ![t] = IdleTask]
         ELSE \E rows \in SetToSeqs(found) :
                 task' = [task EXCEPT ![t] = [own EXCEPT !.pc = "sending", !.rows = rows]]
  BY DEF FindDevices, At, Goto, Returns
<1>3. own.device = Null /\ own.kind # "register" /\ own.users \subseteq Users
  BY <1>1, <1>2 DEF Sane, Task
<1>4. asked[own.id] \subseteq Told(own.id)
  BY <1>1, <1>2, <1>3 DEF Backed, Fed, Late, Early
<1>5. unsure \subseteq unsure' /\ unsure' \subseteq Devices
      /\ cut \subseteq cut' /\ cut' \subseteq Ids
  BY <1>2 DEF FoundFor, DeviceRow, IndInv, TypeOK
<1>6. CASE found = {}
  BY <1>2, <1>3, <1>4, <1>5, <1>6, SilentEnd
<1>7. CASE found # {}
  <2> PICK rows \in SetToSeqs(found) :
         task' = [task EXCEPT ![t] = [own EXCEPT !.pc = "sending", !.rows = rows]]
    BY <1>2, <1>7
  <2> PICK new : new = [own EXCEPT !.pc = "sending", !.rows = rows]
    OBVIOUS
  <2>1. rows \in Seq(DeviceRow) /\ Len(rows) > 0 /\ rows # <<>> /\ Range(rows) \subseteq found
        /\ Len(rows) \in Nat
    BY <1>7, OrderOfFound, LenProperties
  <2>2. /\ new \in Task /\ new.pc = "sending" /\ new.users = own.users
        /\ new.kind = own.kind /\ new.id = own.id /\ new.promo = own.promo
        /\ new.rows = rows /\ new.next = own.next
        /\ new.tried = own.tried /\ new.device = own.device /\ new.off = own.off
    BY <1>1, <2>1 DEF Task, TaskPcs
  <2>3. Sane(new)
    <3>1. own.next = 1 /\ own.tried = <<>>
      BY <1>1, <1>2 DEF Sane
    <3>2. new.tried = SubSeq(new.rows, 1, new.next - 1)
      <4>1. 1 - 1 = 0 /\ SubSeq(rows, 1, 0) = <<>>
        BY SubSeqEmpty
      <4> QED
        BY <2>2, <3>1, <4>1
    <3>3. new.next \in 1 .. Len(new.rows)
      BY <2>1, <2>2, <3>1
    <3>4. /\ own.device = Null /\ own.kind # "register"
          /\ own.kind = "chat" => new.pc \in {"preferring", "finding", "sending", "pruning"}
      BY <1>1, <1>2, <2>2 DEF Sane
    <3> QED
      BY <2>2, <3>2, <3>3, <3>4 DEF Sane
  <2>4. Steady
    BY <1>2, <1>5 DEF Steady, tables
  <2>5. Backed(new)'
    <3>1. Backed(own)'
      BY <1>1, <2>4, SteadyBacked
    <3>2. Fed(new)'
      BY <1>2, <2>2, <3>1 DEF Backed, Fed, Early, Late
    <3>3. Closed(new)'
      BY <1>2, <2>2, <3>1 DEF Backed, Closed
    <3>4. ASSUME NEW row \in Range(rows)
          PROVE  row.user \in own.users /\ (row.token \in unsure' \/ holder[row.token] = row.user)
      <4>1. row \in found /\ row.user \in own.users /\ owner[row.token] = row.user
            /\ row.token \in Devices /\ row.user # Null
        BY <2>1, NotificationAssumption DEF FoundFor, DeviceRow
      <4>2. Registering(row.token) => row.token \in unsure'
        BY <1>2, <4>1
      <4> QED
        BY <1>5, <4>1, <4>2 DEF IndInv, TokenFollowsSignIn
    <3>5. Reaches(new)'
      BY <1>2, <2>2, <3>4 DEF Reaches
    <3> QED
      BY <1>2, <2>2, <3>1, <3>2, <3>3, <3>5 DEF Backed
  <2>6. TasksOK' => Sends'
    BY <1>2, SilentSends
  <2>7. UNCHANGED <<owner, read, reader, pruned>> /\ delivered' \subseteq Delivery
    BY <1>2 DEF tables, Silent
  <2>8. new.pc # "idle" /\ task[t].pc # "idle" /\ new.device = Null /\ task[t].device = Null
    BY <1>2, <1>3, <2>2
  <2> QED
    BY <1>5, <2>2, <2>3, <2>4, <2>5, <2>6, <2>7, <2>8, MovesOn
<1> QED
  BY <1>6, <1>7

-----------------------------------------------------------------------------
(* Steps that send something out. *)

\* What new may send to u over a channel.
Allowed(new, u, channel) ==
    /\ "email" \in new.off[u] => channel # "email"
    /\ "push" \in new.off[u] => channel \in {"email", "live"}
    /\ ~(new.promo /\ "promotions" \in new.off[u])

LEMMA OwnSends ==
    ASSUME IndInv, NEW t \in Tasks, NEW new, task' = [task EXCEPT ![t] = new],
           task[t].pc # "idle", new.id = task[t].id, TasksOK',
           \A d \in delivered' : d.id = new.id /\ d.user \in Users /\ Allowed(new, d.user, d.channel)
    PROVE  OffMeansOff'
<1> SUFFICES ASSUME NEW s \in Tasks, NEW u \in Users
             PROVE  LET closed == task'[s].off[u]
                        channels == {delivery.channel : delivery \in
                           {d \in delivered' : d.id = task'[s].id /\ d.user = u}}
                    IN  /\ "email" \in closed => "email" \notin channels
                        /\ "push" \in closed => channels \subseteq {"email", "live"}
                        /\ task'[s].promo /\ "promotions" \in closed =>
                              channels = {} /\ u \notin Told(task[s].id)'
  BY DEF OffMeansOff
<1> PICK own : own = task'[s]
  OBVIOUS
<1> DEFINE sent == {d \in delivered' : d.id = own.id /\ d.user = u}
<1>1. own.promo /\ "promotions" \in own.off[u] => u \notin Told(own.id)'
  BY DEF TasksOK, Backed, Closed
<1>2. \A d \in sent : Allowed(own, u, d.channel)
  <2>1. task \in [Tasks -> Task] /\ Unique
    BY DEF IndInv, TypeOK
  <2>2. ASSUME NEW d \in sent
        PROVE  s = t
    BY <2>1, <2>2 DEF Unique
  <2> QED
    BY <2>1, <2>2
<1>3. \A d \in sent : /\ "email" \in own.off[u] => d.channel # "email"
                      /\ "push" \in own.off[u] => d.channel \in {"email", "live"}
                      /\ ~(own.promo /\ "promotions" \in own.off[u])
  BY <1>2 DEF Allowed
<1> QED
  BY <1>1, <1>3

LEMMA DeliverKeeps ==
    ASSUME IndInv, NEW t \in Tasks, Deliver(t)
    PROVE  IndInv'
<1> PICK own : own = task[t]
  OBVIOUS
<1> PICK new : new = [own EXCEPT !.pc = "saving"]
  OBVIOUS
<1>1. own \in Task /\ Sane(own) /\ Backed(own)
  BY OwnFacts
<1>2. /\ own.pc = "delivering" /\ begun' = begun
      /\ UNCHANGED <<tables, reader, asked, devices, cut>>
      /\ task' = [task EXCEPT ![t] = new]
      /\ delivered' \subseteq Messages(own, own.users, "email")
  BY DEF Deliver, At, Goto, Emitted
<1>3. /\ new \in Task /\ new.pc = "saving"
      /\ new.kind = own.kind /\ new.id = own.id /\ new.promo = own.promo
      /\ new.users = own.users /\ new.rows = own.rows /\ new.next = own.next
      /\ new.tried = own.tried /\ new.device = own.device /\ new.off = own.off
  BY <1>1 DEF Task, TaskPcs
<1>4. Sane(new) /\ own.device = Null /\ ~own.promo /\ own.users \subseteq Users /\ own.id \in Ids
  BY <1>1, <1>2, <1>3, OwnFacts DEF Sane, Task
<1>5. Steady
  BY <1>2 DEF Steady, tables, devices
<1>6. Backed(new)
  <2>1. Fed(new)
    BY <1>1, <1>2, <1>3 DEF Backed, Fed, Early, Late
  <2>2. Closed(new)
    BY <1>1, <1>2, <1>3, <1>4 DEF Backed, Closed
  <2>3. Reaches(new)
    BY <1>1, <1>3 DEF Backed, Reaches
  <2> QED
    BY <1>1, <1>2, <1>3, <2>1, <2>2, <2>3 DEF Backed
<1>7. Backed(new)'
  BY <1>5, <1>6, SteadyBacked
<1>8. \A d \in delivered' : d.id = own.id /\ d.user \in own.users /\ d.channel = "email"
                            /\ d.device = Null /\ d \in Delivery
  BY <1>2, <1>4 DEF Messages, Delivery
<1>9. ASSUME TasksOK'
      PROVE  Sends'
  <2>1. PushedIsStored' /\ PushReachesItsUser'
    BY <1>8 DEF PushedIsStored, PushReachesItsUser
  <2>2. \A d \in delivered' : Allowed(new, d.user, d.channel)
    BY <1>1, <1>2, <1>3, <1>4, <1>8 DEF Allowed, Backed, Closed
  <2>3. OffMeansOff'
    BY <1>2, <1>3, <1>4, <1>8, <1>9, <2>2, OwnSends
  <2> QED
    BY <2>1, <2>3 DEF Sends
<1>10. UNCHANGED <<owner, read, reader, pruned>> /\ cut \subseteq cut' /\ cut' \subseteq Ids
       /\ unsure' \subseteq Devices /\ delivered' \subseteq Delivery
  BY <1>2, <1>8 DEF tables, devices, IndInv, TypeOK
<1> QED
  BY <1>2, <1>3, <1>4, <1>5, <1>7, <1>9, <1>10, MovesOn

\* One call of FCM: the rows it is about, and what is left afterwards.
LEMMA NextCallIsPart ==
    ASSUME NEW own \in Task, Sane(own), own.pc = "sending"
    PROVE  /\ NextCall(own) \in Seq(DeviceRow) /\ Range(NextCall(own)) \subseteq Range(own.rows)
           /\ After(own) \in Nat \ {0}
           /\ own.kind = "broadcast" /\ After(own) > Len(own.rows) =>
                 own.tried \o NextCall(own) = own.rows
           /\ own.kind = "broadcast" /\ ~(After(own) > Len(own.rows)) =>
                 own.tried \o NextCall(own) = SubSeq(own.rows, 1, After(own) - 1)
           /\ own.kind # "broadcast" => After(own) > Len(own.rows)
<1> PICK rows : rows = own.rows
  OBVIOUS
<1> PICK i : i = own.next
  OBVIOUS
<1>1. /\ rows \in Seq(DeviceRow) /\ i \in 1 .. Len(rows)
      /\ own.kind = "broadcast" => own.tried = SubSeq(rows, 1, i - 1)
  BY DEF Sane, Task
<1>2. Len(rows) \in Nat /\ FCM_MULTICAST_LIMIT \in Nat \ {0}
  BY <1>1, LenProperties, NotificationAssumption
<1>3. CASE own.kind = "broadcast"
  <2>1. NextCall(own) = Chunk(rows, i) /\ After(own) = i + FCM_MULTICAST_LIMIT
    BY <1>3 DEF NextCall, After
  <2>2. Chunk(rows, i) \in Seq(DeviceRow) /\ Range(Chunk(rows, i)) \subseteq Range(rows)
    BY <1>1, <1>2, ChunkIsPart
  <2>3. own.tried = SubSeq(rows, 1, i - 1)
    BY <1>1, <1>3
  <2>4. After(own) \in Nat \ {0}
    BY <1>1, <1>2, <2>1
  <2>5. ASSUME After(own) > Len(rows)
        PROVE  own.tried \o NextCall(own) = rows
    <3>1. i + FCM_MULTICAST_LIMIT > Len(rows)
      BY <2>1, <2>5
    <3>2. SubSeq(rows, 1, i - 1) \o Chunk(rows, i) = rows
      BY <1>1, <1>2, <3>1, ChunkExtends
    <3> QED
      BY <2>1, <2>3, <3>2
  <2>6. ASSUME ~(After(own) > Len(rows))
        PROVE  own.tried \o NextCall(own) = SubSeq(rows, 1, After(own) - 1)
    <3>1. i + FCM_MULTICAST_LIMIT <= Len(rows)
      BY <1>1, <1>2, <2>1, <2>6
    <3>2. SubSeq(rows, 1, i - 1) \o Chunk(rows, i) = SubSeq(rows, 1, i + FCM_MULTICAST_LIMIT - 1)
      BY <1>1, <1>2, <3>1, ChunkExtends
    <3>3. i + FCM_MULTICAST_LIMIT - 1 = After(own) - 1
      BY <1>1, <1>2, <2>1
    <3> QED
      BY <2>1, <2>3, <3>2, <3>3
  <2> QED
    BY <1>3, <2>1, <2>2, <2>4, <2>5, <2>6
<1>4. CASE own.kind # "broadcast"
  <2>1. NextCall(own) = rows /\ After(own) = Len(rows) + 1
    BY <1>4 DEF NextCall, After
  <2>2. After(own) \in Nat \ {0} /\ After(own) > Len(rows)
    BY <1>2, <2>1
  <2> QED
    BY <1>1, <1>4, <2>1, <2>2
<1>5. own.kind = "broadcast" \/ own.kind # "broadcast"
  OBVIOUS
<1> QED
  BY <1>3, <1>4, <1>5

LEMMA SendToTokensKeeps ==
    ASSUME IndInv, NEW t \in Tasks, SendToTokens(t)
    PROVE  IndInv'
<1> PICK own : own = task[t]
  OBVIOUS
<1> PICK call : call = NextCall(own)
  OBVIOUS
<1> PICK pc : pc = IF After(own) > Len(own.rows) THEN "pruning" ELSE "sending"
  OBVIOUS
<1>1. own \in Task /\ Sane(own) /\ Backed(own)
  BY OwnFacts
<1>2. /\ own.pc = "sending" /\ begun' = begun
      /\ UNCHANGED <<tables, reader, asked, devices, cut>>
  BY DEF SendToTokens, At, Goto
<1>3. PICK answer \in FcmAnswers(call) :
         /\ delivered' = Pushed(own, answer.reached)
         /\ task' = [task EXCEPT ![t] = [own EXCEPT
               !.pc = pc, !.next = After(own), !.tried = @ \o call,
               !.dead = @ \cup {row.token : row \in answer.dead}]]
  BY DEF SendToTokens, At, Goto
<1> PICK new : new = [own EXCEPT !.pc = pc, !.next = After(own), !.tried = @ \o call,
                                 !.dead = @ \cup {row.token : row \in answer.dead}]
  OBVIOUS
<1>4. /\ call \in Seq(DeviceRow) /\ Range(call) \subseteq Range(own.rows)
      /\ After(own) \in Nat \ {0} /\ own.rows \in Seq(DeviceRow) /\ own.tried \in Seq(DeviceRow)
      /\ own.kind = "broadcast" /\ After(own) > Len(own.rows) => own.tried \o call = own.rows
      /\ own.kind = "broadcast" /\ ~(After(own) > Len(own.rows)) =>
            own.tried \o call = SubSeq(own.rows, 1, After(own) - 1)
      /\ own.kind # "broadcast" => After(own) > Len(own.rows)
  BY <1>1, <1>2, NextCallIsPart DEF Task
<1>5. Range(own.rows) \subseteq DeviceRow /\ Len(own.rows) \in Nat
  BY <1>4, RangeOfSeq, LenProperties
<1>6. answer.reached \subseteq Range(call) /\ answer.dead \subseteq Range(call)
  BY DEF FcmAnswers
<1>7. own.tried \o call \in Seq(DeviceRow)
  BY <1>4, ConcatProperties
<1>8. own.dead \cup {row.token : row \in answer.dead} \subseteq Devices
  BY <1>1, <1>4, <1>5, <1>6 DEF Task, DeviceRow
<1>9. pc \in {"sending", "pruning"} /\ pc \in TaskPcs
  BY DEF TaskPcs
<1>10. /\ new \in Task /\ new.pc = pc
       /\ new.kind = own.kind /\ new.id = own.id /\ new.promo = own.promo
       /\ new.users = own.users /\ new.rows = own.rows /\ new.next = After(own)
       /\ new.tried = own.tried \o call /\ new.device = own.device /\ new.off = own.off
  BY <1>1, <1>4, <1>7, <1>8, <1>9 DEF Task
<1>11. own.device = Null /\ own.kind # "register" /\ own.users \subseteq Users /\ own.id \in Ids
  BY <1>1, <1>2, OwnFacts DEF Sane, Task
<1>12. Sane(new)
  <2>0. new.pc = "sending" <=> ~(After(own) > Len(own.rows))
    BY <1>10
  <2>1. new.pc = "sending" => new.next \in 1 .. Len(new.rows)
    BY <1>4, <1>5, <1>10, <2>0
  <2>2. new.pc = "sending" /\ new.kind = "broadcast" =>
           new.tried = SubSeq(new.rows, 1, new.next - 1)
    BY <1>4, <1>10, <2>0
  <2>3. new.pc = "pruning" /\ new.kind = "broadcast" => new.tried = new.rows
    BY <1>4, <1>10, <2>0
  <2> QED
    BY <1>9, <1>10, <1>11, <2>1, <2>2, <2>3 DEF Sane
<1>13. Backed(new)
  <2>1. Fed(new)
    BY <1>1, <1>2, <1>9, <1>10 DEF Backed, Fed, Early, Late
  <2>2. Closed(new)
    BY <1>1, <1>2, <1>9, <1>10 DEF Backed, Closed
  <2>3. Reaches(new)
    BY <1>1, <1>10 DEF Backed, Reaches
  <2> QED
    BY <1>1, <1>2, <1>10, <2>1, <2>2, <2>3 DEF Backed
<1>14. Steady
  BY <1>2 DEF Steady, tables, devices
<1>15. Backed(new)'
  BY <1>13, <1>14, SteadyBacked
<1>16. ASSUME NEW d \in delivered'
       PROVE  /\ d.id = own.id /\ d.user \in own.users /\ d.device \in Devices
              /\ d.channel = (IF own.kind = "chat" THEN "chat" ELSE "push") /\ d \in Delivery
              /\ d.device \in unsure \/ holder[d.device] = d.user
  <2>1. PICK row \in answer.reached :
           d = [id |-> own.id, user |-> row.user, device |-> row.token,
                channel |-> IF own.kind = "chat" THEN "chat" ELSE "push"]
    BY <1>3 DEF Pushed
  <2>2. row \in Range(own.rows) /\ row \in DeviceRow
    BY <1>4, <1>5, <1>6
  <2>3. row.user \in own.users /\ (row.token \in unsure \/ holder[row.token] = row.user)
    BY <1>1, <2>2 DEF Backed, Reaches
  <2> QED
    BY <1>11, <2>1, <2>2, <2>3 DEF Delivery, DeviceRow
<1>17. ASSUME TasksOK'
       PROVE  Sends'
  <2>1. PushReachesItsUser'
    BY <1>2, <1>16 DEF PushReachesItsUser, devices
  <2>2. PushedIsStored'
    <3>1. own.kind # "chat" => own.users \subseteq Told(own.id)
      BY <1>1, <1>2, <1>11 DEF Backed, Fed, Early, Late
    <3>2. \A id : Told(id)' = Told(id)
      BY <1>2 DEF Told, tables
    <3> QED
      BY <1>16, <3>1, <3>2 DEF PushedIsStored
  <2>3. \A d \in delivered' : Allowed(new, d.user, d.channel)
    BY <1>1, <1>2, <1>10, <1>11, <1>16 DEF Allowed, Backed, Closed
  <2>4. OffMeansOff'
    BY <1>2, <1>3, <1>10, <1>11, <1>16, <1>17, <2>3, OwnSends
  <2> QED
    BY <2>1, <2>2, <2>4 DEF Sends
<1>18. UNCHANGED <<owner, read, reader, pruned>> /\ cut \subseteq cut' /\ cut' \subseteq Ids
       /\ unsure' \subseteq Devices /\ delivered' \subseteq Delivery
  BY <1>2, <1>16 DEF tables, devices, IndInv, TypeOK
<1>19. task[t].pc # "idle" /\ new.pc # "idle" /\ new.id = task[t].id
       /\ new.device = Null /\ task[t].device = Null
  BY <1>2, <1>9, <1>10, <1>11
<1> QED
  BY <1>3, <1>10, <1>12, <1>14, <1>15, <1>17, <1>18, <1>19, MovesOn
-----------------------------------------------------------------------------
(* Requests that end. *)

LEMMA RefuseTokenKeeps ==
    ASSUME IndInv, NEW t \in Tasks, RefuseToken(t)
    PROVE  IndInv'
<1> PICK own : own = task[t]
  OBVIOUS
<1>1. own \in Task /\ Sane(own) /\ Backed(own)
  BY OwnFacts
<1>2. /\ own.pc = "registering" /\ ~own.existing /\ owner[own.device] # Null
      /\ begun' = begun /\ Silent /\ task' = [task EXCEPT ![t] = IdleTask]
      /\ UNCHANGED <<tables, reader, asked, devices, cut>>
  BY DEF RefuseToken, At, Goto, Returns
<1>3. own.device \in unsure
  BY <1>2 DEF IndInv, RegInv, Alone
<1>4. asked[own.id] \subseteq Told(own.id)
  BY <1>1, <1>2 DEF Sane, Backed, Fed
<1>5. UNCHANGED <<holder, pruned>> /\ unsure' = unsure /\ unsure \subseteq Devices
      /\ cut' = cut /\ cut \subseteq Ids
  BY <1>2 DEF devices, IndInv, TypeOK
<1> QED
  BY <1>2, <1>3, <1>4, <1>5, SilentEnd

LEMMA FailsKeeps ==
    ASSUME IndInv, NEW t \in Tasks, Fails(t)
    PROVE  IndInv'
<1> PICK own : own = task[t]
  OBVIOUS
<1>1. own \in Task /\ own.pc # "idle" => own.id \in Ids
  BY OwnFacts
<1>2. /\ own.pc # "idle" /\ begun' = begun /\ Silent /\ task' = [task EXCEPT ![t] = IdleTask]
      /\ UNCHANGED <<tables, reader, asked>> /\ UNCHANGED <<holder, pruned>>
      /\ unsure' = unsure \cup ({own.device} \ {Null}) /\ cut' = cut \cup {own.id}
  BY DEF Fails, Unsettled, Goto, Returns
<1>3. own.device \in Devices \cup {Null} /\ own.id \in Ids
  BY <1>1, <1>2, OwnFacts DEF Task
<1>4. unsure \subseteq Devices /\ cut \subseteq Ids
  BY DEF IndInv, TypeOK
<1>5. unsure \subseteq unsure' /\ unsure' \subseteq Devices /\ cut \subseteq cut' /\ cut' \subseteq Ids
      /\ (own.device = Null \/ own.device \in unsure') /\ own.id \in cut'
  BY <1>2, <1>3, <1>4
<1> QED
  BY <1>2, <1>5, SilentEnd

\* What Forget leaves of a request.
LEMMA ForgetKeepsTask ==
    ASSUME NEW local \in Task, Sane(local), NEW tokens, NEW new,
           new = [local EXCEPT !.existing = @ /\ local.device \notin tokens]
    PROVE  /\ new \in Task /\ Sane(new) /\ (Backed(local)' => Backed(new)')
           /\ (Backed(local) => Backed(new))
           /\ new.pc = local.pc /\ new.id = local.id /\ new.device = local.device
           /\ new.users = local.users /\ new.promo = local.promo /\ new.off = local.off
           /\ new.rows = local.rows
           /\ new.existing = (local.existing /\ local.device \notin tokens)
<1>1. /\ new.pc = local.pc /\ new.id = local.id /\ new.device = local.device
      /\ new.users = local.users /\ new.promo = local.promo /\ new.off = local.off
      /\ new.rows = local.rows /\ new.kind = local.kind /\ new.next = local.next
      /\ new.tried = local.tried
      /\ new.existing = (local.existing /\ local.device \notin tokens)
  BY DEF Task
<1>2. new \in Task
  BY DEF Task
<1>3. local.pc = "idle" => new = local
  <2> SUFFICES ASSUME local.pc = "idle"
               PROVE  new = local
    OBVIOUS
  <2>1. local = IdleTask
    BY DEF Sane
  <2>2. (IdleTask.existing /\ local.device \notin tokens) = FALSE
    BY DEF IdleTask
  <2>3. new = [IdleTask EXCEPT !.existing = FALSE]
    BY <2>1, <2>2
  <2> QED
    BY <2>1, <2>3 DEF IdleTask
<1>4. Sane(new)
  BY <1>1, <1>3 DEF Sane
<1>5. Backed(local)' => Backed(new)'
  BY <1>1 DEF Backed, Fed, Closed, Reaches
<1>6. Backed(local) => Backed(new)
  BY <1>1 DEF Backed, Fed, Closed, Reaches
<1> QED
  BY <1>1, <1>2, <1>4, <1>5, <1>6

LEMMA PruneKeeps ==
    ASSUME IndInv, NEW t \in Tasks, Prune(t)
    PROVE  IndInv'
<1> PICK own : own = task[t]
  OBVIOUS
<1> PICK dead : dead = own.dead
  OBVIOUS
<1> PICK before : before = [task EXCEPT ![t] = IdleTask]
  OBVIOUS
<1>1. own \in Task /\ Sane(own) /\ Backed(own) /\ dead \subseteq Devices
  BY OwnFacts DEF Task
<1>2. /\ own.pc = "pruning" /\ owner' = Without(dead) /\ pruned' = pruned \cup dead
      /\ task' = Forget(before, dead) /\ Silent
      /\ UNCHANGED <<off, feed, read, begun, reader, asked, holder, unsure, cut>>
  BY DEF Prune, At
<1>3. /\ task \in [Tasks -> Task] /\ TypeOK /\ TasksOK /\ Unique /\ Unborn /\ RegInv
      /\ ToldAllOrNone /\ TokenFollowsSignIn /\ Walks
  BY DEF IndInv, TypeOK
<1>4. Steady
  BY <1>2 DEF Steady
<1>5. IdleTask \in Task /\ Sane(IdleTask) /\ Backed(IdleTask)' /\ IdleTask.pc = "idle"
      /\ IdleTask.device = Null /\ IdleTask.id = 0
  BY <1>4, OwnFacts, IdleIsOK DEF Steady
<1>6. ASSUME NEW s \in Tasks
      PROVE  before[s] \in Task /\ Sane(before[s]) /\ Backed(before[s])'
  <2> PICK other : other = before[s]
    OBVIOUS
  <2>1. other \in Task /\ Sane(other) /\ (s # t => Backed(other)) /\ (s = t => other = IdleTask)
    BY <1>3, <1>5 DEF TasksOK
  <2>2. Backed(other)'
    BY <1>4, <1>5, <2>1, SteadyBacked
  <2> QED
    BY <2>1, <2>2
<1>7. ASSUME NEW s \in Tasks
      PROVE  /\ task'[s] \in Task /\ Sane(task'[s]) /\ Backed(task[s])'
             /\ task'[s].pc = before[s].pc /\ task'[s].id = before[s].id
             /\ task'[s].device = before[s].device /\ task'[s].users = before[s].users
             /\ task'[s].existing = (before[s].existing /\ before[s].device \notin dead)
  <2> PICK other : other = before[s]
    OBVIOUS
  <2> PICK new : new = task'[s]
    OBVIOUS
  <2>1. new = [other EXCEPT !.existing = @ /\ other.device \notin dead]
    BY <1>2 DEF Forget
  <2>2. other \in Task /\ Sane(other) /\ Backed(other)'
    BY <1>6
  <2>3. /\ new \in Task /\ Sane(new) /\ Backed(new)'
        /\ new.pc = other.pc /\ new.id = other.id /\ new.device = other.device
        /\ new.users = other.users
        /\ new.existing = (other.existing /\ other.device \notin dead)
    BY <2>1, <2>2, ForgetKeepsTask
  <2> QED
    BY <2>3 DEF Backed, Fed, Closed, Reaches
<1>8. TasksOK' /\ task' \in [Tasks -> Task]
  <2>1. \A s \in Tasks : (Sane(task[s]) /\ Backed(task[s]))'
    BY <1>7 DEF Sane
  <2>2. task' \in [Tasks -> Task]
    BY <1>2, <1>7 DEF Forget
  <2> QED
    BY <2>1, <2>2 DEF TasksOK
<1>9. \A s \in Tasks : before[s] = (IF s = t THEN IdleTask ELSE task[s])
  BY <1>3
<1>10. TypeOK'
  <2>1. owner' \in [Devices -> Users \cup {Null}]
    BY <1>2, <1>3 DEF Without, TypeOK
  <2>2. pruned' \subseteq Devices
    BY <1>1, <1>2, <1>3 DEF TypeOK
  <2> QED
    BY <1>2, <1>3, <1>8, <2>1, <2>2 DEF TypeOK, Silent
<1>11. Unique'
  <2> SUFFICES ASSUME NEW r \in Tasks, NEW s \in Tasks, task'[r].id = task'[s].id, r # s
               PROVE  task'[r].pc = "idle"
    BY DEF Unique
  <2>1. CASE r = t
    BY <1>5, <1>7, <1>9, <2>1
  <2>2. CASE s = t
    <3>1. task[r].id = 0
      BY <1>5, <1>7, <1>9, <2>2
    <3>2. Backed(task[r])
      BY <1>3 DEF TasksOK
    <3>3. task[r].pc = "idle"
      BY <3>1, <3>2 DEF Backed
    <3> QED
      BY <1>7, <1>9, <2>2, <3>3
  <2>3. CASE r # t /\ s # t
    BY <1>3, <1>7, <1>9, <2>3 DEF Unique
  <2> QED
    BY <2>1, <2>2, <2>3
<1>12. \A id : Told(id)' = Told(id)
  BY <1>2 DEF Told
<1>13. Unborn'
  BY <1>2, <1>3, <1>12 DEF Unborn
<1>14. RegInv'
  <2> SUFFICES ASSUME NEW s \in Tasks, task'[s].pc = "registering", task'[s].device \notin unsure
               PROVE  Alone(s)'
    BY <1>2 DEF RegInv
  <2>1. s # t /\ task[s].pc = "registering" /\ task[s].device \notin unsure
    BY <1>5, <1>7, <1>9
  <2>2. Alone(s) /\ Sane(task[s]) /\ task[s] \in Task
    BY <1>3, <2>1 DEF RegInv, TasksOK
  <2> PICK d : d = task[s].device
    OBVIOUS
  <2>3. d \in Devices /\ task'[s].device = d /\ task'[s].users = {holder[d]} /\ d # Null
    BY <1>7, <1>9, <2>1, <2>2, NotificationAssumption DEF Sane, Task, Alone
  <2>4. task'[s].existing <=> owner'[d] # Null
    <3>1. owner'[d] = IF d \in dead THEN Null ELSE owner[d]
      BY <1>2, <2>3 DEF Without
    <3>2. task'[s].existing = (task[s].existing /\ d \notin dead)
      BY <1>7, <1>9, <2>1
    <3> QED
      BY <2>2, <3>1, <3>2 DEF Alone
  <2>5. \A r \in Tasks \ {s} : task'[r].device # d
    BY <1>5, <1>7, <1>9, <2>2, <2>3 DEF Alone
  <2> QED
    BY <1>2, <2>3, <2>4, <2>5 DEF Alone
<1>15. asked[own.id] \subseteq Told(own.id)
  BY <1>1, <1>2 DEF Sane, Backed, Fed, Late, Early
<1>16. ToldAllOrNone'
  <2> SUFFICES ASSUME NEW id \in Ids
               PROVE  \/ asked[id] \subseteq Told(id)
                      \/ Told(id) = {} /\ (InFlight(id)' \/ id \in cut)
    BY <1>2, <1>12 DEF ToldAllOrNone
  <2>1. CASE id = own.id
    BY <1>15, <2>1
  <2>2. CASE id # own.id
    <3>1. ASSUME NEW s \in Tasks, task[s].id = id, task[s].pc # "idle"
          PROVE  InFlight(id)'
      BY <1>7, <1>9, <2>2, <3>1 DEF InFlight, At
    <3> QED
      BY <1>3, <3>1 DEF ToldAllOrNone, InFlight, At
  <2> QED
    BY <2>1, <2>2
<1>17. TokenFollowsSignIn'
  <2> SUFFICES ASSUME NEW d \in Devices, d \notin unsure, ~Registering(d)'
               PROVE  owner'[d] = holder[d] \/ (owner'[d] = Null /\ d \in pruned')
    BY <1>2 DEF TokenFollowsSignIn
  <2>1. ~Registering(d)
    <3> SUFFICES ASSUME NEW s \in Tasks, task[s].device = d
                 PROVE  FALSE
      BY DEF Registering
    <3>1. s # t
      BY <1>1, <1>2, NotificationAssumption DEF Sane
    <3> QED
      BY <1>7, <1>9, <3>1 DEF Registering
  <2>2. owner[d] = holder[d] \/ (owner[d] = Null /\ d \in pruned)
    BY <1>3, <2>1 DEF TokenFollowsSignIn
  <2>3. owner'[d] = IF d \in dead THEN Null ELSE owner[d]
    BY <1>2 DEF Without
  <2> QED
    BY <1>2, <2>2, <2>3
<1>18. Walks'
  BY <1>2, <1>3 DEF Walks, WalkMissesNothing, WalkInv
<1>19. Sends'
  BY <1>2, <1>8, SilentSends
<1> QED
  BY <1>8, <1>10, <1>11, <1>13, <1>14, <1>16, <1>17, <1>18, <1>19 DEF IndInv
LEMMA SaveTokenKeeps ==
    ASSUME IndInv, NEW t \in Tasks, SaveToken(t)
    PROVE  IndInv'
<1> PICK own : own = task[t]
  OBVIOUS
<1> PICK d : d = own.device
  OBVIOUS
<1>1. own \in Task /\ Sane(own) /\ Backed(own)
  BY OwnFacts
<1>2. PICK u \in own.users :
         /\ own.pc = "registering" /\ owner' = [owner EXCEPT ![d] = u] /\ pruned' = pruned \ {d}
         /\ begun' = begun /\ task' = [task EXCEPT ![t] = IdleTask] /\ Silent
         /\ UNCHANGED <<off, feed, read, reader, asked, holder, unsure, cut>>
  BY DEF SaveToken, At, Returns, Goto
<1>3. /\ task \in [Tasks -> Task] /\ TypeOK /\ TasksOK /\ Unique /\ Unborn /\ RegInv
      /\ ToldAllOrNone /\ TokenFollowsSignIn /\ Walks
  BY DEF IndInv, TypeOK
<1>4. d \in Devices /\ u \in Users /\ d # Null
  BY <1>1, <1>2, NotificationAssumption DEF Sane, Task
<1>5. Steady
  BY <1>2 DEF Steady
<1>6. IdleTask \in Task /\ Sane(IdleTask) /\ Backed(IdleTask)' /\ IdleTask.pc = "idle"
      /\ IdleTask.device = Null /\ IdleTask.id = 0
  BY <1>5, OwnFacts, IdleIsOK DEF Steady
<1>7. TasksOK' /\ task' \in [Tasks -> Task]
  BY <1>2, <1>5, <1>6, SteadyBacked, OneTask
<1>8. TypeOK'
  BY <1>2, <1>3, <1>4, <1>7 DEF TypeOK, Silent
<1>9. \A s \in Tasks : task'[s] = (IF s = t THEN IdleTask ELSE task[s])
  BY <1>2, <1>3
<1>10. Unique'
  <2> SUFFICES ASSUME NEW r \in Tasks, NEW s \in Tasks, task'[r].id = task'[s].id, r # s
               PROVE  task'[r].pc = "idle"
    BY DEF Unique
  <2>1. CASE r = t
    BY <1>6, <1>9, <2>1
  <2>2. CASE s = t
    <3>1. task[r].id = 0 /\ task'[r] = task[r]
      BY <1>6, <1>9, <2>2
    <3>2. Backed(task[r])
      BY <1>3 DEF TasksOK
    <3> QED
      BY <3>1, <3>2 DEF Backed
  <2>3. CASE r # t /\ s # t
    BY <1>3, <1>9, <2>3 DEF Unique
  <2> QED
    BY <2>1, <2>2, <2>3
<1>11. \A id : Told(id)' = Told(id)
  BY <1>2 DEF Told
<1>12. Unborn'
  BY <1>2, <1>3, <1>11 DEF Unborn
<1>13. d \in unsure \/ (u = holder[d] /\ \A s \in Tasks \ {t} : task[s].device # d)
  BY <1>2, <1>3 DEF RegInv, Alone
<1>14. RegInv'
  <2> SUFFICES ASSUME NEW s \in Tasks, task'[s].pc = "registering", task'[s].device \notin unsure
               PROVE  Alone(s)'
    BY <1>2 DEF RegInv
  <2>1. s # t /\ task'[s] = task[s]
    BY <1>6, <1>9
  <2>2. Alone(s) /\ task[s].device # Null /\ task[s].device # d
    BY <1>3, <1>13, <2>1 DEF RegInv, TasksOK, Sane
  <2>3. owner'[task[s].device] = owner[task[s].device]
    BY <1>2, <1>3, <2>2 DEF TypeOK
  <2>4. \A r \in Tasks \ {s} : task'[r].device # task[s].device
    BY <1>6, <1>9, <2>2 DEF Alone
  <2> QED
    BY <1>2, <2>1, <2>2, <2>3, <2>4 DEF Alone
<1>15. asked[own.id] \subseteq Told(own.id)
  BY <1>1, <1>2 DEF Sane, Backed, Fed
<1>16. ToldAllOrNone'
  <2> SUFFICES ASSUME NEW id \in Ids
               PROVE  \/ asked[id] \subseteq Told(id)
                      \/ Told(id) = {} /\ (InFlight(id)' \/ id \in cut)
    BY <1>2, <1>11 DEF ToldAllOrNone
  <2>1. CASE id = own.id
    BY <1>15, <2>1
  <2>2. CASE id # own.id
    <3>1. ASSUME NEW s \in Tasks, task[s].id = id, task[s].pc # "idle"
          PROVE  InFlight(id)'
      BY <1>9, <2>2, <3>1 DEF InFlight, At
    <3> QED
      BY <1>3, <3>1 DEF ToldAllOrNone, InFlight, At
  <2> QED
    BY <2>1, <2>2
<1>17. TokenFollowsSignIn'
  <2> SUFFICES ASSUME NEW e \in Devices, e \notin unsure, ~Registering(e)'
               PROVE  owner'[e] = holder[e] \/ (owner'[e] = Null /\ e \in pruned')
    BY <1>2 DEF TokenFollowsSignIn
  <2>1. CASE e = d
    <3>1. owner'[d] = u
      BY <1>2, <1>3, <1>4 DEF TypeOK
    <3> QED
      BY <1>13, <2>1, <3>1
  <2>2. CASE e # d
    <3>1. owner'[e] = owner[e]
      BY <1>2, <1>3, <2>2 DEF TypeOK
    <3>2. ~Registering(e)
      BY <1>9, <2>2 DEF Registering
    <3> QED
      BY <1>2, <1>3, <2>2, <3>1, <3>2 DEF TokenFollowsSignIn
  <2> QED
    BY <2>1, <2>2
<1>18. Walks'
  BY <1>2, <1>3 DEF Walks, WalkMissesNothing, WalkInv
<1>19. Sends'
  BY <1>2, <1>7, SilentSends
<1> QED
  BY <1>7, <1>8, <1>10, <1>12, <1>14, <1>16, <1>17, <1>18, <1>19 DEF IndInv

\* The process stops: no request outlives it.
LEMMA StopKeeps ==
    ASSUME IndInv, Stop
    PROVE  IndInv'
<1>1. /\ unsure' = unsure \cup UNION {Unsettled(t) : t \in Tasks}
      /\ cut' = cut \cup {id \in Ids : InFlight(id)}
      /\ task' = [t \in Tasks |-> IdleTask] /\ Silent
      /\ UNCHANGED <<tables, begun, reader, asked, holder, pruned>>
  BY DEF Stop
<1>2. /\ task \in [Tasks -> Task] /\ TypeOK /\ TasksOK /\ Unborn
      /\ ToldAllOrNone /\ TokenFollowsSignIn /\ Walks
  BY DEF IndInv, TypeOK
<1>3. begun' \in Nat /\ off' \in [Users -> SUBSET Channels]
  BY <1>1, <1>2 DEF TypeOK, tables
<1>4. IdleTask \in Task /\ Sane(IdleTask) /\ Backed(IdleTask)' /\ IdleTask.pc = "idle"
      /\ IdleTask.device = Null
  BY <1>3, IdleIsOK
<1>5. \A t \in Tasks : task'[t] = IdleTask
  BY <1>1
<1>6. TasksOK' /\ task' \in [Tasks -> Task]
  <2>1. ASSUME NEW t \in Tasks
        PROVE  (Sane(task[t]) /\ Backed(task[t]))'
    BY <1>4, <1>5 DEF Sane, Backed, Fed, Closed, Reaches
  <2> QED
    BY <1>1, <1>4, <2>1 DEF TasksOK
<1>7. unsure' \subseteq Devices /\ cut' \subseteq Ids
  <2>1. \A t \in Tasks : Unsettled(t) \subseteq Devices
    BY <1>2 DEF Unsettled, Task
  <2> QED
    BY <1>1, <1>2, <2>1 DEF TypeOK
<1>8. TypeOK'
  BY <1>1, <1>2, <1>6, <1>7 DEF TypeOK, tables, Silent
<1>9. Unique'
  BY <1>4, <1>5 DEF Unique
<1>10. \A id : Told(id)' = Told(id)
  BY <1>1 DEF Told, tables
<1>11. Unborn'
  BY <1>1, <1>2, <1>10 DEF Unborn
<1>12. RegInv'
  BY <1>4, <1>5 DEF RegInv
<1>13. ToldAllOrNone'
  <2> SUFFICES ASSUME NEW id \in Ids
               PROVE  asked[id] \subseteq Told(id) \/ (Told(id) = {} /\ id \in cut')
    BY <1>1, <1>10 DEF ToldAllOrNone
  <2> QED
    BY <1>1, <1>2 DEF ToldAllOrNone
<1>14. TokenFollowsSignIn'
  <2> SUFFICES ASSUME NEW d \in Devices, d \notin unsure'
               PROVE  owner[d] = holder[d] \/ (owner[d] = Null /\ d \in pruned)
    BY <1>1 DEF TokenFollowsSignIn, tables
  <2>1. ~Registering(d)
    <3> SUFFICES ASSUME NEW t \in Tasks, task[t].device = d
                 PROVE  d \in unsure'
      BY DEF Registering
    <3>1. d \in Unsettled(t)
      BY NotificationAssumption DEF Unsettled
    <3> QED
      BY <1>1, <3>1
  <2> QED
    BY <1>1, <1>2, <2>1 DEF TokenFollowsSignIn
<1>15. Walks'
  BY <1>1, <1>2 DEF Walks, WalkMissesNothing, WalkInv, tables
<1>16. Sends'
  BY <1>1, <1>6, SilentSends
<1> QED
  BY <1>6, <1>8, <1>9, <1>11, <1>12, <1>13, <1>14, <1>15, <1>16 DEF IndInv
-----------------------------------------------------------------------------
(* Requests that begin. *)

\* A request begins at an idle place and has the next id.
LEMMA BeginKeeps ==
    ASSUME IndInv, NEW t \in Tasks, NEW new \in Task, NEW users,
           task' = [task EXCEPT ![t] = new], task[t].pc = "idle", begun < MaxRequests,
           begun' = begun + 1, new.id = begun + 1, new.pc # "idle", Sane(new),
           Reaches(new)', Closed(new)', Fed(new)', Silent, UNCHANGED <<tables, reader, pruned, cut>>,
           asked' = [asked EXCEPT ![begun + 1] = users], users \subseteq Users,
           holder' \in [Devices -> Users \cup {Null}],
           unsure \subseteq unsure', unsure' \subseteq Devices,
           \A s \in Tasks \ {t} : \A other \in Task :
              other = task[s] /\ Reaches(other) => Reaches(other)',
           RegInv', TokenFollowsSignIn'
    PROVE  IndInv'
<1> PICK id : id = begun + 1
  OBVIOUS
<1>1. /\ task \in [Tasks -> Task] /\ TypeOK /\ TasksOK /\ Unique /\ Unborn
      /\ ToldAllOrNone /\ Walks
  BY DEF IndInv, TypeOK
<1>2. id \in Ids /\ begun \in Nat /\ id \in Nat /\ id > begun
  BY <1>1, NotificationAssumption DEF TypeOK, Ids
<1>3. asked' = [asked EXCEPT ![id] = users] /\ asked' \in [Ids -> SUBSET Users]
      /\ new.id = id /\ begun' = id
  BY <1>1, <1>2 DEF TypeOK
<1>4. /\ \A i : Told(i)' = Told(i)
      /\ \A channel : PreferenceOff(channel)' = PreferenceOff(channel)
  BY DEF Told, PreferenceOff, tables
<1>5. ASSUME NEW s \in Tasks \ {t}, NEW other \in Task, other = task[s], Backed(other)
      PROVE  Backed(other)'
  <2>1. other.pc # "idle" => other.id \in 1 .. begun /\ other.id # id /\ other.id \in 1 .. id
                             /\ asked'[other.id] = asked[other.id]
    BY <1>1, <1>2, <1>3, <1>5 DEF Backed, TypeOK
  <2>2. Fed(other)'
    BY <1>4, <1>5, <2>1 DEF Backed, Fed
  <2>3. Closed(other)'
    BY <1>4, <1>5 DEF Backed, Closed, tables
  <2>4. Reaches(other)'
    BY <1>5 DEF Backed
  <2> QED
    BY <1>3, <2>1, <2>2, <2>3, <2>4 DEF Backed
<1>6. Backed(new)'
  BY <1>2, <1>3 DEF Backed
<1>7. TasksOK' /\ task' \in [Tasks -> Task]
  BY <1>5, <1>6, OneTask
<1>8. begun' \in 0 .. MaxRequests
  BY <1>2, <1>3 DEF Ids
<1>9. TypeOK'
  BY <1>1, <1>3, <1>7, <1>8 DEF TypeOK, Silent, tables
<1>10. \A s \in Tasks : task'[s] = (IF s = t THEN new ELSE task[s])
  BY <1>1
<1>11. Unique'
  <2>1. ASSUME NEW s \in Tasks, s # t
        PROVE  task[s].id # id
    <3> PICK other : other = task[s]
      OBVIOUS
    <3>1. Sane(other) /\ Backed(other)
      BY <1>1 DEF TasksOK
    <3>2. CASE other.pc = "idle"
      BY <1>2, <3>1, <3>2 DEF Sane, IdleTask
    <3>3. CASE other.pc # "idle"
      BY <1>2, <3>1, <3>3 DEF Backed
    <3> QED
      BY <3>2, <3>3
  <2> SUFFICES ASSUME NEW r \in Tasks, NEW s \in Tasks, task'[r].id = task'[s].id, r # s
               PROVE  task'[r].pc = "idle"
    BY DEF Unique
  <2>2. r # t /\ s # t
    BY <1>3, <1>10, <2>1
  <2> QED
    BY <1>1, <1>10, <2>2 DEF Unique
<1>12. Unborn'
  <2> SUFFICES ASSUME NEW i \in Ids, i > id
               PROVE  asked'[i] = {} /\ Told(i) = {}
    BY <1>3, <1>4 DEF Unborn
  <2>1. i > begun /\ i # id
    BY <1>2 DEF Ids
  <2> QED
    BY <1>1, <1>3, <2>1 DEF Unborn, TypeOK
<1>13. ToldAllOrNone'
  <2> SUFFICES ASSUME NEW i \in Ids
               PROVE  \/ asked'[i] \subseteq Told(i)
                      \/ Told(i) = {} /\ (InFlight(i)' \/ i \in cut)
    BY <1>4 DEF ToldAllOrNone
  <2>1. CASE i = id
    <3>1. Told(i) = {}
      BY <1>1, <1>2, <2>1 DEF Unborn
    <3>2. InFlight(i)'
      BY <1>3, <1>10, <2>1 DEF InFlight, At
    <3> QED
      BY <3>1, <3>2
  <2>2. CASE i # id
    <3>1. asked'[i] = asked[i]
      BY <1>1, <1>3, <2>2 DEF TypeOK
    <3>2. InFlight(i) => InFlight(i)'
      <4> SUFFICES ASSUME NEW s \in Tasks, task[s].id = i, task[s].pc # "idle"
                   PROVE  InFlight(i)'
        BY DEF InFlight, At
      <4> QED
        BY <1>10 DEF InFlight, At
    <3> QED
      BY <1>1, <3>1, <3>2 DEF ToldAllOrNone
  <2> QED
    BY <2>1, <2>2
<1>14. Walks'
  BY <1>1 DEF Walks, WalkMissesNothing, WalkInv, tables
<1>15. Sends'
  BY <1>7, SilentSends
<1> QED
  BY <1>7, <1>9, <1>11, <1>12, <1>13, <1>14, <1>15 DEF IndInv

\* The channels that are off for those it is about, as it begins.
LEMMA BeginsWith ==
    ASSUME IndInv, NEW t \in Tasks, NEW local \in Task, Begins(t, local), Sane(local),
           local.pc \in {"emailing", "saving", "preferring", "filtering", "registering"},
           local.promo => local.pc = "filtering", off' = off, feed' = feed
    PROVE  \E new \in Task :
              /\ task' = [task EXCEPT ![t] = new] /\ task[t].pc = "idle" /\ begun < MaxRequests
              /\ begun' = begun + 1 /\ new.id = begun + 1 /\ Sane(new) /\ Closed(new)' /\ Reaches(new)'
              /\ new.pc = local.pc /\ new.users = local.users /\ new.device = local.device
              /\ new.kind = local.kind /\ new.promo = local.promo /\ new.existing = local.existing
              /\ Told(begun + 1) = {} /\ begun + 1 \in Ids
<1> PICK id : id = begun + 1
  OBVIOUS
<1> PICK now : now = [u \in Users |-> IF u \in local.users THEN off[u] ELSE {}]
  OBVIOUS
<1> PICK new : new = [local EXCEPT !.id = id, !.off = now]
  OBVIOUS
<1>1. task[t].pc = "idle" /\ begun < MaxRequests /\ begun' = id
      /\ task' = [task EXCEPT ![t] = new]
  BY DEF Begins, MayBegin, At
<1>2. off \in [Users -> SUBSET Channels] /\ begun \in Nat /\ Unborn
  BY OwnFacts DEF IndInv
<1>3. id \in Ids /\ id > begun
  BY <1>1, <1>2, NotificationAssumption DEF Ids
<1>4. now \in [Users -> SUBSET Channels]
  BY <1>2
<1>5. /\ new \in Task /\ new.id = id /\ new.off = now
      /\ new.pc = local.pc /\ new.users = local.users /\ new.device = local.device
      /\ new.kind = local.kind /\ new.promo = local.promo /\ new.existing = local.existing
      /\ new.rows = local.rows /\ new.next = local.next /\ new.tried = local.tried
  BY <1>3, <1>4 DEF Task
<1>6. Sane(new)
  BY <1>5 DEF Sane
<1>7. Told(id) = {} /\ Told(id)' = {}
  BY <1>2, <1>3 DEF Unborn, Told
<1>8. Closed(new)'
  <2>1. \A u \in Users : now[u] \subseteq off[u]
    BY <1>2
  <2> QED
    BY <1>5, <1>7, <2>1 DEF Closed
<1>9. Reaches(new)'
  <2>1. Range(new.rows) = {}
    BY <1>5 DEF Sane, Range
  <2> QED
    BY <2>1 DEF Reaches
<1> QED
  BY <1>1, <1>3, <1>5, <1>6, <1>7, <1>8, <1>9

LEMMA TellingKeeps ==
    ASSUME IndInv, NEW t \in Tasks, NEW local \in Task, NEW users, users \subseteq local.users,
           Telling(t, local, users), Sane(local),
           local.pc \in {"emailing", "saving", "preferring", "filtering"},
           local.promo => local.pc = "filtering", local.kind # "register",
           local.promo => users \cap PreferenceOff("promotions") = {},
           local.kind = "chat" => users = {},
           local.pc = "preferring" => local.kind = "chat"
    PROVE  IndInv'
<1>1. /\ Begins(t, local) /\ asked' = [asked EXCEPT ![begun + 1] = users] /\ Silent
      /\ UNCHANGED <<tables, reader, devices, cut>> /\ off' = off /\ feed' = feed
  BY DEF Telling, tables
<1>2. PICK new \in Task :
         /\ task' = [task EXCEPT ![t] = new] /\ task[t].pc = "idle" /\ begun < MaxRequests
         /\ begun' = begun + 1 /\ new.id = begun + 1 /\ Sane(new) /\ Closed(new)' /\ Reaches(new)'
         /\ new.pc = local.pc /\ new.users = local.users /\ new.device = local.device
         /\ new.kind = local.kind /\ new.promo = local.promo /\ new.existing = local.existing
         /\ Told(begun + 1) = {} /\ begun + 1 \in Ids
  BY <1>1, BeginsWith
<1>3. /\ task \in [Tasks -> Task] /\ TypeOK /\ TasksOK /\ RegInv /\ TokenFollowsSignIn
      /\ asked \in [Ids -> SUBSET Users] /\ local.users \subseteq Users
  BY DEF IndInv, TypeOK, Task
<1>4. asked'[begun + 1] = users
  BY <1>1, <1>2, <1>3
<1>5. ASSUME NEW id, id = begun + 1
      PROVE  Told(id)' = {}
  BY <1>1, <1>2, <1>5 DEF Told
<1>6. Fed(new)'
  <2> PICK id : id = new.id
    OBVIOUS
  <2>1. asked'[id] = users /\ Told(id)' = {}
    BY <1>2, <1>4, <1>5
  <2>2. PreferenceOff("promotions")' = PreferenceOff("promotions")
    BY <1>1 DEF PreferenceOff
  <2>3. new.kind = "chat" => asked'[id] = {}
    BY <1>2, <2>1
  <2>4. new.kind # "register" /\ (new.pc \in Late => new.kind = "chat")
    BY <1>2 DEF Late
  <2>5. asked'[id] \subseteq new.users
    BY <1>2, <2>1
  <2>6. new.promo => asked'[id] \cap PreferenceOff("promotions")' = {}
    BY <1>2, <2>1, <2>2
  <2> QED
    BY <2>1, <2>3, <2>4, <2>5, <2>6 DEF Fed
<1>7. UNCHANGED <<holder, pruned, unsure, owner>>
  BY <1>1 DEF devices, tables
<1>8. \A s \in Tasks \ {t} : \A other \in Task :
         other = task[s] /\ Reaches(other) => Reaches(other)'
  BY <1>7 DEF Reaches
<1>9. new.device = Null /\ task[t].device = Null /\ new.pc # "registering"
  <2>1. Sane(task[t])
    BY <1>3 DEF TasksOK
  <2> QED
    BY <1>2, <2>1 DEF Sane
<1>10. \A s \in Tasks : task'[s] = (IF s = t THEN new ELSE task[s])
  BY <1>2, <1>3
<1>11. RegInv'
  <2> SUFFICES ASSUME NEW s \in Tasks, task'[s].pc = "registering", task'[s].device \notin unsure
               PROVE  Alone(s)'
    BY <1>7 DEF RegInv
  <2>1. s # t /\ task'[s] = task[s]
    BY <1>9, <1>10
  <2>2. Alone(s) /\ task[s].device # Null
    BY <1>3, <2>1 DEF RegInv, TasksOK, Sane
  <2>3. \A r \in Tasks \ {s} : task'[r].device # task[s].device
    BY <1>9, <1>10, <2>2 DEF Alone
  <2> QED
    BY <1>7, <2>1, <2>2, <2>3 DEF Alone
<1>12. TokenFollowsSignIn'
  <2>1. \A d \in Devices : Registering(d) => Registering(d)'
    <3> SUFFICES ASSUME NEW d \in Devices, NEW s \in Tasks, task[s].device = d
                 PROVE  Registering(d)'
      BY DEF Registering
    <3>1. s # t
      BY <1>9, NotificationAssumption
    <3> QED
      BY <1>10, <3>1 DEF Registering
  <2> QED
    BY <1>3, <1>7, <2>1 DEF TokenFollowsSignIn
<1>13. holder' \in [Devices -> Users \cup {Null}] /\ unsure \subseteq unsure'
       /\ unsure' \subseteq Devices /\ users \subseteq Users
  BY <1>3, <1>7 DEF TypeOK
<1>14. UNCHANGED <<tables, reader, pruned, cut>> /\ new.pc # "idle"
  BY <1>1, <1>2, <1>7
<1> QED
  BY <1>1, <1>2, <1>6, <1>8, <1>11, <1>12, <1>13, <1>14, BeginKeeps
LEMMA IdleTaskIsTask == IdleTask \in Task
<1>1. <<>> \in Seq(DeviceRow) /\ 1 \in Nat
  BY EmptySeq
<1>2. NothingOff \in [Users -> SUBSET Channels]
  BY DEF NothingOff
<1> QED
  BY <1>1, <1>2 DEF IdleTask, Task, TaskPcs

LEMMA OnEventKeeps ==
    ASSUME IndInv, NEW t \in Tasks, NEW u \in Users, OnEvent(t, u)
    PROVE  IndInv'
<1> PICK local : local = [IdleTask EXCEPT !.pc = "saving", !.users = {u}]
  OBVIOUS
<1>1. local \in Task
  BY IdleTaskIsTask DEF Task, TaskPcs
<1>2. local.pc = "saving" /\ local.users = {u} /\ ~local.promo /\ local.kind = "event"
  BY DEF IdleTask
<1>3. Sane(local)
  BY DEF IdleTask, Sane
<1>4. Telling(t, local, {u})
  BY DEF OnEvent
<1> QED
  BY <1>1, <1>2, <1>3, <1>4, TellingKeeps

LEMMA NotifyKeeps ==
    ASSUME IndInv, NEW t \in Tasks, NEW u \in Users, Notify(t, u)
    PROVE  IndInv'
<1> PICK local : local = [IdleTask EXCEPT !.pc = "emailing", !.kind = "notice", !.users = {u}]
  OBVIOUS
<1>1. local \in Task
  BY IdleTaskIsTask DEF Task, TaskPcs
<1>2. local.pc = "emailing" /\ local.users = {u} /\ ~local.promo /\ local.kind = "notice"
  BY DEF IdleTask
<1>3. Sane(local)
  BY DEF IdleTask, Sane
<1>4. Telling(t, local, {u})
  BY DEF Notify
<1> QED
  BY <1>1, <1>2, <1>3, <1>4, TellingKeeps

LEMMA OnMessageSentKeeps ==
    ASSUME IndInv, NEW t \in Tasks, NEW u \in Users, OnMessageSent(t, u)
    PROVE  IndInv'
<1> PICK local : local = [IdleTask EXCEPT !.pc = "preferring", !.kind = "chat", !.users = {u}]
  OBVIOUS
<1>1. local \in Task
  BY IdleTaskIsTask DEF Task, TaskPcs
<1>2. local.pc = "preferring" /\ local.users = {u} /\ ~local.promo /\ local.kind = "chat"
  BY DEF IdleTask
<1>3. Sane(local)
  BY DEF IdleTask, Sane
<1>4. Telling(t, local, {})
  BY DEF OnMessageSent
<1> QED
  BY <1>1, <1>2, <1>3, <1>4, TellingKeeps

LEMMA BroadcastKeeps ==
    ASSUME IndInv, NEW t \in Tasks, NEW users \in SUBSET Users, NEW promo \in BOOLEAN,
           Broadcast(t, users, promo)
    PROVE  IndInv'
<1> PICK local : local = [IdleTask EXCEPT !.pc = "filtering", !.kind = "broadcast",
                                          !.promo = promo, !.users = users]
  OBVIOUS
<1> PICK told : told = users \ (IF promo THEN PreferenceOff("promotions") ELSE {})
  OBVIOUS
<1>1. local \in Task
  BY IdleTaskIsTask DEF Task, TaskPcs
<1>2. local.pc = "filtering" /\ local.users = users /\ local.promo = promo
      /\ local.kind = "broadcast"
  BY DEF IdleTask
<1>3. Sane(local)
  BY DEF IdleTask, Sane
<1>4. Telling(t, local, told)
  BY DEF Broadcast
<1>5. told \subseteq users /\ (promo => told \cap PreferenceOff("promotions") = {})
  OBVIOUS
<1> QED
  BY <1>1, <1>2, <1>3, <1>4, <1>5, TellingKeeps

\* Whoever is busy with the device is unsure of it from now on.
LEMMA RegisterDeviceTokenKeeps ==
    ASSUME IndInv, NEW t \in Tasks, NEW u \in Users, NEW d \in Devices, RegisterDeviceToken(t, u, d)
    PROVE  IndInv'
<1> PICK local : local = [IdleTask EXCEPT !.pc = "registering", !.kind = "register",
                             !.users = {u}, !.device = d, !.existing = owner[d] # Null]
  OBVIOUS
<1>1. local \in Task
  BY IdleTaskIsTask DEF Task, TaskPcs
<1>2. /\ local.pc = "registering" /\ local.users = {u} /\ ~local.promo /\ local.kind = "register"
      /\ local.device = d
  BY DEF IdleTask
<1>3. local.existing <=> owner[d] # Null
  BY DEF IdleTask
<1>4. Sane(local)
  BY NotificationAssumption DEF IdleTask, Sane
<1>5. /\ Begins(t, local) /\ holder' = [holder EXCEPT ![d] = u]
      /\ unsure' = (IF Busy(d) THEN unsure \cup {d} ELSE unsure) /\ Silent
      /\ UNCHANGED <<tables, reader, asked, pruned, cut>> /\ off' = off /\ feed' = feed
      /\ owner' = owner
  BY DEF RegisterDeviceToken, tables
<1>6. PICK new \in Task :
         /\ task' = [task EXCEPT ![t] = new] /\ task[t].pc = "idle" /\ begun < MaxRequests
         /\ begun' = begun + 1 /\ new.id = begun + 1 /\ Sane(new) /\ Closed(new)' /\ Reaches(new)'
         /\ new.pc = local.pc /\ new.users = local.users /\ new.device = local.device
         /\ new.kind = local.kind /\ new.promo = local.promo /\ new.existing = local.existing
         /\ Told(begun + 1) = {} /\ begun + 1 \in Ids
  BY <1>1, <1>2, <1>4, <1>5, BeginsWith
<1>7. /\ task \in [Tasks -> Task] /\ TypeOK /\ TasksOK /\ RegInv /\ TokenFollowsSignIn /\ Unborn
      /\ asked \in [Ids -> SUBSET Users] /\ holder \in [Devices -> Users \cup {Null}]
      /\ unsure \subseteq Devices /\ begun \in Nat
  BY OwnFacts DEF IndInv, TypeOK
<1>8. asked[begun + 1] = {} /\ asked' = [asked EXCEPT ![begun + 1] = {}]
  <2>1. asked[begun + 1] = {}
    BY <1>6, <1>7 DEF Unborn
  <2> QED
    BY <1>5, <1>6, <1>7, <2>1
<1>9. Fed(new)'
  <2> PICK id : id = begun + 1
    OBVIOUS
  <2>1. asked'[id] = {} /\ new.id = id
    BY <1>5, <1>6, <1>8
  <2> QED
    BY <1>2, <1>6, <2>1 DEF Fed
<1>10. unsure \subseteq unsure' /\ unsure' \subseteq Devices /\ (Busy(d) => d \in unsure')
  BY <1>5, <1>7
<1>11. \A e \in Devices \ {d} : holder'[e] = holder[e]
  BY <1>5, <1>7
<1>12. holder'[d] = u /\ holder' \in [Devices -> Users \cup {Null}]
  BY <1>5, <1>7
<1>13. ASSUME NEW s \in Tasks \ {t}, NEW other \in Task, other = task[s], Reaches(other)
       PROVE  Reaches(other)'
  <2> SUFFICES ASSUME NEW row \in Range(other.rows)
               PROVE  row.user \in other.users
                      /\ (row.token \in unsure' \/ holder'[row.token] = row.user)
    BY DEF Reaches
  <2>1. row.user \in other.users /\ (row.token \in unsure \/ holder[row.token] = row.user)
    BY <1>13 DEF Reaches
  <2>2. row.token \in Devices
    <3>1. other.rows \in Seq(DeviceRow)
      BY DEF Task
    <3>2. Range(other.rows) \subseteq DeviceRow
      BY <3>1, RangeOfSeq
    <3> QED
      BY <3>2 DEF DeviceRow
  <2>3. row.token = d => Busy(d)
    BY <1>13 DEF Busy, Pushing
  <2> QED
    BY <1>10, <1>11, <2>1, <2>2, <2>3
<1>14. \A s \in Tasks : task'[s] = (IF s = t THEN new ELSE task[s])
  BY <1>6, <1>7
<1>15. RegInv'
  <2> SUFFICES ASSUME NEW s \in Tasks, task'[s].pc = "registering", task'[s].device \notin unsure'
               PROVE  Alone(s)'
    BY DEF RegInv
  <2>1. CASE s = t
    <3>1. ~Busy(d)
      BY <1>2, <1>6, <1>10, <1>14, <2>1
    <3>2. \A r \in Tasks \ {s} : task'[r].device # d
      BY <1>14, <2>1, <3>1 DEF Busy
    <3>3. task'[s].users = {holder'[d]} /\ task'[s].device = d
      BY <1>2, <1>6, <1>12, <1>14, <2>1
    <3>4. task'[s].existing <=> owner'[d] # Null
      BY <1>3, <1>5, <1>6, <1>14, <2>1
    <3> QED
      BY <3>2, <3>3, <3>4 DEF Alone
  <2>2. CASE s # t
    <3> PICK e : e = task[s].device
      OBVIOUS
    <3>1. task'[s] = task[s] /\ e \notin unsure
      BY <1>10, <1>14, <2>2
    <3>2. Alone(s) /\ e # Null /\ e \in Devices
      BY <1>7, <3>1 DEF RegInv, TasksOK, Sane, Task
    <3>3. e # d
      BY <1>10, <2>2, <3>1 DEF Busy
    <3>4. \A r \in Tasks \ {s} : task'[r].device # e
      BY <1>2, <1>6, <1>14, <3>2, <3>3 DEF Alone
    <3> QED
      BY <1>5, <1>11, <3>1, <3>2, <3>3, <3>4 DEF Alone
  <2> QED
    BY <2>1, <2>2
<1>16. TokenFollowsSignIn'
  <2> SUFFICES ASSUME NEW e \in Devices, e \notin unsure', ~Registering(e)'
               PROVE  owner[e] = holder'[e] \/ (owner[e] = Null /\ e \in pruned)
    BY <1>5 DEF TokenFollowsSignIn
  <2>1. e # d
    BY <1>2, <1>6, <1>14 DEF Registering
  <2>2. ~Registering(e)
    <3> SUFFICES ASSUME NEW s \in Tasks, task[s].device = e
                 PROVE  FALSE
      BY DEF Registering
    <3>1. Sane(task[s])
      BY <1>7 DEF TasksOK
    <3>2. s # t
      BY <1>6, <3>1, NotificationAssumption DEF Sane
    <3> QED
      BY <1>14, <3>2 DEF Registering
  <2> QED
    BY <1>7, <1>10, <1>11, <2>1, <2>2 DEF TokenFollowsSignIn
<1>17. UNCHANGED <<tables, reader, pruned, cut>> /\ new.pc # "idle"
  BY <1>2, <1>5, <1>6
<1> QED
  BY <1>5, <1>6, <1>8, <1>9, <1>10, <1>12, <1>13, <1>15, <1>16, <1>17, BeginKeeps
-----------------------------------------------------------------------------
(* What users do meanwhile. *)

LEMMA RemoveDeviceTokenKeeps ==
    ASSUME IndInv, NEW d \in Devices, NEW u \in Users, RemoveDeviceToken(d, u)
    PROVE  IndInv'
<1> PICK gone \in SUBSET {d} : gone = IF Removable(d, u) THEN {d} ELSE {}
  OBVIOUS
<1>1. /\ begun < MaxRequests /\ begun' = begun + 1
      /\ owner' = (IF Removable(d, u) THEN Without({d}) ELSE owner)
      /\ task' = (IF Removable(d, u) THEN Forget(task, {d}) ELSE task)
      /\ holder' = [holder EXCEPT ![d] = IF @ = u THEN Null ELSE @]
      /\ unsure' = (IF Busy(d) THEN unsure \cup {d} ELSE unsure)
      /\ Silent /\ UNCHANGED <<off, feed, read, reader, asked, pruned, cut>>
  BY DEF RemoveDeviceToken
<1>2. /\ task \in [Tasks -> Task] /\ TypeOK /\ TasksOK /\ Unique /\ Unborn /\ RegInv
      /\ ToldAllOrNone /\ TokenFollowsSignIn /\ Walks /\ begun \in Nat
  BY OwnFacts DEF IndInv, TypeOK
<1>3. owner' \in [Devices -> Users \cup {Null}]
      /\ \A e \in Devices : owner'[e] = (IF e \in gone THEN Null ELSE owner[e])
  <2>1. CASE Removable(d, u)
    BY <1>1, <1>2, <2>1 DEF Without, TypeOK
  <2>2. CASE ~Removable(d, u)
    BY <1>1, <1>2, <2>2 DEF TypeOK
  <2> QED
    BY <2>1, <2>2
<1>4. unsure \subseteq unsure' /\ unsure' \subseteq Devices /\ (Busy(d) => d \in unsure')
  BY <1>1, <1>2 DEF TypeOK
<1>5. holder' \in [Devices -> Users \cup {Null}] /\ (\A e \in Devices \ {d} : holder'[e] = holder[e])
      /\ holder'[d] = (IF holder[d] = u THEN Null ELSE holder[d])
  BY <1>1, <1>2 DEF TypeOK
<1>6. begun' \in 0 .. MaxRequests /\ begun' \in Nat
  BY <1>1, <1>2, NotificationAssumption
<1>7. \A id : Told(id)' = Told(id)
  BY <1>1 DEF Told
<1>8. ASSUME NEW s \in Tasks
      PROVE  LET new == task'[s]  other == task[s] IN
             /\ new \in Task /\ Sane(new) /\ Backed(task[s])'
             /\ new.pc = other.pc /\ new.id = other.id /\ new.device = other.device
             /\ new.users = other.users
             /\ (other.device \notin gone => new.existing = other.existing)
  <2> PICK other : other = task[s]
    OBVIOUS
  <2> PICK new : new = task'[s]
    OBVIOUS
  <2>1. other \in Task /\ Sane(other) /\ Backed(other)
    BY <1>2 DEF TasksOK
  <2>2. Backed(other)'
    <3>1. Fed(other)'
      BY <1>1, <1>7, <2>1 DEF Backed, Fed, PreferenceOff
    <3>2. Closed(other)'
      BY <1>1, <1>7, <2>1 DEF Backed, Closed
    <3>3. Reaches(other)'
      <4> SUFFICES ASSUME NEW row \in Range(other.rows)
                   PROVE  row.user \in other.users
                          /\ (row.token \in unsure' \/ holder'[row.token] = row.user)
        BY DEF Reaches
      <4>1. row.user \in other.users /\ (row.token \in unsure \/ holder[row.token] = row.user)
        BY <2>1 DEF Backed, Reaches
      <4>2. row.token \in Devices
        <5>1. other.rows \in Seq(DeviceRow)
          BY <2>1 DEF Task
        <5>2. Range(other.rows) \subseteq DeviceRow
          BY <5>1, RangeOfSeq
        <5> QED
          BY <5>2 DEF DeviceRow
      <4>3. row.token = d => Busy(d)
        BY DEF Busy, Pushing
      <4> QED
        BY <1>4, <1>5, <4>1, <4>2, <4>3
    <3>4. other.pc # "idle" => other.id \in 1 .. begun'
      BY <1>1, <1>2, <2>1 DEF Backed
    <3> QED
      BY <3>1, <3>2, <3>3, <3>4 DEF Backed
  <2>3. /\ new \in Task /\ Sane(new) /\ Backed(new)'
        /\ new.pc = other.pc /\ new.id = other.id /\ new.device = other.device
        /\ new.users = other.users
        /\ (other.device \notin gone => new.existing = other.existing)
    <3>1. CASE Removable(d, u)
      <4>1. new = [other EXCEPT !.existing = @ /\ other.device \notin {d}]
        BY <1>1, <3>1 DEF Forget
      <4>2. /\ new \in Task /\ Sane(new) /\ (Backed(other)' => Backed(new)')
            /\ new.pc = other.pc /\ new.id = other.id /\ new.device = other.device
            /\ new.users = other.users
            /\ new.existing = (other.existing /\ other.device \notin {d})
        BY <2>1, <4>1, ForgetKeepsTask
      <4>3. gone = {d} /\ other.existing \in BOOLEAN
        BY <2>1, <3>1 DEF Task
      <4>4. other.device \notin gone => new.existing = other.existing
        BY <4>2, <4>3
      <4> QED
        BY <2>2, <4>2, <4>4
    <3>2. CASE ~Removable(d, u)
      <4>1. new = other
        BY <1>1, <3>2
      <4> QED
        BY <2>1, <2>2, <4>1
    <3> QED
      BY <3>1, <3>2
  <2> QED
    BY <2>3 DEF Backed, Fed, Closed, Reaches
<1>9. TasksOK' /\ task' \in [Tasks -> Task]
  <2>1. \A s \in Tasks : (Sane(task[s]) /\ Backed(task[s]))'
    BY <1>8 DEF Sane
  <2>2. task' = [s \in Tasks |-> task'[s]]
    BY <1>1, <1>2 DEF Forget
  <2> QED
    BY <1>8, <2>1, <2>2 DEF TasksOK
<1>10. TypeOK'
  BY <1>1, <1>2, <1>3, <1>4, <1>5, <1>6, <1>9 DEF TypeOK, Silent
<1>11. Unique'
  BY <1>2, <1>8 DEF Unique
<1>12. Unborn'
  <2> SUFFICES ASSUME NEW id \in Ids, id > begun'
               PROVE  asked[id] = {} /\ Told(id) = {}
    BY <1>1, <1>7 DEF Unborn
  <2>1. id > begun
    BY <1>1, <1>2 DEF Ids
  <2> QED
    BY <1>2, <2>1 DEF Unborn
<1>13. \A e \in Devices : Registering(e)' <=> Registering(e)
  BY <1>8 DEF Registering
<1>14. RegInv'
  <2> SUFFICES ASSUME NEW s \in Tasks, task'[s].pc = "registering", task'[s].device \notin unsure'
               PROVE  Alone(s)'
    BY DEF RegInv
  <2> PICK e : e = task[s].device
    OBVIOUS
  <2>1. task[s].pc = "registering" /\ e \notin unsure' /\ task'[s].device = e
    BY <1>8
  <2>2. Alone(s) /\ e \in Devices /\ e # Null
    BY <1>2, <1>4, <2>1 DEF RegInv, TasksOK, Sane, Task
  <2>3. e # d
    BY <1>4, <2>1 DEF Busy
  <2>4. task'[s].users = {holder'[e]}
    BY <1>5, <1>8, <2>2, <2>3 DEF Alone
  <2>5. task'[s].existing <=> owner'[e] # Null
    <3>1. task'[s].existing = task[s].existing
      BY <1>8, <2>3
    <3>2. owner'[e] = owner[e]
      BY <1>3, <2>2, <2>3
    <3> QED
      BY <2>2, <3>1, <3>2 DEF Alone
  <2>6. \A r \in Tasks \ {s} : task'[r].device # e
    BY <1>8, <2>2 DEF Alone
  <2> QED
    BY <2>1, <2>4, <2>5, <2>6 DEF Alone
<1>15. ToldAllOrNone'
  <2>1. \A id \in Ids : InFlight(id) => InFlight(id)'
    BY <1>8 DEF InFlight, At
  <2> QED
    BY <1>1, <1>2, <1>7, <2>1 DEF ToldAllOrNone
<1>16. TokenFollowsSignIn'
  <2> SUFFICES ASSUME NEW e \in Devices, e \notin unsure', ~Registering(e)
               PROVE  owner'[e] = holder'[e] \/ (owner'[e] = Null /\ e \in pruned)
    BY <1>1, <1>13 DEF TokenFollowsSignIn
  <2>1. owner[e] = holder[e] \/ (owner[e] = Null /\ e \in pruned)
    BY <1>2, <1>4 DEF TokenFollowsSignIn
  <2>2. CASE e = d
    <3>1. (d \in gone) <=> owner[d] = u
      BY DEF Removable
    <3>2. u # Null
      BY NotificationAssumption
    <3> QED
      BY <1>3, <1>5, <2>1, <2>2, <3>1, <3>2
  <2>3. CASE e # d
    BY <1>3, <1>5, <2>1, <2>3
  <2> QED
    BY <2>2, <2>3
<1>17. Walks'
  BY <1>1, <1>2 DEF Walks, WalkMissesNothing, WalkInv
<1>18. Sends'
  BY <1>1, <1>9, SilentSends
<1> QED
  BY <1>9, <1>10, <1>11, <1>12, <1>14, <1>15, <1>16, <1>17, <1>18 DEF IndInv

LEMMA UpdatePreferencesKeeps ==
    ASSUME IndInv, NEW u \in Users, NEW on \in SUBSET Channels, NEW now \in SUBSET Channels,
           UpdatePreferences(u, on, now)
    PROVE  IndInv'
<1>1. /\ begun < MaxRequests /\ begun' = begun + 1
      /\ off' = [off EXCEPT ![u] = (@ \ on) \cup now]
      /\ task' = [t \in Tasks |-> [task[t] EXCEPT !.off[u] = @ \ on]]
      /\ asked' = [id \in Ids |->
            IF "promotions" \in now /\ \E t \in Tasks : task[t].id = id /\ task[t].promo
            THEN asked[id] \ {u} ELSE asked[id]]
      /\ Silent /\ UNCHANGED <<owner, feed, read, reader, devices, cut>>
  BY DEF UpdatePreferences
<1>2. /\ task \in [Tasks -> Task] /\ TypeOK /\ TasksOK /\ Unique /\ Unborn /\ RegInv
      /\ ToldAllOrNone /\ TokenFollowsSignIn /\ Walks /\ begun \in Nat
      /\ off \in [Users -> SUBSET Channels] /\ asked \in [Ids -> SUBSET Users]
  BY OwnFacts DEF IndInv, TypeOK
<1>3. UNCHANGED <<holder, pruned, unsure>>
  BY <1>1 DEF devices
<1>4. begun' \in 0 .. MaxRequests /\ begun' \in Nat
  BY <1>1, <1>2, NotificationAssumption
<1>5. \A id : Told(id)' = Told(id)
  BY <1>1 DEF Told
<1>6. off' \in [Users -> SUBSET Channels]
      /\ (\A v \in Users \ {u} : off'[v] = off[v]) /\ off'[u] = (off[u] \ on) \cup now
  BY <1>1, <1>2
<1>7. asked' \in [Ids -> SUBSET Users] /\ \A id \in Ids : asked'[id] \subseteq asked[id]
  BY <1>1, <1>2
<1>8. ASSUME NEW s \in Tasks
      PROVE  LET new == task'[s]  other == task[s] IN
             /\ new \in Task /\ Sane(new) /\ Backed(task[s])'
             /\ new.pc = other.pc /\ new.id = other.id /\ new.device = other.device
             /\ new.users = other.users /\ new.existing = other.existing
  <2> PICK other : other = task[s]
    OBVIOUS
  <2> PICK new : new = task'[s]
    OBVIOUS
  <2>1. other \in Task /\ Sane(other) /\ Backed(other) /\ other.off \in [Users -> SUBSET Channels]
    BY <1>2 DEF TasksOK, Task
  <2> PICK closed : closed = [other.off EXCEPT ![u] = @ \ on]
    OBVIOUS
  <2>2. new = [other EXCEPT !.off = closed]
    BY <1>1, <2>1 DEF Task
  <2>3. closed \in [Users -> SUBSET Channels] /\ closed[u] = other.off[u] \ on
        /\ \A v \in Users \ {u} : closed[v] = other.off[v]
    BY <2>1
  <2>4. /\ new \in Task
        /\ new.pc = other.pc /\ new.id = other.id /\ new.device = other.device
        /\ new.users = other.users /\ new.existing = other.existing
        /\ new.kind = other.kind /\ new.promo = other.promo /\ new.rows = other.rows
        /\ new.next = other.next /\ new.tried = other.tried /\ new.off = closed
    BY <2>1, <2>2, <2>3 DEF Task
  <2>5. Sane(new)
    <3>1. ASSUME other.pc = "idle"
          PROVE  new = IdleTask
      <4>1. other = IdleTask /\ other.off = NothingOff
        BY <2>1, <3>1 DEF Sane, IdleTask
      <4>2. closed = NothingOff
        BY <2>3, <4>1 DEF NothingOff
      <4> QED
        BY <2>2, <4>1, <4>2 DEF IdleTask
    <3> QED
      BY <2>1, <2>4, <3>1 DEF Sane
  <2>6. Fed(new)'
    <3>1. other.pc # "idle" => other.id \in Ids
      BY <2>1, OwnFacts
    <3>2. ASSUME other.pc = "filtering", other.promo,
                 asked[other.id] \cap PreferenceOff("promotions") = {}, other.id \in Ids
          PROVE  asked'[other.id] \cap PreferenceOff("promotions")' = {}
      <4> SUFFICES ASSUME NEW v \in asked'[other.id], v \in Users, "promotions" \in off'[v]
                   PROVE  FALSE
        BY DEF PreferenceOff
      <4>1. v \in asked[other.id] /\ "promotions" \notin off[v]
        BY <1>7, <3>2 DEF PreferenceOff
      <4>2. v = u /\ "promotions" \in now
        BY <1>6, <4>1
      <4>3. asked'[other.id] = asked[other.id] \ {u}
        BY <1>1, <3>2, <4>2
      <4> QED
        BY <4>2, <4>3
    <3>3. Fed(other)
      BY <2>1 DEF Backed
    <3> SUFFICES ASSUME other.pc # "idle"
                 PROVE  IF new.kind \in {"chat", "register"} THEN asked'[new.id] = {} ELSE
                        /\ new.pc \in Early => Told(new.id)' = {} /\ asked'[new.id] \subseteq new.users
                        /\ new.pc \in Late => new.users \cup asked'[new.id] \subseteq Told(new.id)'
                        /\ new.pc = "filtering" /\ new.promo =>
                              asked'[new.id] \cap PreferenceOff("promotions")' = {}
      BY <2>4 DEF Fed
    <3>4. asked'[new.id] \subseteq asked[new.id] /\ new.id = other.id /\ Told(new.id)' = Told(new.id)
      BY <1>5, <1>7, <2>4, <3>1
    <3>5. CASE new.kind \in {"chat", "register"}
      BY <2>4, <3>3, <3>4, <3>5 DEF Fed
    <3>6. CASE new.kind \notin {"chat", "register"}
      BY <2>4, <3>1, <3>2, <3>3, <3>4, <3>6 DEF Fed
    <3> QED
      BY <3>5, <3>6
  <2>7. Closed(new)'
    <3> SUFFICES ASSUME NEW v \in Users
                 PROVE  /\ closed[v] \subseteq off'[v]
                        /\ new.pc = "delivering" /\ v \in new.users => "email" \notin closed[v]
                        /\ new.pc \in {"finding", "sending", "pruning"} /\ v \in new.users =>
                              "push" \notin closed[v]
                        /\ new.promo /\ new.pc # "filtering" /\ v \in new.users =>
                              "promotions" \notin closed[v]
                        /\ new.promo /\ "promotions" \in closed[v] => v \notin Told(new.id)'
      BY <2>4 DEF Closed
    <3>1. closed[v] \subseteq other.off[v]
      BY <2>3
    <3>2. closed[v] \subseteq off'[v]
      <4>1. other.off[v] \subseteq off[v]
        BY <2>1 DEF Backed, Closed
      <4> QED
        BY <1>6, <2>3, <4>1
    <3>3. Told(new.id)' = Told(other.id)
      BY <1>5, <2>4
    <3>4. Closed(other)
      BY <2>1 DEF Backed
    <3> QED
      BY <2>4, <3>1, <3>2, <3>3, <3>4 DEF Closed
  <2>8. Reaches(new)'
    BY <1>3, <2>1, <2>4 DEF Backed, Reaches
  <2>9. new.pc # "idle" => new.id \in 1 .. begun'
    BY <1>1, <1>2, <2>1, <2>4 DEF Backed
  <2>10. Backed(new)'
    BY <2>6, <2>7, <2>8, <2>9 DEF Backed
  <2> QED
    BY <2>4, <2>5, <2>10 DEF Backed, Fed, Closed, Reaches
<1>9. TasksOK' /\ task' \in [Tasks -> Task]
  <2>1. \A s \in Tasks : (Sane(task[s]) /\ Backed(task[s]))'
    BY <1>8 DEF Sane
  <2>2. task' = [s \in Tasks |-> task'[s]]
    BY <1>1
  <2> QED
    BY <1>8, <2>1, <2>2 DEF TasksOK
<1>10. TypeOK'
  BY <1>1, <1>2, <1>3, <1>4, <1>6, <1>7, <1>9 DEF TypeOK, Silent
<1>11. Unique'
  BY <1>2, <1>8 DEF Unique
<1>12. Unborn'
  <2> SUFFICES ASSUME NEW id \in Ids, id > begun'
               PROVE  asked'[id] = {} /\ Told(id) = {}
    BY <1>5 DEF Unborn
  <2>1. id > begun
    BY <1>1, <1>2 DEF Ids
  <2> QED
    BY <1>2, <1>7, <2>1 DEF Unborn
<1>13. \A e \in Devices : Registering(e)' <=> Registering(e)
  BY <1>8 DEF Registering
<1>14. RegInv'
  <2> SUFFICES ASSUME NEW s \in Tasks, task'[s].pc = "registering", task'[s].device \notin unsure
               PROVE  Alone(s)'
    BY <1>3 DEF RegInv
  <2>1. Alone(s) /\ task'[s].device = task[s].device
    BY <1>2, <1>8 DEF RegInv
  <2>2. \A r \in Tasks \ {s} : task'[r].device # task'[s].device
    BY <1>8, <2>1 DEF Alone
  <2>3. task'[s].users = {holder[task[s].device]}
        /\ (task'[s].existing <=> owner[task[s].device] # Null)
    BY <1>8, <2>1 DEF Alone
  <2> QED
    BY <1>1, <1>3, <2>1, <2>2, <2>3 DEF Alone
<1>15. ToldAllOrNone'
  <2>1. \A id \in Ids : InFlight(id) => InFlight(id)'
    BY <1>8 DEF InFlight, At
  <2> QED
    BY <1>1, <1>2, <1>5, <1>7, <2>1 DEF ToldAllOrNone
<1>16. TokenFollowsSignIn'
  BY <1>1, <1>2, <1>3, <1>13 DEF TokenFollowsSignIn
<1>17. Walks'
  BY <1>1, <1>2 DEF Walks, WalkMissesNothing, WalkInv
<1>18. Sends'
  BY <1>1, <1>9, SilentSends
<1> QED
  BY <1>9, <1>10, <1>11, <1>12, <1>14, <1>15, <1>16, <1>17, <1>18 DEF IndInv
-----------------------------------------------------------------------------
(* The feed and its reader. *)

\* Rows are appended for those it tells; the requests of other ids do not notice.
LEMMA SaveRowsKeeps ==
    ASSUME IndInv, NEW t \in Tasks, SaveRows(t)
    PROVE  IndInv'
<1> PICK own : own = task[t]
  OBVIOUS
<1> PICK id : id = own.id
  OBVIOUS
<1> PICK new : new = [own EXCEPT !.pc = "preferring"]
  OBVIOUS
<1>1. own \in Task /\ Sane(own) /\ Backed(own)
  BY OwnFacts
<1>2. /\ own.pc = "saving" /\ begun' = begun /\ task' = [task EXCEPT ![t] = new]
      /\ feed' = [u \in Users |-> IF u \in own.users THEN Append(feed[u], id) ELSE feed[u]]
      /\ delivered' = Messages(own, own.users, "live")
      /\ UNCHANGED <<owner, off, read, reader, asked, devices, cut>>
  BY DEF SaveRows, RowsFor, At, Goto
<1>3. /\ task \in [Tasks -> Task] /\ TypeOK /\ TasksOK /\ Unique /\ Unborn /\ RegInv
      /\ ToldAllOrNone /\ TokenFollowsSignIn /\ Walks /\ feed \in [Users -> Seq(Ids)]
  BY DEF IndInv, TypeOK
<1>4. own.device = Null /\ own.kind \notin {"chat", "register"} /\ own.users \subseteq Users
      /\ id \in Ids
  BY <1>1, <1>2, OwnFacts DEF Sane, Task
<1>5. /\ new \in Task /\ new.pc = "preferring"
      /\ new.kind = own.kind /\ new.id = id /\ new.promo = own.promo
      /\ new.users = own.users /\ new.rows = own.rows /\ new.next = own.next
      /\ new.tried = own.tried /\ new.device = own.device /\ new.off = own.off
  BY <1>1 DEF Task, TaskPcs
<1>6. Sane(new)
  BY <1>1, <1>2, <1>4, <1>5 DEF Sane
<1>7. ASSUME NEW u \in Users
      PROVE  /\ feed'[u] \in Seq(Ids)
             /\ Range(feed'[u]) = IF u \in own.users THEN Range(feed[u]) \cup {id} ELSE Range(feed[u])
             /\ Len(feed'[u]) >= Len(feed[u]) /\ Len(feed'[u]) \in Nat /\ Len(feed[u]) \in Nat
             /\ \A i \in 1 .. Len(feed[u]) : feed'[u][i] = feed[u][i]
  <2>1. feed[u] \in Seq(Ids) /\ Len(feed[u]) \in Nat
    BY <1>3, LenProperties
  <2>2. CASE u \in own.users
    <3>1. feed'[u] = Append(feed[u], id)
      BY <1>2, <2>2
    <3> QED
      BY <1>4, <2>1, <2>2, <3>1, RangeOfAppend
  <2>3. CASE u \notin own.users
    <3>1. feed'[u] = feed[u]
      BY <1>2, <2>3
    <3> QED
      BY <2>1, <2>3, <3>1
  <2> QED
    BY <2>2, <2>3
<1>8. Told(id) = {} /\ asked[id] \subseteq own.users
  BY <1>1, <1>2, <1>4 DEF Backed, Fed, Early
<1>9. Told(id)' = own.users
  BY <1>4, <1>7, <1>8 DEF Told
<1>10. \A i : i # id => Told(i)' = Told(i)
  BY <1>7 DEF Told
<1>11. UNCHANGED <<owner, off, read, reader, asked, holder, pruned, unsure, cut, begun>>
  BY <1>2 DEF devices
<1>12. ASSUME NEW s \in Tasks \ {t}, NEW other \in Task, other = task[s], Backed(other)
       PROVE  Backed(other)'
  <2>1. other.pc # "idle" => other.id # id
    BY <1>2, <1>3, <1>12 DEF Unique
  <2>2. other.pc = "idle" => ~other.promo
    BY <1>3, <1>12 DEF TasksOK, Sane, IdleTask
  <2>3. other.pc # "idle" => Told(other.id)' = Told(other.id)
    BY <1>10, <2>1
  <2>4. Fed(other)'
    BY <1>11, <1>12, <2>3 DEF Backed, Fed, PreferenceOff
  <2>5. Closed(other)'
    BY <1>11, <1>12, <2>2, <2>3 DEF Backed, Closed
  <2>6. Reaches(other)'
    BY <1>11, <1>12 DEF Backed, Reaches
  <2> QED
    BY <1>11, <1>12, <2>4, <2>5, <2>6 DEF Backed
<1>13. Backed(new)'
  <2>1. Fed(new)'
    BY <1>4, <1>5, <1>8, <1>9, <1>11 DEF Fed, Early, Late
  <2>2. Closed(new)'
    BY <1>1, <1>2, <1>5, <1>9, <1>11 DEF Backed, Closed
  <2>3. Reaches(new)'
    BY <1>1, <1>5, <1>11 DEF Backed, Reaches
  <2> QED
    BY <1>1, <1>2, <1>5, <1>11, <2>1, <2>2, <2>3 DEF Backed
<1>14. TasksOK' /\ task' \in [Tasks -> Task]
  BY <1>2, <1>5, <1>6, <1>12, <1>13, OneTask
<1>15. \A d \in delivered' : d.id = id /\ d.user \in own.users /\ d.channel = "live"
                             /\ d.device = Null /\ d \in Delivery
  BY <1>2, <1>4 DEF Messages, Delivery
<1>16. TypeOK'
  <2>1. feed' \in [Users -> Seq(Ids)]
    BY <1>2, <1>7
  <2> QED
    BY <1>3, <1>11, <1>14, <1>15, <2>1 DEF TypeOK
<1>17. \A s \in Tasks : task'[s] = (IF s = t THEN new ELSE task[s])
  BY <1>2, <1>3
<1>18. Unique'
  <2>1. \A s \in Tasks : task'[s].id = task[s].id
    BY <1>5, <1>17
  <2>2. \A s \in Tasks : task[s].pc = "idle" => task'[s].pc = "idle"
    BY <1>2, <1>17
  <2> QED
    BY <1>3, <2>1, <2>2 DEF Unique
<1>19. Unborn'
  <2>1. ~(id > begun)
    BY <1>1, <1>2, OwnFacts DEF Backed
  <2> QED
    BY <1>3, <1>10, <1>11, <2>1 DEF Unborn
<1>20. RegInv'
  <2> SUFFICES ASSUME NEW s \in Tasks, task'[s].pc = "registering", task'[s].device \notin unsure
               PROVE  Alone(s)'
    BY <1>11 DEF RegInv
  <2>1. s # t /\ task'[s] = task[s]
    BY <1>5, <1>17
  <2>2. Alone(s)
    BY <1>3, <2>1 DEF RegInv
  <2>3. \A r \in Tasks : task'[r].device = task[r].device
    BY <1>5, <1>17
  <2> QED
    BY <1>11, <2>1, <2>2, <2>3 DEF Alone
<1>21. ToldAllOrNone'
  <2> SUFFICES ASSUME NEW i \in Ids
               PROVE  \/ asked[i] \subseteq Told(i)'
                      \/ Told(i)' = {} /\ (InFlight(i)' \/ i \in cut)
    BY <1>11 DEF ToldAllOrNone
  <2>1. CASE i = id
    BY <1>8, <1>9, <2>1
  <2>2. CASE i # id
    <3>1. InFlight(i) => InFlight(i)'
      <4> SUFFICES ASSUME NEW s \in Tasks, task[s].id = i, task[s].pc # "idle"
                   PROVE  InFlight(i)'
        BY DEF InFlight, At
      <4>1. s # t
        BY <2>2
      <4> QED
        BY <1>17, <4>1 DEF InFlight, At
    <3> QED
      BY <1>3, <1>10, <2>2, <3>1 DEF ToldAllOrNone
  <2> QED
    BY <2>1, <2>2
<1>22. TokenFollowsSignIn'
  <2>1. \A s \in Tasks : task'[s].device = task[s].device
    BY <1>5, <1>17
  <2>2. \A d \in Devices : Registering(d)' <=> Registering(d)
    BY <2>1 DEF Registering
  <2> QED
    BY <1>3, <1>11, <2>2 DEF TokenFollowsSignIn
<1>23. Walks'
  <2>1. WalkMissesNothing'
    BY <1>3, <1>11 DEF Walks, WalkMissesNothing
  <2>2. WalkInv'
    <3> SUFFICES ASSUME reader.user # Null
                 PROVE  /\ reader.page > 0
                        /\ reader.missing \subseteq {feed'[reader.user][i] :
                              i \in 1 .. Len(feed'[reader.user]) - (reader.page - 1) * FeedLimit}
      BY <1>11 DEF WalkInv
    <3> PICK u : u = reader.user
      OBVIOUS
    <3>1. u \in Users /\ reader.page \in Nat /\ FeedLimit \in Nat
      BY <1>3, NotificationAssumption DEF TypeOK, Reader
    <3> PICK seen : seen = (reader.page - 1) * FeedLimit
      OBVIOUS
    <3>2. reader.page > 0
          /\ reader.missing \subseteq {feed[u][i] : i \in 1 .. Len(feed[u]) - seen}
      BY <1>3 DEF Walks, WalkInv
    <3>4. seen \in Nat
      <4>1. reader.page - 1 \in Nat
        BY <3>1, <3>2
      <4> QED
        BY <3>1, <4>1
    <3>3. ASSUME NEW x \in reader.missing
          PROVE  x \in {feed'[u][i] : i \in 1 .. Len(feed'[u]) - seen}
      <4>1. PICK i \in 1 .. Len(feed[u]) - seen : x = feed[u][i]
        BY <3>2
      <4>2. Len(feed'[u]) >= Len(feed[u]) /\ Len(feed'[u]) \in Nat /\ Len(feed[u]) \in Nat
        BY <1>7, <3>1
      <4>3. i \in 1 .. Len(feed[u]) /\ i \in 1 .. Len(feed'[u]) - seen
        BY <3>4, <4>2
      <4>4. feed'[u][i] = x
        BY <1>7, <3>1, <4>1, <4>3
      <4> QED
        BY <4>3, <4>4
    <3> QED
      BY <3>2, <3>3
  <2> QED
    BY <2>1, <2>2 DEF Walks
<1>24. Sends'
  <2>1. PushedIsStored' /\ PushReachesItsUser'
    BY <1>9, <1>15 DEF PushedIsStored, PushReachesItsUser
  <2>2. \A d \in delivered' : Allowed(new, d.user, d.channel)
    BY <1>1, <1>2, <1>4, <1>5, <1>15 DEF Allowed, Backed, Closed
  <2>3. OffMeansOff'
    BY <1>2, <1>4, <1>5, <1>14, <1>15, <2>2, OwnSends
  <2> QED
    BY <2>1, <2>3 DEF Sends
<1> QED
  BY <1>14, <1>16, <1>18, <1>19, <1>20, <1>21, <1>22, <1>23, <1>24 DEF IndInv

\* Steps that only concern the reader.
LEMMA ReadingKeeps ==
    ASSUME IndInv, UNCHANGED <<owner, off, feed, task, begun, asked, devices, cut>>, Silent,
           read' \in [Users -> SUBSET Ids], reader' \in Reader, WalkInv', WalkMissesNothing'
    PROVE  IndInv'
<1>1. /\ TypeOK /\ TasksOK /\ Unique /\ Unborn /\ RegInv /\ ToldAllOrNone /\ TokenFollowsSignIn
      /\ UNCHANGED <<holder, pruned, unsure>>
  BY DEF IndInv, devices
<1>2. Steady
  BY <1>1 DEF Steady
<1>3. TasksOK'
  <2>1. ASSUME NEW s \in Tasks
        PROVE  (Sane(task[s]) /\ Backed(task[s]))'
    <3> PICK own : own = task[s]
      OBVIOUS
    <3>1. Sane(own) /\ Backed(own)
      BY <1>1 DEF TasksOK
    <3>2. Backed(own)'
      BY <1>2, <3>1, SteadyBacked
    <3>3. own = task'[s]
      OBVIOUS
    <3> QED
      BY <3>1, <3>2, <3>3 DEF Sane, Backed, Fed, Closed, Reaches
  <2> QED
    BY <2>1 DEF TasksOK
<1>4. TypeOK'
  BY <1>1 DEF TypeOK, Silent
<1>5. \A id : Told(id)' = Told(id) /\ (InFlight(id)' <=> InFlight(id))
  BY DEF Told, InFlight, At
<1>6. Unique' /\ Unborn' /\ ToldAllOrNone'
  BY <1>1, <1>5 DEF Unique, Unborn, ToldAllOrNone
<1>7. RegInv'
  BY <1>1 DEF RegInv, Alone
<1>8. TokenFollowsSignIn'
  BY <1>1 DEF TokenFollowsSignIn, Registering
<1>9. Sends'
  BY <1>3, SilentSends
<1> QED
  BY <1>3, <1>4, <1>6, <1>7, <1>8, <1>9 DEF IndInv, Walks

LEMMA MarkReadKeeps ==
    ASSUME IndInv, NEW u \in Users, NEW ids \in SUBSET Ids, MarkRead(u, ids)
    PROVE  IndInv'
<1>1. read' = [read EXCEPT ![u] = @ \cup ids] /\ Silent
      /\ UNCHANGED <<owner, off, feed, task, begun, reader, asked, devices, cut>>
  BY DEF MarkRead
<1>2. read' \in [Users -> SUBSET Ids] /\ reader' \in Reader
  BY <1>1 DEF IndInv, TypeOK
<1>3. WalkInv' /\ WalkMissesNothing'
  BY <1>1 DEF IndInv, Walks, WalkInv, WalkMissesNothing
<1> QED
  BY <1>1, <1>2, <1>3, ReadingKeeps

LEMMA OpenFeedKeeps ==
    ASSUME IndInv, NEW u \in Users, OpenFeed(u)
    PROVE  IndInv'
<1>1. /\ reader' = [user |-> u, page |-> 1, missing |-> Range(feed[u])] /\ Silent
      /\ UNCHANGED <<owner, off, feed, task, begun, asked, devices, cut>> /\ read' = read
  BY DEF OpenFeed, tables
<1>2. feed[u] \in Seq(Ids) /\ read \in [Users -> SUBSET Ids] /\ Len(feed[u]) \in Nat
  BY LenProperties DEF IndInv, TypeOK
<1>3. Range(feed[u]) \subseteq Ids
  BY <1>2, RangeOfSeq
<1>4. reader' \in Reader
  BY <1>1, <1>3 DEF Reader
<1>5. WalkMissesNothing'
  BY <1>1, NotificationAssumption DEF WalkMissesNothing
<1>6. WalkInv'
  <2>1. (1 - 1) * FeedLimit = 0
    BY NotificationAssumption
  <2>2. Range(feed[u]) \subseteq {feed[u][i] : i \in 1 .. Len(feed[u]) - 0}
    BY <1>2, RangeElements
  <2> QED
    BY <1>1, <1>2, <2>1, <2>2 DEF WalkInv
<1> QED
  BY <1>1, <1>2, <1>4, <1>5, <1>6, ReadingKeeps

\* The pages up to the last one hold all rows.
LEMMA PagesCover ==
    ASSUME NEW n \in Nat, NEW limit \in Nat \ {0}, NEW page \in Nat,
           ~(page < (n + limit - 1) \div limit)
    PROVE  n <= page * limit
<1> PICK pages : pages = (n + limit - 1) \div limit
  OBVIOUS
<1>1. pages \in Int /\ limit * pages <= n + limit - 1 /\ n + limit - 1 < limit * pages + limit
  OBVIOUS
<1>2. limit * pages <= limit * page
  BY <1>1
<1>3. limit * page = page * limit /\ n - 1 < limit * pages
  BY <1>1
<1> QED
  BY <1>1, <1>2, <1>3

\* A part of a sequence has the elements at its places.
LEMMA PartHas ==
    ASSUME NEW S, NEW seq \in Seq(S), NEW m \in 1 .. Len(seq), NEW n \in m .. Len(seq), NEW j \in m .. n
    PROVE  seq[j] \in Range(SubSeq(seq, m, n))
<1> PICK part : part = SubSeq(seq, m, n)
  OBVIOUS
<1>1. /\ part \in Seq(S) /\ Len(part) = n - m + 1
      /\ \A k \in 1 .. n - m + 1 : part[k] = seq[m + k - 1]
  BY PartOf
<1>2. j - m + 1 \in 1 .. Len(part) /\ m + (j - m + 1) - 1 = j
  BY <1>1, LenProperties
<1>3. part[j - m + 1] = seq[j]
  BY <1>1, <1>2
<1>4. \A x : x \in Range(part) <=> \E k \in 1 .. Len(part) : part[k] = x
  BY <1>1, RangeElements
<1> QED
  BY <1>2, <1>3, <1>4

\* A row is on the page whose bounds, counted from the newest, it lies between.
LEMMA PageHas ==
    ASSUME NEW rows \in Seq(Ids), NEW seen \in Nat, NEW last \in Nat,
           NEW i \in 1 .. Len(rows), i <= Len(rows) - seen, i > Len(rows) - last
    PROVE  rows[i] \in Range(SubSeq(Reverse(rows), seen + 1, Min({Len(Reverse(rows)), last})))
<1> PICK n : n = Len(rows)
  OBVIOUS
<1> PICK listed : listed = Reverse(rows)
  OBVIOUS
<1> PICK end : end = Min({n, last})
  OBVIOUS
<1>1. n \in Nat
  BY LenProperties
<1>2. /\ listed \in Seq(Ids) /\ Len(listed) = n
      /\ \A k \in 1 .. n : listed[k] = rows[n - k + 1]
  BY <1>1 DEF Reverse
<1>3. end = IF n <= last THEN n ELSE last
  BY <1>1, MinOfTwo
<1> PICK j \in Int : j = n - i + 1
  BY <1>1
<1>4. /\ j \in 1 .. n /\ n - j + 1 = i /\ seen + 1 \in 1 .. n /\ end \in seen + 1 .. n
      /\ j \in seen + 1 .. end
  BY <1>1, <1>3
<1>5. listed[j] = rows[i]
  BY <1>2, <1>4
<1>6. listed[j] \in Range(SubSeq(listed, seen + 1, end))
  BY <1>2, <1>4, PartHas
<1> QED
  BY <1>2, <1>5, <1>6

\* What a page leaves of the oldest rows, all but those the earlier pages had.
LEMMA PageTakes ==
    ASSUME NEW rows \in Seq(Ids), NEW page \in Nat, page > 0, NEW missing,
           missing \subseteq {rows[i] : i \in 1 .. Len(rows) - (page - 1) * FeedLimit}
    PROVE  missing \ Range(Page(Reverse(rows), page))
              \subseteq {rows[i] : i \in 1 .. Len(rows) - page * FeedLimit}
<1> PICK seen : seen = (page - 1) * FeedLimit
  OBVIOUS
<1> PICK last : last = page * FeedLimit
  OBVIOUS
<1>1. Len(rows) \in Nat /\ FeedLimit \in Nat \ {0} /\ seen \in Nat /\ last \in Nat
  BY LenProperties, NotificationAssumption
<1> SUFFICES ASSUME NEW x \in missing, x \notin Range(Page(Reverse(rows), page))
             PROVE  x \in {rows[i] : i \in 1 .. Len(rows) - last}
  OBVIOUS
<1>2. PICK i \in 1 .. Len(rows) - seen : x = rows[i]
  OBVIOUS
<1>3. i \in 1 .. Len(rows) /\ i <= Len(rows) - seen
  BY <1>1, <1>2
<1>4. CASE i <= Len(rows) - last
  BY <1>1, <1>2, <1>3, <1>4
<1>5. CASE ~(i <= Len(rows) - last)
  <2>1. i > Len(rows) - last
    BY <1>1, <1>3, <1>5
  <2>2. rows[i] \in Range(SubSeq(Reverse(rows), seen + 1, Min({Len(Reverse(rows)), last})))
    BY <1>1, <1>3, <2>1, PageHas
  <2>3. Page(Reverse(rows), page)
           = SubSeq(Reverse(rows), seen + 1, Min({Len(Reverse(rows)), last}))
    BY DEF Page
  <2> QED
    BY <1>2, <2>2, <2>3
<1> QED
  BY <1>4, <1>5

LEMMA FindAllKeeps ==
    ASSUME IndInv, FindAll
    PROVE  IndInv'
<1> PICK u : u = reader.user
  OBVIOUS
<1> PICK page : page = reader.page
  OBVIOUS
<1> PICK rows : rows = feed[u]
  OBVIOUS
<1> PICK left : left = reader.missing \ Range(Page(Reverse(rows), page))
  OBVIOUS
<1>1. /\ u # Null /\ Silent
      /\ reader' = IF page < TotalPages(Reverse(rows))
                   THEN [reader EXCEPT !.page = @ + 1, !.missing = left]
                   ELSE [IdleReader EXCEPT !.missing = left]
      /\ UNCHANGED <<owner, off, feed, task, begun, asked, devices, cut>> /\ read' = read
  BY DEF FindAll, Listed, tables
<1>2. /\ reader \in Reader /\ u \in Users /\ page \in Nat /\ reader.missing \subseteq Ids
      /\ rows \in Seq(Ids) /\ read \in [Users -> SUBSET Ids]
  BY <1>1 DEF IndInv, TypeOK, Reader
<1>3. Len(rows) \in Nat /\ FeedLimit \in Nat \ {0} /\ Len(Reverse(rows)) = Len(rows)
  BY <1>2, LenProperties, NotificationAssumption DEF Reverse
<1>4. page > 0
      /\ reader.missing \subseteq {rows[i] : i \in 1 .. Len(rows) - (page - 1) * FeedLimit}
  BY <1>1 DEF IndInv, Walks, WalkInv
<1>5. left \subseteq {rows[i] : i \in 1 .. Len(rows) - page * FeedLimit}
  BY <1>2, <1>4, PageTakes
<1>6. left \subseteq Ids
  BY <1>2
<1>7. CASE page < TotalPages(Reverse(rows))
  <2>1. reader' = [reader EXCEPT !.page = page + 1, !.missing = left]
    BY <1>1, <1>7
  <2> PICK following \in Nat : following = page + 1
    BY <1>2
  <2>6. reader' = [reader EXCEPT !.page = following, !.missing = left]
    BY <2>1
  <2>2. reader' \in Reader /\ reader'.user = u /\ reader'.page = page + 1 /\ reader'.missing = left
    BY <1>2, <1>6, <2>6 DEF Reader
  <2>3. WalkMissesNothing'
    BY <1>1, <2>2 DEF WalkMissesNothing
  <2>4. (page + 1) - 1 = page /\ page + 1 > 0
    BY <1>2
  <2>5. WalkInv'
    BY <1>1, <1>5, <2>2, <2>4 DEF WalkInv
  <2> QED
    BY <1>1, <1>2, <2>2, <2>3, <2>5, ReadingKeeps
<1>8. CASE ~(page < TotalPages(Reverse(rows)))
  <2>1. reader' = [IdleReader EXCEPT !.missing = left]
    BY <1>1, <1>8
  <2>2. reader' \in Reader /\ reader'.user = Null /\ reader'.missing = left
    BY <1>6, <2>1 DEF Reader, IdleReader
  <2>3. Len(rows) <= page * FeedLimit
    BY <1>2, <1>3, <1>8, PagesCover DEF TotalPages
  <2>4. left = {}
    <3>1. page * FeedLimit \in Nat
      BY <1>2, <1>3
    <3>2. 1 .. Len(rows) - page * FeedLimit = {}
      BY <1>3, <2>3, <3>1
    <3> QED
      BY <1>5, <3>2
  <2>5. WalkMissesNothing' /\ WalkInv'
    BY <2>2, <2>4 DEF WalkMissesNothing, WalkInv
  <2> QED
    BY <1>1, <1>2, <2>2, <2>5, ReadingKeeps
<1> QED
  BY <1>7, <1>8
-----------------------------------------------------------------------------
(* The theorems. *)

LEMMA InitIsInd == ASSUME ServiceInit PROVE IndInv
<1>1. /\ owner \in [Devices -> Users \cup {Null}] /\ off = [u \in Users |-> {}]
      /\ feed = [u \in Users |-> <<>>] /\ read = [u \in Users |-> {}]
      /\ task = [t \in Tasks |-> IdleTask] /\ begun = 0 /\ reader = IdleReader
      /\ delivered = {} /\ asked = [id \in Ids |-> {}] /\ holder = owner
      /\ pruned = {} /\ unsure = {} /\ cut = {}
  BY DEF ServiceInit
<1>2. \A t \in Tasks : task[t] = IdleTask
  BY <1>1
<1>3. IdleTask \in Task
  BY IdleTaskIsTask
<1>4. TypeOK
  <2>1. feed \in [Users -> Seq(Ids)]
    BY <1>1, EmptySeq
  <2>2. reader \in Reader
    BY <1>1 DEF IdleReader, Reader
  <2>3. begun \in 0 .. MaxRequests
    BY <1>1, NotificationAssumption
  <2> QED
    BY <1>1, <1>3, <2>1, <2>2, <2>3 DEF TypeOK
<1>5. Sane(IdleTask) /\ Backed(IdleTask)
  <2>1. Sane(IdleTask)
    BY DEF IdleTask, Sane
  <2>2. Range(IdleTask.rows) = {}
    BY DEF IdleTask, Range
  <2>3. Backed(IdleTask)
    BY <1>1, <2>2 DEF IdleTask, Backed, Fed, Closed, Reaches, NothingOff
  <2> QED
    BY <2>1, <2>3
<1>6. TasksOK /\ Unique /\ RegInv
  BY <1>2, <1>5 DEF TasksOK, Unique, RegInv, IdleTask
<1>7. Unborn /\ ToldAllOrNone
  <2>1. \A id \in Ids : asked[id] = {}
    BY <1>1
  <2>2. \A id : Told(id) = {}
    BY <1>1 DEF Told, Range
  <2> QED
    BY <2>1, <2>2 DEF Unborn, ToldAllOrNone
<1>8. TokenFollowsSignIn
  BY <1>1 DEF TokenFollowsSignIn
<1>9. PushedIsStored /\ PushReachesItsUser
  BY <1>1 DEF PushedIsStored, PushReachesItsUser
<1>10. OffMeansOff
  BY <1>1, <1>2 DEF OffMeansOff, IdleTask, NothingOff
<1>11. Walks
  BY <1>1 DEF Walks, WalkMissesNothing, WalkInv, IdleReader
<1> QED
  BY <1>4, <1>6, <1>7, <1>8, <1>9, <1>10, <1>11 DEF IndInv, Sends

LEMMA StutterKeeps == ASSUME IndInv, UNCHANGED vars PROVE IndInv'
<1>1. UNCHANGED <<owner, off, feed, read, task, begun, reader, delivered, asked, holder,
                  pruned, unsure, cut>>
  BY DEF vars, tables, devices
<1>2. TypeOK' /\ Unique' /\ TokenFollowsSignIn' /\ Walks'
  BY <1>1 DEF IndInv, TypeOK, Unique, TokenFollowsSignIn, Registering, Walks,
              WalkMissesNothing, WalkInv
<1>3. TasksOK'
  BY <1>1 DEF IndInv, TasksOK, Sane, Backed, Fed, Closed, Reaches, PreferenceOff, Told
<1>4. Unborn' /\ RegInv' /\ ToldAllOrNone'
  BY <1>1 DEF IndInv, Unborn, RegInv, Alone, ToldAllOrNone, InFlight, At, Told
<1>5. Sends'
  BY <1>1 DEF IndInv, Sends, PushedIsStored, PushReachesItsUser, OffMeansOff, Told
<1> QED
  BY <1>2, <1>3, <1>4, <1>5 DEF IndInv

LEMMA RequestKeeps ==
    ASSUME IndInv, NEW t \in Tasks, Request(t)
    PROVE  IndInv'
<1>1. ASSUME NEW u \in Users, OnEvent(t, u)
      PROVE  IndInv'
  BY <1>1, OnEventKeeps
<1>2. ASSUME NEW u \in Users, OnMessageSent(t, u)
      PROVE  IndInv'
  BY <1>2, OnMessageSentKeeps
<1>3. ASSUME NEW u \in Users, Notify(t, u)
      PROVE  IndInv'
  BY <1>3, NotifyKeeps
<1>4. ASSUME NEW u \in Users, NEW d \in Devices, RegisterDeviceToken(t, u, d)
      PROVE  IndInv'
  BY <1>4, RegisterDeviceTokenKeeps
<1>5. ASSUME NEW users \in SUBSET Users, NEW promo \in BOOLEAN, Broadcast(t, users, promo)
      PROVE  IndInv'
  BY <1>5, BroadcastKeeps
<1> QED
  BY <1>1, <1>2, <1>3, <1>4, <1>5 DEF Request

LEMMA ServiceStepKeeps ==
    ASSUME IndInv, NEW t \in Tasks, Step(t)
    PROVE  IndInv'
BY SendEmailKeeps, DeliverKeeps, DropOptedOutKeeps, SaveRowsKeeps, CheckPushEnabledKeeps,
   FindDevicesKeeps, SendToTokensKeeps, PruneKeeps, SaveTokenKeeps, RefuseTokenKeeps, FailsKeeps
   DEF Step

LEMMA ActKeeps ==
    ASSUME IndInv, NEW u \in Users, Act(u)
    PROVE  IndInv'
<1>1. ASSUME OpenFeed(u)
      PROVE  IndInv'
  BY <1>1, OpenFeedKeeps
<1>2. ASSUME NEW d \in Devices, RemoveDeviceToken(d, u)
      PROVE  IndInv'
  BY <1>2, RemoveDeviceTokenKeeps
<1>3. ASSUME NEW on \in SUBSET Channels, NEW now \in SUBSET Channels, UpdatePreferences(u, on, now)
      PROVE  IndInv'
  BY <1>3, UpdatePreferencesKeeps
<1>4. ASSUME NEW ids \in SUBSET Ids, MarkRead(u, ids)
      PROVE  IndInv'
  BY <1>4, MarkReadKeeps
<1> QED
  BY <1>1, <1>2, <1>3, <1>4 DEF Act

\* The inductive invariant: what every request in flight may rely on, whatever the
\* others, the users, failures and stops do meanwhile.
THEOREM IndInvAlways == Spec => []IndInv
<1>1. ServiceInit => IndInv
  BY InitIsInd
<1>2. IndInv /\ [Next]_vars => IndInv'
  <2> SUFFICES ASSUME IndInv, [Next]_vars
               PROVE  IndInv'
    OBVIOUS
  <2>1. ASSUME NEW t \in Tasks, Request(t)
        PROVE  IndInv'
    BY <2>1, RequestKeeps
  <2>2. ASSUME NEW t \in Tasks, Step(t)
        PROVE  IndInv'
    BY <2>2, ServiceStepKeeps
  <2>3. ASSUME NEW u \in Users, Act(u)
        PROVE  IndInv'
    BY <2>3, ActKeeps
  <2>4. CASE FindAll
    BY <2>4, FindAllKeeps
  <2>5. CASE Stop
    BY <2>5, StopKeeps
  <2>6. CASE UNCHANGED vars
    BY <2>6, StutterKeeps
  <2> QED
    BY <2>1, <2>2, <2>3, <2>4, <2>5, <2>6 DEF Next
<1> QED
  BY <1>1, <1>2, PTL DEF Spec

\* The invariant of Notifications holds for any users, devices, limits of a call and a
\* page, and any number of requests in flight.
THEOREM InvAlways == Spec => []Inv
BY IndInvAlways, IndImpliesInv, PTL

\* notify persists before it pushes: what reached a device or a socket is in the feed.
THEOREM PushedIsStoredAlways == Spec => []PushedIsStored
<1>1. Inv => PushedIsStored
  BY DEF Inv
<1> QED
  BY <1>1, InvAlways, PTL

\* A notice reaches the feeds of all it must tell, or of none while it is on its way or
\* after it was cut off: the rows of a broadcast are one transaction.
THEOREM ToldAllOrNoneAlways == Spec => []ToldAllOrNone
<1>1. Inv => ToldAllOrNone
  BY DEF Inv
<1> QED
  BY <1>1, InvAlways, PTL

\* pushToUsers has passed every device it found to FCM once, when it prunes, for every
\* number of devices and every limit of one call.
THEOREM EveryDeviceOnceAlways == Spec => []EveryDeviceOnce
<1>1. Inv => EveryDeviceOnce
  BY DEF Inv
<1> QED
  BY <1>1, InvAlways, PTL

\* The owner of a token is who signed in last on its device, unless two requests about
\* the device overlapped or one failed.
THEOREM TokenFollowsSignInAlways == Spec => []TokenFollowsSignIn
<1>1. Inv => TokenFollowsSignIn
  BY DEF Inv
<1> QED
  BY <1>1, InvAlways, PTL

\* A channel that has been off since before a request began carries nothing of it.
THEOREM OffMeansOffAlways == Spec => []OffMeansOff
<1>1. Inv => OffMeansOff
  BY DEF Inv
<1> QED
  BY <1>1, InvAlways, PTL

\* A push is for the user who is signed in on the device it reaches.
THEOREM PushReachesItsUserAlways == Spec => []PushReachesItsUser
<1>1. Inv => PushReachesItsUser
  BY DEF Inv
<1> QED
  BY <1>1, InvAlways, PTL

\* findAll, page after page, shows whatever was in the feed when it was opened, for
\* every size of a page and every feed.
THEOREM WalkMissesNothingAlways == Spec => []WalkMissesNothing
<1>1. Inv => WalkMissesNothing
  BY DEF Inv
<1> QED
  BY <1>1, InvAlways, PTL
=============================================================================
