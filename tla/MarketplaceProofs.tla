------------------------- MODULE MarketplaceProofs -------------------------
(***************************************************************************)
(* Proofs about Marketplace for any users, tables, texts, page limit and   *)
(* number of requests in flight: the inductive invariant, and the          *)
(* properties of counters, answers, removals and pages it implies.         *)
(***************************************************************************)
EXTENDS Marketplace, FiniteSetTheorems, TLAPS

-----------------------------------------------------------------------------
(* What one request holds, as predicates of its record. *)

Right(local) ==
    /\ local.pc \in {"idle", "inserting"} <=> local.id = 0
    /\ local.id <= made
    /\ local.pc \in {"saving", "deciding", "inserting"} \cup Tells <=> local.row # Null
    /\ local.pc = "inserting" =>
          /\ local.row.kind = "product" /\ Fresh(local.row)
          /\ local.row.store \in 1 .. made
          /\ born[local.row.store].kind = "store"
          /\ born[local.row.store].owner = local.row.owner

\* The copy row of the listing id, about to be saved or decided about.
Sound(pc, id, row) ==
    /\ TrueTo(id, row)
    /\ row.count <= Visits(id)
    /\ pc = "saving" => row.owner = born[id].owner
    /\ pc = "deciding" => row.kind = "service"

Current(pc, id, row) ==
    /\ id \notin gone => row.count = Visits(id)
    /\ id \in disowned \/ row.owner = born[id].owner
    /\ id \notin disowned /\ pc = "saving" =>
          row.status = told[id].status \/ <<id, "notifying">> \in untold
    /\ id \notin disowned /\ pc = "deciding" =>
          row.text = told[id].text \/ <<id, "answering">> \in untold
    /\ \/ id \in Live
       \/ row.kind = "product" /\ (row.store \notin Live \/ row.store \in raced)

\* What is about to be said of the listing id is what it says.
Says(pc, id, row) == id \in Live \ (raced \cup disowned) =>
    /\ pc = "answering" => listing[id].text = row.text
    /\ pc = "notifying" => listing[id].status = row.status /\ row.owner # Null

Kept(local) ==
    /\ local.pc \in {"saving", "deciding"} =>
          /\ Sound(local.pc, local.id, local.row)
          /\ local.id \notin raced => Current(local.pc, local.id, local.row)
    /\ local.pc \in Tells => Says(local.pc, local.id, local.row)

LEMMA TaskInvIsRight == TaskInv <=> \A t \in Tasks : Right(task[t])
BY DEF TaskInv, Right, At, Copies

LEMMA CopyInvIsKept == CopyInv /\ TellInv <=> \A t \in Tasks : Kept(task[t])
BY DEF CopyInv, TellInv, Kept, Sound, Current, Says, At, Copies, Tells

\* Who writes nothing, tells nothing and counts nothing races nobody.
LEMMA OthersDoNotClash ==
    \A p : \A q \in {"idle", "inserting", "logging"} : ~Clash(p, q) /\ ~Clash(q, p)
BY DEF Clash, Writes, Tells

\* What was on its way or cut off is still, after a step of a request about other things.
LEMMA UnsaidPersists ==
    ASSUME task \in [Tasks -> Task], NEW t \in Tasks, NEW local, task' = [task EXCEPT ![t] = local],
           NEW id, NEW pc, task[t].pc # pc \/ task[t].id # id,
           <<id, pc>> \in untold => <<id, pc>> \in untold', Unsaid(id, pc)
    PROVE  Unsaid(id, pc)'
<1>1. CASE <<id, pc>> \in untold
  BY <1>1 DEF Unsaid
<1>2. CASE \E s \in Tasks : At(s, pc) /\ task[s].id = id
  <2>1. PICK s \in Tasks : task[s].pc = pc /\ task[s].id = id
    BY <1>2 DEF At
  <2>2. s # t /\ task'[s] = task[s]
    BY <2>1
  <2> QED
    BY <2>1, <2>2 DEF Unsaid, At
<1> QED
  BY <1>1, <1>2 DEF Unsaid

-----------------------------------------------------------------------------
(* Visits: a request that is logging counts for its listing. *)

LEMMA LoggingIsFinite ==
    ASSUME NEW id
    PROVE  IsFiniteSet(Logging(id)) /\ Cardinality(Logging(id)) \in Nat
<1>1. IsFiniteSet(Logging(id))
  BY ListingAssumption, FS_Subset DEF Logging
<1> QED
  BY <1>1, FS_CardinalityType

LEMMA VisitsAreNat ==
    ASSUME TypeOK, NEW id \in Ids
    PROVE  Visits(id) \in Nat
BY LoggingIsFinite DEF Visits, TypeOK

\* A request that is not logging, before or after, changes nothing.
LEMMA OtherLogging ==
    ASSUME task \in [Tasks -> Task], NEW t \in Tasks, NEW local, task' = [task EXCEPT ![t] = local],
           NEW id, task[t].pc # "logging" \/ task[t].id # id,
           local.pc # "logging" \/ local.id # id
    PROVE  Logging(id)' = Logging(id)
BY DEF Logging

LEMMA MoreLogging ==
    ASSUME task \in [Tasks -> Task], NEW t \in Tasks, NEW local, task' = [task EXCEPT ![t] = local],
           NEW id, task[t].pc # "logging", local.pc = "logging" /\ local.id = id
    PROVE  Cardinality(Logging(id)') = Cardinality(Logging(id)) + 1
<1>1. Logging(id)' = Logging(id) \cup {t} /\ t \notin Logging(id)
  BY DEF Logging
<1> QED
  BY <1>1, LoggingIsFinite, FS_AddElement

LEMMA LessLogging ==
    ASSUME task \in [Tasks -> Task], NEW t \in Tasks, NEW local, task' = [task EXCEPT ![t] = local],
           NEW id, task[t].pc = "logging" /\ task[t].id = id, local.pc # "logging"
    PROVE  Cardinality(Logging(id)') = Cardinality(Logging(id)) - 1
<1>1. Logging(id)' = Logging(id) \ {t} /\ t \in Logging(id)
  BY DEF Logging
<1>2. PICK ids : ids = Logging(id)
  OBVIOUS
<1>3. IsFiniteSet(ids) /\ Cardinality(ids) \in Nat
  BY <1>2, LoggingIsFinite
<1>4. Cardinality(ids \ {t}) = Cardinality(ids) - 1
  BY <1>1, <1>2, <1>3, FS_RemoveElement
<1> QED
  BY <1>1, <1>2, <1>4

LEMMA SameVisits ==
    ASSUME TypeOK, NEW t \in Tasks, NEW local, task' = [task EXCEPT ![t] = local],
           task[t].pc # "logging", local.pc # "logging", UNCHANGED <<log, unlogged>>
    PROVE  \A id \in Ids : Visits(id)' = Visits(id)
<1>1. task \in [Tasks -> Task]
  BY DEF TypeOK
<1> SUFFICES ASSUME NEW id \in Ids
             PROVE  Visits(id)' = Visits(id)
  OBVIOUS
<1>2. Logging(id)' = Logging(id)
  BY <1>1, OtherLogging
<1> QED
  BY <1>2 DEF Visits

-----------------------------------------------------------------------------
(* What is true of every step. *)

LEMMA IdleIsRight ==
    ASSUME made' \in Nat
    PROVE  /\ IdleTask \in Task
           /\ Right(IdleTask)' /\ Kept(IdleTask)'
           /\ IdleTask.pc = "idle" /\ IdleTask.id = 0
<1>1. IdleTask \in Task
  BY ListingAssumption DEF IdleTask, Task, TaskPcs
<1>2. Right(IdleTask)'
  BY ListingAssumption DEF IdleTask, Right, Tells
<1> QED
  BY <1>1, <1>2 DEF IdleTask, Kept, Tells

LEMMA TaskTypes ==
    ASSUME NEW local \in Task
    PROVE  /\ local.pc \in TaskPcs /\ local.id \in Ids \cup {0}
           /\ local.row \in Row \cup {Null}
           /\ local.row # Null => /\ local.row \in Row /\ local.row.count \in Nat
                                  /\ local.row.store \in Ids \cup {0}
BY DEF Task, Row

\* One request moves on, and what the others hold still stands.
LEMMA OneTask ==
    ASSUME ListingInv, NEW t \in Tasks, NEW local \in Task, task' = [task EXCEPT ![t] = local],
           Right(local)', Kept(local)',
           \A other \in Task : Right(other) => Right(other)',
           \A s \in Tasks \ {t} : \A own \in Task : own = task[s] /\ Kept(own) => Kept(own)'
    PROVE  task' \in [Tasks -> Task] /\ TaskInv' /\ CopyInv' /\ TellInv'
<1>1. task \in [Tasks -> Task] /\ TaskInv /\ CopyInv /\ TellInv
  BY DEF ListingInv, TypeOK
<1>2. task' \in [Tasks -> Task]
  BY <1>1
<1>3. ASSUME NEW s \in Tasks
      PROVE  Right(task[s])' /\ Kept(task[s])'
  <2>1. CASE s = t
    <3>1. task'[s] = local
      BY <1>1, <2>1
    <3> QED
      BY <3>1 DEF Right, Kept, Sound, Current, Says
  <2>2. CASE s # t
    <3> PICK own : own = task[s]
      OBVIOUS
    <3>1. task'[s] = own /\ own \in Task
      BY <1>1, <2>2
    <3>2. Right(own) /\ Kept(own)
      BY <1>1, TaskInvIsRight, CopyInvIsKept
    <3>3. Right(own)'
      BY <3>1, <3>2
    <3>4. Kept(own)'
      BY <3>1, <3>2, <2>2
    <3> QED
      BY <3>1, <3>3, <3>4 DEF Right, Kept, Sound, Current, Says
  <2> QED
    BY <2>1, <2>2
<1>4. TaskInv'
  BY <1>3 DEF TaskInv, Right, At, Copies
<1>5. CopyInv' /\ TellInv'
  BY <1>3 DEF CopyInv, TellInv, Kept, Sound, Current, Says, At, Copies, Tells
<1> QED
  BY <1>2, <1>4, <1>5

LEMMA RaceKeeps ==
    ASSUME ListingInv, NEW t \in Tasks, NEW local \in Task, task' = [task EXCEPT ![t] = local],
           raced \subseteq raced',
           \A s \in Tasks \ {t} :
              task[s].id = local.id /\ Clash(task[s].pc, local.pc) => local.id \in raced'
    PROVE  RaceInv'
<1>1. task \in [Tasks -> Task] /\ RaceInv
  BY DEF ListingInv, TypeOK
<1> SUFFICES ASSUME NEW r \in Tasks, NEW s \in Tasks, r # s, task'[r].id = task'[s].id,
                    Clash(task'[r].pc, task'[s].pc)
             PROVE  task'[s].id \in raced'
  BY DEF RaceInv, Clash
<1>2. \A p, q : Clash(p, q) => Clash(q, p)
  BY DEF Clash
<1>3. CASE r = t
  BY <1>1, <1>2, <1>3
<1>4. CASE s = t
  BY <1>1, <1>4
<1>5. CASE r # t /\ s # t
  BY <1>1, <1>5 DEF RaceInv
<1> QED
  BY <1>3, <1>4, <1>5

LEMMA IdlingKeepsRaces ==
    ASSUME ListingInv, NEW t \in Tasks, task' = [task EXCEPT ![t] = IdleTask], raced \subseteq raced'
    PROVE  RaceInv'
<1>1. IdleTask \in Task /\ IdleTask.pc = "idle"
  BY ListingAssumption DEF IdleTask, Task, TaskPcs
<1>2. \A s \in Tasks : ~Clash(task[s].pc, IdleTask.pc)
  BY <1>1, OthersDoNotClash
<1> QED
  BY <1>1, <1>2, RaceKeeps

LEMMA ProductsHaveStores ==
    ASSUME TypeOK', MadeInv', BornInv', LiveInv'
    PROVE  ProductHasStore'
<1> SUFFICES ASSUME NEW id \in Live', listing'[id].kind = "product"
             PROVE  /\ listing'[id].store \in Live'
                    /\ listing'[listing'[id].store].kind = "store"
                    /\ listing'[listing'[id].store].owner = listing'[id].owner
  BY DEF ProductHasStore
<1>1. PICK row : row = listing'[id]
  OBVIOUS
<1>2. id \in Ids /\ row.kind = "product" /\ row.store \in Live'
  BY <1>1 DEF LiveInv, Live
<1>3. TrueTo(id, row)'
  BY <1>1 DEF LiveInv, TrueTo
<1>4. PICK shop : shop = listing'[row.store]
  OBVIOUS
<1>5. TrueTo(row.store, shop)' /\ row.store \in Ids
  BY <1>2, <1>4 DEF LiveInv, TrueTo, Live
<1>6. born'[id] # Null
  BY <1>2, ListingAssumption DEF MadeInv, TypeOK, Live, Ids
<1>7. born'[id].kind = "product" /\ row.store = born'[id].store /\ row.owner = born'[id].owner
  BY <1>2, <1>3 DEF TrueTo
<1>8. born'[row.store].kind = "store" /\ born'[row.store].owner = row.owner
  BY <1>2, <1>6, <1>7 DEF BornInv
<1>9. shop.kind = "store" /\ shop.owner = row.owner
  BY <1>5, <1>8 DEF TrueTo
<1> QED
  BY <1>1, <1>2, <1>4, <1>9

-----------------------------------------------------------------------------
(* Steps that leave the rows alone. *)

Quiet ==
    /\ UNCHANGED <<listing, made, born, told, gone>>
    /\ raced \subseteq raced' /\ raced' \subseteq Ids
    /\ disowned \subseteq disowned' /\ disowned' \subseteq Ids
    /\ untold \subseteq untold' /\ untold' \subseteq Ids \X Tells
    /\ \A id \in Ids, pc \in Tells : Unsaid(id, pc) => Unsaid(id, pc)'
    /\ \A id \in Ids : Visits(id)' = Visits(id)

\* A request that is not about to tell anything moves on.
LEMMA UnsaidStays ==
    ASSUME ListingInv, NEW t \in Tasks, NEW local, task' = [task EXCEPT ![t] = local],
           task[t].pc \notin Tells, untold \subseteq untold'
    PROVE  \A id \in Ids, pc \in Tells : Unsaid(id, pc) => Unsaid(id, pc)'
<1> SUFFICES ASSUME NEW id \in Ids, NEW pc \in Tells, Unsaid(id, pc)
             PROVE  Unsaid(id, pc)'
  OBVIOUS
<1>1. task \in [Tasks -> Task] /\ task[t].pc # pc
  BY DEF ListingInv, TypeOK
<1> QED
  BY <1>1, UnsaidPersists

LEMMA QuietTrueTo ==
    ASSUME Quiet, NEW id, NEW row, TrueTo(id, row)
    PROVE  TrueTo(id, row)'
BY DEF Quiet, TrueTo

LEMMA QuietRight ==
    ASSUME Quiet, NEW local, Right(local)
    PROVE  Right(local)'
BY DEF Quiet, Right

LEMMA QuietKept ==
    ASSUME Quiet, NEW local, Kept(local), local.pc \in {"saving", "deciding"} => local.id \in Ids
    PROVE  Kept(local)'
<1>4. local.pc \in Tells => Says(local.pc, local.id, local.row)'
  BY DEF Kept, Says, Quiet, Live
<1> SUFFICES ASSUME local.pc \in {"saving", "deciding"}
             PROVE  /\ Sound(local.pc, local.id, local.row)'
                    /\ local.id \notin raced' => Current(local.pc, local.id, local.row)'
  BY <1>4 DEF Kept
<1>1. Visits(local.id)' = Visits(local.id)
  BY DEF Quiet
<1>2. Sound(local.pc, local.id, local.row)'
  BY <1>1, QuietTrueTo DEF Kept, Sound, Quiet
<1>3. ASSUME local.id \notin raced'
      PROVE  Current(local.pc, local.id, local.row)'
  <2>1. Current(local.pc, local.id, local.row)
    BY <1>3 DEF Kept, Quiet
  <2> QED
    BY <1>1, <2>1 DEF Current, Quiet, Live
<1> QED
  BY <1>2, <1>3

LEMMA QuietRows ==
    ASSUME ListingInv, Quiet
    PROVE  /\ CountersMatchLog' /\ AnswersStand' /\ DeletedStaysDeleted'
           /\ ProductHasStore' /\ BornInv' /\ LiveInv'
<1>1. Live' = Live /\ Live \subseteq Ids
  BY DEF Quiet, Live
<1>2. CountersMatchLog'
  BY <1>1 DEF ListingInv, CountersMatchLog, Quiet
<1>3. AnswersStand'
  BY <1>1 DEF ListingInv, AnswersStand, Quiet, Tells
<1>4. DeletedStaysDeleted'
  BY <1>1 DEF ListingInv, DeletedStaysDeleted, Quiet
<1>5. ProductHasStore'
  BY <1>1 DEF ListingInv, ProductHasStore, Quiet
<1>6. BornInv'
  BY DEF ListingInv, BornInv, Quiet
<1>7. LiveInv'
  BY <1>1 DEF ListingInv, LiveInv, TrueTo, Quiet
<1> QED
  BY <1>2, <1>3, <1>4, <1>5, <1>6, <1>7

\* What Quiet leaves open: the log, the users and the number of requests.
Sundry ==
    /\ suspended' \subseteq Users
    /\ log' \in [Ids -> Nat] /\ unlogged' \in [Ids -> Nat]
    /\ begun' \in Nat
    /\ \A id \in Ids : id > made => log'[id] = 0 /\ unlogged'[id] = 0

LEMMA QuietKeeps ==
    ASSUME ListingInv, Quiet, Sundry, task' \in [Tasks -> Task], TaskInv', CopyInv', TellInv', RaceInv'
    PROVE  ListingInv'
<1>1. TypeOK'
  BY DEF ListingInv, TypeOK, Quiet, Sundry
<1>2. MadeInv'
  BY DEF ListingInv, MadeInv, Quiet, Sundry
<1> QED
  BY <1>1, <1>2, QuietRows DEF ListingInv

\* One request moves on, and the rows stay.
LEMMA QuietStep ==
    ASSUME ListingInv, Quiet, Sundry, NEW t \in Tasks, NEW local \in Task,
           task' = [task EXCEPT ![t] = local], Right(local), Kept(local)', RaceInv'
    PROVE  ListingInv'
<1>1. Right(local)'
  BY QuietRight
<1>2. \A other \in Task : Right(other) => Right(other)'
  BY QuietRight
<1>3. ASSUME NEW s \in Tasks \ {t}, NEW own \in Task, own = task[s], Kept(own)
      PROVE  Kept(own)'
  <2>1. own.pc \in {"saving", "deciding"} => own.id \in Ids
    BY <1>3, TaskInvIsRight, TaskTypes DEF ListingInv, Right
  <2> QED
    BY <1>3, <2>1, QuietKept
<1>4. task' \in [Tasks -> Task] /\ TaskInv' /\ CopyInv' /\ TellInv'
  BY <1>1, <1>2, <1>3, OneTask
<1> QED
  BY <1>4, QuietKeeps

\* A request that ends writes nothing and counts nothing.
LEMMA QuietEnd ==
    ASSUME ListingInv, Quiet, Sundry, NEW t \in Tasks, task' = [task EXCEPT ![t] = IdleTask]
    PROVE  ListingInv'
<1>1. made' \in Nat /\ made' = made
  BY ListingAssumption DEF ListingInv, TypeOK, Quiet
<1>2. IdleTask \in Task /\ Kept(IdleTask)' /\ IdleTask.pc = "idle"
  BY <1>1, IdleIsRight
<1>3. Right(IdleTask)
  BY <1>1, ListingAssumption DEF IdleTask, Right, Tells
<1>4. RaceInv'
  BY IdlingKeepsRaces DEF Quiet
<1> QED
  BY <1>2, <1>3, <1>4, QuietStep

-----------------------------------------------------------------------------
(* A request finds a listing. *)

\* What a request may rely on when it finds the listing id.
LEMMA Found ==
    ASSUME ListingInv, NEW id \in Live
    PROVE  /\ id \in Ids /\ id <= made /\ listing[id] \in Row
           /\ TrueTo(id, listing[id])
           /\ listing[id].count <= Visits(id)
           /\ id \notin raced \cup gone => listing[id].count = Visits(id)
           /\ id \notin raced \cup disowned =>
                 /\ listing[id].status = told[id].status \/ Unsaid(id, "notifying")
                 /\ listing[id].text = told[id].text \/ Unsaid(id, "answering")
<1>1. id \in Ids /\ listing[id] \in Row
  BY DEF ListingInv, TypeOK, Live
<1>2. id <= made
  BY <1>1, ListingAssumption DEF ListingInv, TypeOK, MadeInv, Live, Ids
<1>3. TrueTo(id, listing[id])
  BY DEF ListingInv, LiveInv
<1>4. /\ listing[id].count <= Visits(id)
      /\ id \notin raced \cup gone => listing[id].count = Visits(id)
  BY DEF ListingInv, CountersMatchLog
<1>5. id \notin raced \cup disowned =>
         /\ listing[id].status = told[id].status \/ Unsaid(id, "notifying")
         /\ listing[id].text = told[id].text \/ Unsaid(id, "answering")
  BY DEF ListingInv, AnswersStand
<1> QED
  BY <1>1, <1>2, <1>3, <1>4, <1>5

LEMMA Finding ==
    ASSUME ListingInv, NEW t \in Tasks, NEW id \in Live,
           NEW pc \in Writes \cup {"counting"}, NEW row \in Row \cup {Null},
           pc \in {"saving", "deciding"} <=> row # Null,
           Finds(t, id, pc, row), UNCHANGED <<tables, born, told, untold, gone, unlogged>>,
           disowned \subseteq disowned', disowned' \subseteq Ids,
           Quiet => Kept([pc |-> pc, id |-> id, row |-> row])'
    PROVE  ListingInv'
<1> PICK local : local = [pc |-> pc, id |-> id, row |-> row]
  OBVIOUS
<1>1. id \in Ids /\ id <= made
  BY Found
<1>2. /\ task[t].pc = "idle" /\ begun' = begun + 1
      /\ task' = [task EXCEPT ![t] = local]
      /\ raced' = IF Overlapping(id, pc) THEN raced \cup {id} ELSE raced
  BY DEF Finds, Begins, MayBegin, At
<1>3. local \in Task
  BY <1>1 DEF Task, TaskPcs, Writes
<1>4. Right(local)
  BY <1>1, ListingAssumption DEF Right, Writes, Tells, Ids
<1>6. raced \subseteq raced' /\ raced' \subseteq Ids
  BY <1>1, <1>2 DEF ListingInv, TypeOK
<1>7. \A i \in Ids : Visits(i)' = Visits(i)
  <2>1. TypeOK /\ task[t].pc # "logging" /\ local.pc # "logging" /\ UNCHANGED <<log, unlogged>>
    BY <1>2 DEF ListingInv, tables, Writes
  <2> QED
    BY <1>2, <2>1, SameVisits
<1>11. \A i \in Ids, p \in Tells : Unsaid(i, p) => Unsaid(i, p)'
  BY <1>2, UnsaidStays DEF Tells
<1>8. Quiet
  BY <1>6, <1>7, <1>11 DEF Quiet, tables, ListingInv, TypeOK
<1>5. Kept(local)'
  BY <1>8
<1>9. Sundry
  BY <1>2 DEF Sundry, ListingInv, TypeOK, MadeInv, tables
<1>10. RaceInv'
  <2>1. \A s \in Tasks :
           task[s].id = local.id /\ Clash(task[s].pc, local.pc) => local.id \in raced'
    BY <1>2 DEF Overlapping
  <2> QED
    BY <1>2, <1>3, <1>6, <2>1, RaceKeeps
<1> QED
  BY <1>2, <1>3, <1>4, <1>5, <1>8, <1>9, <1>10, QuietStep

\* Nobody tells anything of a listing that somebody finds to write it, unless it is raced.
LEMMA NobodyTells ==
    ASSUME NEW t \in Tasks, NEW id, NEW pc \in Writes, NEW row, Finds(t, id, pc, row),
           id \notin raced', NEW said \in Tells, Unsaid(id, said)
    PROVE  <<id, said>> \in untold
<1>1. ~Overlapping(id, pc)
  BY DEF Finds
<1> QED
  BY <1>1 DEF Unsaid, At, Overlapping, Clash

\* Who owns a row is the user it was made by.
LEMMA OwnerIsMaker ==
    ASSUME ListingInv, NEW u \in Users, NEW kind \in Kinds, NEW id, Owns(u, kind, id)
    PROVE  /\ id \in Live /\ listing[id].kind = kind /\ listing[id].owner = u
           /\ born[id].kind = kind /\ born[id].owner = u
           /\ Loaded(id) = listing[id]
<1>1. id \in Live /\ listing[id].kind = kind /\ Loaded(id).owner = u /\ listing[id] \in Row
  BY Found DEF Owns
<1>2. listing[id].owner = u /\ listing[id].owner \notin suspended
  BY <1>1, ListingAssumption DEF Loaded, Row
<1>3. TrueTo(id, listing[id])
  BY <1>1, Found
<1>4. Loaded(id) = listing[id]
  BY <1>1, <1>2 DEF Loaded, Row
<1> QED
  BY <1>1, <1>2, <1>3, <1>4, ListingAssumption DEF TrueTo

LEMMA EditKeeps ==
    ASSUME ListingInv, NEW t \in Tasks, NEW u \in Users, NEW kind \in Kinds, NEW id \in Ids,
           NEW text \in Texts, Edit(t, u, kind, id, text)
    PROVE  ListingInv'
<1> PICK row : row = [Loaded(id) EXCEPT !.text = text]
  OBVIOUS
<1>1. /\ id \in Live /\ listing[id].kind = kind /\ listing[id].owner = u
      /\ born[id].owner = u /\ Loaded(id) = listing[id]
  BY OwnerIsMaker DEF Edit
<1>2. /\ listing[id] \in Row /\ TrueTo(id, listing[id]) /\ listing[id].count <= Visits(id)
      /\ id \notin raced \cup gone => listing[id].count = Visits(id)
      /\ id \notin raced \cup disowned =>
            listing[id].status = told[id].status \/ Unsaid(id, "notifying")
  BY <1>1, Found
<1>3. /\ row \in Row /\ row.kind = listing[id].kind /\ row.owner = u
      /\ row.status = listing[id].status /\ row.count = listing[id].count
      /\ row.store = listing[id].store
  BY <1>1, <1>2 DEF Row
<1>4. Finds(t, id, "saving", row) /\ UNCHANGED <<tables, born, told, untold, disowned, gone, unlogged>>
  BY DEF Edit
<1>5. row # Null
  BY <1>3, ListingAssumption
<1>6. TrueTo(id, row)
  BY <1>1, <1>2, <1>3 DEF TrueTo
<1>7. PICK local : local = [pc |-> "saving", id |-> id, row |-> row]
  OBVIOUS
<1>8. id \notin raced' /\ Unsaid(id, "notifying") => <<id, "notifying">> \in untold
  BY <1>4, NobodyTells DEF Writes, Tells
<1>9. ASSUME Quiet
      PROVE  Kept(local)'
  <2>1. TrueTo(id, row)' /\ Visits(id)' = Visits(id)
    BY <1>6, <1>9, QuietTrueTo DEF Quiet
  <2>2. Sound("saving", id, row)'
    BY <1>1, <1>2, <1>3, <1>9, <2>1 DEF Sound, Quiet
  <2>3. id \notin raced' => Current("saving", id, row)'
    BY <1>1, <1>2, <1>3, <1>4, <1>8, <1>9, <2>1 DEF Current, Quiet, Live
  <2> QED
    BY <1>7, <2>2, <2>3 DEF Kept, Tells
<1>10. "saving" \in Writes /\ disowned \subseteq disowned' /\ disowned' \subseteq Ids
  BY <1>4 DEF Writes, ListingInv, TypeOK
<1> QED
  BY <1>1, <1>3, <1>4, <1>5, <1>7, <1>9, <1>10, Finding

\* A removal or a visit takes no copy.
LEMMA FindsOnly ==
    ASSUME ListingInv, NEW t \in Tasks, NEW id \in Live, NEW pc \in {"removing", "counting"},
           Finds(t, id, pc, Null), UNCHANGED <<tables, born, told, untold, disowned, gone, unlogged>>
    PROVE  ListingInv'
<1>1. Kept([pc |-> pc, id |-> id, row |-> Null])'
  BY DEF Kept, Tells
<1>2. disowned' \subseteq Ids /\ disowned \subseteq disowned'
  BY DEF ListingInv, TypeOK
<1> QED
  BY <1>1, <1>2, Finding DEF Writes

LEMMA DecideKeeps ==
    ASSUME ListingInv, NEW t \in Tasks, NEW id \in Ids, NEW status \in Statuses, Decide(t, id, status)
    PROVE  ListingInv'
<1> PICK row : row = [Loaded(id) EXCEPT !.status = status]
  OBVIOUS
<1>1. /\ id \in Live /\ listing[id].kind = "service" /\ Finds(t, id, "deciding", row)
      /\ disowned' = IF listing[id].owner \in suspended THEN disowned \cup {id} ELSE disowned
      /\ UNCHANGED <<tables, born, told, untold, gone, unlogged>>
  BY DEF Decide
<1>2. /\ listing[id] \in Row /\ TrueTo(id, listing[id]) /\ listing[id].count <= Visits(id)
      /\ id \notin raced \cup gone => listing[id].count = Visits(id)
      /\ id \notin raced \cup disowned =>
            listing[id].text = told[id].text \/ Unsaid(id, "answering")
  BY <1>1, Found
<1>3. /\ row \in Row /\ row.kind = "service"
      /\ row.owner = IF listing[id].owner \in suspended THEN Null ELSE listing[id].owner
      /\ row.text = listing[id].text /\ row.count = listing[id].count
      /\ row.store = listing[id].store
  BY <1>1, <1>2 DEF Row, Loaded
<1>4. row # Null
  BY <1>3, ListingAssumption
<1>5. disowned \subseteq disowned' /\ disowned' \subseteq Ids
  BY <1>1 DEF ListingInv, TypeOK
<1>6. row.owner = born[id].owner \/ (row.owner = Null /\ id \in disowned')
  BY <1>1, <1>2, <1>3 DEF TrueTo
<1>7. PICK local : local = [pc |-> "deciding", id |-> id, row |-> row]
  OBVIOUS
<1>9. id \notin raced' /\ Unsaid(id, "answering") => <<id, "answering">> \in untold
  BY <1>1, NobodyTells DEF Writes, Tells
<1>8. ASSUME Quiet
      PROVE  Kept(local)'
  <2>1. TrueTo(id, row)'
    BY <1>1, <1>2, <1>3, <1>6, <1>8 DEF TrueTo, Quiet
  <2>2. Visits(id)' = Visits(id)
    BY <1>8 DEF Quiet
  <2>3. Sound("deciding", id, row)'
    BY <1>2, <1>3, <2>1, <2>2 DEF Sound
  <2>4. id \notin raced' => Current("deciding", id, row)'
    BY <1>1, <1>2, <1>3, <1>5, <1>6, <1>8, <1>9, <2>2 DEF Current, Quiet, Live
  <2> QED
    BY <1>7, <2>3, <2>4 DEF Kept, Tells
<1> QED
  BY <1>1, <1>3, <1>4, <1>5, <1>7, <1>8, Finding DEF Writes

LEMMA CreateProductKeeps ==
    ASSUME ListingInv, NEW t \in Tasks, NEW u \in Users, NEW text \in Texts, CreateProduct(t, u, text)
    PROVE  ListingInv'
<1> PICK store \in StoresOf(u) :
       Begins(t, [pc |-> "inserting", id |-> 0, row |-> NewRow(u, "product", text, store)])
  BY DEF CreateProduct
<1> PICK row : row = NewRow(u, "product", text, store)
  OBVIOUS
<1> PICK local : local = [pc |-> "inserting", id |-> 0, row |-> row]
  OBVIOUS
<1>1. /\ task[t].pc = "idle" /\ begun' = begun + 1 /\ task' = [task EXCEPT ![t] = local]
      /\ UNCHANGED <<tables, history>>
  BY DEF CreateProduct, Begins, MayBegin, At
<1>2. /\ store \in Ids /\ store <= made
      /\ born[store].kind = "store" /\ born[store].owner = u
  <2>1. store \in Ids /\ Owns(u, "store", store)
    BY DEF StoresOf
  <2>2. store \in Live /\ born[store].kind = "store" /\ born[store].owner = u
    BY <2>1, OwnerIsMaker DEF Kinds
  <2> QED
    BY <2>1, <2>2, Found
<1>3. row \in Row /\ Fresh(row) /\ row.kind = "product" /\ row.store = store /\ row.owner = u
  BY <1>2 DEF NewRow, Row, Kinds, Statuses, Fresh
<1>4. local \in Task /\ row # Null
  BY <1>3, ListingAssumption DEF Task, TaskPcs
<1>5. made \in Nat /\ Ids = 1 .. NumListings /\ NumListings \in Nat
  BY ListingAssumption DEF ListingInv, TypeOK, Ids
<1>6. Right(local)
  BY <1>2, <1>3, <1>4, <1>5 DEF Right, Tells
<1>7. Kept(local)' /\ local.pc = "inserting"
  BY DEF Kept, Tells
<1>8. \A i \in Ids : Visits(i)' = Visits(i)
  <2>1. TypeOK /\ task[t].pc # "logging" /\ local.pc # "logging" /\ UNCHANGED <<log, unlogged>>
    BY <1>1 DEF ListingInv, tables, history
  <2> QED
    BY <1>1, <2>1, SameVisits
<1>12. \A i \in Ids, p \in Tells : Unsaid(i, p) => Unsaid(i, p)'
  BY <1>1, UnsaidStays DEF Tells, history
<1>9. Quiet
  BY <1>1, <1>8, <1>12 DEF Quiet, tables, history, ListingInv, TypeOK
<1>10. Sundry
  BY <1>1 DEF Sundry, tables, history, ListingInv, TypeOK, MadeInv
<1>11. RaceInv'
  BY <1>1, <1>4, <1>7, <1>9, RaceKeeps, OthersDoNotClash DEF Quiet
<1> QED
  BY <1>1, <1>4, <1>6, <1>7, <1>9, <1>10, <1>11, QuietStep

-----------------------------------------------------------------------------
(* Requests that end without a write. *)

LEMMA RefuseKeeps ==
    ASSUME ListingInv, NEW t \in Tasks, Refuse(t)
    PROVE  ListingInv'
<1>1. /\ task' = [task EXCEPT ![t] = IdleTask] /\ begun' = begun
      /\ UNCHANGED <<tables, history>> /\ task[t].pc \notin Tells \cup {"logging"}
  BY DEF Refuse, Returns, At, Tells
<1>2. IdleTask.pc # "logging" /\ TypeOK /\ UNCHANGED <<log, unlogged>>
  BY <1>1 DEF IdleTask, ListingInv, tables, history
<1>3. \A i \in Ids : Visits(i)' = Visits(i)
  BY <1>1, <1>2, SameVisits
<1>6. \A i \in Ids, p \in Tells : Unsaid(i, p) => Unsaid(i, p)'
  BY <1>1, UnsaidStays DEF history
<1>4. Quiet
  BY <1>1, <1>3, <1>6 DEF Quiet, tables, history, ListingInv, TypeOK
<1>5. Sundry
  BY <1>1 DEF Sundry, tables, history, ListingInv, TypeOK, MadeInv
<1> QED
  BY <1>1, <1>4, <1>5, QuietEnd

\* The visit of a request that was logging is moved to the log, or among the lost.
LEMMA LoggedKeeps ==
    ASSUME ListingInv, NEW t \in Tasks, task[t].pc = "logging",
           task' = [task EXCEPT ![t] = IdleTask], begun' = begun,
           UNCHANGED <<listing, made, suspended, born, told, untold, raced, disowned, gone>>,
           \/ log' = [log EXCEPT ![task[t].id] = @ + 1] /\ unlogged' = unlogged
           \/ unlogged' = [unlogged EXCEPT ![task[t].id] = @ + 1] /\ log' = log
    PROVE  ListingInv'
<1> PICK own : own = task[t]
  OBVIOUS
<1>1. TypeOK /\ task \in [Tasks -> Task] /\ own \in Task /\ Right(own)
  BY TaskInvIsRight DEF ListingInv, TypeOK
<1>2. own.id \in Ids /\ own.id <= made
  BY <1>1, TaskTypes DEF Right
<1>3. log \in [Ids -> Nat] /\ unlogged \in [Ids -> Nat] /\ IdleTask.pc # "logging"
  BY <1>1 DEF TypeOK, IdleTask
<1>4. Cardinality(Logging(own.id)') = Cardinality(Logging(own.id)) - 1
  BY <1>1, <1>3, LessLogging
<1>5. ASSUME NEW i \in Ids
      PROVE  Visits(i)' = Visits(i)
  <2>1. CASE i = own.id
    <3>1. log'[i] + unlogged'[i] = log[i] + unlogged[i] + 1
          /\ log'[i] \in Nat /\ unlogged'[i] \in Nat
      BY <1>2, <1>3, <2>1
    <3>2. Cardinality(Logging(i)) \in Nat
      BY LoggingIsFinite
    <3> QED
      BY <1>3, <1>4, <2>1, <3>1, <3>2 DEF Visits
  <2>2. CASE i # own.id
    <3>1. log'[i] = log[i] /\ unlogged'[i] = unlogged[i]
      BY <1>2, <1>3, <2>2
    <3>2. Logging(i)' = Logging(i)
      BY <1>1, <1>3, <2>2, OtherLogging
    <3> QED
      BY <3>1, <3>2 DEF Visits
  <2> QED
    BY <2>1, <2>2
<1>9. \A i \in Ids, p \in Tells : Unsaid(i, p) => Unsaid(i, p)'
  BY UnsaidStays DEF Tells
<1>6. Quiet
  BY <1>5, <1>9 DEF Quiet, ListingInv, TypeOK
<1>7. \A i \in Ids : i > made => log'[i] = 0 /\ unlogged'[i] = 0
  BY <1>2, <1>3, ListingAssumption DEF ListingInv, MadeInv, TypeOK, Ids
<1>8. Sundry
  BY <1>2, <1>3, <1>7 DEF Sundry, ListingInv, TypeOK
<1> QED
  BY <1>6, <1>8, QuietEnd

LEMMA LogEventKeeps ==
    ASSUME ListingInv, NEW t \in Tasks, LogEvent(t)
    PROVE  ListingInv'
BY LoggedKeeps DEF LogEvent, Returns, At, history

LEMMA FailsKeeps ==
    ASSUME ListingInv, NEW t \in Tasks, Fails(t)
    PROVE  ListingInv'
<1>1. /\ task' = [task EXCEPT ![t] = IdleTask] /\ begun' = begun
      /\ UNCHANGED <<tables, born, told, untold, raced, disowned, gone>>
      /\ unlogged' = IF task[t].pc = "logging"
                     THEN [unlogged EXCEPT ![task[t].id] = @ + 1] ELSE unlogged
      /\ task[t].pc \notin Tells
  BY DEF Fails, Returns, At
<1>2. CASE task[t].pc = "logging"
  BY <1>1, <1>2, LoggedKeeps DEF tables
<1>3. CASE task[t].pc # "logging"
  <2>1. IdleTask.pc # "logging" /\ TypeOK /\ UNCHANGED <<log, unlogged>>
    BY <1>1, <1>3 DEF IdleTask, ListingInv, tables
  <2>2. \A i \in Ids : Visits(i)' = Visits(i)
    BY <1>1, <1>3, <2>1, SameVisits
  <2>5. \A i \in Ids, p \in Tells : Unsaid(i, p) => Unsaid(i, p)'
    BY <1>1, UnsaidStays
  <2>3. Quiet
    BY <1>1, <2>2, <2>5 DEF Quiet, tables, ListingInv, TypeOK
  <2>4. Sundry
    BY <1>1, <2>1 DEF Sundry, tables, ListingInv, TypeOK, MadeInv
  <2> QED
    BY <1>1, <2>3, <2>4, QuietEnd
<1> QED
  BY <1>2, <1>3

LEMMA StopKeeps ==
    ASSUME ListingInv, Stop
    PROVE  ListingInv'
<1>1. /\ task' = [t \in Tasks |-> IdleTask]
      /\ unlogged' = [id \in Ids |-> unlogged[id] + Cardinality(Logging(id))]
      /\ untold' = untold \cup
            {<<task[t].id, task[t].pc>> : t \in {t \in Tasks : task[t].pc \in Tells}}
      /\ UNCHANGED <<tables, begun, born, told, raced, disowned, gone>>
  BY DEF Stop
<1>2. made' \in Nat /\ made \in Nat /\ log \in [Ids -> Nat] /\ unlogged \in [Ids -> Nat]
      /\ task \in [Tasks -> Task]
  BY <1>1 DEF ListingInv, TypeOK, tables
<1>3. \A t \in Tasks : task'[t] = IdleTask
  BY <1>1
<1>4. ASSUME NEW i \in Ids
      PROVE  Visits(i)' = Visits(i)
  <2>1. Logging(i)' = {}
    BY <1>3 DEF Logging, IdleTask
  <2>2. Cardinality(Logging(i)') = 0
    BY <2>1, FS_EmptySet
  <2>3. Cardinality(Logging(i)) \in Nat
    BY LoggingIsFinite
  <2> QED
    BY <1>1, <1>2, <2>2, <2>3 DEF Visits, tables
<1>12. \A i \in Ids, p \in Tells : Unsaid(i, p) => Unsaid(i, p)'
  BY <1>1 DEF Unsaid, At
<1>13. untold \subseteq untold' /\ untold' \subseteq Ids \X Tells
  <2>1. \A t \in Tasks : task[t].pc \in Tells => task[t].id \in Ids
    <3> SUFFICES ASSUME NEW t \in Tasks, task[t].pc \in Tells
                 PROVE  task[t].id \in Ids
      OBVIOUS
    <3>1. task[t] \in Task /\ Right(task[t])
      BY <1>2, TaskInvIsRight DEF ListingInv
    <3> QED
      BY <3>1, TaskTypes DEF Right, Tells
  <2> QED
    BY <1>1, <2>1 DEF ListingInv, TypeOK
<1>5. Quiet
  BY <1>1, <1>4, <1>12, <1>13 DEF Quiet, tables, ListingInv, TypeOK
<1>6. Sundry
  <2>1. \A i \in Ids : Cardinality(Logging(i)) \in Nat
    BY LoggingIsFinite
  <2>2. ASSUME NEW i \in Ids, i > made
        PROVE  unlogged'[i] = 0
    <3>1. \A t \in Tasks : task[t].id <= made /\ task[t].id \in Ids \cup {0}
      BY <1>2, TaskInvIsRight DEF ListingInv, Right, Task
    <3>2. Logging(i) = {}
      BY <1>2, <2>2, <3>1, ListingAssumption DEF Logging, Ids
    <3>3. Cardinality(Logging(i)) = 0
      BY <3>2, FS_EmptySet
    <3> QED
      BY <1>1, <2>2, <3>3 DEF ListingInv, MadeInv
  <2>3. unlogged' \in [Ids -> Nat]
    BY <1>1, <1>2, <2>1
  <2> QED
    BY <1>1, <2>2, <2>3 DEF Sundry, tables, ListingInv, TypeOK, MadeInv
<1>7. Right(IdleTask)' /\ Kept(IdleTask)' /\ IdleTask \in Task /\ IdleTask.pc = "idle"
  BY <1>2, IdleIsRight
<1>8. TaskInv'
  BY <1>3, <1>7 DEF TaskInv, Right, At, Copies
<1>9. CopyInv' /\ TellInv'
  BY <1>3, <1>7 DEF CopyInv, TellInv, At, Copies, Tells
<1>10. RaceInv'
  BY <1>3, <1>7, OthersDoNotClash DEF RaceInv
<1>11. task' \in [Tasks -> Task]
  BY <1>1, <1>7
<1> QED
  BY <1>5, <1>6, <1>8, <1>9, <1>10, <1>11, QuietKeeps

\* Suspensions, and whoever reads a list.
LEMMA SameTasksKeep ==
    ASSUME ListingInv, UNCHANGED <<listing, made, log, task, history>>,
           suspended' \subseteq Users, begun' \in Nat
    PROVE  ListingInv'
<1>1. \A i \in Ids : Visits(i)' = Visits(i)
  BY DEF Visits, Logging, history
<1>7. \A i \in Ids, p \in Tells : Unsaid(i, p) => Unsaid(i, p)'
  BY DEF Unsaid, At, history
<1>2. Quiet
  BY <1>1, <1>7 DEF Quiet, ListingInv, TypeOK, history
<1>3. Sundry
  BY DEF Sundry, ListingInv, TypeOK, MadeInv, history
<1>4. task' \in [Tasks -> Task] /\ TaskInv' /\ RaceInv'
  BY DEF ListingInv, TypeOK, TaskInv, RaceInv, At, Copies, history
<1>5. ASSUME NEW s \in Tasks
      PROVE  Kept(task[s])'
  <2> PICK own : own = task[s]
    OBVIOUS
  <2>1. own \in Task /\ Right(own) /\ Kept(own)
    BY TaskInvIsRight, CopyInvIsKept DEF ListingInv, TypeOK
  <2>2. own.pc \in {"saving", "deciding"} => own.id \in Ids
    BY <2>1, TaskTypes DEF Right
  <2>3. Kept(own)'
    BY <1>2, <2>1, <2>2, QuietKept
  <2> QED
    BY <2>3 DEF Kept, Sound, Current, Says
<1>6. CopyInv' /\ TellInv'
  BY <1>5 DEF CopyInv, TellInv, Kept, Sound, Current, Says, At, Copies, Tells
<1> QED
  BY <1>2, <1>3, <1>4, <1>6, QuietKeeps

LEMMA AccountKeeps ==
    ASSUME ListingInv, NEW u \in Users, Account(u)
    PROVE  ListingInv'
BY SameTasksKeep DEF Account, Suspend, Reactivate, ListingInv, TypeOK

-----------------------------------------------------------------------------
(* A new row. *)

\* What a row must be to be inserted: a product names a store that is there.
Insertable(row) ==
    /\ row \in Row /\ Fresh(row)
    /\ IF row.kind = "product"
       THEN /\ row.store \in Live /\ row.store \in 1 .. made
            /\ born[row.store].kind = "store" /\ born[row.store].owner = row.owner
       ELSE row.store = 0

\* The id a new row gets was never used.
LEMMA NewId ==
    ASSUME ListingInv, made < NumListings
    PROVE  /\ made + 1 \in Ids /\ listing[made + 1] = Null /\ born[made + 1] = Null
           /\ made + 1 \notin gone /\ Visits(made + 1) = 0
<1>1. /\ made \in Nat /\ made + 1 \in Ids /\ made + 1 > made
      /\ task \in [Tasks -> Task] /\ log[made + 1] \in Nat /\ unlogged[made + 1] \in Nat
  BY ListingAssumption DEF ListingInv, TypeOK, Ids
<1>2. /\ listing[made + 1] = Null /\ born[made + 1] = Null
      /\ made + 1 \notin gone /\ log[made + 1] = 0 /\ unlogged[made + 1] = 0
  BY <1>1 DEF ListingInv, MadeInv
<1>3. \A t \in Tasks : task[t].id <= made /\ task[t].id \in Ids \cup {0}
  BY <1>1, TaskInvIsRight DEF ListingInv, Right, Task
<1>4. Logging(made + 1) = {}
  BY <1>1, <1>3, ListingAssumption DEF Logging, Ids
<1>5. Cardinality(Logging(made + 1)) = 0
  BY <1>4, FS_EmptySet
<1> QED
  BY <1>1, <1>2, <1>5 DEF Visits

\* A product's row, or its origin, names a store that was made before.
LEMMA StoresAreMade ==
    ASSUME ListingInv, NEW id \in Ids, born[id] # Null, born[id].kind = "product"
    PROVE  /\ born[id].store \in 1 .. made /\ born[id].store \in Ids
           /\ born[born[id].store].kind = "store"
<1>1. born[id].store \in 1 .. made /\ born[born[id].store].kind = "store"
  BY DEF ListingInv, BornInv
<1> QED
  BY <1>1, ListingAssumption DEF ListingInv, TypeOK, Ids

LEMMA CopiesAreMade ==
    ASSUME ListingInv, NEW t \in Tasks, NEW own \in Task, own = task[t], own.pc \in {"saving", "deciding"}
    PROVE  /\ own.id \in Ids /\ own.id <= made /\ born[own.id] # Null /\ told[own.id] # Null
           /\ own.row \in Row /\ Sound(own.pc, own.id, own.row)
           /\ own.id \notin raced => Current(own.pc, own.id, own.row)
<1>1. Right(own) /\ Kept(own)
  BY TaskInvIsRight, CopyInvIsKept DEF ListingInv
<1>2. own.id \in Ids /\ own.id <= made /\ own.row \in Row
  BY <1>1, TaskTypes DEF Right
<1>3. born[own.id] # Null /\ told[own.id] # Null
  BY <1>2 DEF ListingInv, MadeInv
<1> QED
  BY <1>1, <1>2, <1>3 DEF Kept

LEMMA TellersAreMade ==
    ASSUME ListingInv, NEW t \in Tasks, NEW own \in Task, own = task[t], own.pc \in Tells
    PROVE  /\ own.id \in Ids /\ own.id <= made /\ born[own.id] # Null /\ told[own.id] # Null
           /\ own.row \in Row /\ Says(own.pc, own.id, own.row)
<1>1. Right(own) /\ Kept(own)
  BY TaskInvIsRight, CopyInvIsKept DEF ListingInv
<1>2. own.id \in Ids /\ own.id <= made /\ own.row \in Row
  BY <1>1, TaskTypes DEF Right, Tells
<1>3. born[own.id] # Null /\ told[own.id] # Null
  BY <1>2 DEF ListingInv, MadeInv
<1> QED
  BY <1>1, <1>2, <1>3 DEF Kept

LEMMA InsertKeeps ==
    ASSUME ListingInv, NEW t \in Tasks, NEW row, Insertable(row), Inserts(row),
           task' = [task EXCEPT ![t] = IdleTask], task[t].pc \notin Tells \cup {"logging"},
           begun' \in Nat
    PROVE  ListingInv'
<1> PICK n : n = made + 1
  OBVIOUS
<1>1. /\ made' = n /\ listing' = [listing EXCEPT ![n] = row]
      /\ born' = [born EXCEPT ![n] = OriginOf(row)] /\ told' = [told EXCEPT ![n] = TellingOf(row)]
      /\ UNCHANGED <<suspended, log, untold, raced, disowned, gone, unlogged>> /\ made < NumListings
  BY DEF Inserts
<1>2. /\ n \in Ids /\ listing[n] = Null /\ born[n] = Null /\ n \notin gone /\ Visits(n) = 0
  BY <1>1, NewId
<1>3. /\ TypeOK /\ made \in Nat /\ NumListings \in Nat /\ Ids = 1 .. NumListings
      /\ Null \notin Row /\ Null \notin Origin /\ Null \notin Telling
  BY ListingAssumption DEF ListingInv, TypeOK, Ids
<1>4. /\ row \in Row /\ Fresh(row) /\ OriginOf(row) \in Origin /\ TellingOf(row) \in Telling
  BY DEF Insertable, Row, Fresh, Origin, Telling, OriginOf, TellingOf
<1>5. \A id \in Ids : id # n => listing'[id] = listing[id] /\ born'[id] = born[id] /\ told'[id] = told[id]
  BY <1>1, <1>3 DEF TypeOK
<1>6. listing'[n] = row /\ born'[n] = OriginOf(row) /\ told'[n] = TellingOf(row)
  BY <1>1, <1>2, <1>3 DEF TypeOK
<1>7. Live' = Live \cup {n} /\ n \notin Live
  BY <1>2, <1>3, <1>4, <1>5, <1>6 DEF Live
<1>8. \A id \in Ids : Visits(id)' = Visits(id)
  <2>1. TypeOK /\ IdleTask.pc # "logging" /\ UNCHANGED <<log, unlogged>>
    BY <1>1, <1>3 DEF IdleTask
  <2> QED
    BY <2>1, SameVisits
<1>9. TypeOK'
  <2>1. task' \in [Tasks -> Task]
    BY <1>3, IdleIsRight, <1>1 DEF TypeOK
  <2>2. listing' \in [Ids -> Row \cup {Null}] /\ born' \in [Ids -> Origin \cup {Null}]
        /\ told' \in [Ids -> Telling \cup {Null}]
    BY <1>1, <1>3, <1>4 DEF TypeOK
  <2>3. n \in 0 .. NumListings
    BY <1>2, <1>3
  <2> QED
    BY <1>1, <1>3, <2>1, <2>2, <2>3 DEF TypeOK
<1>10. MadeInv'
  <2> SUFFICES ASSUME NEW id \in Ids
               PROVE  /\ id > n => /\ listing'[id] = Null /\ born'[id] = Null /\ told'[id] = Null
                                   /\ id \notin gone /\ log[id] = 0 /\ unlogged[id] = 0
                      /\ id <= n => /\ born'[id] # Null /\ told'[id] # Null
                                    /\ listing'[id] # Null \/ id \in gone
    BY <1>1 DEF MadeInv
  <2>1. CASE id = n
    BY <1>3, <1>4, <1>6, <2>1
  <2>2. CASE id # n
    <3>1. (id > n => id > made) /\ (id <= n => id <= made)
      BY <1>3, <2>2
    <3> QED
      BY <1>5, <2>2, <3>1 DEF ListingInv, MadeInv
  <2> QED
    BY <2>1, <2>2
<1>11. row.kind = "product" => /\ row.store \in Live /\ row.store \in 1 .. made /\ row.store # n
                               /\ born[row.store].kind = "store" /\ born[row.store].owner = row.owner
  BY <1>7 DEF Insertable
<1>12. BornInv'
  <2> SUFFICES ASSUME NEW id \in Ids, born'[id] # Null
               PROVE  IF born'[id].kind = "product"
                      THEN /\ born'[id].store \in 1 .. n
                           /\ born'[born'[id].store].kind = "store"
                           /\ born'[born'[id].store].owner = born'[id].owner
                      ELSE born'[id].store = 0
    BY <1>1 DEF BornInv
  <2>1. CASE id = n
    <3>1. /\ born'[id].kind = row.kind /\ born'[id].store = row.store /\ born'[id].owner = row.owner
      BY <1>6, <2>1 DEF OriginOf
    <3>2. CASE row.kind = "product"
      <4>1. row.store \in Ids /\ row.store \in 1 .. n
        BY <1>3, <1>11, <3>2 DEF Live
      <4> QED
        BY <1>5, <1>11, <3>1, <3>2, <4>1
    <3>3. CASE row.kind # "product"
      BY <3>1, <3>3 DEF Insertable
    <3> QED
      BY <3>2, <3>3
  <2>2. CASE id # n
    <3>1. born'[id] = born[id] /\ born[id] # Null
      BY <1>5, <2>2
    <3>2. CASE born[id].kind = "product"
      <4>1. /\ born[id].store \in 1 .. made /\ born[id].store \in Ids
            /\ born[born[id].store].kind = "store"
            /\ born[born[id].store].owner = born[id].owner
        BY <3>1, <3>2, StoresAreMade DEF ListingInv, BornInv
      <4>2. born[id].store # n /\ born[id].store \in 1 .. n
        BY <1>3, <4>1
      <4> QED
        BY <1>5, <3>1, <3>2, <4>1, <4>2
    <3>3. CASE born[id].kind # "product"
      BY <3>1, <3>3 DEF ListingInv, BornInv
    <3> QED
      BY <3>2, <3>3
  <2> QED
    BY <2>1, <2>2
<1>13. LiveInv'
  <2> SUFFICES ASSUME NEW id \in Live', NEW live, live = listing'[id]
               PROVE  TrueTo(id, live)' /\ (live.kind = "product" => live.store \in Live')
    BY DEF LiveInv, TrueTo
  <2>1. CASE id = n
    <3>1. TrueTo(id, live)'
      BY <1>6, <2>1 DEF TrueTo, OriginOf
    <3> QED
      BY <1>6, <1>7, <1>11, <2>1, <3>1
  <2>2. CASE id # n
    <3>1. id \in Live /\ id \in Ids /\ live = listing[id] /\ born'[id] = born[id]
      BY <1>5, <1>7, <2>2 DEF Live
    <3>2. TrueTo(id, live) /\ (live.kind = "product" => live.store \in Live)
      BY <3>1 DEF ListingInv, LiveInv
    <3> QED
      BY <1>1, <1>7, <3>1, <3>2 DEF TrueTo
  <2> QED
    BY <2>1, <2>2
<1>21. \A id \in Ids, pc \in Tells : Unsaid(id, pc) => Unsaid(id, pc)'
  BY <1>1, UnsaidStays
<1>14. CountersMatchLog' /\ AnswersStand'
  <2> SUFFICES ASSUME NEW id \in Live'
               PROVE  /\ listing'[id].count <= Visits(id)'
                      /\ id \notin raced \cup gone => listing'[id].count = Visits(id)'
                      /\ id \notin raced \cup disowned =>
                            /\ listing'[id].status = told'[id].status \/ Unsaid(id, "notifying")'
                            /\ listing'[id].text = told'[id].text \/ Unsaid(id, "answering")'
                            /\ listing'[id].owner = born'[id].owner
    BY <1>1 DEF CountersMatchLog, AnswersStand
  <2>1. CASE id = n
    BY <1>2, <1>4, <1>6, <1>8, <2>1 DEF Fresh, OriginOf, TellingOf
  <2>2. CASE id # n
    <3>1. id \in Live /\ id \in Ids /\ listing'[id] = listing[id] /\ born'[id] = born[id]
          /\ told'[id] = told[id] /\ Visits(id)' = Visits(id)
      BY <1>5, <1>7, <1>8, <2>2 DEF Live
    <3> QED
      BY <1>21, <3>1 DEF ListingInv, CountersMatchLog, AnswersStand, Tells
  <2> QED
    BY <2>1, <2>2
<1>15. DeletedStaysDeleted'
  <2>1. \A id \in gone : id \in Ids /\ id # n
    BY <1>2, <1>3 DEF TypeOK
  <2> QED
    BY <1>1, <1>5, <2>1 DEF ListingInv, DeletedStaysDeleted
<1>16. ASSUME NEW other \in Task, Right(other)
       PROVE  Right(other)'
  <2>1. other.id <= made'
    BY <1>1, <1>3, <1>16, TaskTypes DEF Right
  <2>2. ASSUME other.pc = "inserting"
        PROVE  /\ other.row.store \in 1 .. made'
               /\ born'[other.row.store] = born[other.row.store]
    <3>1. other.row.store \in 1 .. made
      BY <1>16, <2>2 DEF Right
    <3> QED
      BY <1>1, <1>3, <1>5, <3>1
  <2> QED
    BY <1>16, <2>1, <2>2 DEF Right
<1>17. ASSUME NEW s \in Tasks \ {t}, NEW own \in Task, own = task[s], Kept(own)
       PROVE  Kept(own)'
  <2>10. ASSUME own.pc \in Tells
         PROVE  Says(own.pc, own.id, own.row)'
    <3>1. /\ own.id \in Ids /\ own.id <= made /\ own.id # n
          /\ Says(own.pc, own.id, own.row)
      BY <1>3, <1>17, <2>10, TellersAreMade
    <3> QED
      BY <1>1, <1>5, <1>7, <3>1 DEF Says
  <2> SUFFICES ASSUME own.pc \in {"saving", "deciding"}
               PROVE  /\ Sound(own.pc, own.id, own.row)'
                      /\ own.id \notin raced' => Current(own.pc, own.id, own.row)'
    BY <2>10 DEF Kept
  <2>1. /\ own.id \in Ids /\ own.id <= made /\ born[own.id] # Null
        /\ Sound(own.pc, own.id, own.row)
        /\ own.id \notin raced => Current(own.pc, own.id, own.row)
    BY <1>17, CopiesAreMade
  <2>2. /\ born'[own.id] = born[own.id] /\ told'[own.id] = told[own.id]
        /\ Visits(own.id)' = Visits(own.id)
    BY <1>3, <1>5, <1>8, <2>1
  <2>3. Sound(own.pc, own.id, own.row)'
    BY <1>1, <2>1, <2>2 DEF Sound, TrueTo
  <2>4. ASSUME own.row.kind = "product"
        PROVE  own.row.store # n
    <3>1. born[own.id].kind = "product" /\ own.row.store = born[own.id].store
      BY <2>1, <2>4 DEF Sound, TrueTo
    <3>2. own.row.store \in 1 .. made
      BY <2>1, <3>1, StoresAreMade
    <3> QED
      BY <1>3, <3>2
  <2>5. own.id \notin raced => Current(own.pc, own.id, own.row)'
    BY <1>1, <1>7, <2>1, <2>2, <2>4 DEF Current
  <2> QED
    BY <1>1, <2>3, <2>5
<1>18. task' \in [Tasks -> Task] /\ TaskInv' /\ CopyInv' /\ TellInv'
  <2>1. IdleTask \in Task /\ Right(IdleTask)' /\ Kept(IdleTask)'
    BY <1>1, <1>3, IdleIsRight
  <2> QED
    BY <1>16, <1>17, <2>1, OneTask
<1>19. RaceInv'
  BY <1>1, IdlingKeepsRaces
<1>20. ProductHasStore'
  BY <1>9, <1>10, <1>12, <1>13, ProductsHaveStores
<1> QED
  BY <1>9, <1>10, <1>12, <1>13, <1>14, <1>15, <1>18, <1>19, <1>20 DEF ListingInv

LEMMA CreateKeeps ==
    ASSUME ListingInv, NEW t \in Tasks, MayBegin(t), NEW u \in Users, NEW kind \in Kinds \ {"product"},
           NEW text \in Texts, NEW type, Create(u, type, kind, text)
    PROVE  ListingInv'
<1> PICK row : row = NewRow(u, kind, text, 0)
  OBVIOUS
<1>1. row \in Row /\ Fresh(row) /\ row.kind # "product" /\ row.store = 0
  BY DEF NewRow, Row, Statuses, Fresh
<1>2. Insertable(row)
  BY <1>1 DEF Insertable
<1>3. Inserts(row) /\ task' = task /\ begun' \in Nat
  BY DEF Create, ListingInv, TypeOK
<1>4. task[t] = IdleTask /\ task \in [Tasks -> Task]
  <2>1. task[t] \in Task /\ task[t].pc = "idle" /\ Right(task[t]) /\ task \in [Tasks -> Task]
    BY TaskInvIsRight DEF ListingInv, TypeOK, MayBegin, At
  <2> QED
    BY <2>1 DEF Right, Task, IdleTask, Tells
<1>5. task' = [task EXCEPT ![t] = IdleTask] /\ task[t].pc \notin Tells \cup {"logging"}
  BY <1>3, <1>4 DEF IdleTask, Tells
<1> QED
  BY <1>2, <1>3, <1>5, InsertKeeps

LEMMA InsertProductKeeps ==
    ASSUME ListingInv, NEW t \in Tasks, InsertProduct(t)
    PROVE  ListingInv'
<1> PICK own : own = task[t]
  OBVIOUS
<1>1. own \in Task /\ Right(own) /\ made \in Nat /\ made <= NumListings
  BY TaskInvIsRight, ListingAssumption DEF ListingInv, TypeOK
<1>2. /\ own.pc = "inserting" /\ StoreStands(own.row) /\ Inserts(own.row)
      /\ task' = [task EXCEPT ![t] = IdleTask] /\ begun' = begun
  BY DEF InsertProduct, At, Returns
<1>3. own.row \in Row
  BY <1>1, <1>2, TaskTypes DEF Right
<1>4. Insertable(own.row)
  BY <1>1, <1>2, <1>3, ListingAssumption DEF Right, Insertable, StoreStands, Live, Ids
<1> QED
  BY <1>2, <1>4, InsertKeeps DEF ListingInv, TypeOK, Tells

-----------------------------------------------------------------------------
(* A copy is saved. *)

LEMMA SaveKeeps ==
    ASSUME ListingInv, NEW t \in Tasks, Save(t)
    PROVE  ListingInv'
<1> PICK own : own = task[t]
  OBVIOUS
<1> PICK n : n = own.id
  OBVIOUS
<1> PICK row : row = own.row
  OBVIOUS
<1> PICK local : local = [own EXCEPT !.pc = IF own.pc = "saving" THEN "answering" ELSE "notifying"]
  OBVIOUS
<1>1. /\ own.pc \in {"saving", "deciding"} /\ StoreStands(row)
      /\ listing' = [listing EXCEPT ![n] = row]
      /\ task' = [task EXCEPT ![t].pc = IF own.pc = "saving" THEN "answering" ELSE "notifying"]
      /\ UNCHANGED <<made, suspended, log, begun, born, told, untold, raced, disowned, gone, unlogged>>
  BY DEF Save, At, SavedRow, history
<1>2. /\ TypeOK /\ made \in Nat /\ own \in Task
      /\ Null \notin Row /\ Null \notin Origin /\ Null \notin Telling /\ Null \notin Users
  BY ListingAssumption DEF ListingInv, TypeOK
<1>3. /\ n \in Ids /\ n <= made /\ born[n] # Null /\ told[n] # Null /\ row \in Row
      /\ Sound(own.pc, n, row)
      /\ n \notin raced => Current(own.pc, n, row)
  BY <1>1, <1>2, CopiesAreMade
<1>4. born[n] \in Origin
  BY <1>2, <1>3 DEF TypeOK
<1>5. /\ local \in Task /\ local.id = n /\ local.row = row
      /\ local.pc = IF own.pc = "saving" THEN "answering" ELSE "notifying"
      /\ local.pc \in Tells
      /\ task' = [task EXCEPT ![t] = local]
  BY <1>1, <1>2 DEF Task, TaskPcs, Tells, TypeOK
<1>6. /\ \A id \in Ids : id # n => listing'[id] = listing[id]
      /\ listing'[n] = row
  BY <1>1, <1>2, <1>3 DEF TypeOK
<1>7. Live' = Live \cup {n}
  BY <1>2, <1>3, <1>6 DEF Live
<1>8. \A id \in Ids : Visits(id)' = Visits(id)
  <2>1. local.pc # "logging" /\ UNCHANGED <<log, unlogged>> /\ task[t].pc # "logging"
    BY <1>1, <1>5 DEF Tells
  <2> QED
    BY <1>2, <1>5, <2>1, SameVisits
<1>9. row.kind = "product" => row.store \in Live
  <2>1. row.kind = born[n].kind /\ row.store = born[n].store
    BY <1>3 DEF Sound, TrueTo
  <2> QED
    BY <1>1, <1>3, <2>1, StoresAreMade DEF StoreStands, Live
\* A store that was not there is written back only by a race.
<1>10. n \in Live \/ n \in raced \/ (row.kind = "product" /\ row.store \in raced)
  BY <1>3, <1>9 DEF Current
<1>11. TypeOK'
  <2>1. task' \in [Tasks -> Task]
    BY <1>2, <1>5 DEF TypeOK
  <2>2. listing' \in [Ids -> Row \cup {Null}]
    BY <1>1, <1>2, <1>3 DEF TypeOK
  <2> QED
    BY <1>1, <1>2, <2>1, <2>2 DEF TypeOK
<1>12. MadeInv'
  <2> SUFFICES ASSUME NEW id \in Ids
               PROVE  /\ id > made => /\ listing'[id] = Null /\ born[id] = Null /\ told[id] = Null
                                      /\ id \notin gone /\ log[id] = 0 /\ unlogged[id] = 0
                      /\ id <= made => /\ born[id] # Null /\ told[id] # Null
                                       /\ listing'[id] # Null \/ id \in gone
    BY <1>1 DEF MadeInv
  <2>1. CASE id = n
    BY <1>2, <1>3, <1>6, <2>1, ListingAssumption DEF Ids
  <2>2. CASE id # n
    BY <1>6, <2>2 DEF ListingInv, MadeInv
  <2> QED
    BY <2>1, <2>2
<1>13. BornInv'
  BY <1>1 DEF ListingInv, BornInv
<1>14. LiveInv'
  <2> SUFFICES ASSUME NEW id \in Live', NEW live, live = listing'[id]
               PROVE  TrueTo(id, live)' /\ (live.kind = "product" => live.store \in Live')
    BY DEF LiveInv, TrueTo
  <2>1. CASE id = n
    <3>1. live = row
      BY <1>6, <2>1
    <3> QED
      BY <1>1, <1>3, <1>7, <1>9, <2>1, <3>1 DEF Sound, TrueTo
  <2>2. CASE id # n
    <3>1. id \in Live /\ live = listing[id]
      BY <1>6, <1>7, <2>2 DEF Live
    <3>2. TrueTo(id, live) /\ (live.kind = "product" => live.store \in Live)
      BY <3>1 DEF ListingInv, LiveInv
    <3> QED
      BY <1>1, <1>7, <3>2 DEF TrueTo
  <2> QED
    BY <2>1, <2>2
\* What the row says now and nobody was told yet, this request is about to tell.
<1>22. \A id \in Ids, pc \in Tells : Unsaid(id, pc) => Unsaid(id, pc)'
  <2>1. task[t].pc \notin Tells /\ untold \subseteq untold'
    BY <1>1 DEF Tells
  <2> QED
    BY <1>5, <2>1, UnsaidStays
<1>23. Unsaid(n, local.pc)'
  <2>1. task'[t] = local
    BY <1>2, <1>5 DEF TypeOK
  <2> QED
    BY <1>5, <2>1 DEF Unsaid, At
<1>15. CountersMatchLog' /\ AnswersStand'
  <2> SUFFICES ASSUME NEW id \in Live'
               PROVE  /\ listing'[id].count <= Visits(id)'
                      /\ id \notin raced \cup gone => listing'[id].count = Visits(id)'
                      /\ id \notin raced \cup disowned =>
                            /\ listing'[id].status = told[id].status \/ Unsaid(id, "notifying")'
                            /\ listing'[id].text = told[id].text \/ Unsaid(id, "answering")'
                            /\ listing'[id].owner = born[id].owner
    BY <1>1 DEF CountersMatchLog, AnswersStand
  <2>1. CASE id = n
    <3>1. row.count <= Visits(n)' /\ (n \notin raced \cup gone => row.count = Visits(n)')
      BY <1>3, <1>8 DEF Sound, Current
    <3>2. ASSUME n \notin raced \cup disowned
          PROVE  /\ row.status = told[n].status \/ Unsaid(n, "notifying")'
                 /\ row.text = told[n].text \/ Unsaid(n, "answering")'
                 /\ row.owner = born[n].owner
      <4>1. row.owner = born[n].owner
        BY <1>3, <3>2 DEF Current
      <4>2. CASE own.pc = "saving"
        <5>1. row.status = told[n].status \/ <<n, "notifying">> \in untold'
          BY <1>1, <1>3, <3>2, <4>2 DEF Current
        <5> QED
          BY <1>5, <1>23, <4>1, <4>2, <5>1 DEF Unsaid
      <4>3. CASE own.pc = "deciding"
        <5>1. row.text = told[n].text \/ <<n, "answering">> \in untold'
          BY <1>1, <1>3, <3>2, <4>3 DEF Current
        <5> QED
          BY <1>5, <1>23, <4>1, <4>3, <5>1 DEF Unsaid
      <4> QED
        BY <1>1, <4>1, <4>2, <4>3
    <3> QED
      BY <1>6, <2>1, <3>1, <3>2
  <2>2. CASE id # n
    <3>1. id \in Live /\ id \in Ids /\ listing'[id] = listing[id]
          /\ Visits(id)' = Visits(id)
      BY <1>6, <1>7, <1>8, <2>2 DEF Live
    <3> QED
      BY <1>22, <3>1 DEF ListingInv, CountersMatchLog, AnswersStand, Tells
  <2> QED
    BY <2>1, <2>2
<1>16. DeletedStaysDeleted'
  <2> SUFFICES ASSUME NEW id \in gone
               PROVE  listing'[id] = Null \/ id \in raced \/ born[id].store \in raced
    BY <1>1 DEF DeletedStaysDeleted
  <2>1. id \in Ids
    BY <1>2 DEF TypeOK
  <2>2. listing[id] = Null \/ id \in raced \/ born[id].store \in raced
    BY DEF ListingInv, DeletedStaysDeleted
  <2>3. CASE id # n
    BY <1>6, <2>1, <2>2, <2>3
  <2>4. CASE id = n
    <3>1. row.store = born[n].store
      BY <1>3 DEF Sound, TrueTo
    <3> QED
      BY <1>10, <2>2, <2>4, <3>1 DEF Live
  <2> QED
    BY <2>3, <2>4
<1>24. Right(local)' /\ Kept(local)'
  <2>1. Right(own)
    BY TaskInvIsRight DEF ListingInv
  <2>2. Right(local)'
    BY <1>1, <1>2, <1>3, <1>5, <2>1, ListingAssumption DEF Right, Tells, Ids
  <2>3. ASSUME n \notin raced \cup disowned
        PROVE  row.owner # Null
    <3>1. row.owner = born[n].owner /\ born[n].owner \in Users
      BY <1>2, <1>3, <1>4, <2>3 DEF Current, Origin
    <3> QED
      BY <1>2, <3>1
  <2>4. Says(local.pc, n, row)'
    BY <1>1, <1>6, <2>3 DEF Says
  <2> QED
    BY <1>5, <2>2, <2>4 DEF Kept, Tells
<1>17. \A other \in Task : Right(other) => Right(other)'
  BY <1>1 DEF Right
<1>18. ASSUME NEW s \in Tasks \ {t}, NEW other \in Task, other = task[s], Kept(other)
       PROVE  Kept(other)'
  <2>10. ASSUME other.pc \in Tells
         PROVE  Says(other.pc, other.id, other.row)'
    <3>1. /\ other.id \in Ids /\ Says(other.pc, other.id, other.row)
          /\ other.id = n => n \in raced
      BY <1>1, <1>18, <2>10, TellersAreMade DEF ListingInv, RaceInv, Writes, Clash
    <3> QED
      BY <1>1, <1>6, <1>7, <3>1 DEF Says
  <2> SUFFICES ASSUME other.pc \in {"saving", "deciding"}
               PROVE  /\ Sound(other.pc, other.id, other.row)'
                      /\ other.id \notin raced' => Current(other.pc, other.id, other.row)'
    BY <2>10 DEF Kept
  <2>1. /\ other.id \in Ids /\ born[other.id] # Null
        /\ Sound(other.pc, other.id, other.row)
        /\ other.id \notin raced => Current(other.pc, other.id, other.row)
    BY <1>18, CopiesAreMade
  <2>2. Visits(other.id)' = Visits(other.id)
    BY <1>8, <2>1
  <2>3. Sound(other.pc, other.id, other.row)'
    BY <1>1, <2>1, <2>2 DEF Sound, TrueTo
  <2>4. other.id = n => n \in raced
    BY <1>1, <1>18 DEF ListingInv, RaceInv, Writes, Clash
  <2>5. ASSUME other.id \notin raced
        PROVE  Current(other.pc, other.id, other.row)'
    <3>2. ASSUME other.row.kind = "product", other.row.store = n
          PROVE  n \in Live \/ n \in raced
      <4>1. born[other.id].kind = "product" /\ other.row.store = born[other.id].store
        BY <2>1, <3>2 DEF Sound, TrueTo
      <4>2. born[n].kind = "store"
        BY <2>1, <3>2, <4>1, StoresAreMade
      <4>3. row.kind = "store"
        BY <1>3, <4>2 DEF Sound, TrueTo
      <4> QED
        BY <1>10, <4>3
    <3> QED
      BY <1>1, <1>7, <2>1, <2>2, <2>5, <3>2 DEF Current
  <2> QED
    BY <1>1, <2>3, <2>5
<1>19. task' \in [Tasks -> Task] /\ TaskInv' /\ CopyInv' /\ TellInv'
  BY <1>5, <1>17, <1>18, <1>24, OneTask
\* Whoever it races now it raced before, when it was about to write.
<1>20. RaceInv'
  <2>1. ASSUME NEW s \in Tasks \ {t}, task[s].id = local.id, Clash(task[s].pc, local.pc)
        PROVE  local.id \in raced'
    <3>1. Clash(task[s].pc, own.pc)
      BY <1>1, <1>5, <2>1 DEF Clash, Writes, Tells
    <3> QED
      BY <1>1, <1>5, <2>1, <3>1 DEF ListingInv, RaceInv
  <2>2. raced \subseteq raced'
    BY <1>1
  <2> QED
    BY <1>5, <2>1, <2>2, RaceKeeps
<1>21. ProductHasStore'
  BY <1>11, <1>12, <1>13, <1>14, ProductsHaveStores
<1> QED
  BY <1>11, <1>12, <1>13, <1>14, <1>15, <1>16, <1>19, <1>20, <1>21 DEF ListingInv

-----------------------------------------------------------------------------
(* A listing goes, and a store takes its products with it. *)

LEMMA RemoveKeeps ==
    ASSUME ListingInv, NEW t \in Tasks, Remove(t)
    PROVE  ListingInv'
<1> PICK own : own = task[t]
  OBVIOUS
<1> PICK n : n = own.id
  OBVIOUS
<1> PICK removed : removed = Cascade(n)
  OBVIOUS
<1>1. /\ own.pc = "removing"
      /\ listing' = [id \in Ids |-> IF id \in removed THEN Null ELSE listing[id]]
      /\ gone' = gone \cup removed
      /\ task' = [task EXCEPT ![t] = IdleTask] /\ begun' = begun
      /\ UNCHANGED <<made, suspended, log, born, told, untold, raced, disowned, unlogged>>
  BY DEF Remove, At, Returns
<1>2. TypeOK /\ made \in Nat /\ own \in Task /\ Right(own)
  BY TaskInvIsRight DEF ListingInv, TypeOK
<1>3. n \in Ids /\ n <= made
  BY <1>1, <1>2, TaskTypes DEF Right
<1>4. /\ removed \subseteq Ids /\ n \in removed
      /\ \A p \in removed : p # n => /\ p \in Live /\ listing[p].kind = "product"
                                     /\ listing[p].store = n
      /\ \A p \in Live : listing[p].kind = "product" /\ listing[p].store = n => p \in removed
  BY <1>3 DEF Cascade, Live
<1>5. /\ Live' = Live \ removed
      /\ \A id \in Ids \ removed : listing'[id] = listing[id]
      /\ \A id \in removed : listing'[id] = Null
  BY <1>1, <1>4 DEF Live
<1>6. \A id \in Ids : Visits(id)' = Visits(id)
  <2>1. IdleTask.pc # "logging" /\ UNCHANGED <<log, unlogged>> /\ task[t].pc # "logging"
    BY <1>1 DEF IdleTask
  <2> QED
    BY <1>1, <1>2, <2>1, SameVisits
<1>7. TypeOK'
  <2>1. task' \in [Tasks -> Task]
    BY <1>1, <1>2, IdleIsRight DEF TypeOK
  <2>2. listing' \in [Ids -> Row \cup {Null}]
    BY <1>1, <1>2 DEF TypeOK
  <2> QED
    BY <1>1, <1>2, <1>4, <2>1, <2>2 DEF TypeOK
<1>8. MadeInv'
  <2>1. \A p \in removed : p <= made
    BY <1>2, <1>3, <1>4, ListingAssumption DEF ListingInv, MadeInv, Live, Ids
  <2> SUFFICES ASSUME NEW id \in Ids
               PROVE  /\ id > made => /\ listing'[id] = Null /\ born[id] = Null /\ told[id] = Null
                                      /\ id \notin gone' /\ log[id] = 0 /\ unlogged[id] = 0
                      /\ id <= made => /\ born[id] # Null /\ told[id] # Null
                                       /\ listing'[id] # Null \/ id \in gone'
    BY <1>1 DEF MadeInv
  <2>2. CASE id \in removed
    BY <1>1, <1>2, <2>1, <2>2, ListingAssumption DEF ListingInv, MadeInv, Ids
  <2>3. CASE id \notin removed
    BY <1>1, <1>5, <2>3 DEF ListingInv, MadeInv
  <2> QED
    BY <2>2, <2>3
<1>9. BornInv'
  BY <1>1 DEF ListingInv, BornInv
\* A product that stays is in another store, and stores are not products.
<1>10. ASSUME NEW p \in Live', listing[p].kind = "product"
       PROVE  listing[p].store \in Live'
  <2>1. /\ p \in Live /\ p \in Ids /\ p \notin removed
        /\ listing[p].store \in Live /\ listing[p].store # n
    BY <1>4, <1>5, <1>10 DEF ListingInv, LiveInv, Live
  <2>2. listing[p].kind = born[p].kind /\ listing[p].store = born[p].store /\ born[p] # Null
    BY <1>2, <2>1, Found DEF TrueTo, ListingInv, MadeInv
  <2>3. born[listing[p].store].kind = "store"
    BY <1>10, <2>1, <2>2, StoresAreMade
  <2>4. listing[listing[p].store].kind = "store"
    BY <2>1, <2>3, Found DEF TrueTo
  <2> QED
    BY <1>4, <1>5, <2>1, <2>4
<1>11. LiveInv'
  <2> SUFFICES ASSUME NEW id \in Live', NEW live, live = listing'[id]
               PROVE  TrueTo(id, live)' /\ (live.kind = "product" => live.store \in Live')
    BY DEF LiveInv, TrueTo
  <2>1. id \in Live /\ live = listing[id]
    BY <1>5 DEF Live
  <2>2. TrueTo(id, live)
    BY <2>1 DEF ListingInv, LiveInv
  <2> QED
    BY <1>1, <1>10, <2>1, <2>2 DEF TrueTo
<1>19. \A id \in Ids, pc \in Tells : Unsaid(id, pc) => Unsaid(id, pc)'
  BY <1>1, UnsaidStays DEF Tells
<1>12. CountersMatchLog' /\ AnswersStand'
  <2> SUFFICES ASSUME NEW id \in Live'
               PROVE  /\ listing'[id].count <= Visits(id)'
                      /\ id \notin raced \cup gone' => listing'[id].count = Visits(id)'
                      /\ id \notin raced \cup disowned =>
                            /\ listing'[id].status = told[id].status \/ Unsaid(id, "notifying")'
                            /\ listing'[id].text = told[id].text \/ Unsaid(id, "answering")'
                            /\ listing'[id].owner = born[id].owner
    BY <1>1 DEF CountersMatchLog, AnswersStand
  <2>1. id \in Live /\ id \in Ids /\ listing'[id] = listing[id] /\ Visits(id)' = Visits(id)
    BY <1>5, <1>6 DEF Live
  <2> QED
    BY <1>1, <1>19, <2>1 DEF ListingInv, CountersMatchLog, AnswersStand, Tells
<1>13. DeletedStaysDeleted'
  <2> SUFFICES ASSUME NEW id \in gone'
               PROVE  listing'[id] = Null \/ id \in raced \/ born[id].store \in raced
    BY <1>1 DEF DeletedStaysDeleted
  <2>1. CASE id \in removed
    BY <1>5, <2>1
  <2>2. CASE id \notin removed
    <3>1. id \in gone /\ id \in Ids
      BY <1>1, <1>2, <2>2 DEF TypeOK
    <3> QED
      BY <1>5, <2>2, <3>1 DEF ListingInv, DeletedStaysDeleted
  <2> QED
    BY <2>1, <2>2
<1>14. \A other \in Task : Right(other) => Right(other)'
  BY <1>1 DEF Right
<1>15. ASSUME NEW s \in Tasks \ {t}, NEW other \in Task, other = task[s], Kept(other)
       PROVE  Kept(other)'
  <2>10. ASSUME other.pc \in Tells
         PROVE  Says(other.pc, other.id, other.row)'
    <3>1. other.id \in Ids /\ Says(other.pc, other.id, other.row)
      BY <1>15, <2>10, TellersAreMade
    <3> QED
      BY <1>1, <1>5, <3>1 DEF Says
  <2> SUFFICES ASSUME other.pc \in {"saving", "deciding"}
               PROVE  /\ Sound(other.pc, other.id, other.row)'
                      /\ other.id \notin raced' => Current(other.pc, other.id, other.row)'
    BY <2>10 DEF Kept
  <2>1. /\ other.id \in Ids /\ born[other.id] # Null
        /\ Sound(other.pc, other.id, other.row)
        /\ other.id \notin raced => Current(other.pc, other.id, other.row)
    BY <1>15, CopiesAreMade
  <2>2. Visits(other.id)' = Visits(other.id)
    BY <1>6, <2>1
  <2>3. Sound(other.pc, other.id, other.row)'
    BY <1>1, <2>1, <2>2 DEF Sound, TrueTo
  <2>4. other.id = n => n \in raced
    BY <1>1, <1>15 DEF ListingInv, RaceInv, Writes, Clash
  <2>5. ASSUME other.id \notin raced
        PROVE  Current(other.pc, other.id, other.row)'
    <3>1. ASSUME other.id \in removed
          PROVE  other.row.kind = "product" /\ other.row.store = n
      <4>1. /\ other.id \in Live /\ listing[other.id].kind = "product"
            /\ listing[other.id].store = n
        BY <1>4, <2>4, <2>5, <3>1
      <4>2. TrueTo(other.id, listing[other.id])
        BY <4>1, Found
      <4> QED
        BY <2>1, <4>1, <4>2 DEF Sound, TrueTo
    <3>2. n \notin Live'
      BY <1>4, <1>5
    <3> QED
      BY <1>1, <1>5, <2>1, <2>2, <2>5, <3>1, <3>2 DEF Current
  <2> QED
    BY <1>1, <2>3, <2>5
<1>16. task' \in [Tasks -> Task] /\ TaskInv' /\ CopyInv' /\ TellInv'
  <2>1. IdleTask \in Task /\ Right(IdleTask)' /\ Kept(IdleTask)'
    BY <1>1, <1>2, IdleIsRight
  <2> QED
    BY <1>1, <1>14, <1>15, <2>1, OneTask
<1>17. RaceInv'
  BY <1>1, IdlingKeepsRaces
<1>18. ProductHasStore'
  BY <1>7, <1>8, <1>9, <1>11, ProductsHaveStores
<1> QED
  BY <1>7, <1>8, <1>9, <1>11, <1>12, <1>13, <1>16, <1>17, <1>18 DEF ListingInv

-----------------------------------------------------------------------------
(* A visit is counted, and is still to be logged. *)

LEMMA IncrementKeeps ==
    ASSUME ListingInv, NEW t \in Tasks, Increment(t)
    PROVE  ListingInv'
<1> PICK own : own = task[t]
  OBVIOUS
<1> PICK n : n = own.id
  OBVIOUS
<1> PICK local : local = [own EXCEPT !.pc = "logging"]
  OBVIOUS
<1>1. /\ own.pc = "counting"
      /\ listing' = IF n \in Live
                    THEN [listing EXCEPT ![n] = [@ EXCEPT !.count = listing[n].count + 1]]
                    ELSE listing
      /\ task' = [task EXCEPT ![t].pc = "logging"]
      /\ UNCHANGED <<made, suspended, log, begun, history>>
  BY DEF Increment, At, Counted
<1>2. TypeOK /\ made \in Nat /\ own \in Task /\ Right(own) /\ task \in [Tasks -> Task] /\ Null \notin Row
  BY TaskInvIsRight, ListingAssumption DEF ListingInv, TypeOK
<1>3. n \in Ids /\ n <= made /\ own.row = Null
  BY <1>1, <1>2, TaskTypes DEF Right, Tells
<1>4. /\ local \in Task /\ local.pc = "logging" /\ local.id = n /\ local.row = Null
      /\ task' = [task EXCEPT ![t] = local]
  BY <1>1, <1>2, <1>3 DEF Task, TaskPcs
<1>5. Right(local)' /\ Kept(local)'
  BY <1>1, <1>2, <1>3, <1>4, ListingAssumption DEF Right, Kept, Tells, Ids
<1>6. \A id \in Ids : Visits(id)' = IF id = n THEN Visits(id) + 1 ELSE Visits(id)
  <2> SUFFICES ASSUME NEW id \in Ids
               PROVE  Visits(id)' = IF id = n THEN Visits(id) + 1 ELSE Visits(id)
    OBVIOUS
  <2>1. /\ log' = log /\ unlogged' = unlogged /\ log[id] \in Nat /\ unlogged[id] \in Nat
        /\ Cardinality(Logging(id)) \in Nat
    BY <1>1, <1>2, LoggingIsFinite DEF history, TypeOK
  <2>2. CASE id = n
    <3>1. task[t].pc # "logging" /\ local.pc = "logging" /\ local.id = id
      BY <1>1, <1>4, <2>2
    <3>2. Cardinality(Logging(id)') = Cardinality(Logging(id)) + 1
      BY <1>2, <1>4, <3>1, MoreLogging
    <3> QED
      BY <2>1, <2>2, <3>2 DEF Visits
  <2>3. CASE id # n
    <3>1. task[t].pc # "logging" /\ local.id # id
      BY <1>1, <1>4, <2>3
    <3>2. Logging(id)' = Logging(id)
      BY <1>2, <1>4, <3>1, OtherLogging
    <3> QED
      BY <2>1, <2>3, <3>2 DEF Visits
  <2> QED
    BY <2>2, <2>3
<1>7. /\ Live' = Live
      /\ \A id \in Ids : id # n => listing'[id] = listing[id]
      /\ n \in Live => /\ listing[n] \in Row /\ listing'[n] \in Row
                       /\ listing'[n] = [listing[n] EXCEPT !.count = listing[n].count + 1]
  <2>1. \A id \in Ids : id # n => listing'[id] = listing[id]
    BY <1>1, <1>2 DEF TypeOK
  <2>2. ASSUME n \in Live
        PROVE  /\ listing[n] \in Row /\ listing'[n] \in Row
               /\ listing'[n] = [listing[n] EXCEPT !.count = listing[n].count + 1]
    <3>1. listing[n] \in Row /\ listing[n].count \in Nat
      BY <2>2, Found DEF Row
    <3>2. listing'[n] = [listing[n] EXCEPT !.count = listing[n].count + 1]
      BY <1>1, <1>2, <1>3, <2>2 DEF TypeOK
    <3> QED
      BY <3>1, <3>2 DEF Row
  <2>3. Live' = Live
    BY <1>1, <1>2, <1>3, <2>1, <2>2 DEF Live
  <2> QED
    BY <2>1, <2>2, <2>3
<1>8. TypeOK'
  <2>1. listing' \in [Ids -> Row \cup {Null}]
    BY <1>1, <1>2, <1>3, <1>7 DEF TypeOK
  <2>2. task' \in [Tasks -> Task]
    BY <1>2, <1>4
  <2> QED
    BY <1>1, <1>2, <2>1, <2>2 DEF TypeOK, history
<1>9. ASSUME NEW id \in Ids, NEW live, live = listing'[id]
      PROVE  /\ live = Null <=> listing[id] = Null
             /\ id \in Live => /\ live.kind = listing[id].kind /\ live.owner = listing[id].owner
                               /\ live.status = listing[id].status /\ live.text = listing[id].text
                               /\ live.store = listing[id].store
                               /\ live.count = IF id = n THEN listing[id].count + 1
                                               ELSE listing[id].count
  <2>1. CASE id # n
    BY <1>7, <1>9, <2>1
  <2>2. CASE id = n /\ n \in Live
    BY <1>2, <1>7, <1>9, <2>2 DEF Row, Live
  <2>3. CASE id = n /\ n \notin Live
    BY <1>1, <1>9, <2>3
  <2> QED
    BY <2>1, <2>2, <2>3
<1>10. MadeInv'
  BY <1>1, <1>9 DEF ListingInv, MadeInv, history
<1>11. BornInv'
  BY <1>1 DEF ListingInv, BornInv, history
<1>12. LiveInv'
  <2> SUFFICES ASSUME NEW id \in Live', NEW live, live = listing'[id]
               PROVE  TrueTo(id, live)' /\ (live.kind = "product" => live.store \in Live')
    BY DEF LiveInv, TrueTo
  <2>1. id \in Live /\ id \in Ids
    BY <1>7 DEF Live
  <2>2. TrueTo(id, listing[id]) /\ (listing[id].kind = "product" => listing[id].store \in Live)
    BY <2>1 DEF ListingInv, LiveInv
  <2> QED
    BY <1>1, <1>7, <1>9, <2>1, <2>2 DEF TrueTo, history
<1>20. \A id \in Ids, pc \in Tells : Unsaid(id, pc) => Unsaid(id, pc)'
  <2>1. task[t].pc \notin Tells /\ untold \subseteq untold'
    BY <1>1 DEF Tells, history
  <2> QED
    BY <1>4, <2>1, UnsaidStays
<1>13. CountersMatchLog' /\ AnswersStand'
  <2> SUFFICES ASSUME NEW id \in Live'
               PROVE  /\ listing'[id].count <= Visits(id)'
                      /\ id \notin raced \cup gone => listing'[id].count = Visits(id)'
                      /\ id \notin raced \cup disowned =>
                            /\ listing'[id].status = told[id].status \/ Unsaid(id, "notifying")'
                            /\ listing'[id].text = told[id].text \/ Unsaid(id, "answering")'
                            /\ listing'[id].owner = born[id].owner
    BY <1>1 DEF CountersMatchLog, AnswersStand, history
  <2> PICK live : live = listing'[id]
    OBVIOUS
  <2>1. id \in Live /\ id \in Ids /\ listing[id].count \in Nat /\ Visits(id) \in Nat
    BY <1>2, <1>7, Found, VisitsAreNat DEF Row
  <2> QED
    BY <1>6, <1>9, <1>20, <2>1 DEF ListingInv, CountersMatchLog, AnswersStand, Tells
<1>14. DeletedStaysDeleted'
  <2>1. \A id \in gone : id \in Ids
    BY <1>2 DEF TypeOK
  <2> QED
    BY <1>1, <1>9, <2>1 DEF ListingInv, DeletedStaysDeleted, history
<1>15. \A other \in Task : Right(other) => Right(other)'
  BY <1>1 DEF Right, history
<1>16. ASSUME NEW s \in Tasks \ {t}, NEW other \in Task, other = task[s], Kept(other)
       PROVE  Kept(other)'
  <2>10. ASSUME other.pc \in Tells
         PROVE  Says(other.pc, other.id, other.row)'
    <3>1. other.id \in Ids /\ Says(other.pc, other.id, other.row)
      BY <1>16, <2>10, TellersAreMade
    <3> QED
      BY <1>1, <1>7, <1>9, <3>1 DEF Says, history
  <2> SUFFICES ASSUME other.pc \in {"saving", "deciding"}
               PROVE  /\ Sound(other.pc, other.id, other.row)'
                      /\ other.id \notin raced' => Current(other.pc, other.id, other.row)'
    BY <2>10 DEF Kept
  <2>1. /\ other.id \in Ids /\ other.row \in Row
        /\ Sound(other.pc, other.id, other.row)
        /\ other.id \notin raced => Current(other.pc, other.id, other.row)
    BY <1>16, CopiesAreMade
  <2>2. Visits(other.id) \in Nat /\ other.row.count \in Nat
    BY <1>2, <2>1, VisitsAreNat DEF Row
  <2>3. Visits(other.id)' >= Visits(other.id)
    BY <1>6, <2>1, <2>2
  <2>4. other.row.count <= Visits(other.id)'
    BY <1>6, <2>1, <2>2 DEF Sound
  <2>5. Sound(other.pc, other.id, other.row)'
    BY <1>1, <2>1, <2>4 DEF Sound, TrueTo, history
  \* Nobody else has a copy of a listing somebody counts a visit of, unless it is raced.
  <2>6. other.id = n => n \in raced
    BY <1>1, <1>16 DEF ListingInv, RaceInv, Writes, Clash
  <2>7. ASSUME other.id \notin raced
        PROVE  Current(other.pc, other.id, other.row)'
    <3>1. Visits(other.id)' = Visits(other.id)
      BY <1>6, <2>1, <2>6, <2>7
    <3> QED
      BY <1>1, <1>7, <2>1, <2>7, <3>1 DEF Current, history
  <2> QED
    BY <1>1, <2>5, <2>7 DEF history
<1>17. task' \in [Tasks -> Task] /\ TaskInv' /\ CopyInv' /\ TellInv'
  BY <1>4, <1>5, <1>15, <1>16, OneTask
<1>18. RaceInv'
  <2>1. raced \subseteq raced'
    BY <1>1 DEF history
  <2>2. \A s \in Tasks : ~Clash(task[s].pc, local.pc)
    BY <1>4, OthersDoNotClash
  <2> QED
    BY <1>4, <2>1, <2>2, RaceKeeps
<1>19. ProductHasStore'
  BY <1>8, <1>10, <1>11, <1>12, ProductsHaveStores
<1> QED
  BY <1>8, <1>10, <1>11, <1>12, <1>13, <1>14, <1>17, <1>18, <1>19 DEF ListingInv

-----------------------------------------------------------------------------
(* The answer, or the event. *)

LEMMA TellKeeps ==
    ASSUME ListingInv, NEW t \in Tasks, Tell(t)
    PROVE  ListingInv'
<1> PICK own : own = task[t]
  OBVIOUS
<1> PICK n : n = own.id
  OBVIOUS
<1> PICK row : row = own.row
  OBVIOUS
<1>1. /\ own.pc \in Tells /\ told' = Told(t) /\ untold' = untold \ {<<n, own.pc>>}
      /\ task' = [task EXCEPT ![t] = IdleTask] /\ begun' = begun
      /\ UNCHANGED <<listing, made, suspended, log, born, raced, disowned, gone, unlogged>>
  BY DEF Tell, At, Returns, Tells, tables
<1>2. /\ TypeOK /\ made \in Nat /\ own \in Task /\ task \in [Tasks -> Task] /\ Null \notin Telling
  BY ListingAssumption DEF ListingInv, TypeOK
<1>3. /\ n \in Ids /\ n <= made /\ told[n] # Null /\ row \in Row /\ Says(own.pc, n, row)
  BY <1>1, <1>2, TellersAreMade
<1>4. told[n] \in Telling
  BY <1>2, <1>3 DEF TypeOK
<1>5. told' = [told EXCEPT ![n] = IF own.pc = "answering" THEN [told[n] EXCEPT !.text = row.text]
                                  ELSE IF row.owner = Null THEN told[n]
                                  ELSE [told[n] EXCEPT !.status = row.status]]
  BY <1>1, <1>2, <1>3 DEF Told, At, TypeOK
<1>6. /\ \A id \in Ids : id # n => told'[id] = told[id]
      /\ told'[n] \in Telling
      /\ own.pc = "answering" => told'[n].text = row.text /\ told'[n].status = told[n].status
      /\ own.pc = "notifying" /\ row.owner # Null =>
            told'[n].status = row.status /\ told'[n].text = told[n].text
  <2>1. \A id \in Ids : id # n => told'[id] = told[id]
    BY <1>1, <1>2, <1>5 DEF TypeOK
  <2>2. /\ told'[n] \in Telling
        /\ own.pc = "answering" => told'[n].text = row.text /\ told'[n].status = told[n].status
        /\ own.pc = "notifying" /\ row.owner # Null =>
              told'[n].status = row.status /\ told'[n].text = told[n].text
    BY <1>2, <1>3, <1>4, <1>5 DEF TypeOK, Telling, Row
  <2> QED
    BY <2>1, <2>2
<1>7. Live' = Live
  BY <1>1 DEF Live
<1>8. \A id \in Ids : Visits(id)' = Visits(id)
  <2>1. IdleTask.pc # "logging" /\ UNCHANGED <<log, unlogged>> /\ task[t].pc # "logging"
    BY <1>1 DEF IdleTask, Tells
  <2> QED
    BY <1>1, <1>2, <2>1, SameVisits
<1>9. TypeOK'
  <2>1. task' \in [Tasks -> Task]
    BY <1>1, <1>2, IdleIsRight
  <2>2. told' = [told EXCEPT ![n] = told'[n]]
    BY <1>2, <1>3, <1>5 DEF TypeOK
  <2>3. told' \in [Ids -> Telling \cup {Null}]
    BY <1>2, <1>6, <2>2 DEF TypeOK
  <2> QED
    BY <1>1, <1>2, <2>1, <2>3 DEF TypeOK
<1>10. MadeInv'
  <2>1. \A id \in Ids : told'[id] = Null <=> told[id] = Null
    BY <1>2, <1>3, <1>6
  <2> QED
    BY <1>1, <2>1 DEF ListingInv, MadeInv
<1>11. BornInv' /\ LiveInv' /\ DeletedStaysDeleted' /\ ProductHasStore'
  BY <1>1, <1>7 DEF ListingInv, BornInv, LiveInv, DeletedStaysDeleted, ProductHasStore, TrueTo
<1>12. CountersMatchLog'
  BY <1>1, <1>7, <1>8 DEF ListingInv, CountersMatchLog, Live
\* Only what this request says is not on its way any more.
<1>13. ASSUME NEW id \in Ids, NEW pc \in Tells, id # n \/ pc # own.pc, Unsaid(id, pc)
       PROVE  Unsaid(id, pc)'
  <2>1. task[t].pc # pc \/ task[t].id # id
    BY <1>13
  <2>2. <<id, pc>> \in untold => <<id, pc>> \in untold'
    BY <1>1, <1>13
  <2> QED
    BY <1>1, <1>2, <1>13, <2>1, <2>2, UnsaidPersists
<1>14. AnswersStand'
  <2> SUFFICES ASSUME NEW id \in Live, id \notin raced \cup disowned
               PROVE  /\ listing[id].status = told'[id].status \/ Unsaid(id, "notifying")'
                      /\ listing[id].text = told'[id].text \/ Unsaid(id, "answering")'
                      /\ listing[id].owner = born[id].owner
    BY <1>1, <1>7 DEF AnswersStand
  <2>1. /\ id \in Ids
        /\ listing[id].status = told[id].status \/ Unsaid(id, "notifying")
        /\ listing[id].text = told[id].text \/ Unsaid(id, "answering")
        /\ listing[id].owner = born[id].owner
    BY DEF ListingInv, AnswersStand, Live
  <2>2. CASE id # n
    BY <1>6, <1>13, <2>1, <2>2 DEF Tells
  <2>3. CASE id = n /\ own.pc = "answering"
    <3>1. listing[id].text = told'[id].text /\ told'[id].status = told[id].status
      BY <1>3, <1>6, <2>3 DEF Says
    <3> QED
      BY <1>13, <2>1, <2>3, <3>1 DEF Tells
  <2>4. CASE id = n /\ own.pc = "notifying"
    <3>1. listing[id].status = told'[id].status /\ told'[id].text = told[id].text
      BY <1>3, <1>6, <2>4 DEF Says
    <3> QED
      BY <1>13, <2>1, <2>4, <3>1 DEF Tells
  <2> QED
    BY <1>1, <2>2, <2>3, <2>4 DEF Tells
<1>15. \A other \in Task : Right(other) => Right(other)'
  BY <1>1 DEF Right
<1>16. ASSUME NEW s \in Tasks \ {t}, NEW other \in Task, other = task[s], Kept(other)
       PROVE  Kept(other)'
  <2>10. ASSUME other.pc \in Tells
         PROVE  Says(other.pc, other.id, other.row)'
    BY <1>1, <1>7, <1>16, <2>10 DEF Kept, Says
  <2> SUFFICES ASSUME other.pc \in {"saving", "deciding"}
               PROVE  /\ Sound(other.pc, other.id, other.row)'
                      /\ other.id \notin raced' => Current(other.pc, other.id, other.row)'
    BY <2>10 DEF Kept
  <2>1. /\ other.id \in Ids
        /\ Sound(other.pc, other.id, other.row)
        /\ other.id \notin raced => Current(other.pc, other.id, other.row)
    BY <1>16, CopiesAreMade
  <2>2. Visits(other.id)' = Visits(other.id)
    BY <1>8, <2>1
  <2>3. Sound(other.pc, other.id, other.row)'
    BY <1>1, <2>1, <2>2 DEF Sound, TrueTo
  <2>4. other.id = n => n \in raced
    BY <1>1, <1>16 DEF ListingInv, RaceInv, Writes, Clash
  <2>5. ASSUME other.id \notin raced
        PROVE  Current(other.pc, other.id, other.row)'
    <3>1. /\ told'[other.id] = told[other.id]
          /\ \A pc \in Tells : <<other.id, pc>> \in untold => <<other.id, pc>> \in untold'
      BY <1>1, <1>6, <2>1, <2>4, <2>5
    <3> QED
      BY <1>1, <1>7, <2>1, <2>2, <2>5, <3>1 DEF Current, Tells
  <2> QED
    BY <1>1, <2>3, <2>5
<1>17. task' \in [Tasks -> Task] /\ TaskInv' /\ CopyInv' /\ TellInv'
  <2>1. IdleTask \in Task /\ Right(IdleTask)' /\ Kept(IdleTask)'
    BY <1>1, <1>2, IdleIsRight
  <2> QED
    BY <1>1, <1>15, <1>16, <2>1, OneTask
<1>18. RaceInv'
  BY <1>1, IdlingKeepsRaces
<1> QED
  BY <1>9, <1>10, <1>11, <1>12, <1>14, <1>17, <1>18 DEF ListingInv

-----------------------------------------------------------------------------
(* The invariant. *)

LEMMA InitInv ==
    ASSUME StoreInit
    PROVE  ListingInv
<1> PICK rows \in Tables :
       /\ listing = [id \in Ids |-> IF id \in DOMAIN rows THEN rows[id] ELSE Null]
       /\ made = Cardinality(DOMAIN rows)
       /\ born = [id \in Ids |-> IF id \in DOMAIN rows THEN OriginOf(rows[id]) ELSE Null]
       /\ told = [id \in Ids |-> IF id \in DOMAIN rows THEN TellingOf(rows[id]) ELSE Null]
  BY DEF StoreInit
<1>1. PICK n \in 0 .. NumListings :
         /\ rows \in [1 .. n -> Row]
         /\ \A id \in 1 .. n : Fresh(rows[id]) /\ InOwnStore(rows, rows[id])
  BY ListingAssumption
<1>2. /\ suspended = {} /\ log = [id \in Ids |-> 0] /\ task = [t \in Tasks |-> IdleTask]
      /\ begun = 0 /\ untold = {} /\ raced = {} /\ disowned = {} /\ gone = {}
      /\ unlogged = [id \in Ids |-> 0]
  BY DEF StoreInit
<1>3. /\ NumListings \in Nat /\ Ids = 1 .. NumListings
      /\ Null \notin Row /\ Null \notin Origin /\ Null \notin Telling
  BY ListingAssumption DEF Ids
<1>4. made = n
  <2>1. DOMAIN rows = 1 .. n
    BY <1>1
  <2> QED
    BY <1>3, <2>1, FS_Interval
<1>5. \A id \in Ids : /\ id <= n => /\ listing[id] = rows[id] /\ born[id] = OriginOf(rows[id])
                                    /\ told[id] = TellingOf(rows[id])
                      /\ id > n => listing[id] = Null /\ born[id] = Null /\ told[id] = Null
  BY <1>1, <1>3
<1>6. \A id \in 1 .. n : /\ id \in Ids /\ rows[id] \in Row /\ Fresh(rows[id])
                         /\ OriginOf(rows[id]) \in Origin /\ TellingOf(rows[id]) \in Telling
  <2> SUFFICES ASSUME NEW id \in 1 .. n
               PROVE  /\ id \in Ids /\ rows[id] \in Row /\ Fresh(rows[id])
                      /\ OriginOf(rows[id]) \in Origin /\ TellingOf(rows[id]) \in Telling
    OBVIOUS
  <2>1. id \in Ids /\ rows[id] \in Row /\ Fresh(rows[id])
    BY <1>1, <1>3
  <2> QED
    BY <2>1 DEF Row, Fresh, OriginOf, TellingOf, Origin, Telling
<1>7. \A t \in Tasks : task[t] = IdleTask
  BY <1>2
<1>8. Live = 1 .. n
  BY <1>3, <1>5, <1>6 DEF Live
<1>9. TypeOK
  <2>1. \A id \in Ids : /\ listing[id] \in Row \cup {Null} /\ born[id] \in Origin \cup {Null}
                        /\ told[id] \in Telling \cup {Null}
    BY <1>3, <1>5, <1>6
  <2>2. /\ listing \in [Ids -> Row \cup {Null}] /\ born \in [Ids -> Origin \cup {Null}]
        /\ told \in [Ids -> Telling \cup {Null}]
    BY <2>1
  <2>3. IdleTask \in Task
    BY ListingAssumption DEF IdleTask, Task, TaskPcs
  <2> QED
    BY <1>2, <1>3, <1>4, <2>2, <2>3 DEF TypeOK
<1>10. \A id \in Ids : Visits(id) = 0
  <2> SUFFICES ASSUME NEW id \in Ids
               PROVE  Visits(id) = 0
    OBVIOUS
  <2>1. Logging(id) = {}
    BY <1>7 DEF Logging, IdleTask
  <2>2. Cardinality(Logging(id)) = 0
    BY <2>1, FS_EmptySet
  <2> QED
    BY <1>2, <2>2 DEF Visits
<1>11. CountersMatchLog /\ AnswersStand /\ DeletedStaysDeleted
  <2> SUFFICES ASSUME NEW id \in Live
               PROVE  /\ listing[id].count = 0 /\ Visits(id) = 0
                      /\ listing[id].status = told[id].status /\ listing[id].text = told[id].text
                      /\ listing[id].owner = born[id].owner
    BY <1>2 DEF CountersMatchLog, AnswersStand, DeletedStaysDeleted
  <2>1. /\ id \in Ids /\ id \in 1 .. n /\ listing[id] = rows[id]
        /\ born[id] = OriginOf(rows[id]) /\ told[id] = TellingOf(rows[id])
    BY <1>1, <1>3, <1>5, <1>6, <1>8
  <2> QED
    BY <1>6, <1>10, <2>1 DEF Fresh, OriginOf, TellingOf
<1>12. MadeInv
  <2>1. \A id \in Ids : id <= n => /\ listing[id] # Null /\ born[id] # Null /\ told[id] # Null
    BY <1>1, <1>3, <1>5, <1>6
  <2> QED
    BY <1>2, <1>4, <1>5, <2>1 DEF MadeInv
<1>13. ASSUME NEW id \in 1 .. n
       PROVE  IF rows[id].kind = "product"
              THEN /\ rows[id].store \in 1 .. n /\ rows[rows[id].store].kind = "store"
                   /\ rows[rows[id].store].owner = rows[id].owner
              ELSE rows[id].store = 0
  BY <1>1 DEF InOwnStore
<1>14. BornInv
  <2> SUFFICES ASSUME NEW id \in Ids, born[id] # Null
               PROVE  IF born[id].kind = "product"
                      THEN /\ born[id].store \in 1 .. made
                           /\ born[born[id].store].kind = "store"
                           /\ born[born[id].store].owner = born[id].owner
                      ELSE born[id].store = 0
    BY DEF BornInv
  <2>1. id \in 1 .. n /\ born[id] = OriginOf(rows[id])
    BY <1>1, <1>3, <1>5
  <2>2. born[id].kind = rows[id].kind /\ born[id].owner = rows[id].owner
        /\ born[id].store = rows[id].store
    BY <2>1 DEF OriginOf
  <2>3. \A i \in 1 .. n : born[i].kind = rows[i].kind /\ born[i].owner = rows[i].owner
    BY <1>1, <1>3, <1>5, <1>6 DEF OriginOf
  <2> QED
    BY <1>4, <1>13, <2>1, <2>2, <2>3
<1>15. LiveInv
  <2> SUFFICES ASSUME NEW id \in Live
               PROVE  TrueTo(id, listing[id]) /\ (listing[id].kind = "product" => listing[id].store \in Live)
    BY DEF LiveInv
  <2>1. id \in 1 .. n /\ listing[id] = rows[id] /\ born[id] = OriginOf(rows[id])
    BY <1>1, <1>3, <1>5, <1>8
  <2> QED
    BY <1>8, <1>13, <2>1 DEF TrueTo, OriginOf
<1>16. \A t \in Tasks : task[t].pc = "idle" /\ task[t].id = 0 /\ task[t].row = Null
  BY <1>7 DEF IdleTask
<1>17. TaskInv /\ CopyInv /\ TellInv /\ RaceInv
  BY <1>1, <1>3, <1>4, <1>16 DEF TaskInv, CopyInv, TellInv, RaceInv, At, Copies, Writes, Tells, Clash
<1>18. ProductHasStore
  BY <1>1, <1>3, <1>5, <1>8, <1>13 DEF ProductHasStore
<1> QED
  BY <1>9, <1>11, <1>12, <1>14, <1>15, <1>17, <1>18 DEF ListingInv

LEMMA RequestKeeps ==
    ASSUME ListingInv, NEW t \in Tasks, Request(t)
    PROVE  ListingInv'
<1>1. MayBegin(t)
  BY DEF Request
<1>2. ASSUME NEW u \in Users, ServiceController(t, u)
      PROVE  ListingInv'
  BY <1>1, <1>2, CreateKeeps, EditKeeps, FindsOnly
     DEF ServiceController, CreateService, UpdateService, DeleteService, TrackService,
         Discard, Visit, Owns, Kinds
<1>3. ASSUME NEW u \in Users, StoreController(t, u)
      PROVE  ListingInv'
  BY <1>1, <1>3, CreateKeeps, EditKeeps, FindsOnly
     DEF StoreController, CreateStore, UpdateStore, DeleteStore, TrackStore,
         Discard, Visit, Owns, Kinds
<1>4. ASSUME NEW u \in Users, ProductController(t, u)
      PROVE  ListingInv'
  BY <1>4, CreateProductKeeps, EditKeeps, FindsOnly
     DEF ProductController, UpdateProduct, DeleteProduct, TrackProduct,
         Discard, Visit, Owns, Kinds
<1>5. ASSUME NEW u \in Users, DriverJobController(t, u)
      PROVE  ListingInv'
  BY <1>1, <1>5, CreateKeeps, EditKeeps, FindsOnly
     DEF DriverJobController, CreateDriverJob, UpdateDriverJob, DeleteDriverJob, TrackDriverJob,
         Discard, Visit, Owns, Kinds
<1>6. ASSUME NEW u \in Users, DriverProfileController(t, u)
      PROVE  ListingInv'
  BY <1>1, <1>6, CreateKeeps, EditKeeps, FindsOnly
     DEF DriverProfileController, CreateDriverProfile, UpdateDriverProfile,
         DeleteDriverProfile, TrackDriverProfile, Discard, Visit, Owns, Kinds
<1>7. ASSUME ServiceApproval(t)
      PROVE  ListingInv'
  BY <1>7, DecideKeeps DEF ServiceApproval, ApproveService, RejectService, Statuses
<1> QED
  BY <1>2, <1>3, <1>4, <1>5, <1>6, <1>7 DEF Request

LEMMA StepKeeps ==
    ASSUME ListingInv, NEW t \in Tasks, Step(t)
    PROVE  ListingInv'
BY SaveKeeps, TellKeeps, RemoveKeeps, InsertProductKeeps, RefuseKeeps, IncrementKeeps, LogEventKeeps,
   FailsKeeps DEF Step

LEMMA ListingNextInv ==
    ASSUME ListingInv, [Next]_vars
    PROVE  ListingInv'
<1>1. CASE Change
  BY <1>1, RequestKeeps, StepKeeps, AccountKeeps, StopKeeps DEF Change
<1>2. CASE UNCHANGED storeVars
  BY <1>2, SameTasksKeep DEF storeVars, tables, history, ListingInv, TypeOK
<1> QED
  BY <1>1, <1>2 DEF Next, Read, Open, NextPage, vars


-----------------------------------------------------------------------------
(* A list in pages.  Counted from the newest, every row has a place of its *)
(* own, and the places of a list have no gap, so a page that rows follow   *)
(* is full.                                                                *)

Place(ids, id) == Cardinality({i \in ids : i > id})

LEMMA IdsAreNumbers == Ids \subseteq Nat
<1>1. NumListings \in Nat
  BY ListingAssumption
<1> QED
  BY <1>1 DEF Ids

LEMMA IdsAreFinite ==
    ASSUME NEW ids \in SUBSET Ids
    PROVE  IsFiniteSet(ids) /\ Cardinality(ids) \in Nat
<1>1. IsFiniteSet(Ids)
  BY FS_Interval, ListingAssumption DEF Ids
<1>2. IsFiniteSet(ids)
  BY <1>1, FS_Subset
<1> QED
  BY <1>2, FS_CardinalityType

LEMMA MoreIds ==
    ASSUME NEW more \in SUBSET Ids, NEW ids \in SUBSET more
    PROVE  Cardinality(ids) \in Nat /\ Cardinality(more) \in Nat
           /\ Cardinality(ids) <= Cardinality(more)
<1>1. IsFiniteSet(more) /\ Cardinality(more) \in Nat /\ Cardinality(ids) \in Nat
  BY IdsAreFinite
<1> QED
  BY <1>1, FS_Subset

\* A row comes after every newer one.
LEMMA PlacesAreOrdered ==
    ASSUME NEW ids \in SUBSET Ids, NEW i \in ids, NEW j \in ids, i < j
    PROVE  Place(ids, j) < Place(ids, i)
<1> DEFINE later == {k \in ids : k > j}
           before == {k \in ids : k > i}
<1>1. later \subseteq before /\ j \in before /\ j \notin later /\ before \subseteq Ids
  <2>1. \A k \in ids : k \in Int
    BY IdsAreNumbers
  <2>2. \A k \in ids : k > j => k > i
    BY <2>1
  <2> QED
    BY <2>1, <2>2
<1>2. later \cup {j} \in SUBSET before /\ before \in SUBSET Ids /\ later \in SUBSET Ids
  BY <1>1
<1> HIDE DEF later, before
<1>3. Cardinality(later \cup {j}) = Cardinality(later) + 1
  <2>1. IsFiniteSet(later) /\ j \notin later
    BY <1>1, <1>2, IdsAreFinite
  <2> QED
    BY <2>1, FS_AddElement
<1>4. Cardinality(later \cup {j}) <= Cardinality(before)
  BY <1>2, MoreIds
<1>5. Cardinality(later) \in Nat /\ Cardinality(before) \in Nat
  BY <1>2, IdsAreFinite
<1>6. Cardinality(later) < Cardinality(before)
  BY <1>3, <1>4, <1>5
<1> QED
  BY <1>6 DEF Place, later, before

LEMMA PlacesAreInList ==
    ASSUME NEW ids \in SUBSET Ids, NEW id \in ids
    PROVE  Place(ids, id) \in 0 .. Cardinality(ids) - 1
<1> DEFINE before == {k \in ids : k > id}
<1>1. id \notin before /\ before \cup {id} \in SUBSET ids /\ before \in SUBSET Ids
  <2>1. id \in Int
    BY IdsAreNumbers
  <2>2. ~(id > id)
    BY <2>1
  <2> QED
    BY <2>2
<1> HIDE DEF before
<1>2. Cardinality(before \cup {id}) = Cardinality(before) + 1
  <2>1. IsFiniteSet(before) /\ id \notin before
    BY <1>1, IdsAreFinite
  <2> QED
    BY <2>1, FS_AddElement
<1>3. Cardinality(before \cup {id}) <= Cardinality(ids) /\ Cardinality(ids) \in Nat
  BY <1>1, MoreIds
<1>4. Cardinality(before) \in Nat
  BY <1>1, IdsAreFinite
<1>5. Cardinality(before) \in 0 .. Cardinality(ids) - 1
  BY <1>2, <1>3, <1>4
<1> QED
  BY <1>5 DEF Place, before

\* Every place of a list is taken.
LEMMA PlacesAreTaken ==
    ASSUME NEW ids \in SUBSET Ids, NEW place \in 0 .. Cardinality(ids) - 1
    PROVE  \E id \in ids : Place(ids, id) = place
<1> DEFINE places == 0 .. Cardinality(ids) - 1
           f == [id \in ids |-> Place(ids, id)]
<1>1. IsFiniteSet(ids) /\ Cardinality(ids) \in Nat
  BY IdsAreFinite
<1>2. IsFiniteSet(places) /\ Cardinality(places) = Cardinality(ids)
  BY <1>1, FS_Interval
<1>3. f \in [ids -> places]
  BY PlacesAreInList
<1>4. \A i, j \in ids : f[i] = f[j] => i = j
  <2> SUFFICES ASSUME NEW i \in ids, NEW j \in ids, i # j
               PROVE  f[i] # f[j]
    OBVIOUS
  <2>1. i < j \/ j < i
    BY IdsAreNumbers
  <2>2. f[i] \in Int /\ f[j] \in Int
    BY <1>1, PlacesAreInList
  <2> QED
    BY <2>1, <2>2, PlacesAreOrdered
<1>5. f \in Injection(ids, places)
  BY <1>3, <1>4 DEF Injection, IsInjective
<1>6. f \in Surjection(ids, places)
  BY <1>1, <1>2, <1>5, FS_Injection
<1>7. \E id \in ids : f[id] = place
  BY <1>6 DEF Surjection
<1> QED
  BY <1>7

\* A page that rows follow is full.
LEMMA PageIsFull ==
    ASSUME NEW ids \in SUBSET Ids, NEW page \in Nat, page > 0,
           NEW id \in ids, Place(ids, id) >= page * PageLimit
    PROVE  Cardinality(Page(ids, page)) >= PageLimit
<1> PICK seen \in Nat : seen = (page - 1) * PageLimit
  BY PageAssumption
<1> PICK last \in Nat : last = page * PageLimit
  BY PageAssumption
<1>1. last = seen + PageLimit /\ PageLimit \in Nat \ {0}
  BY PageAssumption
<1> DEFINE on == Page(ids, page)
           places == seen .. last - 1
           f == [i \in on |-> Place(ids, i)]
<1>2. on = {i \in ids : Place(ids, i) \in places}
  BY DEF Page, Place
<1>3. on \in SUBSET Ids /\ f \in [on -> places]
  BY <1>2
<1>4. \A place \in places : \E i \in on : f[i] = place
  <2> SUFFICES ASSUME NEW place \in places
               PROVE  \E i \in on : f[i] = place
    OBVIOUS
  <2>1. place \in 0 .. Cardinality(ids) - 1
    <3>1. Place(ids, id) \in 0 .. Cardinality(ids) - 1 /\ Place(ids, id) >= last
      BY PlacesAreInList
    <3>2. Cardinality(ids) \in Nat
      BY IdsAreFinite
    <3> QED
      BY <3>1, <3>2
  <2>2. PICK i \in ids : Place(ids, i) = place
    BY <2>1, PlacesAreTaken
  <2> QED
    BY <1>2, <2>2
<1>5. f \in Surjection(on, places)
  BY <1>3, <1>4 DEF Surjection
<1>6. IsFiniteSet(on) /\ Cardinality(on) \in Nat
  BY <1>3, IdsAreFinite
<1>7. Cardinality(places) <= Cardinality(on)
  BY <1>5, <1>6, FS_Surjection
<1>8. Cardinality(places) = PageLimit
  BY <1>1, FS_Interval
<1> QED
  BY <1>7, <1>8

-----------------------------------------------------------------------------
(* The reader.  While its list only grows, what it has still to see moves  *)
(* away from the newest, never towards it.                                 *)

LEMMA ChangeKeeps ==
    ASSUME ListingInv, Change
    PROVE  ListingInv'
BY RequestKeeps, StepKeeps, AccountKeeps, StopKeeps DEF Change

LEMMA RequestBorn ==
    ASSUME NEW t \in Tasks, Request(t)
    PROVE  born' = born \/ \E row : born' = [born EXCEPT ![made + 1] = OriginOf(row)]
<1>1. ASSUME NEW u \in Users, NEW type, NEW kind, NEW text, Create(u, type, kind, text)
      PROVE  \E row : born' = [born EXCEPT ![made + 1] = OriginOf(row)]
  BY <1>1 DEF Create, Inserts
<1>2. ASSUME NEW u \in Users, NEW kind, NEW id, NEW text, Edit(t, u, kind, id, text)
      PROVE  born' = born
  BY <1>2 DEF Edit
<1>3. ASSUME NEW u \in Users, NEW kind, NEW id, Discard(t, u, kind, id)
      PROVE  born' = born
  BY <1>3 DEF Discard
<1>4. ASSUME NEW kind, NEW id, Visit(t, kind, id)
      PROVE  born' = born
  BY <1>4 DEF Visit
<1>5. ASSUME NEW u \in Users, NEW text, CreateProduct(t, u, text)
      PROVE  born' = born
  BY <1>5 DEF CreateProduct, history
<1>6. ASSUME NEW id, NEW status, Decide(t, id, status)
      PROVE  born' = born
  BY <1>6 DEF Decide
<1>7. ASSUME NEW u \in Users, ServiceController(t, u) \/ StoreController(t, u)
      PROVE  born' = born \/ \E row : born' = [born EXCEPT ![made + 1] = OriginOf(row)]
  BY <1>1, <1>2, <1>3, <1>4, <1>7 DEF ServiceController, CreateService, UpdateService,
     DeleteService, TrackService, StoreController, CreateStore, UpdateStore, DeleteStore, TrackStore
<1>8. ASSUME NEW u \in Users, ProductController(t, u) \/ DriverJobController(t, u)
      PROVE  born' = born \/ \E row : born' = [born EXCEPT ![made + 1] = OriginOf(row)]
  BY <1>1, <1>2, <1>3, <1>4, <1>5, <1>8 DEF ProductController, UpdateProduct, DeleteProduct,
     TrackProduct, DriverJobController, CreateDriverJob, UpdateDriverJob, DeleteDriverJob,
     TrackDriverJob
<1>9. ASSUME NEW u \in Users, DriverProfileController(t, u)
      PROVE  born' = born \/ \E row : born' = [born EXCEPT ![made + 1] = OriginOf(row)]
  BY <1>1, <1>2, <1>3, <1>4, <1>9 DEF DriverProfileController, CreateDriverProfile,
     UpdateDriverProfile, DeleteDriverProfile, TrackDriverProfile
<1>10. ASSUME ServiceApproval(t)
       PROVE  born' = born
  BY <1>6, <1>10 DEF ServiceApproval, ApproveService, RejectService
<1> QED
  BY <1>7, <1>8, <1>9, <1>10 DEF Request

LEMMA BornStays ==
    ASSUME ListingInv, Change, NEW id \in Live
    PROVE  born'[id] = born[id]
<1>1. born' = born \/ \E row : born' = [born EXCEPT ![made + 1] = OriginOf(row)]
  <2>1. ASSUME NEW t \in Tasks, Step(t)
        PROVE  born' = born \/ \E row : born' = [born EXCEPT ![made + 1] = OriginOf(row)]
    BY <2>1 DEF Step, Save, Tell, Remove, InsertProduct, Inserts, Refuse, Increment, LogEvent, Fails, history
  <2>2. ASSUME NEW u \in Users, Account(u)
        PROVE  born' = born
    BY <2>2 DEF Account, Suspend, Reactivate, history
  <2>3. Stop => born' = born
    BY DEF Stop
  <2> QED
    BY <2>1, <2>2, <2>3, RequestBorn DEF Change
<1>2. id \in Int /\ made \in Int /\ id <= made
  <2>1. NumListings \in Nat
    BY ListingAssumption
  <2>2. id \in Int /\ made \in Int
    BY <2>1, IdsAreNumbers DEF ListingInv, TypeOK, Live
  <2> QED
    BY <2>2 DEF ListingInv, MadeInv, Live
<1>3. born \in [Ids -> Origin \cup {Null}] /\ id # made + 1 /\ id \in Ids
  BY <1>2 DEF ListingInv, TypeOK, Live
<1> QED
  BY <1>1, <1>3

LEMMA KindStays ==
    ASSUME ListingInv, Change, NEW id \in Live, id \in Live'
    PROVE  listing'[id].kind = listing[id].kind
<1>1. ListingInv'
  BY ChangeKeeps
<1>2. listing[id].kind = born[id].kind
  BY DEF ListingInv, LiveInv, TrueTo
<1>3. listing'[id].kind = born'[id].kind
  BY <1>1 DEF ListingInv, LiveInv, TrueTo
<1> QED
  BY <1>2, <1>3, BornStays

LEMMA RowsAreIds ==
    ASSUME NEW q
    PROVE  Rows(q) \subseteq OfKinds(q) /\ OfKinds(q) \subseteq Live /\ Live \subseteq Ids
BY DEF Rows, OfKinds, Live

\* As a list grows, what comes before a row grows.
LEMMA BeforeGrows ==
    ASSUME ListingInv, Change, NEW ids \in SUBSET Live, NEW more \in SUBSET Live', ids \subseteq more,
           NEW id \in ids
    PROVE  Cardinality({i \in ids : listing[i].kind = listing[id].kind /\ i > id})
              <= Cardinality({i \in more : listing'[i].kind = listing'[id].kind /\ i > id})
<1> PICK few : few = {i \in ids : listing[i].kind = listing[id].kind /\ i > id}
  OBVIOUS
<1> PICK many : many = {i \in more : listing'[i].kind = listing'[id].kind /\ i > id}
  OBVIOUS
<1>1. \A i \in ids : listing'[i].kind = listing[i].kind
  BY KindStays
<1>2. few \in SUBSET many
  BY <1>1
<1>3. many \in SUBSET Ids
  BY DEF Live
<1> QED
  BY <1>2, <1>3, MoreIds

LEMMA WatchedKeeps ==
    ASSUME ListingInv, WalkInv, Change, Watched
    PROVE  WalkInv'
<1> PICK q : q = reader.query
  OBVIOUS
<1> PICK missing : missing = reader.missing
  OBVIOUS
<1> PICK page : page = reader.page
  OBVIOUS
<1>1. reader \in Reader /\ ListingInv'
  BY ChangeKeeps DEF WalkInv
<1>2. CASE page = 0
  <2>1. reader' = reader
    BY <1>2 DEF Watched
  <2> QED
    BY <1>2, <2>1 DEF WalkInv, WalkMissesNothing
<1>3. CASE page # 0
  <2>1. PICK quiet \in BOOLEAN : /\ reader' = [reader EXCEPT !.quiet = quiet]
                                 /\ quiet <=> reader.quiet /\ Stays(q)
    BY <1>1, <1>3 DEF Watched, Reader
  <2>2. /\ reader' \in Reader /\ reader'.query = q /\ reader'.missing = missing
        /\ reader'.page = page /\ reader'.quiet = quiet
    BY <1>1, <2>1 DEF Reader
  <2>3. WalkMissesNothing'
    BY <1>3, <2>2 DEF WalkMissesNothing
  <2>4. q.by # 0 => \E kind \in Kinds : q.kinds = {kind}
    BY DEF WalkInv
  <2>5. ASSUME quiet
        PROVE  /\ missing \subseteq Rows(q)'
               /\ \A id \in missing :
                     /\ Cardinality(Before(OfKinds(q), id)') >= Seen
                     /\ \/ Cardinality(Before(Rows(q), id)') >= Seen
                        \/ q.by # 0 /\ Cardinality({i \in Rows(q)' : i <= id}) < Enough
    <3>1. Stays(q) /\ reader.quiet /\ page > 0
      BY <1>1, <1>3, <2>1, <2>5 DEF Reader
    <3>2. Rows(q) \subseteq Rows(q)' /\ OfKinds(q) \subseteq OfKinds(q)'
      BY <3>1 DEF Stays
    <3>3. q.by # 0 => \A id \in Rows(q)' \ Rows(q), unseen \in missing : id > unseen
      BY <3>1 DEF Stays
    <3>4. missing \subseteq Rows(q)
      BY <3>1 DEF WalkInv
    <3> SUFFICES ASSUME NEW id \in missing
                 PROVE  /\ Cardinality(Before(OfKinds(q), id)') >= Seen
                        /\ \/ Cardinality(Before(Rows(q), id)') >= Seen
                           \/ q.by # 0 /\ Cardinality({i \in Rows(q)' : i <= id}) < Enough
      BY <3>2, <3>4
    <3>5. /\ Cardinality(Before(OfKinds(q), id)) >= Seen
          /\ \/ Cardinality(Before(Rows(q), id)) >= Seen
             \/ q.by # 0 /\ Cardinality({i \in Rows(q) : i <= id}) < Enough
      BY <3>1 DEF WalkInv
    <3>6. /\ OfKinds(q) \in SUBSET Live /\ Rows(q) \in SUBSET Live
          /\ OfKinds(q)' \in SUBSET Live' /\ Rows(q)' \in SUBSET Live'
          /\ id \in OfKinds(q) /\ id \in Rows(q)
      BY <3>4, RowsAreIds DEF Rows, OfKinds
    <3>7. Cardinality(Before(OfKinds(q), id)) <= Cardinality(Before(OfKinds(q), id)')
      <4>1. PICK ids : ids = OfKinds(q)
        OBVIOUS
      <4>2. PICK more : more = OfKinds(q)'
        OBVIOUS
      <4>3. ids \in SUBSET Live /\ more \in SUBSET Live' /\ ids \subseteq more /\ id \in ids
        BY <3>2, <3>6, <4>1, <4>2
      <4>4. Cardinality({i \in ids : listing[i].kind = listing[id].kind /\ i > id})
               <= Cardinality({i \in more : listing'[i].kind = listing'[id].kind /\ i > id})
        BY <4>3, BeforeGrows
      <4>5. Before(OfKinds(q), id) = {i \in ids : listing[i].kind = listing[id].kind /\ i > id}
        BY <4>1 DEF Before, OfKind
      <4>6. Before(OfKinds(q), id)'
               = {i \in more : listing'[i].kind = listing'[id].kind /\ i > id}
        BY <4>2 DEF Before, OfKind
      <4> QED
        BY <4>4, <4>5, <4>6
    <3>8. Cardinality(Before(Rows(q), id)) <= Cardinality(Before(Rows(q), id)')
      <4>1. PICK ids : ids = Rows(q)
        OBVIOUS
      <4>2. PICK more : more = Rows(q)'
        OBVIOUS
      <4>3. ids \in SUBSET Live /\ more \in SUBSET Live' /\ ids \subseteq more /\ id \in ids
        BY <3>2, <3>6, <4>1, <4>2
      <4>4. Cardinality({i \in ids : listing[i].kind = listing[id].kind /\ i > id})
               <= Cardinality({i \in more : listing'[i].kind = listing'[id].kind /\ i > id})
        BY <4>3, BeforeGrows
      <4>5. Before(Rows(q), id) = {i \in ids : listing[i].kind = listing[id].kind /\ i > id}
        BY <4>1 DEF Before, OfKind
      <4>6. Before(Rows(q), id)'
               = {i \in more : listing'[i].kind = listing'[id].kind /\ i > id}
        BY <4>2 DEF Before, OfKind
      <4> QED
        BY <4>4, <4>5, <4>6
    <3>9. q.by # 0 => {i \in Rows(q)' : i <= id} = {i \in Rows(q) : i <= id}
      <4> SUFFICES ASSUME q.by # 0, NEW i \in Rows(q)', i <= id
                   PROVE  i \in Rows(q)
        BY <3>2
      <4>3. i \in Ids /\ id \in Ids
        BY <3>6 DEF Live
      <4>1. i \in Int /\ id \in Int
        BY <4>3, IdsAreNumbers
      <4>2. ~(i > id)
        BY <4>1
      <4> QED
        BY <3>3, <4>2
    <3>10. /\ Cardinality(Before(OfKinds(q), id)) \in Int /\ Cardinality(Before(Rows(q), id)) \in Int
           /\ Cardinality(Before(OfKinds(q), id)') \in Int /\ Cardinality(Before(Rows(q), id)') \in Int
      <4>1. /\ Before(OfKinds(q), id) \in SUBSET Ids /\ Before(Rows(q), id) \in SUBSET Ids
            /\ Before(OfKinds(q), id)' \in SUBSET Ids /\ Before(Rows(q), id)' \in SUBSET Ids
        BY <3>6 DEF Before, OfKind, Live
      <4> QED
        BY <4>1, IdsAreFinite
    <3>11. Seen \in Int
      BY <1>1, PageAssumption DEF Reader, Seen
    <3> QED
      BY <3>5, <3>7, <3>8, <3>9, <3>10, <3>11
  <2>6. Seen' = Seen
    BY <2>2 DEF Seen
  <2> QED
    BY <2>2, <2>3, <2>4, <2>5, <2>6 DEF WalkInv
<1> QED
  BY <1>2, <1>3

\* A query of a match names one kind.
LEMMA QueriesAreTyped ==
    ASSUME NEW q, (\E u \in Users : q \in OwnLists(u)) \/ q \in Dashboard \cup AdminLists
    PROVE  q \in Query /\ (q.by # 0 => \E kind \in Kinds : q.kinds = {kind})
<1>1. ASSUME NEW kinds \in SUBSET Kinds
      PROVE  /\ \A u \in Users : LET own == [AllOf(kinds) EXCEPT !.user = u]
                                 IN  own \in Query /\ own.by = 0
             /\ \A u \in Users, id \in Ids :
                   LET match == [AllOf(kinds) EXCEPT !.user = u, !.by = id]
                   IN  match \in Query /\ match.kinds = kinds
  BY DEF AllOf, Query
<1>2. ASSUME NEW u \in Users, q \in OwnLists(u)
      PROVE  q \in Query /\ (q.by # 0 => \E kind \in Kinds : q.kinds = {kind})
  <2>1. ASSUME NEW type, NEW kind \in Kinds, q \in Mine(u, type, kind)
        PROVE  q \in Query /\ q.by = 0
    <3>1. q = [AllOf({kind}) EXCEPT !.user = u]
      BY <2>1 DEF Mine
    <3>2. {kind} \in SUBSET Kinds
      OBVIOUS
    <3> QED
      BY <1>1, <3>1, <3>2
  <2>2. ASSUME NEW kind \in Kinds, NEW id \in Ids, q = [AllOf({kind}) EXCEPT !.user = u, !.by = id]
        PROVE  q \in Query /\ q.kinds = {kind}
    <3>1. {kind} \in SUBSET Kinds
      OBVIOUS
    <3> QED
      BY <1>1, <2>2, <3>1
  <2>3. "profile" \in Kinds /\ "job" \in Kinds /\ "service" \in Kinds /\ "store" \in Kinds
        /\ "product" \in Kinds
    BY DEF Kinds
  <2>4. CASE q \in ServicesOf(u) \cup StoresListedOf(u) \cup ProductsOf(u) \cup DriverJobsOf(u)
               \cup DriverProfilesOf(u)
    BY <2>1, <2>3, <2>4 DEF ServicesOf, StoresListedOf, ProductsOf, DriverJobsOf, DriverProfilesOf
  <2>5. CASE q \in MatchedDrivers(u)
    <3>1. \E id \in Ids : q = [AllOf({"profile"}) EXCEPT !.user = u, !.by = id]
      BY <2>5 DEF MatchedDrivers
    <3> QED
      BY <2>2, <2>3, <3>1
  <2>6. CASE q \in MatchedJobs(u)
    <3>1. \E id \in Ids : q = [AllOf({"job"}) EXCEPT !.user = u, !.by = id]
      BY <2>6 DEF MatchedJobs
    <3> QED
      BY <2>2, <2>3, <3>1
  <2> QED
    BY <1>2, <2>4, <2>5, <2>6 DEF OwnLists
<1>4. \A kinds \in SUBSET Kinds : AllOf(kinds) \in Query /\ AllOf(kinds).by = 0
  BY DEF AllOf, Query
<1>5. \A kinds \in SUBSET Kinds, status \in Statuses \cup {Null} :
         /\ [AllOf(kinds) EXCEPT !.status = status] \in Query
         /\ [AllOf(kinds) EXCEPT !.status = status].by = 0
  BY DEF AllOf, Query
<1>3. ASSUME q \in Dashboard \cup AdminLists
      PROVE  q \in Query /\ q.by = 0
  <2>1. {"service"} \in SUBSET Kinds /\ {"store"} \in SUBSET Kinds /\ {"product"} \in SUBSET Kinds
        /\ {"job"} \in SUBSET Kinds /\ {"profile"} \in SUBSET Kinds
        /\ {"product", "store"} \in SUBSET Kinds
    BY DEF Kinds
  <2>2. CASE q \in Dashboard \cup ServicesWithStatus \cup AdminProducts \cup AdminStores
    <3>1. \/ q = AllOf({"service"}) \/ q = AllOf({"store"}) \/ q = AllOf({"product"})
          \/ q = AllOf({"job"}) \/ q = AllOf({"profile"}) \/ q = AllOf({"product", "store"})
      BY <2>2 DEF Dashboard, Search, DashboardStores, DashboardServices, DashboardDrivers,
         DashboardJobs, DashboardProducts, ServicesWithStatus, AdminProducts, AdminStores
    <3> QED
      BY <1>4, <2>1, <3>1
  <2>3. CASE q \in PendingServices \cup AdminServices
    <3>1. \E status \in Statuses \cup {Null} : q = [AllOf({"service"}) EXCEPT !.status = status]
      BY <2>3 DEF PendingServices, AdminServices, Statuses
    <3> QED
      BY <1>5, <2>1, <3>1
  <2> QED
    BY <1>3, <2>2, <2>3 DEF AdminLists
<1> QED
  BY <1>2, <1>3

LEMMA OpenKeeps ==
    ASSUME WalkInv, NEW q, Open(q),
           (\E u \in Users : q \in OwnLists(u)) \/ q \in Dashboard \cup AdminLists
    PROVE  WalkInv'
<1>1. q \in Query /\ (q.by # 0 => \E kind \in Kinds : q.kinds = {kind})
  BY QueriesAreTyped
<1> PICK missing : missing = Rows(q)
  OBVIOUS
<1>2. reader' = [query |-> q, page |-> 1, missing |-> missing, quiet |-> TRUE]
  BY DEF Open
<1>3. missing \subseteq Ids
  BY RowsAreIds
<1>4. reader' \in Reader
  BY <1>1, <1>2, <1>3 DEF Reader
<1>5. Rows(q)' = missing
  BY DEF Open, storeVars, tables, Rows, OfKinds, Loaded, Live, Fits
<1>6. Seen' = 0
  BY <1>2, PageAssumption DEF Seen
<1>7. ASSUME NEW id
      PROVE  Cardinality(Before(OfKinds(q), id)') >= 0 /\ Cardinality(Before(Rows(q), id)') >= 0
  <2>1. Before(OfKinds(q), id)' \in SUBSET Ids /\ Before(Rows(q), id)' \in SUBSET Ids
    BY DEF Before, OfKind, OfKinds, Rows, Live
  <2> QED
    BY <2>1, IdsAreFinite
<1>8. WalkMissesNothing'
  BY <1>2 DEF WalkMissesNothing
<1> QED
  BY <1>1, <1>2, <1>4, <1>5, <1>6, <1>7, <1>8 DEF WalkInv

-----------------------------------------------------------------------------
(* Opening a page.                                                         *)

LEMMA PagesCover ==
    ASSUME NEW n \in Nat, NEW page \in Nat, n > page * PageLimit
    PROVE  page < (n + PageLimit - 1) \div PageLimit
<1> PICK limit : limit = PageLimit
  OBVIOUS
<1> PICK pages : pages = (n + limit - 1) \div limit
  OBVIOUS
<1>1. limit \in Nat \ {0}
  BY PageAssumption
<1>2. pages \in Int /\ n + limit - 1 < limit * pages + limit
  BY <1>1
<1>3. n - 1 < limit * pages /\ limit * page = page * limit
  BY <1>1, <1>2
<1>4. limit * page < limit * pages
  BY <1>1, <1>2, <1>3
<1>5. page < pages
  BY <1>1, <1>2, <1>4
<1> QED
  BY <1>5

\* A row at or past a page that is not on it is past it.
LEMMA PastThePage ==
    ASSUME NEW ids \in SUBSET Ids, NEW page \in Nat, page > 0,
           NEW id \in ids, id \notin Page(ids, page), Place(ids, id) >= (page - 1) * PageLimit
    PROVE  Place(ids, id) >= page * PageLimit
<1> PICK seen \in Nat : seen = (page - 1) * PageLimit
  BY PageAssumption
<1> PICK last \in Nat : last = page * PageLimit
  BY PageAssumption
<1>1. Place(ids, id) \in Nat
  BY IdsAreFinite DEF Place
<1>2. Place(ids, id) \notin seen .. last - 1
  BY DEF Page, Place
<1> QED
  BY <1>1, <1>2

LEMMA LaterPlaces ==
    ASSUME NEW ids \in SUBSET Ids, NEW i \in ids, NEW id \in ids
    PROVE  /\ Place(ids, i) \in Nat /\ Place(ids, id) \in Nat
           /\ i <= id => Place(ids, id) <= Place(ids, i)
           /\ ~(i <= id) => Place(ids, i) < Place(ids, id)
<1>1. i \in Int /\ id \in Int
  BY IdsAreNumbers
<1>2. Place(ids, i) \in Nat /\ Place(ids, id) \in Nat
  BY IdsAreFinite DEF Place
<1>3. i < id => Place(ids, id) < Place(ids, i)
  BY PlacesAreOrdered
<1>4. id < i => Place(ids, i) < Place(ids, id)
  BY PlacesAreOrdered
<1> QED
  BY <1>1, <1>2, <1>3, <1>4

\* What is on a page after a row that should have been before it is older than the row.
LEMMA OlderRows ==
    ASSUME NEW ids \in SUBSET Ids, NEW page \in Nat, page > 0,
           NEW id \in ids, Place(ids, id) < (page - 1) * PageLimit
    PROVE  Cardinality(Page(ids, page)) <= Cardinality({i \in ids : i <= id})
<1> PICK seen \in Nat : seen = (page - 1) * PageLimit
  BY PageAssumption
<1> PICK older : older = {i \in ids : i <= id}
  OBVIOUS
<1>1. \A i \in Page(ids, page) : i \in ids /\ Place(ids, i) >= seen
  BY DEF Page, Place
<1>2. \A i \in Page(ids, page) : i <= id
  <2> SUFFICES ASSUME NEW i \in Page(ids, page), ~(i <= id)
               PROVE  FALSE
    OBVIOUS
  <2>1. i \in ids /\ Place(ids, i) >= seen /\ Place(ids, id) < seen
    BY <1>1
  <2>2. Place(ids, i) < Place(ids, id) /\ Place(ids, i) \in Nat /\ Place(ids, id) \in Nat
    BY <2>1, LaterPlaces
  <2> QED
    BY <2>1, <2>2
<1>3. Page(ids, page) \in SUBSET older /\ older \in SUBSET Ids
  BY <1>1, <1>2
<1> QED
  BY <1>3, MoreIds

\* The rows from a row on a page that is not full to the oldest are on that page.
LEMMA LastRows ==
    ASSUME NEW ids \in SUBSET Ids, NEW page \in Nat, page > 0,
           NEW id \in ids, Place(ids, id) >= (page - 1) * PageLimit,
           Cardinality(Page(ids, page)) < PageLimit
    PROVE  Cardinality({i \in ids : i <= id}) <= Cardinality(Page(ids, page))
<1> PICK seen \in Nat : seen = (page - 1) * PageLimit
  BY PageAssumption
<1> PICK last \in Nat : last = page * PageLimit
  BY PageAssumption
<1> PICK older : older = {i \in ids : i <= id}
  OBVIOUS
<1>1. Page(ids, page) \in SUBSET Ids /\ PageLimit \in Nat
  BY PageAssumption DEF Page
<1>2. Cardinality(Page(ids, page)) \in Nat
  BY <1>1, IdsAreFinite
<1>3. ASSUME NEW i \in older
      PROVE  i \in Page(ids, page)
  <2>1. i \in ids /\ i <= id
    OBVIOUS
  <2>2. Place(ids, i) \in Nat /\ Place(ids, i) >= seen
    <3>1. Place(ids, id) <= Place(ids, i) /\ Place(ids, i) \in Nat /\ Place(ids, id) \in Nat
      BY <2>1, LaterPlaces
    <3> QED
      BY <3>1
  <2>3. ~(Place(ids, i) >= last)
    <3>1. Place(ids, i) >= last => Cardinality(Page(ids, page)) >= PageLimit
      BY <2>1, PageIsFull
    <3> QED
      BY <1>1, <1>2, <3>1
  <2>4. Place(ids, i) \in seen .. last - 1
    BY <2>2, <2>3
  <2> QED
    BY <2>1, <2>4 DEF Page, Place
<1>4. older \in SUBSET Page(ids, page)
  BY <1>3
<1> QED
  BY <1>1, <1>4, MoreIds

\* How many rows a query has of the kind of one of them, and in all.
LEMMA BeforeIsPlace ==
    ASSUME NEW ids \in SUBSET Live, NEW id \in ids, NEW kind, kind = listing[id].kind
    PROVE  /\ OfKind(ids, kind) \in SUBSET Ids /\ id \in OfKind(ids, kind)
           /\ Before(ids, id) = {i \in OfKind(ids, kind) : i > id}
           /\ Cardinality(Before(ids, id)) = Place(OfKind(ids, kind), id)
BY DEF OfKind, Before, Place, Live

LEMMA AllAreCounted ==
    ASSUME NEW ids \in SUBSET Live, NEW id \in ids, NEW page \in Nat,
           Cardinality(Before(ids, id)) >= page * PageLimit
    PROVE  page < TotalPages(ids)
<1> PICK kind : kind = listing[id].kind
  OBVIOUS
<1> PICK last \in Nat : last = page * PageLimit
  BY PageAssumption
<1>1. OfKind(ids, kind) \in SUBSET ids /\ ids \in SUBSET Ids /\ OfKind(ids, kind) \in SUBSET Ids
  BY DEF OfKind, Live
<1>2. id \in OfKind(ids, kind) /\ Cardinality(Before(ids, id)) = Place(OfKind(ids, kind), id)
  BY BeforeIsPlace
<1>3. Place(OfKind(ids, kind), id) \in 0 .. Cardinality(OfKind(ids, kind)) - 1
  BY <1>1, <1>2, PlacesAreInList
<1>4. Cardinality(OfKind(ids, kind)) <= Cardinality(ids) /\ Cardinality(ids) \in Nat
      /\ Cardinality(OfKind(ids, kind)) \in Nat
  BY <1>1, MoreIds
<1>5. Cardinality(ids) > page * PageLimit
  <2>1. Place(OfKind(ids, kind), id) >= last
    BY <1>2
  <2> QED
    BY <1>3, <1>4, <2>1
<1> QED
  BY <1>4, <1>5, PagesCover DEF TotalPages

\* A row that was still to be seen and is not on the page opened is still to come.
LEMMA StillToCome ==
    ASSUME NEW q \in Query, q.by # 0 => \E kind \in Kinds : q.kinds = {kind},
           NEW page \in Nat, page > 0, NEW id \in Rows(q),
           Cardinality(Before(OfKinds(q), id)) >= (page - 1) * PageLimit,
           \/ Cardinality(Before(Rows(q), id)) >= (page - 1) * PageLimit
           \/ q.by # 0 /\ Cardinality({i \in Rows(q) : i <= id}) < Enough,
           id \notin PageOf(Widened(q, page), page)
    PROVE  /\ Cardinality(Before(OfKinds(q), id)) >= page * PageLimit
           /\ \/ Cardinality(Before(Rows(q), id)) >= page * PageLimit
              \/ q.by # 0 /\ Cardinality({i \in Rows(q) : i <= id}) < Enough
           /\ page < PagesOf(Widened(q, page))
<1> PICK kind : kind = listing[id].kind
  OBVIOUS
<1> PICK rows : rows = OfKind(Rows(q), kind)
  OBVIOUS
<1> PICK all : all = OfKind(OfKinds(q), kind)
  OBVIOUS
<1> PICK seen \in Nat : seen = (page - 1) * PageLimit
  BY PageAssumption
<1> PICK last \in Nat : last = page * PageLimit
  BY PageAssumption
<1>1. /\ Rows(q) \in SUBSET Live /\ OfKinds(q) \in SUBSET Live /\ id \in OfKinds(q)
      /\ Rows(q) \subseteq OfKinds(q) /\ kind \in q.kinds
  BY RowsAreIds DEF OfKinds
<1>2. /\ rows \in SUBSET Ids /\ id \in rows /\ Cardinality(Before(Rows(q), id)) = Place(rows, id)
      /\ all \in SUBSET Ids /\ id \in all /\ Cardinality(Before(OfKinds(q), id)) = Place(all, id)
  BY <1>1, BeforeIsPlace
<1>3. Place(rows, id) \in Nat /\ Place(all, id) \in Nat /\ Place(rows, id) <= Place(all, id)
  <2>1. rows \subseteq all
    BY <1>1 DEF OfKind
  <2>2. {i \in rows : i > id} \in SUBSET {i \in all : i > id} /\ {i \in all : i > id} \in SUBSET Ids
    BY <1>2, <2>1
  <2> QED
    BY <2>2, MoreIds DEF Place
<1>4. Enough \in Nat /\ Enough <= PageLimit /\ Enough > 0 /\ PageLimit \in Nat \ {0}
  BY PageAssumption DEF Enough
<1>5. q.by # 0 => rows = Rows(q) /\ PageOf(q, page) = Page(rows, page)
  <2> SUFFICES ASSUME q.by # 0
               PROVE  rows = Rows(q) /\ PageOf(q, page) = Page(rows, page)
    OBVIOUS
  <2>1. q.kinds = {kind}
    BY <1>1
  <2>2. rows = Rows(q)
    BY <1>1, <2>1 DEF OfKinds, OfKind
  <2>3. PageOf(q, page) = UNION {Page(OfKind(Rows(q), k), page) : k \in {kind}}
    BY <2>1 DEF PageOf
  <2> QED
    BY <2>2, <2>3
<1>6. Cardinality(Page(rows, page)) \in Nat /\ Cardinality({i \in rows : i <= id}) \in Nat
  <2>1. Page(rows, page) \in SUBSET Ids /\ {i \in rows : i <= id} \in SUBSET Ids
    BY <1>2 DEF Page
  <2> QED
    BY <2>1, IdsAreFinite
<1>7. CASE q.by # 0 /\ Cardinality(PageOf(q, page)) < Enough
  <2>1. Widened(q, page) = AllOf(q.kinds)
    BY <1>7 DEF Widened
  <2>2. Rows(AllOf(q.kinds)) = OfKinds(q) /\ AllOf(q.kinds).kinds = q.kinds
    BY DEF Rows, AllOf, OfKinds
  <2>3. id \notin Page(all, page)
    <3>1. PageOf(AllOf(q.kinds), page) = UNION {Page(OfKind(OfKinds(q), k), page) : k \in q.kinds}
      BY <2>2 DEF PageOf
    <3> QED
      BY <1>1, <2>1, <3>1
  <2>4. Place(all, id) >= page * PageLimit
    BY <1>2, <2>3, PastThePage
  <2>5. page < PagesOf(Widened(q, page))
    BY <1>1, <1>2, <2>1, <2>2, <2>4, AllAreCounted DEF PagesOf
  <2>6. Cardinality({i \in Rows(q) : i <= id}) < Enough
    <3>1. CASE Place(rows, id) >= (page - 1) * PageLimit
      <4>1. Cardinality(Page(rows, page)) < Enough /\ Cardinality(Page(rows, page)) < PageLimit
        BY <1>4, <1>5, <1>6, <1>7
      <4>2. Cardinality({i \in rows : i <= id}) <= Cardinality(Page(rows, page))
        BY <1>2, <3>1, <4>1, LastRows
      <4>3. Cardinality({i \in rows : i <= id}) < Enough
        BY <1>4, <1>6, <4>1, <4>2
      <4> QED
        BY <1>5, <1>7, <4>3
    <3>2. CASE ~(Place(rows, id) >= (page - 1) * PageLimit)
      BY <1>2, <3>2
    <3> QED
      BY <3>1, <3>2
  <2> QED
    BY <1>2, <1>7, <2>4, <2>5, <2>6
<1>8. CASE ~(q.by # 0 /\ Cardinality(PageOf(q, page)) < Enough)
  <2>1. Widened(q, page) = q
    BY <1>8 DEF Widened
  <2>2. id \notin Page(rows, page)
    BY <1>1, <2>1 DEF PageOf
  <2>3. Place(rows, id) >= (page - 1) * PageLimit
    <3> SUFFICES ASSUME ~(Place(rows, id) >= (page - 1) * PageLimit)
                 PROVE  FALSE
      OBVIOUS
    <3>1. q.by # 0 /\ Cardinality({i \in Rows(q) : i <= id}) < Enough
      BY <1>2
    <3>2. Cardinality({i \in rows : i <= id}) < Enough /\ ~(Cardinality(Page(rows, page)) < Enough)
      BY <1>5, <1>8, <3>1
    <3>3. Place(rows, id) < seen
      BY <1>3
    <3>4. Cardinality(Page(rows, page)) <= Cardinality({i \in rows : i <= id})
      BY <1>2, <3>3, OlderRows
    <3> QED
      BY <1>4, <1>6, <3>2, <3>4
  <2>4. Place(rows, id) >= page * PageLimit
    BY <1>2, <2>2, <2>3, PastThePage
  <2>5. Place(all, id) >= last
    BY <1>3, <2>4
  <2>6. page < PagesOf(Widened(q, page))
    BY <1>1, <1>2, <2>1, <2>4, AllAreCounted DEF PagesOf
  <2> QED
    BY <1>2, <2>4, <2>5, <2>6
<1> QED
  BY <1>7, <1>8

LEMMA NextPageKeeps ==
    ASSUME WalkInv, NextPage
    PROVE  WalkInv'
<1> PICK q : q = reader.query
  OBVIOUS
<1> PICK page : page = reader.page
  OBVIOUS
<1> PICK missing : missing = reader.missing
  OBVIOUS
<1> PICK wide : wide = Widened(q, page)
  OBVIOUS
<1> PICK left : left = missing \ PageOf(wide, page)
  OBVIOUS
<1>1. /\ reader \in Reader /\ q \in Query /\ page \in Nat /\ page > 0 /\ missing \subseteq Ids
      /\ q.by # 0 => \E kind \in Kinds : q.kinds = {kind}
  BY DEF WalkInv, Reader, NextPage
<1>2. reader' = IF ~Admits(q) THEN IdleReader
                ELSE IF page < PagesOf(wide)
                THEN [reader EXCEPT !.page = page + 1, !.missing = left]
                ELSE [IdleReader EXCEPT !.missing = left, !.quiet = reader.quiet]
  BY DEF NextPage
<1>3. ASSUME reader.quiet, NEW id \in left
      PROVE  /\ id \in Rows(q)
             /\ Cardinality(Before(OfKinds(q), id)) >= page * PageLimit
             /\ \/ Cardinality(Before(Rows(q), id)) >= page * PageLimit
                \/ q.by # 0 /\ Cardinality({i \in Rows(q) : i <= id}) < Enough
             /\ page < PagesOf(wide)
  <2>1. /\ id \in missing /\ id \in Rows(q) /\ id \notin PageOf(Widened(q, page), page)
        /\ Cardinality(Before(OfKinds(q), id)) >= (page - 1) * PageLimit
        /\ \/ Cardinality(Before(Rows(q), id)) >= (page - 1) * PageLimit
           \/ q.by # 0 /\ Cardinality({i \in Rows(q) : i <= id}) < Enough
    BY <1>1, <1>3 DEF WalkInv, Seen
  <2> QED
    BY <1>1, <2>1, StillToCome
<1>4. IdleReader \in Reader /\ IdleReader.page = 0 /\ IdleReader.missing = {} /\ IdleReader.query.by = 0
  BY DEF IdleReader, Reader, AllOf, Query
<1>5. CASE ~Admits(q)
  <2>1. reader' = IdleReader
    BY <1>2, <1>5
  <2> QED
    BY <1>4, <2>1 DEF WalkInv, WalkMissesNothing
<1>6. CASE Admits(q) /\ page < PagesOf(wide)
  <2>1. reader' = [reader EXCEPT !.page = page + 1, !.missing = left]
    BY <1>2, <1>6
  <2> PICK following \in Nat : following = page + 1
    BY <1>1
  <2>2. /\ reader' \in Reader /\ reader'.page = following /\ reader'.missing = left
        /\ reader'.query = q /\ reader'.quiet = reader.quiet
    BY <1>1, <2>1 DEF Reader
  <2>3. Seen' = page * PageLimit
    <3>1. following - 1 = page
      BY <1>1
    <3> QED
      BY <2>2, <3>1 DEF Seen
  <2>4. /\ Rows(q)' = Rows(q)
        /\ \A id : Before(OfKinds(q), id)' = Before(OfKinds(q), id) /\ Before(Rows(q), id)' = Before(Rows(q), id)
    BY DEF NextPage, storeVars, tables, Rows, OfKinds, Loaded, Live, Fits, Before, OfKind
  <2>5. WalkMissesNothing'
    BY <1>1, <2>2 DEF WalkMissesNothing
  <2> QED
    BY <1>1, <1>3, <2>2, <2>3, <2>4, <2>5 DEF WalkInv
<1>7. CASE Admits(q) /\ ~(page < PagesOf(wide))
  <2>1. reader' = [IdleReader EXCEPT !.missing = left, !.quiet = reader.quiet]
    BY <1>2, <1>7
  <2>2. /\ reader' \in Reader /\ reader'.page = 0 /\ reader'.missing = left
        /\ reader'.quiet = reader.quiet /\ reader'.query.by = 0
    BY <1>1, <1>4, <2>1 DEF Reader, IdleReader
  <2>3. reader.quiet => left = {}
    BY <1>3, <1>7
  <2>4. WalkMissesNothing'
    BY <2>2, <2>3 DEF WalkMissesNothing
  <2> QED
    BY <2>2, <2>4 DEF WalkInv
<1> QED
  BY <1>5, <1>6, <1>7

LEMMA NextWalk ==
    ASSUME ListingInv, WalkInv, [Next]_vars
    PROVE  WalkInv'
<1>1. CASE UNCHANGED vars
  <2>1. reader' = reader /\ UNCHANGED <<listing, suspended>>
    BY <1>1 DEF vars, storeVars, tables
  <2>2. Rows(reader.query)' = Rows(reader.query)
    BY <2>1 DEF Rows, OfKinds, Loaded, Live, Fits
  <2>3. \A id : /\ Before(OfKinds(reader.query), id)' = Before(OfKinds(reader.query), id)
                /\ Before(Rows(reader.query), id)' = Before(Rows(reader.query), id)
    BY <2>1 DEF Rows, OfKinds, Loaded, Live, Fits, Before, OfKind
  <2> QED
    BY <2>1, <2>2, <2>3 DEF WalkInv, WalkMissesNothing, Seen
<1>2. CASE Change /\ Watched
  BY <1>2, WatchedKeeps
<1>3. CASE Read
  BY <1>3, OpenKeeps, NextPageKeeps DEF Read
<1> QED
  BY <1>1, <1>2, <1>3 DEF Next

-----------------------------------------------------------------------------
(* The theorems. *)

\* The inductive invariant of the marketplace, its type invariant included: what the
\* services of listings keep in their tables whatever the order of their requests, and
\* what a reader of a list has still to see.
THEOREM InvAlways == Spec => []Inv
<1>1. QueryInit => Inv
  <2> SUFFICES ASSUME QueryInit
               PROVE  WalkInv
    BY InitInv DEF QueryInit, Inv
  <2>1. reader = IdleReader /\ IdleReader \in Reader /\ IdleReader.page = 0
        /\ IdleReader.missing = {} /\ IdleReader.query.by = 0
    BY DEF QueryInit, IdleReader, Reader, AllOf, Query
  <2> QED
    BY <2>1 DEF WalkInv, WalkMissesNothing
<1>2. Inv /\ [Next]_vars => Inv'
  BY ListingNextInv, NextWalk DEF Inv
<1> QED
  BY <1>1, <1>2, PTL DEF Spec

\* The counters of a listing agree with its analytics, up to visits on their way, lost
\* or overwritten, for any number of visitors.
THEOREM CountersMatchLogAlways == Spec => []CountersMatchLog
<1>1. Inv => CountersMatchLog
  BY DEF Inv, ListingInv
<1> QED
  BY <1>1, InvAlways, PTL

\* What owners and administrators were told of a listing stands until they are told
\* otherwise, unless two requests raced.
THEOREM AnswersStandAlways == Spec => []AnswersStand
<1>1. Inv => AnswersStand
  BY DEF Inv, ListingInv
<1> QED
  BY <1>1, InvAlways, PTL

\* A removed listing comes back only through a race on it or on its store.
THEOREM DeletedStaysDeletedAlways == Spec => []DeletedStaysDeleted
<1>1. Inv => DeletedStaysDeleted
  BY DEF Inv, ListingInv
<1> QED
  BY <1>1, InvAlways, PTL

\* A product always has a store of its owner, races and removals included.
THEOREM ProductHasStoreAlways == Spec => []ProductHasStore
<1>1. Inv => ProductHasStore
  BY DEF Inv, ListingInv
<1> QED
  BY <1>1, InvAlways, PTL

\* Who reads a list to its last page, while it only grew, has seen every row it had at
\* the start, for any lists, any limit of a page and any number of rows: in a search of
\* two tables, and among matches that another list stands in for.
THEOREM WalkMissesNothingAlways == Spec => []WalkMissesNothing
<1>1. Inv => WalkMissesNothing
  BY DEF Inv, WalkInv
<1> QED
  BY <1>1, InvAlways, PTL
=============================================================================
