---------------------------- MODULE ListingStore ----------------------------
(***************************************************************************)
(* The tables services, stores, products, driver_jobs and driver_profiles, *)
(* and what every service over them does the same way: find a row, then    *)
(* save the copy it found, remove it or count a visit.  One numbering      *)
(* serves all five; it is also the order of created_at.  Each row has one  *)
(* counter, for views, clicks and enquiries behave alike.                  *)
(***************************************************************************)
EXTENDS Integers, FiniteSets

CONSTANTS
    Users,
    UserType,        \* the active role in each user's token
    Texts,           \* what an owner can write in a listing
    Fitting,         \* the texts that suit the other side of a match
    Tables,          \* rows there may be at the start
    NumListings,     \* bound: rows ever made
    Booked,          \* ids of services some booking refers to
    MaxRequests,     \* bound: requests begun
    Tasks,           \* bound: requests in flight at a time
    Faults,          \* whether queries may fail and the process may stop
    Null

Kinds == {"service", "store", "product", "job", "profile"}
Statuses == {"pending", "approved", "rejected"}
Ids == 1 .. NumListings

Row == [kind : Kinds, owner : Users \cup {Null}, status : Statuses, count : Nat,
        store : Ids \cup {0}, text : Texts]

VARIABLES
    listing,      \* the row with an id; Null: none
    made,         \* how many rows were ever made
    suspended,    \* users with deleted_at
    log,          \* analytics_events: rows of a listing
    task,         \* each request in flight, with the copy it found
    begun,        \* how many requests began
    born,         \* history: kind, owner and store a listing was made with
    told,         \* history: the text its owner and the status its provider was last told,
                  \* at first what it was made with
    untold,       \* history: answers and events a stop cut off, till there is another
    raced,        \* history: listings two requests changed in a window of each other
    disowned,     \* history: services moderated while their owner was suspended
    gone,         \* history: listings that were removed
    unlogged      \* history: visits that were counted and never logged

tables == <<listing, made, suspended, log>>
history == <<born, told, untold, raced, disowned, gone, unlogged>>
storeVars == <<tables, task, begun, history>>

Writes == {"saving", "deciding", "removing"}
Tells == {"answering", "notifying"}
TaskPcs == Writes \cup Tells \cup {"idle", "inserting", "counting", "logging"}
Task == [pc : TaskPcs, id : Ids \cup {0}, row : Row \cup {Null}]
IdleTask == [pc |-> "idle", id |-> 0, row |-> Null]
Origin == [kind : Kinds, owner : Users, store : Ids \cup {0}]
Telling == [status : Statuses, text : Texts]
OriginOf(row) == [kind |-> row.kind, owner |-> row.owner, store |-> row.store]
TellingOf(row) == [status |-> row.status, text |-> row.text]

Fresh(row) == row.owner \in Users /\ row.count = 0 /\ row.status = "pending"
InOwnStore(rows, row) == IF row.kind = "product"
                         THEN \E id \in DOMAIN rows : id = row.store /\ rows[id] # Null
                                 /\ rows[id].kind = "store" /\ rows[id].owner = row.owner
                         ELSE row.store = 0

ASSUME ListingAssumption ==
    /\ NumListings \in Nat /\ MaxRequests \in Nat /\ Faults \in BOOLEAN
    /\ IsFiniteSet(Tasks)
    /\ Null \notin Users \cup Row \cup Origin \cup Telling
    /\ Booked \subseteq Ids
    /\ \A rows \in Tables : \E n \in 0 .. NumListings :
          /\ rows \in [1 .. n -> Row]
          /\ \A id \in 1 .. n : Fresh(rows[id]) /\ InOwnStore(rows, rows[id])

StoreInit == \E rows \in Tables :
    /\ listing = [id \in Ids |-> IF id \in DOMAIN rows THEN rows[id] ELSE Null]
    /\ made = Cardinality(DOMAIN rows)
    /\ suspended = {}
    /\ log = [id \in Ids |-> 0]
    /\ task = [t \in Tasks |-> IdleTask]
    /\ begun = 0
    /\ born = [id \in Ids |-> IF id \in DOMAIN rows
          THEN OriginOf(rows[id]) ELSE Null]
    /\ told = [id \in Ids |-> IF id \in DOMAIN rows
          THEN TellingOf(rows[id]) ELSE Null]
    /\ untold = {} /\ raced = {} /\ disowned = {} /\ gone = {}
    /\ unlogged = [id \in Ids |-> 0]

-----------------------------------------------------------------------------
(* Reading *)

Live == {id \in Ids : listing[id] # Null}

\* created_by is joined, and the join leaves out users who are deleted.
Loaded(id) == [listing[id] EXCEPT !.owner = IF @ \in suspended THEN Null ELSE @]
Owns(u, kind, id) == id \in Live /\ listing[id].kind = kind /\ Loaded(id).owner = u
Logging(id) == {t \in Tasks : task[t].pc = "logging" /\ task[t].id = id}

At(t, pc) == task[t].pc = pc
MayBegin(t) == At(t, "idle") /\ begun < MaxRequests
Begins(t, local) ==
    /\ MayBegin(t)
    /\ begun' = begun + 1
    /\ task' = [task EXCEPT ![t] = local]
Returns(t) == task' = [task EXCEPT ![t] = IdleTask] /\ begun' = begun

\* Two requests that write a listing and tell of it, or one that writes the copy it
\* found and one that counts.
Clash(p, q) ==
    \/ p \in Writes \cup Tells /\ q \in Writes \cup Tells
    \/ p \in Writes /\ q = "counting"
    \/ p = "counting" /\ q \in Writes
Overlapping(id, pc) == \E t \in Tasks : task[t].id = id /\ Clash(task[t].pc, pc)

Finds(t, id, pc, row) ==
    /\ Begins(t, [pc |-> pc, id |-> id, row |-> row])
    /\ raced' = IF Overlapping(id, pc) THEN raced \cup {id} ELSE raced

-----------------------------------------------------------------------------
(* Writing *)

NewRow(u, kind, text, store) ==
    [kind |-> kind, owner |-> u, status |-> "pending", count |-> 0,
     store |-> store, text |-> text]

Inserts(row) ==
    /\ made < NumListings
    /\ made' = made + 1
    /\ listing' = [listing EXCEPT ![made + 1] = row]
    /\ born' = [born EXCEPT ![made + 1] = OriginOf(row)]
    /\ told' = [told EXCEPT ![made + 1] = TellingOf(row)]
    /\ UNCHANGED <<suspended, log, untold, raced, disowned, gone, unlogged>>

Create(u, type, kind, text) ==
    /\ UserType[u] = type
    /\ begun < MaxRequests /\ begun' = begun + 1
    /\ Inserts(NewRow(u, kind, text, 0))
    /\ UNCHANGED task

\* find, check the owner, assign the body to the copy.
Edit(t, u, kind, id, text) ==
    /\ Owns(u, kind, id)
    /\ Finds(t, id, "saving", [Loaded(id) EXCEPT !.text = text])
    /\ UNCHANGED <<tables, born, told, untold, disowned, gone, unlogged>>

Discard(t, u, kind, id) ==
    /\ Owns(u, kind, id)
    /\ Finds(t, id, "removing", Null)
    /\ UNCHANGED <<tables, born, told, untold, disowned, gone, unlogged>>

Visit(t, kind, id) ==
    /\ id \in Live /\ listing[id].kind = kind
    /\ Finds(t, id, "counting", Null)
    /\ UNCHANGED <<tables, born, told, untold, disowned, gone, unlogged>>

\* Mutant: products have no foreign key.
NoForeignKey(row) == TRUE
StoreStands(row) == row.kind = "product" => listing[row.store] # Null

\* Mutant: the body's default status is saved with it.
SavedAsNew(t) == IF At(t, "saving") THEN [task[t].row EXCEPT !.status = "pending"] ELSE task[t].row
\* The whole copy, as it was found: TypeORM writes every column in which it differs
\* from the row, and inserts it with its id when there is no row.
SavedRow(t) == task[t].row

Save(t) ==
    /\ At(t, "saving") \/ At(t, "deciding")
    /\ StoreStands(task[t].row)
    /\ listing' = [listing EXCEPT ![task[t].id] = SavedRow(t)]
    /\ task' = [task EXCEPT ![t].pc = IF At(t, "saving") THEN "answering" ELSE "notifying"]
    /\ UNCHANGED <<made, suspended, log, begun, history>>

\* The owner reads the answer; the provider is told by an event that needs created_by.
Told(t) ==
    LET row == task[t].row
    IN  [told EXCEPT ![task[t].id] =
          IF At(t, "answering") THEN [@ EXCEPT !.text = row.text]
          ELSE IF row.owner = Null THEN @ ELSE [@ EXCEPT !.status = row.status]]

Tell(t) ==
    /\ At(t, "answering") \/ At(t, "notifying")
    /\ told' = Told(t)
    /\ untold' = untold \ {<<task[t].id, task[t].pc>>}
    /\ Returns(t)
    /\ UNCHANGED <<tables, born, raced, disowned, gone, unlogged>>

\* Mutant: products stay behind.
OnlyItself(id) == {id}
\* ON DELETE CASCADE from a store to its products.
Cascade(id) == {id} \cup {p \in Live : listing[p].kind = "product" /\ listing[p].store = id}

\* bookings.service_id has no ON DELETE.
HasBooking(id) == id \in Booked \cap Live /\ listing[id].kind = "service"

Remove(t) ==
    LET removed == Cascade(task[t].id)
    IN  /\ At(t, "removing") /\ ~HasBooking(task[t].id)
        /\ listing' = [id \in Ids |-> IF id \in removed THEN Null ELSE listing[id]]
        /\ gone' = gone \cup removed
        /\ Returns(t)
        /\ UNCHANGED <<made, suspended, log, born, told, untold, raced, disowned, unlogged>>

InsertProduct(t) ==
    /\ At(t, "inserting")
    /\ StoreStands(task[t].row)
    /\ Inserts(task[t].row)
    /\ Returns(t)

\* A foreign key refuses the write.
Refuse(t) ==
    /\ \/ (At(t, "inserting") \/ At(t, "saving")) /\ ~StoreStands(task[t].row)
       \/ At(t, "removing") /\ HasBooking(task[t].id)
    /\ Returns(t)
    /\ UNCHANGED <<tables, history>>

-----------------------------------------------------------------------------
(* Visits *)

\* Mutant: the count is made up to the events logged.
FromLog(id) == log[id] + 1
\* UPDATE ... SET count = count + 1
Counted(id) == listing[id].count + 1

Increment(t) ==
    LET id == task[t].id
    IN  /\ At(t, "counting")
        /\ listing' = IF id \in Live
                      THEN [listing EXCEPT ![id] = [@ EXCEPT !.count = Counted(id)]]
                      ELSE listing
        /\ task' = [task EXCEPT ![t].pc = "logging"]
        /\ UNCHANGED <<made, suspended, log, begun, history>>

LogEvent(t) ==
    /\ At(t, "logging")
    /\ log' = [log EXCEPT ![task[t].id] = @ + 1]
    /\ Returns(t)
    /\ UNCHANGED <<listing, made, suspended, history>>

-----------------------------------------------------------------------------
(* Accounts and failures *)

Suspend(u) ==
    /\ u \notin suspended /\ begun < MaxRequests
    /\ suspended' = suspended \cup {u}
    /\ begun' = begun + 1
    /\ UNCHANGED <<listing, made, log, task, history>>

Reactivate(u) ==
    /\ u \in suspended /\ begun < MaxRequests
    /\ suspended' = suspended \ {u}
    /\ begun' = begun + 1
    /\ UNCHANGED <<listing, made, log, task, history>>

\* Nothing is awaited after a save.
Fails(t) ==
    /\ Faults /\ task[t].pc \notin Tells \cup {"idle"}
    /\ unlogged' = IF At(t, "logging") THEN [unlogged EXCEPT ![task[t].id] = @ + 1] ELSE unlogged
    /\ Returns(t)
    /\ UNCHANGED <<tables, born, told, untold, raced, disowned, gone>>

Stop ==
    /\ Faults /\ \E t \in Tasks : ~At(t, "idle")
    /\ unlogged' = [id \in Ids |-> unlogged[id] + Cardinality(Logging(id))]
    /\ untold' = untold \cup {<<task[t].id, task[t].pc>> : t \in {t \in Tasks : task[t].pc \in Tells}}
    /\ task' = [t \in Tasks |-> IdleTask]
    /\ UNCHANGED <<tables, begun, born, told, raced, disowned, gone>>
=============================================================================
