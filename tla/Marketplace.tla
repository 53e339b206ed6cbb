---------------------------- MODULE Marketplace ----------------------------
(***************************************************************************)
(* Owners, visitors and administrators at the listings, somebody who reads *)
(* a list of them, and what must hold.                                     *)
(***************************************************************************)
EXTENDS ListingQueries

Request(t) ==
    /\ MayBegin(t)
    /\ \/ \E u \in Users : \/ ServiceController(t, u) \/ StoreController(t, u)
                           \/ ProductController(t, u) \/ DriverJobController(t, u)
                           \/ DriverProfileController(t, u)
       \/ ServiceApproval(t)

Step(t) ==
    \/ Save(t) \/ Tell(t) \/ Remove(t) \/ InsertProduct(t) \/ Refuse(t)
    \/ Increment(t) \/ LogEvent(t) \/ Fails(t)

Account(u) == Suspend(u) \/ Reactivate(u)

Change ==
    \/ \E t \in Tasks : Request(t) \/ Step(t)
    \/ \E u \in Users : Account(u)
    \/ Stop

OwnLists(u) == ServicesOf(u) \cup StoresListedOf(u) \cup ProductsOf(u) \cup DriverJobsOf(u)
               \cup DriverProfilesOf(u) \cup MatchedDrivers(u) \cup MatchedJobs(u)
Dashboard == Search \cup DashboardStores \cup DashboardServices \cup DashboardDrivers
             \cup DashboardJobs \cup DashboardProducts
AdminLists == PendingServices \cup ServicesWithStatus \cup AdminServices \cup AdminProducts
              \cup AdminStores

Read ==
    \/ \E u \in Users : \E q \in OwnLists(u) : Open(q)
    \/ \E q \in Dashboard \cup AdminLists : Open(q)
    \/ NextPage

Next == (Change /\ Watched) \/ Read

Spec == QueryInit /\ [][Next]_vars

-----------------------------------------------------------------------------
\* Visits of a listing that were counted.
Visits(id) == log[id] + Cardinality(Logging(id)) + unlogged[id]

\* Type correctness of the tables, the requests and the history.
TypeOK ==
    /\ listing \in [Ids -> Row \cup {Null}]
    /\ made \in 0 .. NumListings
    /\ suspended \subseteq Users
    /\ log \in [Ids -> Nat]
    /\ task \in [Tasks -> Task]
    /\ begun \in Nat
    /\ born \in [Ids -> Origin \cup {Null}]
    /\ told \in [Ids -> Telling \cup {Null}]
    /\ untold \subseteq Ids \X Tells
    /\ raced \subseteq Ids /\ disowned \subseteq Ids /\ gone \subseteq Ids
    /\ unlogged \in [Ids -> Nat]

\* The counters of a listing and the events its analytics are made of agree, up to the
\* visits on their way or cut off between the two, and however many visitors come at
\* once; a save of a stale copy in between can only lose visits.
CountersMatchLog == \A id \in Live :
    /\ listing[id].count <= Visits(id)
    /\ id \notin raced \cup gone => listing[id].count = Visits(id)

\* An answer or an event about a listing that is on its way, or was cut off.
Unsaid(id, pc) == <<id, pc>> \in untold \/ \E t \in Tasks : At(t, pc) /\ task[t].id = id

\* What the owner was answered last and what the provider was notified of last is what
\* the listing says, and it is still the owner's, unless two of its requests raced or
\* it was moderated while the owner was suspended; what a stop kept from being told is
\* excepted until it is told anew.
AnswersStand == \A id \in Live \ (raced \cup disowned) :
    /\ listing[id].status = told[id].status \/ Unsaid(id, "notifying")
    /\ listing[id].text = told[id].text \/ Unsaid(id, "answering")
    /\ listing[id].owner = born[id].owner

\* A listing that was removed does not come back, not even a product whose update was
\* under way when its store went, unless the store came back itself.
DeletedStaysDeleted == \A id \in gone :
    listing[id] = Null \/ id \in raced \/ born[id].store \in raced

\* A product is in a store that is there and has the same owner.
ProductHasStore == \A id \in Live : listing[id].kind = "product" =>
    /\ listing[id].store \in Live
    /\ listing[listing[id].store].kind = "store"
    /\ listing[listing[id].store].owner = listing[id].owner

\* Who reads a list to its last page, from which no row went meanwhile, has seen every
\* row it had at the start, whatever was added: in a search of two tables with one
\* page number, and among matches that other rows stand in for when they are few,
\* unless an older row came to fit the match, for then pages that were replaced and
\* pages that are not do not add up to the list.
WalkMissesNothing == reader.page = 0 /\ reader.quiet => reader.missing = {}

(***************************************************************************)
(* The inductive invariant behind them.  Unless an id is raced, the copy a *)
(* request found still says what everybody else was told, and nobody else  *)
(* is about to write or to count.  A row that vanished under a save went   *)
(* with its store, and the foreign key keeps it from coming back.          *)
(***************************************************************************)
MadeInv == \A id \in Ids :
    /\ id > made => /\ listing[id] = Null /\ born[id] = Null /\ told[id] = Null
                    /\ id \notin gone /\ log[id] = 0 /\ unlogged[id] = 0
    /\ id <= made => /\ born[id] # Null /\ told[id] # Null
                     /\ listing[id] # Null \/ id \in gone

BornInv == \A id \in Ids : born[id] # Null =>
    IF born[id].kind = "product"
    THEN /\ born[id].store \in 1 .. made
         /\ born[born[id].store].kind = "store"
         /\ born[born[id].store].owner = born[id].owner
    ELSE born[id].store = 0

\* A row is still of the kind, in the store and of the owner it was born with.
TrueTo(id, row) ==
    /\ row.kind = born[id].kind
    /\ row.store = born[id].store
    /\ \/ row.owner = born[id].owner
       \/ row.owner = Null /\ id \in disowned /\ row.kind = "service"

LiveInv == \A id \in Live :
    /\ TrueTo(id, listing[id])
    /\ listing[id].kind = "product" => listing[id].store \in Live

Copies(t) == At(t, "saving") \/ At(t, "deciding")

TaskInv == \A t \in Tasks :
    /\ At(t, "idle") \/ At(t, "inserting") <=> task[t].id = 0
    /\ task[t].id <= made
    /\ Copies(t) \/ task[t].pc \in Tells \/ At(t, "inserting") <=> task[t].row # Null
    /\ At(t, "inserting") =>
          LET row == task[t].row
          IN  /\ row.kind = "product" /\ Fresh(row)
              /\ row.store \in 1 .. made
              /\ born[row.store].kind = "store" /\ born[row.store].owner = row.owner

CopyInv == \A t \in Tasks : Copies(t) =>
    LET id == task[t].id  row == task[t].row
    IN  /\ TrueTo(id, row)
        /\ row.count <= Visits(id)
        /\ At(t, "saving") => row.owner = born[id].owner
        /\ At(t, "deciding") => row.kind = "service"
        /\ id \notin raced =>
              /\ id \notin gone => row.count = Visits(id)
              /\ id \in disowned \/ row.owner = born[id].owner
              /\ id \notin disowned /\ At(t, "saving") =>
                    row.status = told[id].status \/ <<id, "notifying">> \in untold
              /\ id \notin disowned /\ At(t, "deciding") =>
                    row.text = told[id].text \/ <<id, "answering">> \in untold
              /\ \/ id \in Live
                 \/ row.kind = "product" /\ (row.store \notin Live \/ row.store \in raced)

\* What is about to be told of a listing is what it says.
TellInv == \A t \in Tasks : task[t].pc \in Tells =>
    LET id == task[t].id  row == task[t].row
    IN  id \in Live \ (raced \cup disowned) =>
          /\ At(t, "answering") => listing[id].text = row.text
          /\ At(t, "notifying") => listing[id].status = row.status /\ row.owner # Null

RaceInv == \A s, t \in Tasks :
    s # t /\ task[s].id = task[t].id /\ Clash(task[s].pc, task[t].pc) => task[t].id \in raced

ListingInv ==
    /\ TypeOK /\ CountersMatchLog /\ AnswersStand /\ DeletedStaysDeleted /\ ProductHasStore
    /\ MadeInv /\ BornInv /\ LiveInv /\ TaskInv /\ CopyInv /\ TellInv /\ RaceInv

(***************************************************************************)
(* What a reader has still to see is past the pages that were opened: by   *)
(* its place among the rows of its kind, and by its place in the list or   *)
(* else among the matches too few to fill a page.                          *)
(***************************************************************************)
Before(ids, id) == {i \in OfKind(ids, listing[id].kind) : i > id}
Seen == (reader.page - 1) * PageLimit

WalkInv ==
    /\ reader \in Reader
    /\ reader.query.by # 0 => \E kind \in Kinds : reader.query.kinds = {kind}
    /\ WalkMissesNothing
    /\ reader.page > 0 /\ reader.quiet =>
          /\ reader.missing \subseteq Rows(reader.query)
          /\ \A id \in reader.missing :
                /\ Cardinality(Before(OfKinds(reader.query), id)) >= Seen
                /\ \/ Cardinality(Before(Rows(reader.query), id)) >= Seen
                   \/ /\ reader.query.by # 0
                      /\ Cardinality({i \in Rows(reader.query) : i <= id}) < Enough

Inv == ListingInv /\ WalkInv
=============================================================================
