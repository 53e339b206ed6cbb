--------------------------- MODULE ListingQueries ---------------------------
(***************************************************************************)
(* The lists of listings, newest first and in pages, and somebody who      *)
(* reads one page after another while the tables change.  A query is its   *)
(* conditions: kinds, owner, status, and the listing it is to be matched   *)
(* with.                                                                   *)
(***************************************************************************)
EXTENDS ListingServices

CONSTANTS
    PageLimit,       \* the limit a reader asks for
    Readers          \* bound: the lists that are read

ASSUME PageAssumption == PageLimit \in Nat \ {0}

VARIABLE reader      \* the query, the next page (0: none), what is still to be seen, and
                     \* whether the list only grew since the first page

Query == [kinds : SUBSET Kinds, user : Users \cup {Null}, status : Statuses \cup {Null},
          by : Ids \cup {0}]
AllOf(kinds) == [kinds |-> kinds, user |-> Null, status |-> Null, by |-> 0]
Reader == [query : Query, page : Nat, missing : SUBSET Ids, quiet : BOOLEAN]
IdleReader == [query |-> AllOf({}), page |-> 0, missing |-> {}, quiet |-> TRUE]

OfKinds(q) == {id \in Live : listing[id].kind \in q.kinds}
Fits(id) == listing[id].text \in Fitting
Rows(q) == {id \in OfKinds(q) :
    /\ q.user # Null /\ q.by = 0 => Loaded(id).owner = q.user
    /\ q.status # Null => listing[id].status = q.status
    /\ q.by # 0 => Fits(id)}

\* findAndCount of one kind: order by created_at descending, skip, take.
Page(ids, page) == {id \in ids :
    Cardinality({i \in ids : i > id}) \in (page - 1) * PageLimit .. page * PageLimit - 1}
OfKind(ids, kind) == {id \in ids : listing[id].kind = kind}
\* Mutant: the last page is left out when it is not full.
FullPages(ids) == Cardinality(ids) \div PageLimit
TotalPages(ids) == (Cardinality(ids) + PageLimit - 1) \div PageLimit

\* A search has a page of products beside one of stores, and one number of pages.
PagesOf(q) == TotalPages(Rows(q))
PageOf(q, page) == UNION {Page(OfKind(Rows(q), kind), page) : kind \in q.kinds}

-----------------------------------------------------------------------------
(* The queries of the services, of the dashboard and of the admin panel *)

Mine(u, type, kind) ==
    IF UserType[u] = type THEN {[AllOf({kind}) EXCEPT !.user = u]} ELSE {}

ServicesOf(u) == Mine(u, "service provider", "service")
StoresListedOf(u) == Mine(u, "auto dealer", "store")
ProductsOf(u) == Mine(u, "auto dealer", "product")
DriverJobsOf(u) == Mine(u, "driver employer", "job")
DriverProfilesOf(u) == Mine(u, "driver", "profile")

PendingServices == {[AllOf({"service"}) EXCEPT !.status = "pending"]}
ServicesWithStatus == {AllOf({"service"})}
AdminServices == {[AllOf({"service"}) EXCEPT !.status = status] : status \in Statuses \cup {Null}}
AdminProducts == {AllOf({"product"})}
AdminStores == {AllOf({"store"})}

Search == {AllOf({"product", "store"}), AllOf({"product"}), AllOf({"store"})}
DashboardStores == {AllOf({"store"})}
DashboardServices == {AllOf({"service"})}
DashboardDrivers == {AllOf({"profile"})}
DashboardJobs == {AllOf({"job"})}
DashboardProducts == {AllOf({"product"})}

MatchedDrivers(u) == IF UserType[u] = "driver employer"
    THEN {[AllOf({"profile"}) EXCEPT !.user = u, !.by = id] : id \in {i \in Ids : Owns(u, "job", i)}} ELSE {}
MatchedJobs(u) == IF UserType[u] = "driver"
    THEN {[AllOf({"job"}) EXCEPT !.user = u, !.by = id] : id \in {i \in Ids : Owns(u, "profile", i)}} ELSE {}

\* A page with too few matches is replaced, and so is the number of pages, by what the
\* list has without the condition.
Enough == IF PageLimit < 10 THEN PageLimit ELSE 10
Widened(q, page) ==
    IF q.by # 0 /\ Cardinality(PageOf(q, page)) < Enough THEN AllOf(q.kinds) ELSE q

\* Matches are for a job the employer names, or for a profile that is looked up again,
\* by its driver, for each page.
Admits(q) ==
    \/ q.by = 0
    \/ q.kinds = {"profile"} /\ Owns(q.user, "job", q.by)
    \/ q.kinds = {"job"} /\ \E id \in Ids : Owns(q.user, "profile", id)

-----------------------------------------------------------------------------
QueryInit == StoreInit /\ reader = IdleReader
vars == <<storeVars, reader>>

Open(q) ==
    /\ reader.page = 0 /\ q \in Readers
    /\ reader' = [query |-> q, page |-> 1, missing |-> Rows(q), quiet |-> TRUE]
    /\ UNCHANGED storeVars

NextPage ==
    LET q == Widened(reader.query, reader.page)
        left == reader.missing \ PageOf(q, reader.page)
    IN  /\ reader.page > 0
        /\ reader' = IF ~Admits(reader.query) THEN IdleReader
                     ELSE IF reader.page < PagesOf(q)
                     THEN [reader EXCEPT !.page = @ + 1, !.missing = left]
                     ELSE [IdleReader EXCEPT !.missing = left, !.quiet = reader.quiet]
        /\ UNCHANGED storeVars

\* History: the tables change; does a row leave the list somebody is reading, or one
\* come to fit below a match that is still to be seen?
Stays(q) ==
    /\ Rows(q) \subseteq Rows(q)' /\ OfKinds(q) \subseteq OfKinds(q)'
    /\ q.by # 0 => \A id \in Rows(q)' \ Rows(q), unseen \in reader.missing : id > unseen
Watched == \E q \in {reader.query} :
    reader' = IF reader.page = 0 THEN reader ELSE [reader EXCEPT !.quiet = @ /\ Stays(q)]
=============================================================================
