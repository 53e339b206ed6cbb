--------------------------- MODULE BookingsProofs ---------------------------
(***************************************************************************)
(* Proofs about Bookings for any users, services, prices, number of rows   *)
(* and of requests in flight, which overlap and fail and whose users are   *)
(* suspended at any time: the inductive invariant, the properties it       *)
(* implies, and that every step but the saves of requests that were        *)
(* overtaken is one of the life that BookingLifecycle describes.           *)
(***************************************************************************)
EXTENDS Bookings, TLAPS

-----------------------------------------------------------------------------
(* What the handlers compute. *)

LEMMA NullsApart ==
    /\ NoCost \notin Costs
    /\ NoBooking \notin Booking
    /\ NoId \notin Bookings
    /\ Nobody \notin Users
BY BookingAssumption DEF NoId, Bookings

LEMMA JoinedIs ==
    ASSUME NEW u \in Users \cup {Nobody}
    PROVE  /\ Joined(u) \in Users \cup {Nobody}
           /\ Joined(u) \in Users => Joined(u) = u /\ u \notin suspended
           /\ u \notin suspended => Joined(u) = u
BY NullsApart DEF Joined

LEMMA IdsOfJoined ==
    ASSUME NEW reviews \in SUBSET Review
    PROVE  LET read == {[id |-> r.id, by |-> Joined(r.by)] : r \in reviews}
           IN  /\ read \subseteq Review
               /\ IdsOf(read) = IdsOf(reviews)
               /\ read # {} => reviews # {}
<1> DEFINE read == {[id |-> r.id, by |-> Joined(r.by)] : r \in reviews}
<1>1. \A r \in reviews : r \in Review /\ r.id \in Reviews /\ r.by \in Users \cup {Nobody}
  BY DEF Review
<1>2. read \subseteq Review
  BY <1>1, JoinedIs DEF Review
<1>3. IdsOf(read) = IdsOf(reviews)
  <2>1. ASSUME NEW r \in reviews
        PROVE  r.id \in IdsOf(read)
    <3>1. [id |-> r.id, by |-> Joined(r.by)] \in read
      OBVIOUS
    <3> QED
      BY <3>1 DEF IdsOf
  <2>2. ASSUME NEW one \in read
        PROVE  one.id \in IdsOf(reviews)
    BY DEF IdsOf
  <2> HIDE DEF read
  <2> QED
    BY <2>1, <2>2 DEF IdsOf
<1> QED
  BY <1>2, <1>3

LEMMA ReadRow ==
    ASSUME TypeOK, NEW b \in Booked
    PROVE  /\ GetBookingById(b) \in Booking
           /\ GetBookingById(b).status = booking[b].status
           /\ IdsOf(GetBookingById(b).reviews) = IdsOf(booking[b].reviews)
           /\ GetBookingById(b).reviews # {} => booking[b].reviews # {}
           /\ GetBookingById(b).reports = booking[b].reports
           /\ booking[b].cost # NoCost => GetBookingById(b).cost = booking[b].cost
<1> DEFINE row == booking[b]
           cost == IF row.cost # NoCost THEN row.cost ELSE price[row.service]
           read == {[id |-> r.id, by |-> Joined(r.by)] : r \in row.reviews}
           user == Joined(row.user)
           provider == Joined(row.provider)
<1>1. row \in Booking
  BY DEF TypeOK, Booked
<1>2. /\ row.service \in Services /\ cost \in Costs \cup {NoCost}
      /\ row.user \in Users \cup {Nobody} /\ row.provider \in Users \cup {Nobody}
      /\ row.reviews \in SUBSET Review
  BY <1>1 DEF Booking, TypeOK, Costs
<1>3. /\ user \in Users \cup {Nobody} /\ provider \in Users \cup {Nobody}
      /\ read \in SUBSET Review
      /\ IdsOf(read) = IdsOf(row.reviews)
      /\ read # {} => row.reviews # {}
  BY <1>2, JoinedIs, IdsOfJoined
<1>4. GetBookingById(b) = [row EXCEPT !.cost = cost, !.user = user, !.provider = provider,
                                      !.reviews = read]
  BY <1>1 DEF GetBookingById, LoadedWith, Booking
<1> HIDE DEF row, cost, read, user, provider
<1>5. /\ GetBookingById(b) \in Booking
      /\ GetBookingById(b).status = row.status
      /\ GetBookingById(b).reviews = read
      /\ GetBookingById(b).reports = row.reports
      /\ GetBookingById(b).cost = cost
  BY <1>1, <1>2, <1>3, <1>4 DEF Booking
<1> QED
  BY <1>3, <1>5 DEF row, cost

LEMMA WithStatus ==
    ASSUME NEW row \in Booking, NEW status \in Status
    PROVE  /\ [row EXCEPT !.status = status] \in Booking
           /\ [row EXCEPT !.status = status].status = status
           /\ [row EXCEPT !.status = status].cost = row.cost
           /\ [row EXCEPT !.status = status].reviews = row.reviews
           /\ [row EXCEPT !.status = status].reports = row.reports
           /\ \A to \in Roles : Party([row EXCEPT !.status = status], to) = Party(row, to)
BY DEF Booking, Party

LEMMA PartyIs ==
    ASSUME NEW row \in Booking, NEW to \in Roles
    PROVE  Party(row, to) \in Users \cup {Nobody}
BY DEF Booking, Party

LEMMA AddressedAreRoles ==
    ASSUME NEW event \in Status
    PROVE  Addressees(event) \subseteq Roles
BY DEF Addressees, Status, Roles

LEMMA AllowedAreStatuses ==
    ASSUME NEW from, NEW to \in AllowedTransitions(from)
    PROVE  /\ to \in Status \ {"pending"}
           /\ from \in {"pending", "scheduled"}
           /\ to = "completed" => from = "scheduled"
           /\ to = "scheduled" => from = "pending"
BY DEF AllowedTransitions, Status

-----------------------------------------------------------------------------
(* What no step undoes, and what an entity held across an await keeps of   *)
(* it: the statuses a booking has had, and the cost its buyer supplied.    *)

Grows ==
    /\ Booked \subseteq Booked'
    /\ \A b \in Booked : reached[b] \subseteq reached'[b] /\ supplied'[b] = supplied[b]

\* The part of Inv that is about one request.
Sane(t) ==
    /\ ~At(t, "idle") => task[t].id \in Booked
    /\ At(t, "saving") =>
          /\ task[t].row \in Booking
          /\ RightAbout(task[t].id, task[t].row)
          /\ task[t].row.status # "pending"
          /\ task[t].event = task[t].row.status
          /\ task[t].to \in Addressees(task[t].event)
          /\ task[t].party = Party(task[t].row, task[t].to)
    /\ task[t].pc \in {"reviewing", "savingReview"} =>
          task[t].by # Nobody /\ "completed" \in reached[task[t].id]

SaneInv == \A t \in Tasks : Sane(t)

IndInv == TypeOK /\ TableInv /\ SaneInv /\ ToldInv

LEMMA InvIsInd == Inv <=> IndInv /\ FreshInv
BY DEF Inv, IndInv, SaneInv, Sane, HeldInv, ReviewInv, BusyInv, At

LEMMA RightAboutPersists ==
    ASSUME Grows, NEW b \in Booked, b \in Bookings, NEW row, RightAbout(b, row)
    PROVE  RightAbout(b, row)'
BY DEF Grows, RightAbout

LEMMA SanePersists ==
    ASSUME Grows, NEW t \in Tasks, Sane(t), task'[t] = task[t]
    PROVE  Sane(t)'
<1>1. CASE At(t, "idle")
  BY <1>1 DEF Sane, At
<1>2. CASE ~At(t, "idle")
  <2> PICK own : own = task[t]
    OBVIOUS
  <2>1. own.id \in Booked /\ own.id \in Bookings /\ task'[t] = own
    BY <1>2 DEF Sane, Booked
  <2>2. ASSUME own.pc = "saving"
        PROVE  RightAbout(own.id, own.row)'
    <3>1. RightAbout(own.id, own.row)
      BY <2>2 DEF Sane, At
    <3> QED
      BY <2>1, <3>1, RightAboutPersists
  <2>3. RightAbout(own.id, own.row)' <=> RightAbout(task[t].id, task[t].row)'
    BY <2>1 DEF RightAbout
  <2> QED
    BY <2>1, <2>2, <2>3 DEF Sane, At, Grows
<1> QED
  BY <1>1, <1>2

\* A step of one request that leaves it sane leaves all of them sane.
LEMMA OthersSane ==
    ASSUME Grows, SaneInv, NEW t \in Tasks, Sane(t)',
           \A other \in Tasks \ {t} : task'[other] = task[other]
    PROVE  SaneInv'
<1> SUFFICES ASSUME NEW other \in Tasks PROVE Sane(other)'
  BY DEF SaneInv
<1> QED
  BY SanePersists DEF SaneInv

LEMMA IdleIsSane ==
    ASSUME NEW t \in Tasks, task'[t] = IdleTask
    PROVE  Sane(t)'
BY DEF Sane, At, IdleTask

\* What was told, or is about to be, stays so through the steps of requests
\* that have nothing to tell.
LEMMA ToldPersists ==
    ASSUME NEW b, NEW status, Told(b, status), NEW t \in Tasks, ~At(t, "announcing"),
           \A other \in Tasks \ {t} : task'[other] = task[other],
           \A to, event : [id |-> b, to |-> to, event |-> event] \in told =>
                              [id |-> b, to |-> to, event |-> event] \in told',
           b \in interrupted => b \in interrupted',
           \A to \in Roles : Party(booking'[b], to) = Party(booking[b], to),
           Addressees(status) \subseteq Roles
    PROVE  Told(b, status)'
<1>1. CASE \E to \in Addressees(status) : [id |-> b, to |-> to, event |-> status] \in told
  BY <1>1 DEF Told
<1>2. CASE \E other \in Tasks : /\ At(other, "announcing")
                                /\ task[other].id = b
                                /\ task[other].event = status
                                /\ task[other].to \in Addressees(status)
                                /\ task[other].party # Nobody
  BY <1>2 DEF Told, At
<1>3. CASE b \in interrupted
  BY <1>3 DEF Told
<1>4. CASE HasLost(b, status)
  BY <1>4 DEF Told, HasLost
<1> QED
  BY <1>1, <1>2, <1>3, <1>4 DEF Told

-----------------------------------------------------------------------------
(* How the step of one request changes the requests in flight. *)

LEMMA PutTask ==
    ASSUME TypeOK, NEW t \in Tasks, NEW new \in Task, task' = [task EXCEPT ![t] = new]
    PROVE  /\ task' \in [Tasks -> Task]
           /\ task'[t] = new
           /\ \A other \in Tasks \ {t} : task'[other] = task[other]
BY DEF TypeOK

LEMMA IdleIsTask ==
    IdleTask \in Task /\ IdleTask.pc = "idle" /\ IdleTask.event = "pending"
BY DEF IdleTask, Task, TaskPcs, Roles, Status

LEMMA ReturnsSets ==
    ASSUME TypeOK, NEW t \in Tasks, task' = [task EXCEPT ![t] = IdleTask]
    PROVE  /\ task' \in [Tasks -> Task]
           /\ task'[t] = IdleTask
           /\ \A other \in Tasks \ {t} : task'[other] = task[other]
BY IdleIsTask, PutTask

LEMMA GotoSets ==
    ASSUME TypeOK, NEW t \in Tasks, NEW pc \in TaskPcs, Goto(t, pc)
    PROVE  /\ task' \in [Tasks -> Task]
           /\ task'[t].pc = pc
           /\ task'[t].id = task[t].id
           /\ task'[t].by = task[t].by
           /\ task'[t].to = task[t].to
           /\ task'[t].party = task[t].party
           /\ task'[t].event = task[t].event
           /\ \A other \in Tasks \ {t} : task'[other] = task[other]
<1> DEFINE new == [task[t] EXCEPT !.pc = pc, !.row = NoBooking]
<1>1. task[t] \in Task
  BY DEF TypeOK
<1>2. /\ new \in Task
      /\ new.pc = pc
      /\ new.id = task[t].id /\ new.by = task[t].by /\ new.to = task[t].to
      /\ new.party = task[t].party /\ new.event = task[t].event
  BY <1>1 DEF Task
<1>3. task' = [task EXCEPT ![t] = new]
  BY DEF Goto
<1> HIDE DEF new
<1> QED
  BY <1>2, <1>3, PutTask

-----------------------------------------------------------------------------
(* One lemma per kind of step. *)

LEMMA CreateKeeps ==
    ASSUME IndInv, NEW t \in Tasks, NEW u \in Buyers, NEW s \in Services,
           NEW cost \in Offers \cup {NoCost}, CreateBooking(t, u, s, cost)
    PROVE  IndInv'
<1> DEFINE provider == Joined(CreatedBy[s])
           row == [service |-> s, user |-> u, provider |-> provider, status |-> "pending",
                   cost |-> cost, reviews |-> {}, reports |-> {}]
<1>1. PICK b \in Bookings :
          /\ IsNext(b, Booked, Bookings)
          /\ booking' = [booking EXCEPT ![b] = row]
          /\ supplied' = [supplied EXCEPT ![b] = cost]
          /\ Moves(t, [IdleTask EXCEPT !.pc = "announcing", !.id = b, !.to = "provider",
                                       !.party = provider])
  BY DEF CreateBooking
<1> DEFINE new == [IdleTask EXCEPT !.pc = "announcing", !.id = b, !.to = "provider",
                                   !.party = provider]
<1>2. provider \in Users \cup {Nobody} /\ u \in Users
  BY BookingAssumption, JoinedIs
<1> HIDE DEF provider
<1>3. /\ row \in Booking /\ row # NoBooking
      /\ row.status = "pending" /\ row.cost = cost /\ row.reviews = {}
      /\ Party(row, "provider") = provider
  BY <1>2, NullsApart DEF Booking, Status, Party, Costs
<1>4. b \notin Booked
  BY <1>1 DEF IsNext
<1>5. UNCHANGED <<price, suspended, reviewed, reported, told, reached, interrupted, overtaken>>
      /\ At(t, "idle") /\ TypeOK
  BY <1>1 DEF CreateBooking, Begins, Moves, IndInv
<1>6. task' = [task EXCEPT ![t] = new]
  BY <1>1 DEF Moves
<1>7. /\ new \in Task
      /\ new.pc = "announcing" /\ new.id = b /\ new.to = "provider" /\ new.party = provider
      /\ new.event = "pending"
  BY <1>2, IdleIsTask DEF Task, TaskPcs, Roles
<1> HIDE DEF row, new
<1>8. /\ task' \in [Tasks -> Task]
      /\ task'[t] = new
      /\ \A other \in Tasks \ {t} : task'[other] = task[other]
  BY <1>5, <1>6, <1>7, PutTask
<1>9. /\ Booked' = Booked \cup {b}
      /\ booking'[b] = row /\ supplied'[b] = cost
      /\ \A b1 \in Booked : /\ booking'[b1] = booking[b1]
                            /\ supplied'[b1] = supplied[b1]
  BY <1>1, <1>3, <1>4, <1>5 DEF Booked, TypeOK
<1>10. TypeOK'
  <2>1. booking' \in [Bookings -> Booking \cup {NoBooking}]
    BY <1>1, <1>3, <1>5 DEF TypeOK
  <2>2. supplied' \in [Bookings -> Offers \cup {NoCost}]
    BY <1>1, <1>5 DEF TypeOK
  <2> QED
    BY <1>5, <1>8, <2>1, <2>2 DEF TypeOK
<1>11. Grows
  BY <1>5, <1>9 DEF Grows
<1>12. TableInv'
  BY <1>3, <1>5, <1>9 DEF IndInv, TableInv, RightAbout, Milestones
<1>13. SaneInv'
  <2>1. Sane(t)'
    BY <1>7, <1>8, <1>9 DEF Sane, At
  <2> QED
    BY <1>8, <1>11, <2>1, OthersSane DEF IndInv
<1>14. ToldInv'
  <2>1. Told(b, "pending")'
    <3>1. "provider" \in Addressees("pending")
      BY DEF Addressees
    <3>2. CASE provider = Nobody
      BY <1>3, <1>9, <3>1, <3>2 DEF Told, HasLost
    <3>3. CASE provider # Nobody
      BY <1>7, <1>8, <3>1, <3>3 DEF Told, At
    <3> QED
      BY <3>2, <3>3
  <2>2. ASSUME NEW b1 \in Booked
        PROVE  Told(b1, booking[b1].status)'
    <3> PICK status : status = booking[b1].status
      OBVIOUS
    <3>1. Told(b1, status) /\ Addressees(status) \subseteq Roles
      BY <1>5, AddressedAreRoles DEF IndInv, ToldInv, TypeOK, Booked, Booking
    <3>2. Told(b1, status)'
      BY <1>5, <1>8, <1>9, <3>1, ToldPersists DEF At
    <3>3. booking'[b1].status = status
      BY <1>9
    <3> QED
      BY <3>2, <3>3 DEF Told, HasLost
  <2>3. booking'[b].status = "pending"
    BY <1>3, <1>9
  <2>4. Told(b, booking[b].status)'
    BY <2>1, <2>3 DEF Told, HasLost
  <2> QED
    BY <1>9, <2>2, <2>4 DEF ToldInv
<1> QED
  BY <1>10, <1>12, <1>13, <1>14 DEF IndInv

LEMMA StatusIs ==
    ASSUME TypeOK, NEW b \in Booked
    PROVE  /\ b \in Bookings
           /\ booking[b] \in Booking
           /\ booking[b].status \in Status
           /\ Addressees(booking[b].status) \subseteq Roles
BY AddressedAreRoles DEF TypeOK, Booked, Booking

\* A step of a request that writes no table and has nothing to tell.
LEMMA LocalKeeps ==
    ASSUME IndInv, NEW t \in Tasks, ~At(t, "announcing"), Sane(t)',
           task' \in [Tasks -> Task],
           \A other \in Tasks \ {t} : task'[other] = task[other],
           overtaken' \subseteq Tasks,
           UNCHANGED <<tables, told, history>>
    PROVE  IndInv'
<1>0. TypeOK
  BY DEF IndInv
<1>1. TypeOK'
  BY <1>0 DEF TypeOK, tables, history
<1>2. Grows /\ Booked' = Booked
  BY DEF Grows, Booked, tables, history
<1>3. TableInv'
  BY <1>2 DEF IndInv, TableInv, RightAbout, tables, history
<1>4. SaneInv'
  BY <1>2, OthersSane DEF IndInv
<1>5. ToldInv'
  <2> SUFFICES ASSUME NEW b \in Booked PROVE Told(b, booking[b].status)'
    BY <1>2 DEF ToldInv
  <2> PICK status : status = booking[b].status
    OBVIOUS
  <2>1. Told(b, status) /\ Addressees(status) \subseteq Roles
    BY <1>0, StatusIs DEF IndInv, ToldInv
  <2>2. booking' = booking /\ told' = told /\ interrupted' = interrupted
    BY DEF tables, history
  <2>3. Told(b, status)'
    BY <2>1, <2>2, ToldPersists
  <2> QED
    BY <2>2, <2>3 DEF Told, HasLost
<1> QED
  BY <1>1, <1>3, <1>4, <1>5 DEF IndInv

\* A step of a request that rewrites a booking.
LEMMA WriteKeeps ==
    ASSUME IndInv, NEW t \in Tasks, ~At(t, "announcing"), Sane(t)',
           task' \in [Tasks -> Task],
           \A other \in Tasks \ {t} : task'[other] = task[other],
           NEW b \in Booked, NEW row \in Booking, RightAbout(b, row),
           booking' = [booking EXCEPT ![b] = row],
           reached' = [reached EXCEPT ![b] = @ \cup ({row.status} \cap Milestones)],
           reviewed' \subseteq Reviews, reported' \subseteq Reports, overtaken' \subseteq Tasks,
           told' \subseteq told, \A n \in told : n.id # b => n \in told',
           interrupted' \subseteq Bookings,
           \A b1 \in interrupted : b1 # b => b1 \in interrupted',
           UNCHANGED <<price, suspended, supplied>>,
           Told(b, row.status)'
    PROVE  IndInv'
<1>1. b \in Bookings /\ row # NoBooking /\ row.status \in Status /\ TypeOK
  BY NullsApart DEF Booked, Booking, IndInv
<1>2. TypeOK'
  <2>1. booking' \in [Bookings -> Booking \cup {NoBooking}]
    BY <1>1 DEF TypeOK
  <2>2. reached' \in [Bookings -> SUBSET Milestones]
    BY <1>1 DEF TypeOK
  <2> QED
    BY <1>1, <2>1, <2>2 DEF TypeOK
<1>3. /\ Booked' = Booked
      /\ booking'[b] = row
      /\ reached'[b] = reached[b] \cup ({row.status} \cap Milestones)
      /\ \A b1 \in Booked \ {b} : booking'[b1] = booking[b1] /\ reached'[b1] = reached[b1]
  BY <1>1 DEF Booked, TypeOK
<1>4. Grows
  BY <1>3 DEF Grows
<1>5. TableInv'
  BY <1>3 DEF IndInv, TableInv, RightAbout
<1>6. SaneInv'
  BY <1>4, OthersSane DEF IndInv
<1>7. ToldInv'
  <2>1. ASSUME NEW b1 \in Booked, b1 # b
        PROVE  Told(b1, booking[b1].status)'
    <3> PICK status : status = booking[b1].status
      OBVIOUS
    <3>1. Told(b1, status) /\ Addressees(status) \subseteq Roles
      BY <1>1, StatusIs DEF IndInv, ToldInv
    <3>2. Told(b1, status)'
      BY <1>3, <2>1, <3>1, ToldPersists
    <3>3. booking'[b1].status = status
      BY <1>3, <2>1
    <3> QED
      BY <3>2, <3>3 DEF Told, HasLost
  <2>2. Told(b, booking[b].status)'
    BY <1>3 DEF Told, HasLost
  <2> QED
    BY <1>3, <2>1, <2>2 DEF ToldInv
<1> QED
  BY <1>2, <1>5, <1>6, <1>7 DEF IndInv

LEMMA HeldRow ==
    ASSUME IndInv, NEW b \in Booked, NEW status \in AllowedTransitions(booking[b].status)
    PROVE  LET row == [GetBookingById(b) EXCEPT !.status = status]
           IN  /\ row \in Booking
               /\ row.status = status
               /\ IdsOf(row.reviews) = IdsOf(booking[b].reviews)
               /\ row.reports = booking[b].reports
               /\ RightAbout(b, row)
               /\ \A to \in Roles : Party(row, to) = Party(GetBookingById(b), to)
<1> PICK read : read = GetBookingById(b)
  OBVIOUS
<1>1. /\ read \in Booking
      /\ IdsOf(read.reviews) = IdsOf(booking[b].reviews)
      /\ read.reviews # {} => booking[b].reviews # {}
      /\ read.reports = booking[b].reports
      /\ booking[b].cost # NoCost => read.cost = booking[b].cost
  BY ReadRow DEF IndInv
<1> PICK row : row = [read EXCEPT !.status = status]
  OBVIOUS
<1>2. status \in Status
  BY AllowedAreStatuses
<1>3. /\ row \in Booking /\ row.status = status
      /\ row.cost = read.cost /\ row.reviews = read.reviews /\ row.reports = read.reports
      /\ \A to \in Roles : Party(row, to) = Party(read, to)
  BY <1>1, <1>2, WithStatus
<1>4. supplied[b] # NoCost => row.cost = supplied[b]
  <2>1. supplied[b] # NoCost => booking[b].cost = supplied[b]
    BY DEF IndInv, TableInv, RightAbout
  <2> QED
    BY <1>1, <1>3, <2>1
<1>5. row.status = "completed" => "scheduled" \in reached[b]
  BY <1>3, AllowedAreStatuses DEF IndInv, TableInv, Milestones
<1>6. row.reviews # {} => "completed" \in reached[b]
  BY <1>1, <1>3 DEF IndInv, TableInv, RightAbout
<1>7. RightAbout(b, row)
  BY <1>4, <1>5, <1>6 DEF RightAbout
<1> QED
  BY <1>1, <1>3, <1>7

\* What a request holds after it has changed the entity.
LEMMA RewritesSets ==
    ASSUME IndInv, NEW t \in Tasks, NEW b \in Booked,
           NEW status \in AllowedTransitions(booking[b].status),
           NEW to \in Addressees(status), Rewrites(t, b, status, to)
    PROVE  /\ task' \in [Tasks -> Task]
           /\ task'[t].pc = "saving"
           /\ task'[t].id = b
           /\ task'[t].to = to
           /\ task'[t].event = status
           /\ task'[t].row = [GetBookingById(b) EXCEPT !.status = status]
           /\ task'[t].party = Party(task'[t].row, to)
           /\ \A other \in Tasks \ {t} : task'[other] = task[other]
<1> PICK read : read = GetBookingById(b)
  OBVIOUS
<1> PICK row : row = [read EXCEPT !.status = status]
  OBVIOUS
<1> PICK party : party = Party(read, to)
  OBVIOUS
<1> DEFINE new == [IdleTask EXCEPT !.pc = "saving", !.id = b, !.to = to, !.event = status,
                                   !.row = row, !.party = party]
<1>1. b \in Bookings /\ status \in Status /\ to \in Roles
  BY AllowedAreStatuses, AddressedAreRoles DEF Booked
<1>2. row \in Booking /\ party = Party(row, to) /\ party \in Users \cup {Nobody}
  BY <1>1, HeldRow, PartyIs
<1>3. /\ new \in Task
      /\ new.pc = "saving" /\ new.id = b /\ new.to = to /\ new.event = status
      /\ new.row = row /\ new.party = party
  BY <1>1, <1>2, IdleIsTask DEF Task, TaskPcs
<1>4. task' = [task EXCEPT ![t] = new]
  BY DEF Rewrites, Moves
<1> HIDE DEF new
<1>5. TypeOK
  BY DEF IndInv
<1> QED
  BY <1>2, <1>3, <1>4, <1>5, PutTask

\* Both handlers that rewrite a booking: the new status is allowed, and told to
\* the other party.
LEMMA RewritesKeeps ==
    ASSUME IndInv, NEW t \in Tasks, At(t, "idle"), NEW b \in Booked,
           NEW status \in AllowedTransitions(booking[b].status),
           NEW to \in Addressees(status), Rewrites(t, b, status, to),
           UNCHANGED <<tables, told, history>>
    PROVE  IndInv'
<1> PICK row : row = [GetBookingById(b) EXCEPT !.status = status]
  OBVIOUS
<1>1. /\ row \in Booking
      /\ row.status = status
      /\ RightAbout(b, row)
  BY HeldRow
<1>2. status # "pending"
  BY AllowedAreStatuses
<1>3. /\ task' \in [Tasks -> Task]
      /\ task'[t].pc = "saving" /\ task'[t].id = b /\ task'[t].row = row
      /\ task'[t].to = to /\ task'[t].event = status
      /\ task'[t].party = Party(row, to)
      /\ \A other \in Tasks \ {t} : task'[other] = task[other]
  BY RewritesSets
<1>4. Sane(t)'
  <2>1. Booked' = Booked /\ supplied' = supplied /\ reached' = reached
    BY DEF Booked, tables, history
  <2> QED
    BY <1>1, <1>2, <1>3, <2>1 DEF Sane, At, RightAbout
<1>5. overtaken' \subseteq Tasks
  BY DEF Rewrites, Moves, IndInv, TypeOK
<1> QED
  BY <1>3, <1>4, <1>5, LocalKeeps DEF At

\* Both handlers reach the change with a status that is allowed.
LEMMA UpdateRewrites ==
    ASSUME NEW t \in Tasks, NEW u \in Users, NEW b \in Bookings,
           NEW status \in Status \ {"pending"}, UpdateBookingStatus(t, u, b, status)
    PROVE  /\ At(t, "idle") /\ b \in Booked
           /\ status \in AllowedTransitions(booking[b].status)
           /\ "customer" \in Addressees(status)
           /\ Rewrites(t, b, status, "customer")
           /\ UNCHANGED <<tables, told, history>>
BY DEF UpdateBookingStatus, Begins, Addressees, Roles, Status

LEMMA CancelRewrites ==
    ASSUME TypeOK, NEW t \in Tasks, NEW u \in Users, NEW b \in Bookings,
           CancelBooking(t, u, b)
    PROVE  /\ At(t, "idle") /\ b \in Booked
           /\ "cancelled" \in AllowedTransitions(booking[b].status)
           /\ "provider" \in Addressees("cancelled")
           /\ Rewrites(t, b, "cancelled", "provider")
           /\ UNCHANGED <<tables, told, history>>
<1>1. /\ At(t, "idle") /\ b \in Booked
      /\ booking[b].status \notin {"completed", "cancelled"}
      /\ Rewrites(t, b, "cancelled", "provider")
      /\ UNCHANGED <<tables, told, history>>
  BY DEF CancelBooking, Begins
<1>2. "cancelled" \in AllowedTransitions(booking[b].status)
  BY <1>1 DEF AllowedTransitions, TypeOK, Booked, Booking, Status
<1> QED
  BY <1>1, <1>2 DEF Addressees, Roles

LEMMA SaveBookingKeeps ==
    ASSUME IndInv, NEW t \in Tasks, SaveBooking(t)
    PROVE  IndInv'
<1> PICK own : own = task[t]
  OBVIOUS
<1>1. /\ At(t, "saving")
      /\ booking' = [booking EXCEPT ![own.id] = own.row]
      /\ reached' = [reached EXCEPT ![own.id] = @ \cup ({own.row.status} \cap Milestones)]
      /\ Goto(t, "announcing")
      /\ told' = {n \in told : n.id # own.id}
      /\ interrupted' = interrupted \ {own.id}
      /\ Overtakes(t, own.id)
      /\ UNCHANGED <<price, suspended, reviewed, reported, supplied>>
  BY DEF SaveBooking
<1>2. /\ TypeOK
      /\ own.id \in Booked /\ own.id \in Bookings /\ own.row \in Booking
      /\ RightAbout(own.id, own.row)
      /\ own.event = own.row.status /\ own.to \in Addressees(own.event)
      /\ own.party = Party(own.row, own.to)
  BY <1>1 DEF IndInv, SaneInv, Sane, At, Booked
<1>3. /\ task' \in [Tasks -> Task]
      /\ task'[t].pc = "announcing" /\ task'[t].id = own.id /\ task'[t].to = own.to
      /\ task'[t].party = own.party /\ task'[t].event = own.event
      /\ \A other \in Tasks \ {t} : task'[other] = task[other]
  <2>1. "announcing" \in TaskPcs
    BY DEF TaskPcs
  <2> QED
    BY <1>1, <1>2, <2>1, GotoSets
<1>4. own.id \in Booked' /\ booking'[own.id] = own.row
  BY <1>1, <1>2, NullsApart DEF Booked, TypeOK
<1>5. Sane(t)'
  BY <1>3, <1>4 DEF Sane, At
<1>6. Told(own.id, own.row.status)'
  <2>1. CASE own.party = Nobody
    BY <1>2, <1>4, <2>1 DEF Told, HasLost
  <2>2. CASE own.party # Nobody
    BY <1>2, <1>3, <2>2 DEF Told, At
  <2> QED
    BY <2>1, <2>2
<1>7. /\ reviewed' \subseteq Reviews /\ reported' \subseteq Reports
      /\ overtaken' \subseteq Tasks /\ interrupted' \subseteq Bookings
  BY <1>1, <1>2 DEF TypeOK, Overtakes
<1>8. /\ told' \subseteq told /\ \A n \in told : n.id # own.id => n \in told'
      /\ \A b1 \in interrupted : b1 # own.id => b1 \in interrupted'
      /\ UNCHANGED <<price, suspended, supplied>>
  BY <1>1
<1> QED
  BY <1>1, <1>2, <1>3, <1>5, <1>6, <1>7, <1>8, WriteKeeps DEF At

LEMMA HistoryFrame ==
    ASSUME UNCHANGED <<tables, told, history>>
    PROVE  Grows
BY DEF Grows, Booked, tables, history

LEMMA OpenReviewSets ==
    ASSUME TypeOK, NEW t \in Tasks, NEW u \in Users, NEW b \in Bookings, OpenReview(t, u, b)
    PROVE  /\ At(t, "idle") /\ b \in Booked
           /\ task' \in [Tasks -> Task]
           /\ task'[t].pc = "reviewing" /\ task'[t].id = b /\ task'[t].by = u
           /\ \A other \in Tasks \ {t} : task'[other] = task[other]
           /\ UNCHANGED <<tables, told, history, overtaken>>
<1>1. /\ At(t, "idle") /\ b \in Booked
      /\ UNCHANGED <<tables, told, history, overtaken>>
  BY DEF OpenReview, Begins, Moves
<1> PICK party : party = Joined(booking[b].provider)
  OBVIOUS
<1>2. party \in Users \cup {Nobody}
  BY <1>1, StatusIs, JoinedIs DEF Booking
<1> DEFINE new == [IdleTask EXCEPT !.pc = "reviewing", !.id = b, !.by = u,
                                   !.to = "provider", !.party = party, !.event = "reviewed"]
<1>3. new \in Task /\ new.pc = "reviewing" /\ new.id = b /\ new.by = u
  BY <1>2, IdleIsTask DEF Task, TaskPcs, Roles
<1>4. task' = [task EXCEPT ![t] = new]
  BY DEF OpenReview, Moves
<1> HIDE DEF new
<1> QED
  BY <1>1, <1>3, <1>4, PutTask

LEMMA OpenReportSets ==
    ASSUME TypeOK, NEW t \in Tasks, NEW u \in Users, NEW b \in Bookings, OpenReport(t, u, b)
    PROVE  /\ At(t, "idle") /\ b \in Booked
           /\ task' \in [Tasks -> Task]
           /\ task'[t].pc = "reporting" /\ task'[t].id = b
           /\ \A other \in Tasks \ {t} : task'[other] = task[other]
           /\ UNCHANGED <<tables, told, history, overtaken>>
<1>1. /\ At(t, "idle") /\ b \in Booked
      /\ UNCHANGED <<tables, told, history, overtaken>>
  BY DEF OpenReport, Begins, Moves
<1> DEFINE new == [IdleTask EXCEPT !.pc = "reporting", !.id = b]
<1>2. new \in Task /\ new.pc = "reporting" /\ new.id = b
  BY IdleIsTask DEF Task, TaskPcs
<1>3. task' = [task EXCEPT ![t] = new]
  BY DEF OpenReport, Moves
<1> HIDE DEF new
<1> QED
  BY <1>1, <1>2, <1>3, PutTask

LEMMA OpenKeeps ==
    ASSUME IndInv, NEW t \in Tasks, NEW u \in Users, NEW b \in Bookings,
           OpenReview(t, u, b) \/ OpenReport(t, u, b)
    PROVE  IndInv'
<1>1. TypeOK /\ u # Nobody /\ overtaken \subseteq Tasks
  BY NullsApart DEF IndInv, TypeOK
<1>2. CASE OpenReview(t, u, b)
  <2>1. /\ At(t, "idle") /\ b \in Booked
        /\ task' \in [Tasks -> Task]
        /\ task'[t].pc = "reviewing" /\ task'[t].id = b /\ task'[t].by = u
        /\ \A other \in Tasks \ {t} : task'[other] = task[other]
        /\ UNCHANGED <<tables, told, history, overtaken>>
    BY <1>1, <1>2, OpenReviewSets
  <2>2. "completed" \in reached[b]
    BY <1>2, <2>1 DEF OpenReview, MayReview, IndInv, TableInv, Milestones
  <2>3. Sane(t)'
    BY <1>1, <2>1, <2>2 DEF Sane, At, tables, history, Booked
  <2> QED
    BY <1>1, <2>1, <2>3, LocalKeeps DEF At
<1>3. CASE OpenReport(t, u, b)
  <2>1. /\ At(t, "idle") /\ b \in Booked
        /\ task' \in [Tasks -> Task]
        /\ task'[t].pc = "reporting" /\ task'[t].id = b
        /\ \A other \in Tasks \ {t} : task'[other] = task[other]
        /\ UNCHANGED <<tables, told, history, overtaken>>
    BY <1>1, <1>3, OpenReportSets
  <2>2. Sane(t)'
    BY <2>1 DEF Sane, At, tables, Booked
  <2> QED
    BY <1>1, <2>1, <2>2, LocalKeeps DEF At
<1> QED
  BY <1>2, <1>3

LEMMA ReturnKeeps ==
    ASSUME IndInv, NEW t \in Tasks, ~At(t, "announcing"), Returns(t),
           UNCHANGED <<tables, told, history>>
    PROVE  IndInv'
<1>1. TypeOK /\ task' = [task EXCEPT ![t] = IdleTask] /\ overtaken' \subseteq Tasks
  BY DEF IndInv, Returns, TypeOK
<1>2. /\ task' \in [Tasks -> Task]
      /\ task'[t] = IdleTask
      /\ \A other \in Tasks \ {t} : task'[other] = task[other]
  BY <1>1, ReturnsSets
<1> QED
  BY <1>1, <1>2, IdleIsSane, LocalKeeps

LEMMA BusyTask ==
    ASSUME IndInv, NEW t \in Tasks, ~At(t, "idle")
    PROVE  /\ task[t] \in Task
           /\ task[t].id \in Booked
           /\ task[t].id \in Bookings
           /\ task[t].to \in Roles
           /\ task[t].event \in Status \cup {"reviewed"}
           /\ task[t].pc \in {"reviewing", "savingReview"} =>
                 /\ task[t].by \in Users
                 /\ "completed" \in reached[task[t].id]
BY DEF IndInv, SaneInv, Sane, Booked, TypeOK, Task

LEMMA LookKeeps ==
    ASSUME IndInv, NEW t \in Tasks, LookForReview(t)
    PROVE  IndInv'
<1>1. /\ At(t, "reviewing") /\ ~At(t, "idle") /\ ~At(t, "announcing")
      /\ UNCHANGED <<tables, told, history>>
      /\ (Goto(t, "savingReview") /\ UNCHANGED overtaken) \/ Returns(t)
  BY DEF LookForReview, At
<1>2. CASE Goto(t, "savingReview") /\ UNCHANGED overtaken
  <2>1. /\ task[t].id \in Booked /\ task[t].by # Nobody
        /\ "completed" \in reached[task[t].id]
    BY <1>1, BusyTask, NullsApart DEF At
  <2>2. "savingReview" \in TaskPcs /\ TypeOK
    BY DEF TaskPcs, IndInv
  <2>3. /\ task' \in [Tasks -> Task]
        /\ task'[t].pc = "savingReview" /\ task'[t].id = task[t].id /\ task'[t].by = task[t].by
        /\ \A other \in Tasks \ {t} : task'[other] = task[other]
    BY <1>2, <2>2, GotoSets
  <2>4. Sane(t)'
    BY <1>1, <2>1, <2>3 DEF Sane, At, tables, history, Booked
  <2>5. overtaken' \subseteq Tasks
    BY <1>2, <2>2 DEF TypeOK
  <2> QED
    BY <1>1, <2>3, <2>4, <2>5, LocalKeeps
<1>3. CASE Returns(t)
  BY <1>1, <1>3, ReturnKeeps
<1> QED
  BY <1>1, <1>2, <1>3

\* Reviews and reports are new rows that refer to the booking.
LEMMA WithLists ==
    ASSUME IndInv, NEW b \in Booked, NEW row,
           \/ \E r \in Review : /\ row = [booking[b] EXCEPT !.reviews = @ \cup {r}]
                                /\ "completed" \in reached[b]
           \/ \E r \in Reports : row = [booking[b] EXCEPT !.reports = @ \cup {r}]
    PROVE  /\ row \in Booking /\ RightAbout(b, row) /\ row.status = booking[b].status
           /\ \A to \in Roles : Party(row, to) = Party(booking[b], to)
<1> PICK old : old = booking[b]
  OBVIOUS
<1>1. old \in Booking /\ RightAbout(b, old)
  BY DEF IndInv, TypeOK, Booked, TableInv
<1>2. CASE \E r \in Review : /\ row = [old EXCEPT !.reviews = @ \cup {r}]
                             /\ "completed" \in reached[b]
  <2>1. /\ row \in Booking /\ row.status = old.status /\ row.cost = old.cost
        /\ row.user = old.user /\ row.provider = old.provider
        /\ "completed" \in reached[b]
    BY <1>1, <1>2 DEF Booking
  <2> QED
    BY <1>1, <2>1 DEF RightAbout, Party
<1>3. CASE \E r \in Reports : row = [old EXCEPT !.reports = @ \cup {r}]
  <2>1. /\ row \in Booking /\ row.status = old.status /\ row.cost = old.cost
        /\ row.user = old.user /\ row.provider = old.provider
        /\ row.reviews = old.reviews
    BY <1>1, <1>3 DEF Booking
  <2> QED
    BY <1>1, <2>1 DEF RightAbout, Party
<1> QED
  BY <1>2, <1>3

\* A write that leaves the status and the parties alone.
LEMMA ListWriteKeeps ==
    ASSUME IndInv, NEW t \in Tasks, ~At(t, "announcing"), Sane(t)',
           task' \in [Tasks -> Task],
           \A other \in Tasks \ {t} : task'[other] = task[other],
           NEW b \in Booked, NEW row \in Booking, RightAbout(b, row),
           row.status = booking[b].status,
           \A to \in Roles : Party(row, to) = Party(booking[b], to),
           booking' = [booking EXCEPT ![b] = row],
           reviewed' \subseteq Reviews, reported' \subseteq Reports, overtaken' \subseteq Tasks,
           UNCHANGED <<price, suspended, told, history>>
    PROVE  IndInv'
<1>1. TypeOK /\ b \in Bookings /\ Addressees(row.status) \subseteq Roles
  BY StatusIs DEF IndInv
<1>2. /\ told' = told /\ supplied' = supplied /\ reached' = reached
      /\ interrupted' = interrupted /\ interrupted \subseteq Bookings
      /\ UNCHANGED <<price, suspended, supplied>>
  BY <1>1 DEF history, TypeOK
<1>3. reached' = [reached EXCEPT ![b] = @ \cup ({row.status} \cap Milestones)]
  <2>1. reached[b] \cup ({row.status} \cap Milestones) = reached[b]
    BY DEF IndInv, TableInv
  <2> QED
    BY <1>1, <1>2, <2>1 DEF TypeOK
<1>4. booking'[b] = row
  BY <1>1 DEF TypeOK
<1>5. Told(b, row.status)
  BY DEF IndInv, ToldInv
<1>6. Told(b, row.status)'
  <2> PICK status : status = row.status
    OBVIOUS
  <2> QED
    BY <1>1, <1>2, <1>4, <1>5, ToldPersists
<1> QED
  BY <1>2, <1>3, <1>6, WriteKeeps

LEMMA SaveReviewKeeps ==
    ASSUME IndInv, NEW t \in Tasks, SaveReview(t)
    PROVE  IndInv'
<1> PICK own : own = task[t]
  OBVIOUS
<1>1. PICK r \in Reviews :
          /\ reviewed' = reviewed \cup {r}
          /\ booking' = [booking EXCEPT ![own.id].reviews = @ \cup {[id |-> r, by |-> own.by]}]
  BY DEF SaveReview
<1>2. /\ At(t, "savingReview") /\ ~At(t, "idle") /\ ~At(t, "announcing")
      /\ Goto(t, "announcing") /\ Overtakes(t, own.id)
      /\ UNCHANGED <<price, suspended, reported, told, history>>
  BY DEF SaveReview, At
<1>3. /\ own.id \in Booked /\ own.id \in Bookings /\ own.by \in Users
      /\ "completed" \in reached[own.id]
  BY <1>2, BusyTask DEF At
<1>4. [id |-> r, by |-> own.by] \in Review
  BY <1>3 DEF Review
<1> PICK row : row = [booking[own.id] EXCEPT !.reviews = @ \cup {[id |-> r, by |-> own.by]}]
  OBVIOUS
<1>5. /\ row \in Booking /\ RightAbout(own.id, row) /\ row.status = booking[own.id].status
      /\ \A to \in Roles : Party(row, to) = Party(booking[own.id], to)
  BY <1>3, <1>4, WithLists
<1>6. booking' = [booking EXCEPT ![own.id] = row]
  BY <1>1
<1>7. TypeOK /\ "announcing" \in TaskPcs
  BY DEF IndInv, TaskPcs
<1>8. /\ task' \in [Tasks -> Task]
      /\ task'[t].pc = "announcing" /\ task'[t].id = own.id
      /\ \A other \in Tasks \ {t} : task'[other] = task[other]
  BY <1>2, <1>7, GotoSets
<1>9. own.id \in Booked'
  BY <1>3, <1>5, <1>6, <1>7, NullsApart DEF Booked, TypeOK
<1>10. Sane(t)'
  BY <1>8, <1>9 DEF Sane, At
<1>11. reviewed' \subseteq Reviews /\ reported' \subseteq Reports /\ overtaken' \subseteq Tasks
  BY <1>1, <1>2, <1>7 DEF TypeOK, Overtakes
<1>12. UNCHANGED <<price, suspended, told, history>>
  BY <1>2
<1> QED
  BY <1>2, <1>3, <1>5, <1>6, <1>8, <1>10, <1>11, <1>12, ListWriteKeeps

LEMMA SaveReportKeeps ==
    ASSUME IndInv, NEW t \in Tasks, SaveReport(t)
    PROVE  IndInv'
<1> PICK own : own = task[t]
  OBVIOUS
<1>1. PICK r \in Reports :
          /\ reported' = reported \cup {r}
          /\ booking' = [booking EXCEPT ![own.id].reports = @ \cup {r}]
  BY DEF SaveReport
<1>2. /\ At(t, "reporting") /\ ~At(t, "idle") /\ ~At(t, "announcing")
      /\ task' = [task EXCEPT ![t] = IdleTask] /\ Overtakes(t, own.id)
      /\ UNCHANGED <<price, suspended, reviewed, told, history>>
  BY DEF SaveReport, At
<1>3. own.id \in Booked /\ own.id \in Bookings
  BY <1>2, BusyTask
<1> PICK row : row = [booking[own.id] EXCEPT !.reports = @ \cup {r}]
  OBVIOUS
<1>4. /\ row \in Booking /\ RightAbout(own.id, row) /\ row.status = booking[own.id].status
      /\ \A to \in Roles : Party(row, to) = Party(booking[own.id], to)
  BY <1>3, WithLists
<1>5. booking' = [booking EXCEPT ![own.id] = row]
  BY <1>1
<1>6. TypeOK
  BY DEF IndInv
<1>7. /\ task' \in [Tasks -> Task]
      /\ task'[t] = IdleTask
      /\ \A other \in Tasks \ {t} : task'[other] = task[other]
  BY <1>2, <1>6, ReturnsSets
<1>8. Sane(t)'
  BY <1>7, IdleIsSane
<1>9. reviewed' \subseteq Reviews /\ reported' \subseteq Reports /\ overtaken' \subseteq Tasks
  BY <1>1, <1>2, <1>6 DEF TypeOK, Overtakes
<1>10. UNCHANGED <<price, suspended, told, history>>
  BY <1>2
<1> QED
  BY <1>2, <1>3, <1>4, <1>5, <1>7, <1>8, <1>9, <1>10, ListWriteKeeps

\* The event goes out, or its party is null; the request is over either way.
LEMMA EndKeeps ==
    ASSUME IndInv, NEW t \in Tasks, Announce(t) \/ AnnounceThrows(t)
    PROVE  IndInv'
<1> PICK own : own = task[t]
  OBVIOUS
<1> PICK notice : notice = [id |-> own.id, to |-> own.to, event |-> own.event]
  OBVIOUS
<1>1. /\ own.pc = "announcing"
      /\ task' = [task EXCEPT ![t] = IdleTask]
      /\ told \subseteq told'
      /\ own.party # Nobody => notice \in told'
      /\ told' \subseteq told \cup {notice}
      /\ overtaken' \subseteq overtaken
      /\ UNCHANGED <<tables, history>>
  BY DEF Announce, AnnounceThrows, At, Returns
<1>2. /\ TypeOK
      /\ task' \in [Tasks -> Task]
      /\ task'[t] = IdleTask
      /\ \A other \in Tasks \ {t} : task'[other] = task[other]
  BY <1>1, ReturnsSets DEF IndInv
<1>3. notice \in Notice
  BY <1>1, BusyTask DEF Notice, At
<1>4. TypeOK'
  BY <1>1, <1>2, <1>3 DEF TypeOK, tables, history
<1>5. Grows /\ Booked' = Booked /\ booking' = booking /\ interrupted' = interrupted
  BY <1>1 DEF Grows, Booked, tables, history
<1>6. TableInv'
  BY <1>1, <1>5 DEF IndInv, TableInv, RightAbout, tables, history
<1>7. SaneInv'
  BY <1>2, <1>5, IdleIsSane, OthersSane DEF IndInv
<1>8. ToldInv'
  <2> SUFFICES ASSUME NEW b \in Booked PROVE Told(b, booking[b].status)'
    BY <1>5 DEF ToldInv
  <2> PICK status : status = booking[b].status
    OBVIOUS
  <2>1. Told(b, status)
    BY DEF IndInv, ToldInv
  <2>2. Told(b, status)'
    <3>1. CASE \E to \in Addressees(status) : [id |-> b, to |-> to, event |-> status] \in told
      BY <1>1, <3>1 DEF Told
    <3>2. CASE b \in interrupted
      BY <1>5, <3>2 DEF Told
    <3>3. CASE /\ own.id = b /\ own.event = status /\ own.to \in Addressees(status)
               /\ own.party # Nobody
      BY <1>1, <3>3 DEF Told
    <3>4. CASE \E other \in Tasks \ {t} : /\ At(other, "announcing")
                                          /\ task[other].id = b
                                          /\ task[other].event = status
                                          /\ task[other].to \in Addressees(status)
                                          /\ task[other].party # Nobody
      BY <1>2, <3>4 DEF Told, At
    <3>5. CASE HasLost(b, status)
      BY <1>5, <3>5 DEF Told, HasLost
    <3> QED
      BY <2>1, <3>1, <3>2, <3>3, <3>4, <3>5 DEF Told
  <2> QED
    BY <1>5, <2>2 DEF Told, HasLost
<1> QED
  BY <1>4, <1>6, <1>7, <1>8 DEF IndInv

\* Prices change, users are suspended and come back.
LEMMA OutsideKeeps ==
    ASSUME IndInv,
           \/ \E s \in Services, cost \in Prices \cup {NoCost} : ChangePrice(s, cost)
           \/ \E u \in Users : Suspend(u) \/ Reactivate(u)
    PROVE  IndInv'
<1>1. /\ UNCHANGED <<booking, reviewed, reported, task, told, history>>
      /\ price' \in [Services -> Prices \cup {NoCost}]
      /\ suspended' \subseteq Users /\ overtaken' \subseteq Tasks
  BY DEF ChangePrice, Suspend, Reactivate, IndInv, TypeOK
<1>2. TypeOK'
  BY <1>1 DEF IndInv, TypeOK, history
<1>3. TableInv' /\ SaneInv'
  BY <1>1 DEF IndInv, TableInv, SaneInv, Sane, RightAbout, At, Booked, history
<1>4. ToldInv'
  BY <1>1 DEF IndInv, ToldInv, Told, HasLost, At, Booked, history
<1> QED
  BY <1>2, <1>3, <1>4 DEF IndInv

LEMMA StopKeeps ==
    ASSUME IndInv, ProcessStops
    PROVE  IndInv'
<1>1. /\ UNCHANGED <<tables, told, supplied, reached>>
      /\ interrupted' = interrupted \cup Unannounced
      /\ task' = [t \in Tasks |-> IdleTask]
      /\ overtaken' = {}
  BY DEF ProcessStops
<1>2. TypeOK'
  <2>1. Unannounced \subseteq Bookings
    BY BusyTask DEF Unannounced, At
  <2> QED
    BY <1>1, <2>1, IdleIsTask DEF IndInv, TypeOK, tables
<1>3. TableInv'
  BY <1>1 DEF IndInv, TableInv, RightAbout, Booked, tables
<1>4. SaneInv'
  BY <1>1, IdleIsSane DEF SaneInv
<1>5. ToldInv'
  <2> SUFFICES ASSUME NEW b \in Booked PROVE Told(b, booking[b].status)'
    BY <1>1 DEF ToldInv, Booked, tables
  <2>1. booking' = booking
    BY <1>1 DEF tables
  <2> PICK status : status = booking[b].status
    OBVIOUS
  <2>2. Told(b, status) /\ status \in Status
    BY StatusIs DEF IndInv, ToldInv
  <2>3. Told(b, status)'
    BY <1>1, <2>1, <2>2 DEF Told, HasLost, Unannounced
  <2> QED
    BY <2>1, <2>3 DEF Told, HasLost
<1> QED
  BY <1>2, <1>3, <1>4, <1>5 DEF IndInv

LEMMA InitInd == Init => IndInv
<1> SUFFICES ASSUME Init PROVE IndInv
  OBVIOUS
<1>1. TypeOK
  BY IdleIsTask DEF Init, TypeOK
<1>2. Booked = {}
  BY DEF Init, Booked
<1>3. SaneInv
  BY IdleIsTask DEF Init, SaneInv, Sane, At
<1> QED
  BY <1>1, <1>2, <1>3 DEF IndInv, TableInv, ToldInv

LEMMA AskKeeps ==
    ASSUME IndInv, NEW t \in Tasks, NEW u \in Users, Asks(t, u)
    PROVE  IndInv'
<1>1. ASSUME NEW b \in Bookings, NEW status \in Status \ {"pending"},
             UpdateBookingStatus(t, u, b, status)
      PROVE  IndInv'
  BY <1>1, UpdateRewrites, RewritesKeeps
<1>2. ASSUME NEW b \in Bookings, CancelBooking(t, u, b)
      PROVE  IndInv'
  BY <1>2, CancelRewrites, RewritesKeeps DEF IndInv
<1> QED
  BY <1>1, <1>2, CreateKeeps, OpenKeeps DEF Asks

LEMMA NextInd == IndInv /\ [Next]_vars => IndInv'
<1> SUFFICES ASSUME IndInv, [Next]_vars PROVE IndInv'
  OBVIOUS
<1>1. ASSUME NEW t \in Tasks, Advances(t)
      PROVE  IndInv'
  BY <1>1, SaveBookingKeeps, LookKeeps, SaveReviewKeeps, SaveReportKeeps, EndKeeps
     DEF Advances
<1>2. ASSUME NEW t \in Tasks, RequestThrows(t)
      PROVE  IndInv'
  BY <1>2, ReturnKeeps DEF RequestThrows, At
<1>3. CASE UNCHANGED vars
  <2>1. UNCHANGED <<tables, task, told, history, overtaken>>
    BY <1>3 DEF vars
  <2>2. TypeOK'
    BY <2>1 DEF IndInv, TypeOK, tables, history
  <2>3. TableInv' /\ SaneInv'
    BY <2>1 DEF IndInv, TableInv, SaneInv, Sane, RightAbout, At, Booked, tables, history
  <2>4. ToldInv'
    BY <2>1 DEF IndInv, ToldInv, Told, HasLost, At, Booked, tables, history
  <2> QED
    BY <2>2, <2>3, <2>4 DEF IndInv
<1> QED
  BY <1>1, <1>2, <1>3, AskKeeps, OutsideKeeps, StopKeeps DEF Next

-----------------------------------------------------------------------------
(* A request nobody has overtaken holds what the table holds. *)

\* The part of FreshInv that is about one request.
Current(t) ==
    /\ At(t, "saving") =>
          /\ task[t].row.status \in AllowedTransitions(booking[task[t].id].status)
          /\ IdsOf(task[t].row.reviews) = IdsOf(booking[task[t].id].reviews)
          /\ task[t].row.reports = booking[task[t].id].reports
    /\ task[t].pc \in {"reviewing", "savingReview"} =>
          /\ booking[task[t].id].status = "completed"
          /\ task[t].by \notin suspended
    /\ At(t, "savingReview") => \A r \in booking[task[t].id].reviews : r.by # task[t].by

LEMMA FreshIsCurrent == FreshInv <=> \A t \in Tasks \ overtaken : Current(t)
BY DEF FreshInv, Current

\* Outside the flows that hold a booking there is nothing to be stale.
LEMMA PlainCurrent ==
    ASSUME NEW t \in Tasks, task'[t].pc \notin HoldingPcs
    PROVE  Current(t)'
BY DEF Current, At, HoldingPcs

\* A request keeps what it holds while neither it, its booking nor its customer
\* changes.
LEMMA CurrentPersists ==
    ASSUME NEW t \in Tasks, Current(t), task'[t] = task[t],
           task[t].pc \in HoldingPcs => booking'[task[t].id] = booking[task[t].id],
           task[t].pc \in HoldingPcs /\ task[t].by \notin suspended => task[t].by \notin suspended'
    PROVE  Current(t)'
BY DEF Current, At, HoldingPcs, IdsOf

\* A step of a request that writes no table.
LEMMA FreshStep ==
    ASSUME FreshInv, NEW t \in Tasks, UNCHANGED tables, Current(t)' \/ t \in overtaken',
           overtaken \ {t} \subseteq overtaken',
           \A other \in Tasks \ {t} : task'[other] = task[other]
    PROVE  FreshInv'
<1> SUFFICES ASSUME NEW other \in Tasks \ overtaken', other # t PROVE Current(other)'
  BY DEF FreshInv, Current
<1>1. Current(other)
  BY FreshIsCurrent
<1> QED
  BY <1>1, CurrentPersists DEF tables

\* A step of a request that writes a booking overtakes those that hold it.
LEMMA FreshWrite ==
    ASSUME IndInv, FreshInv, NEW t \in Tasks, NEW b \in Bookings,
           \A b1 \in Bookings \ {b} : booking'[b1] = booking[b1],
           UNCHANGED suspended, task'[t].pc \notin HoldingPcs,
           \A o \in Tasks \ {t} : task[o].id = b /\ task[o].pc \in HoldingPcs => o \in overtaken',
           overtaken \ {t} \subseteq overtaken',
           \A other \in Tasks \ {t} : task'[other] = task[other]
    PROVE  FreshInv'
<1> SUFFICES ASSUME NEW other \in Tasks \ overtaken', other # t PROVE Current(other)'
  BY PlainCurrent DEF FreshInv, Current
<1>1. Current(other)
  BY FreshIsCurrent
<1>2. task[other].pc \in HoldingPcs => task[other].id \in Bookings \ {b}
  BY BusyTask DEF At, HoldingPcs
<1> QED
  BY <1>1, <1>2, CurrentPersists

LEMMA AskFresh ==
    ASSUME IndInv, FreshInv, NEW t \in Tasks, NEW u \in Users, Asks(t, u)
    PROVE  FreshInv'
<1>1. TypeOK
  BY DEF IndInv
<1>2. ASSUME NEW s \in Services, NEW cost \in Offers \cup {NoCost}, CreateBooking(t, u, s, cost)
      PROVE  FreshInv'
  <2> PICK provider : provider = Joined(CreatedBy[s])
    OBVIOUS
  <2>1. PICK b \in Bookings :
            /\ b \notin Booked
            /\ \E row : booking' = [booking EXCEPT ![b] = row]
            /\ Moves(t, [IdleTask EXCEPT !.pc = "announcing", !.id = b, !.to = "provider",
                                         !.party = provider])
    BY <1>2 DEF CreateBooking, IsNext
  <2> DEFINE new == [IdleTask EXCEPT !.pc = "announcing", !.id = b, !.to = "provider",
                                     !.party = provider]
  <2>2. provider \in Users \cup {Nobody}
    BY BookingAssumption, JoinedIs
  <2>3. new \in Task /\ new.pc = "announcing"
    BY <2>2, IdleIsTask DEF Task, TaskPcs, Roles
  <2>4. task' = [task EXCEPT ![t] = new] /\ overtaken' = overtaken
    BY <2>1 DEF Moves
  <2> HIDE DEF new
  <2>5. task'[t].pc \notin HoldingPcs /\ \A other \in Tasks \ {t} : task'[other] = task[other]
    BY <1>1, <2>3, <2>4, PutTask DEF HoldingPcs
  <2>6. \A b1 \in Bookings \ {b} : booking'[b1] = booking[b1]
    BY <1>1, <2>1 DEF TypeOK
  <2>7. \A o \in Tasks : task[o].pc \in HoldingPcs => task[o].id # b
    BY <2>1, BusyTask DEF At, HoldingPcs
  <2>8. suspended' = suspended
    BY <1>2 DEF CreateBooking
  <2> QED
    BY <2>4, <2>5, <2>6, <2>7, <2>8, FreshWrite
<1>3. ASSUME NEW b \in Booked, NEW status \in AllowedTransitions(booking[b].status),
             NEW to \in Addressees(status), Rewrites(t, b, status, to), UNCHANGED tables
      PROVE  FreshInv'
  <2> PICK row : row = [GetBookingById(b) EXCEPT !.status = status]
    OBVIOUS
  <2>1. /\ row.status = status
        /\ IdsOf(row.reviews) = IdsOf(booking[b].reviews) /\ row.reports = booking[b].reports
    BY HeldRow
  <2>2. /\ task'[t].pc = "saving" /\ task'[t].id = b /\ task'[t].row = row
        /\ \A other \in Tasks \ {t} : task'[other] = task[other]
    BY <1>3, RewritesSets
  <2>3. Current(t)'
    <3>1. booking' = booking
      BY <1>3 DEF tables
    <3> QED
      BY <2>1, <2>2, <3>1 DEF Current, At, IdsOf
  <2>4. overtaken' = overtaken
    BY <1>3 DEF Rewrites, Moves
  <2> QED
    BY <1>3, <2>2, <2>3, <2>4, FreshStep
<1>4. ASSUME NEW b \in Bookings, OpenReview(t, u, b)
      PROVE  FreshInv'
  <2>1. /\ b \in Booked
        /\ task'[t].pc = "reviewing" /\ task'[t].id = b /\ task'[t].by = u
        /\ \A other \in Tasks \ {t} : task'[other] = task[other]
        /\ UNCHANGED <<tables, overtaken>>
    BY <1>1, <1>4, OpenReviewSets
  <2>2. booking[b].status = "completed" /\ Joined(booking[b].user) = u
    BY <1>4 DEF OpenReview, MayReview
  <2>3. u \notin suspended
    BY <1>1, <2>1, <2>2, StatusIs, JoinedIs DEF Booking
  <2>4. Current(t)'
    BY <2>1, <2>2, <2>3 DEF Current, At, tables
  <2> QED
    BY <2>1, <2>4, FreshStep
<1>5. ASSUME NEW b \in Bookings, OpenReport(t, u, b)
      PROVE  FreshInv'
  <2>1. /\ task'[t].pc = "reporting"
        /\ \A other \in Tasks \ {t} : task'[other] = task[other]
        /\ UNCHANGED <<tables, overtaken>>
    BY <1>1, <1>5, OpenReportSets
  <2> QED
    BY <2>1, PlainCurrent, FreshStep DEF HoldingPcs
<1>6. ASSUME NEW b \in Bookings, NEW status \in Status \ {"pending"},
             UpdateBookingStatus(t, u, b, status)
      PROVE  FreshInv'
  <2>1. /\ b \in Booked
        /\ status \in AllowedTransitions(booking[b].status)
        /\ "customer" \in Addressees(status)
        /\ Rewrites(t, b, status, "customer")
        /\ UNCHANGED tables
    BY <1>6, UpdateRewrites
  <2> QED
    BY <1>3, <2>1
<1>7. ASSUME NEW b \in Bookings, CancelBooking(t, u, b)
      PROVE  FreshInv'
  <2>1. /\ b \in Booked
        /\ "cancelled" \in AllowedTransitions(booking[b].status)
        /\ "provider" \in Addressees("cancelled")
        /\ Rewrites(t, b, "cancelled", "provider")
        /\ UNCHANGED tables
    BY <1>1, <1>7, CancelRewrites
  <2> QED
    BY <1>3, <2>1
<1> QED
  BY <1>2, <1>4, <1>5, <1>6, <1>7 DEF Asks

LEMMA AdvanceFresh ==
    ASSUME IndInv, FreshInv, NEW t \in Tasks, Advances(t) \/ RequestThrows(t)
    PROVE  FreshInv'
<1>1. TypeOK
  BY DEF IndInv
<1> PICK id : id = task[t].id
  OBVIOUS
<1>2. ~At(t, "idle") /\ id \in Booked /\ id \in Bookings
  BY BusyTask
     DEF Advances, RequestThrows, SaveBooking, LookForReview, SaveReview, SaveReport,
         Announce, AnnounceThrows, At
<1>3. ASSUME Returns(t), UNCHANGED tables
      PROVE  FreshInv'
  <2>1. task' = [task EXCEPT ![t] = IdleTask] /\ overtaken' = overtaken \ {t}
    BY <1>3 DEF Returns
  <2>2. task'[t].pc = "idle" /\ \A other \in Tasks \ {t} : task'[other] = task[other]
    BY <1>1, <2>1, ReturnsSets, IdleIsTask
  <2> QED
    BY <1>3, <2>1, <2>2, PlainCurrent, FreshStep DEF HoldingPcs
<1>4. ASSUME NEW row, booking' = [booking EXCEPT ![id] = row], Overtakes(t, id),
             UNCHANGED suspended,
             Goto(t, "announcing") \/ task' = [task EXCEPT ![t] = IdleTask]
      PROVE  FreshInv'
  <2>1. /\ task'[t].pc \notin HoldingPcs
        /\ \A other \in Tasks \ {t} : task'[other] = task[other]
    <3>1. CASE Goto(t, "announcing")
      <4>1. "announcing" \in TaskPcs
        BY DEF TaskPcs
      <4> QED
        BY <1>1, <3>1, <4>1, GotoSets DEF HoldingPcs
    <3>2. CASE task' = [task EXCEPT ![t] = IdleTask]
      BY <1>1, <3>2, ReturnsSets, IdleIsTask DEF HoldingPcs
    <3> QED
      BY <1>4, <3>1, <3>2
  <2>2. \A b1 \in Bookings \ {id} : booking'[b1] = booking[b1]
    BY <1>1, <1>4 DEF TypeOK
  <2>3. /\ overtaken \ {t} \subseteq overtaken'
        /\ \A o \in Tasks \ {t} : task[o].id = id /\ task[o].pc \in HoldingPcs => o \in overtaken'
    BY <1>4 DEF Overtakes
  <2> QED
    BY <1>2, <1>4, <2>1, <2>2, <2>3, FreshWrite
<1>5. CASE LookForReview(t)
  <2>1. CASE Returns(t)
    BY <1>3, <1>5, <2>1 DEF LookForReview
  <2>2. CASE ~Returns(t)
    <3>1. /\ At(t, "reviewing") /\ Goto(t, "savingReview") /\ UNCHANGED <<overtaken, tables>>
          /\ \A r \in booking[id].reviews : Joined(r.by) # task[t].by
      BY <1>5, <2>2 DEF LookForReview
    <3>2. /\ task'[t].pc = "savingReview" /\ task'[t].id = id /\ task'[t].by = task[t].by
          /\ \A other \in Tasks \ {t} : task'[other] = task[other]
      <4>1. "savingReview" \in TaskPcs
        BY DEF TaskPcs
      <4> QED
        BY <1>1, <3>1, <4>1, GotoSets
    <3>3. ASSUME t \notin overtaken'
          PROVE  Current(t)'
      <4>1. booking[id].status = "completed" /\ task[t].by \notin suspended
        BY <3>1, <3>3, FreshIsCurrent DEF Current, At
      <4>2. task[t].by \in Users
        BY <3>1, BusyTask DEF At
      <4>3. \A r \in booking[id].reviews : r.by # task[t].by
        BY <3>1, <4>1, <4>2, JoinedIs
      <4> QED
        BY <3>1, <3>2, <4>1, <4>3 DEF Current, At, tables
    <3> QED
      BY <3>1, <3>2, <3>3, FreshStep
  <2> QED
    BY <2>1, <2>2
<1>6. CASE SaveBooking(t)
  BY <1>4, <1>6 DEF SaveBooking
<1>7. CASE SaveReview(t)
  <2>1. \E row : booking' = [booking EXCEPT ![id] = row]
    BY <1>7 DEF SaveReview
  <2> QED
    BY <1>4, <1>7, <2>1 DEF SaveReview
<1>8. CASE SaveReport(t)
  <2>1. \E row : booking' = [booking EXCEPT ![id] = row]
    BY <1>8 DEF SaveReport
  <2> QED
    BY <1>4, <1>8, <2>1 DEF SaveReport
<1> QED
  BY <1>3, <1>5, <1>6, <1>7, <1>8 DEF Advances, RequestThrows, Announce, AnnounceThrows

LEMMA NextFresh ==
    ASSUME IndInv, FreshInv, [Next]_vars
    PROVE  FreshInv'
<1>1. ASSUME UNCHANGED <<booking, task>>, overtaken \subseteq overtaken',
             \A o \in Tasks \ overtaken' :
                 task[o].pc \in HoldingPcs /\ task[o].by \notin suspended =>
                     task[o].by \notin suspended'
      PROVE  FreshInv'
  <2> SUFFICES ASSUME NEW t \in Tasks \ overtaken' PROVE Current(t)'
    BY FreshIsCurrent DEF FreshInv, Current
  <2>1. Current(t)
    BY <1>1, FreshIsCurrent
  <2> QED
    BY <1>1, <2>1, CurrentPersists
<1>2. ASSUME NEW s \in Services, NEW cost \in Prices \cup {NoCost}, ChangePrice(s, cost)
      PROVE  FreshInv'
  BY <1>1, <1>2 DEF ChangePrice
<1>3. ASSUME NEW u \in Users, Suspend(u)
      PROVE  FreshInv'
  BY <1>1, <1>3 DEF Suspend
<1>4. ASSUME NEW u \in Users, Reactivate(u)
      PROVE  FreshInv'
  BY <1>1, <1>4 DEF Reactivate
<1>5. CASE ProcessStops
  <2>1. \A t \in Tasks : task'[t].pc = "idle"
    BY <1>5, IdleIsTask DEF ProcessStops
  <2> QED
    BY <2>1, PlainCurrent DEF FreshInv, Current, HoldingPcs
<1>6. CASE UNCHANGED vars
  BY <1>1, <1>6 DEF vars, tables
<1> QED
  BY <1>2, <1>3, <1>4, <1>5, <1>6, AskFresh, AdvanceFresh DEF Next

\* The inductive invariant holds whatever requests overlap and fail.
THEOREM BookingsInvariance == Spec => []Inv
<1>1. Spec => []IndInv
  BY InitInd, NextInd, PTL DEF Spec
<1>2. Init => FreshInv
  BY IdleIsTask DEF Init, FreshInv, At
<1>3. IndInv /\ FreshInv /\ [Next]_vars => FreshInv'
  BY NextFresh
<1>4. Spec => []FreshInv
  BY <1>1, <1>2, <1>3, PTL DEF Spec
<1> QED
  BY <1>1, <1>4, InvIsInd, PTL

\* The figure a buyer supplied outlives every change of status and of price.
THEOREM CostCorrect == Spec => []BuyersCostStands
<1>1. Inv => BuyersCostStands
  BY DEF Inv, TableInv, Milestones, RightAbout, BuyersCostStands
<1> QED
  BY <1>1, BookingsInvariance, PTL

\* Only a booking that had been scheduled is ever completed.
THEOREM CompletionCorrect == Spec => []CompletedWasScheduled
<1>1. Inv => CompletedWasScheduled
  BY DEF Inv, TableInv, Milestones, RightAbout, CompletedWasScheduled
<1> QED
  BY <1>1, BookingsInvariance, PTL

\* Only a booking that had been completed ever has a review.
THEOREM ReviewCorrect == Spec => []ReviewedWasCompleted
<1>1. Inv => ReviewedWasCompleted
  BY DEF Inv, TableInv, Milestones, RightAbout, ReviewedWasCompleted
<1> QED
  BY <1>1, BookingsInvariance, PTL

\* The other party is told of the status a booking has, or a stop came between,
\* or the row lost that party with the save that stored the status.
THEOREM NoticeCorrect == Spec => []StatusIsTold
<1>1. Inv => StatusIsTold
  <2> SUFFICES ASSUME Inv, NEW b \in Booked
               PROVE  \/ \E to \in Addressees(booking[b].status) :
                            [id |-> b, to |-> to, event |-> booking[b].status] \in told
                      \/ b \in Unannounced
                      \/ b \in interrupted
                      \/ HasLost(b, booking[b].status)
    BY DEF StatusIsTold
  <2> PICK status : status = booking[b].status
    OBVIOUS
  <2>1. status \in Status /\ Told(b, status)
    BY StatusIs DEF Inv, ToldInv
  <2>2. ASSUME NEW t \in Tasks, At(t, "announcing"), task[t].id = b, task[t].event = status
        PROVE  b \in Unannounced
    BY <2>1, <2>2 DEF Unannounced
  <2> QED
    BY <2>1, <2>2 DEF Told
<1> QED
  BY <1>1, BookingsInvariance, PTL

-----------------------------------------------------------------------------
(* What each step does to the table, seen through the mapping. *)

StateBar == [b \in Bookings |-> StatusOf(b)]
ReviewsBar == [b \in Bookings |-> ReviewsOf(b)]
ReportsBar == [b \in Bookings |-> ReportsOf(b)]

LEMMA WriteMaps ==
    ASSUME TypeOK, NEW b \in Bookings, NEW row \in Booking,
           booking' = [booking EXCEPT ![b] = row]
    PROVE  /\ StateBar' = [StateBar EXCEPT ![b] = row.status]
           /\ ReviewsBar' = [ReviewsBar EXCEPT ![b] = IdsOf(row.reviews)]
           /\ ReportsBar' = [ReportsBar EXCEPT ![b] = row.reports]
<1>1. booking'[b] = row /\ \A b1 \in Bookings \ {b} : booking'[b1] = booking[b1]
  BY DEF TypeOK
<1>2. row # NoBooking
  BY NullsApart
<1>3. /\ StatusOf(b)' = row.status /\ ReviewsOf(b)' = IdsOf(row.reviews) /\ ReportsOf(b)' = row.reports
      /\ \A b1 \in Bookings \ {b} : /\ StatusOf(b1)' = StatusOf(b1)
                                    /\ ReviewsOf(b1)' = ReviewsOf(b1)
                                    /\ ReportsOf(b1)' = ReportsOf(b1)
  BY <1>1, <1>2 DEF StatusOf, ReviewsOf, ReportsOf, Booked, IdsOf
<1>4. StateBar' = [StateBar EXCEPT ![b] = row.status]
  BY <1>3 DEF StateBar
<1>5. ReviewsBar' = [ReviewsBar EXCEPT ![b] = IdsOf(row.reviews)]
  BY <1>3 DEF ReviewsBar
<1>6. ReportsBar' = [ReportsBar EXCEPT ![b] = row.reports]
  BY <1>3 DEF ReportsBar
<1> QED
  BY <1>4, <1>5, <1>6

LEMMA NoWriteMaps ==
    ASSUME booking' = booking
    PROVE  UNCHANGED <<StateBar, ReviewsBar, ReportsBar>>
BY DEF StateBar, ReviewsBar, ReportsBar, StatusOf, ReviewsOf, ReportsOf, Booked, IdsOf

LEMMA BarsAt ==
    ASSUME NEW b \in Booked
    PROVE  /\ b \in Bookings
           /\ StateBar[b] = booking[b].status
           /\ ReviewsBar[b] = IdsOf(booking[b].reviews)
           /\ ReportsBar[b] = booking[b].reports
BY DEF StateBar, ReviewsBar, ReportsBar, StatusOf, ReviewsOf, ReportsOf, Booked, IdsOf

\* The steps of BookingLifecycle over the mapped variables.
LifecycleStep ==
    \/ \E b \in Bookings :
          /\ \/ StateBar[b] = "none" /\ StateBar' = [StateBar EXCEPT ![b] = "pending"]
             \/ StateBar[b] = "pending" /\ StateBar' = [StateBar EXCEPT ![b] = "scheduled"]
             \/ StateBar[b] = "scheduled" /\ StateBar' = [StateBar EXCEPT ![b] = "completed"]
             \/ /\ StateBar[b] \in {"pending", "scheduled"}
                /\ StateBar' = [StateBar EXCEPT ![b] = "cancelled"]
          /\ UNCHANGED <<ReviewsBar, ReportsBar>>
    \/ \E b \in Bookings, r \in Reviews :
          /\ StateBar[b] = "completed" /\ ReviewsBar[b] = {}
          /\ ReviewsBar' = [ReviewsBar EXCEPT ![b] = {r}]
          /\ UNCHANGED <<StateBar, ReportsBar>>
    \/ \E b \in Bookings, r \in Reports :
          /\ StateBar[b] # "none"
          /\ ReportsBar' = [ReportsBar EXCEPT ![b] = ReportsBar[b] \cup {r}]
          /\ UNCHANGED <<StateBar, ReviewsBar>>
    \/ UNCHANGED <<StateBar, ReviewsBar, ReportsBar>>

LEMMA LifecycleSteps == LifecycleStep => [Lifecycle!Next]_(Lifecycle!vars)
BY DEF LifecycleStep, StateBar, ReviewsBar, ReportsBar, Lifecycle!Next, Lifecycle!vars,
       Lifecycle!Book, Lifecycle!Schedule, Lifecycle!Complete, Lifecycle!Cancel,
       Lifecycle!Move, Lifecycle!Review, Lifecycle!Report

LEMMA CreateMaps ==
    ASSUME IndInv, NEW t \in Tasks, NEW u \in Buyers, NEW s \in Services,
           NEW cost \in Offers \cup {NoCost}, CreateBooking(t, u, s, cost)
    PROVE  LifecycleStep
<1> DEFINE provider == Joined(CreatedBy[s])
           row == [service |-> s, user |-> u, provider |-> provider, status |-> "pending",
                   cost |-> cost, reviews |-> {}, reports |-> {}]
<1>1. PICK b \in Bookings : b \notin Booked /\ booking' = [booking EXCEPT ![b] = row]
  BY DEF CreateBooking, IsNext
<1>2. provider \in Users \cup {Nobody} /\ u \in Users
  BY BookingAssumption, JoinedIs
<1> HIDE DEF provider
<1>3. row \in Booking /\ row.status = "pending" /\ IdsOf(row.reviews) = {} /\ row.reports = {}
  BY <1>2 DEF Booking, Status, Costs, IdsOf
<1> HIDE DEF row
<1>4. /\ StateBar' = [StateBar EXCEPT ![b] = "pending"]
      /\ ReviewsBar' = [ReviewsBar EXCEPT ![b] = {}]
      /\ ReportsBar' = [ReportsBar EXCEPT ![b] = {}]
  <2>1. TypeOK
    BY DEF IndInv
  <2>2. /\ StateBar' = [StateBar EXCEPT ![b] = row.status]
        /\ ReviewsBar' = [ReviewsBar EXCEPT ![b] = IdsOf(row.reviews)]
        /\ ReportsBar' = [ReportsBar EXCEPT ![b] = row.reports]
    BY <1>1, <1>3, <2>1, WriteMaps
  <2> QED
    BY <1>3, <2>2
<1>5. StateBar[b] = "none" /\ ReviewsBar[b] = {} /\ ReportsBar[b] = {}
  BY <1>1 DEF StateBar, ReviewsBar, ReportsBar, StatusOf, ReviewsOf, ReportsOf
<1>6. ReviewsBar' = ReviewsBar /\ ReportsBar' = ReportsBar
  BY <1>4, <1>5 DEF ReviewsBar, ReportsBar
<1> QED
  BY <1>1, <1>4, <1>5, <1>6 DEF LifecycleStep

LEMMA SaveBookingMaps ==
    ASSUME IndInv, FreshInv, NEW t \in Tasks \ overtaken, SaveBooking(t)
    PROVE  LifecycleStep
<1> PICK own : own = task[t]
  OBVIOUS
<1>1. At(t, "saving") /\ booking' = [booking EXCEPT ![own.id] = own.row]
  BY DEF SaveBooking
<1>2. own.id \in Booked /\ own.row \in Booking
  BY <1>1 DEF IndInv, SaneInv, Sane, At
<1>3. /\ own.row.status \in AllowedTransitions(booking[own.id].status)
      /\ IdsOf(own.row.reviews) = IdsOf(booking[own.id].reviews)
      /\ own.row.reports = booking[own.id].reports
  BY <1>1 DEF FreshInv
<1>4. /\ StateBar' = [StateBar EXCEPT ![own.id] = own.row.status]
      /\ ReviewsBar' = [ReviewsBar EXCEPT ![own.id] = IdsOf(own.row.reviews)]
      /\ ReportsBar' = [ReportsBar EXCEPT ![own.id] = own.row.reports]
  BY <1>1, <1>2, WriteMaps DEF IndInv, Booked
<1>5. /\ own.id \in Bookings
      /\ StateBar[own.id] = booking[own.id].status
      /\ ReviewsBar[own.id] = IdsOf(own.row.reviews)
      /\ ReportsBar[own.id] = own.row.reports
  BY <1>2, <1>3, BarsAt
<1>6. ReviewsBar' = ReviewsBar /\ ReportsBar' = ReportsBar
  BY <1>4, <1>5 DEF ReviewsBar, ReportsBar
<1> PICK from : from = booking[own.id].status
  OBVIOUS
<1>7. \/ from = "pending" /\ own.row.status = "scheduled"
      \/ from = "scheduled" /\ own.row.status = "completed"
      \/ from \in {"pending", "scheduled"} /\ own.row.status = "cancelled"
  BY <1>3 DEF AllowedTransitions
<1> QED
  BY <1>4, <1>5, <1>6, <1>7 DEF LifecycleStep

LEMMA SaveReviewMaps ==
    ASSUME IndInv, FreshInv, NEW t \in Tasks \ overtaken, SaveReview(t),
           \A r \in booking[task[t].id].reviews : r.by = task[t].by
    PROVE  LifecycleStep
<1> PICK own : own = task[t]
  OBVIOUS
<1>1. PICK r \in Reviews :
          booking' = [booking EXCEPT ![own.id].reviews = @ \cup {[id |-> r, by |-> own.by]}]
  BY DEF SaveReview
<1> PICK review : review = [id |-> r, by |-> own.by]
  OBVIOUS
<1>2. At(t, "savingReview") /\ own.id \in Booked /\ "completed" \in reached[own.id]
      /\ own.by \in Users
  BY BusyTask DEF SaveReview, At
<1>3. booking[own.id].status = "completed" /\ booking[own.id].reviews = {}
  BY <1>2 DEF FreshInv, At
<1> PICK row : row = [booking[own.id] EXCEPT !.reviews = @ \cup {review}]
  OBVIOUS
<1>4. row \in Booking /\ row.status = booking[own.id].status
  <2>1. review \in Review
    BY <1>2 DEF Review
  <2> QED
    BY <1>2, <2>1, WithLists
<1>5. row.reviews = {review} /\ row.reports = booking[own.id].reports
  <2>1. booking[own.id] \in Booking
    BY <1>2 DEF IndInv, TypeOK, Booked
  <2> QED
    BY <1>3, <2>1 DEF Booking
<1>6. IdsOf(row.reviews) = {r} /\ IdsOf(booking[own.id].reviews) = {}
  BY <1>3, <1>5 DEF IdsOf
<1>7. booking' = [booking EXCEPT ![own.id] = row]
  BY <1>1
<1>8. own.id \in Bookings /\ StateBar[own.id] = row.status /\ ReviewsBar[own.id] = {}
      /\ ReportsBar[own.id] = row.reports
  BY <1>2, <1>4, <1>5, <1>6, BarsAt
<1>9. /\ StateBar' = [StateBar EXCEPT ![own.id] = row.status]
      /\ ReviewsBar' = [ReviewsBar EXCEPT ![own.id] = {r}]
      /\ ReportsBar' = [ReportsBar EXCEPT ![own.id] = row.reports]
  <2>1. TypeOK
    BY DEF IndInv
  <2>2. /\ StateBar' = [StateBar EXCEPT ![own.id] = row.status]
        /\ ReviewsBar' = [ReviewsBar EXCEPT ![own.id] = IdsOf(row.reviews)]
        /\ ReportsBar' = [ReportsBar EXCEPT ![own.id] = row.reports]
    BY <1>4, <1>7, <1>8, <2>1, WriteMaps
  <2> QED
    BY <1>6, <2>2
<1>10. StateBar' = StateBar /\ ReportsBar' = ReportsBar
  BY <1>8, <1>9 DEF StateBar, ReportsBar
<1> QED
  BY <1>3, <1>4, <1>8, <1>9, <1>10 DEF LifecycleStep

LEMMA SaveReportMaps ==
    ASSUME IndInv, NEW t \in Tasks, SaveReport(t)
    PROVE  LifecycleStep
<1> PICK own : own = task[t]
  OBVIOUS
<1>1. PICK r \in Reports : booking' = [booking EXCEPT ![own.id].reports = @ \cup {r}]
  BY DEF SaveReport
<1>2. own.id \in Booked
  BY BusyTask DEF SaveReport, At
<1> PICK row : row = [booking[own.id] EXCEPT !.reports = @ \cup {r}]
  OBVIOUS
<1>3. row \in Booking /\ row.status = booking[own.id].status
  BY <1>2, WithLists
<1>4. booking[own.id] \in Booking
  BY <1>2 DEF IndInv, TypeOK, Booked
<1>5. /\ row.reports = booking[own.id].reports \cup {r}
      /\ row.reviews = booking[own.id].reviews
      /\ row.status # "none"
  BY <1>3, <1>4 DEF Booking, Status
<1>6. booking' = [booking EXCEPT ![own.id] = row]
  BY <1>1
<1>7. /\ own.id \in Bookings
      /\ StateBar[own.id] = row.status
      /\ ReviewsBar[own.id] = IdsOf(row.reviews)
      /\ row.reports = ReportsBar[own.id] \cup {r}
  BY <1>2, <1>3, <1>5, BarsAt
<1>8. /\ StateBar' = [StateBar EXCEPT ![own.id] = row.status]
      /\ ReviewsBar' = [ReviewsBar EXCEPT ![own.id] = IdsOf(row.reviews)]
      /\ ReportsBar' = [ReportsBar EXCEPT ![own.id] = row.reports]
  BY <1>3, <1>6, <1>7, WriteMaps DEF IndInv
<1>9. StateBar' = StateBar /\ ReviewsBar' = ReviewsBar
  BY <1>7, <1>8 DEF StateBar, ReviewsBar
<1> QED
  BY <1>5, <1>7, <1>8, <1>9 DEF LifecycleStep

LEMMA NextMaps ==
    ASSUME IndInv, FreshInv, [Next]_vars
    PROVE  LifecycleStep \/ StaleSave
<1>1. ASSUME booking' = booking
      PROVE  LifecycleStep
  BY <1>1, NoWriteMaps DEF LifecycleStep
<1>2. ASSUME NEW t \in Tasks, NEW u \in Users, Asks(t, u)
      PROVE  LifecycleStep
  BY <1>1, <1>2, CreateMaps
     DEF Asks, UpdateBookingStatus, CancelBooking, OpenReview, OpenReport, tables
<1>3. ASSUME NEW t \in Tasks, SaveBooking(t)
      PROVE  LifecycleStep \/ StaleSave
  BY <1>3, SaveBookingMaps DEF StaleSave
<1>4. ASSUME NEW t \in Tasks, SaveReview(t)
      PROVE  LifecycleStep \/ StaleSave
  BY <1>4, SaveReviewMaps DEF StaleSave
<1>5. ASSUME NEW t \in Tasks, Advances(t) \/ RequestThrows(t)
      PROVE  LifecycleStep \/ StaleSave
  BY <1>1, <1>3, <1>4, <1>5, SaveReportMaps
     DEF Advances, RequestThrows, LookForReview, Announce, AnnounceThrows, tables
<1>6. CASE UNCHANGED vars \/ ProcessStops
  BY <1>1, <1>6 DEF vars, ProcessStops, tables
<1>7. ASSUME NEW s \in Services, NEW cost \in Prices \cup {NoCost}, ChangePrice(s, cost)
      PROVE  LifecycleStep
  BY <1>1, <1>7 DEF ChangePrice
<1>8. ASSUME NEW u \in Users, Suspend(u) \/ Reactivate(u)
      PROVE  LifecycleStep
  BY <1>1, <1>8 DEF Suspend, Reactivate
<1> QED
  BY <1>2, <1>5, <1>6, <1>7, <1>8 DEF Next

LEMMA InitMaps == Init => Lifecycle!Init
<1> SUFFICES ASSUME Init PROVE Lifecycle!Init
  OBVIOUS
<1>1. Booked = {}
  BY DEF Init, Booked
<1> QED
  BY <1>1 DEF Lifecycle!Init, StatusOf, ReviewsOf, ReportsOf

\* Whatever overlaps and fails, every booking lives the life that the transition
\* table and the checks describe, but for the saves that come too late.
THEOREM LifecycleImplemented == Spec => KeepsLifecycle
<1>1. IndInv /\ FreshInv /\ [Next]_vars
        => [booking' # booking => Lifecycle!Next \/ StaleSave]_(Lifecycle!vars)
  BY NextMaps, LifecycleSteps
<1>2. Inv => IndInv /\ FreshInv
  BY InvIsInd
<1> QED
  BY <1>1, <1>2, InitMaps, BookingsInvariance, PTL DEF Spec, KeepsLifecycle

\* No step takes an answered booking back to pending.
THEOREM AnswersCorrect == Spec => AnsweredStaysAnswered
<1> DEFINE Kept == \A b \in Booked : booking[b].status # "pending" => booking'[b].status # "pending"
<1>1. ASSUME IndInv, [Next]_vars
      PROVE  Kept
  <2>1. ASSUME booking' = booking
        PROVE  Kept
    BY <2>1
  <2>2. ASSUME NEW t \in Tasks, SaveBooking(t)
        PROVE  Kept
    <3>1. booking' = [booking EXCEPT ![task[t].id] = task[t].row] /\ task[t].row.status # "pending"
      BY <1>1, <2>2 DEF SaveBooking, IndInv, SaneInv, Sane
    <3> QED
      BY <1>1, <3>1 DEF IndInv, TypeOK, Booked
  <2>3. ASSUME NEW t \in Tasks, SaveReview(t) \/ SaveReport(t)
        PROVE  Kept
    <3> SUFFICES ASSUME NEW b \in Booked PROVE booking'[b].status = booking[b].status
      OBVIOUS
    <3>1. b \in Bookings /\ booking[b] \in Booking /\ booking \in [Bookings -> Booking \cup {NoBooking}]
      BY <1>1 DEF IndInv, TypeOK, Booked
    <3> PICK id : id = task[t].id
      OBVIOUS
    <3>2. PICK row : /\ booking' = [booking EXCEPT ![id] = row]
                     /\ \/ \E r : row = [booking[id] EXCEPT !.reviews = @ \cup {r}]
                        \/ \E r : row = [booking[id] EXCEPT !.reports = @ \cup {r}]
      BY <2>3 DEF SaveReview, SaveReport
    <3>3. b = id => row.status = booking[b].status
      BY <3>1, <3>2 DEF Booking
    <3> QED
      BY <3>1, <3>2, <3>3
  <2>4. ASSUME NEW t \in Tasks, NEW u \in Users, NEW s \in Services,
               NEW cost \in Offers \cup {NoCost}, CreateBooking(t, u, s, cost)
        PROVE  Kept
    BY <1>1, <2>4 DEF CreateBooking, IsNext, IndInv, TypeOK, Booked
  <2> HIDE DEF Kept
  <2> QED
    BY <1>1, <2>1, <2>2, <2>3, <2>4
       DEF Next, Advances, Asks, RequestThrows, ProcessStops, ChangePrice, vars,
           UpdateBookingStatus, CancelBooking, OpenReview, OpenReport, LookForReview, Announce,
           AnnounceThrows, Suspend, Reactivate, tables
<1>2. Spec => []IndInv
  BY InitInd, NextInd, PTL DEF Spec
<1> QED
  BY <1>1, <1>2, PTL DEF Spec, AnsweredStaysAnswered
=============================================================================
