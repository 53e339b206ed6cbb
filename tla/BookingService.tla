--------------------------- MODULE BookingService ---------------------------
(***************************************************************************)
(* BookingService: a customer books a service, its provider answers, both  *)
(* may call it off, and afterwards it is reviewed or reported.  Every      *)
(* change reads the booking with its reviews and reports, awaits, and      *)
(* saves the whole of it.  TypeORM's save writes the columns that differ   *)
(* from the table, and makes the rows that refer to the booking exactly    *)
(* the lists of the object: a review or report missing from a list loses   *)
(* its booking_id.  A booking below therefore carries both lists.  A join  *)
(* leaves a suspended user out: the entity then holds null for a party or  *)
(* a reviewer, and saving it clears the column.                            *)
(***************************************************************************)
EXTENDS Integers, FiniteSets

CONSTANTS
    Users, Services,
    Buyers,          \* bound: users who create bookings
    CreatedBy,       \* service -> its provider, if it has not lost it
    Offers, Prices,  \* amounts that buyers supply, and that providers ask
    NumBookings,     \* bound: rows of bookings
    NumReviews,      \* bound: rows of booking_reviews
    NumReports,      \* bound: rows of booking_reports
    Tasks,           \* bound: requests in flight at a time
    Faults,          \* whether calls may fail and the process may stop
    Nobody, NoCost, NoBooking

Bookings == 1 .. NumBookings
Reviews == 1 .. NumReviews
Reports == 1 .. NumReports

Costs == Offers \cup Prices
Status == {"pending", "scheduled", "completed", "cancelled"}
Review == [id : Reviews, by : Users \cup {Nobody}]
Booking == [service : Services, user : Users \cup {Nobody}, provider : Users \cup {Nobody},
            status : Status, cost : Costs \cup {NoCost},
            reviews : SUBSET Review, reports : SUBSET Reports]

ASSUME BookingAssumption ==
    /\ Buyers \subseteq Users
    /\ NumBookings \in Nat
    /\ NumReviews \in Nat
    /\ NumReports \in Nat
    /\ CreatedBy \in [Services -> Users \cup {Nobody}]
    /\ Nobody \notin Users
    /\ NoCost \notin Costs
    /\ NoBooking \notin Booking
    /\ Faults \in BOOLEAN

VARIABLES
    price,        \* estimated_cost of each service
    suspended,    \* users the administrators have suspended
    booking,      \* table bookings, with the rows that refer to each
    reviewed,     \* ids taken in booking_reviews
    reported,     \* ids taken in booking_reports
    task,         \* each request in flight: where it awaits, and its local booking
    told,         \* booking events emitted since the booking's latest status was stored
    supplied,     \* history: the estimated cost each buyer supplied
    reached,      \* history: which of Milestones a booking has had in the table
    overtaken,    \* history: requests whose booking was written, or whose customer
                  \* was suspended, after they read it
    interrupted   \* history: bookings whose latest status a stop kept from being told

history == <<supplied, reached, interrupted>>
tables == <<price, suspended, booking, reviewed, reported>>
vars == <<tables, task, told, history, overtaken>>

TaskPcs == {"idle", "saving", "reviewing", "savingReview", "reporting", "announcing"}
Roles == {"customer", "provider"}
Milestones == {"scheduled", "completed"}
NoId == 0

\* A request in flight: by is the customer who reviews, row the booking to save,
\* and to and party the one who is to be told, as the booking was read.
Task == [pc : TaskPcs, id : Bookings \cup {NoId}, by : Users \cup {Nobody},
         row : Booking \cup {NoBooking}, to : Roles, party : Users \cup {Nobody},
         event : Status \cup {"reviewed"}]
IdleTask == [pc |-> "idle", id |-> NoId, by |-> Nobody, row |-> NoBooking, to |-> "customer",
             party |-> Nobody, event |-> "pending"]
Notice == [id : Bookings, to : Roles, event : Status \cup {"reviewed"}]

At(t, pc) == task[t].pc = pc
Begins(t) == At(t, "idle")
Moves(t, new) == task' = [task EXCEPT ![t] = new] /\ UNCHANGED overtaken
Goto(t, pc) == task' = [task EXCEPT ![t].pc = pc, ![t].row = NoBooking]
Returns(t) ==
    /\ task' = [task EXCEPT ![t] = IdleTask]
    /\ overtaken' = overtaken \ {t}

\* What a join returns for a column that refers to a user.
Joined(u) == IF u \in suspended THEN Nobody ELSE u

\* Request t writes booking b under the requests that have yet to save it.
HoldingPcs == {"saving", "reviewing", "savingReview"}
Overtakes(t, b) ==
    overtaken' = (overtaken \cup {o \in Tasks : task[o].id = b /\ task[o].pc \in HoldingPcs}) \ {t}

\* Serial columns count up from 1.
IsNext(id, taken, ids) == id \in ids \ taken /\ \A other \in ids \ taken : id <= other

Init ==
    /\ price \in [Services -> Prices \cup {NoCost}]
    /\ suspended = {}
    /\ booking = [b \in Bookings |-> NoBooking]
    /\ reviewed = {}
    /\ reported = {}
    /\ task = [t \in Tasks |-> IdleTask]
    /\ told = {}
    /\ supplied = [b \in Bookings |-> NoCost]
    /\ reached = [b \in Bookings |-> {}]
    /\ overtaken = {}
    /\ interrupted = {}

-----------------------------------------------------------------------------
(* createBooking *)

Booked == {b \in Bookings : booking[b] # NoBooking}

CreateBooking(t, u, s, cost) ==
    LET provider == Joined(CreatedBy[s])
    IN  /\ Begins(t)
        /\ \E b \in Bookings :
              /\ IsNext(b, Booked, Bookings)
              /\ booking' = [booking EXCEPT ![b] =
                    [service |-> s, user |-> u, provider |-> provider, status |-> "pending",
                     cost |-> cost, reviews |-> {}, reports |-> {}]]
              /\ supplied' = [supplied EXCEPT ![b] = cost]
              /\ Moves(t, [IdleTask EXCEPT !.pc = "announcing", !.id = b, !.to = "provider",
                                           !.party = provider])
        /\ UNCHANGED <<price, suspended, reviewed, reported, told, reached, interrupted>>

-----------------------------------------------------------------------------
(* getBookingById, and the two handlers that save what it returns *)

LoadedWith(row, cost) ==
    [row EXCEPT !.cost = cost, !.user = Joined(@), !.provider = Joined(@),
                !.reviews = {[id |-> r.id, by |-> Joined(r.by)] : r \in @}]

\* Mutant: the price of the service comes first.
PriceFirst(b) ==
    LET listed == price[booking[b].service]
    IN  LoadedWith(booking[b], IF listed # NoCost THEN listed ELSE booking[b].cost)

GetBookingById(b) ==
    LET own == booking[b].cost
    IN  LoadedWith(booking[b], IF own # NoCost THEN own ELSE price[booking[b].service])

\* Mutant: a pending booking may be completed at once.
SkipsSchedule(from) ==
    CASE from = "pending" -> {"scheduled", "completed", "cancelled"}
      [] from = "scheduled" -> {"completed", "cancelled"}
      [] OTHER -> {}

AllowedTransitions(from) ==
    CASE from = "pending" -> {"scheduled", "cancelled"}
      [] from = "scheduled" -> {"completed", "cancelled"}
      [] OTHER -> {}

Party(row, role) == IF role = "customer" THEN row.user ELSE row.provider

\* The entity is changed in memory; the save is awaited.
Rewrites(t, b, status, to) ==
    LET row == GetBookingById(b)
    IN  Moves(t, [IdleTask EXCEPT !.pc = "saving", !.id = b, !.to = to, !.event = status,
                      !.row = [row EXCEPT !.status = status], !.party = Party(row, to)])

\* Mutant: the event goes to the one who made the change.
TellsProvider(t, u, b, status) ==
    /\ Begins(t)
    /\ b \in Booked
    /\ Joined(booking[b].provider) = u
    /\ status \in AllowedTransitions(booking[b].status)
    /\ Rewrites(t, b, status, "provider")
    /\ UNCHANGED <<tables, told, history>>

UpdateBookingStatus(t, u, b, status) ==
    /\ Begins(t)
    /\ b \in Booked
    /\ Joined(booking[b].provider) = u
    /\ status \in AllowedTransitions(booking[b].status)
    /\ Rewrites(t, b, status, "customer")
    /\ UNCHANGED <<tables, told, history>>

\* Mutant: the status is assigned only together with a reason.
CancelsWithReason(t, u, b) ==
    /\ Begins(t)
    /\ b \in Booked
    /\ Joined(booking[b].user) = u
    /\ \E status \in {booking[b].status, "cancelled"} : Rewrites(t, b, status, "provider")
    /\ UNCHANGED <<tables, told, history>>

CancelBooking(t, u, b) ==
    /\ Begins(t)
    /\ b \in Booked
    /\ Joined(booking[b].user) = u
    /\ booking[b].status \notin {"completed", "cancelled"}
    /\ Rewrites(t, b, "cancelled", "provider")
    /\ UNCHANGED <<tables, told, history>>

SaveBooking(t) ==
    LET b == task[t].id
    IN  /\ At(t, "saving")
        /\ booking' = [booking EXCEPT ![b] = task[t].row]
        /\ reached' = [reached EXCEPT ![b] = @ \cup ({task[t].row.status} \cap Milestones)]
        /\ Goto(t, "announcing")
        /\ told' = {n \in told : n.id # b}
        /\ interrupted' = interrupted \ {b}
        /\ Overtakes(t, b)
        /\ UNCHANGED <<price, suspended, reviewed, reported, supplied>>

-----------------------------------------------------------------------------
(* addReview: read the booking, look for an earlier review, save. *)

MayReview(row, u) == Joined(row.user) = u /\ row.status = "completed"

OpenReview(t, u, b) ==
    /\ Begins(t)
    /\ b \in Booked
    /\ MayReview(booking[b], u)
    /\ Moves(t, [IdleTask EXCEPT !.pc = "reviewing", !.id = b, !.by = u, !.to = "provider",
                     !.party = Joined(booking[b].provider), !.event = "reviewed"])
    /\ UNCHANGED <<tables, told, history>>

\* Mutant: the review is saved whatever the lookup found.
LooksForNothing(t) ==
    /\ At(t, "reviewing")
    /\ Goto(t, "savingReview") /\ UNCHANGED overtaken
    /\ UNCHANGED <<tables, told, history>>

\* The lookup joins the reviewer, so it finds no review of a suspended one.
LookForReview(t) ==
    /\ At(t, "reviewing")
    /\ IF \E r \in booking[task[t].id].reviews : Joined(r.by) = task[t].by
       THEN Returns(t)
       ELSE Goto(t, "savingReview") /\ UNCHANGED overtaken
    /\ UNCHANGED <<tables, told, history>>

SaveReview(t) ==
    /\ At(t, "savingReview")
    /\ \E r \in Reviews :
          /\ IsNext(r, reviewed, Reviews)
          /\ reviewed' = reviewed \cup {r}
          /\ booking' = [booking EXCEPT ![task[t].id].reviews =
                            @ \cup {[id |-> r, by |-> task[t].by]}]
    /\ Goto(t, "announcing")
    /\ Overtakes(t, task[t].id)
    /\ UNCHANGED <<price, suspended, reported, told, history>>

-----------------------------------------------------------------------------
(* addReport: either party, in any status; no event. *)

OpenReport(t, u, b) ==
    /\ Begins(t)
    /\ b \in Booked
    /\ Joined(booking[b].user) # Nobody
    /\ u \in {Joined(booking[b].user), Joined(booking[b].provider)}
    /\ Moves(t, [IdleTask EXCEPT !.pc = "reporting", !.id = b])
    /\ UNCHANGED <<tables, told, history>>

SaveReport(t) ==
    /\ At(t, "reporting")
    /\ \E r \in Reports :
          /\ IsNext(r, reported, Reports)
          /\ reported' = reported \cup {r}
          /\ booking' = [booking EXCEPT ![task[t].id].reports = @ \cup {r}]
    /\ task' = [task EXCEPT ![t] = IdleTask]
    /\ Overtakes(t, task[t].id)
    /\ UNCHANGED <<price, suspended, reviewed, told, history>>

-----------------------------------------------------------------------------
(* After the save, the event. *)

Announce(t) ==
    /\ At(t, "announcing")
    /\ task[t].party # Nobody
    /\ told' = told \cup {[id |-> task[t].id, to |-> task[t].to, event |-> task[t].event]}
    /\ Returns(t)
    /\ UNCHANGED <<tables, history>>

\* The id of a party that is null: a TypeError after the save, before the emit.
AnnounceThrows(t) ==
    /\ At(t, "announcing")
    /\ task[t].party = Nobody
    /\ Returns(t)
    /\ UNCHANGED <<tables, told, history>>

-----------------------------------------------------------------------------
(* What others do meanwhile. *)

\* ServiceService.updateService.
ChangePrice(s, cost) ==
    /\ price' = [price EXCEPT ![s] = cost]
    /\ UNCHANGED <<suspended, booking, reviewed, reported, task, told, history, overtaken>>

\* AdminUsersService: a suspended user keeps tokens and rows.
Suspend(u) ==
    /\ suspended' = suspended \cup {u}
    /\ overtaken' = overtaken \cup
           {o \in Tasks : task[o].pc \in HoldingPcs /\ task[o].by = u}
    /\ UNCHANGED <<price, booking, reviewed, reported, task, told, history>>

Reactivate(u) ==
    /\ suspended' = suspended \ {u}
    /\ UNCHANGED <<price, booking, reviewed, reported, task, told, history, overtaken>>

\* Bookings with a status whose event is about to be emitted.
Unannounced == {task[t].id : t \in {t \in Tasks : At(t, "announcing") /\ task[t].event \in Status}}

\* A query or a save that was awaited fails: the handler is left.
RequestThrows(t) ==
    /\ Faults
    /\ task[t].pc \notin {"idle", "announcing"}
    /\ Returns(t)
    /\ UNCHANGED <<tables, told, history>>

ProcessStops ==
    /\ Faults
    /\ interrupted' = interrupted \cup Unannounced
    /\ task' = [t \in Tasks |-> IdleTask]
    /\ overtaken' = {}
    /\ UNCHANGED <<tables, told, supplied, reached>>

-----------------------------------------------------------------------------
Asks(t, u) ==
    \/ u \in Buyers /\ \E s \in Services, cost \in Offers \cup {NoCost} : CreateBooking(t, u, s, cost)
    \/ \E b \in Bookings :
          \/ \E status \in Status \ {"pending"} : UpdateBookingStatus(t, u, b, status)
          \/ CancelBooking(t, u, b)
          \/ OpenReview(t, u, b)
          \/ OpenReport(t, u, b)

Advances(t) ==
    \/ SaveBooking(t)
    \/ LookForReview(t)
    \/ SaveReview(t)
    \/ SaveReport(t)
    \/ Announce(t)
    \/ AnnounceThrows(t)

Next ==
    \/ \E t \in Tasks : Advances(t) \/ RequestThrows(t) \/ \E u \in Users : Asks(t, u)
    \/ \E s \in Services, cost \in Prices \cup {NoCost} : ChangePrice(s, cost)
    \/ \E u \in Users : Suspend(u) \/ Reactivate(u)
    \/ ProcessStops

Spec == Init /\ [][Next]_vars
=============================================================================
