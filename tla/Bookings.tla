------------------------------ MODULE Bookings ------------------------------
(***************************************************************************)
(* The properties of BookingService, under requests that overlap, users    *)
(* who are suspended meanwhile, failures and stops: what is never lost,    *)
(* and how far the bookings keep the promise of BookingLifecycle.          *)
(***************************************************************************)
EXTENDS BookingService

\* Type correctness of the tables, of the requests in flight and of the history.
TypeOK ==
    /\ price \in [Services -> Prices \cup {NoCost}]
    /\ suspended \subseteq Users
    /\ booking \in [Bookings -> Booking \cup {NoBooking}]
    /\ reviewed \subseteq Reviews
    /\ reported \subseteq Reports
    /\ task \in [Tasks -> Task]
    /\ told \subseteq Notice
    /\ supplied \in [Bookings -> Offers \cup {NoCost}]
    /\ reached \in [Bookings -> SUBSET Milestones]
    /\ overtaken \subseteq Tasks
    /\ interrupted \subseteq Bookings

-----------------------------------------------------------------------------

\* The cost a buyer supplied is never replaced by the price of the service,
\* although every change of status saves the figure shown to the client, and
\* the price may change meanwhile.
BuyersCostStands ==
    \A b \in Booked : supplied[b] # NoCost => booking[b].cost = supplied[b]

\* However stale the entity that completed it, a completed booking had been
\* scheduled by its provider.
CompletedWasScheduled ==
    \A b \in Booked : booking[b].status = "completed" => "scheduled" \in reached[b]

\* A booking that has a review was completed before the review was written,
\* even if a stale save has called it off since.
ReviewedWasCompleted ==
    \A b \in Booked : booking[b].reviews # {} => "completed" \in reached[b]

\* Whom an event of this kind goes to.
Addressees(event) ==
    CASE event \in {"pending", "reviewed"} -> {"provider"}
      [] event \in {"scheduled", "completed"} -> {"customer"}
      [] event = "cancelled" -> Roles

\* The row has lost the party that an event of this kind goes to: it was saved
\* from an entity read while that party was suspended.
HasLost(b, event) == \E to \in Addressees(event) : Party(booking[b], to) = Nobody

\* Outside a request that is about to say so, the other party was told of the
\* status a booking has, unless a stop came between or the row has lost the
\* party with the very save that stored the status.
StatusIsTold ==
    \A b \in Booked :
        \/ \E to \in Addressees(booking[b].status) :
              [id |-> b, to |-> to, event |-> booking[b].status] \in told
        \/ b \in Unannounced
        \/ b \in interrupted
        \/ HasLost(b, booking[b].status)

\* No save, however stale, takes an answered booking back to pending.
AnsweredStaysAnswered ==
    [][\A b \in Booked : booking[b].status # "pending" => booking'[b].status # "pending"]_vars

IdsOf(reviews) == {r.id : r \in reviews}

(***************************************************************************)
(* The inductive invariant: what an entity held by a request keeps true of *)
(* itself while others write the table.  The statuses a booking has had    *)
(* and the cost its buyer supplied are never taken back, so a stale entity *)
(* that was right about them when it was read is right when it is saved.   *)
(***************************************************************************)
RightAbout(b, row) ==
    /\ supplied[b] # NoCost => row.cost = supplied[b]
    /\ row.status = "completed" => "scheduled" \in reached[b]
    /\ row.reviews # {} => "completed" \in reached[b]

TableInv == \A b \in Booked :
    /\ RightAbout(b, booking[b])
    /\ booking[b].status \in Milestones => booking[b].status \in reached[b]

HeldInv == \A t \in Tasks : At(t, "saving") =>
    /\ task[t].id \in Booked
    /\ task[t].row \in Booking
    /\ RightAbout(task[t].id, task[t].row)
    /\ task[t].row.status # "pending"
    /\ task[t].event = task[t].row.status
    /\ task[t].to \in Addressees(task[t].event)
    /\ task[t].party = Party(task[t].row, task[t].to)

ReviewInv == \A t \in Tasks : task[t].pc \in {"reviewing", "savingReview"} =>
    /\ task[t].by # Nobody
    /\ "completed" \in reached[task[t].id]

BusyInv == \A t \in Tasks : ~At(t, "idle") => task[t].id \in Booked

\* An event of the status that was emitted, is about to be, or cannot be.
Told(b, status) ==
    \/ \E to \in Addressees(status) : [id |-> b, to |-> to, event |-> status] \in told
    \/ \E t \in Tasks : /\ At(t, "announcing")
                        /\ task[t].id = b
                        /\ task[t].event = status
                        /\ task[t].to \in Addressees(status)
                        /\ task[t].party # Nobody
    \/ b \in interrupted
    \/ HasLost(b, status)

ToldInv == \A b \in Booked : Told(b, booking[b].status)

\* A request nobody has overtaken holds what the table holds: its change is one
\* the table of transitions allows from there.
FreshInv == \A t \in Tasks \ overtaken :
    /\ At(t, "saving") =>
          /\ task[t].row.status \in AllowedTransitions(booking[task[t].id].status)
          /\ IdsOf(task[t].row.reviews) = IdsOf(booking[task[t].id].reviews)
          /\ task[t].row.reports = booking[task[t].id].reports
    /\ task[t].pc \in {"reviewing", "savingReview"} =>
          /\ booking[task[t].id].status = "completed"
          /\ task[t].by \notin suspended
    /\ At(t, "savingReview") => \A r \in booking[task[t].id].reviews : r.by # task[t].by

\* What every reachable state keeps, whatever overlaps or fails.
Inv == TypeOK /\ TableInv /\ HeldInv /\ ReviewInv /\ BusyInv /\ ToldInv /\ FreshInv

-----------------------------------------------------------------------------
(* The promise of BookingLifecycle *)

StatusOf(b) == IF b \in Booked THEN booking[b].status ELSE "none"
ReviewsOf(b) == IF b \in Booked THEN IdsOf(booking[b].reviews) ELSE {}
ReportsOf(b) == IF b \in Booked THEN booking[b].reports ELSE {}

Lifecycle == INSTANCE BookingLifecycle WITH
    state <- [b \in Bookings |-> StatusOf(b)],
    reviews <- [b \in Bookings |-> ReviewsOf(b)],
    reports <- [b \in Bookings |-> ReportsOf(b)]

\* The save of a request that was overtaken since it read the booking, and a
\* review of a booking whose earlier review no longer names its customer.
StaleSave == \E t \in Tasks :
    \/ t \in overtaken /\ (SaveBooking(t) \/ SaveReview(t))
    \/ SaveReview(t) /\ \E r \in booking[task[t].id].reviews : r.by # task[t].by

\* Bookings live the life that the transition table and the checks of the
\* handlers describe: closed is final, one review, nothing is detached.  Only a
\* request that was overtaken while it awaited, or that cannot see whose the
\* earlier review was, breaks it; no failure, stop or price change does.
KeepsLifecycle ==
    Lifecycle!Init /\ [][booking' # booking => Lifecycle!Next \/ StaleSave]_(Lifecycle!vars)
=============================================================================
