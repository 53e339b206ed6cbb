-------------------------- MODULE BookingLifecycle --------------------------
(***************************************************************************)
(* What the booking module promises its users, each change one atomic      *)
(* step.  The tables of updateBookingStatus, cancelBooking and addReview   *)
(* describe this machine: a booking is answered, then done or called off,  *)
(* is reviewed at most once and only when done, and keeps its reports.     *)
(***************************************************************************)
CONSTANTS Bookings, Reviews, Reports

VARIABLES
    state,     \* booking -> its status, or "none"
    reviews,   \* booking -> reviews that refer to it
    reports    \* booking -> reports that refer to it

vars == <<state, reviews, reports>>

Init ==
    /\ state = [b \in Bookings |-> "none"]
    /\ reviews = [b \in Bookings |-> {}]
    /\ reports = [b \in Bookings |-> {}]

Move(b, from, to) ==
    /\ state[b] \in from
    /\ state' = [state EXCEPT ![b] = to]
    /\ UNCHANGED <<reviews, reports>>

Book(b) == Move(b, {"none"}, "pending")
Schedule(b) == Move(b, {"pending"}, "scheduled")
Complete(b) == Move(b, {"scheduled"}, "completed")
Cancel(b) == Move(b, {"pending", "scheduled"}, "cancelled")

Review(b, r) ==
    /\ state[b] = "completed"
    /\ reviews[b] = {}
    /\ reviews' = [reviews EXCEPT ![b] = {r}]
    /\ UNCHANGED <<state, reports>>

Report(b, r) ==
    /\ state[b] # "none"
    /\ reports' = [reports EXCEPT ![b] = @ \cup {r}]
    /\ UNCHANGED <<state, reviews>>

Next == \E b \in Bookings :
    \/ Book(b)
    \/ Schedule(b)
    \/ Complete(b)
    \/ Cancel(b)
    \/ \E r \in Reviews : Review(b, r)
    \/ \E r \in Reports : Report(b, r)

Spec == Init /\ [][Next]_vars
=============================================================================
