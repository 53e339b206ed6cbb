---------------------------- MODULE PaidAccess ----------------------------
(***************************************************************************)
(* What the subscriptions module promises about money and access, with     *)
(* handlers, crons and copies left out: each change is one atomic step.    *)
(* An account is a user together with a plan.                              *)
(***************************************************************************)
CONSTANTS Accounts, Refs, Subs, NoOne

VARIABLES
    payer,      \* reference -> the account it was recorded for
    collected,  \* references whose money was collected
    booked,     \* references recorded as paid
    holder,     \* subscription -> its account
    paid        \* subscriptions that give, or gave until they ended, paid access

pvars == <<payer, collected, booked, holder, paid>>

HasPaid(a) == \E r \in collected : payer[r] = a

Init ==
    /\ payer = [r \in Refs |-> NoOne]
    /\ collected = {}
    /\ booked = {}
    /\ holder = [s \in Subs |-> NoOne]
    /\ paid = {}

\* A payment is recorded for an account, once and for good; it is booked as
\* paid only if its money was collected.
Record(r, a, isBooked) ==
    /\ payer[r] = NoOne
    /\ isBooked => r \in collected
    /\ payer' = [payer EXCEPT ![r] = a]
    /\ booked' = IF isBooked THEN booked \cup {r} ELSE booked
    /\ UNCHANGED <<collected, holder, paid>>

Collect(r) ==
    /\ collected' = collected \cup {r}
    /\ UNCHANGED <<payer, booked, holder, paid>>

Book(r) ==
    /\ r \in collected
    /\ payer[r] # NoOne
    /\ booked' = booked \cup {r}
    /\ UNCHANGED <<payer, collected, holder, paid>>

\* A failure event that arrives late takes a booking back.
Unbook(r) ==
    /\ booked' = booked \ {r}
    /\ UNCHANGED <<payer, collected, holder, paid>>

\* A subscription is created for an account and keeps it; it is a paid one only
\* if its account has paid.
Open(s, a, isPaid) ==
    /\ holder[s] = NoOne
    /\ isPaid => HasPaid(a)
    /\ holder' = [holder EXCEPT ![s] = a]
    /\ paid' = IF isPaid THEN paid \cup {s} ELSE paid
    /\ UNCHANGED <<payer, collected, booked>>

Admit(s) ==
    /\ holder[s] # NoOne
    /\ HasPaid(holder[s])
    /\ paid' = paid \cup {s}
    /\ UNCHANGED <<payer, collected, booked, holder>>

Withdraw(s) ==
    /\ paid' = paid \ {s}
    /\ UNCHANGED <<payer, collected, booked, holder>>

Next ==
    \/ \E r \in Refs : Collect(r) \/ Book(r) \/ Unbook(r)
    \/ \E r \in Refs, a \in Accounts, isBooked \in BOOLEAN : Record(r, a, isBooked)
    \/ \E s \in Subs : Admit(s) \/ Withdraw(s)
    \/ \E s \in Subs, a \in Accounts, isPaid \in BOOLEAN : Open(s, a, isPaid)

Spec == Init /\ [][Next]_pvars
=============================================================================
