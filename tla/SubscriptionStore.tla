------------------------- MODULE SubscriptionStore -------------------------
(***************************************************************************)
(* The state shared by every part of the subscriptions module: the tables  *)
(* payments and user_subscriptions, Paystack's own record of each charge,  *)
(* and the work in flight in the Node.js process.  Dates are instants, as  *)
(* the timestamp columns are: a day has Hours of them, the crons fire at   *)
(* theirs, and every date the code computes is whole days away from now.   *)
(***************************************************************************)
EXTENDS Integers, FiniteSets

CONSTANTS
    Users, Plans,      \* who subscribes, and to what
    Refs,              \* Paystack transaction references (Date.now() makes each one new)
    NumSubs,           \* bound: rows of user_subscriptions
    Tasks,             \* bound: HTTP requests and webhooks in flight at a time
    Loops,             \* bound: loops of one cron in flight at a time
    Hours,             \* instants of a day
    RenewalHour,       \* 2 AM, as an instant of the day
    ExpiryHour,        \* 3 AM
    Interval,          \* plan -> billing_interval
    MonthDays,         \* the 30 days of the code, scaled
    YearDays,          \* the 365 days of the code, scaled
    TrialDays,         \* plan -> free_trial_days (0: no trial)
    Available,         \* plans with status 'active'
    ExtendDays,        \* day counts a superadmin may add
    MaxNow,            \* bound: the last instant; it stands for every later one
    MaxEnd,            \* bound: no extension beyond this instant
    Requests,          \* kinds of request the environment issues
    Faults,            \* bound: what may fail, of "requests", "crons", "process"
    NoRef, NoPayment, NoRow

Subs == 1 .. NumSubs
NoDate == 0
NoSub == 0
NoStatus == "none"

SubStatus == {"active", "trial", "expired", "canceled"}
PaymentStatus == {"pending", "success", "failed"}
Intervals == {"monthly", "quarterly", "yearly"}
RequestKinds == {"initiate", "verify", "webhook", "trial", "cancel", "extend"}

Payment == [user : Users, plan : Plans, status : PaymentStatus]
Row == [user : Users, plan : Plans, status : SubStatus, end : Nat,
        nextCharge : Nat, auth : BOOLEAN, trialEnd : Nat]

ASSUME ConstantsAssumption ==
    /\ NumSubs \in Nat
    /\ Hours \in Nat \ {0}
    /\ RenewalHour \in 0 .. (Hours - 1)
    /\ ExpiryHour \in 0 .. (Hours - 1)
    /\ Interval \in [Plans -> Intervals]
    /\ TrialDays \in [Plans -> Nat]
    /\ MonthDays \in Nat \ {0}
    /\ YearDays \in Nat \ {0}
    /\ Available \subseteq Plans
    /\ ExtendDays \subseteq Nat \ {0}
    /\ MaxNow \in Nat
    /\ MaxEnd \in Nat
    /\ Requests \subseteq RequestKinds
    /\ Faults \subseteq {"requests", "crons", "process"}
    /\ NoRef \notin Refs
    /\ NoPayment \notin Payment
    /\ NoRow \notin Row \cup (Users \X Plans)

VARIABLES
    now,          \* the present instant
    payment,      \* table payments, by paystack_reference
    sub,          \* table user_subscriptions, by id
    charge,       \* Paystack: the state of each transaction
    declined,     \* Paystack: transactions with a charge.failed event to deliver
    task,         \* each request in flight: where it awaits, and its local entities
    fired,        \* the crons that fired at this instant
    renewal,      \* each 2 AM loop in flight: the entities it has still to process
    expiry,       \* each 3 AM loop in flight: the entities it has still to process
    interrupted,  \* history: references whose processing an error or a stop cut short
    seen          \* history: the rows the request that inserted a row had searched

store == <<now, payment, sub, seen>>
paystack == <<charge, declined>>
crons == <<fired, renewal, expiry>>
vars == <<now, payment, sub, charge, declined, task, fired, renewal, expiry,
          interrupted, seen>>

(***************************************************************************)
(* Rows and how the code rewrites them.  A handler reads an entity, awaits *)
(* something, and saves the entity: the save writes every column it read.  *)
(***************************************************************************)
Days(n) == n * Hours

PeriodDays(p) == IF Interval[p] = "yearly" THEN YearDays ELSE MonthDays

\* Mutant: the next charge date is forgotten.
ActivatedKeepingCharge(row) ==
    [row EXCEPT !.status = "active", !.end = now + Days(PeriodDays(row.plan))]

Activated(row) ==
    [row EXCEPT !.status = "active",
                !.end = now + Days(PeriodDays(row.plan)),
                !.nextCharge = now + Days(PeriodDays(row.plan))]

\* Mutant: the status is not written.
ExpiredKept(row) == row

Expired(row) == [row EXCEPT !.status = "expired"]
Canceled(row) == [row EXCEPT !.status = "canceled"]

BlankRow(u, p) ==
    [user |-> u, plan |-> p, status |-> "trial", end |-> NoDate,
     nextCharge |-> NoDate, auth |-> FALSE, trialEnd |-> NoDate]

\* The comparison date <= now of SQL, which a NULL date never satisfies.
Passed(date) == date # NoDate /\ date <= now

Lapsed(row) == row.status = "active" /\ Passed(row.end)

Due(row) == row.status = "active" /\ row.auth /\ Passed(row.nextCharge)

LapsedSubs == {s \in Subs : sub[s] # NoRow /\ Lapsed(sub[s])}
DueSubs == {s \in Subs : sub[s] # NoRow /\ Due(sub[s])}

\* A loop over no row.
Nothing == [s \in Subs |-> NoRow]

IsFree(s) == sub[s] = NoRow
IsNextId(s) == IsFree(s) /\ \A other \in Subs : IsFree(other) => s <= other

(***************************************************************************)
(* Work in flight.  A request awaits at pc; ref, id and row are its local  *)
(* variables, was is the status row had when it was read, and searched the *)
(* rows there were when it looked for one.  A renewal loop works on cur    *)
(* unless its pc is "loop".                                                *)
(***************************************************************************)
TaskPcs == {"idle", "opening", "verifying", "refused", "paid", "finding",
            "granting", "linking", "failing", "saving"}
Task == [pc : TaskPcs, ref : Refs \cup {NoRef}, id : Subs \cup {NoSub},
         row : Row \cup {NoRow}, was : SubStatus \cup {NoStatus}, searched : SUBSET Subs]
IdleTask == [pc |-> "idle", ref |-> NoRef, id |-> NoSub, row |-> NoRow,
             was |-> NoStatus, searched |-> {}]

RenewalPcs == {"loop", "saving", "recording", "failing", "recordingFailure"}
Batch == [Subs -> Row \cup {NoRow}]
Renewal == [pc : RenewalPcs, cur : Subs \cup {NoSub}, ref : Refs \cup {NoRef}, batch : Batch]

NoRenewal == [pc |-> "loop", cur |-> NoSub, ref |-> NoRef, batch |-> Nothing]

RequestsIdle == \A t \in Tasks : task[t].pc = "idle"
RenewalIdle(l) == renewal[l] = NoRenewal
ExpiryIdle(l) == expiry[l] = Nothing
CronsIdle == \A l \in Loops : RenewalIdle(l) /\ ExpiryIdle(l)

Begins(t, kind) == kind \in Requests /\ task[t].pc = "idle"
At(t, pc) == task[t].pc = pc
Goto(t, pc) == task' = [task EXCEPT ![t].pc = pc]
Returns(t) == task' = [task EXCEPT ![t] = IdleTask]

InRenewal(r) == \E l \in Loops : renewal[l].ref = r
Unused(r) == payment[r] = NoPayment /\ charge[r] = "none" /\ ~InRenewal(r)

StoreInit ==
    /\ now = 1
    /\ payment = [r \in Refs |-> NoPayment]
    /\ sub = [s \in Subs |-> NoRow]
    /\ charge = [r \in Refs |-> "none"]
    /\ declined = {}
    /\ task = [t \in Tasks |-> IdleTask]
    /\ fired = {}
    /\ renewal = [l \in Loops |-> NoRenewal]
    /\ expiry = [l \in Loops |-> Nothing]
    /\ interrupted = {}
    /\ seen = [s \in Subs |-> {}]

TypeOK ==
    /\ now \in Nat \ {0}
    /\ payment \in [Refs -> Payment \cup {NoPayment}]
    /\ sub \in [Subs -> Row \cup {NoRow}]
    /\ charge \in [Refs -> {"none", "open", "failed", "success"}]
    /\ declined \subseteq Refs
    /\ task \in [Tasks -> Task]
    /\ fired \subseteq {"renewal", "expiry"}
    /\ renewal \in [Loops -> Renewal]
    /\ expiry \in [Loops -> Batch]
    /\ interrupted \subseteq Refs
    /\ seen \in [Subs -> SUBSET Subs]
=============================================================================
