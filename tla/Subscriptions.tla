--------------------------- MODULE Subscriptions ---------------------------
(***************************************************************************)
(* The subscriptions module as a whole: requests, webhooks and the two     *)
(* crons share the tables and interleave at every await.                   *)
(***************************************************************************)
EXTENDS PaymentService, UserSubscriptionService, SubscriptionRenewal

-----------------------------------------------------------------------------
(* Time passes, calls fail, and the process stops. *)

Tick ==
    /\ now < MaxNow
    /\ now' = now + 1
    /\ fired' = {}
    /\ UNCHANGED <<payment, sub, seen, paystack, task, renewal, expiry, interrupted>>

\* References whose payment is booked but whose subscription is not yet granted.
CutShort(t) == IF task[t].pc \in {"finding", "granting"} THEN {task[t].ref} ELSE {}

\* A failed query, save or call to Paystack ends the request with an error.
\* Opening a transaction may also fail after Paystack opened it.
RequestThrows(t) ==
    /\ "requests" \in Faults
    /\ task[t].pc # "idle"
    /\ Returns(t)
    /\ interrupted' = interrupted \cup CutShort(t)
    /\ UNCHANGED <<store, paystack, crons>>

\* A deploy, a crash or the host's sleep: only the tables survive.
ProcessStops ==
    /\ "process" \in Faults
    /\ ~(RequestsIdle /\ CronsIdle)
    /\ task' = [t \in Tasks |-> IdleTask]
    /\ renewal' = [l \in Loops |-> NoRenewal]
    /\ expiry' = [l \in Loops |-> Nothing]
    /\ interrupted' = interrupted \cup (UNION {CutShort(t) : t \in Tasks})
                        \cup {r \in Refs : InRenewal(r)}
    /\ UNCHANGED <<store, paystack, fired>>

-----------------------------------------------------------------------------
Init == StoreInit

RequestStep(t) == Continues(t) \/ SaveSubscription(t)

Next ==
    \/ \E t \in Tasks : Opens(t) \/ Manages(t) \/ RequestStep(t) \/ RequestThrows(t)
    \/ Trial
    \/ Customer
    \/ \E l \in Loops : Crons(l)
    \/ Tick
    \/ ProcessStops

Spec == Init /\ [][Next]_vars

(***************************************************************************)
(* Fairness.  Time passes; Node.js resumes every handler whose await       *)
(* resolved; Paystack delivers charge.success (a task slot is a bound of   *)
(* the model, so being free again and again must suffice; one delivery is  *)
(* enough where nothing fails, and none is asked for once the row is       *)
(* granted); the process is awake at 3 AM on some late day; the save of a  *)
(* given row does not fail for ever, which holds for owners who are not    *)
(* suspended: the crons' join leaves a suspended owner out, and saving the *)
(* row would clear its user, which the column refuses.  Nothing obliges    *)
(* users, superadmins or customers to act.                                 *)
(***************************************************************************)
Granted(r) == payment[r] # NoPayment /\ \E s \in Matches(r) : sub[s].auth

Fairness ==
    /\ \A t \in Tasks : WF_vars(RequestStep(t))
    /\ WF_vars(Tick)
    /\ \A l \in Loops : WF_vars(RenewalStep(l))
    /\ WF_vars(\E l \in Loops : HandleExpiredSubscriptions(l))
    /\ \A s \in Subs : SF_vars(\E l \in Loops : ExpireOne(l, s))
    /\ \A r \in Refs : SF_vars(~Granted(r) /\ \E t \in Tasks : WebhookChargeSuccess(t, r))

FairSpec == Spec /\ Fairness

-----------------------------------------------------------------------------
(* Properties that hold under every interleaving, failure and stop.        *)

SameOwner(x, y) == x.user = y.user /\ x.plan = y.plan

IsBooked(r) == payment[r] # NoPayment /\ payment[r].status = "success"

PaidFor(u, p) == \E r \in Refs : /\ payment[r] # NoPayment
                                 /\ payment[r].user = u
                                 /\ payment[r].plan = p
                                 /\ charge[r] = "success"

\* A payment recorded as SUCCESS is money Paystack collected: verifyPayment and
\* the renewal cron write SUCCESS only after the charge, however they interleave.
BookedIsCollected ==
    \A r \in Refs : IsBooked(r) => charge[r] = "success"

\* A subscription that is or was active was paid for by its own user, for its
\* own plan: no stale copy saved by an extension, a cancellation or a cron can
\* turn a trial, or somebody else's payment, into one.
PaidRowWasPaid ==
    \A s \in Subs : sub[s] # NoRow /\ sub[s].status \in {"active", "expired"}
                        => PaidFor(sub[s].user, sub[s].plan)

\* A payment booked as SUCCESS has its subscription row, or the request that
\* booked it is about to write one, or that request was cut short.
SuccessIsGranted ==
    \A r \in Refs : IsBooked(r) =>
        \/ Matches(r) # {}
        \/ \E t \in Tasks : task[t].ref = r /\ task[t].pc \in {"finding", "granting"}
        \/ r \in interrupted

\* Money Paystack collected leaves a payment row, unless the process stopped or
\* the failure handler itself failed between the charge and the record.
CollectedIsRecorded ==
    \A r \in Refs : charge[r] = "success" =>
        payment[r] # NoPayment \/ InRenewal(r) \/ r \in interrupted

\* verifyPayment's "create or update": a second row of an account exists only if
\* the request that inserted it had searched the table before the first one was
\* there, or it is a trial, whose request searches for nothing.
InsertsWhatItMissed ==
    \A s \in Subs : \A other \in seen[s] :
        sub[s] # NoRow /\ sub[other] # NoRow => ~SameOwner(sub[s], sub[other])

\* Whoever holds a copy of row s that was read while s was not canceled; the
\* loops read active rows only.
HoldsUncanceled(s) ==
    \/ \E t \in Tasks : At(t, "saving") /\ task[t].id = s /\ task[t].was # "canceled"
    \/ \E l \in Loops : renewal[l].batch[s] # NoRow \/ expiry[l][s] # NoRow

\* A cancellation is undone only by a verified payment for the row or by the
\* save of a copy that was read before it; an extension, a renewal or an expiry
\* that starts afterwards leaves the row canceled.
CancellationSticks ==
    [][\A s \in Subs : sub[s] # NoRow /\ sub[s].status = "canceled" /\ sub'[s].status # "canceled"
           => \/ \E t \in Tasks : At(t, "granting") /\ task[t].id = s
              \/ HoldsUncanceled(s)]_vars

\* The whole module implements PaidAccess: references and subscriptions keep
\* their account, bookings follow collections, and only an account that has
\* paid holds a subscription that is active or expired.
Account(x) == <<x.user, x.plan>>
Payers == [r \in Refs |-> IF payment[r] = NoPayment THEN NoRow ELSE Account(payment[r])]
Holders == [s \in Subs |-> IF sub[s] = NoRow THEN NoRow ELSE Account(sub[s])]
Collected == {r \in Refs : charge[r] = "success"}
Booked == {r \in Refs : IsBooked(r)}
PaidSubs == {s \in Subs : sub[s] # NoRow /\ sub[s].status \in {"active", "expired"}}

Access == INSTANCE PaidAccess WITH
    Accounts <- Users \X Plans, NoOne <- NoRow,
    payer <- Payers, collected <- Collected, booked <- Booked,
    holder <- Holders, paid <- PaidSubs

ImplementsPaidAccess == Access!Spec

-----------------------------------------------------------------------------
(* The inductive invariant: what every entity held across an await keeps   *)
(* true of itself, however stale it has become.                            *)

\* What every copy of a row keeps true: it can be active only if it was paid
\* for, has a card on file, and is due for renewal no later than it ends.
Sound(row) ==
    row.status \in {"active", "expired"} =>
        /\ PaidFor(row.user, row.plan)
        /\ row.auth
        /\ row.end # NoDate
        /\ row.nextCharge # NoDate
        /\ row.nextCharge <= row.end

CopyOfRow(row, s) == sub[s] # NoRow /\ SameOwner(row, sub[s]) /\ Sound(row)

\* What an inserter had searched were rows, and of other accounts than its own.
InsertsSound ==
    \A s \in Subs : \A other \in seen[s] :
        sub[s] # NoRow /\ sub[other] # NoRow /\ ~SameOwner(sub[s], sub[other])

RowsSound == (\A s \in Subs : sub[s] # NoRow => Sound(sub[s])) /\ InsertsSound

TaskSound(t) ==
    /\ task[t].pc \in {"opening", "verifying", "refused", "paid", "finding", "granting",
                      "linking", "failing"}
           => task[t].ref \in Refs /\ payment[task[t].ref] # NoPayment
    /\ task[t].pc \in {"paid", "finding", "granting", "linking"}
           => charge[task[t].ref] = "success"
    /\ task[t].pc = "granting" =>
           /\ task[t].row \in Row
           /\ SameOwner(task[t].row, payment[task[t].ref])
           /\ Sound(task[t].row)
           /\ task[t].id # NoSub => task[t].id \in Matches(task[t].ref)
           /\ task[t].id = NoSub => \A s \in task[t].searched :
                  sub[s] # NoRow /\ ~SameOwner(task[t].row, sub[s])
    /\ task[t].pc = "linking" => Matches(task[t].ref) # {}
    /\ task[t].pc = "saving" =>
           /\ task[t].id \in Subs
           /\ task[t].row \in Row
           /\ CopyOfRow(task[t].row, task[t].id)
           /\ task[t].was = "canceled" => task[t].row.status = "canceled"

RenewalSound(l) ==
    /\ \A s \in Subs : renewal[l].batch[s] # NoRow =>
           CopyOfRow(renewal[l].batch[s], s) /\ renewal[l].batch[s].status = "active"
    /\ renewal[l].pc = "loop" => renewal[l].ref = NoRef
    /\ renewal[l].pc # "loop" =>
           /\ renewal[l].cur \in Subs
           /\ renewal[l].batch[renewal[l].cur] # NoRow
           /\ renewal[l].ref \in Refs
           /\ payment[renewal[l].ref] = NoPayment
           /\ \A other \in Loops \ {l} : renewal[other].ref # renewal[l].ref
    /\ renewal[l].pc \in {"saving", "recording"} => charge[renewal[l].ref] = "success"

ExpirySound(l) ==
    \A s \in Subs : expiry[l][s] # NoRow =>
        CopyOfRow(expiry[l][s], s) /\ expiry[l][s].status = "active"

CopiesSound ==
    /\ RowsSound
    /\ \A t \in Tasks : TaskSound(t)
    /\ \A l \in Loops : RenewalSound(l) /\ ExpirySound(l)

\* A transaction is open at Paystack only after its payment row was saved.
OpenIsRecorded == \A r \in Refs : charge[r] = "open" => payment[r] # NoPayment

LedgerSound ==
    BookedIsCollected /\ CollectedIsRecorded /\ OpenIsRecorded /\ SuccessIsGranted

Inv == TypeOK /\ CopiesSound /\ LedgerSound

-----------------------------------------------------------------------------
(* Claims of the code's comments that the code does not keep.              *)

\* A user with an active subscription in its period passes SubscriptionGuard.
ActiveUserIsAdmitted ==
    \A s \in Subs : sub[s] # NoRow /\ sub[s].status = "active" /\ now <= sub[s].end
        => CanActivate(sub[s].user)

\* The 2 AM loop takes every active row with a card whose next charge date is
\* today or earlier.
Day(date) == date \div Hours

DueTodayIsTaken ==
    [][\A s \in Subs :
           /\ "renewal" \in fired' \ fired
           /\ sub[s] # NoRow
           /\ sub[s].status = "active"
           /\ sub[s].auth
           /\ sub[s].nextCharge # NoDate
           /\ Day(sub[s].nextCharge) <= Day(now)
           => \E l \in Loops : renewal'[l].batch[s] = sub[s]]_vars

-----------------------------------------------------------------------------
(* Liveness.                                                               *)

\* An active row past its end does not stay so: a cron or a payment changes it.
LapsedEnds == \A s \in Subs : s \in LapsedSubs ~> s \notin LapsedSubs

\* An account whose money was collected for a recorded payment eventually has
\* a row granted by a payment, whatever the payment's status was before or is
\* overwritten with later.
PaidIsGranted ==
    \A r \in Refs : (charge[r] = "success" /\ payment[r] # NoPayment) ~> Granted(r)

\* The bound: the loop is to charge a row and no reference is left.
OutOfRefs(l) == renewal[l].pc = "loop" /\ \A r \in Refs : ~Unused(r)

\* The renewal loop always comes to its end, whatever fails in it (it stops
\* short only where the model runs out of references).
RenewalEnds == \A l \in Loops : ~RenewalIdle(l) ~> (RenewalIdle(l) \/ OutOfRefs(l))
=============================================================================
