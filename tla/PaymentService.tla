--------------------------- MODULE PaymentService ---------------------------
(***************************************************************************)
(* PaymentService and the Paystack webhook: a customer opens a payment,    *)
(* pays at Paystack, and the browser, the webhook, or both ask the server  *)
(* to verify it, which grants the subscription.  Every await of a handler  *)
(* is a point where any other handler may run, so every step between two   *)
(* awaits is an action of its own.  Paystack and its customers, outside    *)
(* the repository, are modelled from how PaystackService calls them.       *)
(***************************************************************************)
EXTENDS SubscriptionStore

OwnedBy(s, u, p) == sub[s] # NoRow /\ sub[s].user = u /\ sub[s].plan = p

SetStatus(r, status) == payment' = [payment EXCEPT ![r].status = status]

-----------------------------------------------------------------------------
(* initiatePayment: the row is saved before Paystack is asked to open it. *)

InitiatePayment(t, u, p, r) ==
    /\ Begins(t, "initiate")
    /\ p \in Available
    /\ Unused(r)
    /\ payment' = [payment EXCEPT ![r] = [user |-> u, plan |-> p, status |-> "pending"]]
    /\ task' = [task EXCEPT ![t].pc = "opening", ![t].ref = r]
    /\ UNCHANGED <<now, sub, paystack, crons, interrupted, seen>>

\* Paystack opens a reference once.
OpenTransaction(t) ==
    /\ At(t, "opening")
    /\ charge[task[t].ref] = "none"
    /\ charge' = [charge EXCEPT ![task[t].ref] = "open"]
    /\ Returns(t)
    /\ UNCHANGED <<store, declined, crons, interrupted>>

-----------------------------------------------------------------------------
(* The customer at Paystack.  A declined card leaves the checkout open. *)

CustomerPays(r) ==
    /\ charge[r] = "open"
    /\ charge' = [charge EXCEPT ![r] = "success"]
    /\ UNCHANGED <<store, declined, task, crons, interrupted>>

CustomerDeclined(r) ==
    /\ charge[r] = "open"
    /\ declined' = declined \cup {r}
    /\ UNCHANGED <<store, charge, task, crons, interrupted>>

-----------------------------------------------------------------------------
(* verifyPayment, entered by the customer's browser (POST verify) or by a  *)
(* charge.success webhook.  Paystack delivers an event at least once, at   *)
(* any time after it happened.  No check stops a second verification.      *)

StartVerify(t, r) ==
    /\ payment[r] # NoPayment
    /\ task' = [task EXCEPT ![t].pc = "verifying", ![t].ref = r]
    /\ UNCHANGED <<store, paystack, crons, interrupted>>

VerifyPayment(t, r) == Begins(t, "verify") /\ StartVerify(t, r)

\* Mutant: an event for a payment that is no longer pending is skipped.
WebhookOnlyPending(t, r) ==
    /\ Begins(t, "webhook")
    /\ charge[r] = "success"
    /\ payment[r] # NoPayment
    /\ payment[r].status = "pending"
    /\ StartVerify(t, r)

WebhookChargeSuccess(t, r) ==
    /\ Begins(t, "webhook")
    /\ charge[r] = "success"
    /\ StartVerify(t, r)

\* Paystack does not know a transaction that was never opened: the call throws.
VerifyUnknown(t) ==
    /\ At(t, "verifying")
    /\ charge[task[t].ref] = "none"
    /\ Returns(t)
    /\ UNCHANGED <<store, paystack, crons, interrupted>>

\* Mutant: that Paystack answered is taken for its answer.
AnyOutcome(r) == "paid"

Outcome(r) == IF charge[r] = "success" THEN "paid" ELSE "refused"

VerifyAnswered(t) ==
    /\ At(t, "verifying")
    /\ charge[task[t].ref] # "none"
    /\ Goto(t, Outcome(task[t].ref))
    /\ UNCHANGED <<store, paystack, crons, interrupted>>

RecordRefusal(t) ==
    /\ At(t, "refused")
    /\ SetStatus(task[t].ref, "failed")
    /\ Returns(t)
    /\ UNCHANGED <<now, sub, paystack, crons, interrupted, seen>>

\* Mutant: the payment is booked and nothing is granted.
RecordSuccessOnly(t) ==
    /\ At(t, "paid")
    /\ SetStatus(task[t].ref, "success")
    /\ Returns(t)
    /\ UNCHANGED <<now, sub, paystack, crons, interrupted, seen>>

RecordSuccess(t) ==
    /\ At(t, "paid")
    /\ SetStatus(task[t].ref, "success")
    /\ Goto(t, "finding")
    /\ UNCHANGED <<now, sub, paystack, crons, interrupted, seen>>

\* Mutants: the row is looked up by its user alone, or among the active ones.
MatchesUser(r) == {s \in Subs : sub[s] # NoRow /\ sub[s].user = payment[r].user}
MatchesActive(r) ==
    {s \in Subs : OwnedBy(s, payment[r].user, payment[r].plan) /\ sub[s].status = "active"}

\* The row of the payment's user and plan: any one of them, findOne has no order.
Matches(r) == {s \in Subs : OwnedBy(s, payment[r].user, payment[r].plan)}

Found(r, s) == IF s = NoSub THEN BlankRow(payment[r].user, payment[r].plan) ELSE sub[s]

\* The entity is filled in as soon as the lookup answers.
FindSubscription(t) ==
    /\ At(t, "finding")
    /\ \E s \in IF Matches(task[t].ref) = {} THEN {NoSub} ELSE Matches(task[t].ref) :
           task' = [task EXCEPT ![t].pc = "granting", ![t].id = s,
                        ![t].row = Activated([Found(task[t].ref, s) EXCEPT !.auth = TRUE]),
                        ![t].searched = {x \in Subs : sub[x] # NoRow}]
    /\ UNCHANGED <<store, paystack, crons, interrupted>>

\* A row that was not found is inserted, whatever was inserted meanwhile.
Grant(t) ==
    /\ At(t, "granting")
    /\ IF task[t].id = NoSub
       THEN \E s \in Subs :
              /\ IsNextId(s)
              /\ sub' = [sub EXCEPT ![s] = task[t].row]
              /\ seen' = [seen EXCEPT ![s] = task[t].searched]
       ELSE sub' = [sub EXCEPT ![task[t].id] = task[t].row] /\ UNCHANGED seen
    /\ Goto(t, "linking")
    /\ UNCHANGED <<now, payment, paystack, crons, interrupted>>

\* The second save of the payment entity, whose status is still SUCCESS.
LinkPayment(t) ==
    /\ At(t, "linking")
    /\ SetStatus(task[t].ref, "success")
    /\ Returns(t)
    /\ UNCHANGED <<now, sub, paystack, crons, interrupted, seen>>

-----------------------------------------------------------------------------
(* handlePaymentFailure, entered by a charge.failed webhook. *)

WebhookChargeFailed(t, r) ==
    /\ Begins(t, "webhook")
    /\ r \in declined
    /\ payment[r] # NoPayment
    /\ task' = [task EXCEPT ![t].pc = "failing", ![t].ref = r]
    /\ UNCHANGED <<store, paystack, crons, interrupted>>

RecordFailure(t) ==
    /\ At(t, "failing")
    /\ SetStatus(task[t].ref, "failed")
    /\ Returns(t)
    /\ UNCHANGED <<now, sub, paystack, crons, interrupted, seen>>

-----------------------------------------------------------------------------
(* createTrialSubscription: reads only the plan, then inserts a row. *)

CreateTrialSubscription(u, p) ==
    /\ "trial" \in Requests
    /\ TrialDays[p] # 0
    /\ \E s \in Subs :
         /\ IsNextId(s)
         /\ sub' = [sub EXCEPT ![s] = [BlankRow(u, p) EXCEPT !.trialEnd = now + Days(TrialDays[p])]]
    /\ UNCHANGED <<now, payment, paystack, task, crons, interrupted, seen>>

-----------------------------------------------------------------------------
Opens(t) == \E r \in Refs :
    \/ \E u \in Users, p \in Plans : InitiatePayment(t, u, p, r)
    \/ VerifyPayment(t, r)
    \/ WebhookChargeSuccess(t, r)
    \/ WebhookChargeFailed(t, r)

Continues(t) ==
    \/ OpenTransaction(t)
    \/ VerifyUnknown(t)
    \/ VerifyAnswered(t)
    \/ RecordRefusal(t)
    \/ RecordSuccess(t)
    \/ FindSubscription(t)
    \/ Grant(t)
    \/ LinkPayment(t)
    \/ RecordFailure(t)

Customer == \E r \in Refs : CustomerPays(r) \/ CustomerDeclined(r)

Trial == \E u \in Users, p \in Plans : CreateTrialSubscription(u, p)
=============================================================================
