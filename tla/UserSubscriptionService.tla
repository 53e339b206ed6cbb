---------------------- MODULE UserSubscriptionService ----------------------
(***************************************************************************)
(* UserSubscriptionService: a user or a superadmin cancels a subscription, *)
(* a superadmin extends one.  Each reads the entity, changes it, and saves *)
(* it whole; what others wrote between the read and the save is lost.      *)
(* Also the queries that decide who may pass SubscriptionGuard.            *)
(***************************************************************************)
EXTENDS SubscriptionStore

Postponed(row, days) == (IF row.end = NoDate THEN now ELSE row.end) + Days(days)

\* Mutant: an extension activates the row whatever its status.
ExtendedActive(row, days) ==
    [row EXCEPT !.end = Postponed(row, days), !.status = "active",
                !.nextCharge = Postponed(row, days)]

Extended(row, days) ==
    IF row.status = "expired"
    THEN [row EXCEPT !.end = Postponed(row, days), !.status = "active",
                     !.nextCharge = Postponed(row, days)]
    ELSE [row EXCEPT !.end = Postponed(row, days)]

\* cancelSubscriptionForUser and cancelSubscription differ only in who asks.
CancelSubscription(t, s) ==
    /\ Begins(t, "cancel")
    /\ sub[s] # NoRow
    /\ sub[s].status # "canceled"
    /\ task' = [task EXCEPT ![t].pc = "saving", ![t].id = s, ![t].row = Canceled(sub[s]),
                            ![t].was = sub[s].status]
    /\ UNCHANGED <<store, paystack, crons, interrupted>>

ExtendSubscription(t, s, days) ==
    /\ Begins(t, "extend")
    /\ sub[s] # NoRow
    /\ Extended(sub[s], days).end <= MaxEnd
    /\ task' = [task EXCEPT ![t].pc = "saving", ![t].id = s,
                            ![t].row = Extended(sub[s], days), ![t].was = sub[s].status]
    /\ UNCHANGED <<store, paystack, crons, interrupted>>

SaveSubscription(t) ==
    /\ At(t, "saving")
    /\ sub' = [sub EXCEPT ![task[t].id] = task[t].row]
    /\ Returns(t)
    /\ UNCHANGED <<now, payment, paystack, crons, interrupted, seen>>

Manages(t) == \E s \in Subs :
    \/ CancelSubscription(t, s)
    \/ \E days \in ExtendDays : ExtendSubscription(t, s, days)

-----------------------------------------------------------------------------
(* SubscriptionGuard.canActivate. Ids grow with created_at. *)

CurrentSubs(u) == {s \in Subs : /\ sub[s] # NoRow
                                /\ sub[s].user = u
                                /\ sub[s].status \in {"active", "trial"}}

IsSubscriptionValid(row) ==
    \/ row.status = "trial" /\ (row.trialEnd = NoDate \/ now <= row.trialEnd)
    \/ row.status = "active" /\ (row.end = NoDate \/ now <= row.end)

GetActiveSubscription(u) == CHOOSE s \in CurrentSubs(u) : \A other \in CurrentSubs(u) : other <= s

CanActivate(u) == CurrentSubs(u) # {} /\ IsSubscriptionValid(sub[GetActiveSubscription(u)])

=============================================================================
