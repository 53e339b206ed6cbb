------------------------ MODULE SubscriptionRenewal ------------------------
(***************************************************************************)
(* SubscriptionRenewalService: the 2 AM cron reads every row that is due   *)
(* and charges them one after the other; the 3 AM cron reads every active  *)
(* row past its end and expires them one after the other.  Both work on    *)
(* the entities they read when they started, and a new day's loop starts   *)
(* whether or not the loop of the day before has ended.  On a free host    *)
(* the process may be asleep at either hour: a day may pass without it.    *)
(***************************************************************************)
EXTENDS SubscriptionStore

\* Once at its hour of each day; the last instant stands for all later ones.
Strikes(cron, hour) == (now % Hours = hour /\ cron \notin fired) \/ now = MaxNow

CopyOf(ids) == [s \in Subs |-> IF s \in ids THEN sub[s] ELSE NoRow]

-----------------------------------------------------------------------------
HandleSubscriptionRenewal(l) ==
    /\ Strikes("renewal", RenewalHour)
    /\ RenewalIdle(l)
    /\ fired' = fired \cup {"renewal"}
    /\ renewal' = [renewal EXCEPT ![l].batch = CopyOf(DueSubs)]
    /\ UNCHANGED <<store, paystack, task, expiry, interrupted>>

InHand(l) == renewal[l].batch[renewal[l].cur]

\* The entity s of the loop is charged; the answer decides the next await, and
\* row is the entity as the answer leaves it.
Charges(l, s, r, answer, next, row) ==
    /\ renewal[l].pc = "loop"
    /\ renewal[l].batch[s] # NoRow
    /\ Unused(r)
    /\ charge' = [charge EXCEPT ![r] = answer]
    /\ renewal' = [renewal EXCEPT ![l].pc = next, ![l].cur = s, ![l].ref = r,
                                  ![l].batch[s] = row]
    /\ UNCHANGED <<store, task, fired, expiry, interrupted>>

\* The new dates are counted from the answer.
ChargeSucceeds(l, s, r) ==
    /\ Charges(l, s, r, "success", "saving", Activated(renewal[l].batch[s]))
    /\ UNCHANGED declined

ChargeDeclined(l, s, r) ==
    /\ Charges(l, s, r, "failed", "failing", renewal[l].batch[s])
    /\ declined' = declined \cup {r}

\* The call throws: Paystack may have charged the card or not.
ChargeThrows(l, s, r) ==
    /\ "crons" \in Faults
    /\ \E answer \in {"none", "success"} :
           Charges(l, s, r, answer, "failing", renewal[l].batch[s])
    /\ UNCHANGED declined

NextInLoop(l) == [renewal EXCEPT ![l].pc = "loop", ![l].cur = NoSub, ![l].ref = NoRef,
                                 ![l].batch[renewal[l].cur] = NoRow]

RenewalSave(l) ==
    /\ renewal[l].pc = "saving"
    /\ sub' = [sub EXCEPT ![renewal[l].cur] = InHand(l)]
    /\ renewal' = [renewal EXCEPT ![l].pc = "recording"]
    /\ UNCHANGED <<now, payment, paystack, task, fired, expiry, interrupted, seen>>

RenewalPayment(l, status) ==
    payment' = [payment EXCEPT ![renewal[l].ref] =
        [user |-> InHand(l).user, plan |-> InHand(l).plan, status |-> status]]

RenewalRecord(l) ==
    /\ renewal[l].pc = "recording"
    /\ RenewalPayment(l, "success")
    /\ renewal' = NextInLoop(l)
    /\ UNCHANGED <<now, sub, paystack, task, fired, expiry, interrupted, seen>>

\* Mutant: an exception after the charge only ends the iteration.
RenewalThrowsOn(l) ==
    /\ "crons" \in Faults
    /\ renewal[l].pc \in {"saving", "recording"}
    /\ renewal' = NextInLoop(l)
    /\ UNCHANGED <<store, paystack, task, fired, expiry, interrupted>>

\* Any exception after the charge lands in the failure handler.
RenewalThrows(l) ==
    /\ "crons" \in Faults
    /\ renewal[l].pc \in {"saving", "recording"}
    /\ renewal' = [renewal EXCEPT ![l].pc = "failing"]
    /\ UNCHANGED <<store, paystack, task, fired, expiry, interrupted>>

\* Mutant: the failure handler starts over instead of going on.
RenewalFailureAgain(l) ==
    /\ renewal[l].pc = "failing"
    /\ sub' = [sub EXCEPT ![renewal[l].cur] = Expired(InHand(l))]
    /\ UNCHANGED <<now, payment, paystack, task, crons, interrupted, seen>>

\* handleRenewalFailure
RenewalFailureSave(l) ==
    /\ renewal[l].pc = "failing"
    /\ sub' = [sub EXCEPT ![renewal[l].cur] = Expired(InHand(l))]
    /\ renewal' = [renewal EXCEPT ![l].pc = "recordingFailure"]
    /\ UNCHANGED <<now, payment, paystack, task, fired, expiry, interrupted, seen>>

RenewalFailureRecord(l) ==
    /\ renewal[l].pc = "recordingFailure"
    /\ RenewalPayment(l, "failed")
    /\ renewal' = NextInLoop(l)
    /\ UNCHANGED <<now, sub, paystack, task, fired, expiry, interrupted, seen>>

\* An exception of the failure handler is logged and the loop goes on.
RenewalFailureThrows(l) ==
    /\ "crons" \in Faults
    /\ renewal[l].pc \in {"failing", "recordingFailure"}
    /\ interrupted' = interrupted \cup {renewal[l].ref}
    /\ renewal' = NextInLoop(l)
    /\ UNCHANGED <<store, paystack, task, fired, expiry>>

-----------------------------------------------------------------------------
HandleExpiredSubscriptions(l) ==
    /\ Strikes("expiry", ExpiryHour)
    /\ ExpiryIdle(l)
    /\ fired' = fired \cup {"expiry"}
    /\ expiry' = [expiry EXCEPT ![l] = CopyOf(LapsedSubs)]
    /\ UNCHANGED <<store, paystack, task, renewal, interrupted>>

ExpireOne(l, s) ==
    /\ expiry[l][s] # NoRow
    /\ sub' = [sub EXCEPT ![s] = Expired(expiry[l][s])]
    /\ expiry' = [expiry EXCEPT ![l][s] = NoRow]
    /\ UNCHANGED <<now, payment, paystack, task, fired, renewal, interrupted, seen>>

\* One failed save ends the loop: the rows after it keep their status.
ExpiryThrows(l) ==
    /\ "crons" \in Faults
    /\ ~ExpiryIdle(l)
    /\ expiry' = [expiry EXCEPT ![l] = Nothing]
    /\ UNCHANGED <<store, paystack, task, fired, renewal, interrupted>>

-----------------------------------------------------------------------------
RenewalStep(l) ==
    \/ \E s \in Subs, r \in Refs : ChargeSucceeds(l, s, r) \/ ChargeDeclined(l, s, r)
    \/ RenewalSave(l)
    \/ RenewalRecord(l)
    \/ RenewalFailureSave(l)
    \/ RenewalFailureRecord(l)

RenewalFault(l) ==
    \/ \E s \in Subs, r \in Refs : ChargeThrows(l, s, r)
    \/ RenewalThrows(l)
    \/ RenewalFailureThrows(l)

Crons(l) ==
    \/ HandleSubscriptionRenewal(l)
    \/ RenewalStep(l)
    \/ RenewalFault(l)
    \/ HandleExpiredSubscriptions(l)
    \/ \E s \in Subs : ExpireOne(l, s)
    \/ ExpiryThrows(l)
=============================================================================
